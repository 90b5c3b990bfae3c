---------------------------- MODULE ServiceProofs ----------------------------
(*****************************************************************************)
(* Theorems about the processes a user keeps running: Operations (the        *)
(* launcher and the scheduled tasks) for any number of launchers, and        *)
(* LiveServer (the live server and its pages) for any pages, keys, numbers   *)
(* of events and of connections, and any length of the list of trades.       *)
(*****************************************************************************)
EXTENDS Operations, LiveServer, SumTheorems, SequenceTheorems

(* Every child of a launcher that runs is in procs, or was just started. *)
Tracked ==
    \A l \in Launchers :
        /\ loose[l] \in mode[l] \cup {"none"}
        /\ at[l] # "none" =>
               \A k \in Kinds : child[l][k] # "none" => k \in procs[l] \/ loose[l] = k

(* A launcher that has no children but some told to end, and starts none.  If no launch overtook
   another, all launchers but one are like that.                            *)
Idle(l) ==
    /\ at[l] \in {"none", "watching"} /\ loose[l] = "none"
    /\ \A k \in Kinds : child[l][k] \in {"none"} \cup Ending
OneActive ==
    ~raced => \A l, m \in Launchers : ~Idle(l) /\ ~Idle(m) => l = m

OpsInv == TypeOK /\ Tracked /\ ShutdownTellsAll /\ OneActive

LEMMA InitOps == Init => OpsInv
<1> SUFFICES ASSUME Init
             PROVE  OpsInv
  OBVIOUS
<1>1. TypeOK
  <2>1. /\ at \in [Launchers -> Kinds \cup {"none", "watching"}]
        /\ mode \in [Launchers -> SUBSET Kinds] /\ procs \in [Launchers -> SUBSET Kinds]
        /\ task \in [Launchers -> {"operator"} \cup Tasks]
        /\ loose \in [Launchers -> Kinds \cup {"none"}]
        /\ clean \in [Launchers -> BOOLEAN]
    BY DEF Init
  <2>2. child \in [Launchers -> [Kinds -> ProcessStates]]
    <3>1. [k \in Kinds |-> "none"] \in [Kinds -> ProcessStates]
      BY DEF ProcessStates
    <3> QED
      BY <3>1 DEF Init
  <2> QED
    BY <2>1, <2>2 DEF Init, TypeOK
<1>2. Tracked /\ ShutdownTellsAll /\ OneActive
  BY DEF Init, Tracked, ShutdownTellsAll, OneActive, Idle, Running
<1> QED
  BY <1>1, <1>2 DEF OpsInv

-----------------------------------------------------------------------------
(* A launch that finds the ports free while all others are settled finds them
   idle; every other step of a launcher is one of the active one.             *)
LEMMA BeginOps ==
    ASSUME OpsInv, NEW l \in Launchers, NEW m \in SUBSET Kinds, NEW t \in Tasks \cup {"operator"},
           Begin(l, m, t), tasks' \subseteq Tasks
    PROVE  OpsInv'
<1> USE DEF OpsInv, Kinds, Gui, Live
<1>1. TypeOK'
  BY DEF TypeOK, Begin, Free
<1>2. Tracked'
  BY DEF TypeOK, Begin, Free, Tracked
<1>3. ShutdownTellsAll'
  BY DEF TypeOK, Begin, Free, ShutdownTellsAll, Running
<1>4. OneActive'
  <2> SUFFICES ASSUME ~raced', NEW n \in Launchers, n # l
               PROVE  Idle(n)'
    BY DEF OneActive
  <2>1. Settled(n)
    BY DEF TypeOK, Begin
  <2>2. \A k \in Kinds : child[n][k] # "up"
    BY DEF Begin, PortsFree, InUse
  <2>3. Idle(n)
    BY <2>1, <2>2 DEF Settled, Idle
  <2>4. at'[n] = at[n] /\ loose'[n] = loose[n] /\ child'[n] = child[n]
    BY DEF TypeOK, Begin
  <2> QED
    BY <2>3, <2>4 DEF Idle
<1> QED
  BY <1>1, <1>2, <1>3, <1>4

LEMMA PopenOps ==
    ASSUME OpsInv, NEW l \in Launchers, NEW k \in mode[l], Popen(l, k), ~Idle(l),
           at[l] # "none", loose[l] = "none"
    PROVE  OpsInv'
<1> USE DEF OpsInv, Kinds, Gui, Live
<1>1. TypeOK'
  BY DEF TypeOK, Popen, ProcessStates
<1>2. Tracked'
  BY DEF TypeOK, Popen, Tracked
<1>3. ShutdownTellsAll'
  BY DEF TypeOK, Popen, ShutdownTellsAll, Running
<1>4. OneActive'
  BY DEF TypeOK, Popen, OneActive, Idle
<1> QED
  BY <1>1, <1>2, <1>3, <1>4

(* What a launcher leaves: nothing that was not there, and of what was told to end
   nothing that runs.                                                           *)
LEMMA LeftByIs ==
    ASSUME NEW s \in ProcessStates, NEW told \in BOOLEAN
    PROVE  /\ LeftBy(s, told) \in ProcessStates
           /\ LeftBy(s, told) \in {s, "none"} \cup Ending
           /\ s = "none" \/ told => LeftBy(s, told) \in {"none"} \cup Ending
BY DEF LeftBy, Told, ProcessStates, Ending

LEMMA LeaveOps ==
    ASSUME OpsInv, NEW l \in Launchers, NEW terminated, Leave(l, terminated),
           NEW b \in BOOLEAN, clean' = [clean EXCEPT ![l] = b],
           b => \A k \in Kinds : child[l][k] = "none" \/ k \in terminated
    PROVE  OpsInv'
<1> DEFINE left == [k \in Kinds |-> LeftBy(child[l][k], k \in terminated)]
<1>1. /\ at' = [at EXCEPT ![l] = "none"]
      /\ child' = [child EXCEPT ![l] = left]
      /\ procs' = [procs EXCEPT ![l] = {}] /\ loose' = [loose EXCEPT ![l] = "none"]
      /\ mode' = [mode EXCEPT ![l] = {}] /\ task' = [task EXCEPT ![l] = "operator"]
      /\ UNCHANGED <<tasks, raced>> /\ at[l] # "none"
  BY DEF Leave
<1>2. \A k \in Kinds :
          /\ left[k] \in ProcessStates
          /\ left[k] \in {child[l][k], "none"} \cup Ending
          /\ b => left[k] \in {"none"} \cup Ending
  <2> SUFFICES ASSUME NEW k \in Kinds
               PROVE  /\ LeftBy(child[l][k], k \in terminated) \in ProcessStates
                      /\ LeftBy(child[l][k], k \in terminated) \in {child[l][k], "none"} \cup Ending
                      /\ b => LeftBy(child[l][k], k \in terminated) \in {"none"} \cup Ending
    OBVIOUS
  <2>1. child[l][k] \in ProcessStates /\ (k \in terminated) \in BOOLEAN
    BY DEF OpsInv, TypeOK
  <2> QED
    BY <2>1, LeftByIs
<1>3. left \in [Kinds -> ProcessStates]
  BY <1>2
<1> HIDE DEF left
<1> USE DEF OpsInv
<1>4. TypeOK'
  BY <1>1, <1>3 DEF TypeOK
<1>5. child'[l] = left /\ at'[l] = "none" /\ loose'[l] = "none"
      /\ \A m \in Launchers \ {l} : /\ child'[m] = child[m] /\ at'[m] = at[m] /\ loose'[m] = loose[m]
                                    /\ clean'[m] = clean[m] /\ procs'[m] = procs[m] /\ mode'[m] = mode[m]
  BY <1>1 DEF TypeOK
<1>6. Tracked'
  BY <1>5 DEF Tracked
<1>7. ShutdownTellsAll'
  <2>1. clean'[l] = b
    BY DEF TypeOK
  <2>2. \A k \in Kinds : b => left[k] \notin {"starting", "up"}
    BY <1>2 DEF Ending
  <2> QED
    BY <1>5, <2>1, <2>2 DEF ShutdownTellsAll, Running
<1>8. OneActive'
  <2>1. Idle(l) => Idle(l)'
    BY <1>2, <1>5 DEF Idle
  <2>2. \A m \in Launchers \ {l} : Idle(m)' <=> Idle(m)
    BY <1>5 DEF Idle
  <2> QED
    BY <1>1, <2>1, <2>2 DEF OneActive
<1> QED
  BY <1>4, <1>6, <1>7, <1>8

LEMMA BecomeOps ==
    ASSUME OpsInv, NEW l \in Launchers, NEW k \in Kinds, NEW s \in ProcessStates,
           \/ Running(l, k)
           \/ child[l][k] \in Ending /\ s \in {"draining", "none"},
           Become(l, k, s)
    PROVE  OpsInv'
<1> USE DEF OpsInv, Kinds, Gui, Live, Ending
<1>1. TypeOK'
  BY DEF TypeOK, Become, ProcessStates, launcherVars
<1>2. Tracked'
  BY DEF TypeOK, Become, Tracked, launcherVars, Running
<1>3. ShutdownTellsAll'
  BY DEF TypeOK, Become, ShutdownTellsAll, launcherVars, Running
<1>4. OneActive'
  <2> DEFINE t == IF s = "exited" /\ at[l] = "none" THEN "none" ELSE s
  <2>a. at' = at /\ loose' = loose /\ raced' = raced /\ child' = [child EXCEPT ![l][k] = t]
    BY DEF Become, launcherVars
  <2>b. s # "exited" => t = s
    OBVIOUS
  <2> HIDE DEF t
  <2>1. /\ \A m \in Launchers \ {l} : child'[m] = child[m]
        /\ child'[l][k] = t /\ \A n \in Kinds \ {k} : child'[l][n] = child[l][n]
    BY <2>a DEF TypeOK
  <2>2. \A m \in Launchers \ {l} : Idle(m)' <=> Idle(m)
    BY <2>a, <2>1 DEF Idle
  <2>3. Running(l, k) => ~Idle(l)
    BY DEF Idle, Running
  <2>4. ~Running(l, k) => (Idle(l) => Idle(l)')
    BY <2>a, <2>b, <2>1 DEF Idle
  <2> QED
    BY <2>a, <2>2, <2>3, <2>4 DEF OneActive
<1> QED
  BY <1>1, <1>2, <1>3, <1>4

LEMMA StepOps == OpsInv /\ [Next]_vars => OpsInv'
<1> SUFFICES ASSUME OpsInv, [Next]_vars
             PROVE  OpsInv'
  OBVIOUS
<1> USE DEF Kinds, Gui, Live
<1>1. CASE Launch
  BY <1>1, BeginOps DEF Launch, OpsInv, TypeOK
<1>2. ASSUME NEW l \in Launchers, StartChild(l)
      PROVE  OpsInv'
  BY <1>2, PopenOps DEF StartChild, Idle, OpsInv, TypeOK
<1>3. ASSUME NEW l \in Launchers, NotWanted(l)
      PROVE  OpsInv'
  <2>1. TypeOK'
    BY <1>3 DEF OpsInv, TypeOK, NotWanted, After
  <2>2. Tracked' /\ ShutdownTellsAll'
    BY <1>3 DEF OpsInv, TypeOK, NotWanted, After, Tracked, ShutdownTellsAll, Running
  <2>3. OneActive'
    BY <1>3 DEF OpsInv, TypeOK, NotWanted, After, OneActive, Idle
  <2> QED
    BY <2>1, <2>2, <2>3 DEF OpsInv
<1>4. ASSUME NEW l \in Launchers, NoteChild(l)
      PROVE  OpsInv'
  <2>1. loose[l] \in mode[l] /\ loose[l] \in Kinds
    BY <1>4 DEF OpsInv, TypeOK, Tracked, NoteChild
  <2>2. TypeOK'
    BY <1>4, <2>1 DEF OpsInv, TypeOK, NoteChild, After
  <2>3. Tracked' /\ ShutdownTellsAll'
    BY <1>4, <2>1 DEF OpsInv, TypeOK, NoteChild, After, Tracked, ShutdownTellsAll, Running
  <2>4. OneActive'
    BY <1>4, <2>1 DEF OpsInv, TypeOK, NoteChild, After, OneActive, Idle
  <2> QED
    BY <2>2, <2>3, <2>4 DEF OpsInv
<1>5. ASSUME NEW l \in Launchers, RestartGui(l)
      PROVE  OpsInv'
  BY <1>5, PopenOps DEF RestartGui, Ended, Idle, Ending, OpsInv, TypeOK
<1>6. ASSUME NEW l \in Launchers, AlertLive(l)
      PROVE  OpsInv'
  <2>1. TypeOK'
    BY <1>6 DEF OpsInv, TypeOK, AlertLive, Ended, ProcessStates
  <2>2. Tracked' /\ ShutdownTellsAll'
    BY <1>6 DEF OpsInv, TypeOK, AlertLive, Ended, Tracked, ShutdownTellsAll, Running
  <2>3. OneActive'
    BY <1>6 DEF OpsInv, TypeOK, AlertLive, Ended, OneActive, Idle
  <2> QED
    BY <2>1, <2>2, <2>3 DEF OpsInv
<1>7. ASSUME NEW l \in Launchers, Shutdown(l) \/ KillLauncher(l)
      PROVE  OpsInv'
  <2>1. CASE Shutdown(l)
    <3>1. loose[l] = "none" => \A k \in Kinds : child[l][k] = "none" \/ k \in procs[l] \ {loose[l]}
      BY <2>1 DEF OpsInv, TypeOK, Tracked, Shutdown, Leave
    <3> QED
      BY <2>1, <3>1, LeaveOps DEF Shutdown
  <2>2. CASE KillLauncher(l)
    BY <2>2, LeaveOps DEF KillLauncher
  <2> QED
    BY <1>7, <2>1, <2>2
<1>8. ASSUME NEW l \in Launchers, NEW k \in Kinds,
             Bind(l, k) \/ Exit(l, k) \/ StopListening(l, k) \/ Gone(l, k)
      PROVE  OpsInv'
  <2>1. \A s \in {"none", "up", "exited", "draining"} : s \in ProcessStates
    BY DEF ProcessStates, Ending
  <2>2. CASE Bind(l, k) \/ Exit(l, k)
    BY <2>1, <2>2, BecomeOps DEF Bind, Exit, Running
  <2>3. CASE StopListening(l, k) \/ Gone(l, k)
    BY <2>1, <2>3, BecomeOps DEF StopListening, Gone, Ending
  <2> QED
    BY <1>8, <2>2, <2>3
<1>9. CASE KillPython
  BY <1>9 DEF KillPython, Strikes, OpsInv, TypeOK, Tracked, ShutdownTellsAll, Running, OneActive, Idle, ProcessStates
<1>10. CASE UNCHANGED <<launcherVars, child, raced>> /\ tasks' \subseteq Tasks
  BY <1>10 DEF launcherVars, OpsInv, TypeOK, Tracked, ShutdownTellsAll, Running, OneActive, Idle
<1>11. ASSUME NEW t \in Tasks, Install(t) \/ Uninstall(t)
       PROVE  OpsInv'
  BY <1>10, <1>11 DEF Install, Uninstall, OpsInv, TypeOK
<1>12. CASE StartCrypto \/ StartAShare
  BY <1>12, BeginOps DEF StartCrypto, StartAShare, Scheduled, Strikes, Tasks, OpsInv, TypeOK
<1>13. CASE UNCHANGED vars
  BY <1>10, <1>13 DEF vars, OpsInv, TypeOK
<1> QED
  BY <1>1, <1>2, <1>3, <1>4, <1>5, <1>6, <1>7, <1>8, <1>9, <1>11, <1>12, <1>13
     DEF Next, Step, Watch

LEMMA OpsInvariant == Spec => []OpsInv
BY InitOps, StepOps, PTL DEF Spec

-----------------------------------------------------------------------------
(* The state of launchers, children and tasks keeps its type: a launcher notes
   only children it was to start, and one that has ended has none noted.       *)
THEOREM OperationsTypeCorrect == Spec => []TypeOK
<1>1. OpsInv => TypeOK
  BY DEF OpsInv
<1> QED
  BY <1>1, OpsInvariant, PTL

(* A launcher that was told to stop, at any moment but between starting a child
   and noting it, leaves no process behind that was not told to end.            *)
THEOREM OperationsShutdownTellsAll == Spec => []ShutdownTellsAll
<1>1. OpsInv => ShutdownTellsAll
  BY DEF OpsInv
<1> QED
  BY <1>1, OpsInvariant, PTL

(* However many launchers and scheduled tasks there are: there is one dashboard
   and one live server at a time besides those told to end, if no launch overtook
   another.                                                                     *)
THEOREM OperationsOneOfEach == Spec => []OneOfEach
<1>1. ASSUME OpsInv, ~raced, NEW k \in Kinds
      PROVE  Cardinality({l \in Launchers : Running(l, k)}) <= 1
  <2> DEFINE S == {l \in Launchers : Running(l, k)}
  <2>1. \A l, m \in S : l = m
    BY <1>1 DEF OpsInv, OneActive, Idle, Running, Ending
  <2> HIDE DEF S
  <2>2. CASE S = {}
    BY <2>2, FS_EmptySet DEF S
  <2>3. CASE S # {}
    <3>1. PICK l \in S : TRUE
      BY <2>3
    <3>2. S = {l}
      BY <2>1, <3>1
    <3> QED
      BY <3>2, FS_Singleton DEF S
  <2> QED
    BY <2>2, <2>3
<1>2. OpsInv => OneOfEach
  BY <1>1 DEF OneOfEach
<1> QED
  BY <1>2, OpsInvariant, PTL

(* "FastAPI crash -> ALERT ONLY, no auto-restart" (launcher.py): a live server is
   only ever started by a launch.                                              *)
THEOREM OperationsNoAutoRestart == Spec => NoAutoRestart
<1>1. ASSUME TypeOK, [Next]_vars, NEW l \in Launchers,
             ~Running(l, Live), child'[l][Live] = "starting"
      PROVE  at[l] = Live
  <2> USE DEF Kinds, Gui, Live
  <2>1. child'[l][Live] # child[l][Live] /\ child'[l][Live] # "none" /\ child'[l][Live] # "exited"
    BY <1>1 DEF Running
  <2>2. ~(UNCHANGED child)
    BY <2>1
  <2>3. ~Launch /\ ~StartAShare /\ ~StartCrypto
    BY <2>2 DEF Launch, StartAShare, StartCrypto, Scheduled, Begin
  <2>4. ~KillPython /\ \A t \in Tasks : ~Install(t) /\ ~Uninstall(t)
    BY <2>1, <2>2 DEF KillPython, Install, Uninstall
  <2>5. ASSUME NEW m \in Launchers
        PROVE  /\ ~NotWanted(m) /\ ~NoteChild(m) /\ ~AlertLive(m)
               /\ ~Shutdown(m) /\ ~KillLauncher(m)
    <3>1. ~NotWanted(m) /\ ~NoteChild(m)
      BY <2>2 DEF NotWanted, NoteChild
    <3>2. ~AlertLive(m)
      BY <1>1, <2>1 DEF AlertLive, TypeOK
    <3>3. ASSUME NEW terminated
          PROVE  ~Leave(m, terminated)
      <4> DEFINE left == [k \in Kinds |-> LeftBy(child[m][k], k \in terminated)]
      <4>1. left[Live] \in {child[m][Live], "none"} \cup Ending
        <5>1. child[m][Live] \in ProcessStates /\ (Live \in terminated) \in BOOLEAN
          BY <1>1 DEF TypeOK
        <5>2. left[Live] = LeftBy(child[m][Live], Live \in terminated)
          OBVIOUS
        <5> QED
          BY <5>1, <5>2, LeftByIs
      <4> HIDE DEF left
      <4> SUFFICES ASSUME child' = [child EXCEPT ![m] = left]
                   PROVE  FALSE
        BY DEF Leave, left
      <4> QED
        BY <1>1, <2>1, <4>1 DEF TypeOK, Ending
    <3>4. ~Shutdown(m) /\ ~KillLauncher(m)
      BY <3>3 DEF Shutdown, KillLauncher
    <3> QED
      BY <3>1, <3>2, <3>4
  <2>6. ASSUME NEW m \in Launchers, NEW k \in Kinds
        PROVE  ~Bind(m, k) /\ ~Exit(m, k) /\ ~StopListening(m, k) /\ ~Gone(m, k)
    <3>1. ASSUME NEW s \in {"up", "exited", "draining", "none"}
          PROVE  ~Become(m, k, s)
      <4> DEFINE t == IF s = "exited" /\ at[m] = "none" THEN "none" ELSE s
      <4>1. t # "starting"
        OBVIOUS
      <4> HIDE DEF t
      <4> SUFFICES ASSUME child' = [child EXCEPT ![m][k] = t]
                   PROVE  FALSE
        BY DEF Become, t
      <4> QED
        BY <1>1, <2>1, <4>1 DEF TypeOK
    <3> QED
      BY <3>1 DEF Bind, Exit, StopListening, Gone
  <2>7. PICK m \in Launchers : StartChild(m) \/ RestartGui(m)
    BY <1>1, <2>2, <2>3, <2>4, <2>5, <2>6 DEF Next, Step, Watch, vars
  <2> QED
    BY <1>1, <2>7 DEF StartChild, RestartGui, Popen, TypeOK, Running, Kinds
<1>2. TypeOK /\ [Next]_vars =>
        [\A l \in Launchers :
            ~Running(l, Live) /\ child'[l][Live] = "starting" => at[l] = Live]_vars
  BY <1>1
<1> QED
  BY <1>2, OperationsTypeCorrect, PTL DEF Spec, NoAutoRestart

-----------------------------------------------------------------------------
(* What a page shows after a sequence of messages.  FoldLeft is a recursion over
   the set of indices, of which it takes the largest first.                    *)
Seen(show, q) == FoldLeft(See, show, q)
Largest(s) == Max(s)
IsSeen(h, show, q, S) ==
    h = [s \in SUBSET S |->
            IF s = {} THEN show ELSE See(h[s \ {Largest(s)}], q[Largest(s)])]

LEMMA SeenIsIter ==
    ASSUME NEW show, NEW q
    PROVE  Seen(show, q) = (CHOOSE h : IsSeen(h, show, q, DOMAIN q))[DOMAIN q]
BY DEF Seen, FoldLeft, MapThenFoldSet, IsSeen, Largest

LEMMA LargestIs ==
    ASSUME NEW S \in SUBSET Int, IsFiniteSet(S), S # {}
    PROVE  /\ Largest(S) \in S /\ \A x \in S : x <= Largest(S)
           /\ S \ {Largest(S)} \in SUBSET S /\ S \ {Largest(S)} # S
<1> DEFINE Good == {s \in SUBSET S : s # {} => \E x \in s : \A y \in s : x >= y}
<1>1. ASSUME NEW s \in SUBSET S, \A u \in SUBSET s : u # s => u \in Good
      PROVE  s \in Good
  <2> SUFFICES ASSUME s # {}
               PROVE  \E x \in s : \A y \in s : x >= y
    OBVIOUS
  <2>1. PICK x \in s : TRUE
    OBVIOUS
  <2>2. x \in Int
    OBVIOUS
  <2>3. CASE s = {x}
    BY <2>2, <2>3
  <2>4. CASE s # {x}
    <3>1. s \ {x} \in Good /\ s \ {x} # {}
      BY <1>1, <2>1, <2>4
    <3>2. PICK m \in s \ {x} : \A y \in s \ {x} : m >= y
      BY <3>1
    <3>3. m \in Int
      OBVIOUS
    <3>4. CASE m >= x
      BY <3>2, <3>4
    <3>5. CASE ~(m >= x)
      <4>1. \A y \in s \ {x} : y \in Int /\ m >= y
        BY <3>2
      <4>2. \A y \in s : x >= y
        BY <2>2, <3>3, <3>5, <4>1
      <4> QED
        BY <4>2
    <3> QED
      BY <3>4, <3>5
  <2> QED
    BY <2>3, <2>4
<1>2. \A s \in SUBSET S : s \in Good
  <2> HIDE DEF Good
  <2> QED
    BY <1>1, SubsetInduction
<1>3. \E x \in S : \A y \in S : x >= y
  BY <1>2
<1>4. Largest(S) \in S /\ \A y \in S : Largest(S) >= y
  BY <1>3 DEF Largest, Max
<1>5. \A y \in S : y <= Largest(S)
  BY <1>4
<1> QED
  BY <1>4, <1>5

LEMMA SeenAgree ==
    ASSUME NEW S \in SUBSET Int, IsFiniteSet(S), NEW show, NEW q, NEW r, NEW h, NEW k,
           NEW U \in SUBSET S, \A i \in U : q[i] = r[i],
           IsSeen(h, show, q, S), IsSeen(k, show, r, U)
    PROVE  \A s \in SUBSET U : h[s] = k[s]
<1> DEFINE Good == {s \in SUBSET U : h[s] = k[s]}
<1>1. IsFiniteSet(U)
  BY FS_Subset
<1>2. ASSUME NEW s \in SUBSET U, \A u \in SUBSET s : u # s => u \in Good
      PROVE  s \in Good
  <2>1. CASE s = {}
    BY <2>1 DEF IsSeen
  <2>2. CASE s # {}
    <3> DEFINE x == Largest(s)
               u == s \ {x}
    <3>1. IsFiniteSet(s) /\ s \in SUBSET Int
      BY <1>1, FS_Subset
    <3>2. x \in s /\ u \in SUBSET s /\ u # s
      BY <2>2, <3>1, LargestIs
    <3> HIDE DEF x
    <3>3. h[u] = k[u] /\ q[x] = r[x]
      BY <1>2, <3>2
    <3>4. h[s] = See(h[u], q[x])
      BY <2>2 DEF IsSeen, x
    <3>5. k[s] = See(k[u], r[x])
      BY <2>2 DEF IsSeen, x
    <3> QED
      BY <3>3, <3>4, <3>5
  <2> QED
    BY <2>1, <2>2
<1>3. \A s \in SUBSET U : s \in Good
  <2> HIDE DEF Good
  <2> QED
    BY <1>1, <1>2, SubsetInduction
<1> QED
  BY <1>3

LEMMA SeenExists ==
    ASSUME NEW S \in SUBSET Int, IsFiniteSet(S), NEW show, NEW q
    PROVE  \E h : IsSeen(h, show, q, S)
<1> DEFINE Good == {s \in SUBSET S : \E h : IsSeen(h, show, q, s)}
<1> SUFFICES ASSUME NEW m \in SUBSET S, \A u \in SUBSET m : u # m => u \in Good
             PROVE  m \in Good
  <2>1. \A s \in SUBSET S : s \in Good
    <3> HIDE DEF Good
    <3> QED
      BY SubsetInduction
  <2> QED
    BY <2>1
<1> DEFINE K(u) == CHOOSE h : IsSeen(h, show, q, u)
           G(u) == K(u)[u]
           B(s) == IF s = {} THEN show ELSE See(G(s \ {Largest(s)}), q[Largest(s)])
           H == [s \in SUBSET m |-> B(s)]
<1>1. \A u \in SUBSET m : IsFiniteSet(u) /\ u \in SUBSET Int
  BY FS_Subset
<1>2. ASSUME NEW u \in SUBSET m, u # m
      PROVE  IsSeen(K(u), show, q, u)
  <2>1. \E h : IsSeen(h, show, q, u)
    BY <1>2
  <2> QED
    BY <2>1
<1>3. ASSUME NEW u \in SUBSET m, u # m
      PROVE  H[u] = G(u)
  <2>1. IsSeen(K(u), show, q, u)
    BY <1>2, <1>3
  <2>2. CASE u = {}
    <3> HIDE DEF K
    <3>1. K(u)[u] = show
      BY <2>1, <2>2 DEF IsSeen
    <3> QED
      BY <3>1, <2>2
  <2>3. CASE u # {}
    <3> DEFINE v == u \ {Largest(u)}
    <3>1. v \in SUBSET u /\ v \in SUBSET m /\ v # m /\ u \in SUBSET Int /\ IsFiniteSet(u)
      BY <1>1, <1>3, <2>3, LargestIs
    <3>2. IsSeen(K(v), show, q, v)
      BY <1>2, <3>1
    <3>3. K(u)[v] = G(v)
      <4>1. \A s \in SUBSET v : K(u)[s] = K(v)[s]
        <5> HIDE DEF K, v
        <5> QED
          BY <2>1, <3>1, <3>2, SeenAgree
      <4> QED
        BY <4>1
    <3>4. K(u)[u] = See(K(u)[v], q[Largest(u)])
      <4> HIDE DEF K
      <4> QED
        BY <2>1, <2>3 DEF IsSeen
    <3>5. H[u] = See(G(v), q[Largest(u)])
      BY <2>3
    <3> QED
      BY <3>3, <3>4, <3>5
  <2> QED
    BY <2>2, <2>3
<1>4. ASSUME NEW s \in SUBSET m, s # {}
      PROVE  H[s] = See(H[s \ {Largest(s)}], q[Largest(s)])
  <2>1. s \ {Largest(s)} \in SUBSET m /\ s \ {Largest(s)} # m
    BY <1>1, <1>4, LargestIs
  <2>2. H[s \ {Largest(s)}] = G(s \ {Largest(s)})
    BY <2>1, <1>3
  <2> QED
    BY <1>4, <2>2
<1>5. H[{}] = show
  OBVIOUS
<1>6. IsSeen(H, show, q, m)
  <2>1. H = [s \in SUBSET m |-> H[s]]
    <3> HIDE DEF B
    <3> QED
      OBVIOUS
  <2> HIDE DEF H
  <2> QED
    BY <1>4, <1>5, <2>1 DEF IsSeen
<1> QED
  BY <1>6

(* Nothing seen, and one message more. *)
LEMMA SeenNothing ==
    ASSUME NEW show
    PROVE  Seen(show, << >>) = show
<1> DEFINE h == CHOOSE k : IsSeen(k, show, << >>, {})
<1>1. IsSeen(h, show, << >>, {}) /\ DOMAIN << >> = {}
  BY SeenExists, FS_EmptySet
<1>2. h[{}] = show
  <2> HIDE DEF h
  <2> QED
    BY <1>1 DEF IsSeen
<1> QED
  BY <1>1, <1>2, SeenIsIter

(* One more message is seen after all the others. *)
LEMMA SeenAppend ==
    ASSUME NEW T, NEW q \in Seq(T), NEW m \in T, NEW show
    PROVE  Seen(show, Append(q, m)) = See(Seen(show, q), m)
<1> DEFINE n == Len(q)
           r == Append(q, m)
           U == 1 .. n
           S == 1 .. n + 1
           h == CHOOSE k : IsSeen(k, show, r, S)
           g == CHOOSE k : IsSeen(k, show, q, U)
<1>1. /\ n \in Nat /\ DOMAIN q = U /\ DOMAIN r = S
      /\ r[n + 1] = m /\ \A i \in U : r[i] = q[i]
      /\ U \in SUBSET S /\ S \in SUBSET Int /\ n + 1 \in S /\ S \ {n + 1} = U /\ S # {}
  OBVIOUS
<1>2. IsFiniteSet(S) /\ IsFiniteSet(U)
  BY <1>1, FS_Interval
<1>3. Largest(S) = n + 1
  <2>1. Largest(S) \in S /\ \A x \in S : x <= Largest(S)
    <3> HIDE DEF S
    <3> QED
      BY <1>1, <1>2, LargestIs
  <2> QED
    BY <1>1, <2>1
<1>4. IsSeen(h, show, r, S) /\ IsSeen(g, show, q, U)
  <2>1. (\E k : IsSeen(k, show, r, S)) /\ (\E k : IsSeen(k, show, q, U))
    <3> HIDE DEF S, U, r
    <3> QED
      BY <1>1, <1>2, SeenExists
  <2> QED
    BY <2>1
<1>5. Seen(show, r) = h[S] /\ Seen(show, q) = g[U]
  BY <1>1, SeenIsIter
<1>6. h[U] = g[U]
  <2>1. \A s \in SUBSET U : h[s] = g[s]
    <3> HIDE DEF h, g, S, U, r, n
    <3> QED
      BY <1>1, <1>2, <1>4, SeenAgree
  <2> QED
    BY <2>1
<1>7. h[S] = See(h[U], m)
  <2> HIDE DEF h, S, r, n, U
  <2> QED
    BY <1>1, <1>3, <1>4 DEF IsSeen
<1> QED
  BY <1>5, <1>6, <1>7

(* Induction on sequences, with the set of those of which a claim holds. *)
LEMMA SequenceInduction ==
    ASSUME NEW T, NEW Good, << >> \in Good,
           \A q \in Seq(T), m \in T : q \in Good => Append(q, m) \in Good
    PROVE  \A q \in Seq(T) : q \in Good
<1> SUFFICES ASSUME NEW q \in Seq(T)
             PROVE  q \in Good
  OBVIOUS
<1> DEFINE n == Len(q)
           S == 1 .. n
           P(i) == SubSeq(q, 1, i)
           Fine == {s \in SUBSET S : \A i \in 0 .. n : s = 1 .. i => P(i) \in Good}
<1>1. n \in Nat /\ IsFiniteSet(S)
  BY FS_Interval
<1>2. ASSUME NEW s \in SUBSET S, \A u \in SUBSET s : u # s => u \in Fine
      PROVE  s \in Fine
  <2> SUFFICES ASSUME NEW i \in 0 .. n, s = 1 .. i
               PROVE  P(i) \in Good
    OBVIOUS
  <2>1. CASE i = 0
    <3>1. P(i) = << >>
      BY <2>1
    <3> QED
      BY <3>1
  <2>2. CASE i # 0
    <3>1. /\ i - 1 \in 0 .. n /\ i \in 1 .. n
          /\ 1 .. i - 1 \in SUBSET s /\ 1 .. i - 1 # s
      BY <1>1, <2>2
    <3>2. P(i - 1) \in Good
      BY <1>2, <3>1
    <3>3. P(i - 1) \in Seq(T) /\ q[i] \in T /\ P(i) = Append(P(i - 1), q[i])
      BY <1>1, <3>1
    <3> QED
      BY <3>2, <3>3
  <2> QED
    BY <2>1, <2>2
<1>3. \A s \in SUBSET S : s \in Fine
  <2> HIDE DEF Fine, S
  <2> QED
    BY <1>1, <1>2, SubsetInduction
<1>4. S \in Fine /\ n \in 0 .. n
  BY <1>1, <1>3
<1>5. P(n) \in Good
  BY <1>4
<1>6. P(n) = q
  BY <1>1
<1> QED
  BY <1>5, <1>6

(* The first message is seen before all the others. *)
LEMMA SeenHead ==
    ASSUME NEW T, NEW m \in T, NEW show
    PROVE  \A q \in Seq(T) : Seen(show, <<m>> \o q) = Seen(See(show, m), q)
<1> DEFINE Good == {q \in Seq(T) : Seen(show, <<m>> \o q) = Seen(See(show, m), q)}
<1>1. << >> \in Good
  <2>1. <<m>> \o << >> = Append(<< >>, m) /\ << >> \in Seq(T)
    OBVIOUS
  <2>2. Seen(show, Append(<< >>, m)) = See(Seen(show, << >>), m)
    BY <2>1, SeenAppend
  <2> QED
    BY <2>1, <2>2, SeenNothing
<1>2. ASSUME NEW q \in Seq(T), NEW x \in T, q \in Good
      PROVE  Append(q, x) \in Good
  <2>1. /\ <<m>> \o q \in Seq(T) /\ Append(q, x) \in Seq(T)
        /\ <<m>> \o Append(q, x) = Append(<<m>> \o q, x)
    OBVIOUS
  <2>2. Seen(show, Append(<<m>> \o q, x)) = See(Seen(show, <<m>> \o q), x)
    BY <2>1, SeenAppend
  <2>3. Seen(See(show, m), Append(q, x)) = See(Seen(See(show, m), q), x)
    BY SeenAppend
  <2> QED
    BY <1>2, <2>1, <2>2, <2>3
<1>3. \A q \in Seq(T) : q \in Good
  <2> HIDE DEF Good
  <2> QED
    BY <1>1, <1>2, SequenceInduction
<1> QED
  BY <1>3

(* What messages do.  A value is -1 where nothing was seen of it. *)
ShowType == {show \in [value : [Keys -> Int], trades : Seq(Nat)] : Len(show.trades) <= TradesKept}
Published == [key : Keys \cup {"trade"}, value : Nat]
Message == Published \cup {NoMessage}
Snapshot == [key : {"snapshot"}, value : ShowType]

(* What shows, messages and lists of trades consist of. *)
LEMMA ShowIs ==
    ASSUME NEW show \in ShowType
    PROVE  /\ show.value \in [Keys -> Int] /\ show.trades \in Seq(Nat)
           /\ Len(show.trades) \in Nat /\ Len(show.trades) <= TradesKept
           /\ show = [value |-> show.value, trades |-> show.trades]
BY DEF ShowType

LEMMA KeptIs ==
    ASSUME NEW t \in Seq(Nat)
    PROVE  /\ Kept(t) \in Seq(Nat) /\ Len(Kept(t)) <= TradesKept
           /\ Len(Kept(t)) = IF Len(t) > TradesKept THEN TradesKept ELSE Len(t)
           /\ \A i \in 1 .. Len(Kept(t)) : i \in 1 .. Len(t) /\ Kept(t)[i] = t[i]
<1>1. TradesKept \in Nat
  BY LiveServerAssumption
<1> QED
  BY <1>1 DEF Kept

LEMMA SeeIs ==
    ASSUME NEW show \in ShowType, NEW m \in Message
    PROVE  /\ m.key = "none" => See(show, m) = show
           /\ m.key = "trade" =>
                 See(show, m) = [value |-> show.value, trades |-> Kept(<<m.value>> \o show.trades)]
           /\ m.key \in Keys =>
                 See(show, m) = [value |-> [show.value EXCEPT ![m.key] = m.value],
                                 trades |-> show.trades]
           /\ m.key \in Keys \cup {"none", "trade"} /\ m.value \in Nat
<1>1. m.key \in Keys \cup {"none", "trade"} /\ m.value \in Nat
  BY DEF Message, Published, NoMessage, Absent
<1>2. CASE m.key = "none"
  BY <1>1, <1>2, LiveServerAssumption DEF See
<1>3. CASE m.key = "trade"
  <2>1. See(show, m) = [show EXCEPT !.trades = Kept(<<m.value>> \o @)]
    BY <1>3 DEF See, Render
  <2>2. See(show, m) = [value |-> show.value, trades |-> Kept(<<m.value>> \o show.trades)]
    BY <2>1, ShowIs
  <2> QED
    BY <1>1, <1>3, <2>2, LiveServerAssumption
<1>4. CASE m.key \in Keys
  <2>1. m.key \notin {"none", "snapshot", "trade"}
    BY <1>4, LiveServerAssumption
  <2>2. See(show, m) = [show EXCEPT !.value[m.key] = m.value]
    BY <2>1 DEF See, Render
  <2>3. See(show, m) = [value |-> [show.value EXCEPT ![m.key] = m.value], trades |-> show.trades]
    BY <2>2, ShowIs
  <2> QED
    BY <1>1, <2>1, <2>3
<1> QED
  BY <1>1, <1>2, <1>3, <1>4

(* Whatever a page renders, it shows values and no more trades than it keeps. *)
LEMMA SeeType ==
    ASSUME NEW show \in ShowType, NEW m \in Message \cup Snapshot
    PROVE  See(show, m) \in ShowType
<1>1. CASE m \in Snapshot
  BY <1>1, ShowIs DEF See, Render, Snapshot
<1>2. CASE m \in Message
  <2>1. show.value \in [Keys -> Int] /\ show.trades \in Seq(Nat) /\ m.value \in Nat
    BY <1>2, ShowIs, SeeIs
  <2>2. <<m.value>> \o show.trades \in Seq(Nat)
    BY <2>1
  <2>3. CASE m.key = "none"
    BY <1>2, <2>3, SeeIs
  <2>4. CASE m.key = "trade"
    <3>1. See(show, m) = [value |-> show.value, trades |-> Kept(<<m.value>> \o show.trades)]
      BY <1>2, <2>4, SeeIs
    <3>2. Kept(<<m.value>> \o show.trades) \in Seq(Nat) /\ Len(Kept(<<m.value>> \o show.trades)) <= TradesKept
      BY <2>2, KeptIs
    <3> QED
      BY <2>1, <3>1, <3>2 DEF ShowType
  <2>5. CASE m.key \in Keys
    <3>1. See(show, m) = [value |-> [show.value EXCEPT ![m.key] = m.value], trades |-> show.trades]
      BY <1>2, <2>5, SeeIs
    <3>2. PICK v \in [Keys -> Int], k \in Keys, x \in Int : v = show.value /\ k = m.key /\ x = m.value
      BY <2>1, <2>5
    <3>3. [v EXCEPT ![k] = x] \in [Keys -> Int]
      OBVIOUS
    <3>4. [show.value EXCEPT ![m.key] = m.value] \in [Keys -> Int] /\ Len(show.trades) <= TradesKept
      BY <3>2, <3>3, ShowIs
    <3> QED
      BY <2>1, <3>1, <3>4 DEF ShowType
  <2> QED
    BY <1>2, <2>3, <2>4, <2>5, SeeIs
<1> QED
  BY <1>1, <1>2

LEMMA SeenType ==
    ASSUME NEW show \in ShowType
    PROVE  \A q \in Seq(Message \cup Snapshot) : Seen(show, q) \in ShowType
<1> DEFINE T == Message \cup Snapshot
           Good == {q \in Seq(T) : Seen(show, q) \in ShowType}
<1>1. << >> \in Good
  BY SeenNothing
<1>2. ASSUME NEW q \in Seq(T), NEW m \in T, q \in Good
      PROVE  Append(q, m) \in Good
  <2>1. Seen(show, Append(q, m)) = See(Seen(show, q), m)
    BY SeenAppend
  <2>2. See(Seen(show, q), m) \in ShowType
    BY <1>2, SeeType
  <2> QED
    BY <2>1, <2>2
<1>3. \A q \in Seq(T) : q \in Good
  <2> HIDE DEF Good, T
  <2> QED
    BY <1>1, <1>2, SequenceInduction
<1> QED
  BY <1>3

(* Sequences, member by member. *)
LEMMA AppendIs ==
    ASSUME NEW T, NEW q \in Seq(T), NEW m \in T
    PROVE  /\ Len(q) \in Nat /\ DOMAIN q = 1 .. Len(q) /\ Append(q, m) \in Seq(T)
           /\ Len(Append(q, m)) = Len(q) + 1 /\ DOMAIN Append(q, m) = 1 .. Len(q) + 1
           /\ Append(q, m)[Len(q) + 1] = m
           /\ \A i \in DOMAIN q : q[i] \in T /\ Append(q, m)[i] = q[i]
           /\ \A i \in 1 .. Len(q) + 1 : i \in DOMAIN q \/ i = Len(q) + 1
OBVIOUS

LEMMA ExceptIs ==
    ASSUME NEW T, NEW q \in Seq(T), NEW j \in DOMAIN q, NEW m \in T
    PROVE  /\ [q EXCEPT ![j] = m] \in Seq(T) /\ Len([q EXCEPT ![j] = m]) = Len(q)
           /\ DOMAIN [q EXCEPT ![j] = m] = DOMAIN q
           /\ \A i \in DOMAIN q : [q EXCEPT ![j] = m][i] = IF i = j THEN m ELSE q[i]
OBVIOUS

LEMMA SameSequence ==
    ASSUME NEW T, NEW q \in Seq(T), NEW r \in Seq(T), Len(q) = Len(r),
           \A i \in 1 .. Len(q) : q[i] = r[i]
    PROVE  q = r
OBVIOUS

LEMMA RemoveAtIs ==
    ASSUME NEW T, NEW q \in Seq(T), NEW i \in DOMAIN q
    PROVE  /\ Len(q) \in Nat /\ DOMAIN q = 1 .. Len(q) /\ i \in 1 .. Len(q)
           /\ RemoveAt(q, i) \in Seq(T) /\ Len(RemoveAt(q, i)) = Len(q) - 1
           /\ DOMAIN RemoveAt(q, i) = 1 .. Len(q) - 1
           /\ \A j \in 1 .. Len(q) - 1 : RemoveAt(q, i)[j] = IF j < i THEN q[j] ELSE q[j + 1]
<1> DEFINE a == SubSeq(q, 1, i - 1)
           b == SubSeq(q, i + 1, Len(q))
<1>1. /\ Len(q) \in Nat /\ DOMAIN q = 1 .. Len(q) /\ i \in 1 .. Len(q)
      /\ a \in Seq(T) /\ Len(a) = i - 1 /\ \A j \in 1 .. i - 1 : a[j] = q[j]
      /\ b \in Seq(T) /\ Len(b) = Len(q) - i /\ \A j \in 1 .. Len(q) - i : b[j] = q[j + i]
  OBVIOUS
<1>2. RemoveAt(q, i) = a \o b
  BY DEF RemoveAt
<1> HIDE DEF a, b
<1>6. a \in Seq(T) /\ b \in Seq(T)
  BY <1>1
<1>7. /\ a \o b \in Seq(T) /\ Len(a \o b) = Len(a) + Len(b)
      /\ \A j \in 1 .. Len(a) + Len(b) : (a \o b)[j] = IF j <= Len(a) THEN a[j] ELSE b[j - Len(a)]
  BY <1>6, ConcatProperties
<1>3. /\ a \o b \in Seq(T) /\ Len(a \o b) = Len(q) - 1
      /\ \A j \in 1 .. Len(q) - 1 : (a \o b)[j] = IF j <= i - 1 THEN a[j] ELSE b[j - (i - 1)]
  <2>1. Len(a) + Len(b) = Len(q) - 1 /\ Len(a) = i - 1
    BY <1>1
  <2> QED
    BY <1>7, <2>1
<1>4. DOMAIN (a \o b) = 1 .. Len(q) - 1
  BY <1>3, LenProperties
<1>5. ASSUME NEW j \in 1 .. Len(q) - 1
      PROVE  (a \o b)[j] = IF j < i THEN q[j] ELSE q[j + 1]
  <2>1. CASE j < i
    BY <1>1, <1>3, <2>1
  <2>2. CASE ~(j < i)
    <3>1. (a \o b)[j] = b[j - (i - 1)] /\ j - (i - 1) \in 1 .. Len(q) - i
      BY <1>1, <1>3, <2>2
    <3>2. b[j - (i - 1)] = q[(j - (i - 1)) + i]
      BY <1>1, <3>1
    <3>3. (j - (i - 1)) + i = j + 1
      BY <1>1
    <3> QED
      BY <2>2, <3>1, <3>2, <3>3
  <2> QED
    BY <2>1, <2>2
<1> QED
  BY <1>1, <1>2, <1>3, <1>4, <1>5

(* Places without a message are not seen. *)
LEMMA SeenNone ==
    ASSUME NEW show
    PROVE  \A q \in Seq(Message) : (\A i \in DOMAIN q : q[i] = NoMessage) => Seen(show, q) = show
<1> DEFINE None(q) == \A i \in DOMAIN q : q[i] = NoMessage
           Good == {q \in Seq(Message) : None(q) => Seen(show, q) = show}
<1>1. << >> \in Good
  BY SeenNothing
<1>2. ASSUME NEW q \in Seq(Message), NEW m \in Message, q \in Good
      PROVE  Append(q, m) \in Good
  <2> SUFFICES ASSUME None(Append(q, m))
               PROVE  Seen(show, Append(q, m)) = show
    BY AppendIs
  <2>1. /\ Len(q) \in Nat /\ DOMAIN q = 1 .. Len(q) /\ DOMAIN Append(q, m) = 1 .. Len(q) + 1
        /\ Append(q, m)[Len(q) + 1] = m /\ \A i \in DOMAIN q : Append(q, m)[i] = q[i]
    OBVIOUS
  <2>2. m = NoMessage /\ None(q)
    BY <2>1
  <2>3. Seen(show, Append(q, m)) = See(Seen(show, q), m)
    BY SeenAppend
  <2>4. Seen(show, q) = show
    BY <1>2, <2>2
  <2> QED
    BY <2>2, <2>3, <2>4 DEF See, NoMessage
<1>3. \A q \in Seq(Message) : q \in Good
  <2> HIDE DEF Good
  <2> QED
    BY <1>1, <1>2, SequenceInduction
<1> QED
  BY <1>3

(* The first message there is may be seen before the others. *)
LEMMA SeenFirst ==
    ASSUME NEW show
    PROVE  \A q \in Seq(Message), j \in Nat :
              j \in DOMAIN q /\ (\A i \in 1 .. j - 1 : q[i] = NoMessage) =>
                  Seen(show, q) = Seen(See(show, q[j]), [q EXCEPT ![j] = NoMessage])
<1> DEFINE Starts(q, j) == j \in DOMAIN q /\ \A i \in 1 .. j - 1 : q[i] = NoMessage
           Rest(q, j) == [q EXCEPT ![j] = NoMessage]
           Good == {q \in Seq(Message) :
                       \A j \in Nat : Starts(q, j) => Seen(show, q) = Seen(See(show, q[j]), Rest(q, j))}
<1>1. << >> \in Good
  OBVIOUS
<1>2. ASSUME NEW q \in Seq(Message), NEW m \in Message, q \in Good
      PROVE  Append(q, m) \in Good
  <2> DEFINE r == Append(q, m)
  <2> SUFFICES ASSUME NEW j \in Nat, Starts(r, j)
               PROVE  Seen(show, r) = Seen(See(show, r[j]), Rest(r, j))
    BY AppendIs
  <2>1. /\ Len(q) \in Nat /\ DOMAIN q = 1 .. Len(q) /\ DOMAIN r = 1 .. Len(q) + 1
        /\ r[Len(q) + 1] = m /\ \A i \in DOMAIN q : q[i] \in Message /\ r[i] = q[i]
    BY AppendIs
  <2>2. Seen(show, r) = See(Seen(show, q), m)
    BY SeenAppend
  <2>3. NoMessage \in Message
    BY DEF Message
  <2>4. CASE j \in DOMAIN q
    <3>1. r[j] = q[j] /\ Starts(q, j)
      BY <2>1, <2>4
    <3>2. /\ Rest(q, j) \in Seq(Message) /\ Len(Rest(q, j)) = Len(q) /\ DOMAIN Rest(q, j) = DOMAIN q
          /\ \A i \in DOMAIN q : Rest(q, j)[i] = IF i = j THEN NoMessage ELSE q[i]
      BY <2>3, <2>4, ExceptIs
    <3>3. Rest(r, j) = Append(Rest(q, j), m)
      <4>1. j \in DOMAIN r /\ r \in Seq(Message) /\ Len(r) = Len(q) + 1
        BY <2>1, <2>4, AppendIs
      <4>2. /\ Rest(r, j) \in Seq(Message) /\ Len(Rest(r, j)) = Len(q) + 1
            /\ \A i \in DOMAIN r : Rest(r, j)[i] = IF i = j THEN NoMessage ELSE r[i]
        <5> HIDE DEF r
        <5> QED
          BY <2>3, <4>1, ExceptIs
      <4>3. /\ Append(Rest(q, j), m) \in Seq(Message) /\ Len(Append(Rest(q, j), m)) = Len(q) + 1
            /\ Append(Rest(q, j), m)[Len(q) + 1] = m
            /\ \A i \in DOMAIN q : Append(Rest(q, j), m)[i] = Rest(q, j)[i]
        <5> HIDE DEF Rest
        <5> QED
          BY <3>2, AppendIs
      <4>4. ASSUME NEW i \in 1 .. Len(q) + 1
            PROVE  Rest(r, j)[i] = Append(Rest(q, j), m)[i]
        <5> HIDE DEF Rest, r
        <5>1. CASE i \in DOMAIN q
          BY <2>1, <3>2, <4>2, <4>3, <5>1
        <5>2. CASE i = Len(q) + 1
          BY <2>1, <2>4, <4>2, <4>3, <5>2
        <5>3. i \in DOMAIN q \/ i = Len(q) + 1
          BY AppendIs
        <5> QED
          BY <5>1, <5>2, <5>3
      <4> HIDE DEF Rest, r
      <4> QED
        BY <4>2, <4>3, <4>4, SameSequence
    <3>4. Seen(See(show, q[j]), Append(Rest(q, j), m)) = See(Seen(See(show, q[j]), Rest(q, j)), m)
      <4> HIDE DEF Rest
      <4> QED
        BY <3>2, SeenAppend
    <3>5. Seen(show, q) = Seen(See(show, q[j]), Rest(q, j))
      BY <1>2, <3>1
    <3> QED
      BY <2>2, <3>1, <3>3, <3>4, <3>5
  <2>5. CASE j = Len(q) + 1
    <3>1. \A i \in DOMAIN q : q[i] = NoMessage
      BY <2>1, <2>5
    <3>2. Rest(r, j) = Append(q, NoMessage)
      <4>1. j \in DOMAIN r /\ r \in Seq(Message) /\ Len(r) = Len(q) + 1
        BY <2>1, <2>5, AppendIs
      <4>2. /\ Rest(r, j) \in Seq(Message) /\ Len(Rest(r, j)) = Len(q) + 1
            /\ \A i \in DOMAIN r : Rest(r, j)[i] = IF i = j THEN NoMessage ELSE r[i]
        <5> HIDE DEF r
        <5> QED
          BY <2>3, <4>1, ExceptIs
      <4>3. /\ Append(q, NoMessage) \in Seq(Message) /\ Len(Append(q, NoMessage)) = Len(q) + 1
            /\ Append(q, NoMessage)[Len(q) + 1] = NoMessage
            /\ \A i \in DOMAIN q : Append(q, NoMessage)[i] = q[i]
        BY <2>3, AppendIs
      <4>4. ASSUME NEW i \in 1 .. Len(q) + 1
            PROVE  Rest(r, j)[i] = Append(q, NoMessage)[i]
        <5> HIDE DEF Rest, r
        <5> QED
          BY <2>1, <2>5, <4>2, <4>3
      <4> HIDE DEF Rest, r
      <4> QED
        BY <4>2, <4>3, <4>4, SameSequence
    <3>3. /\ Seen(show, q) = show
          /\ Seen(See(show, m), q) = See(show, m)
      BY <3>1, SeenNone
    <3>4. Seen(See(show, m), Append(q, NoMessage)) = See(Seen(See(show, m), q), NoMessage)
      BY <2>3, SeenAppend
    <3>5. See(See(show, m), NoMessage) = See(show, m)
      BY DEF See, NoMessage
    <3> QED
      BY <2>1, <2>2, <2>5, <3>2, <3>3, <3>4, <3>5
  <2> QED
    BY <2>1, <2>4, <2>5
<1>3. \A q \in Seq(Message) : q \in Good
  <2> HIDE DEF Good
  <2> QED
    BY <1>1, <1>2, SequenceInduction
<1> QED
  BY <1>3

(* A message that says nothing may be taken from the sequence. *)
LEMMA SeenRemove ==
    ASSUME NEW show
    PROVE  \A q \in Seq(Message) : \A i \in DOMAIN q :
              q[i] = NoMessage => Seen(show, RemoveAt(q, i)) = Seen(show, q)
<1> DEFINE Good == {q \in Seq(Message) :
                       \A i \in DOMAIN q : q[i] = NoMessage => Seen(show, RemoveAt(q, i)) = Seen(show, q)}
<1>1. << >> \in Good
  OBVIOUS
<1>2. ASSUME NEW q \in Seq(Message), NEW m \in Message, q \in Good
      PROVE  Append(q, m) \in Good
  <2> DEFINE r == Append(q, m)
  <2> SUFFICES ASSUME NEW i \in DOMAIN r, r[i] = NoMessage
               PROVE  Seen(show, RemoveAt(r, i)) = Seen(show, r)
    BY AppendIs
  <2>1. /\ Len(q) \in Nat /\ DOMAIN q = 1 .. Len(q) /\ DOMAIN r = 1 .. Len(q) + 1
        /\ Len(r) = Len(q) + 1 /\ r \in Seq(Message)
        /\ r[Len(q) + 1] = m /\ \A j \in DOMAIN q : q[j] \in Message /\ r[j] = q[j]
    BY AppendIs
  <2>2. Seen(show, r) = See(Seen(show, q), m)
    BY SeenAppend
  <2>3. /\ RemoveAt(r, i) \in Seq(Message) /\ Len(RemoveAt(r, i)) = Len(q)
        /\ DOMAIN RemoveAt(r, i) = 1 .. Len(q)
        /\ \A j \in 1 .. Len(q) : RemoveAt(r, i)[j] = IF j < i THEN r[j] ELSE r[j + 1]
    <3> HIDE DEF r
    <3>1. Len(RemoveAt(r, i)) = Len(r) - 1 /\ Len(r) - 1 = Len(q)
      BY <2>1, RemoveAtIs
    <3> QED
      BY <2>1, <3>1, RemoveAtIs
  <2>4. CASE i \in DOMAIN q
    <3> DEFINE p == RemoveAt(q, i)
    <3>1. /\ p \in Seq(Message) /\ Len(p) = Len(q) - 1 /\ DOMAIN p = 1 .. Len(q) - 1
          /\ \A j \in 1 .. Len(q) - 1 : p[j] = IF j < i THEN q[j] ELSE q[j + 1]
      BY <2>4, RemoveAtIs
    <3>2. Seen(show, p) = Seen(show, q)
      BY <1>2, <2>1, <2>4
    <3> HIDE DEF p
    <3>3. /\ Append(p, m) \in Seq(Message) /\ Len(Append(p, m)) = Len(p) + 1
          /\ Append(p, m)[Len(p) + 1] = m /\ \A j \in DOMAIN p : Append(p, m)[j] = p[j]
      BY <3>1, AppendIs
    <3>7. Len(p) + 1 = Len(q)
      BY <2>1, <3>1
    <3>4. ASSUME NEW j \in 1 .. Len(q)
          PROVE  RemoveAt(r, i)[j] = Append(p, m)[j]
      <4> HIDE DEF r
      <4>1. CASE j = Len(q)
        BY <2>1, <2>3, <2>4, <3>3, <3>7, <4>1
      <4>2. CASE j # Len(q)
        <5>1. j \in 1 .. Len(q) - 1 /\ j \in DOMAIN q /\ j + 1 \in DOMAIN q
          <6>1. \A n \in Nat : \A x \in 1 .. n : x # n => x \in 1 .. n - 1 /\ x + 1 \in 1 .. n
            OBVIOUS
          <6> QED
            BY <2>1, <4>2, <6>1
        <5> QED
          BY <2>1, <2>3, <3>1, <3>3, <5>1
      <4> QED
        BY <4>1, <4>2
    <3>5. RemoveAt(r, i) = Append(p, m)
      <4> HIDE DEF r
      <4> QED
        BY <2>3, <3>3, <3>4, <3>7, SameSequence
    <3>6. Seen(show, Append(p, m)) = See(Seen(show, p), m)
      BY <3>1, SeenAppend
    <3> QED
      BY <2>2, <3>2, <3>5, <3>6
  <2>5. CASE i = Len(q) + 1
    <3>1. m = NoMessage
      BY <2>1, <2>5
    <3>2. \A j \in 1 .. Len(q) : RemoveAt(r, i)[j] = q[j]
      BY <2>1, <2>3, <2>5
    <3>3. RemoveAt(r, i) = q
      <4> HIDE DEF r
      <4> QED
        BY <2>1, <2>3, <3>2, SameSequence
    <3> QED
      BY <2>2, <3>1, <3>3 DEF See, NoMessage
  <2> QED
    BY <2>1, <2>4, <2>5
<1>3. \A q \in Seq(Message) : q \in Good
  <2> HIDE DEF Good
  <2> QED
    BY <1>1, <1>2, SequenceInduction
<1> QED
  BY <1>3

-----------------------------------------------------------------------------
(* The list of trades is cut to its length at every step, or once. *)
LEMMA JoinIs ==
    ASSUME NEW T, NEW a \in Seq(T), NEW b \in Seq(T)
    PROVE  /\ Len(a) \in Nat /\ Len(b) \in Nat
           /\ a \o b \in Seq(T) /\ Len(a \o b) = Len(a) + Len(b)
           /\ \A i \in 1 .. Len(a) + Len(b) : (a \o b)[i] = IF i <= Len(a) THEN a[i] ELSE b[i - Len(a)]
BY ConcatProperties, LenProperties

LEMMA KeptJoinIs ==
    ASSUME NEW a \in Seq(Nat), NEW b \in Seq(Nat)
    PROVE  /\ Kept(a \o b) \in Seq(Nat) /\ TradesKept \in Nat \ {0}
           /\ Len(a) \in Nat /\ Len(b) \in Nat /\ Len(Kept(a \o b)) \in Nat
           /\ Len(Kept(a \o b)) <= Len(a) + Len(b) /\ Len(Kept(a \o b)) <= TradesKept
           /\ Len(Kept(a \o b)) = Len(a) + Len(b) \/ Len(Kept(a \o b)) = TradesKept
           /\ \A i \in 1 .. Len(Kept(a \o b)) :
                 Kept(a \o b)[i] = IF i <= Len(a) THEN a[i] ELSE b[i - Len(a)]
<1>1. TradesKept \in Nat \ {0}
  BY LiveServerAssumption
<1>2. /\ Len(a) \in Nat /\ Len(b) \in Nat
      /\ a \o b \in Seq(Nat) /\ Len(a \o b) = Len(a) + Len(b)
      /\ \A i \in 1 .. Len(a) + Len(b) : (a \o b)[i] = IF i <= Len(a) THEN a[i] ELSE b[i - Len(a)]
  BY JoinIs
<1>3. /\ Kept(a \o b) \in Seq(Nat)
      /\ Len(Kept(a \o b)) = IF Len(a \o b) > TradesKept THEN TradesKept ELSE Len(a \o b)
      /\ \A i \in 1 .. Len(Kept(a \o b)) : i \in 1 .. Len(a \o b) /\ Kept(a \o b)[i] = (a \o b)[i]
  BY <1>2, KeptIs
<1> QED
  BY <1>1, <1>2, <1>3

LEMMA KeptConsIs ==
    ASSUME NEW v \in Nat, NEW b \in Seq(Nat)
    PROVE  /\ Kept(<<v>> \o b) \in Seq(Nat) /\ TradesKept \in Nat \ {0}
           /\ Len(b) \in Nat /\ Len(Kept(<<v>> \o b)) \in Nat \ {0}
           /\ Len(Kept(<<v>> \o b)) <= 1 + Len(b) /\ Len(Kept(<<v>> \o b)) <= TradesKept
           /\ Len(Kept(<<v>> \o b)) = 1 + Len(b) \/ Len(Kept(<<v>> \o b)) = TradesKept
           /\ \A i \in 1 .. Len(Kept(<<v>> \o b)) :
                 Kept(<<v>> \o b)[i] = IF i = 1 THEN v ELSE b[i - 1]
<1> DEFINE u == <<v>>
<1>1. u \in Seq(Nat) /\ Len(u) = 1 /\ u[1] = v
  OBVIOUS
<1> HIDE DEF u
<1>2. /\ Kept(u \o b) \in Seq(Nat) /\ TradesKept \in Nat \ {0}
      /\ Len(b) \in Nat /\ Len(Kept(u \o b)) \in Nat
      /\ Len(Kept(u \o b)) <= Len(u) + Len(b) /\ Len(Kept(u \o b)) <= TradesKept
      /\ Len(Kept(u \o b)) = Len(u) + Len(b) \/ Len(Kept(u \o b)) = TradesKept
      /\ \A i \in 1 .. Len(Kept(u \o b)) :
            Kept(u \o b)[i] = IF i <= Len(u) THEN u[i] ELSE b[i - Len(u)]
  BY <1>1, KeptJoinIs
<1>3. \A i \in 1 .. Len(Kept(u \o b)) : Kept(u \o b)[i] = IF i = 1 THEN v ELSE b[i - 1]
  BY <1>1, <1>2
<1>4. Len(Kept(u \o b)) \in Nat \ {0} /\ Len(u) = 1
  BY <1>1, <1>2
<1> QED
  BY <1>2, <1>3, <1>4 DEF u

(* Cutting the list of trades before or after more are joined to it is the same. *)
LEMMA KeptFirst ==
    ASSUME NEW a \in Seq(Nat), NEW b \in Seq(Nat), NEW v \in Nat
    PROVE  Kept(Kept(<<v>> \o a) \o b) = Kept(<<v>> \o Kept(a \o b))
<1> DEFINE va == Kept(<<v>> \o a)
           ab == Kept(a \o b)
           left == Kept(va \o b)
           right == Kept(<<v>> \o ab)
<1>1. PICK K \in Nat \ {0} : K = TradesKept
  BY LiveServerAssumption
<1>2. PICK A \in Nat, B \in Nat : A = Len(a) /\ B = Len(b)
  BY LenProperties
<1>3. /\ va \in Seq(Nat) /\ Len(va) \in Nat \ {0}
      /\ Len(va) <= 1 + A /\ Len(va) <= K /\ (Len(va) = 1 + A \/ Len(va) = K)
      /\ \A i \in 1 .. Len(va) : va[i] = IF i = 1 THEN v ELSE a[i - 1]
  BY <1>1, <1>2, KeptConsIs
<1>4. /\ ab \in Seq(Nat) /\ Len(ab) \in Nat
      /\ Len(ab) <= A + B /\ Len(ab) <= K /\ (Len(ab) = A + B \/ Len(ab) = K)
      /\ \A i \in 1 .. Len(ab) : ab[i] = IF i <= A THEN a[i] ELSE b[i - A]
  BY <1>1, <1>2, KeptJoinIs
<1> HIDE DEF va, ab
<1>5. PICK VA \in Nat \ {0}, AB \in Nat : VA = Len(va) /\ AB = Len(ab)
  BY <1>3, <1>4
<1>6. /\ left \in Seq(Nat) /\ Len(left) \in Nat
      /\ Len(left) <= Len(va) + Len(b) /\ Len(left) <= TradesKept
      /\ Len(left) = Len(va) + Len(b) \/ Len(left) = TradesKept
      /\ \A i \in 1 .. Len(left) : left[i] = IF i <= Len(va) THEN va[i] ELSE b[i - Len(va)]
  BY <1>3, KeptJoinIs
<1>7. /\ right \in Seq(Nat) /\ Len(right) \in Nat
      /\ Len(right) <= 1 + Len(ab) /\ Len(right) <= TradesKept
      /\ Len(right) = 1 + Len(ab) \/ Len(right) = TradesKept
      /\ \A i \in 1 .. Len(right) : right[i] = IF i = 1 THEN v ELSE ab[i - 1]
  BY <1>4, KeptConsIs
<1> HIDE DEF left, right
<1>8. PICK L \in Nat, R \in Nat : L = Len(left) /\ R = Len(right)
  BY <1>6, <1>7
<1>12. /\ VA <= 1 + A /\ VA <= K /\ (VA = 1 + A \/ VA = K)
       /\ AB <= A + B /\ AB <= K /\ (AB = A + B \/ AB = K)
  BY <1>3, <1>4, <1>5
<1>13. /\ L <= VA + B /\ L <= K /\ (L = VA + B \/ L = K)
       /\ R <= 1 + AB /\ R <= K /\ (R = 1 + AB \/ R = K)
  BY <1>1, <1>2, <1>5, <1>6, <1>7, <1>8
<1>9. L = R /\ L <= K /\ L <= VA + B
  BY <1>12, <1>13
<1>14. \A i \in 1 .. L : left[i] = IF i <= VA THEN va[i] ELSE b[i - VA]
  BY <1>5, <1>6, <1>8
<1>15. \A i \in 1 .. L : right[i] = IF i = 1 THEN v ELSE ab[i - 1]
  BY <1>7, <1>8, <1>9
<1>10. ASSUME NEW i \in 1 .. L
       PROVE  left[i] = right[i]
  <2>1. CASE i = 1
    <3>1. left[i] = va[i] /\ right[i] = v
      BY <1>14, <1>15, <2>1
    <3>3. 1 \in 1 .. Len(va)
      BY <1>3
    <3>2. va[1] = v
      BY <1>3, <3>3
    <3> QED
      BY <2>1, <3>1, <3>2
  <2>2. CASE i # 1 /\ i <= VA
    <3>1. left[i] = va[i] /\ right[i] = ab[i - 1]
      BY <1>14, <1>15, <2>2
    <3>2. va[i] = a[i - 1]
      BY <1>3, <1>5, <2>2
    <3>3. i - 1 \in 1 .. AB /\ i - 1 <= A
      BY <1>12, <1>13, <1>9, <2>2
    <3>4. ab[i - 1] = a[i - 1]
      BY <1>4, <1>5, <3>3
    <3> QED
      BY <3>1, <3>2, <3>4
  <2>3. CASE i # 1 /\ ~(i <= VA)
    <3>1. left[i] = b[i - VA] /\ right[i] = ab[i - 1]
      BY <1>14, <1>15, <2>3
    <3>2. VA = 1 + A /\ i - 1 \in 1 .. AB /\ ~(i - 1 <= A) /\ (i - 1) - A = i - VA
      BY <1>12, <1>13, <1>9, <2>3
    <3>3. ab[i - 1] = b[(i - 1) - A]
      BY <1>4, <1>5, <3>2
    <3> QED
      BY <3>1, <3>2, <3>3
  <2> QED
    BY <2>1, <2>2, <2>3
<1>11. left = right
  BY <1>6, <1>7, <1>8, <1>9, <1>10, SameSequence
<1> QED
  BY <1>11 DEF left, right, va, ab

(* What messages do to a page that shows nothing is what they do to any page:
   -1 where they say nothing.                                                *)
Fresh == [value |-> [k \in Keys |-> -1], trades |-> << >>]
Over(f, show) ==
    [value  |-> [k \in Keys |-> IF f.value[k] = -1 THEN show.value[k] ELSE f.value[k]],
     trades |-> Kept(f.trades \o show.trades)]

LEMMA FreshIs ==
    Fresh \in ShowType /\ \A show \in ShowType : Over(Fresh, show) = show
<1>1. TradesKept \in Nat \ {0}
  BY LiveServerAssumption
<1>2. Fresh \in ShowType
  BY <1>1 DEF Fresh, ShowType
<1>3. ASSUME NEW show \in ShowType
      PROVE  Over(Fresh, show) = show
  <2>1. << >> \o show.trades = show.trades /\ Kept(show.trades) = show.trades
    <3>1. show.trades \in Seq(Nat) /\ Len(show.trades) \in Nat /\ Len(show.trades) <= TradesKept
      BY ShowIs
    <3>2. ~(Len(show.trades) > TradesKept)
      BY <1>1, <3>1
    <3> QED
      BY <3>1, <3>2, ConcatEmptySeq DEF Kept
  <2>2. [k \in Keys |-> IF Fresh.value[k] = -1 THEN show.value[k] ELSE Fresh.value[k]] = show.value
    <3>1. \A k \in Keys : Fresh.value[k] = -1
      BY DEF Fresh
    <3>2. show.value \in [Keys -> Int]
      BY ShowIs
    <3> QED
      BY <3>1, <3>2
  <2>3. Fresh.trades = << >>
    BY DEF Fresh
  <2> QED
    BY <2>1, <2>2, <2>3, ShowIs DEF Over
<1> QED
  BY <1>2, <1>3

(* What a page shows is what the messages put on top of what it showed before. *)
LEMMA OverSees ==
    ASSUME NEW f \in ShowType, NEW show \in ShowType, NEW m \in Message
    PROVE  See(Over(f, show), m) = Over(See(f, m), show)
<1>1. /\ f.value \in [Keys -> Int] /\ f.trades \in Seq(Nat)
      /\ show.value \in [Keys -> Int] /\ show.trades \in Seq(Nat)
  BY ShowIs
<1>2. Over(f, show) \in ShowType
  <2>1. f.trades \o show.trades \in Seq(Nat)
    BY <1>1
  <2>2. Kept(f.trades \o show.trades) \in Seq(Nat) /\ Len(Kept(f.trades \o show.trades)) <= TradesKept
    BY <2>1, KeptIs
  <2>3. [k \in Keys |-> IF f.value[k] = -1 THEN show.value[k] ELSE f.value[k]] \in [Keys -> Int]
    BY <1>1
  <2> QED
    BY <2>2, <2>3 DEF Over, ShowType
<1>3. CASE m.key = "none"
  BY <1>2, <1>3, SeeIs
<1>4. CASE m.key = "trade"
  <2>1. m.value \in Nat
    BY SeeIs
  <2>2. Kept(<<m.value>> \o Kept(f.trades \o show.trades)) = Kept(Kept(<<m.value>> \o f.trades) \o show.trades)
    BY <1>1, <2>1, KeptFirst
  <2>3. See(f, m) = [value |-> f.value, trades |-> Kept(<<m.value>> \o f.trades)]
    BY <1>4, SeeIs
  <2>4. See(Over(f, show), m) = [value |-> Over(f, show).value, trades |-> Kept(<<m.value>> \o Over(f, show).trades)]
    BY <1>2, <1>4, SeeIs
  <2>5. See(f, m).value = f.value /\ See(f, m).trades = Kept(<<m.value>> \o f.trades)
    BY <2>3
  <2> QED
    BY <2>2, <2>4, <2>5 DEF Over
<1>5. CASE m.key \in Keys
  <2> DEFINE g == [f.value EXCEPT ![m.key] = m.value]
             h(w) == [k \in Keys |-> IF w[k] = -1 THEN show.value[k] ELSE w[k]]
  <2>1. See(f, m) = [value |-> g, trades |-> f.trades]
    BY <1>5, SeeIs
  <2>2. See(Over(f, show), m) = [value |-> [Over(f, show).value EXCEPT ![m.key] = m.value], trades |-> Over(f, show).trades]
    BY <1>2, <1>5, SeeIs
  <2>3. [h(f.value) EXCEPT ![m.key] = m.value] = h(g)
    <3>1. m.value \in Nat
      BY SeeIs
    <3>2. m.value # -1
      BY <3>1
    <3> QED
      BY <1>1, <1>5, <3>2
  <2>4. See(f, m).value = g /\ See(f, m).trades = f.trades
    BY <2>1
  <2>5. Over(See(f, m), show) = [value |-> h(g), trades |-> Kept(f.trades \o show.trades)]
    <3> HIDE DEF g
    <3> QED
      BY <2>4 DEF Over
  <2>6. Over(f, show).value = h(f.value) /\ Over(f, show).trades = Kept(f.trades \o show.trades)
    BY DEF Over
  <2> QED
    BY <2>2, <2>3, <2>5, <2>6
<1> QED
  BY <1>3, <1>4, <1>5, SeeIs

LEMMA SeenOver ==
    ASSUME NEW show \in ShowType
    PROVE  \A q \in Seq(Message) : Seen(Fresh, q) \in ShowType /\ Seen(show, q) = Over(Seen(Fresh, q), show)
<1> DEFINE Good == {q \in Seq(Message) : Seen(show, q) = Over(Seen(Fresh, q), show)}
<1>1. ASSUME NEW q \in Seq(Message)
      PROVE  Seen(Fresh, q) \in ShowType
  <2>1. q \in Seq(Message \cup Snapshot)
    BY SeqMonotonic
  <2> QED
    BY <2>1, FreshIs, SeenType
<1>2. << >> \in Good
  BY SeenNothing, FreshIs
<1>3. ASSUME NEW q \in Seq(Message), NEW m \in Message, q \in Good
      PROVE  Append(q, m) \in Good
  <2>1. Seen(show, Append(q, m)) = See(Seen(show, q), m) /\ Seen(Fresh, Append(q, m)) = See(Seen(Fresh, q), m)
    BY SeenAppend
  <2>2. See(Over(Seen(Fresh, q), show), m) = Over(See(Seen(Fresh, q), m), show)
    BY <1>1, OverSees
  <2> QED
    BY <1>3, <2>1, <2>2, AppendIs
<1>4. \A q \in Seq(Message) : q \in Good
  <2> HIDE DEF Good
  <2> QED
    BY <1>2, <1>3, SequenceInduction
<1> QED
  BY <1>1, <1>4

-----------------------------------------------------------------------------
(* What a list of trades has of the server's: a first stretch, or all of them with
   a stretch twice.                                                           *)
Starts(f, t) == Len(f) <= Len(t) /\ \A x \in 1 .. Len(f) : f[x] = t[x]
TwiceFrom(w, t, i, j) ==
    /\ Len(w) <= j + Len(t) - i /\ Len(w) <= TradesKept
    /\ Len(w) = j + Len(t) - i \/ Len(w) = TradesKept
    /\ \A x \in 1 .. Len(w) : w[x] = IF x <= j THEN t[x] ELSE t[x - j + i]
SomeTwice(w, t) == \E i, j \in 0 .. Len(t) : i <= j /\ TwiceFrom(w, t, i, j)

(* A new trade keeps one list the beginning of another. *)
LEMMA StartsNext ==
    ASSUME NEW f \in Seq(Nat), NEW t \in Seq(Nat), NEW v \in Nat, Starts(f, t)
    PROVE  Starts(Kept(<<v>> \o f), Kept(<<v>> \o t))
<1> DEFINE vf == Kept(<<v>> \o f)
           vt == Kept(<<v>> \o t)
<1>1. /\ vf \in Seq(Nat) /\ TradesKept \in Nat \ {0}
      /\ Len(f) \in Nat /\ Len(vf) \in Nat \ {0}
      /\ Len(vf) <= 1 + Len(f) /\ Len(vf) <= TradesKept
      /\ Len(vf) = 1 + Len(f) \/ Len(vf) = TradesKept
      /\ \A i \in 1 .. Len(vf) : vf[i] = IF i = 1 THEN v ELSE f[i - 1]
  BY KeptConsIs
<1>2. /\ vt \in Seq(Nat) /\ Len(t) \in Nat /\ Len(vt) \in Nat \ {0}
      /\ Len(vt) <= 1 + Len(t) /\ Len(vt) <= TradesKept
      /\ Len(vt) = 1 + Len(t) \/ Len(vt) = TradesKept
      /\ \A i \in 1 .. Len(vt) : vt[i] = IF i = 1 THEN v ELSE t[i - 1]
  BY KeptConsIs
<1> HIDE DEF vf, vt
<1>3. Len(f) <= Len(t) /\ \A x \in 1 .. Len(f) : f[x] = t[x]
  BY DEF Starts
<1>4. Len(vf) <= Len(vt)
  BY <1>1, <1>2, <1>3
<1>5. ASSUME NEW x \in 1 .. Len(vf)
      PROVE  vf[x] = vt[x]
  <2>1. CASE x = 1
    <3>1. 1 \in 1 .. Len(vf) /\ 1 \in 1 .. Len(vt)
      <4>1. \A n \in Nat \ {0} : 1 \in 1 .. n
        OBVIOUS
      <4> QED
        BY <1>1, <1>2, <4>1
    <3>2. vf[1] = v /\ vt[1] = v
      BY <1>1, <1>2, <3>1
    <3> QED
      BY <2>1, <3>2
  <2>2. CASE x # 1
    <3>1. x \in 1 .. Len(vt) /\ x - 1 \in 1 .. Len(f)
      <4>1. PICK n \in Nat, m \in Nat, l \in Nat : n = Len(vf) /\ m = Len(vt) /\ l = Len(f)
        BY <1>1, <1>2
      <4>2. x \in 1 .. n /\ n <= m /\ n <= 1 + l
        BY <1>1, <1>4, <4>1
      <4>3. x \in 1 .. m /\ x - 1 \in 1 .. l
        BY <2>2, <4>2
      <4> QED
        BY <4>1, <4>3
    <3>2. vf[x] = f[x - 1] /\ vt[x] = t[x - 1]
      BY <1>1, <1>2, <2>2, <3>1
    <3> QED
      BY <1>3, <3>1, <3>2
  <2> QED
    BY <2>1, <2>2
<1>6. Starts(vf, vt)
  BY <1>4, <1>5 DEF Starts
<1> QED
  BY <1>6 DEF vf, vt

LEMMA StartsKept ==
    ASSUME NEW f \in Seq(Nat), NEW c \in Seq(Nat), NEW t \in Seq(Nat),
           Len(f) <= TradesKept, Starts(Kept(f \o c), t)
    PROVE  Starts(f, t)
<1> DEFINE fc == Kept(f \o c)
<1>1. /\ TradesKept \in Nat \ {0} /\ Len(f) \in Nat /\ Len(c) \in Nat /\ Len(fc) \in Nat
      /\ Len(fc) <= Len(f) + Len(c) /\ Len(fc) <= TradesKept
      /\ Len(fc) = Len(f) + Len(c) \/ Len(fc) = TradesKept
      /\ \A i \in 1 .. Len(fc) : fc[i] = IF i <= Len(f) THEN f[i] ELSE c[i - Len(f)]
  BY KeptJoinIs
<1>2. Len(fc) <= Len(t) /\ \A x \in 1 .. Len(fc) : fc[x] = t[x]
  BY DEF Starts
<1> HIDE DEF fc
<1>3. Len(f) <= Len(fc) /\ Len(t) \in Nat
  BY <1>1, LenProperties
<1>4. Len(f) <= Len(t)
  BY <1>1, <1>2, <1>3
<1>5. ASSUME NEW x \in 1 .. Len(f)
      PROVE  f[x] = t[x]
  <2>1. x \in 1 .. Len(fc) /\ x <= Len(f)
    BY <1>1, <1>3
  <2> QED
    BY <1>1, <1>2, <2>1
<1> QED
  BY <1>4, <1>5 DEF Starts

LEMMA TwiceJoined ==
    ASSUME NEW f \in Seq(Nat), NEW t \in Seq(Nat), Starts(f, t)
    PROVE  SomeTwice(Kept(f \o t), t)
<1> DEFINE w == Kept(f \o t)
<1>1. /\ TradesKept \in Nat \ {0} /\ Len(f) \in Nat /\ Len(t) \in Nat /\ Len(w) \in Nat
      /\ Len(w) <= Len(f) + Len(t) /\ Len(w) <= TradesKept
      /\ Len(w) = Len(f) + Len(t) \/ Len(w) = TradesKept
      /\ \A i \in 1 .. Len(w) : w[i] = IF i <= Len(f) THEN f[i] ELSE t[i - Len(f)]
  BY KeptJoinIs
<1>2. Len(f) <= Len(t) /\ \A x \in 1 .. Len(f) : f[x] = t[x]
  BY DEF Starts
<1> HIDE DEF w
<1>3. PICK i \in 0 .. Len(t), j \in 0 .. Len(t) : i = 0 /\ j = Len(f)
  BY <1>1, <1>2
<1>4. ASSUME NEW x \in 1 .. Len(w)
      PROVE  w[x] = IF x <= j THEN t[x] ELSE t[x - j + i]
  <2>1. CASE x <= j
    BY <1>1, <1>2, <1>3, <2>1
  <2>2. CASE ~(x <= j)
    <3>1. x - j + i = x - Len(f)
      BY <1>1, <1>3
    <3> QED
      BY <1>1, <1>3, <2>2, <3>1
  <2> QED
    BY <2>1, <2>2
<1>5. /\ Len(w) <= j + Len(t) - i /\ Len(w) <= TradesKept
      /\ Len(w) = j + Len(t) - i \/ Len(w) = TradesKept
  BY <1>1, <1>3
<1>6. TwiceFrom(w, t, i, j) /\ i <= j
  BY <1>3, <1>4, <1>5 DEF TwiceFrom
<1> QED
  BY <1>6 DEF SomeTwice, w

(* A trade at the head of both lists leaves them the same but for a stretch. *)
LEMMA TwiceNext ==
    ASSUME NEW w \in Seq(Nat), NEW t \in Seq(Nat), NEW v \in Nat,
           Len(t) <= TradesKept, SomeTwice(w, t)
    PROVE  SomeTwice(Kept(<<v>> \o w), Kept(<<v>> \o t))
<1> DEFINE vw == Kept(<<v>> \o w)
           vt == Kept(<<v>> \o t)
<1>1. PICK i \in 0 .. Len(t), j \in 0 .. Len(t) : i <= j /\ TwiceFrom(w, t, i, j)
  BY DEF SomeTwice
<1>2. /\ vw \in Seq(Nat) /\ TradesKept \in Nat \ {0}
      /\ Len(w) \in Nat /\ Len(vw) \in Nat \ {0}
      /\ Len(vw) <= 1 + Len(w) /\ Len(vw) <= TradesKept
      /\ Len(vw) = 1 + Len(w) \/ Len(vw) = TradesKept
      /\ \A x \in 1 .. Len(vw) : vw[x] = IF x = 1 THEN v ELSE w[x - 1]
  BY KeptConsIs
<1>3. /\ vt \in Seq(Nat) /\ Len(t) \in Nat /\ Len(vt) \in Nat \ {0}
      /\ Len(vt) <= 1 + Len(t) /\ Len(vt) <= TradesKept
      /\ Len(vt) = 1 + Len(t) \/ Len(vt) = TradesKept
      /\ \A x \in 1 .. Len(vt) : vt[x] = IF x = 1 THEN v ELSE t[x - 1]
  BY KeptConsIs
<1> HIDE DEF vw, vt
<1>4. PICK K \in Nat \ {0}, n \in Nat, m \in Nat, N \in Nat \ {0}, M \in Nat \ {0} :
         K = TradesKept /\ n = Len(t) /\ m = Len(w) /\ N = Len(vt) /\ M = Len(vw)
  BY <1>2, <1>3
<1>5. /\ m <= j + n - i /\ m <= K /\ (m = j + n - i \/ m = K)
      /\ \A x \in 1 .. m : w[x] = IF x <= j THEN t[x] ELSE t[x - j + i]
  BY <1>1, <1>4 DEF TwiceFrom
<1>6. /\ M <= 1 + m /\ M <= K /\ (M = 1 + m \/ M = K)
      /\ \A x \in 1 .. M : vw[x] = IF x = 1 THEN v ELSE w[x - 1]
  BY <1>2, <1>4
<1>7. /\ N <= 1 + n /\ N <= K /\ (N = 1 + n \/ N = K)
      /\ \A x \in 1 .. N : vt[x] = IF x = 1 THEN v ELSE t[x - 1]
  BY <1>3, <1>4
<1>8. i \in 0 .. n /\ j \in 0 .. n /\ i <= j /\ n <= K
  BY <1>1, <1>4
<1>9. CASE j < K
  <2>1. i + 1 \in 0 .. N /\ j + 1 \in 0 .. N /\ i + 1 <= j + 1
    BY <1>7, <1>8, <1>9
  <2>2. /\ M <= (j + 1) + N - (i + 1) /\ M <= K
        /\ M = (j + 1) + N - (i + 1) \/ M = K
    BY <1>5, <1>6, <1>7, <1>8, <1>9
  <2>3. ASSUME NEW x \in 1 .. M
        PROVE  vw[x] = IF x <= j + 1 THEN vt[x] ELSE vt[x - (j + 1) + (i + 1)]
    <3>1. CASE x = 1
      <4>1. 1 \in 1 .. M /\ 1 \in 1 .. N /\ x <= j + 1
        BY <1>4, <1>8, <3>1
      <4>2. vw[1] = v /\ vt[1] = v
        BY <1>6, <1>7, <4>1
      <4> QED
        BY <3>1, <4>1, <4>2
    <3>2. CASE x # 1 /\ x <= j + 1
      <4>1. x \in 1 .. N /\ x - 1 \in 1 .. m /\ x - 1 <= j
        BY <1>5, <1>6, <1>7, <1>8, <1>9, <3>2
      <4>2. vw[x] = w[x - 1] /\ vt[x] = t[x - 1]
        BY <1>6, <1>7, <3>2, <4>1
      <4>3. w[x - 1] = t[x - 1]
        BY <1>5, <4>1
      <4> QED
        BY <3>2, <4>2, <4>3
    <3>3. CASE x # 1 /\ ~(x <= j + 1)
      <4>1. /\ x - 1 \in 1 .. m /\ ~(x - 1 <= j)
            /\ x - (j + 1) + (i + 1) \in 1 .. N /\ x - (j + 1) + (i + 1) # 1
            /\ (x - (j + 1) + (i + 1)) - 1 = (x - 1) - j + i
        BY <1>5, <1>6, <1>7, <1>8, <1>9, <2>2, <3>3
      <4>2. vw[x] = w[x - 1]
        BY <1>6, <3>3
      <4>3. vt[x - (j + 1) + (i + 1)] = t[(x - (j + 1) + (i + 1)) - 1]
        BY <1>7, <4>1
      <4>4. w[x - 1] = t[(x - 1) - j + i]
        BY <1>5, <4>1
      <4> QED
        BY <3>3, <4>1, <4>2, <4>3, <4>4
    <3> QED
      BY <3>1, <3>2, <3>3
  <2>4. PICK I \in 0 .. Len(vt), J \in 0 .. Len(vt) : I = i + 1 /\ J = j + 1
    BY <1>4, <2>1
  <2>5. TwiceFrom(vw, vt, I, J) /\ I <= J
    BY <1>4, <2>1, <2>2, <2>3, <2>4 DEF TwiceFrom
  <2> QED
    BY <2>5 DEF SomeTwice, vw, vt
<1>10. CASE ~(j < K)
  <2>1. j = K /\ n = K /\ N = K /\ m = K /\ M = K
    BY <1>5, <1>6, <1>7, <1>8, <1>10
  <2>2. ASSUME NEW x \in 1 .. M
        PROVE  vw[x] = vt[x]
    <3>1. CASE x = 1
      <4>1. 1 \in 1 .. M /\ 1 \in 1 .. N
        BY <1>4
      <4>2. vw[1] = v /\ vt[1] = v
        BY <1>6, <1>7, <4>1
      <4> QED
        BY <3>1, <4>2
    <3>2. CASE x # 1
      <4>1. x \in 1 .. N /\ x - 1 \in 1 .. m /\ x - 1 <= j
        BY <2>1, <3>2
      <4>2. vw[x] = w[x - 1] /\ vt[x] = t[x - 1]
        BY <1>6, <1>7, <3>2, <4>1
      <4>3. w[x - 1] = t[x - 1]
        BY <1>5, <4>1
      <4> QED
        BY <4>2, <4>3
    <3> QED
      BY <3>1, <3>2
  <2>3. PICK J \in 0 .. Len(vt) : J = K
    BY <1>4, <2>1
  <2>4. TwiceFrom(vw, vt, J, J) /\ J <= J
    <3>1. \A x \in 1 .. Len(vw) : x <= J
      BY <1>4, <2>1, <2>3
    <3>2. Len(vw) <= J + Len(vt) - J /\ Len(vw) <= TradesKept /\ Len(vw) = TradesKept
      BY <1>4, <2>1, <2>3
    <3> QED
      BY <1>4, <2>2, <3>1, <3>2 DEF TwiceFrom
  <2> QED
    BY <2>4 DEF SomeTwice, vw, vt
<1> QED
  BY <1>9, <1>10, <1>8, <1>4

(* The form in which the property is written. *)
LEMMA TwiceIs ==
    ASSUME NEW w \in Seq(Nat), NEW t \in Seq(Nat), SomeTwice(w, t)
    PROVE  \E i, j \in 0 .. Len(t) :
              i <= j /\ w = Kept(SubSeq(t, 1, j) \o SubSeq(t, i + 1, Len(t)))
<1>1. PICK i \in 0 .. Len(t), j \in 0 .. Len(t) : i <= j /\ TwiceFrom(w, t, i, j)
  BY DEF SomeTwice
<1> DEFINE a == SubSeq(t, 1, j)
           b == SubSeq(t, i + 1, Len(t))
           k == Kept(a \o b)
<1>2. Len(t) \in Nat /\ Len(w) \in Nat
  BY LenProperties
<1>3. /\ a \in Seq(Nat) /\ Len(a) = j /\ \A x \in 1 .. j : a[x] = t[x]
      /\ b \in Seq(Nat) /\ Len(b) = Len(t) - i /\ \A x \in 1 .. Len(t) - i : b[x] = t[x + i]
  <2>1. a \in Seq(Nat) /\ Len(a) = j /\ \A x \in 1 .. j : a[x] = t[x]
    BY <1>2
  <2>2. b \in Seq(Nat) /\ Len(b) = Len(t) - i
    BY <1>2
  <2>3. \A x \in 1 .. Len(t) - i : b[x] = t[x + i]
    BY <1>2
  <2> QED
    BY <2>1, <2>2, <2>3
<1> HIDE DEF a, b
<1>4. /\ k \in Seq(Nat) /\ TradesKept \in Nat \ {0} /\ Len(k) \in Nat
      /\ Len(k) <= Len(a) + Len(b) /\ Len(k) <= TradesKept
      /\ Len(k) = Len(a) + Len(b) \/ Len(k) = TradesKept
      /\ \A x \in 1 .. Len(k) : k[x] = IF x <= Len(a) THEN a[x] ELSE b[x - Len(a)]
  BY <1>3, KeptJoinIs
<1> HIDE DEF k
<1>5. /\ Len(w) <= j + Len(t) - i /\ Len(w) <= TradesKept
      /\ Len(w) = j + Len(t) - i \/ Len(w) = TradesKept
      /\ \A x \in 1 .. Len(w) : w[x] = IF x <= j THEN t[x] ELSE t[x - j + i]
  BY <1>1 DEF TwiceFrom
<1>6. Len(w) = Len(k)
  BY <1>2, <1>3, <1>4, <1>5
<1>7. ASSUME NEW x \in 1 .. Len(w)
      PROVE  w[x] = k[x]
  <2>1. CASE x <= j
    BY <1>3, <1>4, <1>5, <1>6, <2>1
  <2>2. CASE ~(x <= j)
    <3>1. x - j \in 1 .. Len(t) - i
      BY <1>2, <1>5, <2>2
    <3>2. b[x - j] = t[(x - j) + i] /\ k[x] = b[x - j] /\ w[x] = t[x - j + i]
      BY <1>3, <1>4, <1>5, <1>6, <2>2, <3>1
    <3> QED
      BY <3>2
  <2> QED
    BY <2>1, <2>2
<1>8. w = k
  BY <1>4, <1>6, <1>7, SameSequence
<1> QED
  BY <1>1, <1>8 DEF k, a, b

-----------------------------------------------------------------------------
(* What is left of a sequence without some of its elements, and in which order. *)
Precedes(s, a, b) == \E x, y \in DOMAIN s : x < y /\ s[x] = a /\ s[y] = b

(* What disconnect leaves of a sequence: the other members, in their order. *)
LEMMA WithoutIs ==
    ASSUME NEW T, NEW s \in Seq(T), NEW gone
    PROVE  /\ Without(s, gone) \in Seq(T)
           /\ Range(Without(s, gone)) = Range(s) \ gone
           /\ \A a, b : Precedes(Without(s, gone), a, b) <=>
                            Precedes(s, a, b) /\ a \notin gone /\ b \notin gone
<1> DEFINE S == {i \in DOMAIN s : s[i] \notin gone}
           n == Cardinality(S)
           w == [k \in 1 .. n |-> s[Nth(S, k)]]
<1>1. /\ DOMAIN s = 1 .. Len(s) /\ Len(s) \in Nat /\ \A i \in DOMAIN s : s[i] \in T
      /\ S \in SUBSET DOMAIN s
  OBVIOUS
<1>2. IsFiniteSet(S) /\ S \in SUBSET Int
  <2>1. IsFiniteSet(1 .. Len(s))
    BY <1>1, FS_Interval
  <2>2. S \in SUBSET (1 .. Len(s))
    BY <1>1
  <2>3. \A X \in SUBSET (1 .. Len(s)) : X \in SUBSET Int
    BY <1>1
  <2> HIDE DEF S
  <2> QED
    BY <2>1, <2>2, <2>3, FS_Subset
<1>3. \A i \in DOMAIN s : i \in S <=> s[i] \notin gone
  OBVIOUS
<1> HIDE DEF S
<1>4. /\ n \in Nat
      /\ \A k \in 1 .. n : Nth(S, k) \in S /\ Rank(S, Nth(S, k)) = k
      /\ \A i \in S : Rank(S, i) \in 1 .. n /\ Nth(S, Rank(S, i)) = i
      /\ \A i, l \in S : i < l <=> Rank(S, i) < Rank(S, l)
  BY <1>2, NthIs
<1>5. Without(s, gone) = w
  BY DEF Without, Sublist, S
<1> HIDE DEF n
<1>6. /\ w \in Seq(T) /\ DOMAIN w = 1 .. n
      /\ \A k \in 1 .. n : w[k] = s[Nth(S, k)]
  <2>1. \A k \in 1 .. n : s[Nth(S, k)] \in T
    BY <1>1, <1>4
  <2> QED
    BY <1>4, <2>1
<1> HIDE DEF w
<1>7. Range(w) = Range(s) \ gone
  <2>1. ASSUME NEW k \in 1 .. n
        PROVE  w[k] \in Range(s) \ gone
    BY <1>1, <1>3, <1>4, <1>6 DEF Range
  <2>2. ASSUME NEW i \in DOMAIN s, s[i] \notin gone
        PROVE  s[i] \in Range(w)
    <3>1. i \in S
      BY <1>3, <2>2
    <3>2. w[Rank(S, i)] = s[i] /\ Rank(S, i) \in DOMAIN w
      BY <1>4, <1>6, <3>1
    <3> QED
      BY <3>2 DEF Range
  <2> QED
    BY <1>6, <2>1, <2>2 DEF Range
<1>8. ASSUME NEW a, NEW b, Precedes(w, a, b)
      PROVE  Precedes(s, a, b) /\ a \notin gone /\ b \notin gone
  <2>1. PICK x \in 1 .. n, y \in 1 .. n : x < y /\ w[x] = a /\ w[y] = b
    BY <1>6, <1>8 DEF Precedes
  <2>2. PICK i \in S, l \in S : i = Nth(S, x) /\ l = Nth(S, y)
    BY <1>4
  <2>3. i < l
    BY <1>4, <2>1, <2>2
  <2>4. s[i] = a /\ s[l] = b
    BY <1>6, <2>1, <2>2
  <2> QED
    BY <1>1, <1>3, <2>3, <2>4 DEF Precedes
<1>9. ASSUME NEW a, NEW b, Precedes(s, a, b), a \notin gone, b \notin gone
      PROVE  Precedes(w, a, b)
  <2>1. PICK i \in DOMAIN s, l \in DOMAIN s : i < l /\ s[i] = a /\ s[l] = b
    BY <1>9 DEF Precedes
  <2>2. i \in S /\ l \in S
    BY <1>3, <1>9, <2>1
  <2>3. PICK x \in 1 .. n, y \in 1 .. n : x = Rank(S, i) /\ y = Rank(S, l)
    BY <1>4, <2>2
  <2>4. x < y
    BY <1>4, <2>1, <2>2, <2>3
  <2>5. w[x] = a /\ w[y] = b
    BY <1>4, <1>6, <2>1, <2>2, <2>3
  <2> QED
    BY <1>6, <2>4, <2>5 DEF Precedes
<1> QED
  BY <1>5, <1>6, <1>7, <1>8, <1>9

-----------------------------------------------------------------------------
Connection == [page : Pages, gen : Nat]
Broadcast == [msg : Published, started : BOOLEAN, at : Connection \cup {NoSocket},
              todo : Seq(Connection), dead : SUBSET Connection]
LiveTypeOK ==
    /\ state \in ShowType /\ events \in Nat
    /\ clients \in Seq(Connection)
    /\ broadcasts \in Seq(Broadcast)
    /\ overtaken \in BOOLEAN
    /\ gen \in [Pages -> Nat] /\ online \in [Pages -> BOOLEAN]
    /\ inbox \in [Pages -> Seq(Published \cup Snapshot)]
    /\ shown \in [Pages -> ShowType]

(* Every page that is connected is a client, each once, in the order they came. *)
Came(ws) == ws.gen <= gen[ws.page]
ClientsOK ==
    /\ \A a \in Range(clients) : Came(a) /\ ~Precedes(clients, a, a)
    /\ \A p \in Pages : online[p] => Socket(p) \in Range(clients)

(* Broadcasts start in the order of their creation, so those that have not are the
   last.  Unless one was overtaken, each has still to send to clients in their
   order, and one that started earlier to no others than a later one has: at the
   same client it is woken first.                                            *)
Line(bc) == <<bc.at>> \o bc.todo
StartedInOrder ==
    \A i, j \in DOMAIN broadcasts : j < i /\ broadcasts[i].started => broadcasts[j].started
SocketsCame ==
    \A i \in DOMAIN broadcasts :
        /\ broadcasts[i].started =>
              broadcasts[i].at \in Connection /\ \A ws \in Range(Line(broadcasts[i])) : Came(ws)
        /\ \A ws \in broadcasts[i].dead : Came(ws) /\ ~Alive(ws)
SentInOrder ==
    \A i \in DOMAIN broadcasts : broadcasts[i].started =>
        /\ Range(Line(broadcasts[i])) \subseteq Range(clients)
        /\ \A a, b \in Connection : Precedes(Line(broadcasts[i]), a, b) => Precedes(clients, a, b)
        /\ \A j \in DOMAIN broadcasts : j < i =>
              Range(Line(broadcasts[j])) \subseteq Range(Line(broadcasts[i]))

(* The messages nobody was sent yet, and those due to one connection.  The former
   are news: put on top of anything, they give values of the state, and their
   trades are its newest.  So the snapshot of the state and then these messages
   show the state, with their trades there twice (IsCurrent).                *)
NotStarted(bs) == [i \in DOMAIN bs |-> IF bs[i].started THEN NoMessage ELSE bs[i].msg]
DueIn(bs, ws) ==
    [i \in DOMAIN bs |->
        IF ~bs[i].started \/ ws \in Range(bs[i].todo) THEN bs[i].msg ELSE NoMessage]
NewsAre(n, s) ==
    /\ \A k \in Keys : Seen(Fresh, n).value[k] \in {-1, s.value[k]}
    /\ Starts(Seen(Fresh, n).trades, s.trades)
IsCurrent(show, s) == show.value = s.value /\ SomeTwice(show.trades, s.trades)
PagesOK == \A p \in Pages : online[p] => IsCurrent(WillShow(p), state)
LiveInv ==
    /\ LiveTypeOK /\ ClientsOK /\ StartedInOrder /\ SocketsCame
    /\ NewsAre(NotStarted(broadcasts), state)
    /\ ~overtaken => SentInOrder /\ PagesOK

LEMMA NothingIs == Nothing \in ShowType
<1>1. TradesKept \in Nat \ {0}
  BY LiveServerAssumption
<1>2. [k \in Keys |-> Absent] \in [Keys -> Int] /\ << >> \in Seq(Nat) /\ Len(<< >>) = 0
  BY DEF Absent
<1>3. Nothing.value = [k \in Keys |-> Absent] /\ Nothing.trades = << >>
  BY DEF Nothing
<1>4. Nothing \in [value : [Keys -> Int], trades : Seq(Nat)]
  BY <1>2 DEF Nothing
<1> QED
  BY <1>1, <1>2, <1>3, <1>4 DEF ShowType

LEMMA RenderIsSee ==
    ASSUME NEW show, NEW m \in Message, m.key # "none"
    PROVE  Render(show, m) = See(show, m)
BY DEF See

LEMMA LiveInitInv == LiveInit => LiveInv
<1> SUFFICES ASSUME LiveInit
             PROVE  LiveInv
  OBVIOUS
<1> USE DEF LiveInit
<1>1. LiveTypeOK
  <2>1. state \in ShowType /\ shown \in [Pages -> ShowType]
    BY NothingIs
  <2>2. clients \in Seq(Connection) /\ broadcasts \in Seq(Broadcast) /\ inbox \in [Pages -> Seq(Published \cup Snapshot)]
    OBVIOUS
  <2>3. gen \in [Pages -> Nat] /\ online \in [Pages -> BOOLEAN] /\ overtaken \in BOOLEAN /\ events \in Nat
    OBVIOUS
  <2> QED
    BY <2>1, <2>2, <2>3 DEF LiveTypeOK
<1>2. ClientsOK
  BY DEF ClientsOK, Range
<1>3. StartedInOrder /\ SocketsCame /\ SentInOrder
  BY DEF StartedInOrder, SocketsCame, SentInOrder
<1>4. NewsAre(NotStarted(broadcasts), state)
  <2>1. NotStarted(broadcasts) = << >>
    BY DEF NotStarted
  <2>2. Seen(Fresh, NotStarted(broadcasts)) = Fresh
    BY <2>1, SeenNothing
  <2>3. state.trades \in Seq(Nat)
    BY NothingIs, ShowIs
  <2>4. \A k \in Keys : Fresh.value[k] = -1
    BY DEF Fresh
  <2>5. Starts(Fresh.trades, state.trades)
    <3>1. Len(Fresh.trades) = 0 /\ Len(state.trades) \in Nat
      BY <2>3 DEF Fresh
    <3> QED
      BY <3>1 DEF Starts
  <2> QED
    BY <2>2, <2>4, <2>5 DEF NewsAre
<1>5. PagesOK
  BY DEF PagesOK
<1> QED
  BY <1>1, <1>2, <1>3, <1>4, <1>5 DEF LiveInv

(* Facts about a broadcast in a list. *)
LEMMA BroadcastIs ==
    ASSUME NEW bs \in Seq(Broadcast), NEW i \in DOMAIN bs
    PROVE  /\ bs[i] \in Broadcast
           /\ bs[i].msg \in Published /\ bs[i].msg \in Message /\ bs[i].started \in BOOLEAN
           /\ bs[i].todo \in Seq(Connection) /\ bs[i].dead \in SUBSET Connection
           /\ bs[i].at \in Connection \cup {NoSocket}
           /\ DOMAIN bs = 1 .. Len(bs) /\ Len(bs) \in Nat /\ i \in Nat
<1>1. bs[i] \in Broadcast
  OBVIOUS
<1>2. DOMAIN bs = 1 .. Len(bs) /\ Len(bs) \in Nat /\ i \in Nat
  OBVIOUS
<1> QED
  BY <1>1, <1>2 DEF Broadcast, Message

LEMMA MessagesAre ==
    ASSUME NEW bs \in Seq(Broadcast)
    PROVE  /\ NotStarted(bs) \in Seq(Message) /\ Len(NotStarted(bs)) = Len(bs)
           /\ DOMAIN NotStarted(bs) = DOMAIN bs
           /\ \A i \in DOMAIN bs :
                 NotStarted(bs)[i] = IF bs[i].started THEN NoMessage ELSE bs[i].msg
           /\ \A ws : /\ DueIn(bs, ws) \in Seq(Message) /\ Len(DueIn(bs, ws)) = Len(bs)
                      /\ DOMAIN DueIn(bs, ws) = DOMAIN bs
                      /\ \A i \in DOMAIN bs :
                            DueIn(bs, ws)[i] = IF ~bs[i].started \/ ws \in Range(bs[i].todo)
                                               THEN bs[i].msg ELSE NoMessage
           /\ DOMAIN bs = 1 .. Len(bs) /\ Len(bs) \in Nat
           /\ NoMessage \in Message
<1>1. DOMAIN bs = 1 .. Len(bs) /\ Len(bs) \in Nat
  OBVIOUS
<1>2. NoMessage \in Message
  BY DEF Message
<1>3. \A i \in DOMAIN bs : bs[i].msg \in Message
  BY BroadcastIs
<1>4. NotStarted(bs) \in [1 .. Len(bs) -> Message]
  BY <1>1, <1>2, <1>3 DEF NotStarted
<1>5. ASSUME NEW ws
      PROVE  DueIn(bs, ws) \in [1 .. Len(bs) -> Message]
  BY <1>1, <1>2, <1>3 DEF DueIn
<1>6. \A f \in [1 .. Len(bs) -> Message] :
         f \in Seq(Message) /\ Len(f) = Len(bs) /\ DOMAIN f = 1 .. Len(bs)
  BY <1>1
<1>7. \A i \in DOMAIN bs : NotStarted(bs)[i] = IF bs[i].started THEN NoMessage ELSE bs[i].msg
  BY DEF NotStarted
<1>8. \A ws : \A i \in DOMAIN bs :
         DueIn(bs, ws)[i] = IF ~bs[i].started \/ ws \in Range(bs[i].todo) THEN bs[i].msg ELSE NoMessage
  BY DEF DueIn
<1> QED
  BY <1>1, <1>2, <1>4, <1>5, <1>6, <1>7, <1>8

LEMMA DueIs == \A p : Due(p) = DueIn(broadcasts, Socket(p))
BY DEF Due, DueIn

(* Nobody comes twice into the list of clients. *)
LEMMA OneOrder ==
    ASSUME ClientsOK, NEW a, NEW b, Precedes(clients, a, b), LiveTypeOK
    PROVE  ~Precedes(clients, b, a)
<1> SUFFICES ASSUME Precedes(clients, b, a)
             PROVE  FALSE
  OBVIOUS
<1>1. PICK x \in DOMAIN clients, y \in DOMAIN clients : x < y /\ clients[x] = a /\ clients[y] = b
  BY DEF Precedes
<1>2. PICK u \in DOMAIN clients, v \in DOMAIN clients : u < v /\ clients[u] = b /\ clients[v] = a
  BY DEF Precedes
<1>3. DOMAIN clients = 1 .. Len(clients) /\ Len(clients) \in Nat
  BY DEF LiveTypeOK
<1>4. a \in Range(clients) /\ b \in Range(clients)
  BY <1>1 DEF Range
<1>5. ~Precedes(clients, a, a) /\ ~Precedes(clients, b, b)
  BY <1>4 DEF ClientsOK
<1>6. ~(x < v) /\ ~(u < y)
  BY <1>1, <1>2, <1>5 DEF Precedes
<1> QED
  BY <1>1, <1>2, <1>3, <1>6

-----------------------------------------------------------------------------
LEMMA SeenAgain ==
    ASSUME NEW show, NEW q \in Seq(Message), NEW m \in Message
    PROVE  Seen(show, Append(q, m)) = See(Seen(show, q), m)
BY SeenAppend

LEMMA WillShowIs ==
    ASSUME LiveTypeOK, NEW p \in Pages
    PROVE  /\ WillShow(p) = Seen(Seen(shown[p], inbox[p]), DueIn(broadcasts, Socket(p)))
           /\ Seen(shown[p], inbox[p]) \in ShowType /\ WillShow(p) \in ShowType
<1>1. shown[p] \in ShowType /\ inbox[p] \in Seq(Message \cup Snapshot) /\ broadcasts \in Seq(Broadcast)
  <2>1. shown[p] \in ShowType /\ inbox[p] \in Seq(Published \cup Snapshot) /\ broadcasts \in Seq(Broadcast)
    BY DEF LiveTypeOK
  <2>2. Published \cup Snapshot \in SUBSET (Message \cup Snapshot)
    BY DEF Message
  <2> QED
    BY <2>1, <2>2, SeqMonotonic
<1>2. Seen(shown[p], inbox[p]) \in ShowType
  BY <1>1, SeenType
<1>3. DueIn(broadcasts, Socket(p)) \in Seq(Message \cup Snapshot)
  BY <1>1, MessagesAre, SeqMonotonic
<1>4. WillShow(p) = Seen(Seen(shown[p], inbox[p]), DueIn(broadcasts, Socket(p)))
  BY DueIs DEF WillShow, Seen
<1> QED
  BY <1>2, <1>3, <1>4, SeenType

LEMMA SeeKey ==
    ASSUME NEW show \in ShowType, NEW m \in Message, m.key \in Keys
    PROVE  /\ See(show, m).value = [show.value EXCEPT ![m.key] = m.value]
           /\ See(show, m).trades = show.trades
<1> DEFINE v == [show.value EXCEPT ![m.key] = m.value]
<1>1. See(show, m) = [value |-> v, trades |-> show.trades]
  BY SeeIs
<1> HIDE DEF v
<1>2. See(show, m).value = v /\ See(show, m).trades = show.trades
  BY <1>1
<1> QED
  BY <1>2 DEF v

(* The server changes its state by a message and a page sees the same message. *)
LEMMA CurrentNext ==
    ASSUME NEW show \in ShowType, NEW s \in ShowType, NEW m \in Message, IsCurrent(show, s)
    PROVE  IsCurrent(See(show, m), See(s, m))
<1>1. /\ show.trades \in Seq(Nat) /\ s.trades \in Seq(Nat) /\ Len(s.trades) <= TradesKept
      /\ show.value = s.value /\ SomeTwice(show.trades, s.trades)
  BY ShowIs DEF IsCurrent
<1>2. CASE m.key = "none"
  BY <1>2, SeeIs
<1>3. CASE m.key = "trade"
  <2>1. m.value \in Nat
    BY SeeIs
  <2>2. SomeTwice(Kept(<<m.value>> \o show.trades), Kept(<<m.value>> \o s.trades))
    BY <1>1, <2>1, TwiceNext
  <2>3. /\ See(show, m).value = show.value /\ See(show, m).trades = Kept(<<m.value>> \o show.trades)
        /\ See(s, m).value = s.value /\ See(s, m).trades = Kept(<<m.value>> \o s.trades)
    BY <1>3, SeeIs
  <2> QED
    BY <1>1, <2>2, <2>3 DEF IsCurrent
<1>4. CASE m.key \in Keys
  <2>1. /\ See(show, m).value = [show.value EXCEPT ![m.key] = m.value] /\ See(show, m).trades = show.trades
        /\ See(s, m).value = [s.value EXCEPT ![m.key] = m.value] /\ See(s, m).trades = s.trades
    BY <1>4, SeeKey
  <2> QED
    BY <1>1, <2>1 DEF IsCurrent
<1> QED
  BY <1>2, <1>3, <1>4, SeeIs

(* A published event is news: what was news stays news with it. *)
LEMMA NewsNext ==
    ASSUME NEW n \in Seq(Message), NEW s \in ShowType, NEW m \in Message, NewsAre(n, s)
    PROVE  NewsAre(Append(n, m), See(s, m))
<1> DEFINE f == Seen(Fresh, n)
<1>1. f \in ShowType /\ Seen(Fresh, Append(n, m)) = See(f, m)
  BY SeenAppend, SeenOver, FreshIs
<1>2. (\A k \in Keys : f.value[k] \in {-1, s.value[k]}) /\ Starts(f.trades, s.trades)
  BY DEF NewsAre
<1> HIDE DEF f
<1>3. /\ f.value \in [Keys -> Int] /\ f.trades \in Seq(Nat)
      /\ s.value \in [Keys -> Int] /\ s.trades \in Seq(Nat)
  BY <1>1, ShowIs
<1>4. CASE m.key = "none"
  BY <1>1, <1>2, <1>4, SeeIs DEF NewsAre
<1>5. CASE m.key = "trade"
  <2>1. m.value \in Nat
    BY SeeIs
  <2>2. Starts(Kept(<<m.value>> \o f.trades), Kept(<<m.value>> \o s.trades))
    BY <1>2, <1>3, <2>1, StartsNext
  <2>3. /\ See(f, m).value = f.value /\ See(f, m).trades = Kept(<<m.value>> \o f.trades)
        /\ See(s, m).value = s.value /\ See(s, m).trades = Kept(<<m.value>> \o s.trades)
    BY <1>1, <1>5, SeeIs
  <2> QED
    BY <1>1, <1>2, <2>2, <2>3 DEF NewsAre
<1>6. CASE m.key \in Keys
  <2>1. /\ See(f, m).value = [f.value EXCEPT ![m.key] = m.value] /\ See(f, m).trades = f.trades
        /\ See(s, m).value = [s.value EXCEPT ![m.key] = m.value] /\ See(s, m).trades = s.trades
    BY <1>1, <1>6, SeeKey
  <2>2. ASSUME NEW k \in Keys
        PROVE  See(f, m).value[k] \in {-1, See(s, m).value[k]}
    BY <1>2, <1>3, <2>1
  <2> QED
    BY <1>1, <1>2, <2>1, <2>2 DEF NewsAre
<1> QED
  BY <1>4, <1>5, <1>6, SeeIs

(* One message of the news goes: what is left of them is still the newest. *)
LEMMA NewsGo ==
    ASSUME NEW n \in Seq(Message), NEW s \in ShowType, NEW i \in DOMAIN n, NewsAre(n, s),
           \A j \in 1 .. i - 1 : n[j] = NoMessage
    PROVE  NewsAre([n EXCEPT ![i] = NoMessage], s)
<1> DEFINE r == [n EXCEPT ![i] = NoMessage]
           c == See(Fresh, n[i])
           f == Seen(Fresh, n)
           g == Seen(Fresh, r)
<1>1. NoMessage \in Message /\ n[i] \in Message /\ i \in Nat
  BY DEF Message
<1>2. r \in Seq(Message)
  BY <1>1, ExceptIs
<1>3. f = Seen(c, r)
  BY <1>1, SeenFirst
<1>4. c \in ShowType
  BY <1>1, FreshIs, SeeType
<1> HIDE DEF r, c
<1>5. g \in ShowType /\ f = Over(g, c) /\ f \in ShowType
  BY <1>2, <1>3, <1>4, SeenOver, FreshIs
<1>6. (\A k \in Keys : f.value[k] \in {-1, s.value[k]}) /\ Starts(f.trades, s.trades)
  BY DEF NewsAre
<1> HIDE DEF f, g
<1>7. ASSUME NEW k \in Keys
      PROVE  g.value[k] \in {-1, s.value[k]}
  <2>1. f.value[k] = IF g.value[k] = -1 THEN c.value[k] ELSE g.value[k]
    BY <1>5 DEF Over
  <2> QED
    BY <1>6, <2>1
<1>8. Starts(g.trades, s.trades)
  <2>1. f.trades = Kept(g.trades \o c.trades)
    BY <1>5 DEF Over
  <2>2. /\ g.trades \in Seq(Nat) /\ Len(g.trades) <= TradesKept /\ c.trades \in Seq(Nat)
        /\ s.trades \in Seq(Nat)
    BY <1>4, <1>5, ShowIs
  <2> QED
    BY <1>6, <2>1, <2>2, StartsKept
<1> QED
  BY <1>7, <1>8 DEF NewsAre, r, g

(* A page comes: it gets the server's state and what has not started. *)
LEMMA CurrentFromNews ==
    ASSUME NEW n \in Seq(Message), NEW s \in ShowType, NewsAre(n, s)
    PROVE  IsCurrent(Seen(s, n), s)
<1> DEFINE f == Seen(Fresh, n)
<1>1. f \in ShowType /\ Seen(s, n) = Over(f, s)
  BY SeenOver
<1>2. (\A k \in Keys : f.value[k] \in {-1, s.value[k]}) /\ Starts(f.trades, s.trades)
  BY DEF NewsAre
<1> HIDE DEF f
<1>3. f.trades \in Seq(Nat) /\ s.trades \in Seq(Nat) /\ s.value \in [Keys -> Int]
  BY <1>1, ShowIs
<1>4. SomeTwice(Kept(f.trades \o s.trades), s.trades)
  BY <1>2, <1>3, TwiceJoined
<1>5. [k \in Keys |-> IF f.value[k] = -1 THEN s.value[k] ELSE f.value[k]] = s.value
  BY <1>2, <1>3
<1>6. Over(f, s).value = s.value /\ Over(f, s).trades = Kept(f.trades \o s.trades)
  BY <1>5 DEF Over
<1> QED
  BY <1>1, <1>4, <1>6 DEF IsCurrent

-----------------------------------------------------------------------------
LEMMA WillShowNext ==
    ASSUME LiveTypeOK', NEW p \in Pages
    PROVE  WillShow(p)' = Seen(Seen(shown'[p], inbox'[p]), DueIn(broadcasts', Socket(p)'))
<1>1. Due(p)' = DueIn(broadcasts', Socket(p)')
  BY DEF Due, DueIn
<1> QED
  BY <1>1 DEF WillShow, Seen

(* publish_*: the state changes and every page is due the event. *)
LEMMA PublishKeepsInv ==
    ASSUME LiveInv, NEW key \in Keys \cup {"trade"}, NEW value \in Nat, Publish(key, value)
    PROVE  LiveInv'
<1> DEFINE m == [key |-> key, value |-> value]
           bc == [msg |-> m, started |-> FALSE, at |-> NoSocket, todo |-> << >>, dead |-> {}]
           n == Len(broadcasts)
<1>1. /\ LiveTypeOK /\ ClientsOK /\ StartedInOrder /\ SocketsCame
      /\ NewsAre(NotStarted(broadcasts), state)
      /\ ~overtaken => SentInOrder /\ PagesOK
  BY DEF LiveInv
<1>2. /\ events' = events + 1 /\ state' = Render(state, m) /\ broadcasts' = Append(broadcasts, bc)
      /\ clients' = clients /\ overtaken' = overtaken
      /\ gen' = gen /\ online' = online /\ inbox' = inbox /\ shown' = shown
  BY DEF Publish, pageVars
<1>3. m \in Published /\ m \in Message /\ m.key # "none"
  BY LiveServerAssumption DEF Message, Published
<1>4. bc \in Broadcast /\ bc.msg = m /\ ~bc.started /\ bc.dead = {}
  BY <1>3 DEF Broadcast
<1> HIDE DEF m, bc
<1>5. /\ DOMAIN broadcasts = 1 .. n /\ n \in Nat /\ broadcasts \in Seq(Broadcast)
      /\ state \in ShowType
  <2>1. broadcasts \in Seq(Broadcast) /\ state \in ShowType
    BY <1>1 DEF LiveTypeOK
  <2> QED
    BY <2>1, MessagesAre
<1>6. /\ broadcasts' \in Seq(Broadcast) /\ Len(broadcasts') = n + 1
      /\ DOMAIN broadcasts' = 1 .. n + 1
      /\ broadcasts'[n + 1] = bc
      /\ \A i \in DOMAIN broadcasts : broadcasts'[i] = broadcasts[i]
      /\ \A i \in DOMAIN broadcasts' : i \in DOMAIN broadcasts \/ i = n + 1
  BY <1>2, <1>4, <1>5, AppendIs
<1>7. state' = See(state, m) /\ state' \in ShowType
  BY <1>2, <1>3, <1>5, RenderIsSee, SeeType
<1>8. LiveTypeOK'
  <2>1. events' \in Nat
    BY <1>1, <1>2 DEF LiveTypeOK
  <2> QED
    BY <1>1, <1>2, <1>6, <1>7, <2>1 DEF LiveTypeOK
<1>9. ClientsOK'
  BY <1>1, <1>2 DEF ClientsOK, Came, Socket
<1>10. StartedInOrder'
  <2>1. \A i, j \in 1 .. n + 1 : j < i => j \in 1 .. n
    BY <1>5
  <2>2. ASSUME NEW i \in DOMAIN broadcasts', NEW j \in DOMAIN broadcasts', j < i, broadcasts'[i].started
        PROVE  broadcasts'[j].started
    <3>1. i \in DOMAIN broadcasts
      BY <1>4, <1>6, <2>2
    <3>2. j \in DOMAIN broadcasts
      BY <1>5, <1>6, <2>1, <2>2
    <3> QED
      BY <1>1, <1>6, <2>2, <3>1, <3>2 DEF StartedInOrder
  <2> QED
    BY <2>2 DEF StartedInOrder
<1>11. SocketsCame'
  BY <1>1, <1>2, <1>4, <1>6 DEF SocketsCame, Came, Alive
<1>12. NotStarted(broadcasts)' = Append(NotStarted(broadcasts), m)
  <2> DEFINE a == NotStarted(broadcasts)
             b == NotStarted(broadcasts')
  <2>1. /\ a \in Seq(Message) /\ Len(a) = n /\ DOMAIN a = DOMAIN broadcasts
        /\ \A i \in DOMAIN broadcasts : a[i] = IF broadcasts[i].started THEN NoMessage ELSE broadcasts[i].msg
    BY <1>5, MessagesAre
  <2>2. /\ b \in Seq(Message) /\ Len(b) = Len(broadcasts')
        /\ \A i \in DOMAIN broadcasts' : b[i] = IF broadcasts'[i].started THEN NoMessage ELSE broadcasts'[i].msg
    BY <1>6, MessagesAre
  <2> HIDE DEF a, b
  <2>3. /\ Append(a, m) \in Seq(Message) /\ Len(Append(a, m)) = n + 1
        /\ Append(a, m)[n + 1] = m
        /\ \A i \in DOMAIN broadcasts : Append(a, m)[i] = a[i]
    BY <1>3, <2>1, AppendIs
  <2>4. ASSUME NEW i \in 1 .. n + 1
        PROVE  b[i] = Append(a, m)[i]
    <3>1. CASE i = n + 1
      BY <1>4, <1>6, <2>2, <2>3, <3>1
    <3>2. CASE i \in DOMAIN broadcasts
      BY <1>6, <2>1, <2>2, <2>3, <3>2
    <3> QED
      BY <1>6, <3>1, <3>2
  <2>5. Len(b) = n + 1
    BY <1>6, <2>2
  <2>6. b = Append(a, m)
    BY <2>2, <2>3, <2>4, <2>5, SameSequence
  <2> QED
    BY <2>6 DEF a, b
<1>13. NewsAre(NotStarted(broadcasts), state)'
  <2>1. NotStarted(broadcasts) \in Seq(Message)
    BY <1>5, MessagesAre
  <2>2. NewsAre(Append(NotStarted(broadcasts), m), See(state, m))
    BY <1>1, <1>3, <1>5, <2>1, NewsNext
  <2>3. NewsAre(NotStarted(broadcasts), state)' = NewsAre(NotStarted(broadcasts)', state')
    BY DEF NewsAre
  <2> QED
    BY <1>7, <1>12, <2>2, <2>3
<1>14. SentInOrder /\ ~overtaken => SentInOrder'
  <2> SUFFICES ASSUME SentInOrder, NEW i \in DOMAIN broadcasts', broadcasts'[i].started
               PROVE  /\ Range(Line(broadcasts'[i])) \subseteq Range(clients')
                      /\ \A a, b \in Connection : Precedes(Line(broadcasts'[i]), a, b) => Precedes(clients', a, b)
                      /\ \A j \in DOMAIN broadcasts' : j < i =>
                            Range(Line(broadcasts'[j])) \subseteq Range(Line(broadcasts'[i]))
    BY DEF SentInOrder
  <2>1. i \in DOMAIN broadcasts /\ broadcasts'[i] = broadcasts[i]
    BY <1>4, <1>6
  <2>2. \A j \in 1 .. n + 1 : \A k \in 1 .. n : j < k => j \in 1 .. n
    BY <1>5
  <2>3. \A j \in DOMAIN broadcasts' : j < i => j \in DOMAIN broadcasts /\ broadcasts'[j] = broadcasts[j]
    BY <1>5, <1>6, <2>1, <2>2
  <2> QED
    BY <1>2, <2>1, <2>3 DEF SentInOrder
<1>15. PagesOK => PagesOK'
  <2> SUFFICES ASSUME PagesOK, NEW p \in Pages, online'[p]
               PROVE  IsCurrent(WillShow(p)', state')
    BY DEF PagesOK
  <2> DEFINE ws == Socket(p)
             a == DueIn(broadcasts, ws)
             b == DueIn(broadcasts', ws)
  <2>1. /\ a \in Seq(Message) /\ Len(a) = n /\ DOMAIN a = DOMAIN broadcasts
        /\ \A i \in DOMAIN broadcasts :
              a[i] = IF ~broadcasts[i].started \/ ws \in Range(broadcasts[i].todo)
                     THEN broadcasts[i].msg ELSE NoMessage
    BY <1>5, MessagesAre
  <2>2. /\ b \in Seq(Message) /\ Len(b) = Len(broadcasts')
        /\ \A i \in DOMAIN broadcasts' :
              b[i] = IF ~broadcasts'[i].started \/ ws \in Range(broadcasts'[i].todo)
                     THEN broadcasts'[i].msg ELSE NoMessage
    BY <1>6, MessagesAre
  <2> HIDE DEF a, b
  <2>3. /\ Append(a, m) \in Seq(Message) /\ Len(Append(a, m)) = n + 1
        /\ Append(a, m)[n + 1] = m
        /\ \A i \in DOMAIN broadcasts : Append(a, m)[i] = a[i]
    BY <1>3, <2>1, AppendIs
  <2>4. ASSUME NEW i \in 1 .. n + 1
        PROVE  b[i] = Append(a, m)[i]
    <3>1. CASE i = n + 1
      BY <1>4, <1>6, <2>2, <2>3, <3>1
    <3>2. CASE i \in DOMAIN broadcasts
      BY <1>6, <2>1, <2>2, <2>3, <3>2
    <3> QED
      BY <1>6, <3>1, <3>2
  <2>5. Len(b) = n + 1
    BY <1>6, <2>2
  <2>8. b = Append(a, m)
    BY <2>2, <2>3, <2>4, <2>5, SameSequence
  <2>6. WillShow(p)' = See(WillShow(p), m)
    <3>1. WillShow(p) = Seen(Seen(shown[p], inbox[p]), a)
      BY <1>1, WillShowIs DEF a
    <3>2. WillShow(p)' = Seen(Seen(shown[p], inbox[p]), b)
      BY <1>2, <1>8, WillShowNext DEF b, Socket
    <3> QED
      BY <1>3, <2>1, <2>8, <3>1, <3>2, SeenAgain
  <2>7. WillShow(p) \in ShowType /\ IsCurrent(WillShow(p), state)
    BY <1>1, <1>2, WillShowIs DEF PagesOK
  <2> QED
    BY <1>3, <1>5, <1>7, <2>6, <2>7, CurrentNext
<1> QED
  BY <1>1, <1>2, <1>8, <1>9, <1>10, <1>11, <1>13, <1>14, <1>15 DEF LiveInv

-----------------------------------------------------------------------------
(* Order in a sequence with one more member, at its end or at its head. *)
LEMMA PrecedesAppend ==
    ASSUME NEW T, NEW s \in Seq(T), NEW w \in T
    PROVE  /\ Range(Append(s, w)) = Range(s) \cup {w}
           /\ \A a, b : Precedes(Append(s, w), a, b) <=>
                            Precedes(s, a, b) \/ (a \in Range(s) /\ b = w)
<1> DEFINE r == Append(s, w)
<1>1. /\ Len(s) \in Nat /\ DOMAIN s = 1 .. Len(s) /\ DOMAIN r = 1 .. Len(s) + 1
      /\ r[Len(s) + 1] = w
      /\ \A i \in DOMAIN s : r[i] = s[i]
  BY AppendIs
<1> HIDE DEF r
<1>2. /\ \A i \in DOMAIN s : i \in DOMAIN r /\ i < Len(s) + 1
      /\ \A i \in DOMAIN r : i \in DOMAIN s \/ i = Len(s) + 1
      /\ \A i, j \in DOMAIN r : i < j => i \in DOMAIN s
      /\ Len(s) + 1 \in DOMAIN r
  BY <1>1
<1>3. Range(r) = Range(s) \cup {w}
  BY <1>1, <1>2 DEF Range
<1>4. ASSUME NEW a, NEW b
      PROVE  Precedes(r, a, b) <=> Precedes(s, a, b) \/ (a \in Range(s) /\ b = w)
  <2>1. ASSUME Precedes(r, a, b)
        PROVE  Precedes(s, a, b) \/ (a \in Range(s) /\ b = w)
    <3>1. PICK x \in DOMAIN r, y \in DOMAIN r : x < y /\ r[x] = a /\ r[y] = b
      BY <2>1 DEF Precedes
    <3>2. x \in DOMAIN s /\ s[x] = a
      BY <1>1, <1>2, <3>1
    <3>3. CASE y \in DOMAIN s
      BY <1>1, <3>1, <3>2, <3>3 DEF Precedes
    <3>4. CASE y = Len(s) + 1
      BY <1>1, <3>1, <3>2, <3>4 DEF Range
    <3> QED
      BY <1>2, <3>3, <3>4
  <2>2. ASSUME Precedes(s, a, b)
        PROVE  Precedes(r, a, b)
    <3>1. PICK x \in DOMAIN s, y \in DOMAIN s : x < y /\ s[x] = a /\ s[y] = b
      BY <2>2 DEF Precedes
    <3> QED
      BY <1>1, <1>2, <3>1 DEF Precedes
  <2>3. ASSUME a \in Range(s), b = w
        PROVE  Precedes(r, a, b)
    <3>1. PICK x \in DOMAIN s : s[x] = a
      BY <2>3 DEF Range
    <3> QED
      BY <1>1, <1>2, <2>3, <3>1 DEF Precedes
  <2> QED
    BY <2>1, <2>2, <2>3
<1> QED
  BY <1>3, <1>4 DEF r

LEMMA PrecedesHead ==
    ASSUME NEW T, NEW s \in Seq(T), NEW w \in T
    PROVE  /\ Range(<<w>> \o s) = {w} \cup Range(s)
           /\ \A a, b : Precedes(<<w>> \o s, a, b) <=>
                            Precedes(s, a, b) \/ (a = w /\ b \in Range(s))
<1> DEFINE u == <<w>>
           r == u \o s
<1>1. u \in Seq(T) /\ Len(u) = 1 /\ u[1] = w
  OBVIOUS
<1> HIDE DEF u
<1>2. /\ Len(s) \in Nat /\ r \in Seq(T) /\ Len(r) = Len(u) + Len(s)
      /\ \A i \in 1 .. Len(u) + Len(s) : r[i] = IF i <= Len(u) THEN u[i] ELSE s[i - Len(u)]
  BY <1>1, JoinIs
<1>3. DOMAIN r = 1 .. Len(r) /\ DOMAIN s = 1 .. Len(s)
  BY <1>2, LenProperties
<1> HIDE DEF r
<1>4. /\ 1 \in DOMAIN r /\ r[1] = w
      /\ \A i \in DOMAIN s : i + 1 \in DOMAIN r /\ i + 1 > 1 /\ r[i + 1] = s[i]
      /\ \A i \in DOMAIN r : i = 1 \/ i - 1 \in DOMAIN s
      /\ \A i, j \in DOMAIN r : i < j => j - 1 \in DOMAIN s
      /\ DOMAIN s \in SUBSET Int /\ DOMAIN r \in SUBSET Int
  <2>1. 1 \in DOMAIN r /\ r[1] = w
    BY <1>1, <1>2, <1>3
  <2>2. ASSUME NEW i \in DOMAIN s
        PROVE  i + 1 \in DOMAIN r /\ i + 1 > 1 /\ r[i + 1] = s[i]
    <3>1. i + 1 \in 1 .. 1 + Len(s) /\ i + 1 > 1 /\ ~(i + 1 <= 1) /\ (i + 1) - 1 = i
      BY <1>2, <1>3
    <3> QED
      BY <1>1, <1>2, <1>3, <3>1
  <2>3. \A i \in DOMAIN r : i = 1 \/ i - 1 \in DOMAIN s
    BY <1>1, <1>2, <1>3
  <2>4. \A i, j \in DOMAIN r : i < j => j - 1 \in DOMAIN s
    BY <1>1, <1>2, <1>3
  <2>5. DOMAIN s \in SUBSET Int /\ DOMAIN r \in SUBSET Int
    BY <1>2, <1>3
  <2> QED
    BY <2>1, <2>2, <2>3, <2>4, <2>5
<1>5. Range(r) = {w} \cup Range(s)
  <2>1. ASSUME NEW i \in DOMAIN r
        PROVE  r[i] \in {w} \cup Range(s)
    <3>1. CASE i = 1
      BY <1>4, <3>1
    <3>2. CASE i - 1 \in DOMAIN s
      <4>1. (i - 1) + 1 = i
        BY <1>4
      <4>2. r[i] = s[i - 1]
        BY <1>4, <3>2, <4>1
      <4> QED
        BY <3>2, <4>2 DEF Range
    <3> QED
      BY <1>4, <3>1, <3>2
  <2>2. \A i \in DOMAIN s : s[i] \in Range(r)
    BY <1>4 DEF Range
  <2>3. w \in Range(r)
    BY <1>4 DEF Range
  <2> QED
    BY <2>1, <2>2, <2>3 DEF Range
<1>6. ASSUME NEW a, NEW b
      PROVE  Precedes(r, a, b) <=> Precedes(s, a, b) \/ (a = w /\ b \in Range(s))
  <2>1. ASSUME Precedes(r, a, b)
        PROVE  Precedes(s, a, b) \/ (a = w /\ b \in Range(s))
    <3>1. PICK x \in DOMAIN r, y \in DOMAIN r : x < y /\ r[x] = a /\ r[y] = b
      BY <2>1 DEF Precedes
    <3>2. PICK y1 \in DOMAIN s : y1 = y - 1
      BY <1>4, <3>1
    <3>3. y = y1 + 1
      BY <1>4, <3>2
    <3>4. s[y1] = b
      BY <1>4, <3>1, <3>3
    <3>5. CASE x = 1
      BY <1>4, <3>1, <3>4, <3>5 DEF Range
    <3>6. CASE x - 1 \in DOMAIN s
      <4>1. PICK x1 \in DOMAIN s : x1 = x - 1
        BY <3>6
      <4>2. x = x1 + 1 /\ x1 < y1
        BY <1>4, <3>1, <3>2, <4>1
      <4>3. s[x1] = a
        BY <1>4, <3>1, <4>2
      <4> QED
        BY <3>4, <4>2, <4>3 DEF Precedes
    <3> QED
      BY <1>4, <3>5, <3>6
  <2>2. ASSUME Precedes(s, a, b)
        PROVE  Precedes(r, a, b)
    <3>1. PICK x \in DOMAIN s, y \in DOMAIN s : x < y /\ s[x] = a /\ s[y] = b
      BY <2>2 DEF Precedes
    <3>2. PICK x1 \in DOMAIN r, y1 \in DOMAIN r : x1 = x + 1 /\ y1 = y + 1
      BY <1>4
    <3>3. x1 < y1 /\ r[x1] = a /\ r[y1] = b
      BY <1>4, <3>1, <3>2
    <3> QED
      BY <3>3 DEF Precedes
  <2>3. ASSUME a = w, b \in Range(s)
        PROVE  Precedes(r, a, b)
    <3>1. PICK y \in DOMAIN s : s[y] = b
      BY <2>3 DEF Range
    <3>2. PICK y1 \in DOMAIN r : y1 = y + 1
      BY <1>4
    <3>3. 1 \in DOMAIN r /\ 1 < y1 /\ r[1] = a /\ r[y1] = b
      BY <1>4, <2>3, <3>1, <3>2
    <3> QED
      BY <3>3 DEF Precedes
  <2> QED
    BY <2>1, <2>2, <2>3
<1> QED
  BY <1>5, <1>6 DEF r, u

(* The line of a broadcast: whom it waits for, then whom it has still to send to. *)
LEMMA LineIs ==
    ASSUME NEW bs \in Seq(Broadcast), NEW i \in DOMAIN bs
    PROVE  /\ Range(Line(bs[i])) = Unsent(bs[i])
           /\ \A a, b : Precedes(Line(bs[i]), a, b) <=>
                 Precedes(bs[i].todo, a, b) \/ (a = bs[i].at /\ b \in Range(bs[i].todo))
<1> DEFINE T == Connection \cup {NoSocket}
<1>1. bs[i].at \in T /\ bs[i].todo \in Seq(T)
  <2>1. bs[i].at \in T /\ bs[i].todo \in Seq(Connection) /\ Connection \in SUBSET T
    BY BroadcastIs
  <2> HIDE DEF T
  <2> QED
    BY <2>1, SeqMonotonic
<1> HIDE DEF T
<1>2. /\ Range(<<bs[i].at>> \o bs[i].todo) = {bs[i].at} \cup Range(bs[i].todo)
      /\ \A a, b : Precedes(<<bs[i].at>> \o bs[i].todo, a, b) <=>
            Precedes(bs[i].todo, a, b) \/ (a = bs[i].at /\ b \in Range(bs[i].todo))
  BY <1>1, PrecedesHead
<1> QED
  BY <1>2 DEF Line, Unsent

(* A step that touches nothing a page is due leaves what it will show. *)
LEMMA SamePage ==
    ASSUME LiveTypeOK, LiveTypeOK', NEW p \in Pages,
           broadcasts' = broadcasts, shown'[p] = shown[p], inbox'[p] = inbox[p], gen'[p] = gen[p]
    PROVE  WillShow(p)' = WillShow(p)
<1>1. Socket(p)' = Socket(p)
  BY DEF Socket
<1> QED
  BY <1>1, WillShowNext, WillShowIs

(* Clients that are not alive are forgotten. *)
LEMMA ClientsForgotten ==
    ASSUME LiveTypeOK, ClientsOK, NEW gone, \A ws \in gone : ~Alive(ws),
           clients' = Without(clients, gone), gen' = gen, online' = online
    PROVE  /\ ClientsOK' /\ clients' \in Seq(Connection)
           /\ Range(clients') = Range(clients) \ gone
           /\ \A a, b : Precedes(clients', a, b) <=> Precedes(clients, a, b) /\ a \notin gone /\ b \notin gone
<1>1. clients \in Seq(Connection)
  BY DEF LiveTypeOK
<1>2. /\ clients' \in Seq(Connection)
      /\ Range(clients') = Range(clients) \ gone
      /\ \A a, b : Precedes(clients', a, b) <=> Precedes(clients, a, b) /\ a \notin gone /\ b \notin gone
  BY <1>1, WithoutIs
<1>3. ASSUME NEW p \in Pages, online[p]
      PROVE  Socket(p) \notin gone
  BY <1>3 DEF Alive, Socket
<1>4. ClientsOK'
  <2>1. \A a \in Range(clients') : Came(a)' /\ ~Precedes(clients', a, a)
    BY <1>2 DEF ClientsOK, Came
  <2>2. \A p \in Pages : online'[p] => Socket(p)' \in Range(clients')
    BY <1>2, <1>3 DEF ClientsOK, Socket
  <2> QED
    BY <2>1, <2>2 DEF ClientsOK
<1> QED
  BY <1>2, <1>4

-----------------------------------------------------------------------------
(* The invariant, and the types it implies. *)
LEMMA InvParts ==
    ASSUME LiveInv
    PROVE  /\ LiveTypeOK /\ ClientsOK /\ StartedInOrder /\ SocketsCame
           /\ NewsAre(NotStarted(broadcasts), state)
           /\ ~overtaken => SentInOrder /\ PagesOK
           /\ state \in ShowType /\ clients \in Seq(Connection) /\ broadcasts \in Seq(Broadcast)
           /\ gen \in [Pages -> Nat] /\ online \in [Pages -> BOOLEAN]
           /\ inbox \in [Pages -> Seq(Published \cup Snapshot)] /\ shown \in [Pages -> ShowType]
BY DEF LiveInv, LiveTypeOK

(* A broadcast whose line nobody left keeps its place in the order of the clients. *)
LEMMA LineKept ==
    ASSUME LiveTypeOK, SentInOrder, NEW i \in DOMAIN broadcasts, broadcasts[i].started,
           NEW gone, gone \cap Unsent(broadcasts[i]) = {},
           Range(clients') = Range(clients) \ gone,
           \A a, b : Precedes(clients', a, b) <=> Precedes(clients, a, b) /\ a \notin gone /\ b \notin gone
    PROVE  /\ Range(Line(broadcasts[i])) \subseteq Range(clients')
           /\ \A a, b \in Connection : Precedes(Line(broadcasts[i]), a, b) => Precedes(clients', a, b)
<1>1. broadcasts \in Seq(Broadcast)
  BY DEF LiveTypeOK
<1>2. /\ Range(Line(broadcasts[i])) \subseteq Range(clients)
      /\ \A a, b \in Connection : Precedes(Line(broadcasts[i]), a, b) => Precedes(clients, a, b)
  BY DEF SentInOrder
<1>3. Range(Line(broadcasts[i])) = Unsent(broadcasts[i])
  BY <1>1, LineIs
<1>4. \A a, b : Precedes(Line(broadcasts[i]), a, b) => a \in Range(Line(broadcasts[i])) /\ b \in Range(Line(broadcasts[i]))
  BY DEF Precedes, Range
<1> QED
  BY <1>2, <1>3, <1>4

(* WebSocketDisconnect: only connections that are gone are forgotten. *)
LEMMA NoticeKeepsInv ==
    ASSUME LiveInv, NEW ws \in Range(clients), Notice(ws)
    PROVE  LiveInv'
<1>1. /\ LiveTypeOK /\ ClientsOK /\ StartedInOrder /\ SocketsCame
      /\ NewsAre(NotStarted(broadcasts), state)
      /\ ~overtaken => SentInOrder /\ PagesOK
  BY InvParts
<1>2. /\ state' = state /\ events' = events /\ broadcasts' = broadcasts
      /\ gen' = gen /\ online' = online /\ inbox' = inbox /\ shown' = shown
      /\ ~Alive(ws) /\ clients' = Without(clients, {ws})
      /\ overtaken' = (overtaken \/ \E i \in DOMAIN broadcasts : {ws} \cap Unsent(broadcasts[i]) # {})
  BY DEF Notice, Forget, pageVars
<1>3. /\ ClientsOK' /\ clients' \in Seq(Connection)
      /\ Range(clients') = Range(clients) \ {ws}
      /\ \A a, b : Precedes(clients', a, b) <=> Precedes(clients, a, b) /\ a \notin {ws} /\ b \notin {ws}
  <2>1. \A w \in {ws} : ~Alive(w)
    BY <1>2
  <2> QED
    BY <1>1, <1>2, <2>1, ClientsForgotten
<1>4. LiveTypeOK'
  <2>1. overtaken' \in BOOLEAN
    BY <1>2
  <2> QED
    BY <1>1, <1>2, <1>3, <2>1 DEF LiveTypeOK
<1>5. StartedInOrder'
  BY <1>1, <1>2 DEF StartedInOrder
<1>6. SocketsCame'
  BY <1>1, <1>2 DEF SocketsCame, Came, Alive
<1>7. NewsAre(NotStarted(broadcasts), state)'
  BY <1>1, <1>2 DEF NewsAre
<1>8. ASSUME ~overtaken'
      PROVE  SentInOrder' /\ PagesOK'
  <2>1. /\ ~overtaken /\ SentInOrder /\ PagesOK
        /\ \A i \in DOMAIN broadcasts : {ws} \cap Unsent(broadcasts[i]) = {}
    BY <1>1, <1>2, <1>8
  <2>2. ASSUME NEW i \in DOMAIN broadcasts, broadcasts[i].started
        PROVE  /\ Range(Line(broadcasts[i])) \subseteq Range(clients')
               /\ \A a, b \in Connection : Precedes(Line(broadcasts[i]), a, b) => Precedes(clients', a, b)
    BY <1>1, <1>3, <2>1, <2>2, LineKept
  <2>3. SentInOrder'
    BY <1>2, <2>1, <2>2 DEF SentInOrder
  <2>4. ASSUME NEW p \in Pages, online'[p]
        PROVE  IsCurrent(WillShow(p)', state')
    <3>1. WillShow(p)' = WillShow(p)
      BY <1>1, <1>2, <1>4, SamePage
    <3> QED
      BY <1>2, <2>1, <2>4, <3>1 DEF PagesOK
  <2> QED
    BY <2>3, <2>4 DEF PagesOK
<1> QED
  BY <1>3, <1>4, <1>5, <1>6, <1>7, <1>8 DEF LiveInv

(* A process that starts again has nothing to send. *)
LEMMA RestartKeepsInv ==
    ASSUME LiveInv, Restart
    PROVE  LiveInv'
<1>1. /\ state' = Nothing /\ clients' = << >> /\ broadcasts' = << >> /\ overtaken' = FALSE
      /\ online' = [p \in Pages |-> FALSE] /\ inbox' = [p \in Pages |-> << >>]
      /\ events' = events /\ gen' = gen /\ shown' = shown
  BY DEF Restart
<1>2. LiveTypeOK'
  <2>1. state' \in ShowType
    BY <1>1, NothingIs
  <2>2. clients' \in Seq(Connection) /\ broadcasts' \in Seq(Broadcast) /\ inbox' \in [Pages -> Seq(Published \cup Snapshot)]
    BY <1>1
  <2>3. online' \in [Pages -> BOOLEAN] /\ overtaken' \in BOOLEAN
    BY <1>1
  <2>4. gen' \in [Pages -> Nat] /\ events' \in Nat /\ shown' \in [Pages -> ShowType]
    BY <1>1 DEF LiveInv, LiveTypeOK
  <2> QED
    BY <2>1, <2>2, <2>3, <2>4 DEF LiveTypeOK
<1>3. ClientsOK'
  BY <1>1 DEF ClientsOK, Range
<1>4. StartedInOrder' /\ SocketsCame' /\ SentInOrder'
  BY <1>1 DEF StartedInOrder, SocketsCame, SentInOrder
<1>5. NewsAre(NotStarted(broadcasts), state)'
  <2>1. NotStarted(broadcasts') = << >>
    BY <1>1 DEF NotStarted
  <2>2. Seen(Fresh, NotStarted(broadcasts')) = Fresh
    BY <2>1, SeenNothing
  <2>3. Nothing.trades \in Seq(Nat)
    BY NothingIs, ShowIs
  <2>4. \A k \in Keys : Fresh.value[k] = -1
    BY DEF Fresh
  <2>5. Starts(Fresh.trades, Nothing.trades)
    <3>1. Len(Fresh.trades) = 0 /\ Len(Nothing.trades) \in Nat
      BY <2>3 DEF Fresh
    <3> QED
      BY <3>1 DEF Starts
  <2> QED
    BY <1>1, <2>2, <2>4, <2>5 DEF NewsAre
<1>6. PagesOK'
  BY <1>1 DEF PagesOK
<1> QED
  BY <1>2, <1>3, <1>4, <1>5, <1>6 DEF LiveInv

(* Reading a message moves it from what a page is due to what it shows. *)
LEMMA ReceiveKeepsInv ==
    ASSUME LiveInv, NEW p \in Pages, Receive(p)
    PROVE  LiveInv'
<1> DEFINE m == Head(inbox[p])
<1>1. /\ LiveTypeOK /\ ClientsOK /\ StartedInOrder /\ SocketsCame
      /\ NewsAre(NotStarted(broadcasts), state)
      /\ ~overtaken => SentInOrder /\ PagesOK
      /\ inbox \in [Pages -> Seq(Published \cup Snapshot)] /\ shown \in [Pages -> ShowType]
  BY InvParts
<1>2. /\ state' = state /\ events' = events /\ broadcasts' = broadcasts /\ clients' = clients
      /\ overtaken' = overtaken /\ gen' = gen /\ online' = online
      /\ inbox[p] # << >>
      /\ shown' = [shown EXCEPT ![p] = Render(@, m)]
      /\ inbox' = [inbox EXCEPT ![p] = Tail(@)]
  BY DEF Receive, serverVars
<1>3. /\ inbox[p] \in Seq(Published \cup Snapshot) /\ shown[p] \in ShowType
      /\ m \in Published \cup Snapshot /\ Tail(inbox[p]) \in Seq(Published \cup Snapshot)
      /\ inbox[p] = <<m>> \o Tail(inbox[p])
  <2>1. inbox[p] \in Seq(Published \cup Snapshot) /\ shown[p] \in ShowType
    BY <1>1
  <2>2. \A T : \A q \in Seq(T) : q # << >> =>
           Head(q) \in T /\ Tail(q) \in Seq(T) /\ q = <<Head(q)>> \o Tail(q)
    OBVIOUS
  <2> QED
    BY <1>2, <2>1, <2>2
<1> HIDE DEF m
<1>4. m \in Message \cup Snapshot /\ Render(shown[p], m) = See(shown[p], m)
  <2>1. m.key # "none"
    BY <1>3, LiveServerAssumption DEF Published, Snapshot
  <2> QED
    BY <1>3, <2>1 DEF See, Message
<1>5. /\ shown'[p] = See(shown[p], m) /\ inbox'[p] = Tail(inbox[p])
      /\ \A q \in Pages : q # p => shown'[q] = shown[q] /\ inbox'[q] = inbox[q]
  BY <1>1, <1>2, <1>4
<1>6. LiveTypeOK'
  <2>1. See(shown[p], m) \in ShowType
    BY <1>3, <1>4, SeeType
  <2>2. shown' \in [Pages -> ShowType]
    BY <1>1, <1>2, <1>4, <2>1
  <2>3. inbox' \in [Pages -> Seq(Published \cup Snapshot)]
    BY <1>1, <1>2, <1>3
  <2> QED
    BY <1>1, <1>2, <2>2, <2>3 DEF LiveTypeOK
<1>7. ClientsOK' /\ StartedInOrder' /\ SocketsCame'
  BY <1>1, <1>2 DEF ClientsOK, StartedInOrder, SocketsCame, Came, Socket, Alive
<1>8. NewsAre(NotStarted(broadcasts), state)'
  BY <1>1, <1>2 DEF NewsAre
<1>9. SentInOrder => SentInOrder'
  BY <1>2 DEF SentInOrder
<1>10. \A q \in Pages : WillShow(q)' = WillShow(q)
  <2>1. ASSUME NEW q \in Pages, q # p
        PROVE  WillShow(q)' = WillShow(q)
    BY <1>1, <1>2, <1>5, <1>6, <2>1, SamePage
  <2>2. WillShow(p)' = WillShow(p)
    <3>1. Seen(shown[p], inbox[p]) = Seen(See(shown[p], m), Tail(inbox[p]))
      <4> DEFINE T == Published \cup Snapshot
      <4>1. m \in T /\ Tail(inbox[p]) \in Seq(T)
        BY <1>3
      <4> HIDE DEF T
      <4>2. Seen(shown[p], <<m>> \o Tail(inbox[p])) = Seen(See(shown[p], m), Tail(inbox[p]))
        BY <4>1, SeenHead
      <4> QED
        BY <1>3, <4>2
    <3>2. WillShow(p) = Seen(Seen(shown[p], inbox[p]), DueIn(broadcasts, Socket(p)))
      BY <1>1, WillShowIs
    <3>3. WillShow(p)' = Seen(Seen(shown'[p], inbox'[p]), DueIn(broadcasts', Socket(p)'))
      BY <1>6, WillShowNext
    <3>4. Socket(p)' = Socket(p)
      BY <1>2 DEF Socket
    <3> QED
      BY <1>2, <1>5, <3>1, <3>2, <3>3, <3>4
  <2> QED
    BY <2>1, <2>2
<1>11. PagesOK => PagesOK'
  BY <1>2, <1>10 DEF PagesOK
<1> QED
  BY <1>1, <1>2, <1>6, <1>7, <1>8, <1>9, <1>11 DEF LiveInv

(* A page that left is due nothing. *)
LEMMA DropKeepsInv ==
    ASSUME LiveInv, NEW p \in Pages, Drop(p)
    PROVE  LiveInv'
<1>1. /\ LiveTypeOK /\ ClientsOK /\ StartedInOrder /\ SocketsCame
      /\ NewsAre(NotStarted(broadcasts), state)
      /\ ~overtaken => SentInOrder /\ PagesOK
      /\ inbox \in [Pages -> Seq(Published \cup Snapshot)] /\ online \in [Pages -> BOOLEAN]
  BY InvParts
<1>2. /\ state' = state /\ events' = events /\ broadcasts' = broadcasts /\ clients' = clients
      /\ overtaken' = overtaken /\ gen' = gen /\ shown' = shown
      /\ online' = [online EXCEPT ![p] = FALSE]
      /\ inbox' = [inbox EXCEPT ![p] = << >>]
  BY DEF Drop, serverVars
<1>3. /\ online' \in [Pages -> BOOLEAN] /\ inbox' \in [Pages -> Seq(Published \cup Snapshot)]
      /\ \A q \in Pages : online'[q] => online[q] /\ inbox'[q] = inbox[q]
  <2>1. << >> \in Seq(Published \cup Snapshot)
    OBVIOUS
  <2> QED
    BY <1>1, <1>2, <2>1
<1>4. LiveTypeOK'
  BY <1>1, <1>2, <1>3 DEF LiveTypeOK
<1>5. ClientsOK' /\ StartedInOrder'
  BY <1>1, <1>2, <1>3 DEF ClientsOK, StartedInOrder, Came, Socket
<1>6. SocketsCame'
  <2>1. \A i \in DOMAIN broadcasts : broadcasts[i].dead \in SUBSET Connection
    BY <1>1, BroadcastIs DEF LiveTypeOK
  <2>2. \A ws \in Connection : ~Alive(ws) => ~Alive(ws)'
    BY <1>2, <1>3 DEF Alive, Connection
  <2> QED
    BY <1>1, <1>2, <2>1, <2>2 DEF SocketsCame, Came
<1>7. NewsAre(NotStarted(broadcasts), state)'
  BY <1>1, <1>2 DEF NewsAre
<1>8. SentInOrder => SentInOrder'
  BY <1>2 DEF SentInOrder
<1>9. PagesOK => PagesOK'
  <2> SUFFICES ASSUME PagesOK, NEW q \in Pages, online'[q]
               PROVE  IsCurrent(WillShow(q)', state')
    BY DEF PagesOK
  <2>1. WillShow(q)' = WillShow(q)
    BY <1>1, <1>2, <1>3, <1>4, SamePage
  <2> QED
    BY <1>2, <1>3, <2>1 DEF PagesOK
<1> QED
  BY <1>1, <1>2, <1>4, <1>5, <1>6, <1>7, <1>8, <1>9 DEF LiveInv

(* websocket_endpoint: the snapshot, then the events nobody was sent yet, is current. *)
LEMMA ConnectKeepsInv ==
    ASSUME LiveInv, NEW p \in Pages, Connect(p)
    PROVE  LiveInv'
<1> DEFINE ws == [page |-> p, gen |-> gen[p] + 1]
           snap == [key |-> "snapshot", value |-> state]
<1>1. /\ LiveTypeOK /\ ClientsOK /\ StartedInOrder /\ SocketsCame
      /\ NewsAre(NotStarted(broadcasts), state)
      /\ ~overtaken => SentInOrder /\ PagesOK
      /\ state \in ShowType /\ clients \in Seq(Connection) /\ broadcasts \in Seq(Broadcast)
      /\ gen \in [Pages -> Nat] /\ online \in [Pages -> BOOLEAN]
      /\ inbox \in [Pages -> Seq(Published \cup Snapshot)] /\ shown \in [Pages -> ShowType]
  BY InvParts
<1>2. /\ state' = state /\ events' = events /\ broadcasts' = broadcasts
      /\ overtaken' = overtaken /\ shown' = shown
      /\ gen' = [gen EXCEPT ![p] = @ + 1] /\ online' = [online EXCEPT ![p] = TRUE]
      /\ clients' = Append(clients, Socket(p)')
      /\ inbox' = [inbox EXCEPT ![p] = <<snap>>] /\ ~online[p]
  BY DEF Connect
<1>3. /\ gen' \in [Pages -> Nat] /\ gen'[p] = gen[p] + 1 /\ gen[p] \in Nat
      /\ \A q \in Pages : gen[q] \in Nat /\ gen[q] <= gen'[q] /\ (q # p => gen'[q] = gen[q])
  BY <1>1, <1>2
<1>4. Socket(p)' = ws /\ ws \in Connection /\ ws.page = p /\ ws.gen = gen[p] + 1
  BY <1>3 DEF Socket, Connection
<1>5. snap \in Snapshot
  BY <1>1 DEF Snapshot
<1> HIDE DEF ws, snap
<1>6. /\ clients' \in Seq(Connection) /\ Range(clients') = Range(clients) \cup {ws}
      /\ \A a, b : Precedes(clients', a, b) <=> Precedes(clients, a, b) \/ (a \in Range(clients) /\ b = ws)
  <2>1. clients' = Append(clients, ws)
    BY <1>2, <1>4
  <2> QED
    BY <1>1, <1>4, <2>1, AppendIs, PrecedesAppend
<1>7. /\ inbox' \in [Pages -> Seq(Published \cup Snapshot)] /\ inbox'[p] = <<snap>>
      /\ \A q \in Pages : q # p => inbox'[q] = inbox[q]
  <2>1. <<snap>> \in Seq(Published \cup Snapshot)
    BY <1>5
  <2> QED
    BY <1>1, <1>2, <2>1
<1>8. online' \in [Pages -> BOOLEAN] /\ \A q \in Pages : q # p => online'[q] = online[q]
  BY <1>1, <1>2
<1>9. LiveTypeOK'
  BY <1>1, <1>2, <1>3, <1>6, <1>7, <1>8 DEF LiveTypeOK
<1>10. \A w \in Connection : Came(w) => Came(w)' /\ w # ws
  <2> SUFFICES ASSUME NEW w \in Connection, Came(w)
               PROVE  Came(w)' /\ w # ws
    OBVIOUS
  <2>1. w.page \in Pages /\ w.gen \in Nat /\ w.gen <= gen[w.page]
    BY DEF Connection, Came
  <2>2. w.gen <= gen'[w.page]
    BY <1>3, <2>1
  <2>3. w # ws
    BY <1>3, <1>4, <2>1
  <2> QED
    BY <2>2, <2>3 DEF Came
<1>11. ClientsOK'
  <2>1. \A a \in Range(clients) : a \in Connection
    BY <1>1 DEF Range
  <2>2. ASSUME NEW a \in Range(clients')
        PROVE  Came(a)' /\ ~Precedes(clients', a, a)
    <3>1. CASE a \in Range(clients)
      <4>1. a \in Connection /\ Came(a) /\ ~Precedes(clients, a, a)
        BY <1>1, <2>1, <3>1 DEF ClientsOK
      <4> QED
        BY <1>6, <1>10, <4>1
    <3>2. CASE a = ws
      <4>1. Came(a)'
        BY <1>3, <1>4, <3>2 DEF Came
      <4>2. ws \notin Range(clients)
        BY <1>1, <1>10, <2>1 DEF ClientsOK
      <4>3. ~Precedes(clients, a, a)
        BY <3>2, <4>2 DEF Precedes, Range
      <4> QED
        BY <1>6, <3>2, <4>1, <4>2, <4>3
    <3> QED
      BY <1>6, <3>1, <3>2
  <2>3. ASSUME NEW q \in Pages, online'[q]
        PROVE  Socket(q)' \in Range(clients')
    <3>1. CASE q = p
      BY <1>4, <1>6, <3>1
    <3>2. CASE q # p
      <4>1. Socket(q)' = Socket(q) /\ online[q]
        BY <1>3, <1>8, <2>3, <3>2 DEF Socket
      <4> QED
        BY <1>1, <1>6, <4>1 DEF ClientsOK
    <3> QED
      BY <3>1, <3>2
  <2> QED
    BY <2>2, <2>3 DEF ClientsOK
<1>12. StartedInOrder'
  BY <1>1, <1>2 DEF StartedInOrder
<1>13. SocketsCame'
  <2> SUFFICES ASSUME NEW i \in DOMAIN broadcasts
               PROVE  /\ broadcasts[i].started =>
                            broadcasts[i].at \in Connection /\ \A w \in Range(Line(broadcasts[i])) : Came(w)'
                      /\ \A w \in broadcasts[i].dead : Came(w)' /\ ~Alive(w)'
    BY <1>2 DEF SocketsCame
  <2>1. ASSUME broadcasts[i].started
        PROVE  broadcasts[i].at \in Connection /\ \A w \in Range(Line(broadcasts[i])) : Came(w)'
    <3>1. broadcasts[i].at \in Connection /\ \A w \in Range(Line(broadcasts[i])) : Came(w)
      BY <1>1, <2>1 DEF SocketsCame
    <3>2. Range(Line(broadcasts[i])) = {broadcasts[i].at} \cup Range(broadcasts[i].todo)
      BY <1>1, LineIs DEF Unsent
    <3>3. Range(broadcasts[i].todo) \in SUBSET Connection
      <4>1. broadcasts[i].todo \in Seq(Connection)
        BY <1>1, BroadcastIs
      <4> QED
        BY <4>1 DEF Range
    <3> QED
      BY <1>10, <3>1, <3>2, <3>3
  <2>2. ASSUME NEW w \in broadcasts[i].dead
        PROVE  Came(w)' /\ ~Alive(w)'
    <3>1. w \in Connection /\ Came(w) /\ ~Alive(w)
      BY <1>1, BroadcastIs DEF SocketsCame
    <3>2. Came(w)' /\ w.page \in Pages /\ w.gen \in Nat /\ w.gen <= gen[w.page]
      BY <1>10, <3>1 DEF Connection, Came
    <3>3. CASE w.page = p
      <4>1. gen'[w.page] # w.gen
        BY <1>3, <3>2, <3>3
      <4> QED
        BY <3>2, <4>1 DEF Alive
    <3>4. CASE w.page # p
      BY <1>3, <1>8, <3>1, <3>2, <3>4 DEF Alive
    <3> QED
      BY <3>3, <3>4
  <2> QED
    BY <2>1, <2>2
<1>14. NewsAre(NotStarted(broadcasts), state)'
  BY <1>1, <1>2 DEF NewsAre
<1>15. SentInOrder => SentInOrder'
  BY <1>2, <1>6 DEF SentInOrder
<1>16. PagesOK => PagesOK'
  <2> SUFFICES ASSUME PagesOK, NEW q \in Pages, online'[q]
               PROVE  IsCurrent(WillShow(q)', state')
    BY DEF PagesOK
  <2>1. CASE q # p
    <3>1. WillShow(q)' = WillShow(q)
      BY <1>1, <1>2, <1>3, <1>7, <1>9, <2>1, SamePage
    <3> QED
      BY <1>2, <1>8, <2>1, <3>1 DEF PagesOK
  <2>2. CASE q = p
    <3>1. WillShow(p)' = Seen(Seen(shown'[p], inbox'[p]), DueIn(broadcasts', Socket(p)'))
      BY <1>9, WillShowNext
    <3>2. Seen(shown[p], <<snap>>) = state
      <4>1. Seen(shown[p], <<snap>>) = See(shown[p], snap)
        <5>1. snap \in {snap} /\ << >> \in Seq({snap}) /\ Append(<< >>, snap) = <<snap>>
          OBVIOUS
        <5>2. Seen(shown[p], Append(<< >>, snap)) = See(Seen(shown[p], << >>), snap)
          BY <5>1, SeenAppend
        <5> QED
          BY <5>1, <5>2, SeenNothing
      <4>2. snap.key = "snapshot" /\ snap.value = state
        BY DEF snap
      <4> QED
        BY <4>1, <4>2 DEF See, Render
    <3>3. DueIn(broadcasts, ws) = NotStarted(broadcasts)
      <4> DEFINE a == DueIn(broadcasts, ws)
                 b == NotStarted(broadcasts)
      <4>1. /\ a \in Seq(Message) /\ b \in Seq(Message) /\ Len(a) = Len(b)
            /\ DOMAIN broadcasts = 1 .. Len(broadcasts) /\ Len(a) = Len(broadcasts)
            /\ \A i \in DOMAIN broadcasts :
                  a[i] = IF ~broadcasts[i].started \/ ws \in Range(broadcasts[i].todo)
                         THEN broadcasts[i].msg ELSE NoMessage
            /\ \A i \in DOMAIN broadcasts :
                  b[i] = IF broadcasts[i].started THEN NoMessage ELSE broadcasts[i].msg
        BY <1>1, MessagesAre
      <4> HIDE DEF a, b
      <4>2. ASSUME NEW i \in DOMAIN broadcasts
            PROVE  a[i] = b[i]
        <5>1. CASE broadcasts[i].started
          <6>1. \A w \in Range(Line(broadcasts[i])) : Came(w)
            BY <1>1, <5>1 DEF SocketsCame
          <6>2. Range(broadcasts[i].todo) \in SUBSET Range(Line(broadcasts[i]))
            BY <1>1, LineIs DEF Unsent
          <6>3. ws \notin Range(broadcasts[i].todo)
            BY <1>4, <1>10, <6>1, <6>2
          <6> QED
            BY <4>1, <5>1, <6>3
        <5>2. CASE ~broadcasts[i].started
          BY <4>1, <5>2
        <5> QED
          BY <5>1, <5>2
      <4>3. a = b
        BY <4>1, <4>2, SameSequence
      <4> QED
        BY <4>3 DEF a, b
    <3>4. WillShow(p)' = Seen(state, NotStarted(broadcasts))
      BY <1>2, <1>4, <1>7, <3>1, <3>2, <3>3
    <3>5. IsCurrent(Seen(state, NotStarted(broadcasts)), state)
      <4>1. NotStarted(broadcasts) \in Seq(Message)
        BY <1>1, MessagesAre
      <4> QED
        BY <1>1, <4>1, CurrentFromNews
    <3> QED
      BY <1>2, <2>2, <3>4, <3>5
  <2> QED
    BY <2>1, <2>2
<1> QED
  BY <1>1, <1>2, <1>9, <1>11, <1>12, <1>13, <1>14, <1>15, <1>16 DEF LiveInv

-----------------------------------------------------------------------------
(* What holds of a broadcast when it goes on, whether it starts or resumes: todo
   is whom it has still to send to, dead whom it could not.                   *)
Sends(i, todo, dead) ==
    /\ i \in DOMAIN broadcasts
    /\ todo \in Seq(Connection) /\ dead \in SUBSET Connection
    /\ \A ws \in dead : Came(ws) /\ ~Alive(ws)
    /\ \A ws \in Range(todo) : Came(ws)
    /\ \A j \in DOMAIN broadcasts : j < i => broadcasts[j].started
    /\ \A p \in Pages : online[p] =>
          DueIn(broadcasts, Socket(p))[i] =
              IF Socket(p) \in Range(todo) THEN broadcasts[i].msg ELSE NoMessage
SendsInOrder(i, todo) ==
    /\ Range(todo) \subseteq Range(clients)
    /\ \A a, b \in Connection : Precedes(todo, a, b) => Precedes(clients, a, b)
    /\ \A j \in DOMAIN broadcasts : j < i => Unsent(broadcasts[j]) \subseteq Range(todo)
    /\ \A l \in DOMAIN broadcasts : i < l /\ broadcasts[l].started => Range(todo) \subseteq Unsent(broadcasts[l])

(* The two ways in which a broadcast comes to send: it starts, or it goes on. *)
LEMMA StartSends ==
    ASSUME LiveInv, NEW i \in DOMAIN broadcasts, MayStart(i)
    PROVE  Sends(i, clients, {}) /\ (~overtaken => SendsInOrder(i, clients))
<1>1. /\ LiveTypeOK /\ ClientsOK /\ StartedInOrder /\ SocketsCame
      /\ ~overtaken => SentInOrder /\ PagesOK
      /\ clients \in Seq(Connection) /\ broadcasts \in Seq(Broadcast)
  BY InvParts
<1>2. /\ ~broadcasts[i].started /\ \A j \in 1 .. i - 1 : broadcasts[j].started
      /\ DOMAIN broadcasts = 1 .. Len(broadcasts) /\ Len(broadcasts) \in Nat
  BY <1>1, BroadcastIs DEF MayStart
<1>3. \A j \in DOMAIN broadcasts : j < i => j \in 1 .. i - 1
  BY <1>2
<1>4. ASSUME NEW p \in Pages, online[p]
      PROVE  DueIn(broadcasts, Socket(p))[i] =
                IF Socket(p) \in Range(clients) THEN broadcasts[i].msg ELSE NoMessage
  BY <1>1, <1>2, <1>4, MessagesAre DEF ClientsOK
<1>5. Sends(i, clients, {})
  <2>1. \A ws \in Range(clients) : Came(ws)
    BY <1>1 DEF ClientsOK
  <2> QED
    BY <1>1, <1>2, <1>3, <1>4, <2>1 DEF Sends
<1>6. ASSUME ~overtaken
      PROVE  SendsInOrder(i, clients)
  <2>1. SentInOrder
    BY <1>1, <1>6
  <2>2. ASSUME NEW j \in DOMAIN broadcasts, j < i
        PROVE  Unsent(broadcasts[j]) \subseteq Range(clients)
    <3>1. broadcasts[j].started
      BY <1>2, <1>3, <2>2
    <3>2. Range(Line(broadcasts[j])) \subseteq Range(clients)
      BY <2>1, <3>1 DEF SentInOrder
    <3> QED
      BY <1>1, <3>2, LineIs
  <2>3. ASSUME NEW l \in DOMAIN broadcasts, i < l
        PROVE  ~broadcasts[l].started
    BY <1>1, <1>2, <2>3 DEF StartedInOrder
  <2> QED
    BY <2>2, <2>3 DEF SendsInOrder
<1> QED
  BY <1>5, <1>6

LEMMA ResumeSends ==
    ASSUME LiveInv, NEW i \in DOMAIN broadcasts, SendEnds(i), NEW dead,
           dead = broadcasts[i].dead \cup (IF Alive(broadcasts[i].at) THEN {} ELSE {broadcasts[i].at})
    PROVE  Sends(i, broadcasts[i].todo, dead) /\ (~overtaken => SendsInOrder(i, broadcasts[i].todo))
<1> DEFINE now == broadcasts[i].at
           todo == broadcasts[i].todo
<1>1. /\ LiveTypeOK /\ ClientsOK /\ StartedInOrder /\ SocketsCame
      /\ ~overtaken => SentInOrder /\ PagesOK
      /\ clients \in Seq(Connection) /\ broadcasts \in Seq(Broadcast)
  BY InvParts
<1>2. /\ broadcasts[i].started
      /\ \A j \in 1 .. i - 1 : broadcasts[j].at # now
      /\ DOMAIN broadcasts = 1 .. Len(broadcasts) /\ Len(broadcasts) \in Nat
      /\ broadcasts[i].dead \in SUBSET Connection /\ todo \in Seq(Connection)
  BY <1>1, BroadcastIs DEF SendEnds
<1>3. \A j \in DOMAIN broadcasts : j < i => j \in 1 .. i - 1
  BY <1>2
<1>4. now \in Connection /\ \A ws \in {now} \cup Range(todo) : Came(ws)
  <2>1. now \in Connection /\ \A ws \in Range(Line(broadcasts[i])) : Came(ws)
    BY <1>1, <1>2 DEF SocketsCame
  <2> QED
    BY <1>1, <2>1, LineIs DEF Unsent
<1>5. Sends(i, todo, dead)
  <2>1. dead \in SUBSET Connection /\ \A ws \in dead : Came(ws) /\ ~Alive(ws)
    BY <1>1, <1>2, <1>4 DEF SocketsCame
  <2>2. \A j \in DOMAIN broadcasts : j < i => broadcasts[j].started
    BY <1>1, <1>2 DEF StartedInOrder
  <2>3. ASSUME NEW p \in Pages
        PROVE  DueIn(broadcasts, Socket(p))[i] =
                  IF Socket(p) \in Range(todo) THEN broadcasts[i].msg ELSE NoMessage
    BY <1>1, <1>2, MessagesAre
  <2> QED
    BY <1>2, <1>4, <2>1, <2>2, <2>3 DEF Sends
<1>6. ASSUME ~overtaken
      PROVE  SendsInOrder(i, todo)
  <2>1. SentInOrder
    BY <1>1, <1>6
  <2>2. /\ Unsent(broadcasts[i]) = {now} \cup Range(todo)
        /\ Unsent(broadcasts[i]) \subseteq Range(clients)
        /\ \A a, b \in Connection :
              Precedes(todo, a, b) \/ (a = now /\ b \in Range(todo)) => Precedes(clients, a, b)
    BY <1>1, <1>2, <2>1, LineIs DEF SentInOrder, Unsent
  <2>3. Range(todo) \in SUBSET Connection
    BY <1>2 DEF Range
  <2>4. ASSUME NEW j \in DOMAIN broadcasts, j < i
        PROVE  Unsent(broadcasts[j]) \subseteq Range(todo)
    <3>1. broadcasts[j].started /\ broadcasts[j].at # now
      BY <1>1, <1>2, <1>3, <2>4 DEF StartedInOrder
    <3>2. Unsent(broadcasts[j]) \subseteq Unsent(broadcasts[i])
      <4>1. Range(Line(broadcasts[j])) \subseteq Range(Line(broadcasts[i]))
        BY <1>2, <2>1, <2>4 DEF SentInOrder
      <4> QED
        BY <1>1, <4>1, LineIs
    <3>3. now \notin Unsent(broadcasts[j])
      <4> SUFFICES ASSUME now \in Range(broadcasts[j].todo)
                   PROVE  FALSE
        BY <3>1 DEF Unsent
      <4>1. broadcasts[j].at \in Connection
        BY <1>1, <3>1 DEF SocketsCame
      <4>2. Precedes(clients, broadcasts[j].at, now)
        BY <1>1, <1>4, <2>1, <3>1, <4>1, LineIs DEF SentInOrder
      <4>3. broadcasts[j].at \in Range(todo)
        BY <2>2, <3>1, <3>2 DEF Unsent
      <4>4. Precedes(clients, now, broadcasts[j].at)
        BY <1>4, <2>2, <4>1, <4>3
      <4> QED
        BY <1>1, <4>2, <4>4, OneOrder
    <3> QED
      BY <2>2, <3>2, <3>3
  <2>5. ASSUME NEW l \in DOMAIN broadcasts, i < l, broadcasts[l].started
        PROVE  Range(todo) \subseteq Unsent(broadcasts[l])
    <3>1. Range(Line(broadcasts[i])) \subseteq Range(Line(broadcasts[l]))
      BY <2>1, <2>5 DEF SentInOrder
    <3> QED
      BY <1>1, <2>2, <3>1, LineIs
  <2> QED
    BY <2>2, <2>4, <2>5 DEF SendsInOrder
<1> QED
  BY <1>5, <1>6

(* The message of a broadcast that goes on leaves the news, if it is still there. *)
LEMMA NewsOfTheOthers ==
    ASSUME LiveInv, NEW i, NEW todo, NEW dead, Sends(i, todo, dead)
    PROVE  /\ NewsAre([NotStarted(broadcasts) EXCEPT ![i] = NoMessage], state)
           /\ i \in DOMAIN NotStarted(broadcasts)
<1>1. /\ NewsAre(NotStarted(broadcasts), state) /\ state \in ShowType /\ broadcasts \in Seq(Broadcast)
  BY InvParts
<1>2. i \in DOMAIN broadcasts /\ \A j \in DOMAIN broadcasts : j < i => broadcasts[j].started
  BY DEF Sends
<1>3. /\ NotStarted(broadcasts) \in Seq(Message) /\ DOMAIN NotStarted(broadcasts) = DOMAIN broadcasts
      /\ DOMAIN broadcasts = 1 .. Len(broadcasts) /\ Len(broadcasts) \in Nat
      /\ \A j \in DOMAIN broadcasts :
            NotStarted(broadcasts)[j] = IF broadcasts[j].started THEN NoMessage ELSE broadcasts[j].msg
  BY <1>1, MessagesAre
<1>4. \A j \in 1 .. i - 1 : j \in DOMAIN broadcasts /\ j < i
  BY <1>2, <1>3
<1>5. \A j \in 1 .. i - 1 : NotStarted(broadcasts)[j] = NoMessage
  BY <1>2, <1>3, <1>4
<1> QED
  BY <1>1, <1>2, <1>3, <1>5, NewsGo

-----------------------------------------------------------------------------
(* What is the message of the i-th of a list without it. *)
LEMMA MessagesRemoved ==
    ASSUME NEW bs \in Seq(Broadcast), NEW i \in DOMAIN bs
    PROVE  /\ NotStarted(RemoveAt(bs, i)) = RemoveAt(NotStarted(bs), i)
           /\ \A ws : DueIn(RemoveAt(bs, i), ws) = RemoveAt(DueIn(bs, ws), i)
<1> DEFINE cs == RemoveAt(bs, i)
           n == Len(bs)
<1>1. /\ n \in Nat /\ DOMAIN bs = 1 .. n /\ i \in 1 .. n
      /\ cs \in Seq(Broadcast) /\ Len(cs) = n - 1 /\ DOMAIN cs = 1 .. n - 1
      /\ \A j \in 1 .. n - 1 : cs[j] = IF j < i THEN bs[j] ELSE bs[j + 1]
  BY RemoveAtIs
<1>2. \A j \in 1 .. n - 1 : j \in 1 .. n /\ j + 1 \in 1 .. n
  BY <1>1
<1> HIDE DEF cs
<1>3. NotStarted(cs) = RemoveAt(NotStarted(bs), i)
  <2> DEFINE a == NotStarted(bs)
             b == NotStarted(cs)
             r == RemoveAt(a, i)
  <2>1. /\ a \in Seq(Message) /\ Len(a) = n /\ DOMAIN a = DOMAIN bs
        /\ \A j \in DOMAIN bs : a[j] = IF bs[j].started THEN NoMessage ELSE bs[j].msg
    BY MessagesAre
  <2>2. /\ b \in Seq(Message) /\ Len(b) = Len(cs)
        /\ \A j \in DOMAIN cs : b[j] = IF cs[j].started THEN NoMessage ELSE cs[j].msg
    BY <1>1, MessagesAre
  <2> HIDE DEF a, b
  <2>3. /\ r \in Seq(Message) /\ Len(r) = Len(a) - 1
        /\ \A j \in 1 .. Len(a) - 1 : r[j] = IF j < i THEN a[j] ELSE a[j + 1]
    BY <2>1, RemoveAtIs
  <2> HIDE DEF r
  <2>4. ASSUME NEW j \in 1 .. n - 1
        PROVE  b[j] = r[j]
    <3>1. r[j] = IF j < i THEN a[j] ELSE a[j + 1]
      BY <2>1, <2>3
    <3>2. b[j] = IF cs[j].started THEN NoMessage ELSE cs[j].msg
      BY <1>1, <2>2
    <3>3. CASE j < i
      BY <1>1, <1>2, <2>1, <3>1, <3>2, <3>3
    <3>4. CASE ~(j < i)
      BY <1>1, <1>2, <2>1, <3>1, <3>2, <3>4
    <3> QED
      BY <3>3, <3>4
  <2>5. Len(b) = n - 1 /\ Len(r) = n - 1
    BY <1>1, <2>1, <2>2, <2>3
  <2>6. b = r
    BY <2>2, <2>3, <2>4, <2>5, SameSequence
  <2> QED
    BY <2>6 DEF a, b, r
<1>4. ASSUME NEW ws
      PROVE  DueIn(cs, ws) = RemoveAt(DueIn(bs, ws), i)
  <2> DEFINE a == DueIn(bs, ws)
             b == DueIn(cs, ws)
             r == RemoveAt(a, i)
             d(bc) == IF ~bc.started \/ ws \in Range(bc.todo) THEN bc.msg ELSE NoMessage
  <2>1. /\ a \in Seq(Message) /\ Len(a) = n /\ DOMAIN a = DOMAIN bs
        /\ \A j \in DOMAIN bs : a[j] = d(bs[j])
    BY MessagesAre
  <2>2. /\ b \in Seq(Message) /\ Len(b) = Len(cs)
        /\ \A j \in DOMAIN cs : b[j] = d(cs[j])
    BY <1>1, MessagesAre
  <2> HIDE DEF a, b, d
  <2>3. /\ r \in Seq(Message) /\ Len(r) = Len(a) - 1
        /\ \A j \in 1 .. Len(a) - 1 : r[j] = IF j < i THEN a[j] ELSE a[j + 1]
    BY <2>1, RemoveAtIs
  <2> HIDE DEF r
  <2>4. ASSUME NEW j \in 1 .. n - 1
        PROVE  b[j] = r[j]
    <3>1. r[j] = IF j < i THEN a[j] ELSE a[j + 1]
      BY <2>1, <2>3
    <3>2. b[j] = d(cs[j])
      BY <1>1, <2>2
    <3>3. CASE j < i
      BY <1>1, <1>2, <2>1, <3>1, <3>2, <3>3
    <3>4. CASE ~(j < i)
      BY <1>1, <1>2, <2>1, <3>1, <3>2, <3>4
    <3> QED
      BY <3>3, <3>4
  <2>5. Len(b) = n - 1 /\ Len(r) = n - 1
    BY <1>1, <2>1, <2>2, <2>3
  <2>6. b = r
    BY <2>2, <2>3, <2>4, <2>5, SameSequence
  <2> QED
    BY <2>6 DEF a, b, r
<1> QED
  BY <1>3, <1>4 DEF cs

(* The end of broadcast: there was nothing more to send. *)
LEMMA EndKeepsInv ==
    ASSUME LiveInv, NEW i, NEW dead, Sends(i, << >>, dead),
           broadcasts' = RemoveAt(broadcasts, i), Forget(dead, DOMAIN broadcasts \ {i}),
           UNCHANGED <<state, events, pageVars>>
    PROVE  LiveInv'
<1> DEFINE n == Len(broadcasts)
           old(j) == IF j < i THEN j ELSE j + 1
<1>1. /\ LiveTypeOK /\ ClientsOK /\ StartedInOrder /\ SocketsCame
      /\ ~overtaken => SentInOrder /\ PagesOK
      /\ state \in ShowType /\ clients \in Seq(Connection) /\ broadcasts \in Seq(Broadcast)
  BY InvParts
<1>2. /\ state' = state /\ events' = events
      /\ gen' = gen /\ online' = online /\ inbox' = inbox /\ shown' = shown
      /\ clients' = Without(clients, dead)
      /\ overtaken' = (overtaken \/ \E j \in DOMAIN broadcasts \ {i} : dead \cap Unsent(broadcasts[j]) # {})
  BY DEF Forget, pageVars
<1>3. /\ i \in DOMAIN broadcasts /\ \A ws \in dead : ~Alive(ws)
      /\ \A j \in DOMAIN broadcasts : j < i => broadcasts[j].started
      /\ \A p \in Pages : online[p] => DueIn(broadcasts, Socket(p))[i] = NoMessage
  <2>1. \A ws : ws \notin Range(<< >>)
    BY DEF Range
  <2> QED
    BY <2>1 DEF Sends
<1>4. /\ n \in Nat /\ DOMAIN broadcasts = 1 .. n /\ i \in 1 .. n
      /\ broadcasts' \in Seq(Broadcast) /\ Len(broadcasts') = n - 1 /\ DOMAIN broadcasts' = 1 .. n - 1
      /\ \A j \in 1 .. n - 1 : broadcasts'[j] = IF j < i THEN broadcasts[j] ELSE broadcasts[j + 1]
  BY <1>1, <1>3, RemoveAtIs
<1>5. /\ \A j \in DOMAIN broadcasts' :
            old(j) \in DOMAIN broadcasts /\ old(j) # i /\ broadcasts'[j] = broadcasts[old(j)]
      /\ \A j, k \in DOMAIN broadcasts' : j < k => old(j) < old(k)
  <2>1. ASSUME NEW j \in DOMAIN broadcasts'
        PROVE  old(j) \in DOMAIN broadcasts /\ old(j) # i /\ broadcasts'[j] = broadcasts[old(j)]
    BY <1>4
  <2>2. \A j, k \in DOMAIN broadcasts' : j < k => old(j) < old(k)
    BY <1>4
  <2> QED
    BY <2>1, <2>2
<1> HIDE DEF old
<1>6. /\ ClientsOK' /\ clients' \in Seq(Connection)
      /\ Range(clients') = Range(clients) \ dead
      /\ \A a, b : Precedes(clients', a, b) <=> Precedes(clients, a, b) /\ a \notin dead /\ b \notin dead
  BY <1>1, <1>2, <1>3, ClientsForgotten
<1>7. LiveTypeOK'
  <2>1. overtaken' \in BOOLEAN
    BY <1>2
  <2> QED
    BY <1>1, <1>2, <1>4, <1>6, <2>1 DEF LiveTypeOK
<1>8. StartedInOrder'
  BY <1>1, <1>5 DEF StartedInOrder
<1>9. SocketsCame'
  BY <1>1, <1>2, <1>5 DEF SocketsCame, Came, Alive
<1>10. NewsAre(NotStarted(broadcasts), state)'
  <2> DEFINE a == NotStarted(broadcasts)
             b == [a EXCEPT ![i] = NoMessage]
  <2>1. NewsAre(b, state) /\ i \in DOMAIN a
    BY NewsOfTheOthers
  <2>2. a \in Seq(Message) /\ NoMessage \in Message
    BY <1>1, MessagesAre
  <2>3. NotStarted(broadcasts') = RemoveAt(a, i)
    BY <1>1, <1>3, MessagesRemoved
  <2> HIDE DEF a
  <2>4. /\ b \in Seq(Message) /\ Len(b) = Len(a) /\ DOMAIN b = DOMAIN a
        /\ \A j \in DOMAIN a : b[j] = IF j = i THEN NoMessage ELSE a[j]
    BY <2>1, <2>2, ExceptIs
  <2> HIDE DEF b
  <2>5. RemoveAt(b, i) = RemoveAt(a, i)
    <3>1. /\ Len(a) \in Nat /\ DOMAIN a = 1 .. Len(a) /\ i \in 1 .. Len(a)
          /\ RemoveAt(a, i) \in Seq(Message) /\ Len(RemoveAt(a, i)) = Len(a) - 1
          /\ \A j \in 1 .. Len(a) - 1 : RemoveAt(a, i)[j] = IF j < i THEN a[j] ELSE a[j + 1]
      BY <2>1, <2>2, RemoveAtIs
    <3>2. /\ RemoveAt(b, i) \in Seq(Message) /\ Len(RemoveAt(b, i)) = Len(b) - 1
          /\ \A j \in 1 .. Len(b) - 1 : RemoveAt(b, i)[j] = IF j < i THEN b[j] ELSE b[j + 1]
      BY <2>1, <2>4, RemoveAtIs
    <3>3. ASSUME NEW j \in 1 .. Len(a) - 1
          PROVE  RemoveAt(b, i)[j] = RemoveAt(a, i)[j]
      <4>1. CASE j < i
        <5>1. j \in DOMAIN a /\ j # i
          BY <3>1, <4>1
        <5> QED
          BY <2>4, <3>1, <3>2, <4>1, <5>1
      <4>2. CASE ~(j < i)
        <5>1. j + 1 \in DOMAIN a /\ j + 1 # i
          BY <3>1, <4>2
        <5> QED
          BY <2>4, <3>1, <3>2, <4>2, <5>1
      <4> QED
        BY <4>1, <4>2
    <3> QED
      BY <2>4, <3>1, <3>2, <3>3, SameSequence
  <2>6. Seen(Fresh, RemoveAt(b, i)) = Seen(Fresh, b)
    BY <2>1, <2>4, SeenRemove
  <2>7. NewsAre(RemoveAt(a, i), state)
    BY <2>1, <2>5, <2>6 DEF NewsAre
  <2>8. NewsAre(NotStarted(broadcasts), state)' = NewsAre(NotStarted(broadcasts'), state')
    BY DEF NewsAre
  <2> QED
    BY <1>2, <2>3, <2>7, <2>8
<1>11. ASSUME ~overtaken'
       PROVE  SentInOrder' /\ PagesOK'
  <2>1. /\ ~overtaken /\ SentInOrder /\ PagesOK
        /\ \A j \in DOMAIN broadcasts : j # i => dead \cap Unsent(broadcasts[j]) = {}
    BY <1>1, <1>2, <1>11
  <2>2. ASSUME NEW j \in DOMAIN broadcasts, j # i, broadcasts[j].started
        PROVE  /\ Range(Line(broadcasts[j])) \subseteq Range(clients')
               /\ \A a, b \in Connection : Precedes(Line(broadcasts[j]), a, b) => Precedes(clients', a, b)
    BY <1>1, <1>6, <2>1, <2>2, LineKept
  <2>3. SentInOrder'
    <3> SUFFICES ASSUME NEW k \in DOMAIN broadcasts', broadcasts'[k].started
                 PROVE  /\ Range(Line(broadcasts'[k])) \subseteq Range(clients')
                        /\ \A a, b \in Connection : Precedes(Line(broadcasts'[k]), a, b) => Precedes(clients', a, b)
                        /\ \A j \in DOMAIN broadcasts' : j < k =>
                              Range(Line(broadcasts'[j])) \subseteq Range(Line(broadcasts'[k]))
      BY DEF SentInOrder
    <3>1. old(k) \in DOMAIN broadcasts /\ old(k) # i /\ broadcasts'[k] = broadcasts[old(k)]
      BY <1>5
    <3>2. ASSUME NEW j \in DOMAIN broadcasts', j < k
          PROVE  Range(Line(broadcasts'[j])) \subseteq Range(Line(broadcasts'[k]))
      <4>1. old(j) \in DOMAIN broadcasts /\ old(j) < old(k) /\ broadcasts'[j] = broadcasts[old(j)]
        BY <1>5, <3>2
      <4> QED
        BY <2>1, <3>1, <4>1 DEF SentInOrder
    <3> QED
      BY <2>2, <3>1, <3>2
  <2>4. ASSUME NEW p \in Pages, online'[p]
        PROVE  IsCurrent(WillShow(p)', state')
    <3> DEFINE show == Seen(shown[p], inbox[p])
               a == DueIn(broadcasts, Socket(p))
    <3>1. WillShow(p) = Seen(show, a)
      BY <1>1, WillShowIs
    <3>2. WillShow(p)' = Seen(show, DueIn(broadcasts', Socket(p)))
      <4>1. Socket(p)' = Socket(p)
        BY <1>2 DEF Socket
      <4> QED
        BY <1>2, <1>7, <4>1, WillShowNext
    <3>3. DueIn(broadcasts', Socket(p)) = RemoveAt(a, i)
      BY <1>1, <1>3, MessagesRemoved
    <3>4. a \in Seq(Message) /\ i \in DOMAIN a /\ a[i] = NoMessage
      BY <1>1, <1>2, <1>3, <2>4, MessagesAre
    <3> HIDE DEF a, show
    <3>5. Seen(show, RemoveAt(a, i)) = Seen(show, a)
      BY <3>4, SeenRemove
    <3> QED
      BY <1>2, <2>1, <2>4, <3>1, <3>2, <3>3, <3>5 DEF PagesOK
  <2> QED
    BY <2>3, <2>4 DEF PagesOK
<1> QED
  BY <1>6, <1>7, <1>8, <1>9, <1>10, <1>11 DEF LiveInv

-----------------------------------------------------------------------------
(* The first of those a broadcast has still to send to is first for nobody that
   started before.                                                            *)
LEMMA FirstForNobody ==
    ASSUME LiveInv, ~overtaken, NEW i, NEW todo, NEW dead, Sends(i, todo, dead), SendsInOrder(i, todo),
           todo # << >>
    PROVE  /\ Head(todo) \notin Range(Tail(todo))
           /\ \A j \in DOMAIN broadcasts : j < i => Head(todo) \notin Range(broadcasts[j].todo)
<1> DEFINE ws == Head(todo)
           rest == Tail(todo)
<1>1. /\ LiveTypeOK /\ ClientsOK /\ SocketsCame /\ SentInOrder
      /\ clients \in Seq(Connection) /\ broadcasts \in Seq(Broadcast)
  BY InvParts
<1>2. /\ i \in DOMAIN broadcasts /\ todo \in Seq(Connection)
      /\ \A j \in DOMAIN broadcasts : j < i => broadcasts[j].started
      /\ Range(todo) \subseteq Range(clients)
      /\ \A a, b \in Connection : Precedes(todo, a, b) => Precedes(clients, a, b)
      /\ \A j \in DOMAIN broadcasts : j < i => Unsent(broadcasts[j]) \subseteq Range(todo)
  BY DEF Sends, SendsInOrder
<1>3. ws \in Connection /\ rest \in Seq(Connection) /\ todo = <<ws>> \o rest
  BY <1>2
<1> HIDE DEF ws, rest
<1>4. /\ Range(todo) = {ws} \cup Range(rest)
      /\ \A a, b : Precedes(todo, a, b) <=> Precedes(rest, a, b) \/ (a = ws /\ b \in Range(rest))
  BY <1>3, PrecedesHead
<1>5. ~Precedes(clients, ws, ws)
  BY <1>1, <1>2, <1>4 DEF ClientsOK
<1>6. ws \notin Range(rest)
  BY <1>2, <1>3, <1>4, <1>5
<1>7. ASSUME NEW j \in DOMAIN broadcasts, j < i, ws \in Range(broadcasts[j].todo)
      PROVE  FALSE
  <2>1. broadcasts[j].started /\ broadcasts[j].at \in Connection
    BY <1>1, <1>2, <1>7 DEF SocketsCame
  <2>2. Precedes(clients, broadcasts[j].at, ws)
    BY <1>1, <1>3, <1>7, <2>1, LineIs DEF SentInOrder
  <2>3. broadcasts[j].at \in {ws} \cup Range(rest)
    BY <1>2, <1>4, <1>7 DEF Unsent
  <2>4. broadcasts[j].at # ws
    BY <1>5, <2>2
  <2>5. Precedes(clients, ws, broadcasts[j].at)
    BY <1>2, <1>3, <1>4, <2>1, <2>3, <2>4
  <2> QED
    BY <1>1, <2>2, <2>5, OneOrder
<1> QED
  BY <1>6, <1>7 DEF ws, rest

(* A send moves the message from what the page is due of the broadcast to its inbox. *)
LEMMA SendKeepsInv ==
    ASSUME LiveInv, NEW i, NEW todo, NEW dead, Sends(i, todo, dead),
           ~overtaken => SendsInOrder(i, todo), todo # << >>,
           broadcasts' = [broadcasts EXCEPT ![i] = [msg |-> @.msg, started |-> TRUE, at |-> Head(todo),
                                                    todo |-> Tail(todo), dead |-> dead]],
           inbox' = IF Alive(Head(todo))
                    THEN [inbox EXCEPT ![Head(todo).page] = Append(@, broadcasts[i].msg)] ELSE inbox,
           UNCHANGED <<clients, overtaken, state, events, gen, online, shown>>
    PROVE  LiveInv'
<1> DEFINE n == Len(broadcasts)
           ws == Head(todo)
           rest == Tail(todo)
           m == broadcasts[i].msg
           bc == [msg |-> m, started |-> TRUE, at |-> ws, todo |-> rest, dead |-> dead]
<1>1. /\ LiveTypeOK /\ ClientsOK /\ StartedInOrder /\ SocketsCame
      /\ ~overtaken => SentInOrder /\ PagesOK
      /\ state \in ShowType /\ clients \in Seq(Connection) /\ broadcasts \in Seq(Broadcast)
      /\ gen \in [Pages -> Nat] /\ online \in [Pages -> BOOLEAN]
      /\ inbox \in [Pages -> Seq(Published \cup Snapshot)] /\ shown \in [Pages -> ShowType]
  BY InvParts
<1>2. /\ i \in DOMAIN broadcasts /\ todo \in Seq(Connection) /\ dead \in SUBSET Connection
      /\ \A w \in dead : Came(w) /\ ~Alive(w)
      /\ \A w \in Range(todo) : Came(w)
      /\ \A j \in DOMAIN broadcasts : j < i => broadcasts[j].started
      /\ \A p \in Pages : online[p] =>
            DueIn(broadcasts, Socket(p))[i] = IF Socket(p) \in Range(todo) THEN m ELSE NoMessage
  BY DEF Sends
<1>3. /\ ws \in Connection /\ rest \in Seq(Connection) /\ todo = <<ws>> \o rest
  BY <1>2
<1>4. /\ state' = state /\ events' = events /\ clients' = clients /\ overtaken' = overtaken
      /\ gen' = gen /\ online' = online /\ shown' = shown
      /\ inbox' = IF Alive(ws) THEN [inbox EXCEPT ![ws.page] = Append(@, m)] ELSE inbox
      /\ broadcasts' = [broadcasts EXCEPT ![i] = bc]
  OBVIOUS
<1>5. /\ m \in Published /\ m \in Message /\ n \in Nat /\ DOMAIN broadcasts = 1 .. n
  BY <1>1, <1>2, BroadcastIs
<1>6. bc \in Broadcast
  BY <1>2, <1>3, <1>5 DEF Broadcast
<1>7. bc.msg = m /\ bc.started /\ bc.at = ws /\ bc.todo = rest /\ bc.dead = dead
  OBVIOUS
<1> HIDE DEF ws, rest, m, bc
<1>8. /\ Range(todo) = {ws} \cup Range(rest)
      /\ \A a, b : Precedes(todo, a, b) <=> Precedes(rest, a, b) \/ (a = ws /\ b \in Range(rest))
  BY <1>3, PrecedesHead
<1>9. /\ broadcasts' \in Seq(Broadcast) /\ Len(broadcasts') = n /\ DOMAIN broadcasts' = DOMAIN broadcasts
      /\ \A j \in DOMAIN broadcasts : broadcasts'[j] = IF j = i THEN bc ELSE broadcasts[j]
  <2> DEFINE e == [broadcasts EXCEPT ![i] = bc]
  <2>1. /\ e \in Seq(Broadcast) /\ Len(e) = n /\ DOMAIN e = DOMAIN broadcasts
        /\ \A j \in DOMAIN broadcasts : e[j] = IF j = i THEN bc ELSE broadcasts[j]
    BY <1>1, <1>2, <1>6, ExceptIs
  <2>2. broadcasts' = e
    BY <1>4
  <2> HIDE DEF e
  <2> QED
    BY <2>1, <2>2
<1>10. Line(bc) = todo
  BY <1>3, <1>7 DEF Line
<1>11. /\ inbox' \in [Pages -> Seq(Published \cup Snapshot)]
       /\ \A p \in Pages : inbox'[p] = IF Alive(ws) /\ p = ws.page THEN Append(inbox[p], m) ELSE inbox[p]
  <2>1. ws.page \in Pages
    BY <1>3 DEF Connection
  <2>2. Append(inbox[ws.page], m) \in Seq(Published \cup Snapshot)
    BY <1>1, <1>5, <2>1
  <2> QED
    BY <1>1, <1>4, <2>1, <2>2
<1>12. LiveTypeOK'
  BY <1>1, <1>4, <1>9, <1>11 DEF LiveTypeOK
<1>13. ClientsOK'
  BY <1>1, <1>4 DEF ClientsOK, Came, Socket
<1>14. StartedInOrder'
  BY <1>1, <1>2, <1>7, <1>9 DEF StartedInOrder
<1>15. SocketsCame'
  <2> SUFFICES ASSUME NEW j \in DOMAIN broadcasts
               PROVE  /\ broadcasts'[j].started =>
                            broadcasts'[j].at \in Connection /\ \A w \in Range(Line(broadcasts'[j])) : Came(w)
                      /\ \A w \in broadcasts'[j].dead : Came(w) /\ ~Alive(w)
    BY <1>4, <1>9 DEF SocketsCame, Came, Alive
  <2>1. CASE j = i
    BY <1>2, <1>3, <1>7, <1>9, <1>10, <2>1
  <2>2. CASE j # i
    BY <1>1, <1>9, <2>2 DEF SocketsCame
  <2> QED
    BY <2>1, <2>2
<1>16. NewsAre(NotStarted(broadcasts), state)'
  <2> DEFINE a == NotStarted(broadcasts)
             b == NotStarted(broadcasts')
             r == [a EXCEPT ![i] = NoMessage]
  <2>1. NewsAre(r, state) /\ i \in DOMAIN a
    BY NewsOfTheOthers
  <2>2. /\ a \in Seq(Message) /\ Len(a) = n /\ DOMAIN a = DOMAIN broadcasts /\ NoMessage \in Message
        /\ \A j \in DOMAIN broadcasts : a[j] = IF broadcasts[j].started THEN NoMessage ELSE broadcasts[j].msg
    BY <1>1, MessagesAre
  <2>3. /\ b \in Seq(Message) /\ Len(b) = Len(broadcasts')
        /\ \A j \in DOMAIN broadcasts' : b[j] = IF broadcasts'[j].started THEN NoMessage ELSE broadcasts'[j].msg
    BY <1>9, MessagesAre
  <2> HIDE DEF a, b
  <2>4. /\ r \in Seq(Message) /\ Len(r) = Len(a)
        /\ \A j \in DOMAIN a : r[j] = IF j = i THEN NoMessage ELSE a[j]
    BY <2>1, <2>2, ExceptIs
  <2> HIDE DEF r
  <2>5. ASSUME NEW j \in DOMAIN broadcasts
        PROVE  b[j] = r[j]
    <3>1. CASE j = i
      BY <1>7, <1>9, <2>2, <2>3, <2>4, <3>1
    <3>2. CASE j # i
      BY <1>9, <2>2, <2>3, <2>4, <3>2
    <3> QED
      BY <3>1, <3>2
  <2>6. b = r
    BY <1>5, <1>9, <2>2, <2>3, <2>4, <2>5, SameSequence
  <2>7. NewsAre(NotStarted(broadcasts), state)' = NewsAre(NotStarted(broadcasts'), state')
    BY DEF NewsAre
  <2> QED
    BY <1>4, <2>1, <2>6, <2>7 DEF b
<1>17. ASSUME ~overtaken'
       PROVE  SentInOrder' /\ PagesOK'
  <2>1. ~overtaken /\ SentInOrder /\ PagesOK /\ SendsInOrder(i, todo)
    BY <1>1, <1>4, <1>17
  <2>2. /\ Range(todo) \subseteq Range(clients)
        /\ \A a, b \in Connection : Precedes(todo, a, b) => Precedes(clients, a, b)
        /\ \A j \in DOMAIN broadcasts : j < i => Unsent(broadcasts[j]) \subseteq Range(todo)
        /\ \A l \in DOMAIN broadcasts : i < l /\ broadcasts[l].started => Range(todo) \subseteq Unsent(broadcasts[l])
    BY <2>1 DEF SendsInOrder
  <2>3. ws \notin Range(rest) /\ \A j \in DOMAIN broadcasts : j < i => ws \notin Range(broadcasts[j].todo)
    BY <2>1, FirstForNobody DEF ws, rest
  <2>4. SentInOrder'
    <3> SUFFICES ASSUME NEW k \in DOMAIN broadcasts, broadcasts'[k].started
                 PROVE  /\ Range(Line(broadcasts'[k])) \subseteq Range(clients)
                        /\ \A a, b \in Connection : Precedes(Line(broadcasts'[k]), a, b) => Precedes(clients, a, b)
                        /\ \A j \in DOMAIN broadcasts : j < k =>
                              Range(Line(broadcasts'[j])) \subseteq Range(Line(broadcasts'[k]))
      BY <1>4, <1>9 DEF SentInOrder
    <3>1. CASE k = i
      <4>1. Line(broadcasts'[k]) = todo
        BY <1>9, <1>10, <3>1
      <4>2. ASSUME NEW j \in DOMAIN broadcasts, j < k
            PROVE  Range(Line(broadcasts'[j])) \subseteq Range(todo)
        <5>1. j # i /\ broadcasts'[j] = broadcasts[j]
          BY <1>5, <1>9, <3>1, <4>2
        <5> QED
          BY <1>1, <2>2, <3>1, <4>2, <5>1, LineIs
      <4> QED
        BY <2>2, <4>1, <4>2
    <3>2. CASE k # i
      <4>1. broadcasts'[k] = broadcasts[k] /\ broadcasts[k].started
        BY <1>9, <3>2
      <4>2. ASSUME NEW j \in DOMAIN broadcasts, j < k
            PROVE  Range(Line(broadcasts'[j])) \subseteq Range(Line(broadcasts[k]))
        <5>1. CASE j = i
          <6>1. Range(Line(broadcasts'[j])) = Range(todo)
            BY <1>9, <1>10, <5>1
          <6>2. Range(todo) \subseteq Unsent(broadcasts[k])
            BY <2>2, <4>1, <4>2, <5>1
          <6>3. Range(Line(broadcasts[k])) = Unsent(broadcasts[k])
            BY <1>1, LineIs
          <6> QED
            BY <6>1, <6>2, <6>3
        <5>2. CASE j # i
          BY <1>9, <2>1, <4>1, <4>2, <5>2 DEF SentInOrder
        <5> QED
          BY <5>1, <5>2
      <4> QED
        BY <2>1, <4>1, <4>2 DEF SentInOrder
    <3> QED
      BY <3>1, <3>2
  <2>5. ASSUME NEW p \in Pages, online'[p]
        PROVE  WillShow(p)' = WillShow(p)
    <3> DEFINE show == Seen(shown[p], inbox[p])
               a == DueIn(broadcasts, Socket(p))
               b == DueIn(broadcasts', Socket(p))
    <3>1. WillShow(p) = Seen(show, a)
      BY <1>1, WillShowIs
    <3>2. WillShow(p)' = Seen(Seen(shown[p], inbox'[p]), b)
      <4>1. Socket(p)' = Socket(p)
        BY <1>4 DEF Socket
      <4> QED
        BY <1>4, <1>12, <4>1, WillShowNext
    <3>3. /\ a \in Seq(Message) /\ Len(a) = n /\ DOMAIN a = DOMAIN broadcasts /\ NoMessage \in Message
          /\ \A j \in DOMAIN broadcasts :
                a[j] = IF ~broadcasts[j].started \/ Socket(p) \in Range(broadcasts[j].todo)
                       THEN broadcasts[j].msg ELSE NoMessage
          /\ a[i] = IF Socket(p) \in Range(todo) THEN m ELSE NoMessage
      BY <1>1, <1>2, <1>4, <2>5, MessagesAre
    <3>4. /\ b \in Seq(Message) /\ Len(b) = Len(broadcasts')
          /\ \A j \in DOMAIN broadcasts' :
                b[j] = IF ~broadcasts'[j].started \/ Socket(p) \in Range(broadcasts'[j].todo)
                       THEN broadcasts'[j].msg ELSE NoMessage
      <4>1. broadcasts' \in Seq(Broadcast)
        BY <1>9
      <4> QED
        BY <4>1, MessagesAre
    <3> HIDE DEF a, b
    <3>5. /\ \A j \in DOMAIN broadcasts : j # i => b[j] = a[j]
          /\ b[i] = IF Socket(p) \in Range(rest) THEN m ELSE NoMessage
      BY <1>2, <1>7, <1>9, <3>3, <3>4
    <3>6. CASE Socket(p) = ws
      <4>1. Alive(ws) /\ ws.page = p
        BY <1>4, <2>5, <3>6 DEF Socket, Alive
      <4>2. inbox'[p] = Append(inbox[p], m)
        BY <1>11, <4>1
      <4>3. a[i] = m /\ b[i] = NoMessage
        BY <1>8, <2>3, <3>3, <3>5, <3>6
      <4>4. b = [a EXCEPT ![i] = NoMessage]
        <5> DEFINE r == [a EXCEPT ![i] = NoMessage]
        <5>1. /\ r \in Seq(Message) /\ Len(r) = Len(a)
              /\ \A j \in DOMAIN a : r[j] = IF j = i THEN NoMessage ELSE a[j]
          BY <1>2, <3>3, ExceptIs
        <5> HIDE DEF r
        <5>2. \A j \in DOMAIN broadcasts : b[j] = r[j]
          BY <3>3, <3>5, <4>3, <5>1
        <5>3. b = r
          BY <1>5, <1>9, <3>3, <3>4, <5>1, <5>2, SameSequence
        <5> QED
          BY <5>3 DEF r
      <4>5. ASSUME NEW j \in 1 .. i - 1
            PROVE  a[j] = NoMessage
        <5>1. j \in DOMAIN broadcasts /\ j < i
          BY <1>2, <1>5
        <5> QED
          BY <1>2, <2>3, <3>3, <3>6, <5>1
      <4>6. i \in Nat /\ i \in DOMAIN a
        BY <1>2, <1>5, <3>3
      <4>7. Seen(show, a) = Seen(See(show, a[i]), [a EXCEPT ![i] = NoMessage])
        <5> HIDE DEF show
        <5>1. PICK k \in Nat : k = i
          BY <4>6
        <5>2. k \in DOMAIN a /\ \A j \in 1 .. k - 1 : a[j] = NoMessage
          BY <4>5, <4>6, <5>1
        <5>3. Seen(show, a) = Seen(See(show, a[k]), [a EXCEPT ![k] = NoMessage])
          <6>1. \A q \in Seq(Message), j \in Nat :
                   j \in DOMAIN q /\ (\A l \in 1 .. j - 1 : q[l] = NoMessage) =>
                       Seen(show, q) = Seen(See(show, q[j]), [q EXCEPT ![j] = NoMessage])
            BY SeenFirst
          <6>2. a \in Seq(Message)
            BY <3>3
          <6> QED
            BY <5>2, <6>1, <6>2
        <5> QED
          BY <5>1, <5>3
      <4>8. Seen(shown[p], Append(inbox[p], m)) = See(show, m)
        <5> DEFINE T == Published \cup Snapshot
        <5>1. inbox[p] \in Seq(T) /\ m \in T
          BY <1>1, <1>5
        <5> HIDE DEF T
        <5> QED
          BY <5>1, SeenAppend
      <4> QED
        BY <3>1, <3>2, <4>2, <4>3, <4>4, <4>7, <4>8
    <3>7. CASE Socket(p) # ws
      <4>1. ~(Alive(ws) /\ p = ws.page)
        <5> SUFFICES ASSUME Alive(ws), p = ws.page
                     PROVE  FALSE
          OBVIOUS
        <5>1. ws = [page |-> ws.page, gen |-> ws.gen] /\ gen[p] = ws.gen
          BY <1>3 DEF Connection, Alive
        <5> QED
          BY <3>7, <5>1 DEF Socket
      <4>2. inbox'[p] = inbox[p]
        BY <1>11, <4>1
      <4>3. a[i] = b[i]
        BY <1>8, <3>3, <3>5, <3>7
      <4>4. \A j \in DOMAIN broadcasts : b[j] = a[j]
        BY <3>5, <4>3
      <4>5. b = a
        BY <1>5, <1>9, <3>3, <3>4, <4>4, SameSequence
      <4> QED
        BY <3>1, <3>2, <4>2, <4>5
    <3> QED
      BY <3>6, <3>7
  <2> QED
    BY <1>4, <2>1, <2>4, <2>5 DEF PagesOK
<1> QED
  BY <1>12, <1>13, <1>14, <1>15, <1>16, <1>17 DEF LiveInv

LEMMA GoOnKeepsInv ==
    ASSUME LiveInv, NEW i, NEW todo, NEW dead, Sends(i, todo, dead),
           ~overtaken => SendsInOrder(i, todo), GoOn(i, todo, dead),
           UNCHANGED <<state, events, gen, online, shown>>
    PROVE  LiveInv'
<1>1. CASE todo = << >>
  <2>1. /\ broadcasts' = RemoveAt(broadcasts, i) /\ Forget(dead, DOMAIN broadcasts \ {i})
        /\ UNCHANGED inbox
    BY <1>1 DEF GoOn
  <2> QED
    BY <1>1, <2>1, EndKeepsInv DEF pageVars
<1>2. CASE todo # << >>
  BY <1>2, SendKeepsInv DEF GoOn
<1> QED
  BY <1>1, <1>2

(* Every step keeps the invariant. *)
LEMMA LiveNextInv == LiveInv /\ [LiveNext]_liveVars => LiveInv'
<1> SUFFICES ASSUME LiveInv, [LiveNext]_liveVars
             PROVE  LiveInv'
  OBVIOUS
<1>1. events \in Nat /\ events + 1 \in Nat /\ Absent \in Nat /\ Orders \subseteq Keys
  BY LiveServerAssumption DEF LiveInv, LiveTypeOK, Absent
<1>2. CASE PublishValue
  BY <1>1, <1>2, PublishKeepsInv DEF PublishValue
<1>3. CASE PublishDone
  BY <1>1, <1>3, PublishKeepsInv DEF PublishDone
<1>4. CASE PublishTrade
  BY <1>1, <1>4, PublishKeepsInv DEF PublishTrade
<1>5. ASSUME NEW i \in DOMAIN broadcasts, StartBroadcast(i)
      PROVE  LiveInv'
  <2>1. MayStart(i) /\ GoOn(i, clients, {}) /\ UNCHANGED <<state, events, gen, online, shown>>
    BY <1>5 DEF StartBroadcast
  <2> QED
    BY <2>1, StartSends, GoOnKeepsInv
<1>6. ASSUME NEW i \in DOMAIN broadcasts, ResumeBroadcast(i)
      PROVE  LiveInv'
  <2> DEFINE dead == broadcasts[i].dead \cup (IF Alive(broadcasts[i].at) THEN {} ELSE {broadcasts[i].at})
  <2>1. /\ SendEnds(i) /\ GoOn(i, broadcasts[i].todo, dead)
        /\ UNCHANGED <<state, events, gen, online, shown>>
    BY <1>6 DEF ResumeBroadcast
  <2>2. Sends(i, broadcasts[i].todo, dead) /\ (~overtaken => SendsInOrder(i, broadcasts[i].todo))
    BY <2>1, ResumeSends
  <2> HIDE DEF dead
  <2> QED
    BY <2>1, <2>2, GoOnKeepsInv
<1>7. ASSUME NEW p \in Pages, Connect(p) \/ Receive(p) \/ Drop(p)
      PROVE  LiveInv'
  BY <1>7, ConnectKeepsInv, ReceiveKeepsInv, DropKeepsInv
<1>8. ASSUME NEW ws \in Range(clients), Notice(ws)
      PROVE  LiveInv'
  BY <1>8, NoticeKeepsInv
<1>9. CASE Restart
  BY <1>9, RestartKeepsInv
<1>10. CASE UNCHANGED liveVars
  <2>1. /\ state' = state /\ events' = events /\ clients' = clients /\ broadcasts' = broadcasts
        /\ overtaken' = overtaken /\ gen' = gen /\ online' = online /\ inbox' = inbox /\ shown' = shown
    BY <1>10 DEF liveVars, serverVars, pageVars
  <2>2. /\ LiveTypeOK /\ ClientsOK /\ StartedInOrder /\ SocketsCame
        /\ NewsAre(NotStarted(broadcasts), state) /\ (~overtaken => SentInOrder /\ PagesOK)
    BY InvParts
  <2>3. LiveTypeOK'
    BY <2>1, <2>2 DEF LiveTypeOK
  <2>4. ClientsOK' /\ StartedInOrder' /\ SocketsCame' /\ NewsAre(NotStarted(broadcasts), state)'
    BY <2>1, <2>2 DEF ClientsOK, StartedInOrder, SocketsCame, NewsAre, Came, Socket, Alive
  <2>5. SentInOrder => SentInOrder'
    BY <2>1 DEF SentInOrder
  <2>6. PagesOK => PagesOK'
    <3>1. \A p \in Pages : WillShow(p)' = WillShow(p)
      BY <2>1, <2>2, <2>3, SamePage
    <3> QED
      BY <2>1, <3>1 DEF PagesOK
  <2> QED
    BY <2>1, <2>2, <2>3, <2>4, <2>5, <2>6 DEF LiveInv
<1> QED
  BY <1>2, <1>3, <1>4, <1>5, <1>6, <1>7, <1>8, <1>9, <1>10 DEF LiveNext, Broadcasting

(* The connections of _clients are those that came, the lines of the broadcasts
   follow their order, and a page that has read what it is due is current.    *)
THEOREM LiveInvHolds == LiveSpec => []LiveInv
BY LiveInitInv, LiveNextInv, PTL DEF LiveSpec

(* "Snapshot on connect (no missed events)", for any pages and events: as long as
   no client was removed under a broadcast, a page that reads what is on its way
   to it has the account, positions and orders of the server.                 *)
THEOREM LivePageWillBeCurrent == LiveSpec => []PageWillBeCurrent
<1>1. LiveInv => PageWillBeCurrent
  BY InvParts DEF PageWillBeCurrent, PagesOK, IsCurrent
<1> QED
  BY <1>1, LiveInvHolds, PTL

(* On the same condition it has the server's trades, in order and none missing, but
   for one stretch that may be there twice.                                    *)
THEOREM LiveTradesReachPage == LiveSpec => []TradesReachPage
<1>1. LiveInv => TradesReachPage
  <2> SUFFICES ASSUME LiveInv, ~overtaken, NEW p \in Pages, online[p]
               PROVE  \E i, j \in 0 .. Len(state.trades) :
                         /\ i <= j
                         /\ WillShow(p).trades =
                               Kept(SubSeq(state.trades, 1, j) \o SubSeq(state.trades, i + 1, Len(state.trades)))
    BY DEF TradesReachPage
  <2>1. LiveTypeOK /\ PagesOK /\ state \in ShowType
    BY InvParts
  <2>2. WillShow(p) \in ShowType /\ SomeTwice(WillShow(p).trades, state.trades)
    BY <2>1, WillShowIs DEF PagesOK, IsCurrent
  <2>3. WillShow(p).trades \in Seq(Nat) /\ state.trades \in Seq(Nat)
    BY <2>1, <2>2, ShowIs
  <2> QED
    BY <2>2, <2>3, TwiceIs
<1> QED
  BY <1>1, LiveInvHolds, PTL
=============================================================================
