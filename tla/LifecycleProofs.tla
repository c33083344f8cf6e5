-------------------------- MODULE LifecycleProofs ---------------------------
(***************************************************************************)
(* Proofs of the safety properties of Migrations and Lifecycle, for any    *)
(* number of replicas and migrate commands and any number of faults.       *)
(***************************************************************************)
EXTENDS Lifecycle, TLAPS

-----------------------------------------------------------------------------
\* What the migrations rest on.
\*
\* A process that reads or changes versions holds the migration lock, one that
\* creates the schema the advisory lock, and nobody else does.
LocksInv ==
    /\ \A p \in Migrators : lock = p <=> at[p] \in {"read", "run"}
    /\ \A p \in Migrators : schemaLock = p <=> at[p] = "creating"
    /\ \A p \in Migrators : at[p] = "creating" => found[p] = schema

\* While a file runs, the tables it has changed are in its version and the
\* others in the one before.
FileInv(p) ==
    /\ dirty
    /\ run[p].left # 0
    /\ IF Up(p) THEN version # 0 ELSE version # Last
    /\ altered \subseteq TablesOf(File(p))
    /\ driver = "postgres" => altered \in {{}, TablesOf(File(p))}
    /\ \A t \in Tables :
         shape[t] = IF t \in altered THEN ShapeAt(version) ELSE ShapeAt(Origin(p))

FilesInv == \A p \in Migrators : at[p] = "run" => FileInv(p)

\* A table that requires an application has no row without one.
RowsInv == \A t \in Tables : shape[t] = Last => "unscoped" \notin rows[t]

\* Nobody migrates down beside a replica, which therefore has enough migrations
\* left to reach the last one, and finds it applied when it is done.
ReplicasInv ==
    /\ \A r \in Replicas : run[r].up
    /\ \A p \in Migrators, r \in Replicas :
         ~run[p].up /\ at[p] \notin {"off", "over"} => at[r] = "off"
    /\ \A r \in Replicas :
         /\ at[r] # "off" /\ at[r] # "run" => version + run[r].left >= Last
         /\ at[r] = "run" => version + run[r].left > Last
         /\ at[r] = "done" => version = Last /\ ~dirty
    /\ \A r \in Replicas : at[r] # "over"

MigrationsInv ==
    /\ MigrationsTypeOK
    /\ LocksInv
    /\ FilesInv
    /\ VersionTellsSchema
    /\ RowsInv
    /\ ReplicasInv

\* The hooks run in a process whose migration is done.
HooksAfterRun == phase # "down" => at[App] = "done"

-----------------------------------------------------------------------------
\* The hook that closes a resource, and the hook that starts and stops a kind
\* of work, as positions in Hooks.
Resources == Constructed \cup {"bus"}

Level(r) ==
    CASE r = "logger" -> 1 [] r = "database" -> 2 [] r = "tracing" -> 3
      [] r = "redis" -> 4 [] r = "bus" -> 5 [] r = "outbound" -> 6
      [] OTHER -> 8

Position(k) == CASE k = "loop" -> 5 [] k = "cron" -> 7 [] k = "grpc" -> 9 [] OTHER -> 10

\* Work of kind k goes on, or may begin.
Active(k) == work[k] # "idle" \/ k \in accepting

\* The process runs the hooks.
Alive == phase \in {"start", "serving", "stop", "rollback"}

\* Work is served with the resources it needs and, until the deadline, only by
\* hooks that are started; an orderly stop closes exactly what belongs to the
\* hooks it has stopped; and a stopping server has closed its door.
HooksInv ==
    /\ LifecycleTypeOK
    /\ phase = "down" =>
         started = 0 /\ ~waiting /\ ~expired /\ \A k \in Kinds : ~Active(k)
    /\ phase \in {"start", "serving"} =>
         /\ Constructed \subseteq open /\ ~waiting
         /\ started >= Level("bus") <=> "bus" \in open
    /\ phase = "serving" => started = Len(Hooks) /\ ~expired
    /\ Alive => \A k \in Kinds : Active(k) => Needs(k) \subseteq open
    /\ Alive /\ ~expired => \A k \in Kinds : Active(k) => Position(k) <= started
    /\ Stopping /\ waiting =>
         /\ started > 0 /\ Serves(Hook) # {}
         /\ Serves(Hook) \cap accepting = {}
    /\ phase = "stop" /\ ~expired =>
         \A r \in Resources : r \in open <=> Level(r) <= started
    /\ phase # "ended" => exit = "none"
    /\ CleanExitFinishedAll

-----------------------------------------------------------------------------
LEMMA HookCount == Len(Hooks) = 10
BY DEF Hooks

\* The positions are those of the hooks that close and serve.
LEMMA HookPositions ==
    \A n \in 1..10 :
         /\ Closes(Hooks[n]) \subseteq Resources /\ Serves(Hooks[n]) \subseteq Kinds
         /\ \A r \in Resources : r \in Closes(Hooks[n]) <=> Level(r) = n
         /\ \A k \in Kinds : k \in Serves(Hooks[n]) <=> Position(k) = n
         /\ Hooks[n] = "eventbus" <=> n = 5
         /\ Hooks[n] = "grpc" <=> n = 9
<1>2. /\ Hooks[1] = "logger" /\ Hooks[2] = "database" /\ Hooks[3] = "tracing"
      /\ Hooks[4] = "redis" /\ Hooks[5] = "eventbus" /\ Hooks[6] = "outbound"
      /\ Hooks[7] = "scheduler" /\ Hooks[8] = "verifier" /\ Hooks[9] = "grpc"
      /\ Hooks[10] = "http"
  BY DEF Hooks
<1>3. ASSUME NEW n \in 1..10
      PROVE  /\ Closes(Hooks[n]) \subseteq Resources /\ Serves(Hooks[n]) \subseteq Kinds
             /\ \A r \in Resources : r \in Closes(Hooks[n]) <=> Level(r) = n
             /\ \A k \in Kinds : k \in Serves(Hooks[n]) <=> Position(k) = n
             /\ Hooks[n] = "eventbus" <=> n = 5
             /\ Hooks[n] = "grpc" <=> n = 9
  <2>1. n = 1 \/ n = 2 \/ n = 3 \/ n = 4 \/ n = 5 \/ n = 6 \/ n = 7 \/ n = 8 \/ n = 9
        \/ n = 10
    OBVIOUS
  <2>2. Closes(Hooks[n]) \subseteq Resources /\ Serves(Hooks[n]) \subseteq Kinds
    BY <1>2, <2>1 DEF Closes, Serves, Resources, Constructed, Kinds
  <2>3. \A r \in Resources : r \in Closes(Hooks[n]) <=> Level(r) = n
    BY <1>2, <2>1 DEF Closes, Resources, Constructed, Level
  <2>4. \A k \in Kinds : k \in Serves(Hooks[n]) <=> Position(k) = n
    BY <1>2, <2>1 DEF Serves, Kinds, Position
  <2> QED
    BY <1>2, <2>1, <2>2, <2>3, <2>4
<1> QED
  BY <1>3

\* Work needs only what belongs to earlier hooks, but for the event loops and
\* their bus, which are one hook.
LEMMA NeedsPositions ==
    /\ \A k \in Kinds : /\ Position(k) \in 1..10 /\ Needs(k) \subseteq Resources
                        /\ k = "loop" <=> Position(k) = 5
    /\ \A k \in Kinds, r \in Resources :
         /\ r \in Needs(k) => IF r = "bus" THEN k = "loop" ELSE Level(r) < Position(k)
         /\ Level(r) = Position(k) => r = "bus"
    /\ \A r \in Resources : Level(r) \in 1..10 /\ (Level(r) = 5 <=> r = "bus")
BY DEF Kinds, Needs, Resources, Constructed, Level, Position

-----------------------------------------------------------------------------
\* A process that is not there yet, or not any more, satisfies the invariant.
LEMMA HooksAtRest ==
    ASSUME /\ phase = "down" /\ started = 0 /\ waiting = FALSE /\ expired = FALSE
           /\ open = {} /\ accepting = {} /\ exit = "none"
           /\ work = [k \in Kinds |-> "idle"]
    PROVE  HooksInv
<1>1. LifecycleTypeOK
  <2>1. work \in [Kinds -> {"idle", "running", "cut"}]
    OBVIOUS
  <2>2. waiting \in BOOLEAN /\ expired \in BOOLEAN
    BY Zenon
  <2> QED
    BY <2>1, <2>2, HookCount DEF LifecycleTypeOK
<1>2. \A k \in Kinds : ~Active(k) /\ work[k] # "cut"
  BY DEF Active
<1> QED
  BY <1>1, <1>2 DEF HooksInv, Alive, Stopping, CleanExitFinishedAll

LEMMA HooksInitially == Init => HooksInv
BY HooksAtRest DEF Init

LEMMA HooksGone == Gone => HooksInv'
<1> SUFFICES ASSUME Gone PROVE HooksInv'
  OBVIOUS
<1>2. LifecycleTypeOK'
  <2>1. work' \in [Kinds -> {"idle", "running", "cut"}]
    BY DEF Gone
  <2>2. waiting' \in BOOLEAN /\ expired' \in BOOLEAN
    BY Zenon DEF Gone
  <2> QED
    BY <2>1, <2>2, HookCount DEF LifecycleTypeOK, Gone
<1>3. \A k \in Kinds : ~Active(k)' /\ work'[k] # "cut"
  BY DEF Active, Gone
<1> QED
  BY <1>2, <1>3 DEF Gone, HooksInv, Alive, Stopping, CleanExitFinishedAll

\* A constructor, and fx.New as a whole.
LEMMA ConstructorSteps ==
    ASSUME HooksInv, New \/ Run
    PROVE  HooksInv'
<1> USE DEF Active, Alive, Stopping, CleanExitFinishedAll
<1>1. ASSUME NEW r \in Constructed, NEW before \in SUBSET Constructed, Opens(r, before)
      PROVE  HooksInv'
  BY <1>1, HookCount DEF Opens, HooksInv, LifecycleTypeOK
<1>2. CASE New
  BY <1>1, <1>2 DEF New, newLogger, newDatabase, NewTracing, newRedis, NewRegistry,
     NewRuntime, Constructed
<1>3. CASE Run
  BY <1>3, HookCount DEF Run, HooksInv, LifecycleTypeOK,
     Constructed, Level
<1> QED
  BY <1>2, <1>3

\* The next OnStart opens and serves what belongs to its position.
LEMMA StartHookStep == ASSUME HooksInv, StartHook PROVE HooksInv'
<1> DEFINE n == started + 1
<1>1. n \in 1..10 /\ started' = n /\ phase = "start" /\ ~expired
  BY HookCount DEF StartHook, HooksInv, LifecycleTypeOK
<1>2. /\ open' = open \cup Closes(Hooks[n]) /\ accepting' = accepting \cup Serves(Hooks[n])
      /\ UNCHANGED <<phase, waiting, expired, work, exit>>
  BY DEF StartHook
<1>3. LifecycleTypeOK'
  BY <1>1, <1>2, HookCount, HookPositions DEF HooksInv, LifecycleTypeOK, Resources
<1>4. Constructed \subseteq open' /\ (n >= Level("bus") <=> "bus" \in open')
  BY <1>1, <1>2, HookPositions, NeedsPositions DEF HooksInv, LifecycleTypeOK, Resources
<1>5. ASSUME NEW k \in Kinds, Active(k)'
      PROVE  Needs(k) \subseteq open' /\ Position(k) <= n
  <2>1. CASE Active(k)
    BY <2>1, <1>1, <1>2, NeedsPositions DEF HooksInv, Alive, LifecycleTypeOK
  <2>2. CASE ~Active(k)
    <3>1. Position(k) = n
      BY <1>1, <1>2, <1>5, <2>2, HookPositions DEF Active
    <3>2. \A r \in Resources : r \in Needs(k) => r \in Constructed \/ (r = "bus" /\ n = 5)
      BY <3>1, NeedsPositions DEF Resources
    <3> QED
      BY <1>1, <1>4, <3>1, <3>2, NeedsPositions DEF Resources
  <2> QED
    BY <2>1, <2>2
<1> QED
  BY <1>1, <1>2, <1>3, <1>4, <1>5 DEF HooksInv, Alive, Stopping, CleanExitFinishedAll

\* What changes the phase or the deadline and closes nothing.
LEMMA PhaseSteps ==
    ASSUME HooksInv, StartFails \/ Started \/ Signal \/ Expire \/ Abandon \/ Stopped
    PROVE  HooksInv'
<1> USE DEF HooksInv, LifecycleTypeOK, Active, Alive, Stopping, CleanExitFinishedAll
<1>1. CASE StartFails
  BY <1>1 DEF StartFails
<1>2. CASE Started
  BY <1>2 DEF Started
<1>3. CASE Signal
  <2>1. \A r \in Resources : r \in open /\ Level(r) <= started
    BY <1>3, HookCount, NeedsPositions DEF Signal, Resources
  <2> QED
    BY <1>3, <2>1 DEF Signal
<1>4. CASE Expire
  <2>1. /\ ~expired /\ expired' /\ phase \in {"start", "stop", "rollback"}
        /\ UNCHANGED <<phase, started, waiting, open, accepting, work, exit>>
    BY <1>4 DEF Expire
  <2> QED
    BY <2>1 DEF Hook
<1>5. CASE Abandon
  BY <1>5 DEF Abandon
<1>6. CASE Stopped
  <2>1. ASSUME ~expired PROVE accepting = {} /\ \A k \in Kinds : work[k] = "idle"
    BY <1>6, <2>1, NeedsPositions DEF Stopped
  <2>2. ASSUME phase = "stop", ~expired PROVE open = {}
    BY <1>6, <2>2, NeedsPositions DEF Stopped, Resources
  <2> QED
    BY <1>6, <2>1, <2>2 DEF Stopped
<1> QED
  BY <1>1, <1>2, <1>3, <1>4, <1>5, <1>6

\* Work begins where it is accepted, and a failed server accepts no more.
LEMMA WorkSteps ==
    ASSUME HooksInv, NEW k \in Kinds, ServeFails(k) \/ Begin(k) \/ End(k)
    PROVE  HooksInv'
<1>1. CASE ServeFails(k)
  BY <1>1 DEF ServeFails, HooksInv, LifecycleTypeOK, Active, Alive, Stopping,
     CleanExitFinishedAll
<1>2. CASE Begin(k) \/ End(k)
  <2>1. /\ UNCHANGED <<phase, started, waiting, expired, open, accepting, exit>>
        /\ phase # "ended" /\ exit = "none" /\ Active(k)
    BY <1>2 DEF Begin, End, HooksInv, Active
  <2>2. /\ work' \in [Kinds -> {"idle", "running", "cut"}]
        /\ \A j \in Kinds : Active(j)' => Active(j)
        /\ \A j \in Kinds : work'[j] = "cut" => work[j] = "cut"
    BY <1>2, <2>1 DEF Begin, End, Active, HooksInv, LifecycleTypeOK
  <2> QED
    BY <2>1, <2>2 DEF HooksInv, LifecycleTypeOK, Alive, Stopping, Hook,
       CleanExitFinishedAll
<1> QED
  BY <1>1, <1>2

\* A hook begins to stop: a server closes its door, and anything else is closed,
\* which nobody uses that belongs to an earlier hook.
LEMMA StopHookStep == ASSUME HooksInv, StopHook PROVE HooksInv'
<1>1. started \in 1..10 /\ Stopping /\ ~waiting /\ ~expired
  BY HookCount DEF StopHook, HooksInv, LifecycleTypeOK
<1>2. CASE Serves(Hook) # {}
  BY <1>1, <1>2 DEF StopHook, HooksInv, LifecycleTypeOK, Active, Alive, Stopping, Hook,
     CleanExitFinishedAll
<1>3. CASE Serves(Hook) = {}
  <2>1. /\ open' = open \ Closes(Hook) /\ started' = started - 1
        /\ UNCHANGED <<accepting, waiting, phase, expired, work, exit>>
    BY <1>3 DEF StopHook
  <2>2. ASSUME NEW k \in Kinds, Active(k)
        PROVE  Position(k) < started /\ Needs(k) \subseteq open'
    <3>1. Position(k) < started
      BY <1>1, <1>3, <2>2, HookPositions, NeedsPositions
         DEF HooksInv, Alive, Stopping, Hook
    <3>2. \A r \in Resources : r \in Needs(k) => Level(r) # started
      BY <3>1, <1>1, NeedsPositions
    <3> QED
      BY <1>1, <2>1, <2>2, <3>1, <3>2, HookPositions, NeedsPositions
         DEF HooksInv, Alive, Stopping, Hook
  <2>3. ASSUME phase = "stop", NEW r \in Resources
        PROVE  r \in open' <=> Level(r) <= started'
    BY <1>1, <2>1, <2>3, HookPositions, NeedsPositions DEF HooksInv, Hook
  <2> QED
    BY <1>1, <2>1, <2>2, <2>3, HookCount, NeedsPositions
       DEF HooksInv, LifecycleTypeOK, Active, Alive, Stopping, CleanExitFinishedAll
<1> QED
  BY <1>2, <1>3

\* A server has stopped.  Only the event runtime closes something then, its bus,
\* and it does so when its loops have ended.
LEMMA HookStoppedStep == ASSUME HooksInv, HookStopped PROVE HooksInv'
<1>1. /\ started \in 1..10 /\ Stopping /\ waiting
      /\ Serves(Hook) \cap accepting = {} /\ Serves(Hook) # {}
      /\ Idle(Hook) \/ (expired /\ Hook # "eventbus")
  BY HookCount DEF HookStopped, HooksInv, LifecycleTypeOK
<1>2. /\ open' = open \ Closes(Hook) /\ started' = started - 1 /\ waiting' = FALSE
      /\ UNCHANGED <<accepting, phase, expired, exit>>
      /\ \A k \in Kinds : /\ work'[k] = "idle" <=> work[k] = "idle"
                          /\ work'[k] \in {work[k], "cut"}
                          /\ work'[k] = "cut" => work[k] = "cut" \/ expired
  BY <1>1, HookPositions, NeedsPositions
     DEF HookStopped, HooksInv, LifecycleTypeOK, Idle, Hook, CleanExitFinishedAll, Serves
<1>3. LifecycleTypeOK'
  <2>1. work' \in [Kinds -> {"idle", "running", "cut"}]
    BY DEF HookStopped, HooksInv, LifecycleTypeOK
  <2>2. waiting' \in BOOLEAN
    BY <1>2, Zenon
  <2> QED
    BY <1>1, <1>2, <2>1, <2>2, HookCount DEF HooksInv, LifecycleTypeOK
<1>4. Closes(Hook) \subseteq {"bus"} /\ ("bus" \in Closes(Hook) => Idle(Hook))
  BY <1>1, HookPositions, NeedsPositions DEF Hook
<1>5. ASSUME NEW k \in Kinds, Active(k)
      PROVE  Needs(k) \subseteq open'
  <2>1. CASE "bus" \in Closes(Hook)
    <3>1. k \notin Serves(Hook)
      BY <1>1, <1>4, <1>5, <2>1 DEF Idle, Active
    <3>2. "bus" \notin Needs(k)
      BY <1>1, <2>1, <3>1, HookPositions, NeedsPositions DEF Hook, Resources
    <3> QED
      BY <1>1, <1>2, <1>4, <1>5, <3>2 DEF HooksInv, Alive, Stopping
  <2>2. CASE "bus" \notin Closes(Hook)
    BY <1>1, <1>2, <1>4, <1>5, <2>2 DEF HooksInv, Alive, Stopping
  <2> QED
    BY <2>1, <2>2
<1>6. ASSUME ~expired, NEW k \in Kinds, Active(k)
      PROVE  Position(k) <= started'
  <2>1. k \notin Serves(Hook)
    BY <1>1, <1>6 DEF Idle, Active
  <2> QED
    BY <1>1, <1>2, <1>6, <2>1, HookPositions, NeedsPositions
       DEF HooksInv, Alive, Stopping, Hook
<1>7. ASSUME phase = "stop", ~expired, NEW r \in Resources
      PROVE  r \in open' <=> Level(r) <= started'
  BY <1>1, <1>2, <1>7, HookPositions, NeedsPositions DEF HooksInv, Hook
<1>8. \A k \in Kinds : Active(k)' <=> Active(k)
  BY <1>2 DEF Active
<1> QED
  BY <1>1, <1>2, <1>3, <1>5, <1>6, <1>7, <1>8 DEF HooksInv, Alive, Stopping,
     CleanExitFinishedAll

\* HooksInv is inductive.
LEMMA HooksStep == HooksInv /\ [Next]_vars => HooksInv'
<1> SUFFICES ASSUME HooksInv, [Next]_vars PROVE HooksInv'
  OBVIOUS
<1>1. CASE HookStep
  BY <1>1, ConstructorSteps, StartHookStep, PhaseSteps, WorkSteps, StopHookStep,
     HookStoppedStep DEF HookStep
<1>2. CASE Gone
  BY <1>2, HooksGone
<1>3. CASE UNCHANGED hookVars
  BY <1>3 DEF hookVars, HooksInv, LifecycleTypeOK, Active, Alive, Stopping, Hook,
     CleanExitFinishedAll
<1> QED
  BY <1>1, <1>2, <1>3 DEF Next, OfHooks, OfOthers, Restart, vars, hookVars

\* The hook state is well typed.
THEOREM LifecycleTyped == Spec => []LifecycleTypeOK
<1>1. HooksInv => LifecycleTypeOK
  BY DEF HooksInv
<1> QED
  BY <1>1, HooksInitially, HooksStep, PTL DEF Spec

\* No work of a running process meets a closed resource, whenever a start fails,
\* a stop begins or a deadline passes.
THEOREM ResourcesOutliveUsers == Spec => []UsersHaveResources
<1>1. HooksInv => UsersHaveResources
  BY DEF HooksInv, UsersHaveResources, Alive, Active, LifecycleTypeOK
<1> QED
  BY <1>1, HooksInitially, HooksStep, PTL DEF Spec

\* Exit code 0 tells the truth.
THEOREM CleanExitTrue == Spec => []CleanExitFinishedAll
<1>1. HooksInv => CleanExitFinishedAll
  BY DEF HooksInv
<1> QED
  BY <1>1, HooksInitially, HooksStep, PTL DEF Spec

-----------------------------------------------------------------------------
\* The shapes along the migrations: one that changes no table keeps the shape.
LEMMA Shapes ==
    /\ \A v \in 0..Last : /\ TablesOf(v) \in {{}, Tables}
                          /\ ShapeAt(v) \in {0, 2, 4, 5}
                          /\ ShapeAt(v) = Last <=> v = Last
    /\ \A v \in 1..Last : TablesOf(v) = {} => ShapeAt(v) = ShapeAt(v - 1)
    /\ Tables # {}
BY DEF TablesOf, Tables, ShapeAt, Last

\* Whoever runs a file is the only one.
LEMMA OneRuns ==
    ASSUME MigrationsInv, NEW p \in Migrators, at[p] \in {"read", "run"},
           NEW q \in Migrators, at[q] \in {"read", "run"}
    PROVE  p = q
BY DEF MigrationsInv, LocksInv

\* While a file runs the tables it does not change have its shape already.
LEMMA FileTyped ==
    ASSUME MigrationsInv, NEW p \in Migrators, at[p] = "run"
    PROVE  /\ FileInv(p) /\ File(p) \in 1..Last /\ Origin(p) \in 0..Last
           /\ TablesOf(File(p)) \in {{}, Tables}
           /\ TablesOf(File(p)) = {} => ShapeAt(version) = ShapeAt(Origin(p))
           /\ ShapeAt(version) \in {0, 2, 4, 5}
           /\ ShapeAt(version) = Last => Up(p) /\ File(p) = Last
<1>1. FileInv(p) /\ version \in 0..Last
  BY DEF MigrationsInv, FilesInv, MigrationsTypeOK
<1>2. File(p) \in 1..Last /\ Origin(p) \in 0..Last
  BY <1>1 DEF FileInv, File, Origin, Last
<1>3. TablesOf(File(p)) = {} => ShapeAt(version) = ShapeAt(Origin(p))
  BY <1>1, <1>2, Shapes DEF File, Origin, FileInv, Last
<1>4. ShapeAt(version) = Last => Up(p) /\ File(p) = Last
  BY <1>1, Shapes DEF FileInv, File
<1> QED
  BY <1>1, <1>2, <1>3, <1>4, Shapes DEF Last

\* A step that changes only where p is, and does not take it into a file,
\* leaves files, shapes and rows as they are.
LEMMA Elsewhere ==
    ASSUME MigrationsInv, NEW p \in Migrators,
           UNCHANGED <<driver, progress, usage>>,
           at'[p] # "run",
           \A q \in Migrators \ {p} : at'[q] = at[q] /\ run'[q] = run[q]
    PROVE  FilesInv' /\ VersionTellsSchema' /\ RowsInv'
<1>1. VersionTellsSchema' /\ RowsInv'
  BY DEF MigrationsInv, VersionTellsSchema, RowsInv, progress, usage
<1>2. ASSUME NEW q \in Migrators, at'[q] = "run" PROVE FileInv(q)'
  <2>1. q # p /\ at[q] = "run" /\ run'[q] = run[q]
    BY <1>2
  <2> QED
    BY <2>1 DEF MigrationsInv, FilesInv, FileInv, Up, File, Origin, progress, usage
<1> QED
  BY <1>1, <1>2 DEF FilesInv

\* The first place of Run is where nobody holds a lock yet.
LEMMA Launches ==
    ASSUME MigrationsInv, NEW p \in Migrators, LaunchReplica(p) \/ LaunchJob(p)
    PROVE  MigrationsInv'
<1>0. \E up \in BOOLEAN, left \in 1..Last : run' = [run EXCEPT ![p] = [up |-> up, left |-> left]]
  <2>1. TRUE \in BOOLEAN /\ Last \in 1..Last
    BY DEF Last
  <2>2. CASE LaunchReplica(p)
    BY <2>1, <2>2 DEF LaunchReplica
  <2>3. CASE LaunchJob(p)
    BY <2>3 DEF LaunchJob
  <2> QED
    BY <2>2, <2>3
<1>1. /\ at[p] = "off" /\ at' = [at EXCEPT ![p] = FirstPlace]
      /\ FirstPlace \in {"schema", "lock"}
      /\ \E up \in BOOLEAN, left \in 1..Last :
           run' = [run EXCEPT ![p] = [up |-> up, left |-> left]]
      /\ UNCHANGED <<world, schema, locks, progress, usage, found, faults>>
  BY <1>0 DEF LaunchReplica, LaunchJob, Goto, FirstPlace
<1>2. MigrationsTypeOK'
  BY <1>1 DEF MigrationsInv, MigrationsTypeOK, world, locks, progress, usage, Places, Last
<1>3. LocksInv'
  BY <1>1 DEF MigrationsInv, MigrationsTypeOK, LocksInv, locks
<1>4. FilesInv' /\ VersionTellsSchema' /\ RowsInv'
  BY <1>1, Elsewhere DEF MigrationsInv, MigrationsTypeOK, world
<1>5. CASE LaunchReplica(p)
  <2>1. /\ p \in Replicas /\ run' = [run EXCEPT ![p] = [up |-> TRUE, left |-> Last]]
        /\ \A q \in Migrators \ Replicas : run[q].up \/ at[q] \in {"off", "over"}
    BY <1>5 DEF LaunchReplica
  <2>2. ReplicasInv'
    BY <1>1, <2>1, MigrationsAssumption
       DEF MigrationsInv, MigrationsTypeOK, ReplicasInv, progress, Last
  <2> QED
    BY <1>2, <1>3, <1>4, <2>2 DEF MigrationsInv
<1>6. CASE LaunchJob(p)
  <2>1. PICK up \in BOOLEAN, left \in 1..Last :
          /\ ~up => \A r \in Replicas : at[r] = "off"
          /\ run' = [run EXCEPT ![p] = [up |-> up, left |-> left]]
    BY <1>6 DEF LaunchJob
  <2>2. p \notin Replicas
    BY <1>6 DEF LaunchJob
  <2>3. \A q \in Migrators : q # p => run'[q] = run[q] /\ at'[q] = at[q]
    BY <1>1, <2>1 DEF MigrationsInv, MigrationsTypeOK
  <2>4. run'[p].up = up
    BY <2>1 DEF MigrationsInv, MigrationsTypeOK
  <2>5. ReplicasInv'
    BY <1>1, <2>1, <2>2, <2>3, <2>4, MigrationsAssumption
       DEF MigrationsInv, ReplicasInv, progress
  <2> QED
    BY <1>2, <1>3, <1>4, <2>5 DEF MigrationsInv
<1> QED
  BY <1>5, <1>6

\* Run ends, with an error or by the death of the process: the locks go.
LEMMA Exits ==
    ASSUME MigrationsInv, NEW p \in Migrators, at[p] \notin {"off", "over"}, Exit(p),
           schema' = schema \/ (schema' /\ at[p] = "creating"), schema' \in BOOLEAN,
           found' = found \/ found' = [found EXCEPT ![p] = FALSE],
           faults' \in 0..MaxFaults,
           UNCHANGED <<world, progress, usage, run>>
    PROVE  MigrationsInv'
<1>1. /\ at' = [at EXCEPT ![p] = IF p \in Replicas THEN "off" ELSE "over"]
      /\ lock' = IF lock = p THEN Nobody ELSE lock
      /\ schemaLock' = IF schemaLock = p THEN Nobody ELSE schemaLock
  BY DEF Exit, Goto, Release
<1>2. MigrationsTypeOK'
  BY <1>1 DEF MigrationsInv, MigrationsTypeOK, world, progress, usage, Places
<1>3. LocksInv'
  BY <1>1, MigrationsAssumption DEF MigrationsInv, MigrationsTypeOK, LocksInv
<1>4. FilesInv' /\ VersionTellsSchema' /\ RowsInv'
  BY <1>1, Elsewhere DEF MigrationsInv, MigrationsTypeOK, world
<1>5. ReplicasInv'
  BY <1>1, MigrationsAssumption
     DEF MigrationsInv, MigrationsTypeOK, ReplicasInv, progress
<1> QED
  BY <1>2, <1>3, <1>4, <1>5 DEF MigrationsInv

\* Steps before the migration itself, and those that end it early.
LEMMA EarlySteps ==
    ASSUME MigrationsInv, NEW p \in Migrators,
           LockAndCreate(p) \/ CommitSchema(p) \/ TakeLock(p)
    PROVE  MigrationsInv'
<1>1. CASE CommitSchema(p) /\ schema /\ ~found[p]
  BY <1>1 DEF CommitSchema, MigrationsInv, LocksInv
<1>2. CASE LockAndCreate(p) \/ TakeLock(p) \/ (CommitSchema(p) /\ ~(schema /\ ~found[p]))
  <2>1. /\ at[p] \in {"schema", "creating", "lock"}
        /\ \E l \in {"creating", "lock", "read"} : at' = [at EXCEPT ![p] = l]
        /\ UNCHANGED <<world, progress, usage, run, faults>>
    BY <1>2 DEF LockAndCreate, TakeLock, CommitSchema, Goto
  <2>2. MigrationsTypeOK' /\ LocksInv'
    <3>1. CASE LockAndCreate(p)
      BY <3>1, <2>1, MigrationsAssumption DEF LockAndCreate, Goto, MigrationsInv,
         MigrationsTypeOK, LocksInv, world, progress, usage, Places
    <3>2. CASE TakeLock(p)
      BY <3>2, <2>1, MigrationsAssumption DEF TakeLock, Goto, MigrationsInv,
         MigrationsTypeOK, LocksInv, world, progress, usage, Places
    <3>3. CASE CommitSchema(p) /\ ~(schema /\ ~found[p])
      <4>1. /\ at[p] = "creating" /\ at' = [at EXCEPT ![p] = "lock"]
            /\ lock' = IF lock = p THEN Nobody ELSE lock
            /\ schemaLock' = IF schemaLock = p THEN Nobody ELSE schemaLock
            /\ schema' = TRUE /\ found' = [found EXCEPT ![p] = FALSE]
        BY <3>3 DEF CommitSchema, Goto, Release
      <4>2. MigrationsTypeOK'
        BY <2>1, <4>1 DEF MigrationsInv, MigrationsTypeOK, world, progress, usage, Places
      <4>3. LocksInv'
        BY <4>1, MigrationsAssumption DEF MigrationsInv, MigrationsTypeOK, LocksInv
      <4> QED
        BY <4>2, <4>3
    <3> QED
      BY <1>2, <3>1, <3>2, <3>3
  <2>3. FilesInv' /\ VersionTellsSchema' /\ RowsInv'
    BY <2>1, Elsewhere DEF MigrationsInv, MigrationsTypeOK, world
  <2>4. ReplicasInv'
    BY <2>1, MigrationsAssumption
       DEF MigrationsInv, MigrationsTypeOK, ReplicasInv, progress
  <2> QED
    BY <2>2, <2>3, <2>4 DEF MigrationsInv
<1> QED
  BY <1>1, <1>2

LEMMA EndingSteps ==
    ASSUME MigrationsInv, NEW p \in Migrators, Refuse(p) \/ AlterFails(p) \/ Crash(p)
    PROVE  MigrationsInv'
<1>1. /\ at[p] \notin {"off", "over"} /\ Exit(p)
      /\ UNCHANGED <<world, schema, progress, usage, run, found>>
  BY DEF Refuse, AlterFails, Crash
<1>2. faults' \in 0..MaxFaults /\ schema' \in BOOLEAN
  BY <1>1, MigrationsAssumption
     DEF Refuse, AlterFails, Crash, Fault, MigrationsInv, MigrationsTypeOK
<1> QED
  BY <1>1, <1>2, Exits

\* A replica that is done has reached the last version: enough was left to apply.
LEMMA FinishStep ==
    ASSUME MigrationsInv, NEW p \in Migrators, Finish(p)
    PROVE  MigrationsInv'
<1>1. /\ at[p] = "read" /\ ~dirty /\ Complete(p)
      /\ at' = [at EXCEPT ![p] = IF p \in Replicas THEN "done" ELSE "over"]
      /\ lock' = IF lock = p THEN Nobody ELSE lock
      /\ schemaLock' = IF schemaLock = p THEN Nobody ELSE schemaLock
      /\ run' = [run EXCEPT ![p].left = 0]
      /\ UNCHANGED <<world, schema, progress, usage, found, faults>>
  BY DEF Finish, Goto, Release
<1>2. MigrationsTypeOK'
  BY <1>1 DEF MigrationsInv, MigrationsTypeOK, world, progress, usage, Places
<1>3. LocksInv'
  BY <1>1, MigrationsAssumption DEF MigrationsInv, MigrationsTypeOK, LocksInv
<1>4. FilesInv' /\ VersionTellsSchema' /\ RowsInv'
  BY <1>1, Elsewhere DEF MigrationsInv, MigrationsTypeOK, world
<1>5. p \in Replicas => version = Last
  BY <1>1 DEF Complete, Up, MigrationsInv, MigrationsTypeOK, ReplicasInv, Last
<1>6. ReplicasInv'
  BY <1>1, <1>5, MigrationsAssumption
     DEF MigrationsInv, MigrationsTypeOK, ReplicasInv, progress, Last
<1> QED
  BY <1>2, <1>3, <1>4, <1>6 DEF MigrationsInv

\* The version moves to that of the next file, which nobody applies under a
\* replica that is done.
LEMMA MarkDirtyStep ==
    ASSUME MigrationsInv, NEW p \in Migrators, MarkDirty(p)
    PROVE  MigrationsInv'
<1>1. /\ at[p] = "read" /\ ~dirty /\ ~Complete(p)
      /\ version' = IF Up(p) THEN version + 1 ELSE version - 1
      /\ dirty' = TRUE /\ altered' = {} /\ at' = [at EXCEPT ![p] = "run"]
      /\ UNCHANGED <<world, schema, locks, usage, run, found, faults>>
  BY DEF MarkDirty, Goto
<1>2. /\ version \in 0..Last /\ run[p].left # 0
      /\ IF Up(p) THEN version # Last ELSE version # 0
  BY <1>1 DEF Complete, MigrationsInv, MigrationsTypeOK
<1>3. MigrationsTypeOK'
  <2>1. version' \in 0..Last
    BY <1>1, <1>2 DEF Last
  <2> QED
    BY <1>1, <2>1 DEF MigrationsInv, MigrationsTypeOK, world, locks, usage, Places
<1>4. LocksInv'
  BY <1>1 DEF MigrationsInv, MigrationsTypeOK, LocksInv, locks
<1>5. FileInv(p)'
  <2>1. Origin(p)' = version /\ version' # IF Up(p) THEN 0 ELSE Last
    BY <1>1, <1>2 DEF Origin, Up, Last
  <2>2. \A t \in Tables : shape'[t] = ShapeAt(version)
    BY <1>1 DEF MigrationsInv, VersionTellsSchema, usage
  <2> QED
    BY <1>1, <1>2, <2>1, <2>2 DEF FileInv, Up
<1>6. FilesInv'
  BY <1>1, <1>5, OneRuns DEF MigrationsInv, MigrationsTypeOK, FilesInv
<1>7. VersionTellsSchema' /\ RowsInv'
  BY <1>1 DEF MigrationsInv, VersionTellsSchema, RowsInv, world, usage
<1>8. ReplicasInv'
  <2>1. \A r \in Replicas : at[r] # "off" => Up(p) /\ at[r] # "done"
    BY <1>1, <1>2 DEF MigrationsInv, ReplicasInv, Up
  <2>2. \A r \in Replicas : r # p => at'[r] = at[r]
    BY <1>1, MigrationsAssumption DEF MigrationsInv, MigrationsTypeOK
  <2>3. \A r \in Replicas : run[r].left \in Nat
    BY MigrationsAssumption DEF MigrationsInv, MigrationsTypeOK
  <2> QED
    BY <1>1, <1>2, <2>1, <2>2, <2>3, MigrationsAssumption
       DEF MigrationsInv, MigrationsTypeOK, ReplicasInv, Last, Up
<1> QED
  BY <1>3, <1>4, <1>6, <1>7, <1>8 DEF MigrationsInv

\* A statement changes one table or both, and 000005 only what has no row
\* without an application.
LEMMA AlterStep ==
    ASSUME MigrationsInv, NEW p \in Migrators, Alter(p)
    PROVE  MigrationsInv'
<1> DEFINE batch == Batch(p)
<1>1. /\ at[p] = "run" /\ batch # {}
      /\ \A t \in batch : Acceptable(p, t)
      /\ altered' = altered \cup batch
      /\ shape' = [t \in Tables |-> IF t \in batch THEN ShapeAt(version) ELSE shape[t]]
      /\ rows' = [t \in Tables |-> IF t \in batch THEN RowsAfter(p, t) ELSE rows[t]]
      /\ UNCHANGED <<world, schema, locks, version, dirty, at, run, found, faults>>
  BY DEF Alter
<1>2. /\ FileInv(p) /\ TablesOf(File(p)) \in {{}, Tables}
      /\ ShapeAt(version) \in {0, 2, 4, 5}
      /\ ShapeAt(version) = Last => Up(p) /\ File(p) = Last
  BY <1>1, FileTyped
<1>3. /\ batch \subseteq TablesOf(File(p)) \ altered /\ batch \subseteq Tables
      /\ driver = "postgres" => altered = {} /\ batch = Tables
  BY <1>1, <1>2 DEF Batch, FileInv
<1>4. \A t \in Tables : RowsAfter(p, t) \in SUBSET {"scoped", "unscoped"}
  BY DEF RowsAfter, MigrationsInv, MigrationsTypeOK
<1>5. MigrationsTypeOK'
  BY <1>1, <1>2, <1>3, <1>4 DEF MigrationsInv, MigrationsTypeOK, world, locks
<1>6. LocksInv' /\ ReplicasInv'
  BY <1>1 DEF MigrationsInv, LocksInv, ReplicasInv, locks
<1>7. FileInv(p)'
  <2>1. /\ Up(p)' = Up(p) /\ File(p)' = File(p) /\ Origin(p)' = Origin(p)
        /\ version' = version /\ driver' = driver /\ dirty' = dirty /\ run' = run
    BY <1>1 DEF Up, File, Origin, world
  <2>2. altered' \subseteq TablesOf(File(p))
    BY <1>1, <1>2, <1>3 DEF FileInv
  <2>3. driver = "postgres" => altered' = TablesOf(File(p))
    BY <1>1, <1>2, <1>3
  <2>4. \A t \in Tables :
          shape'[t] = IF t \in altered' THEN ShapeAt(version) ELSE ShapeAt(Origin(p))
    BY <1>1, <1>2 DEF FileInv
  <2> QED
    BY <1>2, <2>1, <2>2, <2>3, <2>4 DEF FileInv
<1>8. FilesInv'
  BY <1>1, <1>7, OneRuns DEF FilesInv
<1>9. VersionTellsSchema'
  <2>1. dirty'
    BY <1>1, <1>2 DEF FileInv
  <2>2. driver' = "postgres" => shape'["keys"] = shape'["facts"]
    <3>1. "keys" \in Tables /\ "facts" \in Tables
      BY DEF Tables
    <3> QED
      BY <1>1, <1>3, <3>1 DEF world
  <2> QED
    BY <2>1, <2>2 DEF VersionTellsSchema
<1>10. ASSUME NEW t \in Tables, shape'[t] = Last PROVE "unscoped" \notin rows'[t]
  <2>1. CASE t \in batch
    <3>1. Up(p) /\ File(p) = 5
      BY <1>1, <1>2, <1>10, <2>1 DEF Last
    <3> QED
      BY <1>1, <2>1, <3>1 DEF Acceptable, RowsAfter
  <2>2. CASE t \notin batch
    BY <1>1, <1>10, <2>2 DEF MigrationsInv, RowsInv
  <2> QED
    BY <2>1, <2>2
<1> QED
  BY <1>5, <1>6, <1>8, <1>9, <1>10 DEF MigrationsInv, RowsInv

\* The mark goes when all the tables of the file are in its version.
LEMMA ClearDirtyStep ==
    ASSUME MigrationsInv, NEW p \in Migrators, ClearDirty(p)
    PROVE  MigrationsInv'
<1>1. /\ at[p] = "run" /\ altered = TablesOf(File(p))
      /\ dirty' = FALSE /\ altered' = {} /\ run' = [run EXCEPT ![p].left = @ - 1]
      /\ at' = [at EXCEPT ![p] = "read"]
      /\ UNCHANGED <<world, schema, locks, version, usage, found, faults>>
  BY DEF ClearDirty, Goto
<1>2. /\ FileInv(p) /\ TablesOf(File(p)) \in {{}, Tables}
      /\ TablesOf(File(p)) = {} => ShapeAt(version) = ShapeAt(Origin(p))
  BY <1>1, FileTyped
<1>3. run[p].left \in Nat \ {0}
  BY <1>2 DEF FileInv, MigrationsInv, MigrationsTypeOK
<1>4. MigrationsTypeOK'
  <2>1. run' \in [Migrators -> [up : BOOLEAN, left : Nat]]
    <3> DEFINE rest == [run[p] EXCEPT !.left = run[p].left - 1]
    <3>1. /\ run[p] \in [up : BOOLEAN, left : Nat]
          /\ run \in [Migrators -> [up : BOOLEAN, left : Nat]]
      BY DEF MigrationsInv, MigrationsTypeOK
    <3>2. rest \in [up : BOOLEAN, left : Nat]
      BY <1>3, <3>1
    <3>3. run' = [run EXCEPT ![p] = rest]
      BY <1>1
    <3> QED
      BY <3>1, <3>2, <3>3
  <2>2. dirty' \in BOOLEAN
    BY <1>1, Zenon
  <2> QED
    BY <1>1, <2>1, <2>2 DEF MigrationsInv, MigrationsTypeOK, world, locks, usage, Places
<1>5. LocksInv'
  BY <1>1 DEF MigrationsInv, MigrationsTypeOK, LocksInv, locks
<1>6. FilesInv'
  BY <1>1, OneRuns DEF MigrationsInv, MigrationsTypeOK, FilesInv
<1>7. VersionTellsSchema'
  BY <1>1, <1>2 DEF FileInv, MigrationsInv, VersionTellsSchema, world, usage
<1>8. RowsInv'
  BY <1>1 DEF MigrationsInv, RowsInv, usage
<1>9. ReplicasInv'
  <2>1. /\ run'[p].left = run[p].left - 1 /\ run'[p].up = run[p].up /\ at'[p] = "read"
        /\ \A q \in Migrators : q # p => run'[q] = run[q] /\ at'[q] = at[q]
    BY <1>1 DEF MigrationsInv, MigrationsTypeOK
  <2>2. version \in Nat /\ version' = version /\ ~dirty'
    BY <1>1 DEF MigrationsInv, MigrationsTypeOK, Last
  <2> QED
    BY <1>1, <1>3, <2>1, <2>2, MigrationsAssumption
       DEF MigrationsInv, ReplicasInv, Last
<1> QED
  BY <1>4, <1>5, <1>6, <1>7, <1>8, <1>9 DEF MigrationsInv

\* Rows are written in tables whose shape admits them.
LEMMA WriteSteps ==
    ASSUME MigrationsInv, Outside \/ \E p \in Migrators : NewWrite(p)
    PROVE  MigrationsInv'
<1>1. CASE StopOld
  <2>1. old' \in BOOLEAN
    BY <1>1, Zenon DEF StopOld
  <2> QED
    BY <1>1, <2>1 DEF StopOld, MigrationsInv, MigrationsTypeOK, LocksInv, FilesInv, FileInv,
       Up, File, Origin, VersionTellsSchema, RowsInv, ReplicasInv, locks, progress, usage
<1>2. ASSUME NEW new \in [Tables -> SUBSET {"scoped", "unscoped"}], Write(new),
             \A t \in Tables : shape[t] = Last => "unscoped" \notin new[t]
      PROVE  MigrationsInv'
  BY <1>2 DEF Write, MigrationsInv, MigrationsTypeOK, LocksInv, FilesInv, FileInv, Up,
     File, Origin, VersionTellsSchema, RowsInv, ReplicasInv, world, locks, progress
<1>3. CASE OldWrite
  <2> DEFINE new == [t \in Tables |-> rows[t] \cup {"unscoped"}]
  <2>1. new \in [Tables -> SUBSET {"scoped", "unscoped"}]
    BY DEF MigrationsInv, MigrationsTypeOK
  <2> QED
    BY <1>2, <1>3, <2>1 DEF OldWrite, Last
<1>4. ASSUME NEW p \in Migrators, NewWrite(p) PROVE MigrationsInv'
  <2> DEFINE new == [t \in Tables |-> rows[t] \cup {"scoped"}]
  <2>1. new \in [Tables -> SUBSET {"scoped", "unscoped"}]
    BY DEF MigrationsInv, MigrationsTypeOK
  <2>2. \A t \in Tables : shape[t] = Last => "unscoped" \notin new[t]
    BY DEF MigrationsInv, RowsInv
  <2> QED
    BY <1>2, <1>4, <2>1, <2>2 DEF NewWrite
<1>5. ASSUME NEW t \in Tables, Backfill(t) PROVE MigrationsInv'
  <2> DEFINE new == [rows EXCEPT ![t] = {"scoped"}]
  <2>1. new \in [Tables -> SUBSET {"scoped", "unscoped"}]
    BY DEF MigrationsInv, MigrationsTypeOK
  <2>2. \A u \in Tables : shape[u] = Last => "unscoped" \notin new[u]
    BY DEF MigrationsInv, MigrationsTypeOK, RowsInv
  <2> QED
    BY <1>2, <1>5, <2>1, <2>2 DEF Backfill
<1> QED
  BY <1>1, <1>3, <1>4, <1>5 DEF Outside

\* Hooks run only after the migration, and only count faults.
LEMMA HookStepFaults ==
    ASSUME HookStep, faults \in 0..MaxFaults
    PROVE  faults' \in 0..MaxFaults
BY MigrationsAssumption DEF HookStep, New, newLogger, newDatabase, NewTracing, newRedis,
   NewRegistry, NewRuntime, Opens, Run, StartHook, StartFails, Started, Signal, StopHook,
   HookStopped, Stopped, Expire, Abandon, ServeFails, Begin, End, Fault

LEMMA HooksAfterRunStep ==
    ASSUME MigrationsTypeOK, HooksAfterRun, [Next]_vars
    PROVE  HooksAfterRun'
<1> USE DEF HooksAfterRun
<1>1. CASE OfHooks(HookStep)
  <2>1. CASE New \/ Run
    BY <1>1, <2>1 DEF OfHooks, New, newLogger, newDatabase, NewTracing, newRedis,
       NewRegistry, NewRuntime, Opens, Run
  <2>2. CASE StartHook \/ StopHook \/ HookStopped
    BY <1>1, <2>2 DEF OfHooks, StartHook, StopHook, HookStopped
  <2>3. CASE StartFails \/ Started \/ Signal \/ Stopped \/ Expire \/ Abandon
    BY <1>1, <2>3 DEF OfHooks, StartFails, Started, Signal, Stopped, Stopping, Expire,
       Abandon
  <2>4. CASE \E k \in Kinds : ServeFails(k) \/ Begin(k) \/ End(k)
    BY <1>1, <2>4 DEF OfHooks, ServeFails, Begin, End
  <2> QED
    BY <1>1, <2>1, <2>2, <2>3, <2>4 DEF OfHooks, HookStep
<1>2. CASE OfOthers(MigrationStep)
  <2>1. at[App] = "done" => at'[App] = "done"
    BY <1>2, LifecycleAssumption, MigrationsAssumption DEF OfOthers, MigrationStep,
       LaunchReplica, LaunchJob, RunStep, LockAndCreate, CommitSchema, TakeLock, Refuse,
       Finish, MarkDirty, Alter, AlterFails, ClearDirty, Crash, NewWrite, Record, Outside,
       OldWrite, StopOld, Backfill, Write, Exit, Goto, MigrationsTypeOK
  <2> QED
    BY <1>2, <2>1 DEF OfOthers, hookVars
<1>3. CASE Gone
  BY <1>3 DEF Gone
<1> QED
  BY <1>1, <1>2, <1>3 DEF Next, Restart, vars, hookVars, migrationVars

LEMMA MigrationsInitially == Init => MigrationsInv /\ HooksAfterRun
<1> SUFFICES ASSUME Init PROVE MigrationsInv /\ HooksAfterRun
  OBVIOUS
<1>1. /\ version \in {0, 3} /\ dirty = FALSE /\ altered = {} /\ faults = 0
      /\ schemaLock = Nobody /\ lock = Nobody /\ driver \in {"postgres", "mysql"}
      /\ shape = [t \in Tables |-> ShapeAt(version)]
      /\ at = [p \in Migrators |-> "off"]
      /\ run = [p \in Migrators |-> [up |-> TRUE, left |-> 0]]
      /\ found = [p \in Migrators |-> FALSE] /\ phase = "down"
  BY DEF Init, MigrationsInit
<1>2. schema \in BOOLEAN /\ old \in BOOLEAN /\ dirty \in BOOLEAN
      /\ found \in [Migrators -> BOOLEAN]
  BY MigrationsAssumption DEF Init, MigrationsInit
<1>3. rows \in [Tables -> SUBSET {"scoped", "unscoped"}]
  BY DEF Init, MigrationsInit
<1>4. \A t \in Tables : shape[t] \in {0, 2, 4}
  BY <1>1 DEF ShapeAt
<1>5. MigrationsTypeOK
  BY <1>1, <1>2, <1>3, <1>4, MigrationsAssumption DEF MigrationsTypeOK, Places, Last
<1>6. VersionTellsSchema
  BY <1>1 DEF VersionTellsSchema, Tables
<1>7. LocksInv /\ FilesInv /\ ReplicasInv
  BY <1>1, MigrationsAssumption DEF LocksInv, FilesInv, ReplicasInv
<1>8. RowsInv /\ HooksAfterRun
  BY <1>1, <1>4 DEF RowsInv, HooksAfterRun, Last
<1> QED
  BY <1>5, <1>6, <1>7, <1>8 DEF MigrationsInv

\* MigrationsInv is inductive, as the hooks come after the migration.
LEMMA MigrationsStep ==
    MigrationsInv /\ HooksAfterRun /\ [Next]_vars => MigrationsInv' /\ HooksAfterRun'
<1> SUFFICES ASSUME MigrationsInv, HooksAfterRun, [Next]_vars
             PROVE  MigrationsInv' /\ HooksAfterRun'
  OBVIOUS
<1>1. HooksAfterRun'
  BY HooksAfterRunStep DEF MigrationsInv
<1> SUFFICES MigrationsInv'
  BY <1>1
<1>2. ASSUME NEW p \in Migrators,
             LaunchReplica(p) \/ LaunchJob(p) \/ RunStep(p) \/ Crash(p)
      PROVE  MigrationsInv'
  BY <1>2, Launches, EarlySteps, EndingSteps, FinishStep, MarkDirtyStep, AlterStep,
     ClearDirtyStep DEF RunStep
<1>3. CASE OfOthers(MigrationStep)
  BY <1>2, <1>3, WriteSteps, LifecycleAssumption, MigrationsAssumption
     DEF OfOthers, MigrationStep, Record
<1>4. ASSUME UNCHANGED <<world, schema, locks, progress, usage, at, run, found>>,
             faults' \in 0..MaxFaults
      PROVE  MigrationsInv'
  BY <1>4 DEF MigrationsInv, MigrationsTypeOK, LocksInv, FilesInv, FileInv, Up, File,
     Origin, VersionTellsSchema, RowsInv, ReplicasInv, world, locks, progress, usage
<1>5. CASE OfHooks(HookStep)
  BY <1>4, <1>5, HookStepFaults DEF OfHooks, MigrationsInv, MigrationsTypeOK
<1>6. CASE Restart
  <2>1. at[App] = "done" /\ App \in Migrators /\ App \in Replicas
    BY <1>6, LifecycleAssumption, MigrationsAssumption DEF Restart, HooksAfterRun
  <2>2. Exit(App)
    BY <1>6, <2>1 DEF Restart, Exit, Release, MigrationsInv, LocksInv, locks
  <2>3. faults' \in 0..MaxFaults /\ schema' \in BOOLEAN
    BY <1>6 DEF Restart, MigrationsInv, MigrationsTypeOK
  <2> QED
    BY <1>6, <2>1, <2>2, <2>3, Exits DEF Restart
<1>7. CASE UNCHANGED vars
  BY <1>4, <1>7 DEF vars, migrationVars, MigrationsInv, MigrationsTypeOK
<1>8. CASE Crash(App)
  BY <1>2, <1>8, LifecycleAssumption, MigrationsAssumption
<1> QED
  BY <1>3, <1>5, <1>6, <1>7, <1>8 DEF Next

\* The state of the database and of migration.Run is well typed.
THEOREM MigrationsTyped == Spec => []MigrationsTypeOK
<1>1. MigrationsInv => MigrationsTypeOK
  BY DEF MigrationsInv
<1> QED
  BY <1>1, MigrationsInitially, MigrationsStep, PTL DEF Spec

\* A clean version is the version of both tables, for any number of replicas and
\* commands that migrate at once and die anywhere.
THEOREM VersionsTellSchema == Spec => []VersionTellsSchema
<1>1. MigrationsInv => VersionTellsSchema
  BY DEF MigrationsInv
<1> QED
  BY <1>1, MigrationsInitially, MigrationsStep, PTL DEF Spec

\* Nothing is created or altered twice.
THEOREM MigrationsSerialized == Spec => []NobodyCollides
<1>1. MigrationsInv => NobodyCollides
  <2> SUFFICES ASSUME MigrationsInv, NEW p \in Migrators
               PROVE  /\ at[p] = "creating" => schema = found[p]
                      /\ at[p] = "run" => \A t \in Batch(p) : Expected(p, t)
    BY DEF NobodyCollides
  <2>1. at[p] = "creating" => schema = found[p]
    BY DEF MigrationsInv, LocksInv
  <2>2. ASSUME at[p] = "run", NEW t \in Batch(p) PROVE Expected(p, t)
    <3>1. FileInv(p) /\ TablesOf(File(p)) \in {{}, Tables}
      BY <2>2, FileTyped
    <3>2. t \in TablesOf(File(p)) \ altered
      BY <2>2 DEF Batch
    <3> QED
      BY <3>1, <3>2 DEF FileInv, Expected
  <2> QED
    BY <2>1, <2>2
<1> QED
  BY <1>1, MigrationsInitially, MigrationsStep, PTL DEF Spec

\* Replicas that have started never meet a row without an application.
THEOREM ReplicasServeScoped == Spec => []ServesScopedRows
<1>1. MigrationsInv => ServesScopedRows
  <2> SUFFICES ASSUME MigrationsInv, NEW r \in Replicas, at[r] = "done", NEW t \in Tables
               PROVE  shape[t] = Last /\ "unscoped" \notin rows[t]
    BY DEF ServesScopedRows
  <2>1. version = Last /\ ~dirty
    BY DEF MigrationsInv, ReplicasInv
  <2>2. shape[t] = Last
    BY <2>1, Shapes DEF MigrationsInv, VersionTellsSchema, Last
  <2> QED
    BY <2>2 DEF MigrationsInv, RowsInv
<1> QED
  BY <1>1, MigrationsInitially, MigrationsStep, PTL DEF Spec
=============================================================================
