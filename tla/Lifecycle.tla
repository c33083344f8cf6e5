----------------------------- MODULE Lifecycle ------------------------------
(***************************************************************************)
(* The life of one replica, App, among the processes of Migrations: fx     *)
(* runs its constructors (the startup migration first), then the OnStart   *)
(* hooks in the order they were appended, and after a signal or a failed   *)
(* start the OnStop hooks of the started ones in the opposite order.  Each *)
(* of Start and Stop has one deadline, app.shutdown_timeout; a failed      *)
(* start is rolled back within what is left of it.                         *)
(*                                                                         *)
(* What the hooks serve is "work": an HTTP request, a gRPC call, a cron    *)
(* job, and a pass of the event loops.  Work uses resources that other     *)
(* hooks close.                                                            *)
(***************************************************************************)
EXTENDS Migrations, Sequences

CONSTANT App  \* the replica whose hooks are followed

ASSUME LifecycleAssumption == App \in Replicas

\* The hooks, in the order fx's invocations append them.
Hooks == <<"logger", "database", "tracing", "redis", "eventbus", "outbound",
           "scheduler", "verifier", "grpc", "http">>

\* What the constructors open; the event bus is opened by its OnStart.
Constructed == {"logger", "database", "tracing", "redis", "outbound", "verifier"}

NoRedisHook(h) ==
    IF h = "eventbus" THEN {"bus"} ELSE {h} \cap (Constructed \ {"redis"})

\* The resources the OnStop of hook h closes.
Closes(h) == IF h = "eventbus" THEN {"bus"} ELSE {h} \cap Constructed

Kinds == {"http", "grpc", "cron", "loop"}

\* The kind of work that hook h starts and stops.
Serves(h) ==
    CASE h = "eventbus" -> {"loop"}
      [] h = "scheduler" -> {"cron"}
      [] h \in {"grpc", "http"} -> {h}
      [] OTHER -> {}

\* The resources a piece of work uses.
Needs(k) ==
    CASE k = "cron" -> {"logger", "redis"}
      [] k = "loop" -> {"logger", "database", "bus"}
      [] OTHER -> Constructed

VARIABLES
    phase,     \* "down" until Start, "start", "serving", "stop", "rollback", "ended"
    started,   \* numStarted of fx: how many hooks are started
    waiting,   \* whether the OnStop of the last started hook waits for its work
    expired,   \* whether the deadline of this Start or Stop has passed
    open,      \* the resources that are open
    accepting, \* the kinds of work that may begin
    work,      \* the state of a piece of work of each kind
    exit       \* the exit code: "none", "clean" or "failed"

hookVars == <<phase, started, waiting, expired, open, accepting, work, exit>>
vars == <<migrationVars, hookVars>>

Init ==
    /\ MigrationsInit
    /\ phase = "down" /\ started = 0 /\ waiting = FALSE /\ expired = FALSE
    /\ open = {} /\ accepting = {} /\ exit = "none"
    /\ work = [k \in Kinds |-> "idle"]

\* The process is gone, and with it all it had open.
Gone ==
    /\ phase' = "down" /\ started' = 0 /\ waiting' = FALSE /\ expired' = FALSE
    /\ open' = {} /\ accepting' = {} /\ exit' = "none"
    /\ work' = [k \in Kinds |-> "idle"]

Stopping == phase \in {"stop", "rollback"}
Hook == Hooks[started]
-----------------------------------------------------------------------------
\* A constructor that opens resource r, after those that opened "before".  When
\* it fails it leaves nothing of its own open, and the process ends.
Opens(r, before) ==
    /\ phase = "down" /\ at[App] = "done" /\ open = before
    /\ \/ open' = before \cup {r} /\ UNCHANGED <<phase, exit, faults>>
       \/ Fault /\ phase' = "ended" /\ exit' = "failed" /\ UNCHANGED open
    /\ UNCHANGED <<started, waiting, expired, accepting, work>>

\* The constructors in the order fx calls them.  The logger is counted here,
\* although the migration already writes to it.
newLogger == Opens("logger", {})
newDatabase == Opens("database", {"logger"})
NewTracing == Opens("tracing", {"logger", "database"})
newRedis == Opens("redis", {"logger", "database", "tracing"})
NewRegistry == Opens("outbound", {"logger", "database", "tracing", "redis"})
NewRuntime == Opens("verifier", Constructed \ {"verifier"})

New == newLogger \/ newDatabase \/ NewTracing \/ newRedis \/ NewRegistry \/ NewRuntime

\* fx.New has succeeded, and Run calls Start.
Run ==
    /\ phase = "down" /\ at[App] = "done" /\ open = Constructed
    /\ phase' = "start"
    /\ UNCHANGED <<started, waiting, expired, open, accepting, work, exit, faults>>

\* The OnStart of the next hook: the event bus is opened, the servers listen.
StartHook ==
    LET h == Hooks[started + 1] IN
    /\ phase = "start" /\ started < Len(Hooks) /\ ~expired
    /\ started' = started + 1
    /\ open' = open \cup Closes(h)
    /\ accepting' = accepting \cup Serves(h)
    /\ UNCHANGED <<phase, waiting, expired, work, exit, faults>>

\* The bus cannot be reached, or an address is taken: the hooks before this one
\* are rolled back.
StartFails ==
    /\ phase = "start" /\ started < Len(Hooks) /\ ~expired
    /\ Hooks[started + 1] \in {"eventbus", "grpc", "http"}
    /\ Fault
    /\ phase' = "rollback"
    /\ UNCHANGED <<started, waiting, expired, open, accepting, work, exit>>

Started ==
    /\ phase = "start" /\ started = Len(Hooks) /\ ~expired
    /\ phase' = "serving"
    /\ UNCHANGED <<started, waiting, expired, open, accepting, work, exit, faults>>

Signal ==
    /\ phase = "serving"
    /\ Fault
    /\ phase' = "stop"
    /\ UNCHANGED <<started, waiting, expired, open, accepting, work, exit>>

\* Serve returns with an error, which is only logged.
ServeFails(k) ==
    /\ k \in {"http", "grpc"} /\ k \in accepting
    /\ phase \in {"start", "serving"}
    /\ Fault
    /\ accepting' = accepting \ {k}
    /\ UNCHANGED <<phase, started, waiting, expired, open, work, exit>>

\* The OnStop of a hook: a server takes no more work and waits for what it has;
\* anything else is closed at once.
StopHook ==
    /\ Stopping /\ started > 0 /\ ~waiting /\ ~expired
    /\ IF Serves(Hook) # {}
       THEN /\ accepting' = accepting \ Serves(Hook)
            /\ waiting' = TRUE
            /\ UNCHANGED <<started, open>>
       ELSE /\ open' = open \ Closes(Hook)
            /\ started' = started - 1
            /\ UNCHANGED <<accepting, waiting>>
    /\ UNCHANGED <<phase, expired, work, exit, faults>>

WaitsForNothing(h) == TRUE

\* Whether the OnStop of h has nothing to wait for any more.
Idle(h) == \A k \in Serves(h) : work[k] = "idle"

\* The waiting OnStop returns: its work is done, or its context has expired,
\* which the event runtime does not look at.  The gRPC server then closes the
\* connections of its calls, whose handlers go on.
HookStopped ==
    /\ Stopping /\ waiting
    /\ Idle(Hook) \/ (expired /\ Hook # "eventbus")
    /\ waiting' = FALSE /\ started' = started - 1
    /\ open' = open \ Closes(Hook)
    /\ work' = [k \in Kinds |->
                   IF k = "grpc" /\ Hook = "grpc" /\ work[k] = "running"
                   THEN "cut" ELSE work[k]]
    /\ UNCHANGED <<phase, expired, accepting, exit, faults>>

\* The last hook is stopped.  If one of them has returned an error, as a listener
\* or a connection that fails to close does, fx exits with 1.
Stopped ==
    /\ Stopping /\ started = 0
    /\ phase' = "ended"
    /\ exit' \in {"failed"} \cup (IF phase = "stop" /\ ~expired THEN {"clean"} ELSE {})
    /\ UNCHANGED <<started, waiting, expired, open, accepting, work, faults>>

\* The deadline of Stop, or of what is left of Start, passes: time is all it
\* takes.  That Start itself lasts so long counts as a fault.
Expire ==
    /\ ~expired /\ expired' = TRUE
    /\ \/ Stopping /\ UNCHANGED faults
       \/ phase = "start" /\ Fault
    /\ UNCHANGED <<phase, started, waiting, open, accepting, work, exit>>

\* fx does not wait for a hook beyond the deadline; the process exits.
Abandon ==
    /\ phase \in {"start", "stop", "rollback"} /\ expired
    /\ phase' = "ended" /\ exit' = "failed"
    /\ UNCHANGED <<started, waiting, expired, open, accepting, work, faults>>

\* The orchestrator starts the replica again.
Restart ==
    /\ phase = "ended"
    /\ Goto(App, "off")
    /\ Gone
    /\ UNCHANGED <<world, schema, locks, progress, usage, run, found, faults>>

\* Work begins, ...
Begin(k) ==
    /\ k \in accepting /\ work[k] = "idle" /\ phase # "ended"
    /\ work' = [work EXCEPT ![k] = "running"]
    /\ UNCHANGED <<phase, started, waiting, expired, open, accepting, exit, faults>>

\* ... and ends.
End(k) ==
    /\ work[k] # "idle" /\ phase # "ended"
    /\ work' = [work EXCEPT ![k] = "idle"]
    /\ UNCHANGED <<phase, started, waiting, expired, open, accepting, exit, faults>>

\* Usage is recorded by a request or a call of App.
Record ==
    /\ phase # "ended" /\ \E k \in {"http", "grpc"} : work[k] # "idle"
    /\ NewWrite(App)

-----------------------------------------------------------------------------
HookStep ==
    \/ New \/ Run \/ StartHook \/ StartFails \/ Started \/ Signal
    \/ StopHook \/ HookStopped \/ Stopped \/ Expire \/ Abandon
    \/ \E k \in Kinds : ServeFails(k) \/ Begin(k) \/ End(k)

MigrationStep ==
    \/ \E p \in Migrators : LaunchReplica(p) \/ LaunchJob(p) \/ RunStep(p)
    \/ \E p \in Migrators \ {App} : Crash(p) \/ NewWrite(p)
    \/ Record \/ Outside

\* A step of App's hooks, and a step of anything else.
OfHooks(A) == A /\ UNCHANGED <<world, schema, locks, progress, usage, at, run, found>>
OfOthers(A) == A /\ UNCHANGED hookVars

Next ==
    \/ OfHooks(HookStep)
    \/ OfOthers(MigrationStep)
    \/ phase # "ended" /\ Crash(App) /\ Gone
    \/ Restart

\* Processes make steps, time passes and replicas are started again.  Requests,
\* calls, jobs and loops need not end.
Fairness ==
    /\ \A p \in Migrators :
         WF_vars(OfOthers(RunStep(p))) /\ WF_vars(OfOthers(LaunchReplica(p)))
    /\ WF_vars(OfHooks(New \/ Run \/ StartHook \/ Started))
    /\ WF_vars(OfHooks(Stopping /\ Expire)) /\ WF_vars(OfHooks(Abandon))
    /\ WF_vars(Restart)

Spec == Init /\ [][Next]_vars /\ Fairness

-----------------------------------------------------------------------------
\* The values the variables have.
LifecycleTypeOK ==
    /\ phase \in {"down", "start", "serving", "stop", "rollback", "ended"}
    /\ started \in 0..Len(Hooks)
    /\ waiting \in BOOLEAN /\ expired \in BOOLEAN
    /\ open \subseteq Constructed \cup {"bus"}
    /\ accepting \subseteq Kinds
    /\ work \in [Kinds -> {"idle", "running", "cut"}]
    /\ exit \in {"none", "clean", "failed"}

\* As long as the process runs, no request, call, job or event loop meets a
\* resource that a hook has closed, also when its server has given up waiting
\* for it (grpc/server.go:108-118, scheduler.go:39-46).
UsersHaveResources ==
    phase # "ended" => \A k \in Kinds : work[k] # "idle" => Needs(k) \subseteq open

\* Exit code 0 means that all work was finished and everything closed, and a
\* call is cut off only by the deadline (app.go:46-47, grpc/server.go:114-116).
CleanExitFinishedAll ==
    /\ exit = "clean" => open = {} /\ accepting = {} /\ \A k \in Kinds : work[k] = "idle"
    /\ (\E k \in Kinds : work[k] = "cut") => expired

\* After the last failure the replicas get past the migration and serve, however
\* long the work of a stopping process lasts and whoever migrates beside them;
\* what can keep them from it for good is only a version left dirty by a crash
\* or by rows without an application (migration.go:56, app.go:46-58).
ServesUnlessDirty ==
    <>[](phase = "serving" /\ \A r \in Replicas : at[r] = "done") \/ <>[]dirty
=============================================================================
