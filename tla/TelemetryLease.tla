---------------------------- MODULE TelemetryLease ----------------------------
(***************************************************************************)
(* The process-local telemetry runtime (telemetry.py) leased by the        *)
(* lifespans of the applications of one process (app.py), each of which    *)
(* may run in a thread of its own: TelemetryManager under its lock, and    *)
(* TelemetryRuntime.shutdown, which runs outside that lock and one call to *)
(* an SDK provider at a time.                                              *)
(*                                                                         *)
(* A section of the manager under its lock is one action: every access to  *)
(* the manager's state takes the lock.                                     *)
(***************************************************************************)
EXTENDS Naturals, FiniteSets

CONSTANTS
  Lifespans,    \* the applications' lifespans, entered again and again
  Callers,      \* external: others that call runtime.shutdown() themselves
  MaxRuntimes,  \* bound: how many runtimes the factory makes
  MaxShutdowns, \* bound: how often a runtime is shut down before Callers stop
  None          \* nobody holds a runtime's lock

ASSUME BoundsAssumption == MaxRuntimes \in Nat \ {0} /\ MaxShutdowns \in Nat
ASSUME LifespansAssumption == IsFiniteSet(Lifespans)
ASSUME NoneAssumption == None \notin Lifespans \cup Callers

Threads == Lifespans \cup Callers
Runtimes == 1 .. MaxRuntimes

(* The providers in the order in which shutdown takes them, twice: it      *)
(* flushes 1 logger, 2 meter, 3 tracer, then shuts 4 logger, 5 meter and   *)
(* 6 tracer down; at step 7 it is through.                                 *)
FlushSteps == 1 .. 3
ShutSteps == 4 .. 6
TracerShut == 6
Through == 7

VARIABLES
  runtime,   \* TelemetryManager._runtime, 0 when None
  leases,    \* TelemetryManager._leases
  made,      \* how many runtimes the factory has made
  pc,        \* where each thread is
  held,      \* the runtime a thread was given, or shuts down; 0 for none
  step,      \* the step of runtime.shutdown a thread has reached
  lock,      \* for each runtime, the thread that holds its lock
  flag,      \* for each runtime, _shutdown
  flushed,   \* for each runtime, the providers that were flushed
  shuts,     \* for each runtime, how often each provider was shut down
  raised,    \* history: the runtimes whose tracer's shutdown raised
  struck     \* history: the runtimes one of Callers has shut down

manager == <<runtime, leases, made>>
providers == <<flag, flushed, shuts, raised>>
vars == <<manager, pc, held, step, lock, providers, struck>>

PCs == {"out", "starting", "serving", "releasing", "closing", "stopping"}

(* The lifespans between initialize and the release of their lease.        *)
Leasing == {l \in Lifespans : pc[l] \in {"starting", "serving", "releasing"}}

TypeOK ==
  /\ runtime \in 0 .. MaxRuntimes /\ made \in 0 .. MaxRuntimes
  /\ leases \in Nat
  /\ pc \in [Threads -> PCs]
  /\ held \in [Threads -> 0 .. MaxRuntimes]
  /\ step \in [Threads -> 0 .. Through]
  /\ lock \in [Runtimes -> Threads \cup {None}]
  /\ flag \in [Runtimes -> BOOLEAN]
  /\ flushed \in [Runtimes -> SUBSET FlushSteps]
  /\ shuts \in [Runtimes -> [ShutSteps -> Nat]]
  /\ raised \subseteq Runtimes /\ struck \subseteq Runtimes
  /\ \A t \in Threads : pc[t] = "stopping" <=> step[t] # 0
  /\ \A t \in Threads, r \in Runtimes :
       lock[r] = t <=> pc[t] = "stopping" /\ held[t] = r

Init ==
  /\ runtime = 0 /\ leases = 0 /\ made = 0
  /\ pc = [t \in Threads |-> "out"]
  /\ held = [t \in Threads |-> 0]
  /\ step = [t \in Threads |-> 0]
  /\ lock = [r \in Runtimes |-> None]
  /\ flag = [r \in Runtimes |-> FALSE]
  /\ flushed = [r \in Runtimes |-> {}]
  /\ shuts = [r \in Runtimes |-> [s \in ShutSteps |-> 0]]
  /\ raised = {} /\ struck = {}

-------------------------------------------------------------------------------
Goes(t, p, q) == pc[t] = p /\ pc' = [pc EXCEPT ![t] = q]

(* manager.initialize(settings): the existing runtime, or a new one.       *)
Initialize(l) ==
  /\ Goes(l, "out", "starting")
  /\ \/ runtime # 0 /\ UNCHANGED <<runtime, made>>
     \/ /\ runtime = 0 /\ made < MaxRuntimes
        /\ made' = made + 1
        /\ runtime' = made + 1
  /\ leases' = leases + 1
  /\ held' = [held EXCEPT ![l] = runtime']
  /\ UNCHANGED <<step, lock, providers, struck>>

(* The factory raises: nothing has changed, and the application is not     *)
(* started (initialize is before the try).                                 *)
FactoryFails(l) == pc[l] = "out" /\ runtime = 0 /\ UNCHANGED vars

(* service_factory built the service: the application serves.              *)
Serve(l) ==
  /\ Goes(l, "starting", "serving")
  /\ UNCHANGED <<manager, held, step, lock, providers, struck>>

(* Mutant: a failing service_factory is outside the try, so it releases    *)
(* nothing.                                                                *)
StopForgettingLease(l) ==
  /\ \/ Goes(l, "serving", "releasing")
     \/ Goes(l, "starting", "out")
  /\ UNCHANGED <<manager, held, step, lock, providers, struck>>

(* The application stops, or service_factory raised: to the finally.       *)
Stop(l) ==
  /\ Goes(l, "serving", "releasing") \/ Goes(l, "starting", "releasing")
  /\ UNCHANGED <<manager, held, step, lock, providers, struck>>

(* The release of l leaves `left` leases; the last one takes the runtime.  *)
GiveUp(l, left) ==
  /\ pc[l] = "releasing"
  /\ leases' = left
  /\ IF runtime = 0 \/ left > 0
       THEN /\ pc' = [pc EXCEPT ![l] = "out"]
            /\ held' = [held EXCEPT ![l] = 0]
            /\ runtime' = runtime
       ELSE /\ pc' = [pc EXCEPT ![l] = "closing"]
            /\ held' = [held EXCEPT ![l] = runtime]
            /\ runtime' = 0
  /\ UNCHANGED <<made, step, lock, providers, struck>>

(* Mutant: the runtime stays with the manager while it is shut down.       *)
ReleaseKeepingRuntime(l) ==
  /\ pc[l] = "releasing"
  /\ leases' = leases - 1
  /\ pc' = [pc EXCEPT ![l] = IF leases > 1 THEN "out" ELSE "closing"]
  /\ held' = [held EXCEPT ![l] = IF leases > 1 THEN 0 ELSE runtime]
  /\ UNCHANGED <<runtime, made, step, lock, providers, struck>>

(* manager.shutdown(), up to the call of runtime.shutdown().               *)
Release(l) ==
  GiveUp(l, IF runtime = 0 THEN leases ELSE IF leases = 0 THEN 0 ELSE leases - 1)

(* External: somebody else calls runtime.shutdown() on an existing runtime.*)
CallShutdown(t) ==
  /\ t \in Callers
  /\ Goes(t, "out", "closing")
  /\ \E r \in 1 .. made : /\ \A s \in ShutSteps : shuts[r][s] < MaxShutdowns
                          /\ held' = [held EXCEPT ![t] = r]
                          /\ struck' = struck \cup {r}
  /\ UNCHANGED <<manager, step, lock, providers>>

(* Mutant: runtime.shutdown takes no lock.                                 *)
TakeNoLock(t) ==
  /\ pc[t] = "closing"
  /\ ~ flag[held[t]]
  /\ pc' = [pc EXCEPT ![t] = "stopping"]
  /\ step' = [step EXCEPT ![t] = 1]
  /\ UNCHANGED <<manager, held, lock, providers, struck>>

(* runtime.shutdown takes the runtime's lock, and is through at once when  *)
(* the runtime has been shut down.                                         *)
TakeLock(t) ==
  /\ pc[t] = "closing"
  /\ lock[held[t]] = None
  /\ IF flag[held[t]]
       THEN /\ pc' = [pc EXCEPT ![t] = "out"]
            /\ held' = [held EXCEPT ![t] = 0]
            /\ UNCHANGED <<step, lock>>
       ELSE /\ pc' = [pc EXCEPT ![t] = "stopping"]
            /\ step' = [step EXCEPT ![t] = 1]
            /\ lock' = [lock EXCEPT ![held[t]] = t]
            /\ UNCHANGED held
  /\ UNCHANGED <<manager, providers, struck>>

(* force_flush evaluates the three flushes in order; one that raises       *)
(* leaves it, and the finally goes on to the first shutdown.               *)
FlushOne(t) ==
  /\ step[t] \in FlushSteps
  /\ \/ /\ step' = [step EXCEPT ![t] = @ + 1]
        /\ flushed' = [flushed EXCEPT ![held[t]] = @ \cup {step[t]}]
     \/ /\ step' = [step EXCEPT ![t] = 4]
        /\ UNCHANGED flushed
  /\ UNCHANGED <<manager, pc, held, lock, flag, shuts, raised, struck>>

(* Shut one provider down, go on to step `next`, and set the flag if       *)
(* `done`; `oops` says whether the provider's shutdown raises.             *)
ShutDown(t, next, oops, done) ==
  /\ step[t] \in ShutSteps
  /\ step' = [step EXCEPT ![t] = next]
  /\ shuts' = [shuts EXCEPT ![held[t]][step[t]] = @ + 1]
  /\ flag' = [flag EXCEPT ![held[t]] = @ \/ done]
  /\ raised' = raised \cup {r \in {held[t]} : oops /\ step[t] = TracerShut}
  /\ UNCHANGED <<manager, pc, held, lock, flushed, struck>>

(* Mutant: a shutdown that raises skips the others.                        *)
ShutOneOrLeave(t) ==
  \E oops \in BOOLEAN :
    ShutDown(t, IF oops THEN Through ELSE step[t] + 1, oops,
             step[t] = TracerShut /\ ~ oops)

(* The nested finally blocks shut every provider down, also when an        *)
(* earlier one raises; only after the tracer's is the flag set.            *)
ShutOne(t) ==
  \E oops \in BOOLEAN :
    ShutDown(t, step[t] + 1, oops, step[t] = TracerShut /\ ~ oops)

(* Mutant: an exception leaves shutdown with its lock held.                *)
LeaveKeepingLock(t) ==
  /\ step[t] = Through
  /\ pc' = [pc EXCEPT ![t] = "out"]
  /\ step' = [step EXCEPT ![t] = 0]
  /\ held' = [held EXCEPT ![t] = 0]
  /\ UNCHANGED <<manager, lock, providers, struck>>

(* shutdown returns, or the exception leaves it: the lock is released.     *)
Leave(t) ==
  /\ step[t] = Through
  /\ pc' = [pc EXCEPT ![t] = "out"]
  /\ step' = [step EXCEPT ![t] = 0]
  /\ lock' = [lock EXCEPT ![held[t]] = None]
  /\ held' = [held EXCEPT ![t] = 0]
  /\ UNCHANGED <<manager, providers, struck>>

ShutdownStep(t) == TakeLock(t) \/ FlushOne(t) \/ ShutOne(t) \/ Leave(t)

Next ==
  \/ \E l \in Lifespans : \/ Initialize(l) \/ FactoryFails(l)
                          \/ Serve(l) \/ Stop(l) \/ Release(l)
  \/ \E t \in Threads : CallShutdown(t) \/ ShutdownStep(t)

Spec == Init /\ [][Next]_vars

(* A thread that has begun to release or to shut down goes on with it (the *)
(* SDK's calls return); nothing makes an application stop.                 *)
Fairness ==
  /\ \A l \in Lifespans : WF_vars(Release(l))
  /\ \A t \in Threads : WF_vars(ShutdownStep(t))

FairSpec == Spec /\ Fairness

-------------------------------------------------------------------------------
(* The manager's lease count is the number of lifespans that hold a lease, *)
(* and it has a runtime exactly while there is one: nothing is released    *)
(* twice or forgotten, also when the service could not be built.           *)
LeasesCounted ==
  /\ leases = Cardinality(Leasing)
  /\ (runtime = 0) = (leases = 0)

(* A lifespan that starts or serves has the manager's runtime, so all emit *)
(* through one; and unless somebody else shut that one down, none of its   *)
(* providers has been shut down and no thread is about to, although        *)
(* another lifespan may shut the previous runtime down at the same time.   *)
ServedRuntimeIsAlive ==
  \A l \in Leasing :
    /\ held[l] = runtime
    /\ held[l] \notin struck =>
         /\ \A t \in Threads : pc[t] \in {"closing", "stopping"} => held[t] # held[l]
         /\ \A s \in ShutSteps : shuts[held[l]][s] = 0

(* A runtime counts as shut down only when every provider was shut down,   *)
(* and unless the tracer provider's shutdown raises, each of them once,    *)
(* whoever calls shutdown and how often.                                   *)
FlagTellsTheTruth ==
  \A r \in Runtimes :
    /\ flag[r] => \A s \in ShutSteps : shuts[r][s] >= 1
    /\ r \notin raised => \A s \in ShutSteps : shuts[r][s] <= 1

(* A runtime the manager gave up has all of its providers shut down in the *)
(* end, whichever of the calls to the SDK raise.                           *)
EveryRuntimeIsShut ==
  \A r \in Runtimes :
    (r <= made /\ runtime # r) ~> (\A s \in ShutSteps : shuts[r][s] >= 1)

(* docs/architecture.md: "shutdown force-flushes each provider".           *)
ShutdownFlushesEach ==
  \A r \in Runtimes : flag[r] => flushed[r] = FlushSteps

===============================================================================
