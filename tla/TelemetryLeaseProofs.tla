------------------------- MODULE TelemetryLeaseProofs -------------------------
(***************************************************************************)
(* Proofs about TelemetryLease, for every number of applications, of other *)
(* callers and of runtimes.                                                *)
(***************************************************************************)
EXTENDS TelemetryLease, FiniteSetTheorems, TLAPS

(* A thread that shuts a runtime down, or is about to.                     *)
Busy(t) == pc[t] \in {"closing", "stopping"}

(* Who holds which runtime: the lifespans that lease hold the manager's,   *)
(* and whoever shuts one down shuts down one that was made.                *)
HeldAgree ==
  /\ runtime <= made
  /\ \A l \in Leasing : held[l] = runtime /\ runtime # 0
  /\ \A t \in Threads : Busy(t) => held[t] \in 1 .. made

(* The manager's runtime, and those that are still to be made, are alive.  *)
Alive ==
  /\ runtime # 0 /\ runtime \notin struck =>
       /\ \A t \in Threads : Busy(t) => held[t] # runtime
       /\ \A s \in ShutSteps : shuts[runtime][s] = 0
  /\ \A r \in Runtimes : r > made =>
       r \notin struck /\ \A s \in ShutSteps : shuts[r][s] = 0

(* A thread in shutdown has shut down the providers behind it, those of a  *)
(* runtime whose tracer never raised once, and has set the flag in the end.*)
Underway ==
  \A t \in Threads : pc[t] = "stopping" =>
    /\ \A s \in ShutSteps : s < step[t] => shuts[held[t]][s] >= 1
    /\ step[t] # Through => ~ flag[held[t]]
    /\ held[t] \notin raised =>
         /\ step[t] = Through => flag[held[t]]
         /\ \A s \in ShutSteps :
              shuts[held[t]][s] <= (IF s < step[t] THEN 1 ELSE 0)

(* A runtime nobody is shutting down was shut down once or not at all,     *)
(* unless its tracer's shutdown raised.                                    *)
Settled ==
  \A r \in Runtimes :
    /\ flag[r] => \A s \in ShutSteps : shuts[r][s] >= 1
    /\ r \notin raised =>
         \A s \in ShutSteps :
           shuts[r][s] <= (IF flag[r] \/ lock[r] # None THEN 1 ELSE 0)

IInv == TypeOK /\ HeldAgree /\ LeasesCounted /\ Alive /\ Underway /\ Settled

-------------------------------------------------------------------------------
LEMMA LeasingFinite == ASSUME TRUE PROVE IsFiniteSet(Leasing)
  BY LifespansAssumption, FS_Subset DEF Leasing

LEMMA InitInvariant ==
  ASSUME Init
  PROVE  IInv
  <1>1. Leasing = {}
    BY DEF Init, Leasing, Threads
  <1>2. LeasesCounted
    BY <1>1, FS_EmptySet DEF LeasesCounted, Init
  <1>3. TypeOK
    BY NoneAssumption, BoundsAssumption
    DEF Init, TypeOK, Threads, Runtimes, PCs, Through, ShutSteps, FlushSteps
  <1>4. HeldAgree /\ Alive /\ Underway /\ Settled
    BY <1>1, BoundsAssumption
    DEF Init, HeldAgree, Alive, Underway, Settled, Busy, Runtimes, Threads, ShutSteps
  <1>5. QED
    BY <1>2, <1>3, <1>4 DEF IInv

(* A thread that has reached a step of shutdown holds the runtime's lock.  *)
LEMMA Stopping ==
  ASSUME IInv, NEW t \in Threads, step[t] # 0
  PROVE  /\ pc[t] = "stopping"
         /\ held[t] \in Runtimes /\ held[t] \in 1 .. made
         /\ lock[held[t]] = t
  <1>1. pc[t] = "stopping"
    BY DEF IInv, TypeOK
  <1>2. held[t] \in 1 .. made
    BY <1>1 DEF IInv, HeldAgree, Busy
  <1>3. held[t] \in Runtimes
    BY <1>2, BoundsAssumption DEF IInv, TypeOK, Runtimes
  <1>. QED
    BY <1>1, <1>2, <1>3 DEF IInv, TypeOK

(* The types, action by action.                                            *)
LEMMA StepTyped ==
  ASSUME IInv, Next
  PROVE  TypeOK'
  <1>. USE NoneAssumption, BoundsAssumption
       DEF IInv, TypeOK, PCs, Through, Threads, manager, providers
  <1>1. ASSUME NEW l \in Lifespans, Initialize(l)
        PROVE  TypeOK'
    BY <1>1 DEF Initialize, Goes
  <1>2. ASSUME NEW l \in Lifespans, Serve(l) \/ Stop(l)
        PROVE  TypeOK'
    BY <1>2 DEF Serve, Stop, Goes
  <1>3. ASSUME NEW l \in Lifespans, Release(l)
        PROVE  TypeOK'
    <2>1. PICK left \in Nat : GiveUp(l, left)
      BY <1>3 DEF Release
    <2>2. pc[l] = "releasing" /\ l \in Threads
      BY <2>1 DEF GiveUp
    <2>3. /\ pc' \in [Threads -> PCs] /\ held' \in [Threads -> 0 .. MaxRuntimes]
          /\ runtime' \in 0 .. MaxRuntimes
      BY <2>1, <2>2 DEF GiveUp
    <2>4. \A u \in Threads : pc'[u] = "stopping" <=> pc[u] = "stopping"
      BY <2>1, <2>2 DEF GiveUp
    <2>5. \A u \in Threads : pc[u] = "stopping" => held'[u] = held[u]
      BY <2>1, <2>2 DEF GiveUp
    <2>. QED
      BY <2>1, <2>3, <2>4, <2>5 DEF GiveUp
  <1>4. ASSUME NEW t \in Threads, CallShutdown(t)
        PROVE  TypeOK'
    BY <1>4 DEF CallShutdown, Goes, Runtimes
  <1>5. ASSUME NEW t \in Threads, TakeLock(t)
        PROVE  TypeOK'
    <2>1. held[t] \in Runtimes /\ pc[t] = "closing" /\ lock[held[t]] = None
      BY <1>5 DEF TakeLock, HeldAgree, Busy, Runtimes
    <2>2. CASE flag[held[t]]
      BY <1>5, <2>1, <2>2 DEF TakeLock
    <2>3. CASE ~ flag[held[t]]
      <3>1. /\ pc' = [pc EXCEPT ![t] = "stopping"]
            /\ step' = [step EXCEPT ![t] = 1]
            /\ lock' = [lock EXCEPT ![held[t]] = t]
            /\ UNCHANGED <<held, manager, providers, struck>>
        BY <1>5, <2>3 DEF TakeLock
      <3>2. \A u \in Threads, r \in Runtimes :
              lock'[r] = u <=> pc'[u] = "stopping" /\ held'[u] = r
        BY <2>1, <3>1
      <3>. QED
        BY <2>1, <3>1, <3>2
    <2>. QED
      BY <2>2, <2>3
  <1>6. ASSUME NEW t \in Threads, FlushOne(t)
        PROVE  TypeOK'
    <2>1. pc[t] = "stopping" /\ held[t] \in Runtimes
      BY <1>6, Stopping DEF FlushOne, FlushSteps
    <2>2. PICK n \in 1 .. Through : step' = [step EXCEPT ![t] = n]
      BY <1>6 DEF FlushOne, FlushSteps
    <2>3. flushed' \in [Runtimes -> SUBSET FlushSteps]
      BY <1>6, <2>1 DEF FlushOne
    <2>4. UNCHANGED <<manager, pc, held, lock, flag, shuts, raised, struck>>
      BY <1>6 DEF FlushOne
    <2>. QED
      BY <2>1, <2>2, <2>3, <2>4
  <1>7. ASSUME NEW t \in Threads, ShutOne(t)
        PROVE  TypeOK'
    <2>1. pc[t] = "stopping" /\ held[t] \in Runtimes /\ step[t] \in ShutSteps
      BY <1>7, Stopping DEF ShutOne, ShutDown, ShutSteps
    <2>2. PICK oops \in BOOLEAN :
            ShutDown(t, step[t] + 1, oops, step[t] = TracerShut /\ ~ oops)
      BY <1>7 DEF ShutOne
    <2>3. shuts' \in [Runtimes -> [ShutSteps -> Nat]]
      BY <2>1, <2>2 DEF ShutDown
    <2>4. flag' \in [Runtimes -> BOOLEAN] /\ raised' \subseteq Runtimes
      BY <2>1, <2>2 DEF ShutDown
    <2>5. /\ step' \in [Threads -> 0 .. Through]
          /\ \A u \in Threads : (pc'[u] = "stopping") = (step'[u] # 0)
      BY <2>1, <2>2 DEF ShutDown, ShutSteps
    <2>. QED
      BY <2>2, <2>3, <2>4, <2>5 DEF ShutDown
  <1>8. ASSUME NEW t \in Threads, Leave(t)
        PROVE  TypeOK'
    <2>1. pc[t] = "stopping" /\ held[t] \in Runtimes /\ lock[held[t]] = t
      BY <1>8, Stopping DEF Leave
    <2>. QED
      BY <1>8, <2>1 DEF Leave
  <1>9. ASSUME NEW l \in Lifespans, FactoryFails(l)
        PROVE  TypeOK'
    BY <1>9 DEF FactoryFails, vars
  <1>. QED
    BY <1>1, <1>2, <1>3, <1>4, <1>5, <1>6, <1>7, <1>8, <1>9 DEF Next, ShutdownStep

(* The lifespans that lease, when one of them moves.                       *)
LEMMA LeasingAfter ==
  ASSUME NEW l \in Lifespans, TypeOK, NEW p \in PCs,
         pc' = [pc EXCEPT ![l] = p]
  PROVE  Leasing' = IF p \in {"starting", "serving", "releasing"}
                      THEN Leasing \cup {l} ELSE Leasing \ {l}
  BY DEF Leasing, TypeOK, Threads

(* A release is one of a lifespan that leases, of a runtime that is there. *)
LEMMA Releasing ==
  ASSUME IInv, NEW l \in Lifespans, Release(l)
  PROVE  /\ l \in Leasing /\ pc[l] = "releasing" /\ l \in Threads
         /\ runtime # 0 /\ leases \in Nat \ {0}
         /\ GiveUp(l, leases - 1)
  <1>1. pc[l] = "releasing" /\ l \in Leasing /\ l \in Threads
    BY DEF Release, GiveUp, Leasing, Threads
  <1>2. runtime # 0 /\ leases \in Nat \ {0}
    BY <1>1 DEF IInv, TypeOK, HeldAgree, LeasesCounted
  <1>. QED
    BY <1>1, <1>2 DEF Release

(* The lease count follows the lifespans.                                  *)
LEMMA StepCounted ==
  ASSUME IInv, Next
  PROVE  LeasesCounted'
  <1>. USE DEF IInv
  <1>1. ASSUME NEW l \in Lifespans, Initialize(l)
        PROVE  LeasesCounted'
    <2>1. Leasing' = Leasing \cup {l} /\ l \notin Leasing
      BY <1>1, LeasingAfter DEF Initialize, Goes, PCs, Leasing
    <2>2. Cardinality(Leasing') = Cardinality(Leasing) + 1
      BY <2>1, LeasingFinite, FS_AddElement
    <2>. QED
      BY <1>1, <2>2 DEF Initialize, LeasesCounted, TypeOK
  <1>2. ASSUME NEW l \in Lifespans, Serve(l) \/ Stop(l)
        PROVE  LeasesCounted'
    <2>1. Leasing' = Leasing
      BY <1>2 DEF Serve, Stop, Goes, Leasing, TypeOK, Threads
    <2>. QED
      BY <1>2, <2>1 DEF Serve, Stop, manager, LeasesCounted
  <1>3. ASSUME NEW l \in Lifespans, Release(l)
        PROVE  LeasesCounted'
    <2>1. /\ l \in Leasing /\ runtime # 0 /\ leases \in Nat \ {0}
          /\ GiveUp(l, leases - 1)
      BY <1>3, Releasing
    <2>2. Leasing' = Leasing \ {l}
      BY <2>1, LeasingAfter DEF GiveUp, PCs
    <2>3. Cardinality(Leasing') = Cardinality(Leasing) - 1
      BY <2>1, <2>2, LeasingFinite, FS_RemoveElement
    <2>. QED
      BY <2>1, <2>3 DEF GiveUp, LeasesCounted
  <1>4. ASSUME NEW t \in Threads, CallShutdown(t) \/ ShutdownStep(t)
        PROVE  LeasesCounted'
    <2>1. UNCHANGED manager
      BY <1>4 DEF CallShutdown, ShutdownStep, TakeLock, FlushOne, ShutOne, ShutDown,
         Leave
    <2>2. Leasing' = Leasing
      <3>1. ASSUME step[t] # 0
            PROVE  pc[t] = "stopping"
        BY <3>1 DEF TypeOK
      <3>. QED
        BY <1>4, <3>1 DEF CallShutdown, ShutdownStep, TakeLock, FlushOne, ShutOne, ShutDown,
           Leave, Goes, Leasing, TypeOK, Threads, Through
    <2>. QED
      BY <2>1, <2>2 DEF manager, LeasesCounted
  <1>5. ASSUME NEW l \in Lifespans, FactoryFails(l)
        PROVE  LeasesCounted'
    BY <1>5 DEF FactoryFails, vars, manager, LeasesCounted, Leasing
  <1>. QED
    BY <1>1, <1>2, <1>3, <1>4, <1>5 DEF Next

(* The last lease is that of the lifespan that releases it.                *)
LEMMA LastLease ==
  ASSUME IInv, NEW l \in Leasing, leases = 1
  PROVE  Leasing = {l}
  <1>1. IsFiniteSet(Leasing \ {l}) /\ Cardinality(Leasing \ {l}) = 0
    <2>1. Cardinality(Leasing) = 1
      BY DEF IInv, LeasesCounted
    <2>2. /\ IsFiniteSet(Leasing \ {l})
          /\ Cardinality(Leasing \ {l}) = Cardinality(Leasing) - 1
      BY LeasingFinite, FS_RemoveElement
    <2>. QED
      BY <2>1, <2>2
  <1>2. Leasing \ {l} = {}
    BY <1>1, FS_EmptySet
  <1>. QED
    BY <1>2

(* Who holds which runtime.                                                *)
LEMMA StepHeld ==
  ASSUME IInv, Next
  PROVE  HeldAgree'
  <1>. USE BoundsAssumption DEF IInv, HeldAgree, TypeOK, Busy, Threads, Leasing
  <1>1. ASSUME NEW l \in Lifespans, Initialize(l)
        PROVE  HeldAgree'
    <2>1. runtime' # 0 /\ runtime' <= made' /\ made' >= made
      BY <1>1 DEF Initialize
    <2>2. \A k \in Leasing : k # l => runtime' = runtime
      BY <1>1 DEF Initialize
    <2>. QED
      BY <1>1, <2>1, <2>2 DEF Initialize, Goes
  <1>2. ASSUME NEW l \in Lifespans, Serve(l) \/ Stop(l)
        PROVE  HeldAgree'
    BY <1>2 DEF Serve, Stop, Goes, manager
  <1>3. ASSUME NEW l \in Lifespans, Release(l)
        PROVE  HeldAgree'
    <2>1. /\ l \in Leasing /\ runtime # 0 /\ leases \in Nat \ {0}
          /\ GiveUp(l, leases - 1)
      BY <1>3, Releasing
    <2>2. CASE leases = 1
      <3>1. Leasing = {l}
        BY <2>1, <2>2, LastLease
      <3>2. /\ pc' = [pc EXCEPT ![l] = "closing"]
            /\ held' = [held EXCEPT ![l] = runtime]
            /\ runtime' = 0 /\ made' = made
        BY <2>1, <2>2 DEF GiveUp
      <3>3. Leasing' = {}
        BY <3>1, <3>2
      <3>. QED
        BY <2>1, <3>2, <3>3
    <2>3. CASE leases # 1
      BY <2>1, <2>3 DEF GiveUp
    <2>. QED
      BY <2>2, <2>3
  <1>4. ASSUME NEW t \in Threads, CallShutdown(t) \/ ShutdownStep(t)
        PROVE  HeldAgree'
    <2>1. CASE CallShutdown(t)
      BY <2>1 DEF CallShutdown, Goes, manager
    <2>2. CASE TakeLock(t)
      <3>1. pc[t] = "closing" /\ UNCHANGED <<runtime, made>>
        BY <2>2 DEF TakeLock, manager
      <3>2. \/ pc' = [pc EXCEPT ![t] = "out"] /\ held' = [held EXCEPT ![t] = 0]
            \/ pc' = [pc EXCEPT ![t] = "stopping"] /\ held' = held
        BY <2>2 DEF TakeLock
      <3>. QED
        BY <3>1, <3>2
    <2>3. CASE FlushOne(t) \/ ShutOne(t)
      BY <2>3 DEF FlushOne, ShutOne, ShutDown, manager
    <2>4. CASE Leave(t)
      <3>1. pc[t] = "stopping"
        BY <2>4, Stopping DEF Leave, Through
      <3>. QED
        BY <2>4, <3>1 DEF Leave, manager
    <2>. QED
      BY <1>4, <2>1, <2>2, <2>3, <2>4 DEF ShutdownStep
  <1>5. ASSUME NEW l \in Lifespans, FactoryFails(l)
        PROVE  HeldAgree'
    BY <1>5 DEF FactoryFails, vars, manager
  <1>. QED
    BY <1>1, <1>2, <1>3, <1>4, <1>5 DEF Next

(* The manager's runtime stays alive unless one of Callers strikes it.     *)
LEMMA StepAlive ==
  ASSUME IInv, Next
  PROVE  Alive'
  <1>. USE BoundsAssumption DEF IInv, TypeOK, Runtimes, Busy, Threads
  <1>1. ASSUME NEW l \in Lifespans, Initialize(l)
        PROVE  Alive'
    <2>1. /\ pc[l] = "out" /\ pc' = [pc EXCEPT ![l] = "starting"]
          /\ held' = [held EXCEPT ![l] = runtime']
          /\ UNCHANGED <<shuts, struck>>
      BY <1>1 DEF Initialize, Goes, providers
    <2>2. CASE runtime # 0 /\ UNCHANGED <<runtime, made>>
      BY <2>1, <2>2 DEF Alive
    <2>3. CASE /\ runtime = 0 /\ made < MaxRuntimes
               /\ made' = made + 1 /\ runtime' = made + 1
      <3>1. \A t \in Threads : Busy(t) => held[t] # runtime'
        BY <2>3 DEF HeldAgree
      <3>2. \A s \in ShutSteps : shuts[runtime'][s] = 0
        BY <2>3 DEF Alive
      <3>. QED
        BY <2>1, <2>3, <3>1, <3>2 DEF Alive
    <2>. QED
      BY <1>1, <2>2, <2>3 DEF Initialize
  <1>2. ASSUME NEW l \in Lifespans, Serve(l) \/ Stop(l)
        PROVE  Alive'
    BY <1>2 DEF Serve, Stop, Goes, manager, providers, Alive
  <1>3. ASSUME NEW l \in Lifespans, Release(l)
        PROVE  Alive'
    <2>1. /\ l \in Leasing /\ pc[l] = "releasing" /\ l \in Threads
          /\ runtime # 0 /\ leases \in Nat \ {0} /\ GiveUp(l, leases - 1)
      BY <1>3, Releasing
    <2>2. UNCHANGED <<made, shuts, struck>>
      BY <2>1 DEF GiveUp, providers
    <2>3. CASE leases = 1
      <3>1. runtime' = 0
        BY <2>1, <2>3 DEF GiveUp
      <3>. QED
        BY <2>2, <3>1 DEF Alive
    <2>4. CASE leases # 1
      <3>1. /\ pc' = [pc EXCEPT ![l] = "out"] /\ held' = [held EXCEPT ![l] = 0]
            /\ runtime' = runtime
        BY <2>1, <2>4 DEF GiveUp
      <3>. QED
        BY <2>1, <2>2, <3>1 DEF Alive
    <2>. QED
      BY <2>3, <2>4
  <1>4. ASSUME NEW t \in Threads, CallShutdown(t)
        PROVE  Alive'
    <2>1. PICK r \in 1 .. made : /\ held' = [held EXCEPT ![t] = r]
                                 /\ struck' = struck \cup {r}
      BY <1>4 DEF CallShutdown
    <2>2. pc' = [pc EXCEPT ![t] = "closing"] /\ UNCHANGED <<runtime, made, shuts>>
      BY <1>4 DEF CallShutdown, Goes, manager, providers
    <2>. QED
      BY <2>1, <2>2 DEF Alive
  <1>5. ASSUME NEW t \in Threads, TakeLock(t) \/ FlushOne(t) \/ Leave(t)
        PROVE  Alive'
    <2>1. UNCHANGED <<runtime, made, shuts, struck>>
      BY <1>5 DEF TakeLock, FlushOne, Leave, manager, providers
    <2>2. \A u \in Threads : Busy(u)' => Busy(u) /\ held'[u] = held[u]
      <3>1. CASE TakeLock(t)
        BY <3>1 DEF TakeLock
      <3>2. CASE FlushOne(t)
        BY <3>2 DEF FlushOne
      <3>3. CASE Leave(t)
        BY <3>3 DEF Leave
      <3>. QED
        BY <1>5, <3>1, <3>2, <3>3
    <2>. QED
      BY <2>1, <2>2 DEF Alive
  <1>6. ASSUME NEW t \in Threads, ShutOne(t)
        PROVE  Alive'
    <2>1. /\ UNCHANGED <<pc, held, runtime, made, struck>>
          /\ step[t] \in ShutSteps
          /\ shuts' = [shuts EXCEPT ![held[t]][step[t]] = @ + 1]
      BY <1>6 DEF ShutOne, ShutDown, manager
    <2>0. held[t] \in 1 .. made /\ Busy(t)
      <3>1. step[t] # 0
        BY <2>1 DEF ShutSteps
      <3>2. Busy(t)
        BY <3>1
      <3>. QED
        BY <3>2 DEF HeldAgree
    <2>2. \A r \in Runtimes : r # held[t] => shuts'[r] = shuts[r]
      BY <2>1
    <2>. QED
      BY <2>0, <2>1, <2>2 DEF Alive
  <1>7. ASSUME NEW l \in Lifespans, FactoryFails(l)
        PROVE  Alive'
    BY <1>7 DEF FactoryFails, vars, manager, providers, Alive
  <1>. QED
    BY <1>1, <1>2, <1>3, <1>4, <1>5, <1>6, <1>7 DEF Next, ShutdownStep

(* A step outside of shutdown leaves the threads in shutdown alone.        *)
LEMMA OutsideProgress ==
  ASSUME IInv, UNCHANGED <<lock, providers>>,
         \A u \in Threads : pc'[u] = "stopping" =>
           pc[u] = "stopping" /\ held'[u] = held[u] /\ step'[u] = step[u]
  PROVE  Underway' /\ Settled'
  BY DEF IInv, Underway, Settled, providers

(* Taking the lock of a runtime that was not shut down yet.                *)
LEMMA TakeLockProgress ==
  ASSUME IInv, NEW t \in Threads, TakeLock(t)
  PROVE  Underway' /\ Settled'
  <1>. USE NoneAssumption DEF IInv, TypeOK, Threads
  <1>1. held[t] \in Runtimes /\ lock[held[t]] = None /\ pc[t] = "closing"
    BY BoundsAssumption DEF TakeLock, HeldAgree, Busy, Runtimes
  <1>2. UNCHANGED <<flag, shuts, raised>>
    BY DEF TakeLock, providers
  <1>3. CASE flag[held[t]]
    <2>1. pc' = [pc EXCEPT ![t] = "out"] /\ held' = [held EXCEPT ![t] = 0]
          /\ UNCHANGED <<step, lock>>
      BY <1>3 DEF TakeLock
    <2>. QED
      BY <1>2, <2>1 DEF Underway, Settled
  <1>4. CASE ~ flag[held[t]]
    <2>1. /\ pc' = [pc EXCEPT ![t] = "stopping"] /\ held' = held
          /\ step' = [step EXCEPT ![t] = 1] /\ lock' = [lock EXCEPT ![held[t]] = t]
      BY <1>4 DEF TakeLock
    <2>2. Underway'
      <3>1. held[t] \notin raised => \A s \in ShutSteps : shuts[held[t]][s] <= 0
        BY <1>1, <1>4 DEF Settled
      <3>. QED
        BY <1>2, <1>4, <2>1, <3>1 DEF Underway, ShutSteps, Through
    <2>3. Settled'
      BY <1>1, <1>2, <2>1 DEF Settled, ShutSteps
    <2>. QED
      BY <2>2, <2>3
  <1>. QED
    BY <1>3, <1>4

(* A flush moves a thread towards the shutdowns.                           *)
LEMMA FlushOneProgress ==
  ASSUME IInv, NEW t \in Threads, FlushOne(t)
  PROVE  Underway' /\ Settled'
  <1>1. UNCHANGED <<pc, held, lock, flag, shuts, raised>>
    BY DEF FlushOne
  <1>2. PICK n \in 1 .. 4 : step' = [step EXCEPT ![t] = n]
    BY DEF FlushOne, FlushSteps
  <1>3. step[t] \in 1 .. 3 /\ step \in [Threads -> 0 .. Through]
    BY DEF FlushOne, FlushSteps, IInv, TypeOK
  <1>4. Underway'
    BY <1>1, <1>2, <1>3 DEF IInv, Underway, ShutSteps, Through
  <1>. QED
    BY <1>1, <1>4 DEF IInv, Settled

(* A shutdown of one provider: it was not shut down before, and after the  *)
(* last one, unless it raises, the flag is set.                            *)
LEMMA ShutOneProgress ==
  ASSUME IInv, NEW t \in Threads, ShutOne(t)
  PROVE  Underway' /\ Settled'
  <1>. DEFINE r == held[t]
              k == step[t]
  <1>1. k \in ShutSteps /\ UNCHANGED <<pc, held, lock>>
    BY DEF ShutOne, ShutDown
  <1>2. pc[t] = "stopping" /\ r \in Runtimes /\ lock[r] = t
    BY <1>1, Stopping DEF ShutSteps
  <1>3. PICK oops \in BOOLEAN :
          /\ step' = [step EXCEPT ![t] = k + 1]
          /\ shuts' = [shuts EXCEPT ![r][k] = @ + 1]
          /\ flag' = [flag EXCEPT ![r] = @ \/ (k = TracerShut /\ ~ oops)]
          /\ raised' = raised \cup {q \in {r} : oops /\ k = TracerShut}
    BY DEF ShutOne, ShutDown
  <1>4. /\ step \in [Threads -> 0 .. Through] /\ flag \in [Runtimes -> BOOLEAN]
        /\ shuts \in [Runtimes -> [ShutSteps -> Nat]]
        /\ lock \in [Runtimes -> Threads \cup {None}]
    BY DEF IInv, TypeOK
  <1>5. \A u \in Threads : pc[u] = "stopping" /\ u # t => held[u] # r
    BY <1>2 DEF IInv, TypeOK
  <1>6. /\ \A s \in ShutSteps : s < k => shuts[r][s] >= 1
        /\ ~ flag[r]
        /\ r \notin raised =>
             \A s \in ShutSteps : shuts[r][s] <= (IF s < k THEN 1 ELSE 0)
    BY <1>1, <1>2 DEF IInv, Underway, ShutSteps, Through
  <1>7. /\ \A s \in ShutSteps : s < k + 1 => shuts'[r][s] >= 1
        /\ r \notin raised =>
             \A s \in ShutSteps : shuts'[r][s] <= (IF s < k + 1 THEN 1 ELSE 0)
    <2>1. \A s \in ShutSteps :
            shuts'[r][s] = IF s = k THEN shuts[r][s] + 1 ELSE shuts[r][s]
      BY <1>1, <1>2, <1>3, <1>4
    <2>2. \A s \in ShutSteps : shuts[r][s] \in Nat /\ s \in Nat
      BY <1>2, <1>4 DEF ShutSteps
    <2>. QED
      BY <1>1, <1>6, <2>1, <2>2 DEF ShutSteps
  <1>8. /\ k + 1 # Through => ~ flag'[r]
        /\ r \notin raised' /\ k + 1 = Through => flag'[r]
    <2>1. flag'[r] <=> k = TracerShut /\ ~ oops
      BY <1>2, <1>3, <1>4, <1>6
    <2>2. r \notin raised' => ~ (oops /\ k = TracerShut)
      BY <1>3
    <2>3. k + 1 = Through <=> k = TracerShut
      BY <1>1 DEF ShutSteps, Through, TracerShut
    <2>. QED
      BY <2>1, <2>2, <2>3
  <1>9. \A q \in Runtimes : q # r =>
          /\ shuts'[q] = shuts[q] /\ (flag'[q] <=> flag[q])
          /\ q \in raised' <=> q \in raised
    BY <1>3, <1>4
  <1>10. Underway'
    <2>. SUFFICES ASSUME NEW u \in Threads, pc'[u] = "stopping"
                  PROVE  /\ \A s \in ShutSteps : s < step'[u] => shuts'[held'[u]][s] >= 1
                         /\ step'[u] # Through => ~ flag'[held'[u]]
                         /\ held'[u] \notin raised' =>
                              /\ step'[u] = Through => flag'[held'[u]]
                              /\ \A s \in ShutSteps : shuts'[held'[u]][s]
                                   <= (IF s < step'[u] THEN 1 ELSE 0)
      BY DEF Underway
    <2>1. CASE u = t
      <3>1. step'[u] = k + 1 /\ held'[u] = r /\ (r \notin raised' => r \notin raised)
        BY <1>1, <1>3, <1>4, <2>1
      <3>. QED
        BY <1>7, <1>8, <3>1
    <2>2. CASE u # t
      <3>1. held'[u] = held[u] /\ step'[u] = step[u] /\ pc[u] = "stopping"
        BY <1>1, <1>3, <1>4, <2>2
      <3>2. held[u] \in Runtimes /\ held[u] # r
        <4>1. step[u] # 0
          BY <3>1 DEF IInv, TypeOK
        <4>. QED
          BY <1>5, <2>2, <3>1, <4>1, Stopping
      <3>. QED
        BY <1>9, <3>1, <3>2 DEF IInv, Underway
    <2>. QED
      BY <2>1, <2>2
  <1>11. Settled'
    <2>. SUFFICES ASSUME NEW q \in Runtimes
                  PROVE  /\ flag'[q] => \A s \in ShutSteps : shuts'[q][s] >= 1
                         /\ q \notin raised' => \A s \in ShutSteps : shuts'[q][s]
                              <= (IF flag'[q] \/ lock'[q] # None THEN 1 ELSE 0)
      BY DEF Settled
    <2>1. CASE q = r
      <3>1. lock'[r] # None
        BY <1>1, <1>2, NoneAssumption DEF Threads
      <3>2. flag'[r] => \A s \in ShutSteps : shuts'[r][s] >= 1
        BY <1>1, <1>7, <1>8 DEF ShutSteps, Through
      <3>3. r \notin raised' => \A s \in ShutSteps : shuts'[r][s] <= 1
        <4>1. r \notin raised' => r \notin raised
          BY <1>3
        <4>2. \A s \in ShutSteps : shuts'[r][s] \in Nat
          BY <1>1, <1>2, <1>3, <1>4
        <4>. QED
          BY <1>7, <4>1, <4>2
      <3>. QED
        BY <2>1, <3>1, <3>2, <3>3
    <2>2. CASE q # r
      BY <1>1, <1>9, <2>2 DEF IInv, Settled
    <2>. QED
      BY <2>1, <2>2
  <1>. QED
    BY <1>10, <1>11

(* Leaving shutdown: the flag is set unless the tracer's shutdown raised.  *)
LEMMA LeaveProgress ==
  ASSUME IInv, NEW t \in Threads, Leave(t)
  PROVE  Underway' /\ Settled'
  <1>1. step[t] = Through /\ UNCHANGED <<flag, shuts, raised>>
    BY DEF Leave, providers
  <1>2. pc[t] = "stopping" /\ held[t] \in Runtimes /\ lock[held[t]] = t
    BY <1>1, Stopping DEF Through
  <1>3. /\ pc' = [pc EXCEPT ![t] = "out"] /\ step' = [step EXCEPT ![t] = 0]
        /\ lock' = [lock EXCEPT ![held[t]] = None] /\ held' = [held EXCEPT ![t] = 0]
    BY DEF Leave
  <1>4. Underway'
    BY <1>1, <1>3 DEF IInv, Underway, TypeOK
  <1>5. held[t] \notin raised => flag[held[t]]
    BY <1>1, <1>2 DEF IInv, Underway
  <1>6. Settled'
    BY <1>1, <1>2, <1>3, <1>5, NoneAssumption DEF IInv, Settled, TypeOK, Threads
  <1>. QED
    BY <1>4, <1>6

LEMMA StepProgress ==
  ASSUME IInv, Next
  PROVE  Underway' /\ Settled'
  <1>1. ASSUME NEW l \in Lifespans,
               Initialize(l) \/ FactoryFails(l) \/ Serve(l) \/ Stop(l)
        PROVE  Underway' /\ Settled'
    <2>1. UNCHANGED <<lock, providers, step>>
      BY <1>1 DEF Initialize, FactoryFails, Serve, Stop, vars
    <2>2. \A u \in Threads : pc'[u] = "stopping" =>
            pc[u] = "stopping" /\ held'[u] = held[u]
      BY <1>1 DEF Initialize, FactoryFails, Serve, Stop, Goes, vars, IInv, TypeOK, Threads
    <2>. QED
      BY <2>1, <2>2, OutsideProgress
  <1>2. ASSUME NEW l \in Lifespans, Release(l)
        PROVE  Underway' /\ Settled'
    <2>1. UNCHANGED <<lock, providers, step>>
      BY <1>2 DEF Release, GiveUp
    <2>2. \A u \in Threads : pc'[u] = "stopping" =>
            pc[u] = "stopping" /\ held'[u] = held[u]
      <3>1. PICK left \in Nat : GiveUp(l, left)
        BY <1>2, Releasing
      <3>. QED
        BY <3>1 DEF GiveUp, IInv, TypeOK, Threads
    <2>. QED
      BY <2>1, <2>2, OutsideProgress
  <1>3. ASSUME NEW t \in Threads, CallShutdown(t)
        PROVE  Underway' /\ Settled'
    <2>1. UNCHANGED <<lock, providers, step>>
      BY <1>3 DEF CallShutdown
    <2>2. \A u \in Threads : pc'[u] = "stopping" =>
            pc[u] = "stopping" /\ held'[u] = held[u]
      BY <1>3 DEF CallShutdown, Goes, IInv, TypeOK
    <2>. QED
      BY <2>1, <2>2, OutsideProgress
  <1>. QED
    BY <1>1, <1>2, <1>3, TakeLockProgress, FlushOneProgress, ShutOneProgress,
       LeaveProgress DEF Next, ShutdownStep

-------------------------------------------------------------------------------
(* The inductive invariant holds for any number of lifespans, callers and  *)
(* runtimes (TelemetryManager and TelemetryRuntime.shutdown).              *)
THEOREM Invariance == Spec => []IInv
  <1>1. Init => IInv
    BY InitInvariant
  <1>2. IInv /\ [Next]_vars => IInv'
    <2>1. CASE Next
      BY <2>1, StepTyped, StepHeld, StepCounted, StepAlive, StepProgress DEF IInv
    <2>2. CASE UNCHANGED vars
      BY <2>2 DEF vars, manager, providers, IInv, TypeOK, HeldAgree, LeasesCounted,
         Alive, Underway, Settled, Busy, Leasing
    <2>. QED
      BY <2>1, <2>2
  <1>. QED
    BY <1>1, <1>2, PTL DEF Spec

(* Every variable keeps its type, and a lock is held exactly by the thread *)
(* inside shutdown.                                                        *)
THEOREM TypeCorrect == Spec => []TypeOK
  BY Invariance, PTL DEF IInv

(* No lease is forgotten or given back twice (TelemetryManager).           *)
THEOREM CountedLeases == Spec => []LeasesCounted
  BY Invariance, PTL DEF IInv

(* Whoever serves does so through the manager's runtime, and unless one of *)
(* the callers outside the lifespans shut it down, it is alive.            *)
THEOREM AliveWhileServed == Spec => []ServedRuntimeIsAlive
  <1>1. IInv => ServedRuntimeIsAlive
    BY DEF IInv, HeldAgree, Alive, Busy, ServedRuntimeIsAlive
  <1>. QED
    BY <1>1, Invariance, PTL

(* _shutdown is set only after every provider was shut down, once each     *)
(* unless the tracer's shutdown raises (TelemetryRuntime.shutdown).        *)
THEOREM TruthfulFlag == Spec => []FlagTellsTheTruth
  <1>1. IInv => FlagTellsTheTruth
    <2>. SUFFICES ASSUME IInv, NEW r \in Runtimes, NEW s \in ShutSteps
                  PROVE  (flag[r] => shuts[r][s] >= 1) /\ (r \notin raised => shuts[r][s] <= 1)
      BY DEF FlagTellsTheTruth
    <2>1. shuts[r][s] \in Nat
      BY DEF IInv, TypeOK
    <2>. QED
      BY <2>1 DEF IInv, Settled
  <1>. QED
    BY <1>1, Invariance, PTL

===============================================================================
