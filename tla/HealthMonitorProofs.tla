------------------------- MODULE HealthMonitorProofs -------------------------
(***************************************************************************)
(* Theorems about HealthMonitor, for any set of workers, interval, bound on *)
(* a check and number of faults.                                           *)
(***************************************************************************)
EXTENDS HealthMonitor, TLAPS

(* A Control Plane that is down has forgotten everything.                    *)
DownIsEmpty ==
  plane = "down" =>
    phase = "sleeping" /\ endpoints = {} /\ \A w \in Workers : registry[w] = "absent"

(* A good answer that is not recorded yet was given in this round.           *)
AnswersRecent == \A w \in Workers : check[w] = "ok" => silent[w] <= timer

(* How long a registered worker reported healthy may have been silent: it    *)
(* depends on where the loop is, and on whether this round is done with it.  *)
Allowance(w) ==
  IF phase = "sleeping" THEN CheckTime + timer
  ELSE IF check[w] \in {"sent", "bad"} THEN CheckTime + Interval + timer ELSE timer

ReportsRecent ==
  \A w \in endpoints : registry[w] = "healthy" => silent[w] <= Allowance(w)

(* A check in flight of a worker that is not registered was raced.           *)
ChecksRaced == \A w \in Workers : InFlight(w) /\ w \notin endpoints => w \in raced

IInv ==
  TypeOK /\ DownIsEmpty /\ AnswersRecent /\ ReportsRecent /\ ChecksRaced /\ GhostsAreRaced

(* The times are natural numbers.                                           *)
LEMMA Times ==
  /\ Interval \in Nat /\ Interval > 0 /\ CheckTime \in Nat /\ CheckTime > 0
  /\ Bound \in Nat /\ Bound = Interval + 2 * CheckTime
  BY PeriodAssumption DEF Bound

(* A Control Plane that was not started knows nobody.                        *)
LEMMA InitInv == Init => IInv
  BY Times, HealthBounds
  DEF Init, IInv, TypeOK, DownIsEmpty, AnswersRecent, ReportsRecent, ChecksRaced,
      GhostsAreRaced, AllWorkerHealth, InFlight

(* The Control Plane's life.                                                 *)
LEMMA PlaneInv == IInv /\ (PlaneStart \/ PlaneCrash) => IInv'
<1>. SUFFICES ASSUME IInv, PlaneStart \/ PlaneCrash PROVE IInv'
  OBVIOUS
<1>1. CASE PlaneStart
  <2>1. phase = "sleeping" /\ endpoints = {} /\ \A w \in Workers : registry[w] = "absent"
    BY <1>1 DEF IInv, DownIsEmpty, PlaneStart
  <2>2. \A w \in Workers : ~InFlight(w)
    BY <2>1 DEF IInv, TypeOK
  <2>3. TypeOK'
    BY <1>1, <2>1, <2>2, Times, DefaultAssumption
    DEF PlaneStart, IInv, TypeOK, AllWorkerHealth, InFlight
  <2>4. ReportsRecent'
    <3>1. endpoints' = {Default} /\ silent'[Default] = 0 /\ phase' = "sleeping"
          /\ timer' = Interval
      BY <1>1, <2>1, DefaultAssumption DEF PlaneStart, IInv, TypeOK
    <3>. QED
      BY <3>1, Times DEF ReportsRecent, Allowance
  <2>5. AnswersRecent' /\ ChecksRaced' /\ DownIsEmpty'
    BY <1>1, <2>2 DEF PlaneStart, AnswersRecent, ChecksRaced, DownIsEmpty, InFlight
  <2>6. GhostsAreRaced'
    BY <1>1, <2>1, DefaultAssumption DEF PlaneStart, GhostsAreRaced, AllWorkerHealth, IInv, TypeOK
  <2>. QED
    BY <2>3, <2>4, <2>5, <2>6 DEF IInv
<1>2. CASE PlaneCrash
  <2>1. TypeOK'
    BY <1>2, Times, HealthBounds DEF PlaneCrash, Fault, IInv, TypeOK, AllWorkerHealth, InFlight
  <2>2. DownIsEmpty' /\ AnswersRecent' /\ ReportsRecent' /\ ChecksRaced' /\ GhostsAreRaced'
    BY <1>2 DEF PlaneCrash, DownIsEmpty, AnswersRecent, ReportsRecent, ChecksRaced,
                GhostsAreRaced, AllWorkerHealth, InFlight
  <2>. QED
    BY <2>1, <2>2 DEF IInv
<1>. QED
  BY <1>1, <1>2

(* Registering and deregistering, at any time.                               *)
LEMMA RegistryInv == \A w \in Workers : IInv /\ (Register(w) \/ Deregister(w)) => IInv'
<1>. SUFFICES ASSUME NEW w \in Workers, IInv, Register(w) \/ Deregister(w) PROVE IInv'
  OBVIOUS
<1>0. /\ TypeOK /\ DownIsEmpty /\ AnswersRecent /\ ReportsRecent /\ ChecksRaced
      /\ GhostsAreRaced /\ timer \in Nat
  BY Times DEF IInv, TypeOK
<1>1. CASE Register(w)
  <2>1. TypeOK'
    BY <1>0, <1>1, Times DEF Register, loopVars, TypeOK, AllWorkerHealth, InFlight
  <2>2. DownIsEmpty' /\ ChecksRaced' /\ GhostsAreRaced'
    BY <1>0, <1>1 DEF Register, loopVars, DownIsEmpty, ChecksRaced, GhostsAreRaced,
                      AllWorkerHealth, InFlight, TypeOK
  <2>3. silent'[w] = 0 /\ \A v \in Workers \ {w} : silent'[v] = silent[v]
    BY <1>0, <1>1 DEF Register, TypeOK
  <2>4. AnswersRecent'
    BY <1>0, <1>1, <2>3 DEF Register, loopVars, AnswersRecent
  <2>5. ReportsRecent'
    <3>. SUFFICES ASSUME NEW v \in endpoints', registry'[v] = "healthy"
                  PROVE  silent'[v] <= Allowance(v)'
      BY DEF ReportsRecent
    <3>1. Allowance(v)' = Allowance(v)
      BY <1>1 DEF Register, loopVars, Allowance
    <3>2. CASE v = w
      BY <1>0, <2>3, <3>1, <3>2, Times DEF Allowance
    <3>3. CASE v # w
      <4>1. v \in endpoints /\ v \in Workers /\ registry[v] = "healthy"
        BY <1>0, <1>1, <3>3 DEF Register, TypeOK
      <4>. QED
        BY <1>0, <2>3, <3>1, <3>3, <4>1 DEF ReportsRecent
    <3>. QED
      BY <3>2, <3>3
  <2>. QED
    BY <2>1, <2>2, <2>4, <2>5 DEF IInv
<1>2. CASE Deregister(w)
  <2>1. TypeOK'
    BY <1>0, <1>2 DEF Deregister, loopVars, TypeOK, AllWorkerHealth, InFlight
  <2>2. DownIsEmpty' /\ AnswersRecent'
    BY <1>0, <1>2 DEF Deregister, loopVars, DownIsEmpty, AnswersRecent, TypeOK
  <2>3. ChecksRaced' /\ GhostsAreRaced'
    BY <1>0, <1>2 DEF Deregister, loopVars, ChecksRaced, GhostsAreRaced, AllWorkerHealth,
                      InFlight, TypeOK
  <2>4. ReportsRecent'
    BY <1>0, <1>2 DEF Deregister, loopVars, ReportsRecent, Allowance, TypeOK
  <2>. QED
    BY <2>1, <2>2, <2>3, <2>4 DEF IInv
<1>. QED
  BY <1>1, <1>2

(* The steps of a worker, and its answers.                                   *)
LEMMA WorkerInv ==
  \A w \in Workers : IInv /\ (WorkerStarts(w) \/ WorkerStops(w) \/ Answer(w)) => IInv'
<1>. SUFFICES ASSUME NEW w \in Workers, IInv, WorkerStarts(w) \/ WorkerStops(w) \/ Answer(w)
              PROVE  IInv'
  OBVIOUS
<1>0. /\ TypeOK /\ DownIsEmpty /\ AnswersRecent /\ ReportsRecent /\ ChecksRaced
      /\ GhostsAreRaced /\ timer \in Nat
  BY Times DEF IInv, TypeOK
<1>1. CASE WorkerStarts(w) \/ WorkerStops(w)
  <2>1. TypeOK'
    BY <1>0, <1>1, HealthBounds
    DEF WorkerStarts, WorkerStops, Fault, stateVars, loopVars, TypeOK, AllWorkerHealth, InFlight
  <2>. QED
    BY <1>0, <1>1, <2>1
    DEF WorkerStarts, WorkerStops, stateVars, loopVars, IInv, DownIsEmpty, AnswersRecent,
        ReportsRecent, Allowance, ChecksRaced, GhostsAreRaced, AllWorkerHealth, InFlight
<1>2. CASE Answer(w)
  <2>1. InFlight(w) /\ phase = "checking"
    BY <1>0, <1>2 DEF Answer, InFlight, TypeOK
  <2>2. TypeOK'
    BY <1>0, <1>2, <2>1, Times DEF Answer, stateVars, TypeOK, AllWorkerHealth, InFlight
  <2>3. DownIsEmpty' /\ ChecksRaced' /\ GhostsAreRaced'
    BY <1>0, <1>2, <2>1 DEF Answer, stateVars, DownIsEmpty, ChecksRaced, GhostsAreRaced,
                            AllWorkerHealth, InFlight, TypeOK
  <2>4. /\ check'[w] = "ok" => silent'[w] = 0
        /\ check'[w] \in {"ok", "bad"} /\ (check'[w] = "bad" => silent'[w] = silent[w])
        /\ \A v \in Workers \ {w} : silent'[v] = silent[v] /\ check'[v] = check[v]
    BY <1>0, <1>2 DEF Answer, TypeOK
  <2>5. AnswersRecent'
    BY <1>0, <1>2, <2>4 DEF Answer, AnswersRecent
  <2>6. ReportsRecent'
    <3>. SUFFICES ASSUME NEW v \in endpoints, registry[v] = "healthy", v \in Workers
                  PROVE  silent'[v] <= Allowance(v)'
      BY <1>0, <1>2 DEF ReportsRecent, Answer, stateVars, TypeOK
    <3>1. phase' = phase /\ timer' = timer /\ silent[v] <= Allowance(v)
      BY <1>0, <1>2 DEF Answer, ReportsRecent
    <3>2. check[w] = "sent"
      BY <1>2 DEF Answer
    <3>. QED
      BY <1>0, <2>1, <2>4, <3>1, <3>2, Times DEF Allowance
  <2>. QED
    BY <2>2, <2>3, <2>5, <2>6 DEF IInv
<1>. QED
  BY <1>1, <1>2

(* Results of checks, in whatever order they come.                           *)
LEMMA ResultInv == \A w \in Workers : IInv /\ (Record(w) \/ CheckFails(w)) => IInv'
<1>. SUFFICES ASSUME NEW w \in Workers, IInv, Record(w) \/ CheckFails(w) PROVE IInv'
  OBVIOUS
<1>0. /\ TypeOK /\ DownIsEmpty /\ AnswersRecent /\ ReportsRecent /\ ChecksRaced
      /\ GhostsAreRaced /\ timer \in Nat
  BY Times DEF IInv, TypeOK
<1>1. /\ InFlight(w) /\ phase = "checking" /\ plane = "up"
  BY <1>0 DEF Record, CheckFails, InFlight, TypeOK, DownIsEmpty
<1>2. /\ UNCHANGED <<plane, worker, endpoints, phase, timer, silent, raced>>
      /\ check' = [check EXCEPT ![w] = "none"]
      /\ faults' \in 0..MaxFaults
  BY <1>0, HealthBounds DEF Record, CheckFails, Fault, TypeOK
<1>3. \/ registry' = [registry EXCEPT ![w] = "unhealthy"]
      \/ registry' = [registry EXCEPT ![w] = "healthy"] /\ check[w] = "ok"
  BY DEF Record, CheckFails
<1>4. TypeOK'
  BY <1>0, <1>1, <1>2, <1>3 DEF TypeOK, AllWorkerHealth, InFlight
<1>5. DownIsEmpty' /\ AnswersRecent' /\ ChecksRaced'
  BY <1>0, <1>1, <1>2 DEF DownIsEmpty, AnswersRecent, ChecksRaced, InFlight, TypeOK
<1>6. GhostsAreRaced'
  BY <1>0, <1>1, <1>2, <1>3 DEF GhostsAreRaced, ChecksRaced, AllWorkerHealth, InFlight, TypeOK
<1>7. ReportsRecent'
  <2>. SUFFICES ASSUME NEW v \in endpoints, v \in Workers, registry'[v] = "healthy"
                PROVE  silent[v] <= Allowance(v)'
    BY <1>0, <1>2 DEF ReportsRecent, TypeOK
  <2>1. CASE v = w
    BY <1>0, <1>1, <1>2, <1>3, <2>1 DEF AnswersRecent, Allowance, TypeOK
  <2>2. CASE v # w
    BY <1>0, <1>2, <1>3, <2>2 DEF ReportsRecent, Allowance, TypeOK
  <2>. QED
    BY <2>1, <2>2
<1>. QED
  BY <1>4, <1>5, <1>6, <1>7 DEF IInv

(* The rounds of the loop.                                                   *)
LEMMA RoundInv == IInv /\ (BeginRound \/ EndRound) => IInv'
<1>. SUFFICES ASSUME IInv, BeginRound \/ EndRound PROVE IInv'
  OBVIOUS
<1>0. /\ TypeOK /\ DownIsEmpty /\ AnswersRecent /\ ReportsRecent /\ ChecksRaced
      /\ GhostsAreRaced
  BY DEF IInv
<1>1. CASE BeginRound
  <2>1. TypeOK'
    BY <1>0, <1>1, Times DEF BeginRound, stateVars, TypeOK, AllWorkerHealth, InFlight
  <2>2. DownIsEmpty' /\ AnswersRecent' /\ ChecksRaced' /\ GhostsAreRaced'
    BY <1>0, <1>1 DEF BeginRound, stateVars, DownIsEmpty, AnswersRecent, ChecksRaced,
                      GhostsAreRaced, AllWorkerHealth, InFlight
  <2>3. ReportsRecent'
    BY <1>0, <1>1, Times DEF BeginRound, stateVars, ReportsRecent, Allowance, TypeOK
  <2>. QED
    BY <2>1, <2>2, <2>3 DEF IInv
<1>2. CASE EndRound
  <2>1. TypeOK'
    BY <1>0, <1>2, Times DEF EndRound, stateVars, TypeOK, AllWorkerHealth, InFlight
  <2>2. DownIsEmpty' /\ AnswersRecent' /\ ChecksRaced' /\ GhostsAreRaced'
    BY <1>0, <1>2 DEF EndRound, stateVars, DownIsEmpty, AnswersRecent, ChecksRaced,
                      GhostsAreRaced, AllWorkerHealth, InFlight
  <2>3. ReportsRecent'
    <3>. SUFFICES ASSUME NEW w \in endpoints, w \in Workers, registry[w] = "healthy"
                  PROVE  silent[w] <= CheckTime
      BY <1>0, <1>2, Times DEF EndRound, stateVars, ReportsRecent, Allowance, TypeOK
    <3>1. silent[w] <= timer /\ timer \in 0..CheckTime /\ silent[w] \in 0..Bound + 1
      BY <1>0, <1>2 DEF EndRound, InFlight, ReportsRecent, Allowance, TypeOK
    <3>. QED
      BY <3>1, Times
  <2>. QED
    BY <2>1, <2>2, <2>3 DEF IInv
<1>. QED
  BY <1>1, <1>2

(* Time: a silent worker's allowance grows with the timer.                   *)
LEMMA TickInv == IInv /\ Tick => IInv'
<1>. SUFFICES ASSUME IInv, Tick PROVE IInv'
  OBVIOUS
<1>0. /\ TypeOK /\ DownIsEmpty /\ AnswersRecent /\ ReportsRecent /\ ChecksRaced
      /\ GhostsAreRaced /\ timer \in Nat
  BY Times DEF IInv, TypeOK
<1>1. /\ UNCHANGED <<plane, worker, endpoints, registry, phase, check, raced, faults>>
      /\ plane = "up" => timer' = timer + 1
      /\ timer' \in 0..(IF phase = "sleeping" THEN Interval ELSE CheckTime)
  BY <1>0, Times DEF Tick, stateVars, TypeOK
<1>2. \A w \in Workers : silent'[w] \in 0..Bound + 1 /\ silent[w] \in Nat /\ silent'[w] <= silent[w] + 1
  BY <1>0, Times DEF Tick, TypeOK
<1>3. TypeOK'
  <2>1. silent' \in [Workers -> 0..Bound + 1]
    BY <1>2 DEF Tick
  <2>. QED
    BY <1>0, <1>1, <2>1 DEF TypeOK, AllWorkerHealth, InFlight
<1>4. DownIsEmpty' /\ ChecksRaced' /\ GhostsAreRaced'
  BY <1>0, <1>1 DEF DownIsEmpty, ChecksRaced, GhostsAreRaced, AllWorkerHealth, InFlight
<1>5. AnswersRecent'
  <2>. SUFFICES ASSUME NEW w \in Workers, check[w] = "ok" PROVE silent'[w] <= timer'
    BY <1>1 DEF AnswersRecent
  <2>1. plane = "up"
    BY <1>0 DEF TypeOK, DownIsEmpty, InFlight
  <2>. QED
    BY <1>0, <1>1, <1>2, <2>1 DEF AnswersRecent
<1>6. ReportsRecent'
  <2>. SUFFICES ASSUME NEW w \in endpoints, w \in Workers, registry[w] = "healthy"
                PROVE  silent'[w] <= Allowance(w)'
    BY <1>0, <1>1 DEF ReportsRecent, TypeOK
  <2>1. plane = "up"
    BY <1>0 DEF TypeOK, DownIsEmpty
  <2>2. silent[w] <= Allowance(w)
    BY <1>0 DEF ReportsRecent
  <2>. QED
    BY <1>0, <1>1, <1>2, <2>1, <2>2, Times DEF Allowance
<1>. QED
  BY <1>3, <1>4, <1>5, <1>6 DEF IInv

(* Every step keeps the invariant.                                           *)
LEMMA StepInv == IInv /\ [Next]_vars => IInv'
<1>. SUFFICES ASSUME IInv, [Next]_vars PROVE IInv'
  OBVIOUS
<1>1. CASE UNCHANGED vars
  BY <1>1 DEF vars, stateVars, loopVars, IInv, TypeOK, DownIsEmpty, AnswersRecent,
              ReportsRecent, Allowance, ChecksRaced, GhostsAreRaced, AllWorkerHealth, InFlight
<1>2. CASE LoopStep
  BY <1>2, RoundInv, ResultInv DEF LoopStep
<1>. QED
  BY <1>1, <1>2, PlaneInv, TickInv, RegistryInv, WorkerInv, ResultInv DEF Next

(* The inductive invariant of the monitor.                                   *)
THEOREM Invariance == Spec => []IInv
  BY InitInv, StepInv, PTL DEF Spec

(* The variables keep their types; every registered worker has an entry.     *)
THEOREM TypeCorrect == Spec => []TypeOK
<1>1. IInv => TypeOK
  BY DEF IInv
<1>. QED
  BY <1>1, Invariance, PTL

(* A worker reported healthy answered, or was registered, at most a sleep    *)
(* and two checks ago.                                                      *)
THEOREM ReportsAreRecent == Spec => []HealthyIsRecent
<1>1. IInv => HealthyIsRecent
  <2>. SUFFICES ASSUME IInv, NEW w \in endpoints, w \in HealthyWorkers PROVE silent[w] <= Bound
    BY DEF HealthyIsRecent
  <2>1. silent[w] <= Allowance(w) /\ silent[w] \in Nat
    BY Times DEF IInv, ReportsRecent, HealthyWorkers, TypeOK
  <2>2. Allowance(w) \in Nat /\ Allowance(w) <= Bound
    BY Times DEF Allowance, IInv, TypeOK
  <2>. QED
    BY <2>1, <2>2, Times
<1>. QED
  BY <1>1, Invariance, PTL

(* An entry of a worker that is not registered is left by a check that was   *)
(* in flight when it was deregistered.                                      *)
THEOREM OnlyRacesLeaveGhosts == Spec => []GhostsAreRaced
<1>1. IInv => GhostsAreRaced
  BY DEF IInv
<1>. QED
  BY <1>1, Invariance, PTL
=============================================================================
