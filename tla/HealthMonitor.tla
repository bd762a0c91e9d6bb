---------------------------- MODULE HealthMonitor ----------------------------
(***************************************************************************)
(* The Control Plane's view of the workers                                  *)
(* (control_plane/health_monitor.py): a background task that polls /health  *)
(* of every registered worker, all of them at once, and sleeps between the  *)
(* rounds.  Registry and endpoints live in the process; registering and     *)
(* deregistering are calls any of its coroutines may make while checks are  *)
(* in flight.                                                               *)
(*                                                                         *)
(* A worker answers as long as its process lives (worker/main.py), whether  *)
(* or not its inference loop does: JobQueue's "dead" is "up" here.          *)
(***************************************************************************)
EXTENDS Integers

CONSTANTS
  Workers,    \* worker ids, each at a URL of its own
  Default,    \* worker-1, which the loop registers
  Interval,   \* HEALTH_CHECK_INTERVAL_SECONDS, in ticks
  CheckTime,  \* bound on the time a check takes (its httpx timeouts)
  MaxFaults   \* bound on crashes and failed connections

ASSUME DefaultAssumption == Default \in Workers
ASSUME PeriodAssumption == Interval \in Nat \ {0} /\ CheckTime \in Nat \ {0}
ASSUME HealthBounds == MaxFaults \in Nat

VARIABLES
  plane,      \* the Control Plane: "down" or "up"
  worker,     \* worker[w]: the process of w, "down" or "up"
  endpoints,  \* _worker_endpoints: the registered workers
  registry,   \* registry[w]: "healthy", "unhealthy", or "absent" (no entry)
  phase,      \* the loop: "sleeping" or "checking" (awaiting gather)
  timer,      \* time since the phase began
  check,      \* check[w]: request of _check_worker: "none", "sent", or its answer
  silent,     \* history: time since w answered 200 to a check, or was registered
  raced,      \* history: workers deregistered with a check in flight
  faults      \* faults so far (bounded by MaxFaults)

stateVars == <<endpoints, registry>>
loopVars == <<phase, timer, check>>
vars == <<plane, worker, stateVars, loopVars, silent, raced, faults>>

Fault == faults < MaxFaults /\ faults' = faults + 1

(* A worker silent for longer may not be called healthy.                     *)
Bound == Interval + 2 * CheckTime

InFlight(w) == check[w] # "none"

(* The entries /workers/health lists, and the ones it counts.                *)
AllWorkerHealth == {w \in Workers : registry[w] # "absent"}
HealthyWorkers == {w \in Workers : registry[w] = "healthy"}

Init ==
  /\ plane = "down"
  /\ worker = [w \in Workers |-> "down"]
  /\ endpoints = {} /\ registry = [w \in Workers |-> "absent"]
  /\ phase = "sleeping" /\ timer = 0 /\ check = [w \in Workers |-> "none"]
  /\ silent = [w \in Workers |-> 0] /\ raced = {} /\ faults = 0

(* lifespan starts the loop, which registers worker-1 unseen and goes into   *)
(* its first round.                                                         *)
PlaneStart ==
  /\ plane = "down"
  /\ plane' = "up"
  /\ endpoints' = {Default}
  /\ registry' = [registry EXCEPT ![Default] = "healthy"]
  /\ timer' = Interval
  /\ silent' = [silent EXCEPT ![Default] = 0]
  /\ UNCHANGED <<worker, phase, check, raced, faults>>

(* The process ends, or lifespan cancels the loop: all of it is forgotten.   *)
PlaneCrash ==
  /\ plane = "up"
  /\ Fault
  /\ plane' = "down"
  /\ endpoints' = {} /\ registry' = [w \in Workers |-> "absent"]
  /\ phase' = "sleeping" /\ timer' = 0 /\ check' = [w \in Workers |-> "none"]
  /\ raced' = {}
  /\ UNCHANGED <<worker, silent>>

(* Mutant: the entry waits for the first check.                              *)
MutRegister(w) ==
  /\ plane = "up"
  /\ endpoints' = endpoints \cup {w}
  /\ silent' = [silent EXCEPT ![w] = 0]
  /\ UNCHANGED <<plane, worker, registry, loopVars, raced, faults>>

Register(w) ==
  /\ plane = "up"
  /\ endpoints' = endpoints \cup {w}
  /\ registry' = [registry EXCEPT ![w] = "healthy"]
  /\ silent' = [silent EXCEPT ![w] = 0]
  /\ UNCHANGED <<plane, worker, loopVars, raced, faults>>

(* Mutant: only the endpoint is removed.                                     *)
MutDeregister(w) ==
  /\ plane = "up"
  /\ endpoints' = endpoints \ {w}
  /\ raced' = IF InFlight(w) THEN raced \cup {w} ELSE raced
  /\ UNCHANGED <<plane, worker, registry, loopVars, silent, faults>>

(* A check in flight is not called off.                                      *)
Deregister(w) ==
  /\ plane = "up"
  /\ endpoints' = endpoints \ {w}
  /\ registry' = [registry EXCEPT ![w] = "absent"]
  /\ raced' = IF InFlight(w) THEN raced \cup {w} ELSE raced
  /\ UNCHANGED <<plane, worker, loopVars, silent, faults>>

WorkerStarts(w) ==
  /\ worker[w] = "down"
  /\ worker' = [worker EXCEPT ![w] = "up"]
  /\ UNCHANGED <<plane, stateVars, loopVars, silent, raced, faults>>

WorkerStops(w) ==
  /\ worker[w] = "up"
  /\ Fault
  /\ worker' = [worker EXCEPT ![w] = "down"]
  /\ UNCHANGED <<plane, stateVars, loopVars, silent, raced>>

(* A round checks the workers registered when it begins.                     *)
BeginRound ==
  /\ plane = "up" /\ phase = "sleeping" /\ timer = Interval
  /\ phase' = "checking" /\ timer' = 0
  /\ check' = [w \in Workers |-> IF w \in endpoints THEN "sent" ELSE "none"]
  /\ UNCHANGED <<plane, worker, stateVars, silent, raced, faults>>

(* GET /health of the worker: 200, or another status from whatever is        *)
(* listening at its URL.                                                    *)
Answer(w) ==
  /\ check[w] = "sent" /\ worker[w] = "up"
  /\ \/ check' = [check EXCEPT ![w] = "ok"] /\ silent' = [silent EXCEPT ![w] = 0]
     \/ check' = [check EXCEPT ![w] = "bad"] /\ UNCHANGED silent
  /\ UNCHANGED <<plane, worker, stateVars, phase, timer, raced, faults>>

(* Mutant: any answer will do.                                               *)
MutRecord(w) ==
  /\ check[w] \in {"ok", "bad"}
  /\ registry' = [registry EXCEPT ![w] = "healthy"]
  /\ check' = [check EXCEPT ![w] = "none"]
  /\ UNCHANGED <<plane, worker, endpoints, phase, timer, silent, raced, faults>>

(* The answer arrives and is recorded, the worker still registered or not.   *)
Record(w) ==
  /\ check[w] \in {"ok", "bad"}
  /\ registry' = [registry EXCEPT ![w] = IF check[w] = "ok" THEN "healthy" ELSE "unhealthy"]
  /\ check' = [check EXCEPT ![w] = "none"]
  /\ UNCHANGED <<plane, worker, endpoints, phase, timer, silent, raced, faults>>

(* Mutant: the exception is left to gather, which keeps it to itself.        *)
MutCheckFails(w) ==
  /\ InFlight(w)
  /\ (worker[w] = "down" \/ timer = CheckTime) /\ UNCHANGED faults
  /\ check' = [check EXCEPT ![w] = "none"]
  /\ UNCHANGED <<plane, worker, stateVars, phase, timer, silent, raced>>

(* RequestError: nobody listens, the time is up, or the connection fails.    *)
CheckFails(w) ==
  /\ InFlight(w)
  /\ ((worker[w] = "down" \/ timer = CheckTime) /\ UNCHANGED faults) \/ Fault
  /\ registry' = [registry EXCEPT ![w] = "unhealthy"]
  /\ check' = [check EXCEPT ![w] = "none"]
  /\ UNCHANGED <<plane, worker, endpoints, phase, timer, silent, raced>>

(* gather returns when every check has: then the loop sleeps.                *)
EndRound ==
  /\ phase = "checking" /\ \A w \in Workers : ~InFlight(w)
  /\ phase' = "sleeping" /\ timer' = 0
  /\ UNCHANGED <<plane, worker, stateVars, check, silent, raced, faults>>

(* Time passes; a sleep or a check that is over is over.                     *)
Tick ==
  /\ plane = "up" => timer < IF phase = "sleeping" THEN Interval ELSE CheckTime
  /\ timer' = IF plane = "up" THEN timer + 1 ELSE timer
  /\ silent' = [w \in Workers |-> IF silent[w] <= Bound THEN silent[w] + 1 ELSE silent[w]]
  /\ UNCHANGED <<plane, worker, stateVars, phase, check, raced, faults>>

(* What the loop does by itself.                                             *)
LoopStep ==
  \/ BeginRound \/ EndRound
  \/ \E w \in Workers :
       Record(w) \/ (CheckFails(w) /\ (worker[w] = "down" \/ timer = CheckTime))

Next ==
  \/ PlaneStart \/ PlaneCrash \/ LoopStep \/ Tick
  \/ \E w \in Workers :
       \/ Register(w) \/ Deregister(w) \/ WorkerStarts(w) \/ WorkerStops(w)
       \/ Answer(w) \/ CheckFails(w)

Spec == Init /\ [][Next]_vars

(* The event loop runs its tasks and its clock.                              *)
FairSpec == Spec /\ WF_vars(LoopStep) /\ WF_vars(Tick)

-----------------------------------------------------------------------------
(* Types; every endpoint has an entry, and only a round has checks in flight.*)
TypeOK ==
  /\ plane \in {"down", "up"} /\ worker \in [Workers -> {"down", "up"}]
  /\ endpoints \subseteq Workers
  /\ registry \in [Workers -> {"absent", "healthy", "unhealthy"}]
  /\ phase \in {"sleeping", "checking"}
  /\ timer \in 0..(IF phase = "sleeping" THEN Interval ELSE CheckTime)
  /\ check \in [Workers -> {"none", "sent", "ok", "bad"}]
  /\ silent \in [Workers -> 0..Bound + 1]
  /\ raced \subseteq Workers /\ faults \in 0..MaxFaults
  /\ endpoints \subseteq AllWorkerHealth
  /\ phase = "sleeping" => \A w \in Workers : ~InFlight(w)

(* A registered worker reported healthy answered a check, or was registered, *)
(* at most a sleep and two checks ago, although one slow worker holds up the *)
(* round for all and answers are recorded in any order (health_monitor_loop).*)
HealthyIsRecent ==
  \A w \in endpoints : w \in HealthyWorkers => silent[w] <= Bound

(* The registry lists a worker that is not registered only if it was         *)
(* deregistered with a check in flight, which then wrote its result          *)
(* (_check_worker against deregister_worker): nothing else leaves a ghost.    *)
GhostsAreRaced == AllWorkerHealth \ endpoints \subseteq raced

(* A registered worker that is down for good, and not registered anew, is    *)
(* eventually reported unhealthy for good, whatever was in flight when it    *)
(* went down and whoever else is slow.                                      *)
DownIsReported ==
  \A w \in Workers :
    /\ <>[](plane = "up" /\ w \in endpoints /\ worker[w] = "down")
    /\ <>[][~Register(w)]_vars
    => <>[](registry[w] = "unhealthy")
=============================================================================
