----------------------------- MODULE RateLimiter -----------------------------
(***************************************************************************)
(* The rate limit of one tenant (api_gateway/rate_limiter.py, called by     *)
(* chat() of api_gateway/main.py): a counter in Redis for every window of   *)
(* time, and a test of the current counter plus a share of the previous     *)
(* one.  A call reads the clock before it awaits the transaction, so its    *)
(* INCR may reach Redis any time later.                                     *)
(*                                                                         *)
(* Time is a count of ticks, W of them to a window; the code's fractions of *)
(* a window are multiplied out.                                             *)
(***************************************************************************)
EXTENDS Integers, FiniteSets

CONSTANTS
  Clients,    \* callers of /v1/chat with the key of the tenant
  Limit,      \* rate_limit_rps of the tenant
  W,          \* WINDOW_SECONDS, in ticks
  MaxTime,    \* bound on the clock
  MaxExtra    \* bound on failed calls, retries before Retry-After and new calls

ASSUME ClientsAssumption == IsFiniteSet(Clients)
ASSUME LimitAssumption == Limit \in Nat \ {0} /\ W \in Nat \ {0}
ASSUME LimitBounds == MaxTime \in Nat /\ MaxExtra \in Nat

VARIABLES
  now,      \* the clock
  count,    \* count[w]: the counter of window w, unless its key has expired
  expires,  \* expires[w]: when the key of window w expires
  pc,       \* pc[c]: "idle", "asked" (in check_rate_limit) or "over" (not refused)
  stamp,    \* stamp[c]: the time c's call read, while it is asked
  retryAt,  \* retryAt[c]: the time Retry-After named
  refusals, \* history: refusals[c] of c in a row
  calls,    \* history: calls[w] that read the clock in window w
  grants,   \* history: how many of those were admitted
  lag,      \* history: windows between a clock reading and its INCR (2: or more)
  extra     \* failed calls, early retries and new calls (bounded by MaxExtra)

keyVars == <<count, expires>>
clientVars == <<pc, stamp, retryAt, refusals>>
vars == <<now, keyVars, clientVars, calls, grants, lag, extra>>

Window(t) == t \div W
Elapsed(t) == t % W
Windows == 0..Window(MaxTime)

Extra == extra < MaxExtra /\ extra' = extra + 1

(* GET: a key that does not exist, or no longer does, counts for nothing.    *)
Value(w) == IF w \in Windows /\ now < expires[w] THEN count[w] ELSE 0

Init ==
  /\ now = 0
  /\ count = [w \in Windows |-> 0] /\ expires = [w \in Windows |-> 0]
  /\ pc = [c \in Clients |-> "idle"]
  /\ stamp = [c \in Clients |-> 0] /\ retryAt = [c \in Clients |-> 0]
  /\ refusals = [c \in Clients |-> 0]
  /\ calls = [w \in Windows |-> 0] /\ grants = [w \in Windows |-> 0]
  /\ lag = 0 /\ extra = 0

(* chat() calls check_rate_limit, which reads the clock.  A client may not   *)
(* have waited as long as it was told to, or have been served before.       *)
Call(c) ==
  /\ pc[c] # "asked"
  /\ \/ pc[c] = "idle" /\ retryAt[c] <= now /\ UNCHANGED extra
     \/ (pc[c] = "over" \/ now < retryAt[c]) /\ Extra
  /\ pc' = [pc EXCEPT ![c] = "asked"]
  /\ stamp' = [stamp EXCEPT ![c] = now]
  /\ retryAt' = [retryAt EXCEPT ![c] = 0]
  /\ calls' = [calls EXCEPT ![Window(now)] = @ + 1]
  /\ UNCHANGED <<now, keyVars, refusals, grants, lag>>

(* Mutant: the key of a window expires with the window's length.             *)
MutIncr(w) ==
  /\ count' = [count EXCEPT ![w] = Value(w) + 1]
  /\ expires' = [expires EXCEPT ![w] = now + W]

(* INCR and EXPIRE.                                                          *)
Incr(w) ==
  /\ count' = [count EXCEPT ![w] = Value(w) + 1]
  /\ expires' = [expires EXCEPT ![w] = now + 2 * W]

(* The transaction for a call that read the clock at t.                      *)
Execute(t) ==
  /\ Incr(Window(t))
  /\ lag' = LET d == Window(now) - Window(t) IN
            IF d <= lag THEN lag ELSE IF d < 2 THEN d ELSE 2

(* Mutant: the previous window has no weight.                                *)
MutOver(t) == Value(Window(t)) + 1 > Limit

(* Mutant: a call that reaches the limit is refused.                         *)
MutOverEqual(t) ==
  Value(Window(t) - 1) * (W - Elapsed(t)) + (Value(Window(t)) + 1) * W >= Limit * W

(* rate > limit, for the counters the transaction returns.                   *)
Over(t) == Value(Window(t) - 1) * (W - Elapsed(t)) + (Value(Window(t)) + 1) * W > Limit * W

Admit(c) ==
  /\ pc[c] = "asked"
  /\ ~Over(stamp[c])
  /\ Execute(stamp[c])
  /\ pc' = [pc EXCEPT ![c] = "over"]
  /\ stamp' = [stamp EXCEPT ![c] = 0]
  /\ refusals' = [refusals EXCEPT ![c] = 0]
  /\ grants' = [grants EXCEPT ![Window(stamp[c])] = @ + 1]
  /\ UNCHANGED <<now, retryAt, calls, extra>>

(* Mutant: Retry-After is rounded down.                                      *)
MutRetryAfter(t) == ((W - Elapsed(t)) \div W) * W

(* Whole seconds: the rest of the window, rounded down, and one more.        *)
RetryAfter(t) == ((W - Elapsed(t)) \div W + 1) * W

(* 429: the call has been counted all the same.                              *)
Refuse(c) ==
  /\ pc[c] = "asked"
  /\ Over(stamp[c])
  /\ Execute(stamp[c])
  /\ pc' = [pc EXCEPT ![c] = "idle"]
  /\ stamp' = [stamp EXCEPT ![c] = 0]
  /\ retryAt' = [retryAt EXCEPT ![c] = now + RetryAfter(stamp[c])]
  /\ refusals' = [refusals EXCEPT ![c] = @ + 1]
  /\ UNCHANGED <<now, calls, grants, extra>>

(* Mutant: a failed transaction is sent again.                               *)
MutFail(c) ==
  /\ pc[c] = "asked"
  /\ Extra
  /\ Execute(stamp[c]) \/ UNCHANGED <<keyVars, lag>>
  /\ UNCHANGED <<now, clientVars, calls, grants>>

(* pipe.execute raises, the transaction applied or not: a 500.               *)
Fail(c) ==
  /\ pc[c] = "asked"
  /\ Extra
  /\ Execute(stamp[c]) \/ UNCHANGED <<keyVars, lag>>
  /\ pc' = [pc EXCEPT ![c] = "over"]
  /\ stamp' = [stamp EXCEPT ![c] = 0]
  /\ UNCHANGED <<now, retryAt, refusals, calls, grants>>

Tick ==
  /\ now < MaxTime
  /\ now' = now + 1
  /\ UNCHANGED <<keyVars, clientVars, calls, grants, lag, extra>>

Next == (\E c \in Clients : Call(c) \/ Admit(c) \/ Refuse(c) \/ Fail(c)) \/ Tick

Spec == Init /\ [][Next]_vars

-----------------------------------------------------------------------------
(* Types, and no counter counts more calls than were made.                   *)
TypeOK ==
  /\ now \in 0..MaxTime
  /\ count \in [Windows -> Nat] /\ expires \in [Windows -> Nat]
  /\ pc \in [Clients -> {"idle", "asked", "over"}]
  /\ stamp \in [Clients -> 0..MaxTime] /\ \A c \in Clients : stamp[c] <= now
  /\ retryAt \in [Clients -> Nat] /\ refusals \in [Clients -> Nat]
  /\ calls \in [Windows -> Nat] /\ grants \in [Windows -> Nat]
  /\ \A w \in Windows : count[w] <= calls[w]
  /\ lag \in 0..2 /\ extra \in 0..MaxExtra

(* However calls interleave, a window admits at most Limit of the calls that *)
(* read the clock in it, as long as no INCR came two windows late: by then   *)
(* EXPIRE may have removed the counter, and counting starts again.           *)
WindowBound == lag < 2 => \A w \in Windows : grants[w] <= Limit

(* Any stretch of time as long as a window lies in two of them.  They admit  *)
(* less than twice the limit together, unless an INCR came after the end of  *)
(* its window: the weighted previous counter is what makes the windows slide.*)
SlidingBound ==
  lag = 0 => \A w \in Windows \ {0} : grants[w - 1] + grants[w] < 2 * Limit

(* A call is refused only if the tenant made more than Limit calls in its    *)
(* window and the previous one, late, failed and refused calls included.     *)
RefusedOnlyBusy ==
  [][\A c \in Clients : refusals'[c] > refusals[c] =>
       LET w == Window(stamp[c]) IN
       calls[w] + (IF w = 0 THEN 0 ELSE calls[w - 1]) > Limit]_vars

(* Although a refused call is counted against the next one, clients that     *)
(* wait as long as Retry-After says get in, provided there are fewer of them *)
(* than twice the limit and those served stay away: a window may be lost to  *)
(* the first rush, and from then on every window lets somebody in.           *)
RetriesSuffice ==
  extra = 0 /\ lag = 0 /\ Cardinality(Clients) \in Limit..2 * Limit - 1 =>
    \A c \in Clients : refusals[c] <= Cardinality(Clients) - Limit + 1
=============================================================================
