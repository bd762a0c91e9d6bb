----------------------------- MODULE PromptCache -----------------------------
(***************************************************************************)
(* The system prompts of the Inference Gateway                             *)
(* (inference_gateway/tenant_context.py): a cache by tenant with a time to  *)
(* live, filled by fetches from the Control Plane.  Requests are coroutines *)
(* of one gateway process; a fetch is split where the code awaits it.       *)
(* invalidate_tenant_cache has no caller, so it has no action.              *)
(*                                                                         *)
(* A configuration is its system prompt.  Time is kept as ages: of cache    *)
(* entries, of fetches, and (history) of the rows' previous prompts.        *)
(*                                                                         *)
(* What becomes of a request's messages is a function of them and of the    *)
(* prompt: Inject, and BuildPrompt on the worker (shared/schemas.py).  A    *)
(* content is a list of lines; a line may begin with the tag of a role,     *)
(* like the lines BuildPrompt writes, and then says something.              *)
(***************************************************************************)
EXTENDS TenantStore, SequencesExt

CONSTANTS
  Requests,    \* calls of /v1/infer
  NoPrompt,    \* the empty prompt: the request is left as it is
  Sayings,     \* what a line says, after any tags
  Nothing,     \* of these, the empty one
  Conversations,  \* the lists of messages clients send
  TTL,         \* CACHE_TTL_SECONDS
  FetchTime    \* bound on the time a fetch takes (its httpx timeouts)

ASSUME PromptAssumption == NoPrompt \in Configs /\ None \notin Tenants

Roles == {"system", "user", "assistant"}
Lines == [tags : Seq(Roles), says : Sayings]
Contents == Seq(Lines) \ {<<>>}
Messages == [role : Roles, content : Contents]

ASSUME MessagesAssumption ==
  Nothing \in Sayings /\ Configs \subseteq Contents /\ Conversations \subseteq Seq(Messages)
ASSUME TimesAssumption == TTL \in Nat \ {0} /\ FetchTime \in Nat

VARIABLES
  cache,     \* cache[t]: the cached entry [prompt, age] of t, or None
  pc,        \* pc[r]: where inject_tenant_context is with r
  tenant,    \* tenant[r]: the tenant of r
  captured,  \* captured[r]: the entry r found before it fetched
  answer,    \* answer[r]: the row the Control Plane answered, or None (404)
  elapsed,   \* elapsed[r]: time since r began to fetch
  prompt,    \* prompt[r]: what r was given
  gone       \* history: gone[t][p] is the time since p was last t's prompt

gatewayVars == <<cache, pc, tenant, captured, answer, elapsed, prompt>>
vars == <<storeVars, faults, gatewayVars, gone>>

(* A prompt replaced this long ago may not be served as fresh.              *)
Horizon == TTL + FetchTime

(* An age past TTL is like any other.                                       *)
Entries == [prompt : Configs, age : 0..TTL]

(* The prompt a tenant has now; one without a row has none.                 *)
PromptOf(row) == IF row = None THEN NoPrompt ELSE row.config

System(p) == [role |-> "system", content |-> p]

HasSystem(ms) == \E i \in DOMAIN ms : ms[i].role = "system"

(* Mutant: the prompt goes in front, whatever the client sent.               *)
MutInject(ms, p) == IF p = NoPrompt THEN ms ELSE <<System(p)>> \o ms

(* inject_tenant_context: a client's own system messages are replaced.       *)
Inject(ms, p) ==
  IF p = NoPrompt THEN ms
  ELSE IF HasSystem(ms)
  THEN [i \in 1..Len(ms) |-> IF ms[i].role = "system" THEN System(p) ELSE ms[i]]
  ELSE <<System(p)>> \o ms

(* The lines of one message: the tag of its role is put before the first.    *)
Turn(m) == [m.content EXCEPT ![1].tags = <<m.role>> \o @]

(* The line the engine is to go on with.                                     *)
Cue == [tags |-> <<"assistant">>, says |-> Nothing]

(* The prompt of the engine: all lines in a row, contents put in as they are.*)
BuildPrompt(ms) == FlattenSeq(Append([i \in 1..Len(ms) |-> Turn(ms[i])], <<Cue>>))

Fetching(r) == pc[r] \in {"fetching", "fetched"}

(* The call returns, and its locals with it.                                *)
Return(r) ==
  /\ captured' = [captured EXCEPT ![r] = None]
  /\ answer' = [answer EXCEPT ![r] = None]
  /\ elapsed' = [elapsed EXCEPT ![r] = 0]

Init ==
  /\ StoreInit
  /\ faults = 0
  /\ cache = [t \in Tenants |-> None]
  /\ pc = [r \in Requests |-> "new"]
  /\ tenant = [r \in Requests |-> None]
  /\ captured = [r \in Requests |-> None]
  /\ answer = [r \in Requests |-> None]
  /\ elapsed = [r \in Requests |-> 0]
  /\ prompt = [r \in Requests |-> NoPrompt]
  /\ gone = [t \in Tenants |-> [p \in Configs |-> IF p = NoPrompt THEN 0 ELSE Horizon]]

(* The Control Plane's own steps.                                           *)
StoreStep ==
  /\ StoreNext
  /\ gone' = [t \in Tenants |-> [gone[t] EXCEPT ![PromptOf(table'[t])] = 0]]
  /\ UNCHANGED gatewayVars

(* Mutant: an entry never expires.                                           *)
MutFresh(e) == e # None

(* The test of _get_system_prompt against CACHE_TTL_SECONDS.                 *)
Fresh(e) == e # None /\ e.age < TTL

(* A fresh entry is used without a fetch.                                    *)
ServeCached(r, t) ==
  /\ pc[r] = "new"
  /\ Fresh(cache[t])
  /\ pc' = [pc EXCEPT ![r] = "served"]
  /\ tenant' = [tenant EXCEPT ![r] = t]
  /\ prompt' = [prompt EXCEPT ![r] = cache[t].prompt]
  /\ UNCHANGED <<storeVars, faults, cache, captured, answer, elapsed, gone>>

BeginFetch(r, t) ==
  /\ pc[r] = "new"
  /\ ~Fresh(cache[t])
  /\ pc' = [pc EXCEPT ![r] = "fetching"]
  /\ tenant' = [tenant EXCEPT ![r] = t]
  /\ captured' = [captured EXCEPT ![r] = cache[t]]
  /\ elapsed' = [elapsed EXCEPT ![r] = 0]
  /\ UNCHANGED <<storeVars, faults, cache, answer, prompt, gone>>

(* GET /tenants/{tenant_id}: the Control Plane reads the row.                *)
Read(r) ==
  /\ pc[r] = "fetching"
  /\ plane = "up"
  /\ pc' = [pc EXCEPT ![r] = "fetched"]
  /\ answer' = [answer EXCEPT ![r] = table[tenant[r]]]
  /\ UNCHANGED <<storeVars, faults, cache, tenant, captured, elapsed, prompt, gone>>

(* The reply arrives: 200 is cached with the time of its arrival, whatever   *)
(* was cached meanwhile; 404 leaves the cache alone.                         *)
ServeFetched(r) ==
  /\ pc[r] = "fetched"
  /\ pc' = [pc EXCEPT ![r] = "served"]
  /\ prompt' = [prompt EXCEPT ![r] = PromptOf(answer[r])]
  /\ cache' = IF answer[r] = None THEN cache
              ELSE [cache EXCEPT ![tenant[r]] = [prompt |-> answer[r].config, age |-> 0]]
  /\ Return(r)
  /\ UNCHANGED <<storeVars, faults, tenant, gone>>

(* RequestError: the entry found at the start, however old, or no prompt.    *)
(* Another status than 200 is no prompt.                                     *)
ServeFallback(r) ==
  /\ Fetching(r)
  /\ pc' = [pc EXCEPT ![r] = "fallback"]
  /\ \/ /\ (plane # "up" /\ UNCHANGED faults) \/ Fault
        /\ prompt' = [prompt EXCEPT ![r] =
             IF captured[r] = None THEN NoPrompt ELSE captured[r].prompt]
     \/ /\ plane = "up"
        /\ Fault
        /\ prompt' = [prompt EXCEPT ![r] = NoPrompt]
  /\ Return(r)
  /\ UNCHANGED <<storeVars, cache, tenant, gone>>

(* The gateway process is replaced: cache and requests are gone.             *)
GatewayRestart ==
  /\ Fault
  /\ cache' = [t \in Tenants |-> None]
  /\ pc' = [r \in Requests |-> IF Fetching(r) THEN "lost" ELSE pc[r]]
  /\ captured' = [r \in Requests |-> None]
  /\ answer' = [r \in Requests |-> None]
  /\ elapsed' = [r \in Requests |-> 0]
  /\ UNCHANGED <<storeVars, tenant, prompt, gone>>

Older(n, bound) == IF n < bound THEN n + 1 ELSE bound

(* Mutant: a fetch has no timeout.                                           *)
MutTick ==
  /\ elapsed' = [r \in Requests |-> IF Fetching(r) THEN elapsed[r] + 1 ELSE elapsed[r]]
  /\ cache' = [t \in Tenants |->
       IF cache[t] = None THEN None ELSE [cache[t] EXCEPT !.age = Older(@, TTL)]]
  /\ gone' = [t \in Tenants |-> [p \in Configs |->
       IF p = PromptOf(table[t]) THEN 0 ELSE Older(gone[t][p], Horizon)]]
  /\ UNCHANGED <<storeVars, faults, pc, tenant, captured, answer, prompt>>

(* Time passes.  No fetch outlasts FetchTime.                                *)
Tick ==
  /\ \A r \in Requests : Fetching(r) => elapsed[r] < FetchTime
  /\ elapsed' = [r \in Requests |-> IF Fetching(r) THEN elapsed[r] + 1 ELSE elapsed[r]]
  /\ cache' = [t \in Tenants |->
       IF cache[t] = None THEN None ELSE [cache[t] EXCEPT !.age = Older(@, TTL)]]
  /\ gone' = [t \in Tenants |-> [p \in Configs |->
       IF p = PromptOf(table[t]) THEN 0 ELSE Older(gone[t][p], Horizon)]]
  /\ UNCHANGED <<storeVars, faults, pc, tenant, captured, answer, prompt>>

GatewayNext ==
  \/ \E r \in Requests, t \in Tenants : ServeCached(r, t) \/ BeginFetch(r, t)
  \/ \E r \in Requests : Read(r) \/ ServeFetched(r) \/ ServeFallback(r)
  \/ GatewayRestart

Next == StoreStep \/ GatewayNext \/ Tick

Spec == Init /\ [][Next]_vars

-----------------------------------------------------------------------------
TypeOK ==
  /\ StoreTypeOK
  /\ cache \in [Tenants -> Entries \cup {None}]
  /\ pc \in [Requests -> {"new", "fetching", "fetched", "served", "fallback", "lost"}]
  /\ tenant \in [Requests -> Tenants \cup {None}]
  /\ \A r \in Requests : Fetching(r) => tenant[r] # None
  /\ captured \in [Requests -> Entries \cup {None}]
  /\ answer \in [Requests -> Rows \cup {None}]
  /\ elapsed \in [Requests -> 0..FetchTime]
  /\ prompt \in [Requests -> Configs]
  /\ gone \in [Tenants -> [Configs -> 0..Horizon]]

(* A prompt that is not a fallback was the tenant's prompt less than TTL +   *)
(* FetchTime ago, although nothing invalidates the cache and the reply of a  *)
(* slow fetch may overwrite a newer one (_get_system_prompt).                *)
FreshWhenServed ==
  [][\A r \in Requests : pc[r] # "served" /\ pc'[r] = "served"
                         => gone[tenant'[r]][prompt'[r]] < Horizon]_vars

(* Only the first line of a content can be taken for the first of a turn.    *)
Plain(content) == \A i \in 2..Len(content) : content[i].tags = <<>>

(* The turn that begins at line k of a text is that of m, no more and no less.*)
TurnAt(text, k, m) ==
  LET next == k + Len(m.content) IN
  /\ next \in DOMAIN text /\ text[next].tags # <<>>
  /\ SubSeq(text, k, next - 1) = Turn(m)

(* Read by its tags, a text is the turns of ms, in their order, and the cue.  *)
ReadsAs(text, ms) ==
  \E at \in [DOMAIN ms -> DOMAIN text] :
    /\ \A i, j \in DOMAIN ms : i < j => at[i] < at[j]
    /\ \A i \in DOMAIN ms : TurnAt(text, at[i], ms[i])
    /\ \A k \in DOMAIN text : text[k].tags # <<>> =>
         k = Len(text) \/ \E i \in DOMAIN ms : at[i] = k

(* Of the messages of a request, the system ones say p, and there is one;    *)
(* the others are those of ms in their order; and if no content has a line   *)
(* that looks like the first of a turn, the engine can read all this off the *)
(* text it gets.                                                            *)
Instructed(ms, p) ==
  LET new == Inject(ms, p) IN
  /\ HasSystem(new)
  /\ \A i \in DOMAIN new : new[i].role = "system" => new[i] = System(p)
  /\ \E shift \in {0, 1} :
       /\ Len(new) = Len(ms) + shift
       /\ \A i \in DOMAIN ms : ms[i].role # "system" => new[i + shift] = ms[i]
  /\ (\A i \in DOMAIN new : Plain(new[i].content)) => ReadsAs(BuildPrompt(new), new)

(* The prompts that do so with whatever clients send.                        *)
Instructive == {p \in Configs \ {NoPrompt} : \A ms \in Conversations : Instructed(ms, p)}

(* Once a tenant has had a prompt for TTL + FetchTime, a request that is not *)
(* a fallback goes to the queue with the tenant's prompt, some recent one,   *)
(* as what its system messages say, and its other messages as they were,     *)
(* although clients may send system messages of their own                   *)
(* (inject_tenant_context).  Of the text that build_prompt makes of them     *)
(* this is said only where no content has a line that begins with a tag:     *)
(* build_prompt does not tell such a line from the first of a turn.          *)
TenantInstructs ==
  [][\A r \in Requests :
       pc[r] # "served" /\ pc'[r] = "served" /\ gone[tenant'[r]][NoPrompt] >= Horizon
       => prompt'[r] \in Instructive]_vars
=============================================================================
