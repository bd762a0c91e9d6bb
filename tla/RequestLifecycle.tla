-------------------------- MODULE RequestLifecycle --------------------------
(***************************************************************************)
(* What the request queue promises about one inference request, whatever   *)
(* Redis streams, consumer groups and worker loops do underneath: it is    *)
(* refused, or admitted; an admitted request is started by at most one     *)
(* worker and at most once, or it is dropped without being started; nothing *)
(* brings a refused, dropped or settled request back.                      *)
(***************************************************************************)
CONSTANT Requests

VARIABLE stage

Stages == {"new", "refused", "queued", "running", "settled", "dropped"}

In(s) == {r \in Requests : stage[r] = s}

Init == stage = [r \in Requests |-> "new"]

Move(R, s) == stage' = [r \in Requests |-> IF r \in R THEN s ELSE stage[r]]

(* The caller is told 503 or 500 and the request is not in the queue.  One  *)
(* restart of the gateway refuses every request it was handling.            *)
Refuse == \E R \in SUBSET In("new") : Move(R, "refused")

(* A request enters the queue, at the expense of some (perhaps of itself)   *)
(* when the queue is trimmed or when nobody is yet registered to read it.   *)
Admit ==
  \E r \in In("new"), lost \in SUBSET (In("queued") \cup In("new")) :
    /\ lost \cap In("new") \subseteq {r}
    /\ stage' = [s \in Requests |-> IF s \in lost THEN "dropped"
                                    ELSE IF s = r THEN "queued" ELSE stage[s]]

Start == \E r \in In("queued") : Move({r}, "running")

Drop == \E r \in In("queued") : Move({r}, "dropped")

Settle == \E r \in In("running") : Move({r}, "settled")

Next == Refuse \/ Admit \/ Start \/ Drop \/ Settle

Spec == Init /\ [][Next]_stage
=============================================================================
