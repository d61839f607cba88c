--------------------------- MODULE DataAssetCache ---------------------------
(***************************************************************************)
(* The snapshots of the data centre (data_assets/service.py): refreshes    *)
(* under a lease in Redis, each snapshot stored twice with its meta, the   *)
(* current copy and a last good one that is kept longer, and readers that  *)
(* fall back on the second (core/redis_client.py).                         *)
(*                                                                         *)
(* The payload is the version of the facts it was computed from.  Time is  *)
(* counted in steps of Redis' clock; a current copy lives Ttl of them.     *)
(* The in-process fallback of the client is not modelled.                  *)
(***************************************************************************)
EXTENDS Integers, FiniteSets

CONSTANTS
    Keys,          \* snapshot keys: summary, daily_health and its variants
    Refreshers,    \* calls of refresh_cache, in any process
    Requests,      \* the sets of keys a call asks for
    Ttl,           \* ttl_for: life of a current copy
    Retention,     \* LAST_GOOD_RETENTION_SECONDS or three times Ttl
    LeaseTtl,      \* REFRESH_LEASE_SECONDS
    None,
    MaxFacts,      \* bound: commits of other components
    MaxTicks,      \* bound: steps of the clock
    MaxCrashes     \* bound: processes that die

ASSUME TtlAssumption == Ttl \in Nat \ {0} /\ Retention \in Nat /\ Retention >= Ttl
ASSUME LeaseAssumption == LeaseTtl \in Nat \ {0}
ASSUME BoundAssumption == MaxFacts \in Nat /\ MaxTicks \in Nat /\ MaxCrashes \in Nat
ASSUME RequestAssumption == Requests \subseteq SUBSET Keys
ASSUME NoneAssumption == None \notin Refreshers

VARIABLES
    facts,      \* version of the tables the snapshots summarise
    current,    \* payload under the key, and the time it has left
    meta,       \* its meta: status, generated_at, time left
    lastGood,   \* payload kept as last good, with its meta
    lease,      \* owner of the refresh lease and the time it has left
    pc,         \* where a call of refresh_cache stands
    todo,       \* the keys it has still to refresh
    key,        \* the key it is refreshing
    result,     \* the payload it computed, or the meta it read
    outlasted,  \* a lease ran out under a call that was still working
    ticks, crashes

vars == <<facts, current, meta, lastGood, lease, pc, todo, key, result, outlasted, ticks, crashes>>
store == <<current, meta, lastGood>>
calls == <<pc, todo, key, result>>

Gone == [v |-> 0, ttl |-> 0]
NoMeta == [status |-> "none", v |-> 0, ttl |-> 0]
Free == [owner |-> None, ttl |-> 0]
Working(r) == pc[r] \in {"next", "compute", "store", "readMeta", "writeMeta"}

Init == /\ facts = 1
        /\ current = [k \in Keys |-> Gone] /\ meta = [k \in Keys |-> NoMeta]
        /\ lastGood = [k \in Keys |-> Gone] /\ lease = Free
        /\ pc = [r \in Refreshers |-> "idle"] /\ todo = [r \in Refreshers |-> {}]
        /\ key = [r \in Refreshers |-> None] /\ result = [r \in Refreshers |-> 0]
        /\ outlasted = FALSE /\ ticks = 0 /\ crashes = 0

\* Another job commits facts.
Ingest == /\ facts < MaxFacts /\ facts' = facts + 1
          /\ UNCHANGED <<store, lease, calls, outlasted, ticks, crashes>>

\* acquire_lease with an owner of its own: SET NX, whose failure ends the call.
AcquireAnyway(r, asked) ==                                             \* (mutant)
    /\ pc[r] = "idle"
    /\ lease' = [owner |-> r, ttl |-> LeaseTtl]
    /\ pc' = [pc EXCEPT ![r] = "next"] /\ todo' = [todo EXCEPT ![r] = asked]
    /\ UNCHANGED <<facts, store, key, result, outlasted, ticks, crashes>>
Acquire(r, asked) ==
    /\ pc[r] = "idle" /\ lease.owner = None
    /\ lease' = [owner |-> r, ttl |-> LeaseTtl]
    /\ pc' = [pc EXCEPT ![r] = "next"] /\ todo' = [todo EXCEPT ![r] = asked]
    /\ UNCHANGED <<facts, store, key, result, outlasted, ticks, crashes>>

Skip(r) ==
    /\ pc[r] = "idle" /\ lease.owner # None
    /\ pc' = [pc EXCEPT ![r] = "done"]
    /\ UNCHANGED <<facts, store, lease, todo, key, result, outlasted, ticks, crashes>>

NextKey(r, k) ==
    /\ pc[r] = "next" /\ k \in todo[r]
    /\ key' = [key EXCEPT ![r] = k] /\ todo' = [todo EXCEPT ![r] = @ \ {k}]
    /\ pc' = [pc EXCEPT ![r] = "compute"]
    /\ UNCHANGED <<facts, store, lease, result, outlasted, ticks, crashes>>

\* summary or daily_health, in the session's read transaction.
Compute(r) ==
    /\ pc[r] = "compute"
    /\ result' = [result EXCEPT ![r] = facts]
    /\ pc' = [pc EXCEPT ![r] = "store"]
    /\ UNCHANGED <<facts, store, lease, todo, key, outlasted, ticks, crashes>>

ComputeFails(r) ==
    /\ pc[r] = "compute"
    /\ pc' = [pc EXCEPT ![r] = "readMeta"]
    /\ UNCHANGED <<facts, store, lease, todo, key, result, outlasted, ticks, crashes>>

\* _write_success_snapshot: four keys in one transaction.
Good(v) == [status |-> "success", v |-> v, ttl |-> Ttl]
WriteSuccess(r) ==
    /\ pc[r] = "store"
    /\ current' = [current EXCEPT ![key[r]] = [v |-> result[r], ttl |-> Ttl]]
    /\ meta' = [meta EXCEPT ![key[r]] = Good(result[r])]
    /\ lastGood' = [lastGood EXCEPT ![key[r]] = [v |-> result[r], ttl |-> Retention]]
    /\ pc' = [pc EXCEPT ![r] = "next"]
    /\ UNCHANGED <<facts, lease, todo, key, result, outlasted, ticks, crashes>>

\* _write_failed_snapshot reads the meta, changes it and writes it back.
ReadMeta(r) ==
    /\ pc[r] = "readMeta"
    /\ result' = [result EXCEPT ![r] = meta[key[r]].v]
    /\ pc' = [pc EXCEPT ![r] = "writeMeta"]
    /\ UNCHANGED <<facts, store, lease, todo, key, outlasted, ticks, crashes>>
WriteFailed(r) ==
    /\ pc[r] = "writeMeta"
    /\ meta' = [meta EXCEPT ![key[r]] = [status |-> "failed", v |-> result[r], ttl |-> Ttl]]
    /\ pc' = [pc EXCEPT ![r] = "next"]
    /\ UNCHANGED <<facts, current, lastGood, lease, todo, key, result, outlasted, ticks, crashes>>

\* The finally of refresh_cache: the lease is deleted if it is still this call's.
\* A cancelled call gets here from wherever it was.
Released(r) == IF lease.owner = r THEN Free ELSE lease
Leave(r) ==
    /\ lease' = Released(r)
    /\ pc' = [pc EXCEPT ![r] = "done"]
    /\ UNCHANGED <<facts, store, todo, key, result, outlasted, ticks, crashes>>
Release(r) == pc[r] = "next" /\ todo[r] = {} /\ Leave(r)
Cancel(r) == Working(r) /\ Leave(r)

\* The process dies: Redis keeps the lease until it runs out.
Crash(r) ==
    /\ Working(r) /\ crashes < MaxCrashes
    /\ crashes' = crashes + 1
    /\ pc' = [pc EXCEPT ![r] = "done"]
    /\ UNCHANGED <<facts, store, lease, todo, key, result, outlasted, ticks>>

\* The same caller refreshes again later.
Again(r) ==
    /\ pc[r] = "done"
    /\ pc' = [pc EXCEPT ![r] = "idle"]
    /\ todo' = [todo EXCEPT ![r] = {}] /\ key' = [key EXCEPT ![r] = None]
    /\ result' = [result EXCEPT ![r] = 0]
    /\ UNCHANGED <<facts, store, lease, outlasted, ticks, crashes>>

\* A step of Redis' clock: keys whose time is over are gone.
Older(n) == IF n > 0 THEN n - 1 ELSE 0
AgedCopy(c) == IF c.ttl =< 1 THEN Gone ELSE [c EXCEPT !.ttl = Older(@)]
AgedMeta(m) == IF m.ttl =< 1 THEN NoMeta ELSE [m EXCEPT !.ttl = Older(@)]
AgedLease == IF lease.ttl =< 1 THEN Free ELSE [lease EXCEPT !.ttl = Older(@)]
Tick ==
    /\ ticks < MaxTicks /\ ticks' = ticks + 1
    /\ current' = [k \in Keys |-> AgedCopy(current[k])]
    /\ meta' = [k \in Keys |-> AgedMeta(meta[k])]
    /\ lastGood' = [k \in Keys |-> AgedCopy(lastGood[k])]
    /\ lease' = AgedLease
    /\ outlasted' = (outlasted \/ (lease.ttl = 1 /\ \E r \in Refreshers :
                                                       lease.owner = r /\ Working(r)))
    /\ UNCHANGED <<facts, calls, crashes>>

Next == \/ Ingest \/ Tick
        \/ \E r \in Refreshers :
              \/ \E asked \in Requests : Acquire(r, asked)
              \/ \E k \in Keys : NextKey(r, k)
              \/ Skip(r) \/ Compute(r) \/ ComputeFails(r) \/ WriteSuccess(r)
              \/ ReadMeta(r) \/ WriteFailed(r) \/ Release(r) \/ Cancel(r)
              \/ Crash(r) \/ Again(r)

Spec == Init /\ [][Next]_vars
-----------------------------------------------------------------------------
(* What readers are given. *)

\* _read_cached_payload.
Served(k) == IF current[k].v # 0 THEN current[k].v ELSE lastGood[k].v

\* _cache_status_item.
InProgress == lease.owner # None
Status(k) ==
    IF current[k].v # 0 /\ meta[k].status # "none" THEN meta[k].status
    ELSE IF InProgress THEN "building"
    ELSE IF lastGood[k].v # 0 THEN "stale" ELSE "missing"

\* The cache keeps the promise of AssetPromise: readers never step back to an older
\* snapshot, failed and cancelled refreshes take nothing away, and the last good
\* copy bridges the time from the end of the current one to its retention.
Promise == INSTANCE AssetPromise
             WITH served <- [k \in Keys |-> Served(k)],
                  left <- [k \in Keys |-> lastGood[k].ttl]
KeepsPromise == Promise!Spec
=============================================================================
