-------------------------- MODULE StoredDataProofs --------------------------
(***************************************************************************)
(* What the parts that store data keep, for every value of their           *)
(* constants: the cached snapshots, the coverage of a day, the rows of     *)
(* the emotion models, the price basis of the stored factors, what a       *)
(* backfill resumes, what a catalog keeps and what a study concludes.      *)
(* Each part has its own variables and its own inductive invariant.        *)
(***************************************************************************)
EXTENDS StoredData, Sequences, FiniteSetTheorems, WellFoundedInduction, TLAPS

-----------------------------------------------------------------------------
(* The data asset cache keeps the promise of AssetPromise                  *)

Copies == [v : Nat, ttl : Nat]
Metas == [status : {"none", "success", "failed"}, v : Nat, ttl : Nat]
Leases == [owner : Refreshers \union {None}, ttl : Nat]
Steps == {"idle", "next", "compute", "store", "readMeta", "writeMeta", "done"}
WithKey == {"compute", "store", "readMeta", "writeMeta"}

\* Copies, metas, the lease and the calls keep their types, and a call that works on a
\* key has one (refresh_cache).
TypeOK ==
  /\ facts \in Nat \ {0} /\ ticks \in Nat /\ crashes \in Nat /\ outlasted \in BOOLEAN
  /\ current \in [Keys -> Copies] /\ lastGood \in [Keys -> Copies]
  /\ meta \in [Keys -> Metas] /\ lease \in Leases
  /\ pc \in [Refreshers -> Steps] /\ todo \in [Refreshers -> SUBSET Keys]
  /\ key \in [Refreshers -> Keys \union {None}] /\ result \in [Refreshers -> Nat]
  /\ \A r \in Refreshers : pc[r] \in WithKey => key[r] \in Keys

\* The current copy is the last good one and never outlives it.
Paired(c, g) ==
  /\ c.v = 0 \/ (c.v = g.v /\ c.ttl =< g.ttl)
  /\ g.v = 0 <=> g.ttl = 0
CopiesPaired == \A k \in Keys : Paired(current[k], lastGood[k])

\* No snapshot is newer than the facts.
NotAhead == \A k \in Keys : lastGood[k].v =< facts

\* As long as no lease ran out under a call that was working, the calls that work hold it.
HolderWorks ==
  /\ lease.owner # None => lease.ttl >= 1
  /\ outlasted \/ \A r \in Refreshers : Working(r) => lease.owner = r

\* What a call is about to store is a version of the facts, and no older than what is there.
ResultFresh ==
  \A r \in Refreshers : pc[r] = "store" =>
    /\ result[r] # 0 /\ result[r] =< facts
    /\ outlasted \/ lastGood[key[r]].v =< result[r]

IInv == TypeOK /\ CopiesPaired /\ NotAhead /\ HolderWorks /\ ResultFresh

-----------------------------------------------------------------------------
\* The steps of a call that leave the snapshots that are served alone.
LEMMA CopyAges ==
  ASSUME NEW c \in Copies
  PROVE  /\ AgedCopy(c) \in Copies
         /\ c.ttl =< 1 => AgedCopy(c) = Gone
         /\ c.ttl > 1 => AgedCopy(c).v = c.v /\ AgedCopy(c).ttl = c.ttl - 1
  <1>1. CASE c.ttl =< 1
    BY <1>1 DEF AgedCopy, Copies, Gone
  <1>2. CASE ~(c.ttl =< 1)
    <2>1. AgedCopy(c) = [c EXCEPT !.ttl = c.ttl - 1]
      BY <1>2 DEF AgedCopy, Copies, Older
    <2>2. c.ttl - 1 \in Nat
      BY <1>2 DEF Copies
    <2> QED BY <1>2, <2>1, <2>2 DEF Copies
  <1> QED BY <1>1, <1>2

LEMMA MetaAges == ASSUME NEW m \in Metas PROVE AgedMeta(m) \in Metas
  BY DEF AgedMeta, Metas, NoMeta, Older

LEMMA LeaseAges ==
  ASSUME lease \in Leases
  PROVE  /\ AgedLease \in Leases
         /\ lease.ttl =< 1 => AgedLease = Free
         /\ lease.ttl > 1 => AgedLease.owner = lease.owner /\ AgedLease.ttl = lease.ttl - 1
  <1>1. CASE lease.ttl =< 1
    BY <1>1 DEF AgedLease, Leases, Free
  <1>2. CASE ~(lease.ttl =< 1)
    <2>1. AgedLease = [lease EXCEPT !.ttl = lease.ttl - 1]
      BY <1>2 DEF AgedLease, Leases, Older
    <2>2. lease.ttl - 1 \in Nat
      BY <1>2 DEF Leases
    <2> QED BY <1>2, <2>1, <2>2 DEF Leases
  <1> QED BY <1>1, <1>2

LEMMA Starts == Init => IInv
  <1> SUFFICES ASSUME Init PROVE IInv
    OBVIOUS
  <1>1. Gone \in Copies /\ NoMeta \in Metas /\ Free \in Leases
    BY DEF Gone, NoMeta, Free, Copies, Metas, Leases
  <1>2. /\ current \in [Keys -> Copies] /\ lastGood \in [Keys -> Copies]
        /\ meta \in [Keys -> Metas] /\ lease \in Leases
    BY <1>1 DEF Init
  <1>3. /\ facts \in Nat \ {0} /\ ticks \in Nat /\ crashes \in Nat
        /\ pc \in [Refreshers -> Steps] /\ todo \in [Refreshers -> SUBSET Keys]
    BY DEF Init, Steps
  <1>8. outlasted \in BOOLEAN
    BY DEF Init
  <1>4. /\ key \in [Refreshers -> Keys \union {None}] /\ result \in [Refreshers -> Nat]
        /\ \A r \in Refreshers : pc[r] \notin WithKey
    BY DEF Init, WithKey
  <1>5. TypeOK
    BY <1>2, <1>3, <1>4, <1>8 DEF TypeOK
  <1>6. CopiesPaired /\ NotAhead
    BY DEF Init, CopiesPaired, Paired, NotAhead, Gone
  <1>7. HolderWorks /\ ResultFresh
    BY DEF Init, HolderWorks, ResultFresh, Working, Free
  <1> QED BY <1>5, <1>6, <1>7 DEF IInv

-----------------------------------------------------------------------------
\* Types are kept.
LEMMA TypeStep == TypeOK /\ [Next]_vars => TypeOK'
  <1> SUFFICES ASSUME TypeOK, [Next]_vars PROVE TypeOK'
    OBVIOUS
  <1> USE DEF TypeOK, Steps, WithKey
  <1>1. CASE Ingest
    BY <1>1 DEF Ingest, store, calls
  <1>2. CASE Tick
    <2>1. /\ current' \in [Keys -> Copies] /\ lastGood' \in [Keys -> Copies]
          /\ meta' \in [Keys -> Metas] /\ lease' \in Leases
      BY <1>2, CopyAges, MetaAges, LeaseAges DEF Tick
    <2>2. outlasted' \in BOOLEAN /\ ticks' \in Nat
      BY <1>2 DEF Tick
    <2> QED BY <1>2, <2>1, <2>2 DEF Tick, calls
  <1>3. ASSUME NEW r \in Refreshers, NEW asked \in Requests, Acquire(r, asked)
        PROVE  TypeOK'
    <2>1. lease' \in Leases
      BY <1>3, LeaseAssumption DEF Acquire, Leases
    <2>2. asked \subseteq Keys
      BY RequestAssumption
    <2> QED BY <1>3, <2>1, <2>2 DEF Acquire, store
  <1>4. ASSUME NEW r \in Refreshers, NEW k \in Keys, NextKey(r, k)
        PROVE  TypeOK'
    BY <1>4 DEF NextKey, store
  <1>5. ASSUME NEW r \in Refreshers, Skip(r) \/ ComputeFails(r) \/ Crash(r)
        PROVE  TypeOK'
    BY <1>5 DEF Skip, ComputeFails, Crash, store
  <1>6. ASSUME NEW r \in Refreshers, Compute(r) \/ ReadMeta(r)
        PROVE  TypeOK'
    BY <1>6 DEF Compute, ReadMeta, store, Metas
  <1>7. ASSUME NEW r \in Refreshers, WriteSuccess(r)
        PROVE  TypeOK'
    <2>1. /\ [v |-> result[r], ttl |-> Ttl] \in Copies
          /\ [v |-> result[r], ttl |-> Retention] \in Copies
          /\ Good(result[r]) \in Metas
      BY TtlAssumption DEF Copies, Metas, Good
    <2>2. /\ current' \in [Keys -> Copies] /\ lastGood' \in [Keys -> Copies]
          /\ meta' \in [Keys -> Metas]
      BY <1>7, <2>1 DEF WriteSuccess
    <2> QED BY <1>7, <2>2 DEF WriteSuccess
  <1>8. ASSUME NEW r \in Refreshers, WriteFailed(r)
        PROVE  TypeOK'
    <2>1. [status |-> "failed", v |-> result[r], ttl |-> Ttl] \in Metas
      BY TtlAssumption DEF Metas
    <2>2. meta' \in [Keys -> Metas]
      BY <1>8, <2>1 DEF WriteFailed
    <2> QED BY <1>8, <2>2 DEF WriteFailed
  <1>9. ASSUME NEW r \in Refreshers, Release(r) \/ Cancel(r)
        PROVE  TypeOK'
    <2>1. lease' \in Leases
      BY <1>9 DEF Release, Cancel, Leave, Released, Free, Leases
    <2> QED BY <1>9, <2>1 DEF Release, Cancel, Leave, store
  <1>10. ASSUME NEW r \in Refreshers, Again(r)
         PROVE  TypeOK'
    BY <1>10 DEF Again, store
  <1>11. CASE UNCHANGED vars
    BY <1>11 DEF vars, store, calls
  <1> QED
    BY <1>1, <1>2, <1>3, <1>4, <1>5, <1>6, <1>7, <1>8, <1>9, <1>10, <1>11 DEF Next

-----------------------------------------------------------------------------
\* Only a step of the clock and a success change what is stored for readers.
Quiet == UNCHANGED <<current, lastGood, outlasted>>

LEMMA QuietOrNot ==
  ASSUME [Next]_vars
  PROVE  Quiet \/ Tick \/ \E r \in Refreshers : WriteSuccess(r)
  BY DEF Next, vars, Quiet, store, calls, Ingest, Acquire, NextKey, Skip, Compute, ComputeFails,
         ReadMeta, WriteFailed, Release, Cancel, Leave, Crash, Again

\* What a success stores.
LEMMA Stored ==
  ASSUME TypeOK, NEW r \in Refreshers, WriteSuccess(r)
  PROVE  /\ key[r] \in Keys /\ result[r] \in Nat
         /\ current'[key[r]] = [v |-> result[r], ttl |-> Ttl]
         /\ lastGood'[key[r]] = [v |-> result[r], ttl |-> Retention]
         /\ \A k \in Keys \ {key[r]} : current'[k] = current[k] /\ lastGood'[k] = lastGood[k]
         /\ facts' = facts
  BY DEF WriteSuccess, TypeOK, WithKey

LEMMA CopiesStep ==
  ASSUME IInv, [Next]_vars
  PROVE  CopiesPaired'
  <1> USE DEF IInv
  <1>1. CASE Quiet
    BY <1>1 DEF Quiet, CopiesPaired
  <1>2. CASE Tick
    <2> SUFFICES ASSUME NEW k \in Keys
                 PROVE  Paired(AgedCopy(current[k]), AgedCopy(lastGood[k]))
      BY <1>2 DEF Tick, CopiesPaired
    <2>1. current[k] \in Copies /\ lastGood[k] \in Copies
      BY DEF TypeOK
    <2>2. Paired(current[k], lastGood[k])
      BY DEF CopiesPaired
    <2>3. current[k].v \in Nat /\ current[k].ttl \in Nat /\ lastGood[k].v \in Nat
          /\ lastGood[k].ttl \in Nat
      BY <2>1 DEF Copies
    <2>4. CASE lastGood[k].ttl =< 1
      <3>1. AgedCopy(lastGood[k]) = Gone
        BY <2>1, <2>4, CopyAges
      <3>2. AgedCopy(current[k]).v = 0
        BY <2>1, <2>2, <2>3, <2>4, CopyAges DEF Paired, Gone
      <3> QED BY <3>1, <3>2 DEF Paired, Gone
    <2>5. CASE lastGood[k].ttl > 1
      <3>1. AgedCopy(lastGood[k]).v = lastGood[k].v
            /\ AgedCopy(lastGood[k]).ttl = lastGood[k].ttl - 1
        BY <2>1, <2>5, CopyAges
      <3>2. CASE current[k].ttl =< 1
        <4>1. AgedCopy(current[k]).v = 0
          BY <2>1, <3>2, CopyAges DEF Gone
        <4> QED BY <2>2, <2>3, <2>5, <3>1, <4>1 DEF Paired
      <3>3. CASE current[k].ttl > 1
        <4>1. AgedCopy(current[k]).v = current[k].v
              /\ AgedCopy(current[k]).ttl = current[k].ttl - 1
          BY <2>1, <3>3, CopyAges
        <4> QED BY <2>2, <2>3, <2>5, <3>1, <4>1 DEF Paired
      <3> QED BY <2>3, <3>2, <3>3
    <2> QED BY <2>3, <2>4, <2>5
  <1>3. ASSUME NEW r \in Refreshers, WriteSuccess(r)
        PROVE  CopiesPaired'
    <2>1. result[r] # 0
      BY <1>3 DEF WriteSuccess, ResultFresh
    <2>2. result[r] \in Nat /\ Ttl =< Retention /\ Ttl # 0 /\ Ttl \in Nat /\ Retention \in Nat
      BY <1>3, Stored, TtlAssumption
    <2>3. Paired([v |-> result[r], ttl |-> Ttl], [v |-> result[r], ttl |-> Retention])
      BY <2>1, <2>2 DEF Paired
    <2>4. Paired(current'[key[r]], lastGood'[key[r]])
      BY <1>3, <2>3, Stored
    <2> QED BY <1>3, <2>4, Stored DEF CopiesPaired
  <1> QED BY <1>1, <1>2, <1>3, QuietOrNot

LEMMA NotAheadStep ==
  ASSUME IInv, [Next]_vars
  PROVE  NotAhead'
  <1> USE DEF IInv
  <1>1. facts' \in Nat /\ facts \in Nat /\ facts =< facts'
    <2>1. facts \in Nat
      BY DEF TypeOK
    <2>2. facts' = facts \/ facts' = facts + 1
      BY DEF Next, vars, store, calls, Ingest, Tick, Acquire, NextKey, Skip, Compute,
           ComputeFails, WriteSuccess, ReadMeta, WriteFailed, Release, Cancel, Leave, Crash, Again
    <2> QED BY <2>1, <2>2
  <1>2. \A k \in Keys : lastGood[k].v \in Nat
    BY DEF TypeOK, Copies
  <1>3. CASE Quiet
    BY <1>1, <1>2, <1>3 DEF Quiet, NotAhead, TypeOK
  <1>4. CASE Tick
    <2>1. \A k \in Keys : AgedCopy(lastGood[k]).v \in {0, lastGood[k].v}
      <3> SUFFICES ASSUME NEW k \in Keys PROVE AgedCopy(lastGood[k]).v \in {0, lastGood[k].v}
        OBVIOUS
      <3>1. lastGood[k] \in Copies
        BY DEF TypeOK
      <3>2. lastGood[k].ttl \in Nat
        BY <3>1 DEF Copies
      <3>3. lastGood[k].ttl =< 1 \/ lastGood[k].ttl > 1
        BY <3>2
      <3> QED BY <3>1, <3>3, CopyAges DEF Gone
    <2> QED BY <1>1, <1>2, <1>4, <2>1 DEF Tick, NotAhead
  <1>5. ASSUME NEW r \in Refreshers, WriteSuccess(r)
        PROVE  NotAhead'
    <2>1. result[r] =< facts
      BY <1>5 DEF WriteSuccess, ResultFresh
    <2>2. lastGood'[key[r]].v = result[r] /\ facts' = facts
      <3>1. lastGood'[key[r]] = [v |-> result[r], ttl |-> Retention] /\ facts' = facts
        BY <1>5, Stored
      <3> QED BY <3>1
    <2>3. lastGood'[key[r]].v =< facts'
      BY <2>1, <2>2
    <2>4. key[r] \in Keys /\ \A k \in Keys \ {key[r]} : lastGood'[k] = lastGood[k]
      BY <1>5, Stored
    <2> QED BY <2>2, <2>3, <2>4 DEF NotAhead
  <1> QED BY <1>3, <1>4, <1>5, QuietOrNot

-----------------------------------------------------------------------------
\* The call that works is the one that holds the lease.
LEMMA HolderStep ==
  ASSUME IInv, [Next]_vars
  PROVE  HolderWorks'
  <1> USE DEF IInv
  <1> DEFINE Bound == lease.owner # None => lease.ttl >= 1
             Only == outlasted \/ \A r \in Refreshers : Working(r) => lease.owner = r
  <1>1. Bound /\ Only /\ lease \in Leases /\ lease.ttl \in Nat
    BY DEF HolderWorks, TypeOK, Leases
  <1>2. CASE UNCHANGED <<lease, outlasted>> /\ \A r \in Refreshers : Working(r)' => Working(r)
    BY <1>1, <1>2 DEF HolderWorks
  <1>3. CASE Tick
    <2>1. CASE lease.ttl =< 1
      <3>1. lease' = Free
        BY <1>1, <1>3, <2>1, LeaseAges DEF Tick
      <3>2. outlasted' \/ \A r \in Refreshers : ~Working(r)
        <4>1. CASE outlasted
          BY <1>3, <4>1 DEF Tick
        <4>2. CASE \A r \in Refreshers : Working(r) => lease.owner = r
          <5> SUFFICES ASSUME NEW r \in Refreshers, Working(r) PROVE outlasted'
            OBVIOUS
          <5>1. lease.owner = r /\ lease.owner # None
            BY <4>2, NoneAssumption
          <5>2. lease.ttl = 1
            BY <1>1, <2>1, <5>1
          <5> QED BY <1>3, <5>1, <5>2 DEF Tick
        <4> QED BY <1>1, <4>1, <4>2
      <3>3. \A r \in Refreshers : Working(r)' <=> Working(r)
        BY <1>3 DEF Tick, calls, Working
      <3> QED BY <3>1, <3>2, <3>3 DEF HolderWorks, Free
    <2>2. CASE lease.ttl > 1
      <3>1. lease'.owner = lease.owner /\ lease'.ttl >= 1
        BY <1>1, <1>3, <2>2, LeaseAges DEF Tick
      <3>2. outlasted' \/ \A r \in Refreshers : Working(r)' => lease.owner = r
        <4>1. outlasted => outlasted'
          BY <1>3 DEF Tick
        <4>2. \A r \in Refreshers : Working(r)' <=> Working(r)
          BY <1>3 DEF Tick, calls, Working
        <4> QED BY <1>1, <4>1, <4>2
      <3> QED BY <3>1, <3>2 DEF HolderWorks
    <2> QED BY <1>1, <2>1, <2>2
  <1>4. ASSUME NEW r \in Refreshers, NEW asked \in Requests, Acquire(r, asked)
        PROVE  HolderWorks'
    <2>1. lease'.owner = r /\ lease'.ttl >= 1
      BY <1>4, LeaseAssumption DEF Acquire
    <2>2. outlasted' \/ \A s \in Refreshers : ~Working(s)
      BY <1>1, <1>4, NoneAssumption DEF Acquire
    <2>3. \A s \in Refreshers \ {r} : Working(s)' <=> Working(s)
      BY <1>4 DEF Acquire, Working, TypeOK
    <2> QED BY <2>1, <2>2, <2>3 DEF HolderWorks
  <1>5. ASSUME NEW r \in Refreshers, Leave(r)
        PROVE  HolderWorks'
    <2>1. ~Working(r)' /\ \A s \in Refreshers \ {r} : Working(s)' <=> Working(s)
      BY <1>5 DEF Leave, Working, TypeOK
    <2>2. CASE lease.owner = r
      <3>1. lease' = Free /\ (outlasted' <=> outlasted)
        BY <1>5, <2>2 DEF Leave, Released
      <3> QED BY <1>1, <2>1, <2>2, <3>1 DEF HolderWorks, Free
    <2>3. CASE lease.owner # r
      <3>1. lease' = lease /\ (outlasted' <=> outlasted)
        BY <1>5, <2>3 DEF Leave, Released
      <3> QED BY <1>1, <2>1, <3>1 DEF HolderWorks
    <2> QED BY <2>2, <2>3
  <1>6. CASE Ingest \/ UNCHANGED vars
    BY <1>2, <1>6 DEF Ingest, vars, calls, Working
  <1>7. ASSUME NEW r \in Refreshers,
               \/ Skip(r) \/ Compute(r) \/ ComputeFails(r) \/ WriteSuccess(r) \/ ReadMeta(r)
               \/ WriteFailed(r) \/ Crash(r) \/ Again(r) \/ \E k \in Keys : NextKey(r, k)
        PROVE  HolderWorks'
    <2>1. UNCHANGED <<lease, outlasted>>
      BY <1>7 DEF Skip, Compute, ComputeFails, WriteSuccess, ReadMeta, WriteFailed, Crash, Again,
                  NextKey
    <2>2. \A s \in Refreshers : Working(s)' => Working(s)
      BY <1>7 DEF Skip, Compute, ComputeFails, WriteSuccess, ReadMeta, WriteFailed, Crash, Again,
                  NextKey, Working, TypeOK
    <2> QED BY <1>2, <2>1, <2>2
  <1> QED BY <1>3, <1>4, <1>5, <1>6, <1>7 DEF Next, Release, Cancel

-----------------------------------------------------------------------------
\* What is about to be stored was the newest version when it was computed, and nobody
\* else has stored since.
LEMMA ResultStep ==
  ASSUME IInv, [Next]_vars
  PROVE  ResultFresh'
  <1> USE DEF IInv
  <1> DEFINE Fresh(r) == /\ result[r] # 0 /\ result[r] =< facts
                         /\ outlasted \/ lastGood[key[r]].v =< result[r]
  <1>1. \A r \in Refreshers : result[r] \in Nat /\ (pc[r] = "store" => Fresh(r) /\ key[r] \in Keys)
    BY DEF TypeOK, ResultFresh, WithKey
  <1>2. facts \in Nat /\ facts # 0 /\ \A k \in Keys : lastGood[k].v \in Nat
    BY DEF TypeOK, Copies
  <1>3. CASE Ingest
    BY <1>1, <1>2, <1>3 DEF Ingest, store, calls, ResultFresh
  <1>4. CASE Tick
    <2> SUFFICES ASSUME NEW r \in Refreshers, pc[r] = "store"
                 PROVE  outlasted' \/ lastGood'[key[r]].v =< result[r]
      BY <1>1, <1>4 DEF Tick, calls, ResultFresh
    <2>1. lastGood'[key[r]].v = 0 \/ lastGood'[key[r]].v = lastGood[key[r]].v
      <3>1. key[r] \in Keys /\ lastGood[key[r]] \in Copies /\ lastGood[key[r]].ttl \in Nat
        BY <1>1 DEF TypeOK, Copies
      <3>2. lastGood'[key[r]] = AgedCopy(lastGood[key[r]])
        BY <1>4, <3>1 DEF Tick
      <3>3. lastGood[key[r]].ttl =< 1 \/ lastGood[key[r]].ttl > 1
        BY <3>1
      <3> QED BY <3>1, <3>2, <3>3, CopyAges DEF Gone
    <2>2. outlasted => outlasted'
      BY <1>4 DEF Tick
    <2>3. result[r] \in Nat /\ (outlasted \/ lastGood[key[r]].v =< result[r])
      BY <1>1
    <2>4. 0 =< result[r]
      BY <2>3
    <2> QED BY <2>1, <2>2, <2>3, <2>4
  <1>5. ASSUME NEW r \in Refreshers, Compute(r)
        PROVE  ResultFresh'
    <2>1. /\ UNCHANGED <<facts, lastGood, key, outlasted>> /\ result'[r] = facts
          /\ \A s \in Refreshers \ {r} : pc'[s] = pc[s] /\ result'[s] = result[s]
          /\ key[r] \in Keys
      BY <1>5 DEF Compute, store, TypeOK, WithKey
    <2>2. lastGood[key[r]].v =< facts
      BY <2>1 DEF NotAhead
    <2> QED BY <1>1, <1>2, <2>1, <2>2 DEF ResultFresh
  <1>6. ASSUME NEW r \in Refreshers, WriteSuccess(r)
        PROVE  ResultFresh'
    <2> SUFFICES ASSUME NEW s \in Refreshers, pc'[s] = "store"
                 PROVE  Fresh(s)'
      BY DEF ResultFresh
    <2>1. s # r /\ pc[s] = "store"
      BY <1>6 DEF WriteSuccess, TypeOK
    <2>2. UNCHANGED <<facts, key, result>> /\ (outlasted' <=> outlasted)
      BY <1>6 DEF WriteSuccess
    <2>3. Working(r) /\ Working(s)
      BY <1>6, <2>1 DEF WriteSuccess, Working
    <2>4. outlasted
      BY <2>1, <2>3 DEF HolderWorks
    <2> QED BY <1>1, <2>1, <2>2, <2>4
  <1>7. ASSUME NEW r \in Refreshers,
               \/ Skip(r) \/ ComputeFails(r) \/ ReadMeta(r) \/ WriteFailed(r) \/ Crash(r)
               \/ Again(r) \/ Leave(r) \/ (\E k \in Keys : NextKey(r, k))
               \/ (\E asked \in Requests : Acquire(r, asked))
        PROVE  ResultFresh'
    <2>1. UNCHANGED <<facts, lastGood, outlasted>>
      BY <1>7 DEF Skip, ComputeFails, ReadMeta, WriteFailed, Crash, Again, Leave, NextKey, Acquire,
                  store
    <2>2. pc'[r] # "store"
      BY <1>7 DEF Skip, ComputeFails, ReadMeta, WriteFailed, Crash, Again, Leave, NextKey, Acquire,
                  TypeOK
    <2>3. \A s \in Refreshers \ {r} : pc'[s] = pc[s] /\ key'[s] = key[s] /\ result'[s] = result[s]
      BY <1>7 DEF Skip, ComputeFails, ReadMeta, WriteFailed, Crash, Again, Leave, NextKey, Acquire,
                  TypeOK
    <2> QED BY <1>1, <2>1, <2>2, <2>3 DEF ResultFresh
  <1>8. CASE UNCHANGED vars
    BY <1>1, <1>8 DEF vars, store, calls, ResultFresh
  <1> QED BY <1>3, <1>4, <1>5, <1>6, <1>7, <1>8 DEF Next, Release, Cancel

\* Calls, copies and metas keep their types (refresh_cache).
THEOREM TypeCorrect == Spec => []TypeOK
  <1>1. IInv /\ [Next]_vars => IInv'
    BY TypeStep, CopiesStep, NotAheadStep, HolderStep, ResultStep DEF IInv
  <1>2. IInv => TypeOK
    BY DEF IInv
  <1> QED BY Starts, <1>1, <1>2, PTL DEF Spec

-----------------------------------------------------------------------------
\* A reader is given the version of the last good copy.
LEMMA ServedIsLastGood ==
  ASSUME CopiesPaired, NEW k \in Keys
  PROVE  Served(k) = lastGood[k].v
  BY DEF CopiesPaired, Paired, Served

LEMMA PromisedInit == Init => Promise!Init
  BY DEF Init, Promise!Init, Served, Gone

\* What the readers of the refinement are given, by the last good copies alone.
LEMMA Seen ==
  ASSUME CopiesPaired
  PROVE  [k \in Keys |-> Served(k)] = [k \in Keys |-> lastGood[k].v]
  BY ServedIsLastGood

LEMMA SeenNext ==
  ASSUME CopiesPaired'
  PROVE  [k \in Keys |-> Served(k)'] = [k \in Keys |-> lastGood'[k].v]
  <1> SUFFICES ASSUME NEW k \in Keys PROVE Served(k)' = lastGood'[k].v
    OBVIOUS
  <1> QED BY DEF CopiesPaired, Paired, Served

\* A step of the cache is a refresh, a step of the clock or nothing to its readers.
LEMMA PromisedStep ==
  ASSUME IInv, CopiesPaired', [Next]_vars
  PROVE  [Promise!Next]_(Promise!vars)
  <1> DEFINE seen == [k \in Keys |-> lastGood[k].v]
             kept == [k \in Keys |-> lastGood[k].ttl]
  <1>1. [k \in Keys |-> Served(k)] = seen /\ [k \in Keys |-> Served(k)'] = seen'
    BY Seen, SeenNext DEF IInv
  <1>2. lastGood \in [Keys -> Copies]
    BY DEF IInv, TypeOK
  <1>6. \A k \in Keys : Served(k) = seen[k] /\ Served(k)' = seen'[k]
    BY ServedIsLastGood DEF IInv, CopiesPaired, Paired, Served
  <1>3. CASE Quiet
    <2>1. seen' = seen /\ kept' = kept
      BY <1>3 DEF Quiet
    <2> QED BY <1>1, <1>3, <2>1 DEF Quiet, Promise!vars
  <1>4. CASE Tick
    <2>1. kept' = [k \in Keys |-> Promise!Older(kept[k])]
      <3> SUFFICES ASSUME NEW k \in Keys
                   PROVE  AgedCopy(lastGood[k]).ttl = Promise!Older(lastGood[k].ttl)
        BY <1>4 DEF Tick
      <3>1. lastGood[k] \in Copies /\ lastGood[k].ttl \in Nat
        BY <1>2 DEF Copies
      <3>2. CASE lastGood[k].ttl =< 1
        BY <3>1, <3>2, CopyAges DEF Gone, Promise!Older
      <3>3. CASE lastGood[k].ttl > 1
        BY <3>1, <3>3, CopyAges DEF Promise!Older
      <3> QED BY <3>1, <3>2, <3>3
    <2>2. seen' = [k \in Keys |-> IF kept[k] =< 1 THEN 0 ELSE seen[k]]
      <3> SUFFICES ASSUME NEW k \in Keys
                   PROVE  AgedCopy(lastGood[k]).v = IF lastGood[k].ttl =< 1 THEN 0 ELSE lastGood[k].v
        BY <1>4 DEF Tick
      <3>1. lastGood[k] \in Copies /\ lastGood[k].ttl \in Nat
        BY <1>2 DEF Copies
      <3> QED BY <3>1, CopyAges DEF Gone
    <2>3. outlasted' \in {outlasted, TRUE}
      <3>1. outlasted \in BOOLEAN
        BY DEF IInv, TypeOK
      <3>2. outlasted' = outlasted \/ outlasted' = TRUE
        BY <1>4, <3>1 DEF Tick
      <3> QED BY <3>2
    <2>4. [k \in Keys |-> Served(k)]'
            = [k \in Keys |-> IF kept[k] =< 1 THEN 0 ELSE [j \in Keys |-> Served(j)][k]]
      <3> SUFFICES ASSUME NEW k \in Keys
                   PROVE  Served(k)' = IF kept[k] =< 1 THEN 0 ELSE Served(k)
        OBVIOUS
      <3>1. seen'[k] = IF kept[k] =< 1 THEN 0 ELSE seen[k]
        BY <2>2
      <3> QED BY <1>6, <3>1
    <2>5. Promise!Tick
      BY <2>1, <2>3, <2>4 DEF Promise!Tick
    <2> QED BY <2>5 DEF Promise!Next
  <1>5. ASSUME NEW r \in Refreshers, WriteSuccess(r)
        PROVE  Promise!Next
    <2>0. key[r] \in Keys
      BY <1>5, Stored DEF IInv
    <2> PICK k \in Keys : k = key[r]
      BY <2>0
    <2>1. /\ k \in Keys /\ result[r] \in Nat
          /\ lastGood'[k] = [v |-> result[r], ttl |-> Retention]
          /\ \A j \in Keys \ {k} : lastGood'[j] = lastGood[j]
      BY <1>5, Stored DEF IInv
    <2>2. result[r] # 0 /\ (outlasted \/ seen[k] =< result[r])
      BY <1>5, <2>1 DEF IInv, ResultFresh, WriteSuccess
    <2>3. seen'[k] = result[r] /\ \A j \in Keys \ {k} : seen'[j] = seen[j]
      BY <2>1
    <2>4. [j \in Keys |-> lastGood'[j].v] \in [Keys -> Nat]
      <3> SUFFICES ASSUME NEW j \in Keys PROVE lastGood'[j].v \in Nat
        OBVIOUS
      <3>1. lastGood[j].v \in Nat
        BY <1>2 DEF Copies
      <3>2. CASE j = k
        BY <2>1, <3>2
      <3>3. CASE j # k
        BY <2>1, <3>1, <3>3
      <3> QED BY <3>2, <3>3
    <2>5. kept' = [kept EXCEPT ![k] = Retention]
      <3> SUFFICES [j \in Keys |-> lastGood'[j].ttl]
                     = [j \in Keys |-> IF j = k THEN Retention ELSE lastGood[j].ttl]
        OBVIOUS
      <3> SUFFICES ASSUME NEW j \in Keys
                   PROVE  lastGood'[j].ttl = IF j = k THEN Retention ELSE lastGood[j].ttl
        OBVIOUS
      <3> QED BY <2>1
    <2>6. seen'[k] > 0
      BY <2>1, <2>2, <2>3
    <2>7. UNCHANGED outlasted
      BY <1>5 DEF WriteSuccess
    <2>8. seen[k] \in Nat
      BY <1>2, <2>1 DEF Copies
    <2>9. outlasted \/ seen'[k] >= seen[k]
      BY <2>1, <2>2, <2>3, <2>8
    <2> DEFINE given == [j \in Keys |-> Served(j)]
    <2>10. given' \in [Keys -> Nat]
      BY <1>1, <2>4
    <2>11. given'[k] > 0 /\ (outlasted \/ given'[k] >= given[k])
      BY <1>6, <2>1, <2>6, <2>9
    <2>12. \A j \in Keys \ {k} : given'[j] = given[j]
      BY <1>6, <2>3
    <2>13. /\ [j \in Keys |-> Served(j)]' \in [Keys -> Nat]
           /\ [j \in Keys |-> Served(j)]'[k] > 0
           /\ \A j \in Keys \ {k} : [i \in Keys |-> Served(i)]'[j] = [i \in Keys |-> Served(i)][j]
      BY <2>10, <2>11, <2>12
    <2>14. outlasted \/ [j \in Keys |-> Served(j)]'[k] >= [j \in Keys |-> Served(j)][k]
      BY <2>11
    <2>15. [j \in Keys |-> lastGood[j].ttl]' = [[j \in Keys |-> lastGood[j].ttl] EXCEPT ![k] = Retention]
      BY <2>5
    <2> HIDE DEF given
    <2>16. Promise!Refresh(k)
      BY <2>7, <2>13, <2>14, <2>15, Zenon DEF Promise!Refresh
    <2> QED BY <2>16 DEF Promise!Next
  <1> QED BY <1>3, <1>4, <1>5, QuietOrNot

\* The cache implements AssetPromise: a reader is never given an older snapshot, a failed
\* refresh takes nothing away and the last good copy bridges the end of the current one
\* (_write_success_snapshot, _write_failed_snapshot, _read_cached_payload).
THEOREM PromiseKept == Spec => KeepsPromise
  <1>1. IInv /\ [Next]_vars => IInv'
    BY TypeStep, CopiesStep, NotAheadStep, HolderStep, ResultStep DEF IInv
  <1>2. IInv /\ IInv' /\ [Next]_vars => [Promise!Next]_(Promise!vars)
    BY PromisedStep DEF IInv
  <1> QED BY Starts, PromisedInit, <1>1, <1>2, PTL DEF Spec, KeepsPromise, Promise!Spec

-----------------------------------------------------------------------------
(* The coverage of a day (DataAssetHealth)                                 *)

\* The sets of stocks a day's coverage is computed from.
HealthSets ==
  /\ active \subseteq Universe /\ suspended \subseteq Universe /\ core \subseteq Universe
  /\ asset \subseteq Universe \X (1..StoredBars)

\* The smaller count and the truncated difference are counts.
LEMMA CountsAreCounts ==
  ASSUME NEW m \in Nat, NEW n \in Nat
  PROVE  Smaller(m, n) \in Nat /\ Above(m, n) \in Nat
BY SMT DEF Smaller, Above

\* Removing from a finite set some of its members removes as many from its count.
LEMMA CountOfRest ==
  ASSUME NEW S, IsFiniteSet(S), NEW T, T \subseteq S
  PROVE  /\ IsFiniteSet(T) /\ IsFiniteSet(S \ T)
         /\ Cardinality(S) \in Nat /\ Cardinality(T) \in Nat /\ Cardinality(S \ T) \in Nat
         /\ Cardinality(S \ T) = Cardinality(S) - Cardinality(T)
<1>1. IsFiniteSet(T) BY FS_Subset
<1>2. IsFiniteSet(S \ T) /\ Cardinality(S \ T) = Cardinality(S) - Cardinality(S \cap T)
  BY FS_Difference
<1>3. S \cap T = T OBVIOUS
<1>4. Cardinality(S) \in Nat /\ Cardinality(T) \in Nat /\ Cardinality(S \ T) \in Nat
  BY <1>1, <1>2, FS_CardinalityType
<1> QED BY <1>1, <1>2, <1>3, <1>4

\* Of an expected universe with p rows, e stopped and n silent stocks and g gaps that neither
\* explains, the coverage calls the g missing and exempts the others.
LEMMA CoverageSubtracts ==
  ASSUME NEW a \in Nat, NEW p \in Nat, NEW e \in Nat, NEW n \in Nat, NEW g \in Nat,
         a = p + e + n + g
  PROVE  CoverageOf(a, p, e, n) = [exempt |-> e + n, missing |-> g]
<1>1. Above(a, p) = e + n + g BY SMT DEF Above
<1>2. Smaller(e + n + g, e) = e BY SMT DEF Smaller
<1>3. Above(e + n + g, e) = n + g BY SMT DEF Above
<1>4. Smaller(n + g, n) = n BY SMT DEF Smaller
<1>5. Above(e + n + g, e + n) = g BY SMT DEF Above
<1> QED BY <1>1, <1>2, <1>3, <1>4, <1>5 DEF CoverageOf

\* With fewer rows counted than there are stocks with rows, no gap is hidden.
LEMMA CoverageHidesNone ==
  ASSUME NEW a \in Nat, NEW p \in Nat, NEW h \in Nat, NEW e \in Nat, NEW n \in Nat, NEW g \in Nat,
         a = h + e + n + g, p <= h
  PROVE  CoverageOf(a, p, e, n).missing >= g
<1> DEFINE r == a - p
<1>1. r \in Nat /\ r >= e + n + g /\ Above(a, p) = r BY SMT DEF Above
<1> HIDE DEF r
<1>2. Smaller(r, e) = e BY <1>1, SMT DEF Smaller
<1>3. Above(r, e) = r - e BY <1>1, SMT DEF Above
<1>4. Smaller(r - e, n) = n BY <1>1, SMT DEF Smaller
<1>5. Above(r, e + n) >= g BY <1>1, SMT DEF Above
<1> QED BY <1>1, <1>2, <1>3, <1>4, <1>5 DEF CoverageOf

\* The days a number of rows makes up, rounded up.
LEMMA DaysOf ==
  ASSUME NEW d \in Nat \ {0}, NEW m \in Nat, NEW h \in Nat, m <= h * d
  PROVE  /\ (m + d - 1) \div d \in Nat
         /\ (m + d - 1) \div d <= h
         /\ m = h * d => (m + d - 1) \div d = h
<1> DEFINE q == (m + d - 1) \div d
<1>1. q \in Int /\ d * q <= m + d - 1 /\ m + d - 1 < d * q + d
  BY SMT
<1> HIDE DEF q
<1>2. q >= 0
  <2>1. SUFFICES ASSUME q <= -1 PROVE FALSE BY <1>1
  <2>2. d * q <= -d BY <1>1, <2>1, SMT
  <2> QED BY <1>1, <2>2, SMT
<1>3. q <= h
  <2>1. SUFFICES ASSUME q >= h + 1 PROVE FALSE BY <1>1
  <2>2. d * q >= d * (h + 1) BY <1>1, <2>1, SMT
  <2>3. d * (h + 1) = h * d + d BY SMT
  <2> QED BY <1>1, <2>2, <2>3, SMT
<1>4. ASSUME m = h * d PROVE q >= h
  <2>1. SUFFICES ASSUME q <= h - 1 PROVE FALSE BY <1>1
  <2>2. d * q <= d * (h - 1) BY <1>1, <2>1, SMT
  <2>3. d * (h - 1) = h * d - d BY SMT
  <2> QED BY <1>1, <1>4, <2>2, <2>3, SMT
<1>5. q \in Nat BY <1>1, <1>2
<1>6. m = h * d => q = h BY <1>1, <1>3, <1>4
<1> QED BY <1>3, <1>5, <1>6 DEF q

\* An asset whose stocks have no minute twice counts no more stocks than have rows, and just as
\* many when they have whole sessions.
LEMMA CountOfAsset ==
  ASSUME UniverseAssumption, BarsAssumption, HealthSets, OneSource
  PROVE  /\ Cardinality(WithRows) \in Nat /\ ActualCount \in Nat
         /\ ActualCount <= Cardinality(WithRows)
         /\ WholeDays => ActualCount = Cardinality(WithRows)
<1>1. IsFiniteSet(WithRows) /\ Cardinality(WithRows) \in Nat
  BY FS_Subset, FS_CardinalityType DEF WithRows, UniverseAssumption
<1>2. CASE frequency # "minute"
  BY <1>1, <1>2 DEF ActualCount
<1>3. CASE frequency = "minute"
  <2> DEFINE Grid == WithRows \X (1..DayBars)  m == Cardinality(asset)  h == Cardinality(WithRows)
  <2>1. DayBars \in Nat \ {0} BY DEF BarsAssumption
  <2>2. IsFiniteSet(1..DayBars) /\ Cardinality(1..DayBars) = DayBars
    BY <2>1, FS_Interval
  <2>3. IsFiniteSet(Grid) /\ Cardinality(Grid) = h * DayBars
    BY <1>1, <2>2, FS_Product
  <2>4. IsFiniteSet(asset) /\ m <= h * DayBars /\ m \in Nat
    BY <1>3, <2>3, FS_Subset, FS_CardinalityType DEF OneSource
  <2>5. WholeDays => m = h * DayBars BY <1>3, <2>3 DEF WholeDays
  <2>6. ActualCount = (m + DayBars - 1) \div DayBars BY <1>3 DEF ActualCount
  <2> HIDE DEF m, h, Grid
  <2>7. h \in Nat BY <1>1 DEF h
  <2> QED BY <2>1, <2>4, <2>5, <2>6, <2>7, DaysOf DEF h
<1> QED BY <1>2, <1>3

\* When no stock that is suspended, silent or out of the universe has a row, the active stocks
\* are those with a row, the suspended, the silent, and those the report calls missing.
LEMMA UniverseSplits ==
  ASSUME UniverseAssumption, HealthSets, Expected
  PROVE  /\ Cardinality(WithRows) \in Nat /\ SuspendedCount \in Nat /\ NoRecordCount \in Nat
         /\ IsFiniteSet(Because("missing_data"))
         /\ Cardinality(Because("missing_data")) \in Nat
         /\ Cardinality(active) = Cardinality(WithRows) + SuspendedCount + NoRecordCount
                                    + Cardinality(Because("missing_data"))
<1> DEFINE Stopped == active \cap suspended
           Rest == Gaps \ Stopped
<1>0. IsFiniteSet(active) BY FS_Subset DEF UniverseAssumption, HealthSets
<1>1. WithRows \subseteq active /\ Stopped \subseteq Gaps /\ NoRecord \subseteq Rest
  BY DEF Expected, Gaps, NoRecord
<1>2. Because("missing_data") = Rest \ NoRecord
  <2>1. ASSUME NEW s \in Gaps
        PROVE  (Reason(s) = "missing_data") <=> (s \notin suspended /\ s \in core)
    BY DEF Reason
  <2> QED BY <2>1 DEF Because, Gaps, NoRecord
<1>3. /\ IsFiniteSet(Gaps) /\ Cardinality(active) \in Nat /\ Cardinality(WithRows) \in Nat
      /\ Cardinality(Gaps) \in Nat /\ Cardinality(Gaps) = Cardinality(active) - Cardinality(WithRows)
  BY <1>0, <1>1, CountOfRest DEF Gaps
<1>4. /\ IsFiniteSet(Rest) /\ Cardinality(Stopped) \in Nat /\ Cardinality(Rest) \in Nat
      /\ Cardinality(Rest) = Cardinality(Gaps) - Cardinality(Stopped)
  BY <1>1, <1>3, CountOfRest
<1>5. /\ IsFiniteSet(Rest \ NoRecord) /\ Cardinality(NoRecord) \in Nat
      /\ Cardinality(Rest \ NoRecord) \in Nat
      /\ Cardinality(Rest \ NoRecord) = Cardinality(Rest) - Cardinality(NoRecord)
  BY <1>1, <1>4, CountOfRest
<1>6. SuspendedCount = Cardinality(Stopped) /\ NoRecordCount = Cardinality(NoRecord)
  BY DEF SuspendedCount, NoRecordCount
<1> HIDE DEF Stopped, Rest
<1>7. IsFiniteSet(Because("missing_data")) /\ Cardinality(Because("missing_data")) \in Nat
  BY <1>2, <1>5
<1>8. Cardinality(Because("missing_data"))
        = Cardinality(active) - Cardinality(WithRows) - Cardinality(Stopped) - Cardinality(NoRecord)
  BY <1>2, <1>3, <1>4, <1>5
<1>9. Cardinality(active) = Cardinality(WithRows) + SuspendedCount + NoRecordCount
                              + Cardinality(Because("missing_data"))
  BY <1>3, <1>4, <1>5, <1>6, <1>7, <1>8
<1> QED BY <1>3, <1>4, <1>5, <1>6, <1>7, <1>9

\* Counts and report agree on any finite sets of stocks.
LEMMA SetsAgree ==
  ASSUME UniverseAssumption, BarsAssumption, HealthSets PROVE CoverageAgrees
<1> SUFFICES ASSUME Expected, OneSource
             PROVE  /\ Coverage.missing >= Cardinality(Because("missing_data"))
                    /\ HealthStatus = "ok" => Because("missing_data") = {}
                    /\ WholeDays => /\ Coverage.missing = Cardinality(Because("missing_data"))
                                    /\ (HealthStatus = "ok") = (Because("missing_data") = {})
  BY DEF CoverageAgrees
<1> DEFINE a == Cardinality(active)  p == ActualCount  h == Cardinality(WithRows)
           e == SuspendedCount  n == NoRecordCount  g == Cardinality(Because("missing_data"))
<1>1. /\ p \in Nat /\ h \in Nat /\ e \in Nat /\ n \in Nat /\ g \in Nat
      /\ a = h + e + n + g /\ p <= h
  BY UniverseSplits, CountOfAsset
<1>2. a \in Nat BY <1>1
<1>3. Coverage = CoverageOf(a, p, e, n) BY DEF Coverage
<1>4. Coverage.missing >= g
  <2> HIDE DEF a, p, h, e, n, g
  <2> QED BY <1>1, <1>2, <1>3, CoverageHidesNone
<1>5. (g = 0) <=> (Because("missing_data") = {}) BY UniverseSplits, FS_EmptySet
<1>6. HealthStatus = "ok" => Coverage.missing = 0 BY DEF HealthStatus
<1>7. HealthStatus = "ok" => g = 0
  <2> HIDE DEF g
  <2> QED BY <1>1, <1>4, <1>6
<1>8. ASSUME WholeDays
      PROVE  Coverage.missing = g /\ (g = 0 => HealthStatus = "ok")
  <2>1. p = h BY <1>8, CountOfAsset
  <2>2. Coverage = [exempt |-> e + n, missing |-> g]
    <3> HIDE DEF a, p, h, e, n, g
    <3> QED BY <1>1, <1>2, <1>3, <2>1, CoverageSubtracts
  <2>3. ASSUME g = 0 PROVE HealthStatus = "ok"
    <3> HIDE DEF a, p, h, e, n, g
    <3>1. (p + (e + n)) * 1000 >= 995 * a BY <1>1, <2>1, <2>3
    <3>2. (ActualCount + Coverage.exempt) * 1000 >= 995 * Cardinality(active)
      BY <2>2, <3>1 DEF a, p
    <3> QED BY <2>2, <2>3, <3>2 DEF HealthStatus
  <2> QED BY <2>2, <2>3
<1> QED BY <1>4, <1>5, <1>7, <1>8

\* On every day, of daily rows and of minutes, the count of missing stocks is at least the
\* number of gaps the report cannot explain, so no healthy day has one; where the stocks with
\* rows have them all the two are equal, and the day is healthy exactly when there is none
\* (batch_stock_daily_coverages, stock_daily_gap_report).
THEOREM CountsAndReportAgree == HealthSpec => []CoverageAgrees
<1>1. HealthInit => HealthSets BY DEF HealthInit, HealthSets
<1>2. HealthSets /\ [HealthNext]_healthVars => HealthSets'
  BY DEF HealthSets, HealthNext, Ingested, healthVars
<1>3. HealthSets => CoverageAgrees BY UniverseAssumption, BarsAssumption, SetsAgree
<1> QED BY <1>1, <1>2, <1>3, PTL DEF HealthSpec

-----------------------------------------------------------------------------
(* The emotion models (MarketEmotion)                                      *)

\* What a request saw when it was allowed, and of which model.
RequestsSaw ==
  \A u \in Users :
    req[u].kind = "calibrate" => req[u].seen \in {"draft", "calibrating", "ready"}

\* The job works on one model, and a baseline loaded one that was not in use.
JobSaw ==
  job.at # "idle" =>
    /\ \E m \in Models : job.m = {m}
    /\ job.mode = "baseline" => job.seen \in {"draft", "calibrating", "ready"}
    /\ job.at \in {"resolved", "end"} => job.mode = "baseline"

\* The model of the job is ready only before the job touches it, and was so when it was
\* loaded.
NotReadyMeanwhile ==
  job.at # "idle" => \A m \in job.m :
    model[m].status = "ready" => job.at = "resolved" /\ job.seen = "ready"

\* The rows of the days the job has scored are those it computed.
ScoredAreWritten ==
  /\ job.at \in {"idle", "resolved", "load"} => job.scored = {}
  /\ \A m \in job.m, d \in job.scored :
       scores[m][d] = [p |-> job.p, good |-> d \in job.known]

EmotionInv ==
  /\ EmotionTypeOK /\ RequestsSaw /\ JobSaw /\ NotReadyMeanwhile /\ ScoredAreWritten
  /\ ReadyIsCalibrated

-----------------------------------------------------------------------------
(* Types. *)

LEMMA AssignedTyped ==
  ASSUME EmotionTypeOK, NEW m \in Models, NEW seen
  PROVE  /\ Assigned(m, seen, "calibrating") \in Statuses
         /\ Assigned(m, seen, "ready") \in Statuses
BY DEF EmotionTypeOK, ModelRow, Assigned, Statuses

\* The job writes the status and the completeness of one model.
Writes(m, status, complete) ==
  model' = [model EXCEPT ![m].status = status, ![m].complete = complete]

LEMMA WritesOne ==
  ASSUME EmotionTypeOK, NEW m \in Models, NEW status \in Statuses, NEW complete \in BOOLEAN,
         Writes(m, status, complete)
  PROVE  /\ model' \in [Models -> ModelRow] /\ model'[m].status = status
         /\ \A o \in Models \ {m} : model'[o] = model[o]
<1>1. model \in [Models -> ModelRow]
  BY DEF EmotionTypeOK
<1>2. /\ model' = [o \in Models |-> model'[o]]
      /\ model'[m] = [[model[m] EXCEPT !.status = status] EXCEPT !.complete = complete]
      /\ \A o \in Models \ {m} : model'[o] = model[o]
  BY <1>1 DEF Writes
<1>3. PICK row \in ModelRow : row = model[m]
  BY <1>1
<1>4. model'[m] = [status |-> status, p |-> row.p, complete |-> complete]
  BY <1>2, <1>3 DEF ModelRow
<1>5. model'[m] \in ModelRow /\ model'[m].status = status
  BY <1>3, <1>4 DEF ModelRow
<1> QED BY <1>1, <1>2, <1>5

LEMMA ProgressWrites ==
  ASSUME EmotionTypeOK, NEW m \in Models, NEW seen,
         Writes(m, Assigned(m, seen, "calibrating"), FALSE)
  PROVE  /\ model' \in [Models -> ModelRow]
         /\ model'[m].status = Assigned(m, seen, "calibrating")
         /\ \A o \in Models \ {m} : model'[o] = model[o]
<1>1. PICK status \in Statuses : status = Assigned(m, seen, "calibrating")
  BY AssignedTyped
<1>2. Writes(m, status, FALSE)
  BY <1>1
<1> QED BY <1>1, <1>2, WritesOne

LEMMA EndWrites ==
  ASSUME EmotionTypeOK, NEW m \in Models, EndBaseline(m)
  PROVE  /\ model' \in [Models -> ModelRow]
         /\ model'[m].status =
              Assigned(m, job.seen, IF BaselineComplete THEN "ready" ELSE "calibrating")
         /\ \A o \in Models \ {m} : model'[o] = model[o]
<1>0. PICK complete \in BOOLEAN : complete = BaselineComplete
  <2>1. BaselineComplete \in BOOLEAN
    BY DEF BaselineComplete
  <2> QED BY <2>1
<1>1. PICK status \in Statuses :
        status = Assigned(m, job.seen, IF complete THEN "ready" ELSE "calibrating")
  BY AssignedTyped
<1>2. Writes(m, status, complete)
  BY <1>0, <1>1 DEF EndBaseline, Writes
<1>3. /\ model' \in [Models -> ModelRow] /\ model'[m].status = status
      /\ \A o \in Models \ {m} : model'[o] = model[o]
  BY <1>2, WritesOne
<1> QED BY <1>0, <1>1, <1>3

LEMMA NothingTyped ==
  ASSUME EmotionAssumption PROVE NoRequest \in RequestRow /\ NoJob \in JobRow
<1>1. NoRequest \in RequestRow
  BY DEF NoRequest, RequestRow, Statuses
<1>2. 0 \in Params
  BY DEF Params, EmotionAssumption
<1>3. NoJob \in JobRow
  BY <1>2 DEF NoJob, JobRow, Statuses
<1> QED BY <1>1, <1>3

LEMMA RequestsTyped ==
  ASSUME EmotionAssumption, EmotionTypeOK, NEW m \in Models, NEW u \in Users,
         \/ \E kind \in {"edit", "calibrate", "activate"} : Read(u, kind, m)
         \/ Edit(u, m) \/ Calibrate(u, m) \/ SelectActive(u, m) \/ Publish(u, m)
  PROVE  EmotionTypeOK'
<1>0. NoRequest \in RequestRow /\ model[m] \in ModelRow /\ req[u] \in RequestRow
  BY NothingTyped DEF EmotionTypeOK
<1>1. ASSUME NEW kind \in {"edit", "calibrate", "activate"}, Read(u, kind, m)
      PROVE  EmotionTypeOK'
  <2>1. [kind |-> kind, m |-> {m}, seen |-> model[m].status, others |-> {}] \in RequestRow
    BY <1>0 DEF RequestRow, ModelRow
  <2>2. req' \in [Users -> RequestRow]
    BY <1>1, <2>1 DEF EmotionTypeOK, Read
  <2> QED BY <1>1, <2>2 DEF EmotionTypeOK, Read
<1>2. CASE Edit(u, m)
  <2>1. edits' \in Params /\ req' \in [Users -> RequestRow]
    BY <1>0, <1>2 DEF EmotionTypeOK, Edit, Params, EmotionAssumption
  <2>2. model' = [model EXCEPT ![m] = [model[m] EXCEPT !.p = edits']]
    BY <1>2 DEF Edit, EmotionTypeOK
  <2>3. [model[m] EXCEPT !.p = edits'] \in ModelRow
    BY <1>0, <2>1 DEF ModelRow
  <2>4. model' \in [Models -> ModelRow]
    BY <2>2, <2>3 DEF EmotionTypeOK
  <2> QED BY <1>2, <2>1, <2>4 DEF EmotionTypeOK, Edit
<1>3. CASE Calibrate(u, m)
  <2>1. model' \in [Models -> ModelRow] /\ req' \in [Users -> RequestRow]
    <3>1. Writes(m, Assigned(m, req[u].seen, "calibrating"), FALSE)
      BY <1>3 DEF Calibrate, Writes
    <3>2. req' \in [Users -> RequestRow]
      BY <1>0, <1>3 DEF Calibrate, EmotionTypeOK
    <3> QED BY <3>1, <3>2, ProgressWrites
  <2> QED BY <1>3, <2>1 DEF EmotionTypeOK, Calibrate
<1>4. CASE SelectActive(u, m)
  <2>1. PICK others \in SUBSET Models : others = {o \in Models \ {m} : model[o].status = "active"}
    OBVIOUS
  <2>2. req' = [req EXCEPT ![u] = [[req[u] EXCEPT !.kind = "publish"] EXCEPT !.others = others]]
    BY <1>4, <2>1 DEF SelectActive, EmotionTypeOK
  <2>3. [[req[u] EXCEPT !.kind = "publish"] EXCEPT !.others = others] \in RequestRow
    BY <1>0, <2>1 DEF RequestRow
  <2>4. req' \in [Users -> RequestRow]
    BY <2>2, <2>3 DEF EmotionTypeOK
  <2> QED BY <1>4, <2>4 DEF EmotionTypeOK, SelectActive
<1>5. CASE Publish(u, m)
  <2>1. \A o \in Models : \A s \in {"active", "archived"} : [model[o] EXCEPT !.status = s] \in ModelRow
    BY DEF EmotionTypeOK, ModelRow, Statuses
  <2>2. model' \in [Models -> ModelRow]
    BY <1>5, <2>1 DEF EmotionTypeOK, Publish
  <2>3. req' \in [Users -> RequestRow]
    BY <1>0, <1>5 DEF EmotionTypeOK, Publish
  <2> QED BY <1>5, <2>2, <2>3 DEF EmotionTypeOK, Publish
<1> QED BY <1>1, <1>2, <1>3, <1>4, <1>5

LEMMA JobTyped ==
  ASSUME EmotionAssumption, EmotionTypeOK, NEW m \in Models,
         \/ BeginBaseline(m) \/ SaveBatch(m) \/ Checkpoint(m) \/ EndBaseline(m)
         \/ \E mode \in {"daily", "baseline"}, first \in Dates, last \in Dates :
              Resolve(mode, m, first, last)
  PROVE  EmotionTypeOK'
<1>0. NoJob \in JobRow /\ job \in JobRow
  BY NothingTyped DEF EmotionTypeOK
<1>1. ASSUME NEW mode \in {"daily", "baseline"}, NEW first \in Dates, NEW last \in Dates,
             Resolve(mode, m, first, last)
      PROVE  EmotionTypeOK'
  <2>1. first .. last \subseteq Dates
    BY DEF Dates, EmotionAssumption
  <2>2. emotionRuns' \in 0 .. MaxEmotionRuns
    BY <1>1 DEF EmotionTypeOK, Resolve, EmotionAssumption
  <2>3. model[m].status \in Statuses /\ model[m].p \in Params
    BY DEF EmotionTypeOK, ModelRow
  <2>4. job' \in JobRow
    BY <1>1, <2>1, <2>3 DEF JobRow, Resolve
  <2> QED BY <1>1, <2>2, <2>4 DEF EmotionTypeOK, Resolve
<1>2. CASE BeginBaseline(m)
  <2>1. job' \in JobRow
    BY <1>0, <1>2 DEF JobRow, BeginBaseline, Statuses
  <2>2. Writes(m, Assigned(m, job.seen, "calibrating"), FALSE)
    BY <1>2 DEF BeginBaseline, Progress, Writes
  <2>3. model' \in [Models -> ModelRow]
    BY <2>2, ProgressWrites
  <2> QED BY <1>2, <2>1, <2>3 DEF EmotionTypeOK, BeginBaseline
<1>4. CASE SaveBatch(m)
  <2>1. job.left \ Batch \subseteq Dates /\ job.scored \cup Batch \subseteq Dates
    BY <1>0 DEF JobRow, Batch
  <2>2. job' \in JobRow
    BY <1>0, <1>4, <2>1 DEF JobRow, SaveBatch
  <2>3. \A d \in Dates : [p |-> job.p, good |-> d \in job.known] \in [p: Params \cup {-1}, good: BOOLEAN]
    BY <1>0 DEF JobRow
  <2>4. scores' \in [Models -> [Dates -> [p: Params \cup {-1}, good: BOOLEAN]]]
    BY <1>4, <2>3 DEF EmotionTypeOK, SaveBatch
  <2> QED BY <1>4, <2>2, <2>4 DEF EmotionTypeOK, SaveBatch
<1>5. CASE Checkpoint(m)
  <2>1. job' \in JobRow
    <3>1. [job EXCEPT !.at = "score"] \in JobRow /\ [job EXCEPT !.at = "end"] \in JobRow
      BY <1>0 DEF JobRow
    <3> QED BY <1>0, <1>5, <3>1 DEF Checkpoint
  <2>2. model' \in [Models -> ModelRow]
    <3>1. CASE Progress(m)
      <4>1. Writes(m, Assigned(m, job.seen, "calibrating"), FALSE)
        BY <3>1 DEF Progress, Writes
      <4> QED BY <4>1, ProgressWrites
    <3>2. CASE UNCHANGED model
      BY <3>2 DEF EmotionTypeOK
    <3> QED BY <1>5, <3>1, <3>2 DEF Checkpoint
  <2> QED BY <1>5, <2>1, <2>2 DEF EmotionTypeOK, Checkpoint
<1>6. CASE EndBaseline(m)
  <2>1. model' \in [Models -> ModelRow]
    BY <1>6, EndWrites
  <2> QED BY <1>0, <1>6, <2>1 DEF EmotionTypeOK, EndBaseline
<1> QED BY <1>1, <1>2, <1>4, <1>5, <1>6

LEMMA JobWithoutModel ==
  ASSUME EmotionAssumption, EmotionTypeOK, LoadInputs \/ Stop PROVE EmotionTypeOK'
<1>0. NoJob \in JobRow /\ job \in JobRow
  BY NothingTyped DEF EmotionTypeOK
<1>1. CASE LoadInputs
  <2>1. job' \in JobRow
    BY <1>0, <1>1 DEF JobRow, LoadInputs, EmotionTypeOK
  <2> QED BY <1>1, <2>1 DEF EmotionTypeOK, LoadInputs
<1>2. CASE Stop
  <2>1. turns' \in 0 .. MaxTurns
    BY <1>2 DEF EmotionTypeOK, Stop, EmotionAssumption
  <2> QED BY <1>0, <1>2, <2>1 DEF EmotionTypeOK, Stop
<1> QED BY <1>1, <1>2

LEMMA EmotionTypes ==
  ASSUME EmotionAssumption, EmotionTypeOK, [EmotionNext]_emotionVars
  PROVE  EmotionTypeOK'
<1>1. CASE UNCHANGED emotionVars
  BY <1>1 DEF EmotionTypeOK, emotionVars
<1>2. ASSUME NEW m \in Models, NEW p \in Params, CreateDraft(m, p) PROVE EmotionTypeOK'
  <2>1. [status |-> "draft", p |-> p, complete |-> FALSE] \in ModelRow
    BY DEF ModelRow, Statuses
  <2>2. model' \in [Models -> ModelRow]
    BY <1>2, <2>1 DEF EmotionTypeOK, CreateDraft
  <2> QED BY <1>2, <2>2 DEF EmotionTypeOK, CreateDraft
<1>3. ASSUME NEW d \in Dates, FactsTurn(d) PROVE EmotionTypeOK'
  <2>1. turns' \in 0 .. MaxTurns
    BY <1>3 DEF EmotionTypeOK, FactsTurn, EmotionAssumption
  <2>2. covered' \subseteq Dates
    BY <1>3 DEF EmotionTypeOK, FactsTurn
  <2> QED BY <1>3, <2>1, <2>2 DEF EmotionTypeOK, FactsTurn
<1>4. CASE \E m \in Models, u \in Users :
             \/ \E kind \in {"edit", "calibrate", "activate"} : Read(u, kind, m)
             \/ Edit(u, m) \/ Calibrate(u, m) \/ SelectActive(u, m) \/ Publish(u, m)
  BY <1>4, RequestsTyped
<1>5. CASE LoadInputs \/ Stop
  BY <1>5, JobWithoutModel
<1>6. CASE \E m \in Models :
             \/ BeginBaseline(m) \/ SaveBatch(m) \/ Checkpoint(m) \/ EndBaseline(m)
             \/ \E mode \in {"daily", "baseline"}, first \in Dates, last \in Dates :
                  Resolve(mode, m, first, last)
  BY <1>6, JobTyped
<1> QED BY <1>1, <1>2, <1>3, <1>4, <1>5, <1>6 DEF EmotionNext

-----------------------------------------------------------------------------
(* Requests. *)

\* A step that makes no model ready and leaves the job and the rows alone.
LEMMA JobUndisturbed ==
  ASSUME EmotionInv, UNCHANGED <<scores, job>>,
         \A m \in Models : model'[m].status = "ready" => model[m].status = "ready"
  PROVE  JobSaw' /\ NotReadyMeanwhile' /\ ScoredAreWritten' /\ ReadyIsCalibrated'
<1>1. JobSaw' /\ ScoredAreWritten'
  BY DEF EmotionInv, JobSaw, ScoredAreWritten
<1>2. NotReadyMeanwhile'
  BY DEF EmotionInv, NotReadyMeanwhile, EmotionTypeOK, JobRow
<1>3. ReadyIsCalibrated'
  BY DEF EmotionInv, ReadyIsCalibrated, Usable
<1> QED BY <1>1, <1>2, <1>3

\* The status a stale session leaves.
LEMMA AssignedCalibrating ==
  ASSUME NEW m \in Models, NEW seen
  PROVE  /\ Assigned(m, seen, "calibrating") \in {"calibrating", model[m].status}
         /\ seen = "ready" => Assigned(m, seen, "calibrating") = "calibrating"
BY DEF Assigned

LEMMA RequestsKeep ==
  ASSUME EmotionInv, EmotionTypeOK', NEW m \in Models, NEW u \in Users,
         \/ \E kind \in {"edit", "calibrate", "activate"} : Read(u, kind, m)
         \/ Edit(u, m) \/ Calibrate(u, m) \/ SelectActive(u, m) \/ Publish(u, m)
  PROVE  EmotionInv'
<1>0. EmotionTypeOK /\ RequestsSaw
  BY DEF EmotionInv
<1>1. UNCHANGED <<scores, job>>
  BY DEF Read, Edit, Calibrate, SelectActive, Publish
<1>2. RequestsSaw'
  <2>1. ASSUME NEW kind \in {"edit", "calibrate", "activate"}, Read(u, kind, m)
        PROVE  RequestsSaw'
    <3>1. kind = "calibrate" => model[m].status \in {"draft", "calibrating", "ready"}
      BY <2>1 DEF Read, Allowed
    <3> QED BY <1>0, <2>1, <3>1 DEF Read, RequestsSaw, EmotionTypeOK, RequestRow, ModelRow
  <2>2. CASE Edit(u, m) \/ Calibrate(u, m) \/ Publish(u, m)
    <3>1. req' = [req EXCEPT ![u] = NoRequest] /\ NoRequest.kind = "none"
      BY <2>2 DEF Edit, Calibrate, Publish, NoRequest
    <3> QED BY <1>0, <3>1 DEF RequestsSaw, EmotionTypeOK, RequestRow
  <2>3. CASE SelectActive(u, m)
    <3>1. req'[u].kind = "publish" /\ \A v \in Users \ {u} : req'[v] = req[v]
      BY <1>0, <2>3 DEF SelectActive, EmotionTypeOK, RequestRow
    <3> QED BY <1>0, <3>1 DEF RequestsSaw
  <2> QED BY <2>1, <2>2, <2>3
<1>3. \A o \in Models : model'[o].status = "ready" => model[o].status = "ready"
  <2>1. CASE UNCHANGED model
    BY <2>1
  <2>2. CASE Edit(u, m)
    BY <1>0, <2>2 DEF Edit, EmotionTypeOK, ModelRow
  <2>3. CASE Calibrate(u, m)
    <3>1. Writes(m, Assigned(m, req[u].seen, "calibrating"), FALSE)
      BY <2>3 DEF Calibrate, Writes
    <3>2. /\ model'[m].status = Assigned(m, req[u].seen, "calibrating")
          /\ \A o \in Models \ {m} : model'[o] = model[o]
      BY <1>0, <3>1, ProgressWrites
    <3> QED BY <3>2, AssignedCalibrating
  <2>4. CASE Publish(u, m)
    BY <1>0, <2>4 DEF Publish, EmotionTypeOK, ModelRow
  <2> QED BY <2>1, <2>2, <2>3, <2>4 DEF Read, SelectActive
<1> QED BY <1>1, <1>2, <1>3, JobUndisturbed DEF EmotionInv

-----------------------------------------------------------------------------
(* The job. *)

LEMMA ResolveKeeps ==
  ASSUME EmotionInv, EmotionTypeOK', NEW m \in Models, NEW mode \in {"daily", "baseline"},
         NEW first \in Dates, NEW last \in Dates, Resolve(mode, m, first, last)
  PROVE  EmotionInv'
<1>1. /\ UNCHANGED <<model, scores, req>>
      /\ job'.m = {m} /\ job'.mode = mode /\ job'.seen = model[m].status /\ job'.scored = {}
      /\ job'.at = IF mode = "daily" THEN "load" ELSE "resolved"
  BY DEF Resolve
<1>2. /\ mode = "daily" => model[m].status = "active"
      /\ mode = "baseline" => model[m].status \in {"draft", "calibrating", "ready"}
  BY DEF Resolve, Resolves
<1>3. RequestsSaw' /\ ReadyIsCalibrated'
  BY <1>1 DEF EmotionInv, RequestsSaw, ReadyIsCalibrated, Usable
<1>4. JobSaw'
  BY <1>1, <1>2 DEF JobSaw
<1>5. NotReadyMeanwhile' /\ ScoredAreWritten'
  BY <1>1, <1>2 DEF NotReadyMeanwhile, ScoredAreWritten
<1> QED BY <1>3, <1>4, <1>5 DEF EmotionInv

\* A step that rewrites the model the job works on as being calibrated.
LEMMA ProgressKeeps ==
  ASSUME EmotionInv, NEW m \in Models, job.at # "idle", job.m = {m},
         Progress(m), UNCHANGED scores
  PROVE  /\ model'[m].status # "ready" /\ ReadyIsCalibrated'
         /\ \A o \in Models \ {m} : model'[o] = model[o]
<1>1. model[m].status = "ready" => job.seen = "ready"
  BY DEF EmotionInv, NotReadyMeanwhile
<1>2. /\ model'[m].status = Assigned(m, job.seen, "calibrating")
      /\ \A o \in Models \ {m} : model'[o] = model[o]
  <2>1. Writes(m, Assigned(m, job.seen, "calibrating"), FALSE)
    BY DEF Progress, Writes
  <2> QED BY <2>1, ProgressWrites DEF EmotionInv
<1>3. model'[m].status # "ready"
  BY <1>1, <1>2, AssignedCalibrating
<1>4. ReadyIsCalibrated'
  BY <1>2, <1>3 DEF EmotionInv, ReadyIsCalibrated, Usable
<1> QED BY <1>2, <1>3, <1>4

LEMMA BeginKeeps ==
  ASSUME EmotionInv, EmotionTypeOK', NEW m \in Models, BeginBaseline(m)
  PROVE  EmotionInv'
<1>1. /\ job.at = "resolved" /\ m \in job.m /\ Progress(m) /\ UNCHANGED <<scores, req>>
      /\ job' = [job EXCEPT !.at = "load", !.seen = "calibrating"]
  BY DEF BeginBaseline
<1>2. /\ job'.at = "load" /\ job'.seen = "calibrating" /\ job'.m = job.m
      /\ job'.mode = job.mode /\ job'.scored = job.scored
  BY <1>1 DEF EmotionInv, EmotionTypeOK, JobRow
<1>3. job.m = {m} /\ job.scored = {}
  BY <1>1 DEF EmotionInv, JobSaw, ScoredAreWritten
<1>4. model'[m].status # "ready" /\ ReadyIsCalibrated'
  BY <1>1, <1>3, ProgressKeeps
<1>5. RequestsSaw' /\ JobSaw'
  BY <1>1, <1>2, <1>3 DEF EmotionInv, RequestsSaw, JobSaw
<1>6. NotReadyMeanwhile' /\ ScoredAreWritten'
  BY <1>2, <1>3, <1>4 DEF NotReadyMeanwhile, ScoredAreWritten
<1> QED BY <1>4, <1>5, <1>6 DEF EmotionInv

LEMMA LoadKeeps ==
  ASSUME EmotionInv, EmotionTypeOK', LoadInputs
  PROVE  EmotionInv'
<1>1. /\ job.at = "load" /\ UNCHANGED <<model, scores, req>>
      /\ job' = [job EXCEPT !.at = "score", !.known = covered]
  BY DEF LoadInputs
<1>2. /\ job'.at = "score" /\ job'.seen = job.seen /\ job'.m = job.m
      /\ job'.mode = job.mode /\ job'.scored = job.scored
  BY <1>1 DEF EmotionInv, EmotionTypeOK, JobRow
<1>3. job.scored = {}
  BY <1>1 DEF EmotionInv, ScoredAreWritten
<1>4. RequestsSaw' /\ JobSaw' /\ ReadyIsCalibrated'
  BY <1>1, <1>2 DEF EmotionInv, RequestsSaw, JobSaw, ReadyIsCalibrated, Usable
<1>5. NotReadyMeanwhile' /\ ScoredAreWritten'
  BY <1>1, <1>2, <1>3 DEF EmotionInv, NotReadyMeanwhile, ScoredAreWritten
<1> QED BY <1>4, <1>5 DEF EmotionInv

LEMMA SaveKeeps ==
  ASSUME EmotionInv, EmotionTypeOK', NEW m \in Models, SaveBatch(m)
  PROVE  EmotionInv'
<1> DEFINE row(d) == [p |-> job.p, good |-> d \in job.known]
<1>1. /\ job.at = "score" /\ m \in job.m /\ UNCHANGED <<model, req>>
      /\ job' = [job EXCEPT !.at = "checkpoint", !.left = @ \ Batch, !.scored = @ \cup Batch]
  BY DEF SaveBatch
<1>2. /\ \A d \in Dates : scores'[m][d] = IF d \in Batch THEN row(d) ELSE scores[m][d]
      /\ \A o \in Models \ {m} : scores'[o] = scores[o]
  BY DEF SaveBatch, EmotionInv, EmotionTypeOK
<1>3. /\ job'.at = "checkpoint" /\ job'.seen = job.seen /\ job'.m = job.m
      /\ job'.mode = job.mode /\ job'.scored = job.scored \cup Batch
      /\ job'.known = job.known /\ job'.p = job.p
  BY <1>1 DEF EmotionInv, EmotionTypeOK, JobRow
<1>4. job.m = {m} /\ model[m].status # "ready" /\ job.scored \subseteq Dates
  BY <1>1 DEF EmotionInv, JobSaw, NotReadyMeanwhile, EmotionTypeOK, JobRow
<1>5. Batch \subseteq Dates
  BY DEF Batch, EmotionInv, EmotionTypeOK, JobRow
<1>6. RequestsSaw' /\ JobSaw'
  BY <1>1, <1>3 DEF EmotionInv, RequestsSaw, JobSaw
<1>7. NotReadyMeanwhile'
  BY <1>1, <1>3, <1>4 DEF NotReadyMeanwhile
<1>8. ScoredAreWritten'
  <2>1. \A d \in job.scored : scores[m][d] = row(d)
    BY <1>1 DEF EmotionInv, ScoredAreWritten
  <2>2. \A d \in job.scored \cup Batch : scores'[m][d] = row(d)
    BY <1>2, <1>4, <1>5, <2>1
  <2>3. \A d \in job'.scored : scores'[m][d] = [p |-> job'.p, good |-> d \in job'.known]
    BY <1>3, <2>2
  <2> QED BY <1>3, <1>4, <2>3 DEF ScoredAreWritten
<1>9. ReadyIsCalibrated'
  <2>1. ASSUME NEW o \in Models, model'[o].status = "ready"
        PROVE  \E p \in Params : Cardinality(Usable(o, p)') >= BaselineDays
    <3>1. o # m /\ model[o].status = "ready"
      BY <1>1, <1>4, <2>1
    <3>2. \A p \in Params : Usable(o, p)' = Usable(o, p)
      BY <1>2, <3>1 DEF Usable
    <3> QED BY <3>1, <3>2 DEF EmotionInv, ReadyIsCalibrated
  <2> QED BY <2>1 DEF ReadyIsCalibrated
<1> QED BY <1>6, <1>7, <1>8, <1>9 DEF EmotionInv

\* A job that is over.
LEMMA JobOver ==
  ASSUME job' = NoJob
  PROVE  JobSaw' /\ NotReadyMeanwhile' /\ ScoredAreWritten'
BY DEF JobSaw, NotReadyMeanwhile, ScoredAreWritten, NoJob

LEMMA CheckpointKeeps ==
  ASSUME EmotionInv, EmotionTypeOK', NEW m \in Models, Checkpoint(m)
  PROVE  EmotionInv'
<1>1. /\ job.at = "checkpoint" /\ m \in job.m /\ UNCHANGED <<scores, req>>
      /\ IF job.mode = "baseline" THEN Progress(m) ELSE UNCHANGED model
      /\ \/ job' = [job EXCEPT !.at = "score"]
         \/ job.mode = "baseline" /\ job' = [job EXCEPT !.at = "end"]
         \/ job' = NoJob
  BY DEF Checkpoint
<1>2. job.m = {m} /\ model[m].status # "ready"
  BY <1>1 DEF EmotionInv, JobSaw, NotReadyMeanwhile
<1>3. model'[m].status # "ready" /\ ReadyIsCalibrated'
  <2>1. CASE job.mode = "baseline"
    BY <1>1, <1>2, <2>1, ProgressKeeps
  <2>2. CASE job.mode # "baseline"
    BY <1>1, <1>2, <2>2 DEF EmotionInv, ReadyIsCalibrated, Usable
  <2> QED BY <2>1, <2>2
<1>4. RequestsSaw'
  BY <1>1 DEF EmotionInv, RequestsSaw
<1>5. JobSaw' /\ NotReadyMeanwhile' /\ ScoredAreWritten'
  <2>1. CASE job' = NoJob
    BY <2>1, JobOver
  <2>2. ASSUME NEW at \in {"score", "end"}, job' = [job EXCEPT !.at = at],
               at = "end" => job.mode = "baseline"
        PROVE  JobSaw' /\ NotReadyMeanwhile' /\ ScoredAreWritten'
    <3>1. /\ job'.at = at /\ job'.seen = job.seen /\ job'.m = job.m /\ job'.p = job.p
          /\ job'.mode = job.mode /\ job'.scored = job.scored /\ job'.known = job.known
      BY <2>2 DEF EmotionInv, EmotionTypeOK, JobRow
    <3>2. JobSaw'
      BY <1>1, <2>2, <3>1 DEF EmotionInv, JobSaw
    <3>3. NotReadyMeanwhile'
      BY <1>2, <1>3, <3>1 DEF NotReadyMeanwhile
    <3>4. ScoredAreWritten'
      BY <1>1, <3>1 DEF EmotionInv, ScoredAreWritten
    <3> QED BY <3>2, <3>3, <3>4
  <2> QED BY <1>1, <2>1, <2>2
<1> QED BY <1>3, <1>4, <1>5 DEF EmotionInv

\* The usable days of a complete run are rows of the model, usable and with its parameters.
LEMMA CompleteIsStored ==
  ASSUME EmotionAssumption, EmotionTypeOK, ScoredAreWritten, BaselineComplete,
         NEW m \in job.m
  PROVE  Cardinality(Usable(m, job.p)) >= BaselineDays
<1> DEFINE usable == job.scored \cap job.known
<1>1. usable \subseteq Usable(m, job.p)
  BY DEF EmotionTypeOK, JobRow, ScoredAreWritten, Usable
<1>2. IsFiniteSet(Usable(m, job.p))
  <2>1. IsFiniteSet(Dates) BY FS_Interval DEF Dates, EmotionAssumption
  <2>2. Usable(m, job.p) \subseteq Dates BY DEF Usable
  <2> QED BY <2>1, <2>2, FS_Subset
<1>3. /\ Cardinality(usable) =< Cardinality(Usable(m, job.p)) /\ IsFiniteSet(usable)
  BY <1>1, <1>2, FS_Subset
<1>4. Cardinality(usable) >= BaselineDays
  BY DEF BaselineComplete
<1>5. Cardinality(usable) \in Nat /\ Cardinality(Usable(m, job.p)) \in Nat /\ BaselineDays \in Nat
  BY <1>2, <1>3, FS_CardinalityType DEF EmotionAssumption
<1> QED BY <1>3, <1>4, <1>5

LEMMA EndKeeps ==
  ASSUME EmotionAssumption, EmotionInv, EmotionTypeOK', NEW m \in Models, EndBaseline(m)
  PROVE  EmotionInv'
<1>1. /\ job.at = "end" /\ m \in job.m /\ job' = NoJob /\ UNCHANGED <<scores, req>>
  BY DEF EndBaseline
<1>2. /\ model'[m].status = Assigned(m, job.seen, IF BaselineComplete THEN "ready" ELSE "calibrating")
      /\ \A o \in Models \ {m} : model'[o] = model[o]
  BY EndWrites DEF EmotionInv
<1>3. model[m].status # "ready"
  BY <1>1 DEF EmotionInv, NotReadyMeanwhile
<1>4. ASSUME model'[m].status = "ready"
      PROVE  \E p \in Params : Cardinality(Usable(m, p)) >= BaselineDays
  <2>1. BaselineComplete
    BY <1>2, <1>3, <1>4 DEF Assigned
  <2>2. job.p \in Params
    BY DEF EmotionInv, EmotionTypeOK, JobRow
  <2> QED BY <1>1, <2>1, <2>2, CompleteIsStored DEF EmotionInv
<1>5. ReadyIsCalibrated'
  BY <1>1, <1>2, <1>4 DEF EmotionInv, ReadyIsCalibrated, Usable
<1>6. RequestsSaw'
  BY <1>1 DEF EmotionInv, RequestsSaw
<1> QED BY <1>1, <1>5, <1>6, JobOver DEF EmotionInv

-----------------------------------------------------------------------------
LEMMA EmotionStep ==
  ASSUME EmotionAssumption, EmotionInv, [EmotionNext]_emotionVars
  PROVE  EmotionInv'
<1>0. EmotionTypeOK'
  BY EmotionTypes DEF EmotionInv
<1>1. CASE UNCHANGED emotionVars
  <2>1. UNCHANGED <<scores, job>> /\ UNCHANGED model /\ RequestsSaw'
    BY <1>1 DEF emotionVars, EmotionInv, RequestsSaw
  <2> QED BY <1>0, <2>1, JobUndisturbed DEF EmotionInv
<1>2. ASSUME NEW m \in Models, NEW p \in Params, CreateDraft(m, p) PROVE EmotionInv'
  <2>1. UNCHANGED <<scores, job>> /\ RequestsSaw'
    BY <1>2 DEF CreateDraft, EmotionInv, RequestsSaw
  <2>2. \A o \in Models : model'[o].status = "ready" => model[o].status = "ready"
    BY <1>2 DEF CreateDraft, EmotionInv, EmotionTypeOK, ModelRow
  <2> QED BY <1>0, <2>1, <2>2, JobUndisturbed DEF EmotionInv
<1>3. CASE Stop
  <2>1. job' = NoJob /\ UNCHANGED <<model, scores, req>>
    BY <1>3 DEF Stop
  <2>2. RequestsSaw' /\ ReadyIsCalibrated'
    BY <2>1 DEF EmotionInv, RequestsSaw, ReadyIsCalibrated, Usable
  <2> QED BY <1>0, <2>1, <2>2, JobOver DEF EmotionInv
<1>4. CASE \E d \in Dates : FactsTurn(d)
  <2>1. UNCHANGED <<scores, job>> /\ UNCHANGED model /\ RequestsSaw'
    BY <1>4 DEF FactsTurn, EmotionInv, RequestsSaw
  <2> QED BY <1>0, <2>1, JobUndisturbed DEF EmotionInv
<1> QED BY <1>0, <1>1, <1>2, <1>3, <1>4, RequestsKeep, ResolveKeeps, BeginKeeps, LoadKeeps,
           SaveKeeps, CheckpointKeeps, EndKeeps DEF EmotionNext

LEMMA EmotionInductive == ASSUME EmotionAssumption PROVE EmotionSpec => []EmotionInv
<1>1. EmotionInit => EmotionInv
  <2> SUFFICES ASSUME EmotionInit PROVE EmotionInv
    OBVIOUS
  <2>1. EmotionTypeOK
    <3>1. 0 \in Params /\ 0 \in 0 .. MaxEmotionRuns /\ 0 \in 0 .. MaxTurns
      BY DEF Params, EmotionAssumption
    <3>2. [status |-> "absent", p |-> 0, complete |-> FALSE] \in ModelRow
      BY <3>1 DEF ModelRow, Statuses
    <3>3. Unscored \in [p: Params \cup {-1}, good: BOOLEAN]
      BY DEF Unscored
    <3> QED BY <3>1, <3>2, <3>3, NothingTyped DEF EmotionInit, EmotionTypeOK
  <2>2. RequestsSaw /\ JobSaw /\ NotReadyMeanwhile /\ ScoredAreWritten
    BY DEF EmotionInit, RequestsSaw, JobSaw, NotReadyMeanwhile, ScoredAreWritten, NoRequest, NoJob
  <2>3. ReadyIsCalibrated
    BY DEF EmotionInit, ReadyIsCalibrated, Usable
  <2> QED BY <2>1, <2>2, <2>3 DEF EmotionInv
<1>2. EmotionInv /\ [EmotionNext]_emotionVars => EmotionInv'
  BY EmotionStep
<1> QED BY <1>1, <1>2, PTL DEF EmotionSpec

\* A ready model has as many usable rows as its baseline asks for, all computed with the parameters
\* of one run, for any number of models, users and days, whatever range a run was given and however
\* the runs, edits and activations interleave or are stopped part way (calculate,
\* _calibration_summary).
THEOREM OnlyCalibratedAreReady == EmotionSpec => []ReadyIsCalibrated
<1>1. EmotionInv => ReadyIsCalibrated
  BY DEF EmotionInv
<1> QED BY <1>1, EmotionAssumption, EmotionInductive, PTL

\* A step that leaves no model active where one was.
LEMMA UnseatingIsStale ==
  ASSUME EmotionInv, EmotionNext
  PROVE  UnseatsOnStale
<1>0. SUFFICES ASSUME NEW o \in Models, model[o].status = "active",
                      \A n \in Models : model'[n].status # "active"
               PROVE  OnStale
  BY DEF UnseatsOnStale, Active
<1>1. ASSUME NEW m \in Models, NEW u \in Users, Calibrate(u, m) PROVE OnStale
  <2>0. Writes(m, Assigned(m, req[u].seen, "calibrating"), FALSE)
    BY <1>1 DEF Calibrate, Writes
  <2>1. /\ req[u].kind = "calibrate" /\ m \in req[u].m /\ req[u].seen # "active"
        /\ req' = [req EXCEPT ![u] = NoRequest]
        /\ \A n \in Models \ {m} : model'[n] = model[n]
    BY <1>1, <2>0, ProgressWrites DEF Calibrate, Asks, EmotionInv, RequestsSaw
  <2>2. o = m
    BY <1>0, <2>1
  <2>3. req'[u].kind = "none"
    BY <2>1 DEF NoRequest, EmotionInv, EmotionTypeOK, RequestRow
  <2> QED BY <1>0, <2>1, <2>2, <2>3 DEF OnStale
<1>2. ASSUME NEW m \in Models, NEW u \in Users, Publish(u, m) PROVE FALSE
  BY <1>0, <1>2 DEF Publish, EmotionInv, EmotionTypeOK, ModelRow
<1>3. ASSUME NEW m \in Models, m \in job.m, job.at # "idle", job.mode = "baseline",
             \A n \in Models \ {m} : model'[n] = model[n], job' # job
      PROVE  OnStale
  <2>1. o = m /\ job.seen # "active"
    BY <1>0, <1>3 DEF EmotionInv, JobSaw
  <2> QED BY <1>0, <1>3, <2>1 DEF OnStale
<1>P. ASSUME NEW m \in Models, Progress(m)
      PROVE  \A n \in Models \ {m} : model'[n] = model[n]
  <2>1. Writes(m, Assigned(m, job.seen, "calibrating"), FALSE)
    BY <1>P DEF Progress, Writes
  <2> QED BY <2>1, ProgressWrites DEF EmotionInv
<1>4. ASSUME NEW m \in Models, BeginBaseline(m) PROVE OnStale
  <2>1. /\ job.at = "resolved" /\ m \in job.m /\ job'.at = "load" /\ job.mode = "baseline"
        /\ \A n \in Models \ {m} : model'[n] = model[n]
    BY <1>P, <1>4 DEF BeginBaseline, EmotionInv, EmotionTypeOK, JobRow, JobSaw
  <2>2. job' # job
    BY <2>1
  <2> QED BY <1>3, <2>1, <2>2
<1>5. ASSUME NEW m \in Models, Checkpoint(m) PROVE OnStale
  <2>1. job.mode = "baseline" /\ m \in job.m /\ job.at = "checkpoint"
    BY <1>0, <1>5 DEF Checkpoint
  <2>2. \A n \in Models \ {m} : model'[n] = model[n]
    BY <1>P, <1>5, <2>1 DEF Checkpoint
  <2>3. job'.at # "checkpoint"
    BY <1>5, <2>1 DEF Checkpoint, EmotionInv, EmotionTypeOK, JobRow
  <2> QED BY <1>3, <2>1, <2>2, <2>3
<1>6. ASSUME NEW m \in Models, EndBaseline(m) PROVE OnStale
  <2>1. /\ job.mode = "baseline" /\ m \in job.m /\ job.at = "end" /\ job'.at = "idle"
        /\ \A n \in Models \ {m} : model'[n] = model[n]
    BY <1>6, EndWrites DEF EndBaseline, EmotionInv, JobSaw, NoJob
  <2>2. job' # job
    BY <2>1
  <2> QED BY <1>3, <2>1, <2>2
<1>7. ASSUME NEW m \in Models, NEW p \in Params, CreateDraft(m, p) PROVE FALSE
  BY <1>0, <1>7 DEF CreateDraft, EmotionInv, EmotionTypeOK, ModelRow
<1>8. ASSUME NEW m \in Models, NEW u \in Users, Edit(u, m) PROVE FALSE
  BY <1>0, <1>8 DEF Edit, EmotionInv, EmotionTypeOK, ModelRow
<1>9. ~UNCHANGED model
  BY <1>0
<1> QED BY <1>1, <1>2, <1>4, <1>5, <1>6, <1>7, <1>8, <1>9
        DEF EmotionNext, Read, SelectActive, Resolve, LoadInputs, SaveBatch, Stop, FactsTurn

\* The active model is taken away only by a step on a model whose status is no longer the one it
\* read (create, activate, _set_baseline_progress).
THEOREM UnseatedOnlyOnStale == EmotionSpec => NeverUnseated
<1>1. EmotionInv /\ [EmotionNext]_emotionVars => [UnseatsOnStale]_emotionVars
  BY UnseatingIsStale
<1> QED BY <1>1, EmotionAssumption, EmotionInductive, PTL DEF EmotionSpec, NeverUnseated

-----------------------------------------------------------------------------
(* The price basis of the stored factors (QfqBasis)                        *)

\* The dates before the newest one were all calculated in their turn.
Turns == 1 .. (today - 1) \subseteq done

\* The stored history before the newest date is on one basis.
HistoryOn(b) == \A e \in 1 .. (today - 1) : close[e] = b /\ range[e] = b

\* A calculation under way is of an opened date.
OfOpened ==
  calculation # NoCalculation =>
    calculation.date \in 1 .. today /\ calculation.at \in {"rebase", "assemble"}

\* A date counts as calculated only with the factors up to it.
DoneHadFactors == done \subseteq 1 .. today /\ \A d \in done : 1 .. d \subseteq adj

\* Prices of the newest date are on its basis, and nothing is stored of the dates to come.
NewestOnItsBasis ==
  /\ close[today] \in {Unset, A[today]}
  /\ \A d \in Days : d > today => close[d] = Unset
  /\ today \in done => close[today] = A[today] /\ range[today] = A[today]

\* A history calculated in turn is on one basis: that of the date before, until the newest
\* date rebases it.
HistoryOnOne ==
  Turns =>
    /\ HistoryOn(A[today]) \/ (today > 1 /\ HistoryOn(A[today - 1]))
    /\ today \in done => HistoryOn(A[today])
    /\ today > 1 /\ today \notin adj => HistoryOn(A[today - 1])
    /\ calculation.at = "assemble" /\ calculation.date = today /\ adj = 1 .. today =>
         HistoryOn(A[today])

QfqBase == QfqTypeOK /\ OfOpened /\ DoneHadFactors

\* What holds until work on an earlier date, or a refused ratio, crosses it.
Uncrossed == ~crossed => NewestOnItsBasis /\ HistoryOnOne

QfqInv == QfqBase /\ Uncrossed

\* A set of dates has a latest one, and Max is it.
LEMMA LatestDate ==
  ASSUME NEW n \in Nat, NEW T, T \subseteq 1 .. n, T # {}
  PROVE  Max(T) \in T /\ \A y \in T : Max(T) >= y
<1> DEFINE Back == {n - x : x \in T}
<1>1. Back \subseteq Nat /\ Back # {} OBVIOUS
<1>2. IsWellFoundedOn(OpToRel(<, Nat), Nat) BY NatLessThanWellFounded
<1>3. PICK b \in Back : \A c \in Back : ~ (<<c, b>> \in OpToRel(<, Nat))
  <2> HIDE DEF Back
  <2> QED BY <1>1, <1>2, WFMin
<1>4. \A c \in Back : ~ (c < b) BY <1>1, <1>3 DEF OpToRel
<1>5. PICK x \in T : b = n - x OBVIOUS
<1>6. \A y \in T : x >= y
  <2> TAKE y \in T
  <2>1. ~ (n - y < n - x) BY <1>4, <1>5
  <2>2. x \in Int /\ y \in Int OBVIOUS
  <2> QED BY <2>1, <2>2
<1>7. \E z \in T : \A y \in T : z >= y BY <1>6
<1> QED BY <1>7 DEF Max

\* The latest of the dates up to one is that date.
LEMMA LatestOfAll ==
  ASSUME NEW n \in Nat \ {0}
  PROVE  Max(1 .. n) = n
<1>1. 1 .. n # {} /\ n \in 1 .. n OBVIOUS
<1>2. Max(1 .. n) \in 1 .. n /\ Max(1 .. n) >= n BY <1>1, LatestDate
<1> QED BY <1>2

\* The types a step on the newest date relies on.
LEMMA NewestTypes ==
  ASSUME QfqTypeOK
  PROVE  /\ LastDay \in Nat /\ today \in Nat \ {0} /\ today \in Days /\ 1 .. today \subseteq Days
         /\ \A d \in Days : d \in Nat /\ A[d] \in Nat /\ A[d] # Unset
         /\ \A d \in Days : close[d] \in Int /\ range[d] \in Int
BY FactorsAssumption DEF QfqTypeOK, Days, Unset

\* A price computed now is over the newest stored factor: that of the newest date, if stored.
LEMMA PricedNow ==
  ASSUME QfqTypeOK, NEW d \in Days
  PROVE  /\ Latest \in Int /\ PriceNow(d) \in Int /\ RangeNow(d) \in Int
         /\ today \in adj => Latest = A[today]
         /\ d \in adj => PriceNow(d) = Latest /\ RangeNow(d) = Latest
<1>1. /\ today \in Nat \ {0} /\ 1 .. today \subseteq Days /\ Unset \in Int
      /\ \A e \in Days : e \in Nat /\ A[e] \in Nat
  BY NewestTypes DEF Unset
<1>2. adj \subseteq 1 .. today BY DEF QfqTypeOK
<1>3. ASSUME adj # {} PROVE Max(adj) \in adj /\ \A y \in adj : Max(adj) >= y
  BY <1>1, <1>2, <1>3, LatestDate
<1>4. Latest \in Int
  <2>1. CASE adj = {} BY <2>1, <1>1 DEF Latest
  <2>2. CASE adj # {}
    <3>1. Max(adj) \in Days BY <2>2, <1>1, <1>2, <1>3
    <3> QED BY <3>1, <2>2, <1>1 DEF Latest
  <2> QED BY <2>1, <2>2
<1>5. ASSUME today \in adj PROVE Latest = A[today]
  <2>1. Max(adj) \in 1 .. today /\ Max(adj) >= today BY <1>2, <1>3, <1>5
  <2>2. Max(adj) = today BY <2>1, <1>1
  <2> QED BY <2>2, <1>5 DEF Latest
<1>6. d \in adj => FactorBefore(d + 1) # {}
  <2>1. d < d + 1 BY <1>1
  <2> QED BY <2>1 DEF FactorBefore
<1> QED BY <1>1, <1>4, <1>5, <1>6 DEF PriceNow, RangeNow

\* With every factor but the newest date's stored, prices are over the one before.
LEMMA LatestBefore ==
  ASSUME QfqTypeOK, today > 1, today \notin adj, 1 .. (today - 1) \subseteq adj
  PROVE  Latest = A[today - 1]
<1>1. today \in Nat \ {0} /\ today - 1 \in Nat \ {0} /\ today - 1 \in 1 .. (today - 1)
  BY NewestTypes
<1>2. adj = 1 .. (today - 1)
  <2>1. \A e \in adj : e \in 1 .. today /\ e # today BY DEF QfqTypeOK
  <2>2. \A e \in adj : e \in 1 .. (today - 1) BY <2>1, <1>1
  <2> QED BY <2>2
<1>3. Max(adj) = today - 1 /\ adj # {} BY <1>1, <1>2, LatestOfAll
<1> QED BY <1>3 DEF Latest

\* The rescaling ratio is a number whenever there are a row and a factor to derive it from.
LEMMA ShiftIsInt ==
  ASSUME QfqTypeOK, NEW d \in Days, Priced(d) # {}, FactorBefore(Reference(d) + 1) # {}
  PROVE  Shift(d) \in Int
<1>1. /\ d \in Nat \ {0} /\ 1 .. d \subseteq Days /\ today \in Nat /\ 1 .. today \subseteq Days
      /\ \A e \in Days : A[e] \in Nat /\ close[e] \in Int
  BY NewestTypes DEF Days
<1>2. Priced(d) \subseteq 1 .. d BY <1>1 DEF Priced
<1>3. Reference(d) \in Days BY <1>1, <1>2, LatestDate DEF Reference
<1>4. FactorBefore(Reference(d) + 1) \subseteq 1 .. today BY DEF FactorBefore, QfqTypeOK
<1>5. Max(FactorBefore(Reference(d) + 1)) \in Days BY <1>1, <1>4, LatestDate
<1> DEFINE r == Reference(d)  f == Max(FactorBefore(r + 1))
<1>6. A[d] \in Nat /\ A[f] \in Nat /\ close[r] \in Int /\ A[r] \in Nat
  BY <1>1, <1>3, <1>5
<1>7. Shift(d) = (A[d] - A[f]) - (close[r] - A[r]) BY DEF Shift
<1> HIDE DEF f, r
<1> QED BY <1>6, <1>7

\* Of a history calculated in its turn on one basis, the reference row is that of the date
\* before, all its factors are stored, and the ratio leads from its basis to the newest one.
LEMMA ShiftReachesNewest ==
  ASSUME QfqBase, Turns, today > 1, NEW b \in Nat, HistoryOn(b)
  PROVE  /\ Priced(today) # {} /\ FactorBefore(Reference(today) + 1) # {}
         /\ FactorBefore(today) # {} /\ Max(FactorBefore(today)) = today - 1
         /\ Shift(today) = A[today] - b
<1>1. /\ today \in Nat \ {0} /\ today \in Days /\ 1 .. today \subseteq Days
      /\ \A d \in Days : d \in Nat /\ A[d] \in Nat
  BY NewestTypes DEF QfqBase
<1>2. today - 1 \in Nat \ {0} /\ today - 1 \in 1 .. (today - 1) /\ today - 1 \in Days
      /\ (today - 1) + 1 = today
  BY <1>1
<1>3. Priced(today) = 1 .. (today - 1)
  <2>1. \A e \in 1 .. (today - 1) : close[e] # Unset BY DEF HistoryOn, Unset
  <2> QED BY <2>1 DEF Priced
<1>4. Reference(today) = today - 1 BY <1>2, <1>3, LatestOfAll DEF Reference
<1>5. FactorBefore(today) = 1 .. (today - 1)
  <2>1. today - 1 \in done BY <1>2 DEF Turns
  <2>2. 1 .. (today - 1) \subseteq adj BY <2>1 DEF QfqBase, DoneHadFactors
  <2>3. \A e \in adj : e < today => e \in 1 .. (today - 1) BY <1>1 DEF QfqBase, QfqTypeOK
  <2>4. \A e \in 1 .. (today - 1) : e < today BY <1>1
  <2> QED BY <2>2, <2>3, <2>4 DEF FactorBefore
<1>6. Max(FactorBefore(today)) = today - 1 BY <1>2, <1>5, LatestOfAll
<1>7. close[today - 1] = b BY <1>2 DEF HistoryOn
<1>8. Shift(today) = (A[today] - A[today - 1]) - (b - A[today - 1])
  BY <1>2, <1>4, <1>6, <1>7 DEF Shift
<1>9. A[today] \in Nat /\ A[today - 1] \in Nat BY <1>1, <1>2
<1>10. Shift(today) = A[today] - b BY <1>8, <1>9
<1>11. FactorBefore(Reference(today) + 1) = FactorBefore(today) BY <1>2, <1>4
<1> QED BY <1>2, <1>3, <1>5, <1>6, <1>10, <1>11

\* The basis of a history calculated in its turn is a factor's.
LEMMA OneBasisOfHistory ==
  ASSUME QfqBase, HistoryOnOne, Turns
  PROVE  \E b \in Nat : HistoryOn(b)
<1>1. /\ today \in Nat \ {0} /\ today \in Days /\ 1 .. today \subseteq Days
      /\ \A d \in Days : A[d] \in Nat
  BY NewestTypes DEF QfqBase
<1>2. today > 1 => today - 1 \in Days BY <1>1
<1>3. HistoryOn(A[today]) \/ (today > 1 /\ HistoryOn(A[today - 1])) BY DEF HistoryOnOne
<1> QED BY <1>1, <1>2, <1>3

-----------------------------------------------------------------------------
(* The steps                                                               *)



LEMMA OpenDayStep == ASSUME QfqInv, OpenDay PROVE QfqInv'
<1>1. /\ today \in Nat \ {0} /\ today' = today + 1 /\ today' \in Days
      /\ today' > 1 /\ today' - 1 = today
  BY NewestTypes DEF QfqInv, QfqBase, OpenDay, Days
<1>2. /\ A' = A /\ adj' = adj /\ close' = close /\ range' = range /\ calculation' = calculation
      /\ qfqRuns' = qfqRuns /\ done' = done /\ calculation = NoCalculation /\ crossed' = crossed
  BY DEF OpenDay
<1>3. 1 .. today \subseteq 1 .. today' BY <1>1
<1>4. QfqTypeOK' BY <1>1, <1>2, <1>3 DEF QfqInv, QfqBase, QfqTypeOK
<1>5. OfOpened' BY <1>2 DEF OfOpened
<1>6. DoneHadFactors' BY <1>2, <1>3 DEF QfqInv, QfqBase, DoneHadFactors
<1>7. today' \notin done BY <1>1 DEF QfqInv, QfqBase, DoneHadFactors
<1>8. ASSUME NewestOnItsBasis, HistoryOnOne PROVE (NewestOnItsBasis /\ HistoryOnOne)'
  <2>1. NewestOnItsBasis'
    <3>1. \A d \in Days : d > today => close[d] = Unset BY <1>8 DEF NewestOnItsBasis
    <3>2. \A d \in Days : d > today' => d > today BY <1>1 DEF Days
    <3>3. close[today'] = Unset BY <1>1, <3>1
    <3> QED BY <1>2, <1>7, <3>1, <3>2, <3>3 DEF NewestOnItsBasis
  <2>2. calculation'.at # "assemble" BY <1>2 DEF NoCalculation
  <2>3. ASSUME 1 .. (today' - 1) \subseteq done'
        PROVE  \A e \in 1 .. (today' - 1) : close'[e] = A'[today' - 1] /\ range'[e] = A'[today' - 1]
    <3>1. today \in done /\ Turns BY <1>1, <1>2, <2>3 DEF Turns
    <3>2. \A e \in 1 .. (today - 1) : close[e] = A[today] /\ range[e] = A[today]
      BY <3>1, <1>8 DEF HistoryOnOne, HistoryOn
    <3>3. close[today] = A[today] /\ range[today] = A[today]
      BY <3>1, <1>8 DEF NewestOnItsBasis
    <3>4. \A e \in 1 .. today : e \in 1 .. (today - 1) \/ e = today BY <1>1
    <3> QED BY <1>1, <1>2, <3>2, <3>3, <3>4
  <2>4. HistoryOnOne' BY <1>1, <1>2, <1>7, <2>2, <2>3 DEF HistoryOnOne, HistoryOn, Turns
  <2> QED BY <2>1, <2>4
<1> QED BY <1>2, <1>4, <1>5, <1>6, <1>8 DEF QfqInv, QfqBase, Uncrossed

LEMMA FactorArrivesStep ==
  ASSUME QfqInv, NEW d \in Days, FactorArrives(d) PROVE QfqInv'
<1>1. /\ A' = A /\ today' = today /\ close' = close /\ range' = range
      /\ calculation' = calculation /\ qfqRuns' = qfqRuns /\ done' = done /\ crossed' = crossed
      /\ calculation = NoCalculation /\ adj' = adj \cup {d} /\ d =< today
  BY DEF FactorArrives
<1>2. d \in 1 .. today BY <1>1, NewestTypes DEF QfqInv, QfqBase, Days
<1>3. QfqTypeOK' BY <1>1, <1>2 DEF QfqInv, QfqBase, QfqTypeOK
<1>4. OfOpened' BY <1>1 DEF OfOpened
<1>5. DoneHadFactors' BY <1>1 DEF QfqInv, QfqBase, DoneHadFactors
<1>6. NewestOnItsBasis => NewestOnItsBasis' BY <1>1 DEF NewestOnItsBasis
<1>7. calculation'.at # "assemble" BY <1>1 DEF NoCalculation
<1>8. HistoryOnOne => HistoryOnOne' BY <1>1, <1>7 DEF HistoryOnOne, HistoryOn, Turns
<1> QED BY <1>1, <1>3, <1>4, <1>5, <1>6, <1>8 DEF QfqInv, QfqBase, Uncrossed

\* While nothing waits for a rebase, what is stored of the earlier dates is on the newest basis.
LEMMA NothingBehind ==
  ASSUME ~Behind, NEW e \in 1 .. (today - 1)
  PROVE  close[e] \in {Unset, A[today]} /\ range[e] \in {Unset, A[today]}
BY DEF Behind

\* A history calculated in its turn that nothing waits in is on the newest basis.
LEMMA TurnsOnNewest ==
  ASSUME QfqBase, HistoryOnOne, Turns, ~Behind
  PROVE  HistoryOn(A[today])
<1>1. PICK b \in Nat : HistoryOn(b) BY OneBasisOfHistory
<1>2. \A e \in 1 .. (today - 1) : close[e] = b /\ range[e] = b /\ b # Unset
  BY <1>1 DEF HistoryOn, Unset
<1>3. \A e \in 1 .. (today - 1) : b = A[today] BY <1>2, NothingBehind
<1> QED BY <1>2, <1>3 DEF HistoryOn

LEMMA ProviderRowStep ==
  ASSUME QfqInv, NEW d \in Days, ProviderRow(d) PROVE QfqInv'
<1>1. /\ A' = A /\ today' = today /\ adj' = adj /\ range' = range
      /\ calculation' = calculation /\ qfqRuns' = qfqRuns /\ done' = done
      /\ calculation = NoCalculation /\ close' = [close EXCEPT ![d] = A[today]]
      /\ d =< today /\ close[d] # A[today]
      /\ crossed' = (crossed \/ (d < today /\ Behind))
  BY DEF ProviderRow
<1>2. /\ today \in Nat \ {0} /\ today \in Days /\ A[today] \in Nat /\ d \in Nat \ {0}
      /\ 1 .. today \subseteq Days
  BY NewestTypes DEF QfqInv, QfqBase, Days
<1>3. close \in [Days -> Int] BY DEF QfqInv, QfqBase, QfqTypeOK
<1>4. /\ close' \in [Days -> Int] /\ close'[d] = A[today]
      /\ \A e \in Days : e # d => close'[e] = close[e]
  BY <1>1, <1>2, <1>3
<1>5. crossed \in BOOLEAN /\ crossed' \in BOOLEAN BY <1>1 DEF QfqInv, QfqBase, QfqTypeOK
<1>6. QfqTypeOK' BY <1>1, <1>4, <1>5 DEF QfqInv, QfqBase, QfqTypeOK
<1>7. OfOpened' BY <1>1 DEF OfOpened
<1>8. DoneHadFactors' BY <1>1 DEF QfqInv, QfqBase, DoneHadFactors
<1>9. calculation'.at # "assemble" BY <1>1 DEF NoCalculation
<1>10. ASSUME NewestOnItsBasis, HistoryOnOne, ~ (d < today /\ Behind)
       PROVE  (NewestOnItsBasis /\ HistoryOnOne)'
  <2>1. \A e \in Days : e > today => close'[e] = Unset
    BY <1>1, <1>2, <1>4, <1>10 DEF NewestOnItsBasis
  <2>2. close'[today] \in {Unset, A[today]} /\ (close[today] = A[today] => close'[today] = A[today])
    BY <1>1, <1>2, <1>4, <1>10 DEF NewestOnItsBasis
  <2>3. NewestOnItsBasis' BY <1>1, <2>1, <2>2, <1>10 DEF NewestOnItsBasis
  <2>4. ASSUME Turns PROVE \A e \in 1 .. (today - 1) : close'[e] = close[e]
    <3>1. CASE d < today
      <4>1. HistoryOn(A[today]) BY <3>1, <1>10, <2>4, TurnsOnNewest DEF QfqInv
      <4>2. d \in 1 .. (today - 1) BY <3>1, <1>2
      <4>3. close[d] = A[today] BY <4>1, <4>2 DEF HistoryOn
      <4> QED BY <4>3, <1>1
    <3>2. CASE ~ (d < today)
      <4>1. \A e \in 1 .. (today - 1) : e \in Days /\ e # d BY <3>2, <1>2
      <4> QED BY <4>1, <1>4
    <3> QED BY <3>1, <3>2
  <2>5. HistoryOnOne' BY <1>1, <1>9, <1>10, <2>4 DEF HistoryOnOne, HistoryOn, Turns
  <2> QED BY <2>3, <2>5
<1>11. crossed' = FALSE => crossed = FALSE /\ ~ (d < today /\ Behind) BY <1>1, <1>5
<1> QED BY <1>5, <1>6, <1>7, <1>8, <1>10, <1>11 DEF QfqInv, QfqBase, Uncrossed

LEMMA CalculateStep ==
  ASSUME QfqInv, NEW d \in Days, Calculate(d) PROVE QfqInv'
<1>1. /\ A' = A /\ today' = today /\ adj' = adj /\ close' = close /\ range' = range
      /\ done' = done /\ crossed' = crossed /\ calculation' = [date |-> d, at |-> "rebase"]
      /\ qfqRuns < MaxQfqRuns /\ qfqRuns' = qfqRuns + 1 /\ d =< today
  BY DEF Calculate
<1>2. d \in 1 .. today /\ d \in 0 .. LastDay BY <1>1, NewestTypes DEF QfqInv, QfqBase, Days
<1>3. qfqRuns' \in 0 .. MaxQfqRuns BY <1>1, FactorsAssumption DEF QfqInv, QfqBase, QfqTypeOK
<1>4. QfqTypeOK' BY <1>1, <1>2, <1>3 DEF QfqInv, QfqBase, QfqTypeOK
<1>5. calculation'.date = d /\ calculation'.at = "rebase" BY <1>1
<1>6. OfOpened' BY <1>1, <1>2, <1>5 DEF OfOpened
<1>7. DoneHadFactors' BY <1>1 DEF QfqInv, QfqBase, DoneHadFactors
<1>8. NewestOnItsBasis => NewestOnItsBasis' BY <1>1 DEF NewestOnItsBasis
<1>9. HistoryOnOne => HistoryOnOne' BY <1>1, <1>5 DEF HistoryOnOne, HistoryOn, Turns
<1> QED BY <1>1, <1>4, <1>6, <1>7, <1>8, <1>9 DEF QfqInv, QfqBase, Uncrossed

\* What a rebase of a date does to a column.
LEMMA RescaledColumn ==
  ASSUME QfqTypeOK, NEW d \in Days, NEW column \in [Days -> Int], Shift(d) \in Int
  PROVE  /\ Rescaled(column, d) \in [Days -> Int]
         /\ \A e \in Days : e >= d => Rescaled(column, d)[e] = column[e]
         /\ \A e \in 1 .. (d - 1) :
              column[e] # Unset => Rescaled(column, d)[e] = column[e] + Shift(d)
         /\ Shift(d) = 0 => Rescaled(column, d) = column
<1>1. /\ d \in Nat \ {0} /\ 1 .. d \subseteq Days /\ \A e \in Days : e \in Nat
  BY FactorsAssumption DEF Days
<1>2. \A e \in Days : Rescaled(column, d)[e]
          = IF e < d /\ column[e] # Unset THEN column[e] + Shift(d) ELSE column[e]
  BY DEF Rescaled
<1>3. \A e \in Days : column[e] \in Int /\ Rescaled(column, d)[e] \in Int BY <1>2
<1>4. Rescaled(column, d) \in [Days -> Int] BY <1>3 DEF Rescaled
<1>5. \A e \in Days : e >= d => ~ (e < d) BY <1>1
<1>6. \A e \in 1 .. (d - 1) : e \in Days /\ e < d BY <1>1
<1>7. ASSUME Shift(d) = 0 PROVE Rescaled(column, d) = column
  <2>1. \A e \in Days : Rescaled(column, d)[e] = column[e] BY <1>2, <1>3, <1>7
  <2> QED BY <2>1, <1>4
<1> QED BY <1>2, <1>4, <1>5, <1>6, <1>7

\* Whatever it finds, the rebase of a history calculated in its turn leaves it on one basis, the
\* newest one if the factors are stored; the rebase of an earlier date moves nothing unless it
\* crosses the history.
LEMMA RebaseStep == ASSUME QfqInv, Rebase PROVE QfqInv'
<1> DEFINE d == calculation.date
           Rescales == Derivable(d) /\ Shift(d) \in Accepted
<1>1. /\ A' = A /\ today' = today /\ adj' = adj /\ qfqRuns' = qfqRuns /\ done' = done
      /\ calculation.at = "rebase" /\ calculation' = [calculation EXCEPT !.at = "assemble"]
  BY DEF Rebase
<1>2. calculation # NoCalculation BY <1>1 DEF NoCalculation
<1>3. d \in 1 .. today BY <1>2 DEF QfqInv, QfqBase, OfOpened
<1>4. calculation' \in [date: 0..LastDay, at: {"none", "rebase", "assemble"}]
      /\ calculation'.date = d /\ calculation'.at = "assemble"
  BY <1>1 DEF QfqInv, QfqBase, QfqTypeOK
<1>5. /\ Rescales => close' = Rescaled(close, d) /\ range' = Rescaled(range, d)
      /\ ~ Rescales => close' = close /\ range' = range
      /\ crossed' = (crossed \/ (/\ Derivable(d) /\ Shift(d) # 0
                                 /\ d < today \/ Shift(d) \notin Accepted))
  BY DEF Rebase
<1>6. /\ today \in Nat \ {0} /\ today \in Days /\ 1 .. today \subseteq Days /\ d \in Days
      /\ \A e \in Days : e \in Nat /\ A[e] \in Nat /\ A[e] # Unset
      /\ close \in [Days -> Int] /\ range \in [Days -> Int] /\ QfqTypeOK /\ QfqBase
      /\ crossed \in BOOLEAN
  BY <1>3, NewestTypes DEF QfqInv, QfqBase, QfqTypeOK
<1> HIDE DEF Rescales, d
<1>7. Derivable(d) => Shift(d) \in Int BY <1>6, ShiftIsInt DEF Derivable
<1>8. close' \in [Days -> Int] /\ range' \in [Days -> Int]
      /\ \A e \in Days : e >= d => close'[e] = close[e] /\ range'[e] = range[e]
  <2>1. CASE Rescales
    <3>1. Shift(d) \in Int BY <2>1, <1>7 DEF Rescales
    <3>2. close' = Rescaled(close, d) /\ range' = Rescaled(range, d) BY <2>1, <1>5
    <3> QED BY <3>1, <3>2, <1>6, RescaledColumn
  <2>2. CASE ~ Rescales BY <2>2, <1>5, <1>6
  <2> QED BY <2>1, <2>2
<1>9. Rescales /\ Shift(d) = 0 => close' = close /\ range' = range
  BY <1>5, <1>6, <1>7, RescaledColumn DEF Rescales
<1>10. crossed' \in BOOLEAN BY <1>5, <1>6
<1>11. QfqTypeOK' BY <1>1, <1>4, <1>6, <1>8, <1>10 DEF QfqTypeOK
<1>12. OfOpened' BY <1>1, <1>3, <1>4 DEF OfOpened
<1>13. DoneHadFactors' BY <1>1 DEF QfqInv, QfqBase, DoneHadFactors
<1>14. ASSUME NewestOnItsBasis PROVE NewestOnItsBasis'
  <2>1. close'[today] = close[today] /\ range'[today] = range[today] BY <1>3, <1>6, <1>8
  <2>2. \A e \in Days : e > today => close'[e] = close[e] BY <1>3, <1>6, <1>8
  <2> QED BY <1>1, <1>14, <2>1, <2>2 DEF NewestOnItsBasis
<1>15. ASSUME HistoryOnOne, ~crossed', d < today PROVE HistoryOnOne'
  <2>1. Derivable(d) => Shift(d) = 0 BY <1>5, <1>15
  <2>2. close' = close /\ range' = range BY <2>1, <1>5, <1>9 DEF Rescales
  <2>3. calculation'.date # today BY <1>4, <1>6, <1>15
  <2> QED BY <2>2, <2>3, <1>1, <1>15 DEF HistoryOnOne, HistoryOn, Turns
<1>16. ASSUME HistoryOnOne, ~crossed', d = today PROVE HistoryOnOne'
  <2>1. ASSUME Turns, Rescales
        PROVE  \A e \in 1 .. (today - 1) : close'[e] = A[today] /\ range'[e] = A[today]
    <3>1. PICK b \in Nat : HistoryOn(b) BY <1>6, <1>16, <2>1, OneBasisOfHistory
    <3>2. b # Unset /\ \A e \in 1 .. (today - 1) : e \in Days /\ close[e] = b /\ range[e] = b
      BY <3>1, <1>6 DEF HistoryOn, Unset
    <3>3. CASE today > 1
      <4>1. Shift(today) = A[today] - b BY <3>1, <3>3, <1>6, <2>1, ShiftReachesNewest
      <4>2. b + Shift(today) = A[today] BY <4>1, <1>6
      <4>3. Shift(today) \in Int BY <1>7, <2>1, <1>16 DEF Rescales
      <4>4. \A e \in 1 .. (today - 1) : /\ Rescaled(close, today)[e] = close[e] + Shift(today)
                                        /\ Rescaled(range, today)[e] = range[e] + Shift(today)
        BY <4>3, <3>2, <1>6, RescaledColumn
      <4> QED BY <4>2, <4>4, <3>2, <1>5, <2>1, <1>16
    <3>4. CASE today = 1 BY <3>4
    <3> QED BY <3>3, <3>4, <1>6
  <2>2. ASSUME Turns, ~ Rescales, today \in adj, today > 1
        PROVE  HistoryOn(A[today])
    <3>1. PICK b \in Nat : HistoryOn(b) BY <1>6, <1>16, <2>2, OneBasisOfHistory
    <3>2. /\ Priced(today) # {} /\ FactorBefore(Reference(today) + 1) # {}
          /\ FactorBefore(today) # {} /\ Max(FactorBefore(today)) = today - 1
          /\ Shift(today) = A[today] - b
      BY <3>1, <2>2, <1>6, ShiftReachesNewest
    <3>3. CASE Derivable(today)
      <4>1. Shift(today) = 0 BY <3>3, <2>2, <1>5, <1>16 DEF Rescales
      <4>2. b = A[today] BY <4>1, <3>2, <1>6
      <4> QED BY <4>2, <3>1
    <3>4. CASE ~ Derivable(today)
      <4>1. ~ Changed(today) BY <3>4, <3>2 DEF Derivable
      <4>2. A[today - 1] = A[today] BY <4>1, <3>2, <2>2 DEF Changed
      <4> QED BY <4>2, <2>2, <1>16 DEF HistoryOnOne
    <3> QED BY <3>3, <3>4
  <2>3. CASE Rescales
    <3>1. Turns => today \in adj
      BY <2>3, <1>16 DEF Rescales, Derivable, Changed
    <3> QED BY <2>1, <2>3, <3>1, <1>1 DEF HistoryOnOne, HistoryOn, Turns
  <2>4. CASE ~ Rescales
    <3>1. close' = close /\ range' = range BY <2>4, <1>5
    <3>2. /\ Turns' => HistoryOn(A[today])' \/ (today > 1 /\ HistoryOn(A[today - 1])')
          /\ Turns' => (today \in done => HistoryOn(A[today])')
          /\ Turns' => (today > 1 /\ today \notin adj => HistoryOn(A[today - 1])')
      BY <3>1, <1>1, <1>16 DEF HistoryOnOne, HistoryOn, Turns
    <3>3. ASSUME Turns, adj = 1 .. today PROVE HistoryOn(A[today])
      <4>1. today \in adj BY <3>3, <1>6
      <4>2. CASE today > 1 BY <4>1, <4>2, <3>3, <2>2, <2>4
      <4>3. CASE today = 1 BY <4>3 DEF HistoryOn
      <4> QED BY <4>2, <4>3, <1>6
    <3>4. Turns' => (adj = 1 .. today => HistoryOn(A[today])')
      BY <3>3, <3>1, <1>1 DEF HistoryOn, Turns
    <3> QED BY <3>2, <3>4, <1>1 DEF HistoryOnOne
  <2> QED BY <2>3, <2>4
<1>17. d < today \/ d = today BY <1>3, <1>6
<1>18. ~crossed' => ~crossed BY <1>5, <1>6, <1>10
<1> QED BY <1>11, <1>12, <1>13, <1>14, <1>15, <1>16, <1>17, <1>18 DEF QfqInv, QfqBase, Uncrossed

\* What an assembly writes: the row of its date only.
LEMMA AssembledRow ==
  ASSUME QfqInv, Assemble
  PROVE  LET d == calculation.date IN
         /\ A' = A /\ today' = today /\ adj' = adj /\ qfqRuns' = qfqRuns
         /\ calculation.at = "assemble" /\ calculation' = NoCalculation /\ d \in 1 .. today
         /\ close' \in [Days -> Int] /\ range' \in [Days -> Int]
         /\ \A e \in Days : e # d => close'[e] = close[e] /\ range'[e] = range[e]
         /\ close'[d] = IF close[d] = Unset THEN PriceNow(d) ELSE close[d]
         /\ range'[d] = RangeNow(d)
         /\ done' = IF d = today /\ adj = 1 .. today THEN done \cup {d} ELSE done
         /\ crossed' = (crossed \/ (d < today /\ Behind))
<1> DEFINE d == calculation.date
<1>1. calculation.at = "assemble" BY DEF Assemble
<1>2. calculation # NoCalculation BY <1>1 DEF NoCalculation
<1>3. d \in 1 .. today BY <1>2 DEF QfqInv, QfqBase, OfOpened
<1>4. /\ close' = IF close[d] = Unset THEN [close EXCEPT ![d] = PriceNow(d)] ELSE close
      /\ range' = [range EXCEPT ![d] = RangeNow(d)]
      /\ done' = IF d = today /\ adj = 1 .. today THEN done \cup {d} ELSE done
      /\ crossed' = (crossed \/ (d < today /\ Behind))
  BY DEF Assemble
<1>5. d \in Days /\ close \in [Days -> Int] /\ range \in [Days -> Int] /\ QfqTypeOK
  BY <1>3, NewestTypes DEF QfqInv, QfqBase, QfqTypeOK
<1>6. A' = A /\ today' = today /\ adj' = adj /\ qfqRuns' = qfqRuns /\ calculation' = NoCalculation
  BY DEF Assemble
<1> HIDE DEF d
<1>7. PriceNow(d) \in Int /\ RangeNow(d) \in Int BY <1>5, PricedNow
<1>8. /\ range' \in [Days -> Int] /\ range'[d] = RangeNow(d)
      /\ \A e \in Days : e # d => range'[e] = range[e]
  BY <1>4, <1>5, <1>7
<1>9. /\ close' \in [Days -> Int]
      /\ close'[d] = IF close[d] = Unset THEN PriceNow(d) ELSE close[d]
      /\ \A e \in Days : e # d => close'[e] = close[e]
  <2>1. CASE close[d] = Unset BY <2>1, <1>4, <1>5, <1>7
  <2>2. CASE close[d] # Unset BY <2>2, <1>4, <1>5
  <2> QED BY <2>1, <2>2
<1> USE DEF d
<1> QED BY <1>1, <1>3, <1>4, <1>6, <1>8, <1>9

\* The newest date's own row is on the newest basis once the factor of the date is stored.
LEMMA AssembledNewest ==
  ASSUME QfqInv, Assemble, calculation.date = today, NewestOnItsBasis
  PROVE  /\ close'[today] \in {Unset, A[today]}
         /\ today \in adj => close'[today] = A[today] /\ range'[today] = A[today]
<1>1. today \in Days /\ QfqTypeOK BY NewestTypes DEF QfqInv, QfqBase
<1>2. /\ close'[today] = IF close[today] = Unset THEN PriceNow(today) ELSE close[today]
      /\ range'[today] = RangeNow(today)
  BY AssembledRow
<1>3. close[today] \in {Unset, A[today]} BY DEF NewestOnItsBasis
<1>4. today \in adj => PriceNow(today) = A[today] /\ RangeNow(today) = A[today]
  BY <1>1, PricedNow
<1>5. today \notin adj => PriceNow(today) = Unset BY DEF PriceNow
<1> QED BY <1>2, <1>3, <1>4, <1>5

\* A row of an earlier date written while nothing waits for a rebase stays on the one basis.
LEMMA AssembledEarlier ==
  ASSUME QfqInv, Assemble, calculation.date < today, ~Behind, HistoryOnOne, Turns
  PROVE  \A e \in 1 .. (today - 1) : close'[e] = close[e] /\ range'[e] = range[e]
<1> DEFINE d == calculation.date
<1>1. /\ today \in Nat \ {0} /\ 1 .. today \subseteq Days /\ d \in 1 .. today /\ d < today
      /\ QfqTypeOK /\ QfqBase
      /\ \A e \in Days : A[e] # Unset
  BY AssembledRow, NewestTypes DEF QfqInv, QfqBase
<1>2. /\ \A e \in Days : e # d => close'[e] = close[e] /\ range'[e] = range[e]
      /\ close'[d] = IF close[d] = Unset THEN PriceNow(d) ELSE close[d]
      /\ range'[d] = RangeNow(d)
  BY AssembledRow
<1> HIDE DEF d
<1>3. today > 1 /\ today \in Days /\ d \in Days /\ d \in 1 .. (today - 1)
      /\ today - 1 \in 1 .. (today - 1)
  BY <1>1
<1>4. HistoryOn(A[today]) BY <1>1, TurnsOnNewest
<1>5. close[d] = A[today] /\ range[d] = A[today] /\ A[today] # Unset BY <1>1, <1>3, <1>4 DEF HistoryOn
<1>6. 1 .. (today - 1) \subseteq adj
  <2>1. today - 1 \in done BY <1>3 DEF Turns
  <2> QED BY <2>1 DEF QfqInv, QfqBase, DoneHadFactors
<1>7. RangeNow(d) = Latest BY <1>1, <1>3, <1>6, PricedNow
<1>8. Latest = A[today]
  <2>1. CASE today \in adj BY <2>1, <1>1, <1>3, PricedNow
  <2>2. CASE today \notin adj
    <3>1. Latest = A[today - 1] BY <2>2, <1>1, <1>3, <1>6, LatestBefore
    <3>2. HistoryOn(A[today - 1]) BY <2>2, <1>3 DEF HistoryOnOne
    <3>3. close[d] = A[today - 1] BY <3>2, <1>3 DEF HistoryOn
    <3> QED BY <3>1, <3>3, <1>5
  <2> QED BY <2>1, <2>2
<1>9. close'[d] = close[d] /\ range'[d] = range[d] BY <1>2, <1>5, <1>7, <1>8
<1> QED BY <1>1, <1>2, <1>9

LEMMA AssembleStep == ASSUME QfqInv, Assemble PROVE QfqInv'
<1> DEFINE d == calculation.date
<1>1. /\ A' = A /\ today' = today /\ adj' = adj /\ qfqRuns' = qfqRuns
      /\ calculation.at = "assemble" /\ calculation' = NoCalculation /\ d \in 1 .. today
      /\ close' \in [Days -> Int] /\ range' \in [Days -> Int]
      /\ \A e \in Days : e # d => close'[e] = close[e] /\ range'[e] = range[e]
      /\ done' = IF d = today /\ adj = 1 .. today THEN done \cup {d} ELSE done
      /\ crossed' = (crossed \/ (d < today /\ Behind))
  BY AssembledRow
<1>2. today \in Nat \ {0} /\ today \in Days /\ 1 .. today \subseteq Days /\ QfqTypeOK /\ QfqBase
  BY NewestTypes DEF QfqInv, QfqBase
<1> HIDE DEF d
<1>3. calculation' \in [date: 0..LastDay, at: {"none", "rebase", "assemble"}]
  BY <1>1, FactorsAssumption DEF NoCalculation
<1>4. done \subseteq done' /\ done' \subseteq Days BY <1>1, <1>2 DEF QfqTypeOK
<1>5. crossed \in BOOLEAN /\ crossed' \in BOOLEAN BY <1>1, <1>2 DEF QfqTypeOK
<1>6. QfqTypeOK' BY <1>1, <1>2, <1>3, <1>4, <1>5 DEF QfqTypeOK
<1>7. OfOpened' BY <1>1 DEF OfOpened
<1>8. \A e \in done' : e \in done \/ (e = today /\ d = today /\ adj = 1 .. today) BY <1>1
<1>9. DoneHadFactors'
  <2>1. done' \subseteq 1 .. today
    <3>1. done \subseteq 1 .. today BY <1>2 DEF QfqBase, DoneHadFactors
    <3>2. today \in 1 .. today BY <1>2
    <3> QED BY <3>1, <3>2, <1>8
  <2>2. \A e \in done' : 1 .. e \subseteq adj BY <1>2, <1>8 DEF QfqBase, DoneHadFactors
  <2> QED BY <1>1, <2>1, <2>2 DEF DoneHadFactors
<1>10. today \in done' => today \in adj
  <2>1. today \in done => today \in adj BY <1>2 DEF QfqBase, DoneHadFactors
  <2> QED BY <1>2, <1>8, <2>1
<1>11. ASSUME NewestOnItsBasis PROVE NewestOnItsBasis'
  <2>1. \A e \in Days : e > today => close'[e] = Unset
    BY <1>1, <1>2, <1>11 DEF NewestOnItsBasis
  <2>2. CASE d = today
    <3>1. /\ close'[today] \in {Unset, A[today]}
          /\ today \in adj => close'[today] = A[today] /\ range'[today] = A[today]
      BY <2>2, <1>11, AssembledNewest DEF d
    <3> QED BY <1>1, <1>10, <2>1, <3>1 DEF NewestOnItsBasis
  <2>3. CASE d # today
    <3>1. close'[today] = close[today] /\ range'[today] = range[today] /\ done' = done
      BY <1>1, <1>2, <2>3
    <3> QED BY <1>1, <1>11, <2>1, <3>1 DEF NewestOnItsBasis
  <2> QED BY <2>2, <2>3
<1>12. ASSUME 1 .. (today - 1) \subseteq done' PROVE Turns
  BY <1>2, <1>8, <1>12 DEF Turns
<1>13. ASSUME HistoryOnOne, ~crossed' PROVE HistoryOnOne'
  <2>1. calculation'.at # "assemble" BY <1>1 DEF NoCalculation
  <2>2. ASSUME Turns PROVE \A e \in 1 .. (today - 1) : close'[e] = close[e] /\ range'[e] = range[e]
    <3>1. CASE d = today
      <4>1. \A e \in 1 .. (today - 1) : e \in Days /\ e # d BY <3>1, <1>2
      <4> QED BY <4>1, <1>1
    <3>2. CASE d # today
      <4>1. d < today BY <3>2, <1>1, <1>2
      <4>2. ~Behind BY <4>1, <1>1, <1>13
      <4> QED BY <4>1, <4>2, <1>13, <2>2, AssembledEarlier DEF d
    <3> QED BY <3>1, <3>2
  <2>3. ASSUME Turns, today \in done' PROVE HistoryOn(A[today])
    BY <2>3, <1>1, <1>8, <1>13 DEF HistoryOnOne, d
  <2>4. Turns => /\ HistoryOn(A[today]) \/ (today > 1 /\ HistoryOn(A[today - 1]))
                 /\ today > 1 /\ today \notin adj => HistoryOn(A[today - 1])
    BY <1>13 DEF HistoryOnOne
  <2> QED BY <1>1, <1>12, <2>1, <2>2, <2>3, <2>4 DEF HistoryOnOne, HistoryOn, Turns
<1>14. ~crossed' => ~crossed BY <1>1, <1>5
<1> QED BY <1>6, <1>7, <1>9, <1>11, <1>13, <1>14 DEF QfqInv, QfqBase, Uncrossed

LEMMA ExitsStep == ASSUME QfqInv, Exits PROVE QfqInv'
<1>1. /\ A' = A /\ today' = today /\ adj' = adj /\ close' = close /\ range' = range
      /\ qfqRuns' = qfqRuns /\ done' = done /\ calculation' = NoCalculation /\ crossed' = crossed
  BY DEF Exits
<1>2. calculation' \in [date: 0..LastDay, at: {"none", "rebase", "assemble"}]
  BY <1>1, FactorsAssumption DEF NoCalculation
<1>3. calculation'.at # "assemble" BY <1>1 DEF NoCalculation
<1>4. QfqTypeOK' BY <1>1, <1>2 DEF QfqInv, QfqBase, QfqTypeOK
<1>5. OfOpened' BY <1>1 DEF OfOpened
<1>6. DoneHadFactors' BY <1>1 DEF QfqInv, QfqBase, DoneHadFactors
<1>7. NewestOnItsBasis => NewestOnItsBasis' BY <1>1 DEF NewestOnItsBasis
<1>8. HistoryOnOne => HistoryOnOne' BY <1>1, <1>3 DEF HistoryOnOne, HistoryOn, Turns
<1> QED BY <1>1, <1>4, <1>5, <1>6, <1>7, <1>8 DEF QfqInv, QfqBase, Uncrossed

LEMMA QfqInductive ==
  /\ QfqInit => QfqInv
  /\ QfqInv /\ [QfqNext]_qfqVars => QfqInv'
<1>1. ASSUME QfqInit PROVE QfqInv
  <2>1. /\ A \in Factors /\ today = 1 /\ adj = {} /\ qfqRuns = 0 /\ done = {}
        /\ close = [d \in Days |-> Unset] /\ range = [d \in Days |-> Unset]
        /\ calculation = NoCalculation /\ crossed = FALSE
    BY <1>1 DEF QfqInit
  <2>2. /\ 1 \in Days /\ Unset \in Int /\ A \in [Days -> Nat] /\ 0 \in 0 .. MaxQfqRuns
        /\ calculation \in [date: 0..LastDay, at: {"none", "rebase", "assemble"}]
    BY <2>1, FactorsAssumption DEF Days, Unset, NoCalculation
  <2>3. QfqTypeOK BY <2>1, <2>2 DEF QfqTypeOK
  <2>4. calculation.at # "assemble" BY <2>1 DEF NoCalculation
  <2>5. OfOpened /\ DoneHadFactors /\ NewestOnItsBasis
    BY <2>1, <2>2 DEF OfOpened, DoneHadFactors, NewestOnItsBasis
  <2>6. HistoryOnOne BY <2>1, <2>4 DEF HistoryOnOne, HistoryOn
  <2> QED BY <2>3, <2>5, <2>6 DEF QfqInv, QfqBase, Uncrossed
<1>2. ASSUME QfqInv, [QfqNext]_qfqVars PROVE QfqInv'
  <2>1. CASE OpenDay BY <2>1, <1>2, OpenDayStep
  <2>2. CASE Rebase BY <2>2, <1>2, RebaseStep
  <2>3. CASE Assemble BY <2>3, <1>2, AssembleStep
  <2>4. CASE Exits BY <2>4, <1>2, ExitsStep
  <2>5. ASSUME NEW d \in Days, FactorArrives(d) PROVE QfqInv' BY <2>5, <1>2, FactorArrivesStep
  <2>6. ASSUME NEW d \in Days, ProviderRow(d) PROVE QfqInv' BY <2>6, <1>2, ProviderRowStep
  <2>7. ASSUME NEW d \in Days, Calculate(d) PROVE QfqInv' BY <2>7, <1>2, CalculateStep
  <2>8. CASE UNCHANGED qfqVars
    BY <2>8, <1>2 DEF qfqVars, QfqInv, QfqBase, Uncrossed, QfqTypeOK, OfOpened, DoneHadFactors,
                      NewestOnItsBasis, HistoryOnOne, HistoryOn, Turns
  <2> QED BY <1>2, <2>1, <2>2, <2>3, <2>4, <2>5, <2>6, <2>7, <2>8 DEF QfqNext
<1> QED BY <1>1, <1>2

\* The calculation of the newest date leaves the whole stored history on its basis, whatever the
\* factors of the dates, however often a run was repeated or cut between its two commits, and
\* whichever earlier dates were calculated again or refetched
\* (rebase_qfq_history_for_adjustment_changes, assemble_stock_daily_factors_final), as long as
\* earlier dates had their turn as the newest, that other work did not write into a history that
\* waited for its rebase or turn it back, and no ratio was refused.
THEOREM NewestBasisThroughout == QfqSpec => OneBasis
<1>1. ASSUME QfqInv, [QfqNext]_qfqVars PROVE [AssemblesOneBasis]_qfqVars
  <2> SUFFICES ASSUME Assemble, calculation.date = today, adj = 1 .. today,
                      1 .. (today - 1) \subseteq done, ~crossed
               PROVE  OnBasis(today)'
    BY DEF AssemblesOneBasis
  <2>1. NewestOnItsBasis /\ HistoryOnOne BY <1>1 DEF QfqInv, Uncrossed
  <2>2. /\ A' = A /\ today' = today /\ calculation.at = "assemble"
        /\ \A e \in Days : e # today => close'[e] = close[e] /\ range'[e] = range[e]
    BY <1>1, AssembledRow
  <2>3. today \in Nat \ {0} /\ 1 .. today \subseteq Days /\ today \in adj
    BY <1>1, NewestTypes DEF QfqInv, QfqBase
  <2>4. close'[today] = A[today] /\ range'[today] = A[today] BY <1>1, <2>1, <2>3, AssembledNewest
  <2>5. \A e \in 1 .. (today - 1) : close[e] = A[today] /\ range[e] = A[today]
    BY <2>1, <2>2 DEF HistoryOnOne, HistoryOn, Turns
  <2>6. \A e \in 1 .. today : e = today \/ (e \in 1 .. (today - 1) /\ e \in Days /\ e # today)
    BY <2>3
  <2>7. \A e \in 1 .. today : close'[e] \in {Unset, A[today]} /\ range'[e] \in {Unset, A[today]}
    BY <2>2, <2>4, <2>5, <2>6
  <2> QED BY <2>2, <2>7 DEF OnBasis
<1>2. QfqInit => QfqInv BY QfqInductive
<1>3. QfqInv /\ [QfqNext]_qfqVars => QfqInv' BY QfqInductive
<1> QED BY <1>1, <1>2, <1>3, PTL DEF QfqSpec, OneBasis

-----------------------------------------------------------------------------
(* The history backfill of the stocks (HistoryBackfill)                    *)

HistoryStages == {"none", "clear", "facts", "clear_events", "events", "done", "raised"}
HistoryRunRows == [stage: HistoryStages, mode: {"append_safe", "rebuild"}, only: BOOLEAN,
                   fast: BOOLEAN, failed: Nat]
HistoryHands == [at: {"idle", "held", "gone"}, item: SUBSET (PoolStocks \union OpenDates),
                 rows: SUBSET (PoolStocks \X OpenDates), count: Int]

HistoryTypeOK ==
  /\ stockRows \in [PoolStocks -> SUBSET OpenDates]
  /\ historyRun \in HistoryRunRows
  /\ stockWork \in [Crew -> HistoryHands]

\* While facts are fetched a worker that waits for an answer asked for one stock.
OneStockHeld ==
  historyRun.stage \in {"clear", "facts"} =>
    \A w \in Crew : stockWork[w].at = "held" => \E s \in PoolStocks : stockWork[w].item = {s}

\* A stock the run has still to ask for, or whose answer a worker waits for.
Pending(s) ==
  \/ s \in stockQueue
  \/ \E w \in Crew : stockWork[w].at = "held" /\ s \in stockWork[w].item

\* A stock all of whose rows are stored or in the buffer of a worker.
Fetched(s) ==
  \A d \in GivenRows[s] :
    d \in stockRows[s] \/ \E w \in Crew : <<s, d>> \in stockWork[w].rows

\* As long as nothing failed, a stock is waited for or its rows are on their way to the
\* table; a worker that left the queue leaves neither stocks nor rows behind.
NothingLost ==
  historyRun.failed = 0 =>
    /\ historyRun.stage = "clear" => PoolStocks \subseteq stockQueue
    /\ historyRun.stage = "facts" => \A s \in PoolStocks : Pending(s) \/ Fetched(s)
    /\ historyRun.stage \in {"clear", "facts"} =>
         \A w \in Crew : stockWork[w].at = "gone" => stockQueue = {} /\ stockWork[w].rows = {}
    /\ historyRun.stage \in {"clear_events", "events", "done"} =>
         \A s \in PoolStocks : GivenRows[s] \subseteq stockRows[s]

HistoryInv == HistoryTypeOK /\ OneStockHeld /\ NothingLost

LEMMA HistoryStarts == History!Init => HistoryInv
<1> SUFFICES ASSUME History!Init PROVE HistoryInv
  OBVIOUS
<1>1. HistoryTypeOK
  BY DEF History!Init, History!NoRun, History!Gone, History!Idle, HistoryTypeOK,
     HistoryRunRows, HistoryHands, HistoryStages
<1>2. NothingLost
  BY DEF History!Init, History!NoRun, NothingLost
<1>3. OneStockHeld
  BY DEF History!Init, History!NoRun, OneStockHeld
<1> QED
  BY <1>1, <1>2, <1>3 DEF HistoryInv

\* The two states of a worker that holds nothing, field by field.
LEMMA HistoryHandsEmpty ==
  /\ History!Idle \in HistoryHands /\ History!Gone \in HistoryHands
  /\ History!Idle.at = "idle" /\ History!Idle.item = {} /\ History!Idle.rows = {}
  /\ History!Gone.at = "gone" /\ History!Gone.item = {} /\ History!Gone.rows = {}
BY DEF History!Idle, History!Gone, HistoryHands

\* What a step leaves alone of the run when it only counts a failure or ends it.
LEMMA HistoryFailures ==
  ASSUME HistoryTypeOK
  PROVE /\ History!Raised \in HistoryRunRows /\ History!Raised.failed # 0
        /\ History!Counted \in HistoryRunRows /\ History!Counted.failed # 0
<1>1. historyRun.failed \in Nat /\ historyRun.failed + 1 \in Nat /\ historyRun.failed + 1 # 0
  BY DEF HistoryTypeOK, HistoryRunRows
<1> DEFINE more == historyRun.failed + 1
<1>2. more \in Nat /\ more # 0
  BY <1>1
<1>3. /\ History!Raised = [historyRun EXCEPT !.stage = "raised", !.failed = more]
      /\ History!Counted = [historyRun EXCEPT !.failed = more]
  BY DEF History!Raised, History!Counted
<1> HIDE DEF more
<1>4. historyRun \in HistoryRunRows
  BY DEF HistoryTypeOK
<1>5. /\ History!Raised \in HistoryRunRows /\ History!Raised.failed = more
      /\ History!Counted \in HistoryRunRows /\ History!Counted.failed = more
  BY <1>2, <1>3, <1>4 DEF HistoryRunRows, HistoryStages
<1> QED
  BY <1>2, <1>5

\* Rows are only added by a write.
LEMMA HistoryWrites ==
  ASSUME HistoryTypeOK, NEW rows
  PROVE /\ History!Written(rows) \in [PoolStocks -> SUBSET OpenDates]
        /\ \A s \in PoolStocks : /\ stockRows[s] \subseteq History!Written(rows)[s]
                                 /\ \A d \in OpenDates : <<s, d>> \in rows => d \in History!Written(rows)[s]
<1>1. History!Written(rows) \in [PoolStocks -> SUBSET OpenDates]
  BY DEF HistoryTypeOK, History!Written, History!Upserted
<1>2. ASSUME NEW s \in PoolStocks
      PROVE History!Written(rows)[s] = stockRows[s] \union {d \in OpenDates : <<s, d>> \in rows}
  BY DEF History!Written, History!Upserted
<1> QED
  BY <1>1, <1>2

\* The rows of an answer are the ones the provider has and the table has not.
LEMMA HistoryAnswers ==
  ASSUME HistoryTypeOK, NEW s \in PoolStocks
  PROVE /\ History!RowsOf(s) \subseteq PoolStocks \X OpenDates
        /\ \A d \in GivenRows[s] : d \in stockRows[s] \/ <<s, d>> \in History!RowsOf(s)
        /\ History!Complete(s) => GivenRows[s] \subseteq stockRows[s]
<1>1. GivenRows[s] \subseteq OpenDates
  BY GivenRowsAssumption
<1>2. History!Existing(s) \subseteq stockRows[s]
  BY DEF History!Existing
<1>3. History!Answer(s) = {s} \X GivenRows[s]
  BY DEF History!Answer
<1>4. \A d \in GivenRows[s] : <<s, d>> \in History!Answer(s)
  BY <1>3
<1>5. History!Answer(s) \subseteq PoolStocks \X OpenDates
  BY <1>1, <1>3
<1>6. \A d \in GivenRows[s] : d \notin History!Existing(s) => <<s, d>> \in History!RowsOf(s)
  BY <1>4 DEF History!RowsOf
<1>7. History!RowsOf(s) \subseteq History!Answer(s)
  BY DEF History!RowsOf
<1> QED
  BY <1>1, <1>2, <1>5, <1>6, <1>7 DEF History!Complete

\* A run starts with the stocks that have something left to fetch.
LEMMA StartsHistory ==
  ASSUME HistoryInv, NEW mode \in {"append_safe", "rebuild"}, NEW only \in BOOLEAN,
         NEW fast \in BOOLEAN, History!Start(mode, only, fast)
  PROVE HistoryInv'
<1>1. /\ historyRun' \in HistoryRunRows /\ historyRun'.stage \in {"clear", "facts"}
      /\ stockQueue' = PoolStocks /\ stockRows' = stockRows
      /\ stockWork' = [w \in Crew |-> History!Idle]
  BY DEF History!Start, HistoryRunRows, HistoryStages
<1>2. HistoryTypeOK'
  BY <1>1, HistoryHandsEmpty DEF HistoryInv, HistoryTypeOK
<1>3. \A w \in Crew : stockWork'[w].at = "idle"
  BY <1>1, HistoryHandsEmpty
<1>4. NothingLost'
  BY <1>1, <1>3 DEF NothingLost, Pending
<1>5. OneStockHeld'
  BY <1>3 DEF OneStockHeld
<1> QED
  BY <1>2, <1>4, <1>5 DEF HistoryInv

LEMMA ClearsHistory ==
  ASSUME HistoryInv, History!ClearFacts
  PROVE HistoryInv'
<1>1. /\ historyRun' \in HistoryRunRows /\ historyRun'.stage = "facts"
      /\ historyRun'.failed = historyRun.failed /\ historyRun.stage = "clear"
  BY DEF History!ClearFacts, HistoryInv, HistoryTypeOK, HistoryRunRows, HistoryStages
<1>2. stockRows' \in [PoolStocks -> SUBSET OpenDates]
  BY DEF History!ClearFacts, History!NoFacts
<1>3. HistoryTypeOK'
  BY <1>1, <1>2 DEF History!ClearFacts, HistoryInv, HistoryTypeOK
<1>4. NothingLost'
  BY <1>1 DEF History!ClearFacts, HistoryInv, NothingLost, Pending
<1>5. OneStockHeld'
  BY <1>1 DEF History!ClearFacts, HistoryInv, OneStockHeld
<1> QED
  BY <1>3, <1>4, <1>5 DEF HistoryInv

LEMMA TakesStock ==
  ASSUME HistoryInv, NEW w \in Crew, NEW s \in PoolStocks, History!TakeStock(w, s)
  PROVE HistoryInv'
<1> DEFINE taken == [stockWork[w] EXCEPT !.at = "held", !.item = {s}]
<1>1. CASE History!Complete(s)
  <2>1. GivenRows[s] \subseteq stockRows[s]
    BY <1>1, HistoryAnswers DEF HistoryInv
  <2>2. /\ stockWork' = stockWork /\ stockRows' = stockRows /\ historyRun' = historyRun
        /\ stockQueue' = stockQueue \ {s} /\ historyRun.stage = "facts"
    BY <1>1 DEF History!TakeStock
  <2>3. HistoryTypeOK'
    BY <2>2 DEF HistoryInv, HistoryTypeOK
  <2>4. NothingLost'
    BY <2>1, <2>2 DEF HistoryInv, NothingLost, Pending, Fetched
  <2>5. OneStockHeld'
    BY <2>2 DEF HistoryInv, OneStockHeld
  <2> QED
    BY <2>3, <2>4, <2>5 DEF HistoryInv
<1>2. CASE ~History!Complete(s)
  <2>1. /\ stockRows' = stockRows /\ historyRun' = historyRun
        /\ stockQueue' = stockQueue \ {s} /\ historyRun.stage = "facts"
        /\ stockWork[w].at = "idle" /\ s \in stockQueue
    BY DEF History!TakeStock
  <2>2. stockWork' = [stockWork EXCEPT ![w] = taken]
    BY <1>2 DEF History!TakeStock, HistoryInv, HistoryTypeOK
  <2>3. /\ taken \in HistoryHands /\ taken.at = "held" /\ taken.item = {s}
        /\ taken.rows = stockWork[w].rows
    BY DEF HistoryInv, HistoryTypeOK, HistoryHands
  <2> HIDE DEF taken
  <2>4. /\ stockWork'[w] = taken
        /\ \A v \in Crew : v # w => stockWork'[v] = stockWork[v]
    BY <2>2 DEF HistoryInv, HistoryTypeOK
  <2>5. HistoryTypeOK'
    BY <2>1, <2>2, <2>3 DEF HistoryInv, HistoryTypeOK
  <2>6. ASSUME historyRun.failed = 0 PROVE \A x \in PoolStocks : Pending(x)' \/ Fetched(x)'
    <3> SUFFICES ASSUME NEW x \in PoolStocks, x # s PROVE Pending(x)' \/ Fetched(x)'
      BY <2>3, <2>4 DEF Pending
    <3>1. Pending(x) \/ Fetched(x)
      BY <2>1, <2>6 DEF HistoryInv, NothingLost
    <3>2. CASE Pending(x)
      BY <2>1, <2>4, <3>2 DEF Pending
    <3>3. CASE Fetched(x)
      BY <2>1, <2>3, <2>4, <3>3 DEF Fetched
    <3> QED
      BY <3>1, <3>2, <3>3
  <2>7. ASSUME historyRun.failed = 0, NEW v \in Crew, stockWork'[v].at = "gone"
        PROVE FALSE
    <3>1. v # w
      BY <2>3, <2>4, <2>7
    <3> QED
      BY <2>1, <2>4, <2>7, <3>1 DEF HistoryInv, NothingLost
  <2>8. NothingLost'
    BY <2>1, <2>6, <2>7 DEF NothingLost
  <2>9. OneStockHeld'
    BY <2>1, <2>3, <2>4 DEF HistoryInv, OneStockHeld
  <2> QED
    BY <2>5, <2>8, <2>9 DEF HistoryInv
<1> QED
  BY <1>1, <1>2

\* An answer leaves its stock fetched: its rows are stored, in the buffer, or the run has failed.
LEMMA StockArrivesKeeps ==
  ASSUME HistoryInv, NEW w \in Crew, History!StockArrives(w)
  PROVE HistoryInv'
<1>1. PICK s \in stockWork[w].item :
        LET rows == stockWork[w].rows \cup History!RowsOf(s) IN
        \/ /\ stockRows' = History!Written(rows)
           /\ stockWork' = [stockWork EXCEPT ![w] = History!Idle]
        \/ /\ stockWork' = [stockWork EXCEPT ![w] =
                  [History!Idle EXCEPT !.rows = rows, !.count = stockWork[w].count + 1]]
           /\ stockRows' = stockRows
  BY DEF History!StockArrives
<1> DEFINE rows == stockWork[w].rows \cup History!RowsOf(s)
           sum == stockWork[w].count + 1
           kept == [History!Idle EXCEPT !.rows = rows, !.count = sum]
<1>2. /\ historyRun' = historyRun /\ stockQueue' = stockQueue
      /\ historyRun.stage = "facts" /\ stockWork[w].at = "held"
  BY DEF History!StockArrives
<1>3. /\ HistoryTypeOK /\ stockWork[w] \in HistoryHands /\ stockWork[w].count \in Int
      /\ stockWork[w].rows \subseteq PoolStocks \X OpenDates
  BY DEF HistoryInv, HistoryTypeOK, HistoryHands
<1>4. s \in PoolStocks /\ stockWork[w].item = {s}
  BY <1>2 DEF HistoryInv, OneStockHeld
<1>5. /\ rows \subseteq PoolStocks \X OpenDates
      /\ \A d \in GivenRows[s] : d \in stockRows[s] \/ <<s, d>> \in rows
      /\ stockWork[w].rows \subseteq rows
  BY <1>3, <1>4, HistoryAnswers
<1>6. kept.at = "idle" /\ kept.rows = rows /\ kept \in HistoryHands
  <2>1. sum \in Int
    BY <1>3 DEF History!Idle
  <2> HIDE DEF sum, rows
  <2> QED
    BY <1>5, <2>1, HistoryHandsEmpty DEF HistoryHands
<1>7. /\ stockRows' \in [PoolStocks -> SUBSET OpenDates]
      /\ \A x \in PoolStocks : stockRows[x] \subseteq stockRows'[x]
      /\ \E hand \in HistoryHands :
           /\ hand.at = "idle"
           /\ stockWork' = [stockWork EXCEPT ![w] = hand]
           /\ \/ hand.rows = rows
              \/ \A x \in PoolStocks, d \in OpenDates : <<x, d>> \in rows => d \in stockRows'[x]
  <2> HIDE DEF kept, rows
  <2>1. CASE stockRows' = History!Written(rows) /\ stockWork' = [stockWork EXCEPT ![w] = History!Idle]
    BY <1>3, <2>1, HistoryWrites, HistoryHandsEmpty
  <2>2. CASE stockWork' = [stockWork EXCEPT ![w] = kept] /\ stockRows' = stockRows
    BY <1>3, <1>6, <2>2 DEF HistoryTypeOK
  <2> QED
    BY <1>1, <2>1, <2>2 DEF kept, rows, sum
<1> HIDE DEF kept, rows
<1>8. PICK hand \in HistoryHands :
        /\ hand.at = "idle"
        /\ stockWork' = [stockWork EXCEPT ![w] = hand]
        /\ \/ hand.rows = rows
           \/ \A x \in PoolStocks, d \in OpenDates : <<x, d>> \in rows => d \in stockRows'[x]
  BY <1>7
<1>9. /\ stockWork'[w] = hand
      /\ \A v \in Crew : v # w => stockWork'[v] = stockWork[v]
  BY <1>3, <1>8 DEF HistoryTypeOK
<1>10. HistoryTypeOK'
  BY <1>2, <1>3, <1>7, <1>8 DEF HistoryTypeOK
<1>11. OneStockHeld'
  BY <1>2, <1>8, <1>9 DEF HistoryInv, OneStockHeld
<1>12. ASSUME historyRun.failed = 0 PROVE \A x \in PoolStocks : Pending(x)' \/ Fetched(x)'
  <2> SUFFICES ASSUME NEW x \in PoolStocks PROVE Pending(x)' \/ Fetched(x)'
    OBVIOUS
  <2>1. \A d \in GivenRows[x] : d \in OpenDates
    BY GivenRowsAssumption
  <2>2. CASE x = s
    <3> SUFFICES ASSUME NEW d \in GivenRows[s]
                 PROVE d \in stockRows'[s] \/ \E v \in Crew : <<s, d>> \in stockWork'[v].rows
      BY <2>2 DEF Fetched
    <3>1. CASE d \in stockRows[s]
      BY <1>4, <1>7, <3>1
    <3>2. CASE <<s, d>> \in rows
      BY <1>4, <1>8, <1>9, <2>1, <2>2, <3>2
    <3> QED
      BY <1>5, <3>1, <3>2
  <2>3. CASE x # s /\ Pending(x)
    <3>1. CASE x \in stockQueue
      BY <1>2, <3>1 DEF Pending
    <3>2. CASE \E v \in Crew : stockWork[v].at = "held" /\ x \in stockWork[v].item
      BY <1>4, <1>9, <2>3, <3>2 DEF Pending
    <3> QED
      BY <2>3, <3>1, <3>2 DEF Pending
  <2>4. CASE Fetched(x)
    <3> SUFFICES ASSUME NEW d \in GivenRows[x]
                 PROVE d \in stockRows'[x] \/ \E v \in Crew : <<x, d>> \in stockWork'[v].rows
      BY DEF Fetched
    <3>1. CASE d \in stockRows[x]
      BY <1>7, <3>1
    <3>2. CASE \E v \in Crew : v # w /\ <<x, d>> \in stockWork[v].rows
      BY <1>9, <3>2
    <3>3. CASE <<x, d>> \in stockWork[w].rows
      BY <1>5, <1>8, <1>9, <2>1, <3>3
    <3> QED
      BY <2>4, <3>1, <3>2, <3>3 DEF Fetched
  <2> QED
    BY <1>2, <1>12, <2>2, <2>3, <2>4 DEF HistoryInv, NothingLost
<1>13. ASSUME historyRun.failed = 0, NEW v \in Crew, stockWork'[v].at = "gone"
       PROVE stockQueue' = {} /\ stockWork'[v].rows = {}
  <2>1. v # w
    BY <1>8, <1>9, <1>13
  <2> QED
    BY <1>2, <1>9, <1>13, <2>1 DEF HistoryInv, NothingLost
<1>14. NothingLost'
  BY <1>2, <1>12, <1>13 DEF NothingLost
<1> QED
  BY <1>10, <1>11, <1>14 DEF HistoryInv

\* A failure only has to keep the types, and what the workers still wait for: from then on
\* nothing is said of the run.
LEMMA HistoryFaulted ==
  ASSUME HistoryInv, stockRows' = stockRows,
         historyRun' \in HistoryRunRows, historyRun'.failed # 0,
         \/ historyRun'.stage \notin {"clear", "facts"}
         \/ historyRun'.stage = historyRun.stage,
         \/ stockWork' = [v \in Crew |-> History!Gone]
         \/ \E w \in Crew : stockWork' = [stockWork EXCEPT ![w] = History!Idle]
  PROVE HistoryInv'
<1>1. /\ stockWork \in [Crew -> HistoryHands] /\ HistoryTypeOK
      /\ History!Gone.at = "gone" /\ History!Idle.at = "idle"
      /\ History!Gone \in HistoryHands /\ History!Idle \in HistoryHands
  BY HistoryHandsEmpty DEF HistoryInv, HistoryTypeOK
<1>2. HistoryTypeOK'
  BY <1>1 DEF HistoryTypeOK
<1>3. \A v \in Crew : stockWork'[v].at = "held" => stockWork'[v] = stockWork[v]
  BY <1>1
<1>4. OneStockHeld'
  BY <1>3 DEF HistoryInv, OneStockHeld
<1>5. NothingLost'
  BY DEF NothingLost
<1> QED
  BY <1>2, <1>4, <1>5 DEF HistoryInv

LEMMA FailsHistory ==
  ASSUME HistoryInv, NEW w \in Crew,
         \/ History!StockFails(w) \/ History!LastFlushFails(w) \/ History!DateFails(w)
         \/ History!Crash
  PROVE HistoryInv'
<1>1. /\ History!Raised \in HistoryRunRows /\ History!Raised.failed # 0
      /\ History!Raised.stage = "raised"
      /\ History!Counted \in HistoryRunRows /\ History!Counted.failed # 0
      /\ History!Counted.stage = historyRun.stage
  <2>1. History!Raised.stage = "raised" /\ History!Counted.stage = historyRun.stage
    BY DEF History!Raised, History!Counted, HistoryInv, HistoryTypeOK, HistoryRunRows
  <2> QED
    BY <2>1, HistoryFailures DEF HistoryInv
<1>2. /\ stockRows' = stockRows
      /\ historyRun' = History!Raised \/ historyRun' = History!Counted
      /\ \/ stockWork' = [v \in Crew |-> History!Gone]
         \/ stockWork' = [stockWork EXCEPT ![w] = History!Idle]
  BY DEF History!StockFails, History!LastFlushFails, History!DateFails, History!Crash
<1>3. /\ historyRun' \in HistoryRunRows /\ historyRun'.failed # 0
      /\ historyRun'.stage \notin {"clear", "facts"} \/ historyRun'.stage = historyRun.stage
  BY <1>1, <1>2
<1> QED
  BY <1>2, <1>3, HistoryFaulted

LEMMA LastFlushKeeps ==
  ASSUME HistoryInv, NEW w \in Crew, History!LastFlush(w)
  PROVE HistoryInv'
<1>1. /\ historyRun.stage = "facts" /\ stockQueue = {} /\ stockQueue' = stockQueue
      /\ historyRun' = historyRun /\ stockRows' = History!Written(stockWork[w].rows)
      /\ stockWork' = [stockWork EXCEPT ![w] = History!Gone] /\ stockWork[w].at = "idle"
  BY DEF History!LastFlush
<1>2. HistoryTypeOK /\ stockWork \in [Crew -> HistoryHands]
  BY DEF HistoryInv, HistoryTypeOK
<1>3. /\ stockRows' \in [PoolStocks -> SUBSET OpenDates]
      /\ \A s \in PoolStocks : /\ stockRows[s] \subseteq stockRows'[s]
                               /\ \A d \in OpenDates :
                                    <<s, d>> \in stockWork[w].rows => d \in stockRows'[s]
  BY <1>1, <1>2, HistoryWrites
<1>4. /\ stockWork'[w] = History!Gone
      /\ \A v \in Crew : v # w => stockWork'[v] = stockWork[v]
  BY <1>1, <1>2
<1>5. HistoryTypeOK'
  BY <1>1, <1>2, <1>3, HistoryHandsEmpty DEF HistoryTypeOK
<1>6. OneStockHeld'
  BY <1>1, <1>4, HistoryHandsEmpty DEF HistoryInv, OneStockHeld
<1>7. ASSUME historyRun.failed = 0, NEW s \in PoolStocks
      PROVE Pending(s)' \/ Fetched(s)'
  <2>1. CASE Pending(s)
    BY <1>1, <1>4, <2>1 DEF Pending
  <2>2. CASE Fetched(s)
    <3> SUFFICES ASSUME NEW d \in GivenRows[s]
                 PROVE d \in stockRows'[s] \/ \E v \in Crew : <<s, d>> \in stockWork'[v].rows
      BY DEF Fetched
    <3>1. d \in OpenDates
      BY GivenRowsAssumption
    <3>2. CASE d \in stockRows[s]
      BY <1>3, <3>2
    <3>3. CASE \E v \in Crew : v # w /\ <<s, d>> \in stockWork[v].rows
      BY <1>4, <3>3
    <3>4. CASE <<s, d>> \in stockWork[w].rows
      BY <1>3, <3>1, <3>4
    <3> QED
      BY <2>2, <3>2, <3>3, <3>4 DEF Fetched
  <2> QED
    BY <1>1, <1>7, <2>1, <2>2 DEF HistoryInv, NothingLost
<1>8. ASSUME historyRun.failed = 0, NEW v \in Crew, stockWork'[v].at = "gone"
      PROVE stockQueue' = {} /\ stockWork'[v].rows = {}
  BY <1>1, <1>4, <1>8, HistoryHandsEmpty DEF HistoryInv, NothingLost
<1>9. NothingLost'
  BY <1>1, <1>7, <1>8 DEF NothingLost
<1> QED
  BY <1>5, <1>6, <1>9 DEF HistoryInv

\* When all workers are gone nothing is waited for: every stock's rows are stored.
LEMMA FactsEndKeeps ==
  ASSUME HistoryInv, History!FactsEnd
  PROVE HistoryInv'
<1>1. /\ historyRun.stage = "facts" /\ \A w \in Crew : stockWork[w].at = "gone"
      /\ historyRun' = [historyRun EXCEPT !.stage = "clear_events"]
      /\ stockRows' = stockRows /\ stockWork' = [w \in Crew |-> History!Idle]
  BY DEF History!FactsEnd
<1>2. /\ historyRun' \in HistoryRunRows /\ historyRun'.stage = "clear_events"
      /\ historyRun'.failed = historyRun.failed
  BY <1>1 DEF HistoryInv, HistoryTypeOK, HistoryRunRows, HistoryStages
<1>3. HistoryTypeOK'
  BY <1>1, <1>2, HistoryHandsEmpty DEF HistoryInv, HistoryTypeOK
<1>4. OneStockHeld'
  BY <1>2 DEF OneStockHeld
<1>5. ASSUME historyRun.failed = 0, NEW s \in PoolStocks PROVE GivenRows[s] \subseteq stockRows[s]
  <2>1. stockQueue = {} /\ \A w \in Crew : stockWork[w].rows = {}
    BY <1>1, <1>5, CrewAssumption DEF HistoryInv, NothingLost
  <2>2. ~Pending(s)
    BY <1>1, <2>1 DEF Pending
  <2>3. Fetched(s)
    BY <1>1, <1>5, <2>2 DEF HistoryInv, NothingLost
  <2> QED
    BY <2>1, <2>3 DEF Fetched
<1>6. NothingLost'
  BY <1>1, <1>2, <1>5 DEF NothingLost
<1> QED
  BY <1>3, <1>4, <1>6 DEF HistoryInv

\* The event stage leaves the facts as they are.
LEMMA EventStageKeeps ==
  ASSUME HistoryInv, stockRows' = stockRows, stockWork' \in [Crew -> HistoryHands],
         historyRun.stage \in {"clear_events", "events"},
         historyRun' \in HistoryRunRows, historyRun'.failed = historyRun.failed,
         historyRun'.stage \in {"events", "done"}
  PROVE HistoryInv'
<1>1. HistoryTypeOK'
  BY DEF HistoryInv, HistoryTypeOK
<1>2. OneStockHeld'
  BY DEF OneStockHeld
<1>3. NothingLost'
  BY DEF HistoryInv, NothingLost
<1> QED
  BY <1>1, <1>2, <1>3 DEF HistoryInv

LEMMA EventStageSteps ==
  ASSUME HistoryInv,
         \/ History!ClearEvents \/ History!EventsEnd
         \/ \E w \in Crew : History!DateArrives(w) \/ \E d \in OpenDates : History!TakeDate(w, d)
  PROVE HistoryInv'
<1>1. historyRun \in HistoryRunRows /\ stockWork \in [Crew -> HistoryHands]
  BY DEF HistoryInv, HistoryTypeOK
<1>2. CASE History!ClearEvents
  <2>1. /\ historyRun.stage = "clear_events" /\ stockRows' = stockRows /\ stockWork' = stockWork
        /\ historyRun' \in HistoryRunRows /\ historyRun'.stage = "events"
        /\ historyRun'.failed = historyRun.failed
    BY <1>1, <1>2 DEF History!ClearEvents, HistoryRunRows, HistoryStages
  <2> QED
    BY <1>1, <2>1, EventStageKeeps
<1>3. CASE History!EventsEnd
  <2>1. /\ historyRun.stage = "events" /\ stockRows' = stockRows
        /\ stockWork' \in [Crew -> HistoryHands]
        /\ historyRun' \in HistoryRunRows /\ historyRun'.stage = "done"
        /\ historyRun'.failed = historyRun.failed
    BY <1>1, <1>3, HistoryHandsEmpty DEF History!EventsEnd, HistoryRunRows, HistoryStages
  <2> QED
    BY <2>1, EventStageKeeps
<1>4. ASSUME NEW w \in Crew, History!DateArrives(w) PROVE HistoryInv'
  <2>1. /\ historyRun.stage = "events" /\ historyRun' = historyRun /\ stockRows' = stockRows
        /\ stockWork' \in [Crew -> HistoryHands]
    BY <1>1, <1>4, HistoryHandsEmpty DEF History!DateArrives
  <2> QED
    BY <1>1, <2>1, EventStageKeeps
<1>5. ASSUME NEW w \in Crew, NEW d \in OpenDates, History!TakeDate(w, d) PROVE HistoryInv'
  <2> DEFINE hand == [stockWork[w] EXCEPT !.at = "held", !.item = {d}]
  <2>1. /\ historyRun.stage = "events" /\ historyRun' = historyRun /\ stockRows' = stockRows
        /\ stockWork' = [stockWork EXCEPT ![w] = hand]
    BY <1>1, <1>5 DEF History!TakeDate
  <2>2. hand \in HistoryHands
    BY <1>1 DEF HistoryHands
  <2> HIDE DEF hand
  <2>3. stockWork' \in [Crew -> HistoryHands]
    BY <1>1, <2>1, <2>2
  <2> QED
    BY <1>1, <2>1, <2>3, EventStageKeeps
<1> QED
  BY <1>2, <1>3, <1>4, <1>5

\* The daily ingest only adds rows, whatever the run is at.
LEMMA DailyRowKeeps ==
  ASSUME HistoryInv, NEW s \in PoolStocks, NEW d \in OpenDates, History!DailyRow(s, d)
  PROVE HistoryInv'
<1>1. /\ stockRows' = [stockRows EXCEPT ![s] = @ \cup {d}] /\ historyRun' = historyRun
      /\ stockQueue' = stockQueue /\ stockWork' = stockWork
  BY DEF History!DailyRow
<1>2. /\ stockRows' \in [PoolStocks -> SUBSET OpenDates]
      /\ \A x \in PoolStocks : stockRows[x] \subseteq stockRows'[x]
  BY <1>1 DEF HistoryInv, HistoryTypeOK
<1>3. HistoryTypeOK'
  BY <1>1, <1>2 DEF HistoryInv, HistoryTypeOK
<1>4. OneStockHeld'
  BY <1>1 DEF HistoryInv, OneStockHeld
<1>5. ASSUME NEW x \in PoolStocks PROVE /\ Pending(x) => Pending(x)'
                                        /\ Fetched(x) => Fetched(x)'
                                        /\ GivenRows[x] \subseteq stockRows[x] =>
                                             GivenRows[x] \subseteq stockRows'[x]
  BY <1>1, <1>2 DEF Pending, Fetched
<1>6. NothingLost'
  BY <1>1, <1>5 DEF HistoryInv, NothingLost
<1> QED
  BY <1>3, <1>4, <1>6 DEF HistoryInv

LEMMA HistorySteps == HistoryInv /\ [History!Next]_historyVars => HistoryInv'
<1> SUFFICES ASSUME HistoryInv, [History!Next]_historyVars PROVE HistoryInv'
  OBVIOUS
<1>1. CASE UNCHANGED historyVars
  <2>1. HistoryTypeOK' /\ OneStockHeld'
    BY <1>1 DEF historyVars, HistoryInv, HistoryTypeOK, OneStockHeld
  <2>2. NothingLost'
    BY <1>1 DEF historyVars, HistoryInv, NothingLost, Pending, Fetched
  <2> QED
    BY <2>1, <2>2 DEF HistoryInv
<1>2. ASSUME NEW mode \in {"append_safe", "rebuild"}, NEW only \in BOOLEAN, NEW fast \in BOOLEAN,
             History!Start(mode, only, fast)
      PROVE HistoryInv'
  BY <1>2, StartsHistory
<1>3. ASSUME NEW s \in PoolStocks, NEW d \in OpenDates, History!DailyRow(s, d) PROVE HistoryInv'
  BY <1>3, DailyRowKeeps
<1>4. CASE History!ClearFacts
  BY <1>4, ClearsHistory
<1>5. CASE History!FactsEnd
  BY <1>5, FactsEndKeeps
<1>6. CASE History!ClearEvents \/ History!EventsEnd
  BY <1>6, EventStageSteps
<1>7. CASE History!Crash
  BY <1>7, CrewAssumption, FailsHistory
<1>8. ASSUME NEW w \in Crew, NEW s \in PoolStocks, History!TakeStock(w, s) PROVE HistoryInv'
  BY <1>8, TakesStock
<1>9. ASSUME NEW w \in Crew, NEW d \in OpenDates, History!TakeDate(w, d) PROVE HistoryInv'
  BY <1>9, EventStageSteps
<1>10. ASSUME NEW w \in Crew, History!StockArrives(w) PROVE HistoryInv'
  BY <1>10, StockArrivesKeeps
<1>11. ASSUME NEW w \in Crew,
              History!StockFails(w) \/ History!LastFlushFails(w) \/ History!DateFails(w)
       PROVE HistoryInv'
  BY <1>11, FailsHistory
<1>12. ASSUME NEW w \in Crew, History!LastFlush(w) PROVE HistoryInv'
  BY <1>12, LastFlushKeeps
<1>13. ASSUME NEW w \in Crew, History!DateArrives(w) PROVE HistoryInv'
  BY <1>13, EventStageSteps
<1> QED
  BY <1>1, <1>2, <1>3, <1>4, <1>5, <1>6, <1>7, <1>8, <1>9, <1>10, <1>11, <1>12, <1>13
     DEF History!Next

LEMMA HistoryComplete == HistoryInv => History!FactsResume
BY DEF HistoryInv, NothingLost, History!FactsResume, History!Clean

-----------------------------------------------------------------------------
(* The history backfills of indexes, sectors and flows (EntityBackfill)    *)

EntityRunRows == [kind: Entity!Kinds, stage: {"none", "going", "done", "raised"},
                  mode: {"append_safe", "rebuild"}, only: BOOLEAN, fast: BOOLEAN,
                  queue: SUBSET Entity!Items, later: SUBSET Entity!Items, failed: Nat]
\* What a worker may have left to write: the tables of an item, or an index's second one.
Lefts == {<<>>} \union {Entity!Writes(i) : i \in Entity!Items}
                \union {<<<<i, "basics">>>> : i \in IndexCodes}
EntityHands == [item: SUBSET Entity!Items, left: Lefts, gone: BOOLEAN]

EntityTypeOK ==
  /\ tableRows \in [Entity!Tables -> SUBSET OpenDates]
  /\ entityRun \in [1 .. RunBound -> EntityRunRows]
  /\ entityWork \in [(1 .. RunBound) \X Crew -> EntityHands]
  /\ entityRuns \in 0 .. RunBound

\* A table that run r has still to write: its item waits, or a worker has it before it.
Owed(r, t) ==
  \/ t[1] \in entityRun[r].queue \/ t[1] \in entityRun[r].later
  \/ \E w \in Crew : \E n \in DOMAIN entityWork[<<r, w>>].left : entityWork[<<r, w>>].left[n] = t

\* As long as nothing of the last run failed, every table of its pipeline is complete or owed,
\* and none is owed when it is done.
TablesOwed ==
  entityRuns > 0 /\ entityRun[entityRuns].failed = 0 =>
    \A t \in Entity!TablesOf(entityRun[entityRuns].kind) :
      /\ entityRun[entityRuns].stage = "going" =>
           GivenTables[t] \subseteq tableRows[t] \/ Owed(entityRuns, t)
      /\ entityRun[entityRuns].stage = "done" => GivenTables[t] \subseteq tableRows[t]

EntityInv == EntityTypeOK /\ TablesOwed

\* What an item writes are its tables, all of them.
LEMMA ItemTables ==
  ASSUME NEW i \in Entity!Items
  PROVE /\ \A n \in DOMAIN Entity!Writes(i) : Entity!Writes(i)[n] \in Entity!Tables
        /\ \A t \in Entity!Tables : t[1] = i => \E n \in DOMAIN Entity!Writes(i) : Entity!Writes(i)[n] = t
<1>1. CASE i \in IndexCodes
  <2>1. Entity!Writes(i) = <<<<i, "bars">>, <<i, "basics">>>>
    BY <1>1 DEF Entity!Writes
  <2>2. DOMAIN Entity!Writes(i) = {1, 2}
    BY <2>1
  <2>3. Entity!Writes(i)[1] \in Entity!Tables /\ Entity!Writes(i)[2] \in Entity!Tables
    BY <1>1 DEF Entity!Tables
  <2>4. ASSUME NEW t \in Entity!Tables, t[1] = i PROVE t = <<i, "bars">> \/ t = <<i, "basics">>
    <3>1. CASE \E j \in Entity!Items : t = Entity!Writes(j)[1]
      <4>1. PICK j \in Entity!Items : t = Entity!Writes(j)[1]
        BY <3>1
      <4>2. j \in IndexCodes => t = <<j, "bars">>
        BY <4>1 DEF Entity!Writes
      <4>3. j \notin IndexCodes => t = <<j, "rows">>
        BY <4>1 DEF Entity!Writes
      <4> QED
        BY <1>1, <2>4, <4>2, <4>3
    <3>2. CASE \E j \in IndexCodes : t = Entity!Writes(j)[2]
      <4>1. PICK j \in IndexCodes : t = <<j, "basics">>
        BY <3>2 DEF Entity!Writes
      <4> QED
        BY <2>4, <4>1
    <3> QED
      BY <2>4, <3>1, <3>2 DEF Entity!Tables
  <2> QED
    BY <2>1, <2>2, <2>3, <2>4
<1>2. CASE i \notin IndexCodes
  <2>1. Entity!Writes(i) = <<<<i, "rows">>>>
    BY <1>2 DEF Entity!Writes
  <2>2. DOMAIN Entity!Writes(i) = {1}
    BY <2>1
  <2>3. Entity!Writes(i)[1] \in Entity!Tables
    BY DEF Entity!Tables
  <2>4. ASSUME NEW t \in Entity!Tables, t[1] = i PROVE t = <<i, "rows">>
    <3>1. CASE \E j \in Entity!Items : t = Entity!Writes(j)[1]
      <4>1. PICK j \in Entity!Items : t = Entity!Writes(j)[1]
        BY <3>1
      <4>2. j \in IndexCodes => t = <<j, "bars">>
        BY <4>1 DEF Entity!Writes
      <4>3. j \notin IndexCodes => t = <<j, "rows">>
        BY <4>1 DEF Entity!Writes
      <4> QED
        BY <1>2, <2>4, <4>2, <4>3
    <3>2. CASE \E j \in IndexCodes : t = Entity!Writes(j)[2]
      <4>1. PICK j \in IndexCodes : t = <<j, "basics">>
        BY <3>2 DEF Entity!Writes
      <4> QED
        BY <1>2, <2>4, <4>1
    <3> QED
      BY <2>4, <3>1, <3>2 DEF Entity!Tables
  <2> QED
    BY <2>1, <2>2, <2>3, <2>4
<1> QED
  BY <1>1, <1>2

\* Writing the next table leaves the ones after it.
LEMMA NextTable ==
  ASSUME NEW left \in Lefts, left # <<>>
  PROVE /\ Head(left) \in Entity!Tables
        /\ Tail(left) \in Lefts
        /\ \A n \in DOMAIN left :
             \/ left[n] = Head(left)
             \/ Len(left) # 1 /\ \E m \in DOMAIN Tail(left) : Tail(left)[m] = left[n]
<1>1. CASE \E i \in Entity!Items : i \in IndexCodes /\ left = Entity!Writes(i)
  <2>1. PICK i \in Entity!Items : i \in IndexCodes /\ left = <<<<i, "bars">>, <<i, "basics">>>>
    BY <1>1 DEF Entity!Writes
  <2>2. left = Entity!Writes(i)
    BY <2>1 DEF Entity!Writes
  <2>3. Head(left) = Entity!Writes(i)[1] /\ Tail(left) = <<<<i, "basics">>>> /\ DOMAIN left = {1, 2}
        /\ Len(left) = 2
    BY <2>1, <2>2
  <2>4. Entity!Writes(i)[1] \in Entity!Tables
    BY <2>3, <2>2, ItemTables
  <2>5. left[2] = Tail(left)[1] /\ 1 \in DOMAIN Tail(left) /\ left[1] = Head(left)
    BY <2>1
  <2> QED
    BY <2>1, <2>3, <2>4, <2>5 DEF Lefts
<1>2. CASE \E t \in Entity!Tables : left = <<t>>
  <2>1. PICK t \in Entity!Tables : left = <<t>>
    BY <1>2
  <2>2. Head(left) = t /\ Tail(left) = <<>> /\ DOMAIN left = {1} /\ left[1] = t
    BY <2>1
  <2> QED
    BY <2>2 DEF Lefts
<1>3. ASSUME NEW i \in Entity!Items, i \notin IndexCodes, left = Entity!Writes(i)
      PROVE \E t \in Entity!Tables : left = <<t>>
  <2>1. left = <<<<i, "rows">>>> /\ DOMAIN Entity!Writes(i) = {1} /\ Entity!Writes(i)[1] = <<i, "rows">>
    BY <1>3 DEF Entity!Writes
  <2> QED
    BY <2>1, ItemTables
<1>4. ASSUME NEW i \in IndexCodes, left = <<<<i, "basics">>>>
      PROVE \E t \in Entity!Tables : left = <<t>>
  <2>1. <<i, "basics">> \in Entity!Tables
    BY DEF Entity!Tables, Entity!Writes
  <2> QED
    BY <1>4, <2>1
<1> QED
  BY <1>1, <1>2, <1>3, <1>4 DEF Lefts

LEMMA EntityStarts == Entity!Init => EntityInv
<1> SUFFICES ASSUME Entity!Init PROVE EntityInv
  OBVIOUS
<1>1. /\ Entity!NoRun \in EntityRunRows /\ Entity!Free \in EntityHands
  BY DEF Entity!NoRun, Entity!Free, EntityRunRows, EntityHands, Lefts, Entity!Kinds
<1>2. EntityTypeOK
  BY <1>1, CrewAssumption DEF Entity!Init, EntityTypeOK
<1>3. TablesOwed
  BY DEF Entity!Init, TablesOwed
<1> QED
  BY <1>2, <1>3 DEF EntityInv

\* A run starts with every item in its queue, or with its windows to follow; a channel that is
\* left out is complete.
LEMMA StartsEntity ==
  ASSUME EntityInv, NEW k \in Entity!Kinds, NEW mode \in {"append_safe", "rebuild"},
         NEW only \in BOOLEAN, NEW fast \in BOOLEAN, Entity!Start(k, mode, only, fast)
  PROVE EntityInv'
<1> DEFINE queue == CASE k = "index" -> IndexCodes [] k = "sector" -> SectorCodes
                      [] k = "north" -> {n \in NorthChannels :
                                           ~(only /\ tableRows[<<n, "rows">>] = OpenDates)}
           later == IF k = "sector" THEN FlowWindows ELSE {}
           new == [kind |-> k, stage |-> "going", mode |-> mode, only |-> only, fast |-> fast,
                   queue |-> queue, later |-> later, failed |-> 0]
<1>1. /\ entityRuns < RunBound /\ entityRuns' = entityRuns + 1 /\ entityWork' = entityWork
      /\ k = "north" => mode = "append_safe"
      /\ tableRows' = IF mode = "rebuild"
                      THEN [t \in Entity!Tables |-> IF t \in Entity!TablesOf(k) THEN {} ELSE tableRows[t]]
                      ELSE tableRows
      /\ entityRun' = [entityRun EXCEPT ![entityRuns + 1] = new]
  BY DEF Entity!Start
<1>2. k \in {"index", "sector", "north"}
  BY DEF Entity!Kinds
<1>3. /\ k = "index" => queue = IndexCodes /\ later = {}
      /\ k = "sector" => queue = SectorCodes /\ later = FlowWindows
      /\ k = "north" => /\ queue = {n \in NorthChannels :
                                      ~(only /\ tableRows[<<n, "rows">>] = OpenDates)}
                        /\ later = {}
  OBVIOUS
<1> HIDE DEF queue, later
<1>4. queue \subseteq Entity!Items /\ later \subseteq Entity!Items
  BY <1>2, <1>3 DEF Entity!Items
<1>5. new \in EntityRunRows
  BY <1>4 DEF EntityRunRows
<1>6. /\ new.kind = k /\ new.stage = "going" /\ new.queue = queue /\ new.later = later
  OBVIOUS
<1> HIDE DEF new
<1>7. EntityTypeOK /\ entityRuns + 1 \in 1 .. RunBound /\ entityRuns \in Nat
  BY <1>1, CrewAssumption DEF EntityInv, EntityTypeOK
<1>8. entityRun'[entityRuns'] = new
  BY <1>1, <1>7 DEF EntityTypeOK
<1>9. EntityTypeOK'
  BY <1>1, <1>5, <1>7 DEF EntityTypeOK
<1>10. ASSUME NEW t \in Entity!TablesOf(k)
       PROVE GivenTables[t] \subseteq tableRows'[t] \/ Owed(entityRuns, t)'
  <2>1. t \in Entity!Tables
    BY DEF Entity!TablesOf
  <2>2. CASE k = "index"
    <3>1. t[1] \in IndexCodes
      BY <2>2 DEF Entity!TablesOf
    <3> QED
      BY <1>3, <1>6, <1>8, <2>2, <3>1 DEF Owed
  <2>3. CASE k = "sector"
    <3>1. t[1] \in SectorCodes \union FlowWindows
      BY <2>3 DEF Entity!TablesOf
    <3> QED
      BY <1>3, <1>6, <1>8, <2>3, <3>1 DEF Owed
  <2>4. CASE k = "north"
    <3>1. t[1] \in NorthChannels /\ tableRows' = tableRows
      BY <1>1, <2>4 DEF Entity!TablesOf
    <3>2. t = <<t[1], "rows">>
      <4>1. t[1] \notin IndexCodes
        BY <3>1, GivenTablesAssumption
      <4>2. CASE \E j \in Entity!Items : t = Entity!Writes(j)[1]
        <5>1. PICK j \in Entity!Items : t = Entity!Writes(j)[1]
          BY <4>2
        <5>2. j \in IndexCodes => t = <<j, "bars">>
          BY <5>1 DEF Entity!Writes
        <5>3. j \notin IndexCodes => t = <<j, "rows">>
          BY <5>1 DEF Entity!Writes
        <5> QED
          BY <4>1, <5>2, <5>3
      <4>3. CASE \E j \in IndexCodes : t = Entity!Writes(j)[2]
        <5>1. PICK j \in IndexCodes : t = <<j, "basics">>
          BY <4>3 DEF Entity!Writes
        <5> QED
          BY <4>1, <5>1
      <4> QED
        BY <2>1, <4>2, <4>3 DEF Entity!Tables
    <3>3. CASE t[1] \in queue
      BY <1>6, <1>8, <3>3 DEF Owed
    <3>4. CASE t[1] \notin queue
      BY <1>3, <2>1, <2>4, <3>1, <3>2, <3>4, GivenTablesAssumption
    <3> QED
      BY <3>3, <3>4
  <2> QED
    BY <1>2, <2>2, <2>3, <2>4
<1>11. TablesOwed'
  BY <1>6, <1>8, <1>10 DEF TablesOwed
<1> QED
  BY <1>9, <1>11 DEF EntityInv

\* A step that takes no item and no row from the last run keeps what is owed, when what it
\* stops owing is complete.
LEMMA OwedKept ==
  ASSUME EntityInv, EntityTypeOK', entityRuns' = entityRuns,
         \A t \in Entity!Tables : tableRows[t] \subseteq tableRows'[t],
         entityRuns > 0 =>
           /\ entityRun'[entityRuns].kind = entityRun[entityRuns].kind
           /\ entityRun'[entityRuns].failed = entityRun[entityRuns].failed
           /\ entityRun'[entityRuns].stage = entityRun[entityRuns].stage
           /\ \A t \in Entity!TablesOf(entityRun[entityRuns].kind) :
                Owed(entityRuns, t) => GivenTables[t] \subseteq tableRows'[t] \/ Owed(entityRuns, t)'
  PROVE EntityInv'
<1> SUFFICES ASSUME entityRuns > 0, entityRun[entityRuns].failed = 0,
                    NEW t \in Entity!TablesOf(entityRun[entityRuns].kind)
             PROVE /\ entityRun[entityRuns].stage = "going" =>
                        GivenTables[t] \subseteq tableRows'[t] \/ Owed(entityRuns, t)'
                   /\ entityRun[entityRuns].stage = "done" => GivenTables[t] \subseteq tableRows'[t]
  BY DEF EntityInv, TablesOwed
<1>1. t \in Entity!Tables
  BY DEF Entity!TablesOf
<1> QED
  BY <1>1 DEF EntityInv, TablesOwed

\* An item that is taken is in the hands of a worker, or all its tables are complete.
LEMMA TakesEntity ==
  ASSUME EntityInv, NEW r \in 1 .. RunBound, NEW w \in Crew, NEW i \in Entity!Items,
         Entity!Take(r, w, i)
  PROVE EntityInv'
<1> DEFINE hand == [item |-> {i}, left |-> Entity!Writes(i), gone |-> FALSE]
           less == [entityRun[r] EXCEPT !.queue = @ \ {i}]
<1>1. /\ entityWork[<<r, w>>] = Entity!Free
      /\ entityRun' = [entityRun EXCEPT ![r] = less]
      /\ entityWork' = IF Entity!Skips(r, i) THEN entityWork
                       ELSE [entityWork EXCEPT ![<<r, w>>] = hand]
      /\ tableRows' = tableRows /\ entityRuns' = entityRuns
  BY DEF Entity!Take, EntityInv, EntityTypeOK
<1>0. entityRuns' = entityRuns
  BY <1>1
<1>2. EntityTypeOK /\ entityRun[r] \in EntityRunRows
  BY DEF EntityInv, EntityTypeOK
<1>3. /\ less \in EntityRunRows /\ less.kind = entityRun[r].kind
      /\ less.failed = entityRun[r].failed /\ less.stage = entityRun[r].stage
      /\ less.queue = entityRun[r].queue \ {i} /\ less.later = entityRun[r].later
  BY <1>2 DEF EntityRunRows
<1>4. hand \in EntityHands /\ hand.left = Entity!Writes(i)
  BY DEF EntityHands, Lefts
<1> HIDE DEF hand, less
<1>5. EntityTypeOK'
  BY <1>1, <1>2, <1>3, <1>4 DEF EntityTypeOK
<1>6. ASSUME entityRuns > 0, NEW t \in Entity!TablesOf(entityRun[entityRuns].kind), Owed(entityRuns, t)
      PROVE GivenTables[t] \subseteq tableRows'[t] \/ Owed(entityRuns, t)'
  <2>1. t \in Entity!Tables /\ entityRuns \in 1 .. RunBound
    BY <1>2, <1>6 DEF Entity!TablesOf, EntityTypeOK
  <2>2. entityWork[<<r, w>>].left = <<>>
    BY <1>1 DEF Entity!Free
  <2>3. ASSUME NEW v \in Crew, NEW n \in DOMAIN entityWork[<<entityRuns, v>>].left,
               entityWork[<<entityRuns, v>>].left[n] = t
        PROVE Owed(entityRuns, t)'
    <3>1. <<entityRuns, v>> # <<r, w>>
      BY <2>2, <2>3
    <3>2. entityWork'[<<entityRuns, v>>] = entityWork[<<entityRuns, v>>]
      BY <1>1, <1>2, <2>1, <3>1 DEF EntityTypeOK
    <3> QED
      BY <1>0, <2>3, <3>2 DEF Owed
  <2>4. CASE entityRuns # r
    <3>1. entityRun'[entityRuns] = entityRun[entityRuns]
      BY <1>1, <1>2, <2>1, <2>4 DEF EntityTypeOK
    <3> QED
      BY <1>0, <1>6, <2>3, <3>1 DEF Owed
  <2>5. CASE entityRuns = r /\ t[1] # i
    <3>1. entityRun'[entityRuns] = less
      BY <1>1, <1>2, <2>1, <2>5 DEF EntityTypeOK
    <3> QED
      BY <1>0, <1>3, <1>6, <2>3, <2>5, <3>1 DEF Owed
  <2>6. CASE entityRuns = r /\ t[1] = i
    <3>1. PICK n \in DOMAIN Entity!Writes(i) : Entity!Writes(i)[n] = t
      BY <2>1, <2>6, ItemTables
    <3>2. CASE Entity!Skips(r, i)
      BY <1>1, <2>1, <3>1, <3>2, GivenTablesAssumption DEF Entity!Skips
    <3>3. CASE ~Entity!Skips(r, i)
      <4>1. entityWork'[<<entityRuns, w>>] = hand
        BY <1>1, <1>2, <2>6, <3>3 DEF EntityTypeOK
      <4> QED
        BY <1>0, <1>4, <3>1, <4>1 DEF Owed
    <3> QED
      BY <3>2, <3>3
  <2> QED
    BY <2>4, <2>5, <2>6
<1>7. entityRuns > 0 =>
           /\ entityRun'[entityRuns].kind = entityRun[entityRuns].kind
           /\ entityRun'[entityRuns].failed = entityRun[entityRuns].failed
           /\ entityRun'[entityRuns].stage = entityRun[entityRuns].stage
  BY <1>1, <1>2, <1>3 DEF EntityTypeOK
<1> QED
  BY <1>1, <1>5, <1>6, <1>7, OwedKept

\* A table that is written is complete; what the worker has still to write stays owed.
LEMMA StoresEntity ==
  ASSUME EntityInv, NEW r \in 1 .. RunBound, NEW w \in Crew, Entity!Store(r, w)
  PROVE EntityInv'
<1> DEFINE left == entityWork[<<r, w>>].left
           rest == [entityWork[<<r, w>>] EXCEPT !.left = Tail(left)]
<1>1. /\ left # <<>> /\ entityRun' = entityRun /\ entityRuns' = entityRuns
      /\ tableRows' = [tableRows EXCEPT ![Head(left)] = @ \cup GivenTables[Head(left)]]
      /\ entityWork' = [entityWork EXCEPT ![<<r, w>>] =
                          IF Len(left) = 1 THEN Entity!Free ELSE rest]
  BY DEF Entity!Store, EntityInv, EntityTypeOK
<1>0. entityRuns' = entityRuns /\ entityRun' = entityRun
  BY <1>1
<1>2. EntityTypeOK /\ entityWork[<<r, w>>] \in EntityHands /\ left \in Lefts
  BY DEF EntityInv, EntityTypeOK, EntityHands
<1>3. /\ Head(left) \in Entity!Tables /\ Tail(left) \in Lefts
      /\ \A n \in DOMAIN left :
             \/ left[n] = Head(left)
             \/ Len(left) # 1 /\ \E m \in DOMAIN Tail(left) : Tail(left)[m] = left[n]
  BY <1>1, <1>2, NextTable
<1>4. rest \in EntityHands /\ rest.left = Tail(left)
  BY <1>2, <1>3 DEF EntityHands
<1>5. Entity!Free \in EntityHands
  BY DEF Entity!Free, EntityHands, Lefts
<1> HIDE DEF left, rest
<1>6. GivenTables[Head(left)] \subseteq OpenDates
  BY <1>3, GivenTablesAssumption
<1>7. EntityTypeOK'
  BY <1>1, <1>2, <1>3, <1>4, <1>5, <1>6 DEF EntityTypeOK
<1>8. /\ \A t \in Entity!Tables : tableRows[t] \subseteq tableRows'[t]
      /\ GivenTables[Head(left)] \subseteq tableRows'[Head(left)]
  BY <1>1, <1>2, <1>3 DEF EntityTypeOK
<1>9. ASSUME entityRuns > 0, NEW t \in Entity!TablesOf(entityRun[entityRuns].kind), Owed(entityRuns, t)
      PROVE GivenTables[t] \subseteq tableRows'[t] \/ Owed(entityRuns, t)'
  <2>1. entityRuns \in 1 .. RunBound
    BY <1>2, <1>9 DEF EntityTypeOK
  <2>2. ASSUME NEW v \in Crew, NEW n \in DOMAIN entityWork[<<entityRuns, v>>].left,
               entityWork[<<entityRuns, v>>].left[n] = t
        PROVE GivenTables[t] \subseteq tableRows'[t] \/ Owed(entityRuns, t)'
    <3>1. CASE <<entityRuns, v>> # <<r, w>>
      <4>1. entityWork'[<<entityRuns, v>>] = entityWork[<<entityRuns, v>>]
        BY <1>1, <1>2, <2>1, <3>1 DEF EntityTypeOK
      <4> QED
        BY <1>0, <2>2, <4>1 DEF Owed
    <3>2. CASE <<entityRuns, v>> = <<r, w>> /\ t # Head(left)
      <4>1. left[n] = t /\ n \in DOMAIN left
        BY <2>2, <3>2 DEF left
      <4>2. Len(left) # 1 /\ \E m \in DOMAIN Tail(left) : Tail(left)[m] = t
        BY <1>3, <3>2, <4>1
      <4>3. entityWork'[<<entityRuns, v>>] = rest
        BY <1>1, <1>2, <2>1, <3>2, <4>2 DEF EntityTypeOK
      <4> QED
        BY <1>0, <1>4, <4>2, <4>3 DEF Owed
    <3>3. CASE t = Head(left)
      BY <1>8, <3>3
    <3> QED
      BY <3>1, <3>2, <3>3
  <2> QED
    BY <1>0, <1>9, <2>2 DEF Owed
<1> QED
  BY <1>1, <1>7, <1>8, <1>9, OwedKept

\* A failure of the last run ends what is said of it; one of an earlier run touches nothing of it.
LEMMA FailsEntity ==
  ASSUME EntityInv, NEW r \in 1 .. RunBound, NEW w \in Crew, Entity!Fails(r, w)
  PROVE EntityInv'
<1> DEFINE n == entityRun[r].failed + 1
           after == IF entityRun[r].fast THEN "raised" ELSE entityRun[r].stage
           queue == IF entityRun[r].fast /\ entityRun[r].kind = "north" THEN {}
                    ELSE entityRun[r].queue
           row == [entityRun[r] EXCEPT !.failed = n, !.stage = after, !.queue = queue]
           hand == IF entityRun[r].fast THEN [item |-> {}, left |-> <<>>, gone |-> TRUE]
                   ELSE Entity!Free
<1>1. /\ entityRun' = [entityRun EXCEPT ![r] = row]
      /\ entityWork' = [entityWork EXCEPT ![<<r, w>>] = hand]
      /\ tableRows' = tableRows /\ entityRuns' = entityRuns
  BY DEF Entity!Fails, EntityInv, EntityTypeOK
<1>2. EntityTypeOK /\ entityRun[r] \in EntityRunRows
  BY DEF EntityInv, EntityTypeOK
<1>3. /\ n \in Nat /\ n # 0 /\ queue \subseteq Entity!Items
      /\ after \in {"none", "going", "done", "raised"}
  BY <1>2 DEF EntityRunRows
<1>4. hand \in EntityHands
  BY DEF Entity!Free, EntityHands, Lefts
<1> HIDE DEF n, after, queue, hand
<1>5. row \in EntityRunRows /\ row.failed # 0
  BY <1>2, <1>3 DEF EntityRunRows
<1> HIDE DEF row
<1>6. EntityTypeOK'
  BY <1>1, <1>2, <1>4, <1>5 DEF EntityTypeOK
<1>7. CASE entityRuns = r
  <2>1. entityRun'[entityRuns].failed # 0
    BY <1>1, <1>2, <1>5, <1>7 DEF EntityTypeOK
  <2> QED
    BY <1>1, <1>6, <2>1 DEF EntityInv, TablesOwed
<1>8. CASE entityRuns # r
  <2>1. entityRuns > 0 =>
          /\ entityRun'[entityRuns] = entityRun[entityRuns]
          /\ \A v \in Crew : entityWork'[<<entityRuns, v>>] = entityWork[<<entityRuns, v>>]
    BY <1>1, <1>2, <1>8 DEF EntityTypeOK
  <2>2. entityRuns' = entityRuns
    BY <1>1
  <2>3. ASSUME entityRuns > 0, NEW t \in Entity!TablesOf(entityRun[entityRuns].kind),
               Owed(entityRuns, t)
        PROVE Owed(entityRuns, t)'
    BY <2>1, <2>2, <2>3 DEF Owed
  <2> QED
    BY <1>1, <1>6, <2>1, <2>3, OwedKept
<1> QED
  BY <1>7, <1>8

\* The windows that follow the bars of a sector run are owed before and after.
LEMMA SecondStageKeeps ==
  ASSUME EntityInv, NEW r \in 1 .. RunBound, Entity!SecondStage(r)
  PROVE EntityInv'
<1> DEFINE row == [entityRun[r] EXCEPT !.queue = entityRun[r].later, !.later = {}]
<1>1. /\ entityRun' = [entityRun EXCEPT ![r] = row] /\ entityRun[r].queue = {}
      /\ entityWork' = entityWork /\ tableRows' = tableRows /\ entityRuns' = entityRuns
  BY DEF Entity!SecondStage, Entity!Resting, EntityInv, EntityTypeOK
<1>2. EntityTypeOK /\ entityRun[r] \in EntityRunRows
  BY DEF EntityInv, EntityTypeOK
<1>3. /\ row \in EntityRunRows /\ row.kind = entityRun[r].kind
      /\ row.failed = entityRun[r].failed /\ row.stage = entityRun[r].stage
      /\ row.queue = entityRun[r].later
  BY <1>2 DEF EntityRunRows
<1> HIDE DEF row
<1>4. EntityTypeOK'
  BY <1>1, <1>2, <1>3 DEF EntityTypeOK
<1>5. ASSUME entityRuns > 0
      PROVE /\ entityRun'[entityRuns].kind = entityRun[entityRuns].kind
            /\ entityRun'[entityRuns].failed = entityRun[entityRuns].failed
            /\ entityRun'[entityRuns].stage = entityRun[entityRuns].stage
            /\ \A i : i \in entityRun[entityRuns].queue \/ i \in entityRun[entityRuns].later =>
                        i \in entityRun'[entityRuns].queue \/ i \in entityRun'[entityRuns].later
  BY <1>1, <1>2, <1>3 DEF EntityTypeOK
<1>6. entityRuns' = entityRuns /\ entityWork' = entityWork
  BY <1>1
<1>7. ASSUME entityRuns > 0, NEW t \in Entity!TablesOf(entityRun[entityRuns].kind),
             Owed(entityRuns, t)
      PROVE Owed(entityRuns, t)'
  BY <1>5, <1>6, <1>7 DEF Owed
<1> QED
  BY <1>1, <1>4, <1>5, <1>7, OwedKept

\* A run ends when nothing waits and no worker writes: then no table is owed.
LEMMA FinishesEntity ==
  ASSUME EntityInv, NEW r \in 1 .. RunBound, Entity!Finish(r)
  PROVE EntityInv'
<1> DEFINE row == [entityRun[r] EXCEPT !.stage = "done"]
<1>1. /\ entityRun' = [entityRun EXCEPT ![r] = row] /\ entityRun[r].queue = {}
      /\ entityRun[r].later = {} /\ entityRun[r].stage = "going"
      /\ \A w \in Crew : entityWork[<<r, w>>].left = <<>>
      /\ entityWork' = entityWork /\ tableRows' = tableRows /\ entityRuns' = entityRuns
  BY DEF Entity!Finish, Entity!Resting
<1>2. EntityTypeOK /\ entityRun[r] \in EntityRunRows
  BY DEF EntityInv, EntityTypeOK
<1>3. /\ row \in EntityRunRows /\ row.kind = entityRun[r].kind
      /\ row.failed = entityRun[r].failed /\ row.stage = "done"
  BY <1>2 DEF EntityRunRows
<1> HIDE DEF row
<1>4. EntityTypeOK'
  BY <1>1, <1>2, <1>3 DEF EntityTypeOK
<1>5. CASE entityRuns = r
  <2>1. entityRun'[entityRuns] = row
    BY <1>1, <1>2, <1>5 DEF EntityTypeOK
  <2>2. ASSUME NEW t PROVE ~Owed(entityRuns, t)
    <3>1. <<>> \in Seq(Entity!Tables) /\ Len(<<>>) = 0
      OBVIOUS
    <3>2. DOMAIN <<>> = {}
      BY <3>1
    <3>3. \A w \in Crew : DOMAIN entityWork[<<r, w>>].left = {}
      BY <1>1, <3>2
    <3>4. entityRun[r].queue = {} /\ entityRun[r].later = {}
      BY <1>1
    <3> QED
      BY <1>5, <3>3, <3>4 DEF Owed
  <2> QED
    BY <1>1, <1>3, <1>4, <1>5, <2>1, <2>2 DEF EntityInv, TablesOwed
<1>6. CASE entityRuns # r
  <2>1. entityRuns > 0 => entityRun'[entityRuns] = entityRun[entityRuns]
    BY <1>1, <1>2, <1>6 DEF EntityTypeOK
  <2>2. entityRuns' = entityRuns /\ entityWork' = entityWork
    BY <1>1
  <2>3. ASSUME entityRuns > 0, NEW t \in Entity!TablesOf(entityRun[entityRuns].kind),
               Owed(entityRuns, t)
        PROVE Owed(entityRuns, t)'
    BY <2>1, <2>2, <2>3 DEF Owed
  <2> QED
    BY <1>1, <1>4, <2>1, <2>3, OwedKept
<1> QED
  BY <1>5, <1>6

LEMMA CrashesEntity ==
  ASSUME EntityInv, Entity!Crash
  PROVE EntityInv'
<1>1. /\ entityRun' = [r \in 1 .. RunBound |->
                         IF entityRun[r].stage \in {"none", "done"} THEN entityRun[r]
                         ELSE [entityRun[r] EXCEPT !.stage = "raised", !.queue = {}, !.later = {}]]
      /\ entityWork' = [rw \in (1 .. RunBound) \X Crew |-> Entity!Free]
      /\ tableRows' = tableRows /\ entityRuns' = entityRuns
  BY DEF Entity!Crash
<1>2. EntityTypeOK
  BY DEF EntityInv
<1>3. ASSUME NEW r \in 1 .. RunBound
      PROVE /\ entityRun'[r] \in EntityRunRows
            /\ \/ entityRun'[r] = entityRun[r] /\ entityRun[r].stage # "going"
               \/ entityRun'[r].stage = "raised"
  <2>1. entityRun[r] \in EntityRunRows
    BY <1>2 DEF EntityTypeOK
  <2>2. CASE entityRun[r].stage \in {"none", "done"}
    BY <1>1, <2>1, <2>2
  <2>3. CASE entityRun[r].stage \notin {"none", "done"}
    <3>1. entityRun'[r] = [entityRun[r] EXCEPT !.stage = "raised", !.queue = {}, !.later = {}]
      BY <1>1, <2>3
    <3> QED
      BY <2>1, <3>1 DEF EntityRunRows
  <2> QED
    BY <2>2, <2>3
<1>4. Entity!Free \in EntityHands
  BY DEF Entity!Free, EntityHands, Lefts
<1>5. entityRun' \in [1 .. RunBound -> EntityRunRows]
  <2>1. DOMAIN entityRun' = 1 .. RunBound /\ entityRun' = [r \in 1 .. RunBound |-> entityRun'[r]]
    BY <1>1
  <2> QED
    BY <1>3, <2>1
<1>6. EntityTypeOK'
  BY <1>1, <1>2, <1>4, <1>5 DEF EntityTypeOK
<1>7. ASSUME entityRuns > 0
      PROVE \/ entityRun'[entityRuns] = entityRun[entityRuns] /\ entityRun[entityRuns].stage # "going"
            \/ entityRun'[entityRuns].stage = "raised"
  BY <1>2, <1>3, <1>7 DEF EntityTypeOK
<1>8. entityRuns' = entityRuns /\ tableRows' = tableRows
  BY <1>1
<1>9. TablesOwed'
  BY <1>7, <1>8 DEF EntityInv, TablesOwed
<1> QED
  BY <1>6, <1>9 DEF EntityInv

LEMMA EntitySteps == EntityInv /\ [Entity!Next]_entityVars => EntityInv'
<1> SUFFICES ASSUME EntityInv, [Entity!Next]_entityVars PROVE EntityInv'
  OBVIOUS
<1>1. CASE UNCHANGED entityVars
  <2>1. EntityTypeOK'
    BY <1>1 DEF entityVars, EntityInv, EntityTypeOK
  <2>3. /\ tableRows' = tableRows /\ entityRun' = entityRun
        /\ entityWork' = entityWork /\ entityRuns' = entityRuns
    BY <1>1 DEF entityVars
  <2>4. ASSUME NEW t PROVE Owed(entityRuns, t)' <=> Owed(entityRuns, t)
    BY <2>3 DEF Owed
  <2>2. TablesOwed'
    BY <2>3, <2>4 DEF EntityInv, TablesOwed
  <2> QED
    BY <2>1, <2>2 DEF EntityInv
<1>2. ASSUME NEW k \in Entity!Kinds, NEW mode \in {"append_safe", "rebuild"},
             NEW only \in BOOLEAN, NEW fast \in BOOLEAN, Entity!Start(k, mode, only, fast)
      PROVE EntityInv'
  BY <1>2, StartsEntity
<1>3. ASSUME NEW r \in 1 .. RunBound, Entity!SecondStage(r) PROVE EntityInv'
  BY <1>3, SecondStageKeeps
<1>4. ASSUME NEW r \in 1 .. RunBound, Entity!Finish(r) PROVE EntityInv'
  BY <1>4, FinishesEntity
<1>5. ASSUME NEW r \in 1 .. RunBound, NEW w \in Crew, Entity!Store(r, w) PROVE EntityInv'
  BY <1>5, StoresEntity
<1>6. ASSUME NEW r \in 1 .. RunBound, NEW w \in Crew, Entity!Fails(r, w) PROVE EntityInv'
  BY <1>6, FailsEntity
<1>7. ASSUME NEW r \in 1 .. RunBound, NEW w \in Crew, NEW i \in Entity!Items, Entity!Take(r, w, i)
      PROVE EntityInv'
  BY <1>7, TakesEntity
<1>8. CASE Entity!Crash
  BY <1>8, CrashesEntity
<1> QED
  BY <1>1, <1>2, <1>3, <1>4, <1>5, <1>6, <1>7, <1>8 DEF Entity!Next

LEMMA EntityComplete == EntityInv => Entity!LastRunCompletes
BY DEF EntityInv, TablesOwed, Entity!LastRunCompletes

-----------------------------------------------------------------------------
(* The factor backfills (FactorBackfill)                                   *)

FactorRunRows == [kind: {"stock", "sector", "index"},
                  at: {"none", "window", "chunks", "groups", "done", "raised"},
                  rebuild: BOOLEAN, only: BOOLEAN, fast: BOOLEAN, left: SUBSET OpenDates,
                  window: SUBSET OpenDates, failed: Nat, alone: BOOLEAN,
                  given: SUBSET (FactorStocks \X OpenDates)]

FactorTypeOK ==
  /\ barRows \subseteq FactorStocks \X OpenDates
  /\ rankedRows \in [OpenDates -> SUBSET FactorStocks]
  /\ factorRun \in FactorRunRows
  /\ factorRun.kind = "stock" => factorRun.at # "groups"

\* A stock run that nothing failed of, and that no chunk of an earlier run is beside.
Undisturbed ==
  /\ factorRun.kind = "stock" /\ factorRun.failed = 0 /\ factorRun.alone
  /\ factorRun.at \in {"window", "chunks", "done"}

\* The stocks with a factor row, and with a bar when the run started.
WithFactors(d) == {s \in FactorStocks : <<s, d>> \in factorRows}
Given(d) == {s \in FactorStocks : <<s, d>> \in factorRun.given}

\* The percentiles of a date are over the rows stored, those of the stocks given among them.
RankedWhole(d) == rankedRows[d] = WithFactors(d) /\ Given(d) \subseteq rankedRows[d]

\* In such a run only chunks of the open window are at work, the bars do not change, and every
\* date waits, is the window's or has its percentiles; a stock of the window has its row or a
\* chunk that will write it.
WindowsRanked ==
  Undisturbed =>
    /\ \A t \in chunks : t[1] = factorRuns /\ t[3] \in factorRun.window
    /\ factorRun.at # "chunks" => factorRun.window = {}
    /\ factorRun.at = "done" => factorRun.left = {}
    /\ factorRun.at # "done" => factorRun.given = barRows
    /\ \A d \in OpenDates :
         /\ d \in factorRun.left \/ d \in factorRun.window \/ RankedWhole(d)
         /\ d \in factorRun.window =>
              \A s \in Given(d) : s \in WithFactors(d) \/ <<factorRuns, s, d>> \in chunks

FactorInv == FactorTypeOK /\ WindowsRanked

\* The next window is of one of the dates that wait: there is a first one.
LEMMA FirstDate ==
  ASSUME NEW S \in SUBSET OpenDates, S # {}
  PROVE (CHOOSE x \in S : \A y \in S : x =< y) \in S
<1> DEFINE R == OpToRel(<, Nat)
<1>1. IsWellFoundedOn(R, Nat)
  BY NatLessThanWellFounded
<1>2. S \subseteq Nat
  BY CrewAssumption
<1>3. PICK n \in S : \A m \in S : <<m, n>> \notin R
  <2> HIDE DEF R
  <2> QED BY <1>1, <1>2, WFMin
<1>4. \A m \in S : ~(m < n)
  BY <1>2, <1>3 DEF OpToRel
<1>5. \A m \in S : n =< m
  BY <1>2, <1>4
<1> QED BY <1>5

LEMMA FactorStarts == Factor!Init => FactorInv
<1> SUFFICES ASSUME Factor!Init PROVE FactorInv
  OBVIOUS
<1>1. factorRun = Factor!NoRun /\ barRows = {} /\ rankedRows = [d \in OpenDates |-> {}]
  BY DEF Factor!Init
<1>2. /\ Factor!NoRun \in FactorRunRows /\ Factor!NoRun.at = "none"
  BY DEF Factor!NoRun, FactorRunRows
<1>3. FactorTypeOK
  BY <1>1, <1>2 DEF FactorTypeOK
<1>4. WindowsRanked
  BY <1>1, <1>2 DEF WindowsRanked, Undisturbed
<1> QED
  BY <1>3, <1>4 DEF FactorInv

\* A step after which the run is disturbed, or ended otherwise, has only to keep the types.
LEMMA FactorDisturbed ==
  ASSUME FactorTypeOK', ~Undisturbed'
  PROVE FactorInv'
BY DEF FactorInv, WindowsRanked

LEMMA StartsFactors ==
  ASSUME FactorInv, NEW kind \in {"stock", "sector", "index"}, NEW rebuild \in BOOLEAN,
         NEW only \in BOOLEAN, NEW fast \in BOOLEAN, Factor!Start(kind, rebuild, only, fast)
  PROVE FactorInv'
<1> DEFINE left == IF kind = "stock" THEN OpenDates ELSE {}
           at == IF kind = "stock" THEN "window" ELSE "groups"
           alone == chunks = {}
           row == [kind |-> kind, at |-> at, rebuild |-> rebuild, only |-> only, fast |-> fast,
                   left |-> left, window |-> {}, failed |-> 0, alone |-> alone,
                   given |-> barRows]
<1>1. /\ factorRun' = row /\ barRows' = barRows /\ rankedRows' = rankedRows /\ chunks' = chunks
      /\ factorRows' = factorRows
  BY DEF Factor!Start
<1>2. left \subseteq OpenDates /\ at \in {"window", "groups"} /\ alone \in BOOLEAN
  OBVIOUS
<1>3. row \in FactorRunRows
  <2> HIDE DEF left, at, alone
  <2> QED BY <1>2 DEF FactorRunRows, FactorInv, FactorTypeOK
<1>4. /\ row.kind = kind /\ row.window = {} /\ row.given = barRows
      /\ kind = "stock" => row.at = "window" /\ row.left = OpenDates
      /\ row.alone => chunks = {}
  OBVIOUS
<1> HIDE DEF row
<1>5. FactorTypeOK'
  BY <1>1, <1>3, <1>4 DEF FactorInv, FactorTypeOK
<1>6. WindowsRanked'
  BY <1>1, <1>4 DEF WindowsRanked, Undisturbed
<1> QED
  BY <1>5, <1>6 DEF FactorInv

\* The stocks a window has chunks for: with a bar and no row that may be left as it is.
LEMMA OpensWindow ==
  ASSUME FactorInv, Factor!OpenWindow
  PROVE FactorInv'
<1> DEFINE d == CHOOSE x \in factorRun.left : \A y \in factorRun.left : x =< y
           targets == {s \in FactorStocks : <<s, d>> \in barRows /\
                                            ~(Factor!OnlyMissing /\ <<s, d>> \in factorRows)}
           row == [factorRun EXCEPT !.at = "chunks", !.window = {d}, !.left = @ \ {d}]
<1>1. /\ factorRun.at = "window" /\ factorRun.left # {} /\ factorRun' = row
      /\ chunks' = chunks \cup {<<factorRuns, s, d>> : s \in targets}
      /\ barRows' = barRows /\ factorRows' = factorRows /\ rankedRows' = rankedRows
      /\ factorRuns' = factorRuns
  BY DEF Factor!OpenWindow, Factor!Opened
<1>2. FactorTypeOK /\ factorRun \in FactorRunRows
  BY DEF FactorInv, FactorTypeOK
<1>3. d \in factorRun.left /\ d \in OpenDates
  BY <1>1, <1>2, FirstDate DEF FactorRunRows
<1>4. \A s \in FactorStocks : <<s, d>> \in barRows => <<s, d>> \in factorRows \/ s \in targets
  OBVIOUS
<1> HIDE DEF d, targets
<1>5. /\ row \in FactorRunRows /\ row.at = "chunks" /\ row.window = {d}
      /\ row.left = factorRun.left \ {d} /\ row.kind = factorRun.kind
      /\ row.failed = factorRun.failed /\ row.alone = factorRun.alone
      /\ row.given = factorRun.given
  BY <1>2, <1>3 DEF FactorRunRows
<1> HIDE DEF row
<1>6. FactorTypeOK'
  BY <1>1, <1>2, <1>5 DEF FactorTypeOK
<1>7. ASSUME Undisturbed' PROVE Undisturbed
  BY <1>1, <1>5, <1>7 DEF Undisturbed
<1>8. ASSUME Undisturbed
      PROVE /\ \A t \in chunks' : t[1] = factorRuns /\ t[3] \in row.window
            /\ factorRun.given = barRows
            /\ \A e \in OpenDates : e \in row.left \/ e \in row.window \/ RankedWhole(e)
            /\ \A s \in Given(d) : s \in WithFactors(d) \/ <<factorRuns, s, d>> \in chunks'
  <2>1. chunks = {}
    BY <1>1, <1>8 DEF FactorInv, WindowsRanked
  <2>2. \A t \in chunks' : t[1] = factorRuns /\ t[3] \in row.window
    BY <1>1, <1>5, <2>1
  <2>3. factorRun.given = barRows
    BY <1>1, <1>8 DEF FactorInv, WindowsRanked
  <2>4. \A e \in OpenDates : e \in row.left \/ e \in row.window \/ RankedWhole(e)
    BY <1>1, <1>5, <1>8 DEF FactorInv, WindowsRanked
  <2>5. \A s \in Given(d) : s \in WithFactors(d) \/ <<factorRuns, s, d>> \in chunks'
    BY <1>1, <1>4, <2>3 DEF Given, WithFactors
  <2> QED
    BY <2>2, <2>3, <2>4, <2>5
<1>9. \A e \in OpenDates : /\ RankedWhole(e) => RankedWhole(e)'
                           /\ Given(e)' = Given(e) /\ WithFactors(e)' = WithFactors(e)
  BY <1>1, <1>5 DEF RankedWhole, Given, WithFactors
<1>10. WindowsRanked'
  <2> SUFFICES ASSUME Undisturbed' PROVE WindowsRanked'
    BY DEF WindowsRanked
  <2>1. Undisturbed
    BY <1>7
  <2>2. \A e \in OpenDates : e \in row.window => e = d
    BY <1>5
  <2> QED
    BY <1>1, <1>3, <1>5, <1>8, <1>9, <2>1, <2>2 DEF WindowsRanked
<1> QED
  BY <1>6, <1>10 DEF FactorInv

\* A chunk of the window writes a row of its date; the percentiles of the others are still over
\* what is stored.
LEMMA ChunkCommitsKeeps ==
  ASSUME FactorInv, NEW t \in chunks, Factor!ChunkCommits(t)
  PROVE FactorInv'
<1>1. /\ chunks' = chunks \ {t} /\ factorRows' = factorRows \cup {<<t[2], t[3]>>}
      /\ barRows' = barRows /\ rankedRows' = rankedRows /\ factorRun' = factorRun
      /\ factorRuns' = factorRuns
  BY DEF Factor!ChunkCommits
<1>2. FactorTypeOK'
  BY <1>1 DEF FactorInv, FactorTypeOK
<1>3. WindowsRanked'
  <2> SUFFICES ASSUME Undisturbed' PROVE WindowsRanked'
    BY DEF WindowsRanked
  <2>1. Undisturbed /\ factorRun' = factorRun /\ factorRuns' = factorRuns /\ barRows' = barRows
    BY <1>1 DEF Undisturbed
  <2>2. t[1] = factorRuns /\ t[3] \in factorRun.window
    BY <2>1 DEF FactorInv, WindowsRanked
  <2>3. \A x \in chunks' : x[1] = factorRuns /\ x[3] \in factorRun.window
    BY <1>1, <2>1 DEF FactorInv, WindowsRanked
  <2>4. ASSUME NEW d \in OpenDates
        PROVE /\ d \in factorRun.left \/ d \in factorRun.window \/ RankedWhole(d)'
              /\ Given(d)' = Given(d)
    <3>1. Given(d)' = Given(d)
      BY <2>1 DEF Given
    <3>2. CASE d \in factorRun.left \/ d \in factorRun.window
      BY <3>1, <3>2
    <3>3. CASE d \notin factorRun.window /\ RankedWhole(d)
      <4>1. \A s \in FactorStocks : <<s, d>> # <<t[2], t[3]>>
        BY <2>2, <3>3
      <4>2. WithFactors(d)' = WithFactors(d)
        BY <1>1, <4>1 DEF WithFactors
      <4> QED
        BY <1>1, <3>1, <3>3, <4>2 DEF RankedWhole
    <3> QED
      BY <2>1, <3>1, <3>2, <3>3 DEF FactorInv, WindowsRanked
  <2>5. ASSUME NEW d \in OpenDates, d \in factorRun.window, NEW s \in Given(d)
        PROVE s \in WithFactors(d)' \/ <<factorRuns, s, d>> \in chunks'
    <3>1. s \in WithFactors(d) \/ <<factorRuns, s, d>> \in chunks
      BY <2>1, <2>5 DEF FactorInv, WindowsRanked
    <3>2. CASE s \in WithFactors(d)
      BY <1>1, <3>2 DEF WithFactors
    <3>3. CASE <<factorRuns, s, d>> = t
      <4>1. t[2] = s /\ t[3] = d /\ s \in FactorStocks
        BY <3>3 DEF Given
      <4> QED
        BY <1>1, <4>1 DEF WithFactors
    <3>4. CASE <<factorRuns, s, d>> \in chunks /\ <<factorRuns, s, d>> # t
      BY <1>1, <3>4
    <3> QED
      BY <3>1, <3>2, <3>3, <3>4
  <2>6. /\ factorRun.at # "chunks" => factorRun.window = {}
        /\ factorRun.at = "done" => factorRun.left = {}
        /\ factorRun.at # "done" => factorRun.given = barRows
    BY <2>1 DEF FactorInv, WindowsRanked
  <2> QED
    BY <2>1, <2>3, <2>4, <2>5, <2>6 DEF WindowsRanked
<1> QED
  BY <1>2, <1>3 DEF FactorInv

\* What giving a window up makes of the run.
LEMMA WindowFailsCounts ==
  ASSUME FactorTypeOK, factorRun.kind = "stock" => factorRun.at # "groups"
  PROVE /\ Factor!WindowFails \in FactorRunRows /\ Factor!WindowFails.failed # 0
        /\ Factor!WindowFails.at # "groups"
<1> DEFINE n == factorRun.failed + 1
           at == IF factorRun.fast THEN "raised" ELSE "window"
<1>1. /\ factorRun \in FactorRunRows
      /\ Factor!WindowFails = [factorRun EXCEPT !.failed = n, !.window = {}, !.at = at]
  BY DEF FactorTypeOK, Factor!WindowFails
<1>2. n \in Nat /\ n # 0 /\ at \in {"raised", "window"}
  BY <1>1 DEF FactorRunRows
<1> HIDE DEF n, at
<1> QED
  BY <1>1, <1>2 DEF FactorRunRows

\* A chunk that fails is of the open window when nothing disturbed the run.
LEMMA FactorFailures ==
  ASSUME FactorInv, Factor!RankFails \/ \E t \in chunks : Factor!ChunkFails(t)
  PROVE FactorInv'
<1>1. FactorTypeOK
  BY DEF FactorInv
<1>2. factorRun' = Factor!WindowFails \/ factorRun' = factorRun
  BY DEF Factor!RankFails, Factor!ChunkFails
<1>3. barRows' = barRows /\ rankedRows' = rankedRows
  BY DEF Factor!RankFails, Factor!ChunkFails
<1>4. FactorTypeOK'
  BY <1>1, <1>2, <1>3, WindowFailsCounts DEF FactorTypeOK
<1>5. ~Undisturbed'
  <2>1. CASE factorRun' = Factor!WindowFails
    BY <1>1, <2>1, WindowFailsCounts DEF Undisturbed, FactorTypeOK
  <2>2. CASE factorRun' = factorRun /\ Undisturbed /\ factorRun' # Factor!WindowFails
    <3>1. PICK t \in chunks : ~Factor!InGather(t)
      BY <2>2 DEF Factor!RankFails, Factor!ChunkFails
    <3>2. t[1] = factorRuns /\ t[3] \in factorRun.window
      BY <2>2 DEF FactorInv, WindowsRanked
    <3>3. factorRun.at = "chunks"
      BY <2>2, <3>2 DEF FactorInv, WindowsRanked
    <3> QED
      BY <3>1, <3>2, <3>3 DEF Factor!InGather
  <2>3. CASE factorRun' = factorRun /\ ~Undisturbed
    BY <2>3 DEF Undisturbed
  <2> QED
    BY <1>2, <2>1, <2>2, <2>3
<1> QED
  BY <1>4, <1>5, FactorDisturbed

\* The percentiles of the window are over the rows stored, when all its chunks are back.
LEMMA RanksWindow ==
  ASSUME FactorInv, Factor!RankWindow
  PROVE FactorInv'
<1> DEFINE row == [factorRun EXCEPT !.at = "window", !.window = {}]
<1>1. /\ factorRun.at = "chunks" /\ ~\E t \in chunks : Factor!InGather(t)
      /\ rankedRows' = [d \in OpenDates |-> IF d \in factorRun.window
                          THEN {s \in FactorStocks : <<s, d>> \in factorRows} ELSE rankedRows[d]]
      /\ factorRun' = row /\ barRows' = barRows /\ factorRows' = factorRows /\ chunks' = chunks
      /\ factorRuns' = factorRuns
  BY DEF Factor!RankWindow
<1>2. FactorTypeOK /\ factorRun \in FactorRunRows
  BY DEF FactorInv, FactorTypeOK
<1>3. /\ row \in FactorRunRows /\ row.at = "window" /\ row.window = {}
      /\ row.left = factorRun.left /\ row.kind = factorRun.kind
      /\ row.failed = factorRun.failed /\ row.alone = factorRun.alone
      /\ row.given = factorRun.given
  BY <1>2 DEF FactorRunRows
<1> HIDE DEF row
<1>4. FactorTypeOK'
  <2>1. rankedRows' \in [OpenDates -> SUBSET FactorStocks]
    BY <1>1, <1>2 DEF FactorTypeOK
  <2> QED
    BY <1>1, <1>2, <1>3, <2>1 DEF FactorTypeOK
<1>5. WindowsRanked'
  <2> SUFFICES ASSUME Undisturbed' PROVE WindowsRanked'
    BY DEF WindowsRanked
  <2>1. Undisturbed
    BY <1>1, <1>3 DEF Undisturbed
  <2>2. chunks = {}
    BY <1>1, <2>1 DEF FactorInv, WindowsRanked, Factor!InGather
  <2>3. ASSUME NEW d \in OpenDates PROVE d \in factorRun.left \/ RankedWhole(d)'
    <3>1. Given(d)' = Given(d) /\ WithFactors(d)' = WithFactors(d)
      BY <1>1, <1>3 DEF Given, WithFactors
    <3>2. CASE d \in factorRun.window
      <4>1. rankedRows'[d] = WithFactors(d)
        BY <1>1, <3>2 DEF WithFactors
      <4>2. \A s \in Given(d) : s \in WithFactors(d)
        BY <2>1, <2>2, <3>2 DEF FactorInv, WindowsRanked
      <4> QED
        BY <3>1, <4>1, <4>2 DEF RankedWhole
    <3>3. CASE d \notin factorRun.window /\ RankedWhole(d)
      <4>1. rankedRows'[d] = rankedRows[d]
        BY <1>1, <3>3
      <4> QED
        BY <3>1, <3>3, <4>1 DEF RankedWhole
    <3> QED
      BY <2>1, <3>2, <3>3 DEF FactorInv, WindowsRanked
  <2>4. factorRun.given = barRows
    BY <1>1, <2>1 DEF FactorInv, WindowsRanked
  <2> QED
    BY <1>1, <1>3, <2>2, <2>3, <2>4 DEF WindowsRanked
<1> QED
  BY <1>4, <1>5 DEF FactorInv

\* A run ends when no date waits and no window is open.
LEMMA FinishesFactors ==
  ASSUME FactorInv, Factor!Finish
  PROVE FactorInv'
<1> DEFINE row == [factorRun EXCEPT !.at = "done"]
<1>1. /\ factorRun.at \in {"window", "groups"} /\ factorRun.left = {} /\ factorRun.window = {}
      /\ factorRun' = row /\ barRows' = barRows /\ factorRows' = factorRows /\ chunks' = chunks
      /\ rankedRows' = rankedRows /\ factorRuns' = factorRuns
  BY DEF Factor!Finish
<1>2. FactorTypeOK /\ factorRun \in FactorRunRows
  BY DEF FactorInv, FactorTypeOK
<1>3. /\ row \in FactorRunRows /\ row.at = "done" /\ row.window = factorRun.window
      /\ row.left = factorRun.left /\ row.kind = factorRun.kind
      /\ row.failed = factorRun.failed /\ row.alone = factorRun.alone
      /\ row.given = factorRun.given
  BY <1>2 DEF FactorRunRows
<1> HIDE DEF row
<1>4. FactorTypeOK'
  BY <1>1, <1>2, <1>3 DEF FactorTypeOK
<1>5. WindowsRanked'
  <2> SUFFICES ASSUME Undisturbed' PROVE WindowsRanked'
    BY DEF WindowsRanked
  <2>1. Undisturbed
    BY <1>1, <1>2, <1>3 DEF Undisturbed, FactorTypeOK
  <2>2. \A d \in OpenDates : RankedWhole(d) => RankedWhole(d)'
    BY <1>1, <1>3 DEF RankedWhole, Given, WithFactors
  <2> QED
    BY <1>1, <1>3, <2>1, <2>2 DEF FactorInv, WindowsRanked
<1> QED
  BY <1>4, <1>5 DEF FactorInv

\* The bars that other pipelines store come between the runs.
LEMMA BarArrivesKeeps ==
  ASSUME FactorInv, NEW s \in FactorStocks, NEW d \in OpenDates, Factor!BarArrives(s, d)
  PROVE FactorInv'
<1>1. /\ factorRun.at \in {"none", "done", "raised"} /\ barRows' = barRows \cup {<<s, d>>}
      /\ factorRun' = factorRun /\ factorRows' = factorRows /\ chunks' = chunks
      /\ rankedRows' = rankedRows /\ factorRuns' = factorRuns
  BY DEF Factor!BarArrives
<1>2. FactorTypeOK'
  BY <1>1 DEF FactorInv, FactorTypeOK
<1>3. WindowsRanked'
  <2> SUFFICES ASSUME Undisturbed' PROVE WindowsRanked'
    BY DEF WindowsRanked
  <2>1. Undisturbed /\ factorRun.at = "done"
    BY <1>1 DEF Undisturbed
  <2>2. \A e \in OpenDates : RankedWhole(e) => RankedWhole(e)'
    BY <1>1 DEF RankedWhole, Given, WithFactors
  <2> QED
    BY <1>1, <2>1, <2>2 DEF FactorInv, WindowsRanked
<1> QED
  BY <1>2, <1>3 DEF FactorInv

\* The sector and index factors touch nothing of a stock run that is not disturbed.
LEMMA GroupStepsKeep ==
  ASSUME FactorInv,
         \/ \E q \in groupQueue : Factor!TakeGroup(q[1], q[2])
         \/ \E h \in groupWork : Factor!GroupCommits(h) \/ Factor!GroupRetries(h)
         \/ UNCHANGED factorVars
  PROVE FactorInv'
<1>1. /\ factorRun' = factorRun /\ barRows' = barRows /\ factorRows' = factorRows
      /\ chunks' = chunks /\ rankedRows' = rankedRows /\ factorRuns' = factorRuns
  BY DEF Factor!TakeGroup, Factor!GroupCommits, Factor!GroupRetries, factorVars
<1>2. FactorTypeOK'
  BY <1>1 DEF FactorInv, FactorTypeOK
<1>3. WindowsRanked'
  BY <1>1 DEF FactorInv, WindowsRanked, Undisturbed, RankedWhole, Given, WithFactors
<1> QED
  BY <1>2, <1>3 DEF FactorInv

LEMMA FactorEnds ==
  ASSUME FactorInv, Factor!Crash \/ \E h \in groupWork : Factor!GroupFails(h)
  PROVE FactorInv'
<1>1. FactorTypeOK /\ factorRun \in FactorRunRows
  BY DEF FactorInv, FactorTypeOK
<1>2. CASE Factor!Crash
  <2>1. /\ factorRun' = [factorRun EXCEPT !.at = "raised", !.left = {}, !.window = {}]
        /\ barRows' = barRows /\ rankedRows' = rankedRows
    BY <1>2 DEF Factor!Crash
  <2>2. factorRun' \in FactorRunRows /\ factorRun'.at = "raised"
    BY <1>1, <2>1 DEF FactorRunRows
  <2>3. FactorTypeOK'
    BY <1>1, <2>1, <2>2 DEF FactorTypeOK
  <2>4. ~Undisturbed'
    BY <2>2 DEF Undisturbed
  <2> QED
    BY <2>3, <2>4, FactorDisturbed
<1>3. CASE \E h \in groupWork : Factor!GroupFails(h)
  <2> DEFINE n == factorRun.failed + 1
             at == IF factorRun.fast THEN "raised" ELSE factorRun.at
  <2>1. /\ factorRun' = [factorRun EXCEPT !.failed = n, !.at = at]
        /\ barRows' = barRows /\ rankedRows' = rankedRows
    BY <1>1, <1>3 DEF Factor!GroupFails, FactorRunRows
  <2>2. /\ n \in Nat /\ n # 0
        /\ at \in {"none", "window", "chunks", "groups", "done", "raised"}
        /\ at = "groups" => factorRun.at = "groups"
    BY <1>1 DEF FactorRunRows
  <2> HIDE DEF n, at
  <2>3. factorRun' \in FactorRunRows /\ factorRun'.failed # 0
        /\ factorRun'.at = at /\ factorRun'.kind = factorRun.kind
    BY <1>1, <2>1, <2>2 DEF FactorRunRows
  <2>4. FactorTypeOK'
    BY <1>1, <2>1, <2>2, <2>3 DEF FactorTypeOK
  <2>5. ~Undisturbed'
    BY <2>3 DEF Undisturbed
  <2> QED
    BY <2>4, <2>5, FactorDisturbed
<1> QED
  BY <1>2, <1>3

LEMMA FactorSteps == FactorInv /\ [Factor!Next]_factorVars => FactorInv'
<1> SUFFICES ASSUME FactorInv, [Factor!Next]_factorVars PROVE FactorInv'
  OBVIOUS
<1>1. ASSUME NEW kind \in {"stock", "sector", "index"}, NEW rebuild \in BOOLEAN,
             NEW only \in BOOLEAN, NEW fast \in BOOLEAN, Factor!Start(kind, rebuild, only, fast)
      PROVE FactorInv'
  BY <1>1, StartsFactors
<1>2. CASE Factor!OpenWindow
  BY <1>2, OpensWindow
<1>3. CASE Factor!RankWindow
  BY <1>3, RanksWindow
<1>4. CASE Factor!RankFails \/ \E t \in chunks : Factor!ChunkFails(t)
  BY <1>4, FactorFailures
<1>5. CASE Factor!Finish
  BY <1>5, FinishesFactors
<1>6. CASE Factor!Crash \/ \E h \in groupWork : Factor!GroupFails(h)
  BY <1>6, FactorEnds
<1>7. ASSUME NEW t \in chunks, Factor!ChunkCommits(t) PROVE FactorInv'
  BY <1>7, ChunkCommitsKeeps
<1>8. CASE \/ \E q \in groupQueue : Factor!TakeGroup(q[1], q[2])
           \/ \E h \in groupWork : Factor!GroupCommits(h) \/ Factor!GroupRetries(h)
           \/ UNCHANGED factorVars
  BY <1>8, GroupStepsKeep
<1>9. ASSUME NEW s \in FactorStocks, NEW d \in OpenDates, Factor!BarArrives(s, d) PROVE FactorInv'
  BY <1>9, BarArrivesKeeps
<1> QED
  BY <1>1, <1>2, <1>3, <1>4, <1>5, <1>6, <1>7, <1>8, <1>9 DEF Factor!Next

LEMMA FactorComplete == FactorInv => Factor!RanksFresh
<1> SUFFICES ASSUME FactorInv, factorRun.kind = "stock", factorRun.at = "done",
                    factorRun.failed = 0, factorRun.alone, NEW d \in OpenDates
             PROVE /\ {s \in FactorStocks : <<s, d>> \in factorRun.given} \subseteq rankedRows[d]
                   /\ rankedRows[d] = {s \in FactorStocks : <<s, d>> \in factorRows}
  BY DEF Factor!RanksFresh
<1>1. RankedWhole(d)
  BY DEF FactorInv, WindowsRanked, Undisturbed
<1> QED
  BY <1>1 DEF RankedWhole, Given, WithFactors

-----------------------------------------------------------------------------
(* The catalogs of sectors and indexes (SectorCatalog)                     *)

\* What an answer may be: one of the sources with stocks, or no answer.
SectorAnswers ==
  {Sector!Answer(o, a) : o \in Sector!Sources, a \in SUBSET ComponentStocks}
    \union {Sector!Failed}
SectorGots == UNION {[S -> SectorAnswers] : S \in SUBSET Sector!Sectors}
SectorRunRows == [phase: {"idle", "running", "failed", "done"}, types: SUBSET Sector!Types,
                  source: Sector!Providers \union {"none"}, delete: BOOLEAN,
                  got: SectorGots, errors: BOOLEAN, listed: BOOLEAN]

\* The stored stocks by sector and source, the answers of the run to the sectors it listed, and
\* the stored stocks of the indexes.
SectorInv ==
  /\ sectorMembers \in [Sector!Sectors -> [Sector!Sources -> SUBSET ComponentStocks]]
  /\ sectorRun \in SectorRunRows
  /\ DOMAIN indexMembers = Sector!Indexes

LEMMA NoAnswers == <<>> \in SectorGots
<1>1. <<>> \in Seq(SectorAnswers) /\ Len(<<>>) = 0
  OBVIOUS
<1>2. <<>> \in [1 .. 0 -> SectorAnswers]
  BY <1>1
<1>3. 1 .. 0 \subseteq Sector!Sectors
  OBVIOUS
<1> QED
  BY <1>2, <1>3 DEF SectorGots

\* The fields of an answer, and that one without a source has no stocks.
LEMMA AnswerFields ==
  /\ \A o, a : Sector!Answer(o, a).source = o /\ Sector!Answer(o, a).stocks = a
               /\ Sector!Answer(o, a).rows = Sector!Cardinality(a)
  /\ \A answer \in SectorAnswers :
       /\ answer.stocks \subseteq ComponentStocks
       /\ answer.stocks # {} => answer.source \in Sector!Sources
<1>1. \A o, a : Sector!Answer(o, a).source = o /\ Sector!Answer(o, a).stocks = a
                /\ Sector!Answer(o, a).rows = Sector!Cardinality(a)
  BY DEF Sector!Answer
<1>2. Sector!Failed.stocks = {}
  BY <1>1 DEF Sector!Failed
<1> QED
  BY <1>1, <1>2 DEF SectorAnswers

LEMMA AnswersTyped ==
  ASSUME NEW lister \in {"tushare", "eastmoney", "html", "nobody"}
  PROVE Sector!Answers(lister) \subseteq SectorAnswers
<1>1. ASSUME NEW o \in Sector!Sources PROVE Sector!Named(o) \subseteq SectorAnswers
  BY DEF Sector!Named, SectorAnswers
<1>2. Sector!FromHtml \subseteq SectorAnswers
  <2> SUFFICES ASSUME NEW page \in [1 .. HtmlPages -> SUBSET ComponentStocks]
               PROVE Sector!FromPages(page) \in SectorAnswers
    BY DEF Sector!FromHtml
  <2>1. UNION {page[k] : k \in DOMAIN page} \subseteq ComponentStocks
    OBVIOUS
  <2>2. "ths_html" \in Sector!Sources
    BY DEF Sector!Sources
  <2> QED
    BY <2>1, <2>2 DEF Sector!FromPages, SectorAnswers
<1>3. "ths_member" \in Sector!Sources /\ "cons_em" \in Sector!Sources
  BY DEF Sector!Sources
<1>4. Sector!Failed \in SectorAnswers
  BY DEF SectorAnswers
<1>5. CASE lister = "tushare"
  BY <1>1, <1>3, <1>4, <1>5 DEF Sector!Answers
<1>6. CASE lister = "eastmoney"
  BY <1>1, <1>2, <1>3, <1>6 DEF Sector!Answers
<1>7. CASE lister = "html"
  BY <1>2, <1>7 DEF Sector!Answers
<1>8. CASE lister = "nobody"
  BY <1>8 DEF Sector!Answers
<1> QED
  BY <1>5, <1>6, <1>7, <1>8

\* What an answer makes of the stored stocks: those of its sector and source are joined with its
\* own, and lose the others when the run deletes; all others stay.
LEMMA SyncedStocks ==
  ASSUME SectorInv, NEW sector \in Sector!Sectors, NEW answer \in SectorAnswers,
         answer.stocks # {}
  PROVE /\ Sector!Synced(sector, answer)
             \in [Sector!Sectors -> [Sector!Sources -> SUBSET ComponentStocks]]
        /\ \A s \in Sector!Sectors, o \in Sector!Sources :
             \A x \in sectorMembers[s][o] :
               \/ x \in Sector!Synced(sector, answer)[s][o]
               \/ sectorRun.delete /\ s = sector /\ o = answer.source /\ x \notin answer.stocks
<1> DEFINE o == answer.source
           old == sectorMembers[sector][o]
           kept == IF sectorRun.delete THEN old \intersect answer.stocks ELSE old
           row == [sectorMembers[sector] EXCEPT ![o] = kept \union answer.stocks]
<1>1. o \in Sector!Sources /\ answer.stocks \subseteq ComponentStocks
  BY AnswerFields
<1>2. /\ sectorMembers \in [Sector!Sectors -> [Sector!Sources -> SUBSET ComponentStocks]]
      /\ sectorMembers[sector] \in [Sector!Sources -> SUBSET ComponentStocks]
      /\ old \subseteq ComponentStocks
  BY <1>1 DEF SectorInv
<1>3. Sector!Synced(sector, answer) = [sectorMembers EXCEPT ![sector] = row]
  <2>1. CASE sectorRun.delete
    <3> DEFINE half == [sectorMembers[sector] EXCEPT ![o] = kept]
    <3>1. Sector!WithoutMissing(sector, answer) = [sectorMembers EXCEPT ![sector] = half]
      BY <1>1, <1>2, <2>1 DEF Sector!WithoutMissing
    <3> DEFINE shrunk == [sectorMembers EXCEPT ![sector] = half]
    <3>4. Sector!Synced(sector, answer)
            = [shrunk EXCEPT ![sector] = [shrunk[sector] EXCEPT
                 ![o] = shrunk[sector][o] \union answer.stocks]]
      BY <2>1, <3>1 DEF Sector!Synced
    <3>5. shrunk[sector] = half /\ half[o] = kept
      BY <1>1, <1>2
    <3>2. Sector!Synced(sector, answer)
            = [[sectorMembers EXCEPT ![sector] = half] EXCEPT
                 ![sector] = [half EXCEPT ![o] = kept \union answer.stocks]]
      BY <3>4, <3>5
    <3>3. [half EXCEPT ![o] = kept \union answer.stocks] = row
      BY <1>1, <1>2
    <3> HIDE DEF half, row
    <3> QED
      BY <1>2, <3>2, <3>3
  <2>2. CASE ~sectorRun.delete
    BY <1>1, <1>2, <2>2 DEF Sector!Synced
  <2> QED
    BY <2>1, <2>2
<1>4. row \in [Sector!Sources -> SUBSET ComponentStocks] /\ row[o] = kept \union answer.stocks
      /\ \A p \in Sector!Sources : p # o => row[p] = sectorMembers[sector][p]
  BY <1>1, <1>2
<1>5. \A x \in old : x \in kept \/ (sectorRun.delete /\ x \notin answer.stocks)
  OBVIOUS
<1> HIDE DEF row, kept
<1> QED
  BY <1>1, <1>2, <1>3, <1>4, <1>5

LEMMA SectorStarts == Sector!Init => SectorInv
<1> SUFFICES ASSUME Sector!Init PROVE SectorInv
  OBVIOUS
<1>1. Sector!NoRun \in SectorRunRows
  BY NoAnswers DEF Sector!NoRun, SectorRunRows
<1> QED
  BY <1>1 DEF Sector!Init, SectorInv

\* A list is taken with an answer for each of its sectors.
LEMMA ListsSectors ==
  ASSUME SectorInv, NEW type \in Sector!Types, Sector!ListType(type)
  PROVE sectorRun' \in SectorRunRows /\ sectorMembers' = sectorMembers /\ indexMembers' = indexMembers
<1>1. PICK lister \in Sector!Listers(sectorRun.source) :
        \E got \in [(IF lister = "nobody" THEN {} ELSE ListedSectors[type][lister])
                      -> Sector!Answers(lister)] :
          sectorRun' = [sectorRun EXCEPT !.types = @ \ {type}, !.got = got,
                          !.errors = @ \/ lister = "nobody" \/ Sector!FellBack(lister),
                          !.listed = @ \/ (IF lister = "nobody" THEN {}
                                           ELSE ListedSectors[type][lister]) # {}]
  BY DEF Sector!ListType
<1> DEFINE listed == IF lister = "nobody" THEN {} ELSE ListedSectors[type][lister]
<1>2. PICK got \in [listed -> Sector!Answers(lister)] :
          sectorRun' = [sectorRun EXCEPT !.types = @ \ {type}, !.got = got,
                          !.errors = @ \/ lister = "nobody" \/ Sector!FellBack(lister),
                          !.listed = @ \/ listed # {}]
  BY <1>1
<1>3. lister \in {"tushare", "eastmoney", "html", "nobody"}
  BY DEF Sector!Listers
<1>4. listed \subseteq Sector!Sectors
  BY <1>3 DEF Sector!Sectors
<1> HIDE DEF listed
<1>5. got \in [listed -> SectorAnswers]
  BY <1>2, <1>3, AnswersTyped
<1>6. got \in SectorGots
  BY <1>4, <1>5 DEF SectorGots
<1> DEFINE errors == sectorRun.errors \/ lister = "nobody" \/ Sector!FellBack(lister)
           any == sectorRun.listed \/ listed # {}
<1>7. errors \in BOOLEAN /\ any \in BOOLEAN
  OBVIOUS
<1>8. sectorRun' = [sectorRun EXCEPT !.types = @ \ {type}, !.got = got, !.errors = errors,
                                     !.listed = any]
  BY <1>2
<1> HIDE DEF errors, any
<1>9. sectorRun' \in SectorRunRows
  BY <1>6, <1>7, <1>8 DEF SectorInv, SectorRunRows
<1> QED
  BY <1>9 DEF Sector!ListType

\* A sector is stored, rolled back or passed over; only an answer with stocks is stored.
LEMMA StoresSector ==
  ASSUME SectorInv, NEW sector \in Sector!Sectors, Sector!Store(sector)
  PROVE /\ SectorInv' /\ Sector!CatalogStep
<1> DEFINE answer == sectorRun.got[sector]
           rest == [s \in DOMAIN sectorRun.got \ {sector} |-> sectorRun.got[s]]
<1>1. /\ sector \in DOMAIN sectorRun.got /\ indexMembers' = indexMembers
      /\ \E stored \in {answer.stocks # {}, FALSE} :
           /\ sectorMembers' = IF stored THEN Sector!Synced(sector, answer) ELSE sectorMembers
           /\ sectorRun' = [sectorRun EXCEPT !.got = rest,
                              !.errors = @ \/ answer = Sector!Failed \/ (~stored /\ answer.stocks # {})]
  BY DEF Sector!Store
<1>2. PICK S \in SUBSET Sector!Sectors : sectorRun.got \in [S -> SectorAnswers]
  BY DEF SectorInv, SectorRunRows, SectorGots
<1>3. answer \in SectorAnswers
  BY <1>1, <1>2
<1>4. rest \in SectorGots
  <2>1. rest \in [S \ {sector} -> SectorAnswers] /\ S \ {sector} \in SUBSET Sector!Sectors
    BY <1>2
  <2> QED
    BY <2>1 DEF SectorGots
<1> HIDE DEF answer, rest
<1>5. sectorRun' \in SectorRunRows
  <2>1. PICK stored \in {answer.stocks # {}, FALSE} :
           sectorRun' = [sectorRun EXCEPT !.got = rest,
                              !.errors = @ \/ answer = Sector!Failed \/ (~stored /\ answer.stocks # {})]
    BY <1>1
  <2> DEFINE errors == sectorRun.errors \/ answer = Sector!Failed \/ (~stored /\ answer.stocks # {})
  <2>2. errors \in BOOLEAN /\ sectorRun' = [sectorRun EXCEPT !.got = rest, !.errors = errors]
    BY <2>1
  <2> HIDE DEF errors
  <2> QED
    BY <1>4, <2>2 DEF SectorInv, SectorRunRows
<1>6. \/ sectorMembers' = sectorMembers
      \/ answer.stocks # {} /\ sectorMembers' = Sector!Synced(sector, answer)
  BY <1>1
<1>7. SectorInv'
  BY <1>1, <1>3, <1>5, <1>6, SyncedStocks DEF SectorInv
<1>8. Sector!SectorsKept
  <2> SUFFICES ASSUME NEW s \in Sector!Sectors, NEW o \in Sector!Sources,
                      NEW x \in sectorMembers[s][o], x \notin sectorMembers'[s][o]
               PROVE /\ sectorRun.delete /\ s \in DOMAIN sectorRun.got
                     /\ sectorRun.got[s].source = o /\ sectorRun.got[s].stocks # {}
                     /\ x \notin sectorRun.got[s].stocks
    BY DEF Sector!SectorsKept
  <2>1. answer.stocks # {} /\ sectorMembers' = Sector!Synced(sector, answer)
    BY <1>6
  <2>2. sectorRun.delete /\ s = sector /\ o = answer.source /\ x \notin answer.stocks
    BY <1>3, <2>1, SyncedStocks
  <2> QED
    BY <1>1, <2>1, <2>2 DEF answer
<1>9. Sector!IndexesKept
  BY <1>1 DEF Sector!IndexesKept
<1> QED
  BY <1>7, <1>8, <1>9 DEF Sector!CatalogStep

\* An index takes an answer with enough rows; of Tushare's each row is another stock.
LEMMA StoresIndex ==
  ASSUME SectorInv, NEW i \in Sector!Indexes, Sector!StoreIndex(i)
  PROVE SectorInv' /\ Sector!CatalogStep
<1>1. PICK answer \in (IF indexRun.source = "tushare" THEN Sector!Weighed(i) ELSE {})
                        \union Sector!Current \union {Sector!Failed} :
        indexMembers' = IF Sector!Enough(i, answer)
                        THEN [indexMembers EXCEPT ![i] = [stocks |-> answer.stocks,
                                                          source |-> answer.source]]
                        ELSE indexMembers
  BY DEF Sector!StoreIndex
<1>2. sectorMembers' = sectorMembers /\ sectorRun' = sectorRun
  BY DEF Sector!StoreIndex
<1>3. SectorInv'
  BY <1>1, <1>2 DEF SectorInv
<1>4. answer.source = "tushare" => answer.rows = Sector!Cardinality(answer.stocks)
  <2>1. CASE answer \in Sector!Weighed(i)
    BY <2>1, AnswerFields DEF Sector!Weighed
  <2>2. CASE answer \in Sector!Current
    <3>1. PICK a \in SUBSET ComponentStocks, repeated \in {0, 1} :
            answer = [Sector!Answer("akshare", a) EXCEPT !.rows = @ + repeated]
      BY <2>2 DEF Sector!Current
    <3>2. answer.source = "akshare"
      BY <3>1 DEF Sector!Answer
    <3> QED
      BY <3>2
  <2>3. CASE answer = Sector!Failed
    BY <2>3, AnswerFields DEF Sector!Failed
  <2> QED
    BY <2>1, <2>2, <2>3
<1>5. Sector!IndexesKept
  <2> SUFFICES ASSUME NEW j \in Sector!Indexes, indexMembers'[j] # indexMembers[j]
               PROVE /\ indexMembers'[j].stocks # {}
                     /\ indexMembers'[j].source = "tushare" =>
                          Sector!Cardinality(indexMembers'[j].stocks) >= ExpectedStocks[j]
    BY DEF Sector!IndexesKept
  <2>1. Sector!Enough(i, answer)
    BY <1>1
  <2>2. j = i /\ indexMembers'[j] = [stocks |-> answer.stocks, source |-> answer.source]
    BY <1>1, <2>1 DEF SectorInv
  <2>3. answer.stocks # {} /\ answer.rows >= ExpectedStocks[i]
    BY <2>1 DEF Sector!Enough
  <2> QED
    BY <1>4, <2>2, <2>3
<1>6. Sector!SectorsKept
  BY <1>2 DEF Sector!SectorsKept
<1> QED
  BY <1>3, <1>5, <1>6 DEF Sector!CatalogStep

\* The other steps leave the stored stocks as they are.
LEMMA SectorRests ==
  ASSUME SectorInv, sectorMembers' = sectorMembers, indexMembers' = indexMembers,
         sectorRun' \in SectorRunRows
  PROVE SectorInv' /\ Sector!CatalogStep
BY DEF SectorInv, Sector!CatalogStep, Sector!SectorsKept, Sector!IndexesKept

LEMMA SectorSteps == SectorInv /\ [Sector!Next]_sectorVars => SectorInv' /\ Sector!CatalogStep
<1> SUFFICES ASSUME SectorInv, [Sector!Next]_sectorVars PROVE SectorInv' /\ Sector!CatalogStep
  OBVIOUS
<1>1. ASSUME NEW source \in Sector!Providers, NEW delete \in BOOLEAN, Sector!Start(source, delete)
      PROVE SectorInv' /\ Sector!CatalogStep
  <2>1. /\ sectorMembers' = sectorMembers /\ indexMembers' = indexMembers
        /\ sectorRun' = [Sector!NoRun EXCEPT !.phase = "running", !.types = Sector!Types,
                                             !.source = source, !.delete = delete]
    BY <1>1 DEF Sector!Start
  <2>2. Sector!NoRun \in SectorRunRows
    BY NoAnswers DEF Sector!NoRun, SectorRunRows
  <2>3. sectorRun' \in SectorRunRows
    BY <2>1, <2>2 DEF SectorRunRows
  <2> QED
    BY <2>1, <2>3, SectorRests
<1>2. ASSUME NEW type \in Sector!Types, Sector!ListType(type) PROVE SectorInv' /\ Sector!CatalogStep
  BY <1>2, ListsSectors, SectorRests
<1>3. ASSUME NEW sector \in Sector!Sectors, Sector!Store(sector)
      PROVE SectorInv' /\ Sector!CatalogStep
  BY <1>3, StoresSector
<1>4. CASE Sector!Finish \/ Sector!Stop
  <2>1. sectorMembers' = sectorMembers /\ indexMembers' = indexMembers
    BY <1>4 DEF Sector!Finish, Sector!Stop
  <2> DEFINE phase == IF ~sectorRun.listed /\ sectorRun.errors THEN "failed" ELSE "done"
  <2>2. phase \in {"failed", "done"}
    OBVIOUS
  <2>3. sectorRun' = [Sector!NoRun EXCEPT !.phase = phase] \/ sectorRun' = Sector!NoRun
    BY <1>4 DEF Sector!Finish, Sector!Stop
  <2> HIDE DEF phase
  <2>4. Sector!NoRun \in SectorRunRows
    BY NoAnswers DEF Sector!NoRun, SectorRunRows
  <2>5. sectorRun' \in SectorRunRows
    BY <2>2, <2>3, <2>4 DEF SectorRunRows
  <2> QED
    BY <2>1, <2>5, SectorRests
<1>5. ASSUME NEW i \in Sector!Indexes, Sector!StoreIndex(i) PROVE SectorInv' /\ Sector!CatalogStep
  BY <1>5, StoresIndex
<1>6. CASE \/ \E source \in Sector!Providers : Sector!StartIndexes(source)
           \/ Sector!FinishIndexes \/ UNCHANGED sectorVars
  <2>1. sectorMembers' = sectorMembers /\ indexMembers' = indexMembers /\ sectorRun' = sectorRun
    BY <1>6 DEF Sector!StartIndexes, Sector!FinishIndexes, sectorVars
  <2> QED
    BY <2>1, SectorRests DEF SectorInv
<1> QED
  BY <1>1, <1>2, <1>3, <1>4, <1>5, <1>6 DEF Sector!Next

-----------------------------------------------------------------------------
(* The master data of stocks and their universes (StockCatalog)            *)

\* A member that is no longer one left on a day that has been.
MemberRows == {r \in [universe: UniverseIds, stock: MainlandStocks, from: 1 .. DayBound,
                      to: 1 .. Stock!Open] :
                 r.from =< stockDay /\ (r.to = Stock!Open \/ r.to =< stockDay)}
StockRunFields == {"phase", "source", "delisted", "targets"}

MasterTypeOK ==
  /\ DOMAIN stockRun = StockRunFields
  /\ universeRows \subseteq MemberRows
  /\ universeAnswer \in [UniverseIds -> SUBSET MainlandStocks]
  /\ stockDay \in 1 .. DayBound

\* No day counts a member twice, and the open rows are of the last answer.
Apart(r, q) ==
  r.universe = q.universe /\ r.stock = q.stock /\ r # q => r.to =< q.from \/ q.to =< r.from
RowsApart == \A r, q \in universeRows : Apart(r, q)
RowsAnswered ==
  \A r \in universeRows : r.to = Stock!Open => r.stock \in universeAnswer[r.universe]

MasterInv == MasterTypeOK /\ RowsApart /\ RowsAnswered

LEMMA MasterStarts == Stock!Init => MasterInv
<1> SUFFICES ASSUME Stock!Init PROVE MasterInv
  OBVIOUS
<1>1. DOMAIN stockRun = StockRunFields
  BY DEF Stock!Init, Stock!Idle, StockRunFields
<1>2. /\ universeRows = {} /\ stockDay = 1
      /\ universeAnswer = [u \in UniverseIds |-> {}]
  BY DEF Stock!Init
<1>3. 1 \in 1 .. DayBound
  BY DayAssumption
<1> QED
  BY <1>1, <1>2, <1>3 DEF MasterInv, MasterTypeOK, RowsApart, RowsAnswered

-----------------------------------------------------------------------------
\* A list, a detail or a mark never lets a held stock trade, unless it is Tushare's.
LEMMA UpsertedHeld ==
  ASSUME NEW rows, NEW source, NEW s \in Stock!Stocks, stockStatus[s] \in Stock!Held,
         source # "tushare"
  PROVE Stock!Upserted(rows, source)[s] = stockStatus[s]
BY DEF Stock!Upserted, Stock!Merged

LEMMA OnlyTushare ==
  ASSUME MasterInv, [Stock!Next]_stockVars
  PROVE Stock!OnlyTushareRevives
<1> SUFFICES ASSUME NEW s \in Stock!Stocks, stockStatus[s] \in Stock!Held,
                    stockStatus'[s] # stockStatus[s]
             PROVE stockStatus'[s] = "delisted" \/ stockRun'.source = "tushare"
  BY DEF Stock!OnlyTushareRevives
<1>1. ASSUME NEW wanted \in Stock!Sources, NEW fallback \in BOOLEAN,
             Stock!StoreList(wanted, fallback)
      PROVE stockRun'.source = "tushare"
  <2>1. PICK source \in {wanted} \union (IF fallback THEN Stock!Sources ELSE {}) :
          \E list \in Stock!Lists(source) :
            LET rows == Stock!Normalized(source, list)
            IN
             /\ stockStatus' = Stock!Upserted(rows, source)
             /\ \E delisted \in Stock!DelistLists(source) :
                  stockRun' = [phase |-> IF source = "akshare" THEN "detail" ELSE "universes",
                          source |-> source, targets |-> <<>>,
                          delisted |-> delisted \union {x \in Stock!Stocks : rows[x] = "delisted"}]
    BY <1>1 DEF Stock!StoreList
  <2>2. stockRun'.source = source
    BY <2>1
  <2>3. source = "tushare"
    BY <2>1, UpsertedHeld
  <2> QED
    BY <2>2, <2>3
<1>2. CASE Stock!StoreDetails
  <2>1. PICK fetched \in SUBSET DOMAIN stockRun.targets :
          stockStatus' = Stock!Upserted(
             [x \in Stock!Stocks |-> IF x \in fetched THEN stockRun.targets[x] ELSE "none"],
             stockRun.source)
    BY <1>2 DEF Stock!StoreDetails
  <2>2. stockRun.source = "tushare"
    BY <2>1, UpsertedHeld
  <2>3. stockRun' = [stockRun EXCEPT !.phase = "delist"]
    BY <1>2 DEF Stock!StoreDetails
  <2>4. "source" \in DOMAIN stockRun
    BY DEF MasterInv, MasterTypeOK, StockRunFields
  <2> QED
    BY <2>2, <2>3, <2>4
<1>3. CASE Stock!MarkDelisted
  BY <1>3 DEF Stock!MarkDelisted, Stock!Marked
<1>4. CASE Stock!ReadTargets \/ Stock!SyncUniverses \/ Stock!Stop \/ Stock!NextDay
           \/ UNCHANGED stockVars
  BY <1>4 DEF Stock!ReadTargets, Stock!SyncUniverses, Stock!Stop, Stock!NextDay, stockVars
<1> QED
  BY <1>1, <1>2, <1>3, <1>4 DEF Stock!Next

-----------------------------------------------------------------------------
\* The rows a universe has after an answer: closed ones as they were, the leaving closed today,
\* the staying, and new ones from today for members that had none open.
LEMMA ReplacedRows ==
  ASSUME MasterInv, NEW u \in UniverseIds, NEW incoming \in SUBSET MainlandStocks,
         NEW r \in Stock!Replaced(u, incoming)
  PROVE /\ r \in MemberRows /\ r.universe = u
        /\ \/ r \in universeRows /\ (r.to = Stock!Open => r.stock \in incoming)
           \/ \E q \in universeRows :
                /\ q.universe = u /\ q.to = Stock!Open /\ q.stock \notin incoming
                /\ r.stock = q.stock /\ r.from = q.from /\ r.to = stockDay
           \/ /\ r.stock \in incoming /\ r.from = stockDay /\ r.to = Stock!Open
              /\ r = Stock!Row(u, r.stock)
              /\ \A q \in universeRows : q.universe = u /\ q.stock = r.stock => q.to =< stockDay
<1>1. /\ stockDay \in 1 .. DayBound /\ Stock!Open = DayBound + 1 /\ DayBound \in Nat
      /\ universeRows \subseteq MemberRows
  BY DayAssumption DEF MasterInv, MasterTypeOK, Stock!Open
<1>2. CASE r \in {q \in universeRows : q.universe = u} \ Stock!Leaving(u, incoming)
  <2>1. r \in universeRows /\ r.universe = u /\ r \notin Stock!Leaving(u, incoming)
    BY <1>2
  <2>2. r.to = Stock!Open => r.stock \in incoming
    BY <2>1 DEF Stock!Leaving, Stock!OpenRows
  <2> QED
    BY <1>1, <2>1, <2>2
<1>3. CASE r \in {[q EXCEPT !.to = stockDay] : q \in Stock!Leaving(u, incoming)}
  <2>1. PICK q \in Stock!Leaving(u, incoming) : r = [q EXCEPT !.to = stockDay]
    BY <1>3
  <2>2. q \in universeRows /\ q.universe = u /\ q.to = Stock!Open /\ q.stock \notin incoming
    BY <2>1 DEF Stock!Leaving, Stock!OpenRows
  <2>3. q \in MemberRows
    BY <1>1, <2>2
  <2>4. /\ q \in [universe: UniverseIds, stock: MainlandStocks, from: 1 .. DayBound,
                  to: 1 .. Stock!Open]
        /\ q.from =< stockDay
    BY <2>3 DEF MemberRows
  <2>5. stockDay \in 1 .. Stock!Open
    BY <1>1
  <2>6. /\ r \in [universe: UniverseIds, stock: MainlandStocks, from: 1 .. DayBound,
                  to: 1 .. Stock!Open]
        /\ r.universe = q.universe /\ r.stock = q.stock /\ r.from = q.from /\ r.to = stockDay
    BY <2>1, <2>4, <2>5
  <2>7. r \in MemberRows
    BY <1>1, <2>4, <2>6 DEF MemberRows
  <2> QED
    BY <2>2, <2>6, <2>7
<1>4. CASE r \in Stock!Joining(u, incoming)
  <2>1. PICK s \in incoming \ Stock!Active(u) : r = Stock!Row(u, s)
    BY <1>4 DEF Stock!Joining
  <2>2. r = [universe |-> u, stock |-> s, from |-> stockDay, to |-> Stock!Open]
    BY <2>1 DEF Stock!Row
  <2>3. Stock!Open \in 1 .. Stock!Open /\ stockDay =< stockDay
    BY <1>1
  <2>4. r \in MemberRows
    BY <1>1, <2>1, <2>2, <2>3 DEF MemberRows
  <2>5. ASSUME NEW q \in universeRows, q.universe = u, q.stock = s PROVE q.to =< stockDay
    <3>1. q.to # Stock!Open
      BY <2>1, <2>5 DEF Stock!Active, Stock!OpenRows
    <3> QED
      BY <1>1, <2>5, <3>1 DEF MemberRows
  <2>6. r.universe = u /\ r.stock = s /\ r.from = stockDay /\ r.to = Stock!Open
    BY <2>2
  <2>7. r = Stock!Row(u, r.stock) /\ r.stock \in incoming
    BY <2>1, <2>6
  <2>8. \A q \in universeRows : q.universe = u /\ q.stock = r.stock => q.to =< stockDay
    BY <2>5, <2>6
  <2> QED
    BY <2>4, <2>6, <2>7, <2>8
<1> QED
  BY <1>2, <1>3, <1>4 DEF Stock!Replaced

\* Rows that are apart stay apart in the rows an answer leaves.
LEMMA ReplacedApart ==
  ASSUME MasterInv, NEW u \in UniverseIds, NEW incoming \in SUBSET MainlandStocks,
         NEW r \in Stock!Replaced(u, incoming), NEW q \in Stock!Replaced(u, incoming),
         r.stock = q.stock, r # q
  PROVE r.to =< q.from \/ q.to =< r.from
<1> DEFINE Old(x) == x \in universeRows /\ (x.to = Stock!Open => x.stock \in incoming)
           Closed(x) == \E y \in universeRows :
                /\ y.universe = u /\ y.to = Stock!Open /\ y.stock \notin incoming
                /\ x.stock = y.stock /\ x.from = y.from /\ x.to = stockDay
           New(x) == /\ x.stock \in incoming /\ x.from = stockDay /\ x.to = Stock!Open
                     /\ x = Stock!Row(u, x.stock)
                     /\ \A y \in universeRows : y.universe = u /\ y.stock = x.stock => y.to =< stockDay
<1>1. /\ r \in MemberRows /\ r.universe = u /\ (Old(r) \/ Closed(r) \/ New(r))
      /\ q \in MemberRows /\ q.universe = u /\ (Old(q) \/ Closed(q) \/ New(q))
  BY ReplacedRows
<1>2. /\ stockDay \in 1 .. DayBound /\ Stock!Open = DayBound + 1 /\ DayBound \in Nat
      /\ universeRows \subseteq MemberRows
      /\ \A x, y \in universeRows : x.universe = y.universe /\ x.stock = y.stock /\ x # y =>
           x.to =< y.from \/ y.to =< x.from
      /\ \A x \in MemberRows : x.from \in Int /\ x.to \in Int /\ x.from =< stockDay
                               /\ (x.to = Stock!Open \/ x.to =< stockDay)
  BY DayAssumption DEF MasterInv, MasterTypeOK, RowsApart, Apart, Stock!Open, MemberRows
<1>3. ASSUME NEW x \in MemberRows, NEW y \in MemberRows, x.universe = u, y.universe = u,
             x.stock = y.stock, Old(x), Closed(y), x # y
      PROVE x.to =< y.from \/ y.to =< x.from
  <2>1. PICK z \in universeRows : /\ z.universe = u /\ z.to = Stock!Open /\ z.stock \notin incoming
                                  /\ y.stock = z.stock /\ y.from = z.from /\ y.to = stockDay
    BY <1>3
  <2>2. x # z
    BY <1>3, <2>1
  <2>3. x.to =< z.from \/ z.to =< x.from
    BY <1>2, <1>3, <2>1, <2>2
  <2>4. x.from =< stockDay /\ x.from \in Int /\ z.to = DayBound + 1
    BY <1>2, <2>1
  <2> QED
    BY <1>2, <2>1, <2>3, <2>4
<1>4. ASSUME NEW x \in MemberRows, NEW y \in MemberRows, x.universe = u, y.universe = u,
             x.stock = y.stock, New(x), Old(y)
      PROVE y.to =< x.from
  BY <1>4
<1>5. ASSUME NEW x \in MemberRows, NEW y \in MemberRows, x.stock = y.stock, New(x), Closed(y)
      PROVE FALSE
  BY <1>5
<1>6. ASSUME New(r), New(q) PROVE FALSE
  BY <1>6
<1>7. ASSUME Closed(r), Closed(q) PROVE FALSE
  <2>1. PICK y \in universeRows : /\ y.universe = u /\ y.to = Stock!Open
                                  /\ r.stock = y.stock /\ r.from = y.from /\ r.to = stockDay
    BY <1>7
  <2>2. PICK z \in universeRows : /\ z.universe = u /\ z.to = Stock!Open
                                  /\ q.stock = z.stock /\ q.from = z.from /\ q.to = stockDay
    BY <1>7
  <2>3. y = z
    <3>1. y.from =< stockDay /\ z.from =< stockDay /\ y.from \in Int /\ z.from \in Int
          /\ y.to = DayBound + 1 /\ z.to = DayBound + 1
      BY <1>2, <2>1, <2>2
    <3>2. y # z => y.to =< z.from \/ z.to =< y.from
      BY <1>2, <2>1, <2>2
    <3> QED
      BY <1>2, <3>1, <3>2
  <2>4. /\ r \in [universe: UniverseIds, stock: MainlandStocks, from: 1 .. DayBound,
                  to: 1 .. Stock!Open]
        /\ q \in [universe: UniverseIds, stock: MainlandStocks, from: 1 .. DayBound,
                  to: 1 .. Stock!Open]
    BY <1>1 DEF MemberRows
  <2>5. r.universe = q.universe /\ r.stock = q.stock /\ r.from = q.from /\ r.to = q.to
    BY <1>1, <2>1, <2>2, <2>3
  <2>6. r = q
    BY <2>4, <2>5
  <2> QED
    BY <2>6
<1>8. ASSUME Old(r), Old(q) PROVE r.to =< q.from \/ q.to =< r.from
  BY <1>1, <1>2, <1>8
<1> HIDE DEF Old, Closed, New
<1> QED
  BY <1>1, <1>3, <1>4, <1>5, <1>6, <1>7, <1>8

\* An answer to the changed universes keeps the rows in order, and closed rows as they are.
LEMMA UniversesSynced ==
  ASSUME MasterInv, Stock!SyncUniverses
  PROVE MasterInv' /\ \A r \in universeRows : r.to # Stock!Open => r \in universeRows'
<1>1. /\ stockRun' = Stock!Idle /\ stockDay' = stockDay
  BY DEF Stock!SyncUniverses
<1>2. DOMAIN stockRun' = StockRunFields
  BY <1>1 DEF Stock!Idle, StockRunFields
<1>3. MemberRows' = MemberRows /\ Stock!Open' = Stock!Open
  BY <1>1 DEF MemberRows, Stock!Open
<1>4. CASE universeRows' = universeRows /\ universeAnswer' = universeAnswer
  BY <1>1, <1>2, <1>3, <1>4 DEF MasterInv, MasterTypeOK, RowsApart, RowsAnswered
<1>5. CASE ~(universeRows' = universeRows /\ universeAnswer' = universeAnswer)
  <2>1. PICK entry \in [UniverseIds -> 1 .. 2] :
          \E incoming \in [Stock!Changed(entry) -> SUBSET MainlandStocks] :
            /\ universeRows' = {r \in universeRows : r.universe \notin Stock!Changed(entry)} \union
                             UNION {Stock!Replaced(u, incoming[u]) : u \in Stock!Changed(entry)}
            /\ universeAnswer' = [u \in UniverseIds |->
                                 IF u \in Stock!Changed(entry) THEN incoming[u] ELSE universeAnswer[u]]
    BY <1>5 DEF Stock!SyncUniverses
  <2> DEFINE changed == Stock!Changed(entry)
  <2>2. changed \subseteq UniverseIds
    BY DEF Stock!Changed
  <2> HIDE DEF changed
  <2>3. PICK incoming \in [changed -> SUBSET MainlandStocks] :
            /\ universeRows' = {r \in universeRows : r.universe \notin changed} \union
                             UNION {Stock!Replaced(u, incoming[u]) : u \in changed}
            /\ universeAnswer' = [u \in UniverseIds |->
                                 IF u \in changed THEN incoming[u] ELSE universeAnswer[u]]
    BY <2>1 DEF changed
  <2>4. \A u \in changed : u \in UniverseIds /\ incoming[u] \in SUBSET MainlandStocks
    BY <2>2, <2>3
  <2>5. ASSUME NEW r \in universeRows'
        PROVE \/ r \in universeRows /\ r.universe \notin changed
              \/ \E u \in changed : r \in Stock!Replaced(u, incoming[u]) /\ r.universe = u
    BY <2>3, <2>4, ReplacedRows
  <2>6. universeRows' \subseteq MemberRows
    BY <2>4, <2>5, ReplacedRows DEF MasterInv, MasterTypeOK
  <2>7. universeAnswer' \in [UniverseIds -> SUBSET MainlandStocks]
    BY <2>3, <2>4 DEF MasterInv, MasterTypeOK
  <2>8. MasterTypeOK'
    BY <1>1, <1>2, <1>3, <2>6, <2>7 DEF MasterInv, MasterTypeOK
  <2>9. ASSUME NEW r \in universeRows', NEW q \in universeRows',
               r.universe = q.universe, r.stock = q.stock, r # q
        PROVE r.to =< q.from \/ q.to =< r.from
    <3>1. CASE r.universe \notin changed
      <4>1. r \in universeRows /\ q \in universeRows
        BY <2>5, <2>9, <3>1
      <4> QED
        BY <2>9, <4>1 DEF MasterInv, RowsApart, Apart
    <3>2. CASE r.universe \in changed
      <4>1. /\ r \in Stock!Replaced(r.universe, incoming[r.universe])
            /\ q \in Stock!Replaced(r.universe, incoming[r.universe])
        BY <2>5, <2>9, <3>2
      <4> QED
        BY <2>4, <2>9, <3>2, <4>1, ReplacedApart
    <3> QED
      BY <3>1, <3>2
  <2>10. RowsApart'
    BY <2>9 DEF RowsApart, Apart
  <2>11. ASSUME NEW r \in universeRows', r.to = Stock!Open
         PROVE r.stock \in universeAnswer'[r.universe]
    <3>1. CASE r.universe \notin changed
      <4>1. r \in universeRows /\ r.universe \in UniverseIds
        BY <2>5, <2>6, <3>1 DEF MemberRows
      <4> QED
        BY <2>3, <2>11, <3>1, <4>1 DEF MasterInv, RowsAnswered
    <3>2. CASE r.universe \in changed
      <4>1. r \in Stock!Replaced(r.universe, incoming[r.universe])
        BY <2>5, <3>2
      <4>2. stockDay # Stock!Open
        BY DayAssumption DEF MasterInv, MasterTypeOK, Stock!Open
      <4>3. r.stock \in incoming[r.universe]
        BY <2>4, <2>11, <3>2, <4>1, <4>2, ReplacedRows
      <4> QED
        BY <2>3, <2>4, <3>2, <4>3
    <3> QED
      BY <3>1, <3>2
  <2>12. RowsAnswered'
    BY <1>3, <2>11 DEF RowsAnswered
  <2>13. ASSUME NEW r \in universeRows, r.to # Stock!Open PROVE r \in universeRows'
    <3>1. CASE r.universe \notin changed
      BY <2>3, <3>1
    <3>2. CASE r.universe \in changed
      <4>1. r \in Stock!Replaced(r.universe, incoming[r.universe])
        BY <2>13 DEF Stock!Replaced, Stock!Leaving, Stock!OpenRows
      <4> QED
        BY <2>3, <3>2, <4>1
    <3> QED
      BY <3>1, <3>2
  <2> QED
    BY <2>8, <2>10, <2>12, <2>13 DEF MasterInv
<1> QED
  BY <1>4, <1>5

\* The other steps leave the members alone; a later day keeps their rows in its past.
LEMMA MembersRest ==
  ASSUME MasterInv, universeRows' = universeRows, universeAnswer' = universeAnswer,
         DOMAIN stockRun' = StockRunFields,
         stockDay' = stockDay \/ (stockDay < DayBound /\ stockDay' = stockDay + 1)
  PROVE MasterInv'
<1>1. stockDay \in 1 .. DayBound /\ stockDay' \in 1 .. DayBound /\ stockDay =< stockDay'
  BY DayAssumption DEF MasterInv, MasterTypeOK
<1>2. Stock!Open' = Stock!Open
  BY DEF Stock!Open
<1>3. ASSUME NEW r \in MemberRows PROVE r \in MemberRows'
  <2>1. r.from \in Int /\ (r.to \in Int)
    BY DayAssumption DEF MemberRows, Stock!Open
  <2>2. r.from =< stockDay' /\ (r.to = Stock!Open \/ r.to =< stockDay')
    BY <1>1, <2>1 DEF MemberRows
  <2> QED
    BY <1>2, <2>2 DEF MemberRows
<1>4. MasterTypeOK'
  BY <1>1, <1>3 DEF MasterInv, MasterTypeOK
<1>5. RowsApart' /\ RowsAnswered'
  BY <1>2 DEF MasterInv, RowsApart, Apart, RowsAnswered
<1> QED
  BY <1>4, <1>5 DEF MasterInv

LEMMA MasterSteps == MasterInv /\ [Stock!Next]_stockVars => MasterInv' /\ Stock!MasterStep
<1> SUFFICES ASSUME MasterInv, [Stock!Next]_stockVars PROVE MasterInv' /\ Stock!MasterStep
  OBVIOUS
<1>1. ASSUME Stock!SyncUniverses
      PROVE MasterInv' /\ \A r \in universeRows : r.to # Stock!Open => r \in universeRows'
  BY <1>1, UniversesSynced
<1>2. ASSUME ~Stock!SyncUniverses
      PROVE universeRows' = universeRows /\ universeAnswer' = universeAnswer
  BY <1>2 DEF Stock!Next, Stock!StoreList, Stock!ReadTargets, Stock!StoreDetails,
     Stock!MarkDelisted, Stock!Stop, Stock!NextDay, stockVars
<1>3. ASSUME ~Stock!SyncUniverses
      PROVE stockDay' = stockDay \/ (stockDay < DayBound /\ stockDay' = stockDay + 1)
  BY <1>3 DEF Stock!Next, Stock!StoreList, Stock!ReadTargets, Stock!StoreDetails,
     Stock!MarkDelisted, Stock!Stop, Stock!NextDay, stockVars
<1>4. DOMAIN stockRun = StockRunFields
  BY DEF MasterInv, MasterTypeOK
<1>5. ASSUME ~Stock!SyncUniverses PROVE DOMAIN stockRun' = StockRunFields
  <2>1. ASSUME NEW wanted \in Stock!Sources, NEW fallback \in BOOLEAN,
               Stock!StoreList(wanted, fallback)
        PROVE DOMAIN stockRun' = StockRunFields
    BY <1>4, <2>1 DEF Stock!StoreList, StockRunFields
  <2>2. CASE Stock!ReadTargets
    BY <1>4, <2>2 DEF Stock!ReadTargets
  <2>3. CASE Stock!StoreDetails
    BY <1>4, <2>3 DEF Stock!StoreDetails
  <2>4. CASE Stock!MarkDelisted
    BY <1>4, <2>4 DEF Stock!MarkDelisted
  <2>5. CASE Stock!Stop
    BY <2>5 DEF Stock!Stop, Stock!Idle, StockRunFields
  <2>6. CASE Stock!NextDay \/ UNCHANGED stockVars
    BY <1>4, <2>6 DEF Stock!NextDay, stockVars
  <2> QED
    BY <1>5, <2>1, <2>2, <2>3, <2>4, <2>5, <2>6 DEF Stock!Next
<1>6. ASSUME ~Stock!SyncUniverses PROVE MasterInv'
  BY <1>2, <1>3, <1>5, <1>6, MembersRest
<1>7. MasterInv' /\ \A r \in universeRows : r.to # Stock!Open => r \in universeRows'
  BY <1>1, <1>2, <1>6
<1>8. Stock!HistoryKept
  <2>1. Stock!Open' = Stock!Open
    BY DEF Stock!Open
  <2> QED
    BY <1>7, <2>1 DEF Stock!HistoryKept, MasterInv, RowsApart, Apart, RowsAnswered
<1>9. Stock!OnlyTushareRevives
  BY OnlyTushare
<1> QED
  BY <1>7, <1>8, <1>9 DEF Stock!MasterStep

-----------------------------------------------------------------------------
(* What selects a stock, and what a study of parameters concludes          *)

\* A rule and the facts of a stock, with any integers for thresholds and levels.
RuleTyped(i, r) ==
  /\ r = [signal |-> r.signal, opens |-> r.opens, enabled |-> r.enabled,
          accept |-> r.accept, allow |-> r.allow, minimum |-> r.minimum]
  /\ r.signal \in [Rules!RuleKeys(i) -> Int] /\ r.minimum \in Int
  /\ r.opens \in Nat \union {Rules!Missing}
FactsTyped(i, x) ==
  /\ x.num \in [Rules!Fields(i) -> Int] /\ x.score \in Int /\ x.opens \in Int

Comparisons == {"gte", "gt", "lte", "lt"}

\* A matcher compares with a parameter once.
LEMMA OneCondition ==
  ASSUME NEW i \in Rules!Implementations
  PROVE  /\ \A c \in Rules!Compared(i) : c.cmp \in Comparisons
         /\ \A c, d \in Rules!Compared(i) : c.key = d.key => c = d
<1> USE DEF Comparisons, Rules!Compared, Rules!Matcher, Rules!Rule, Rules!If, Rules!Change,
        Rules!ChangeMin, Rules!Volume, Rules!Amount, Rules!Position, Rules!Heat
<1>1. CASE i = "trend_breakout" BY <1>1 DEF Rules!TrendBreakout
<1>2. CASE i = "bullish_alignment" BY <1>2 DEF Rules!BullishAlignment
<1>3. CASE i = "ma_golden_cross" BY <1>3 DEF Rules!GoldenCross
<1>4. CASE i = "volume_price_surge" BY <1>4 DEF Rules!VolumePriceSurge
<1>5. CASE i = "high_turnover_surge" BY <1>5 DEF Rules!HighTurnover
<1>6. CASE i = "low_volatility_leader" BY <1>6 DEF Rules!LowVolatility
<1>7. CASE i = "pullback_ma20_bounce" BY <1>7 DEF Rules!PullbackBounce
<1>8. CASE i = "n_day_low_reversal" BY <1>8 DEF Rules!LowReversal
<1>9. CASE i = "theme_first_board_relay" BY <1>9 DEF Rules!FirstBoard
<1>10. CASE i = "consecutive_limit_up_relay" BY <1>10 DEF Rules!BoardRelay
<1>11. CASE i = "broken_board_recovery" BY <1>11 DEF Rules!BrokenBoard
<1> QED BY <1>1, <1>2, <1>3, <1>4, <1>5, <1>6, <1>7, <1>8, <1>9, <1>10, <1>11 DEF Rules!Implementations

\* What the study looks up of a parameter is the condition of the matcher.
LEMMA ConditionOf ==
  ASSUME NEW i \in Rules!Implementations
  PROVE  /\ \A c \in Rules!Compared(i) : /\ c.key \in Rules!RuleKeys(i) /\ c.field \in Rules!Fields(i)
                                         /\ Rules!Cmp(i, c.key) = c.cmp /\ Rules!Field(i, c.key) = c.field
         /\ \A k \in Rules!RuleKeys(i) : \E c \in Rules!Compared(i) : c.key = k
<1>1. ASSUME NEW c \in Rules!Compared(i)
      PROVE  (CHOOSE d \in Rules!Compared(i) : d.key = c.key) = c
  BY OneCondition
<1> QED
  BY <1>1 DEF Rules!RuleKeys, Rules!Fields, Rules!Cmp, Rules!Field

\* A study tightens parameters the matcher compares with.
LEMMA TunedKeys ==
  ASSUME NEW i \in Rules!Implementations, NEW k \in Rules!Tunable(i)
  PROVE  k \in Rules!RuleKeys(i)
<1>1. CASE i = "low_volatility_leader"
  <2>1. k \in {"volatility_20d_max", "change_min", "volume_ratio_min"}
    BY <1>1 DEF Rules!Tunable
  <2>2. {Rules!If("volatility_20d_max", "lte", "volatility"),
         Rules!If("change_min", "gte", "change"),
         Rules!If("volume_ratio_min", "gte", "volume_ratio")} \subseteq Rules!Compared(i)
    BY <1>1 DEF Rules!Compared, Rules!Matcher, Rules!Rule, Rules!LowVolatility, Rules!ChangeMin, Rules!Volume
  <2>3. k \in {c.key : c \in {Rules!If("volatility_20d_max", "lte", "volatility"),
                               Rules!If("change_min", "gte", "change"),
                               Rules!If("volume_ratio_min", "gte", "volume_ratio")}}
    BY <2>1 DEF Rules!If
  <2> QED
    BY <2>2, <2>3 DEF Rules!RuleKeys
<1>2. CASE i = "pullback_ma20_bounce"
  <2>1. k \in {"volume_ratio_min", "close_position_min"}
    BY <1>2 DEF Rules!Tunable
  <2>2. {Rules!If("volume_ratio_min", "gte", "volume_ratio"),
         Rules!If("close_position_min", "gte", "close_position")} \subseteq Rules!Compared(i)
    BY <1>2 DEF Rules!Compared, Rules!Matcher, Rules!Rule, Rules!PullbackBounce, Rules!Position, Rules!Volume
  <2>3. k \in {c.key : c \in {Rules!If("volume_ratio_min", "gte", "volume_ratio"),
                               Rules!If("close_position_min", "gte", "close_position")}}
    BY <2>1 DEF Rules!If
  <2> QED
    BY <2>2, <2>3 DEF Rules!RuleKeys
<1>3. CASE i = "n_day_low_reversal"
  <2>1. k \in {"change_min", "volume_ratio_min", "close_position_min"}
    BY <1>3 DEF Rules!Tunable
  <2>2. {Rules!If("change_min", "gte", "change"),
         Rules!If("volume_ratio_min", "gte", "volume_ratio"),
         Rules!If("close_position_min", "gte", "close_position")} \subseteq Rules!Compared(i)
    BY <1>3 DEF Rules!Compared, Rules!Matcher, Rules!Rule, Rules!LowReversal,
           Rules!ChangeMin, Rules!Position, Rules!Volume
  <2>3. k \in {c.key : c \in {Rules!If("change_min", "gte", "change"),
                               Rules!If("volume_ratio_min", "gte", "volume_ratio"),
                               Rules!If("close_position_min", "gte", "close_position")}}
    BY <2>1 DEF Rules!If
  <2> QED
    BY <2>2, <2>3 DEF Rules!RuleKeys
<1>4. CASE i = "consecutive_limit_up_relay"
  <2>1. k \in {"max_heat_rank"}
    BY <1>4 DEF Rules!Tunable
  <2>2. {Rules!If("max_heat_rank", "lte", "heat_rank")} \subseteq Rules!Compared(i)
    BY <1>4 DEF Rules!Compared, Rules!Matcher, Rules!Rule, Rules!BoardRelay, Rules!Heat
  <2>3. k \in {c.key : c \in {Rules!If("max_heat_rank", "lte", "heat_rank")}}
    BY <2>1 DEF Rules!If
  <2> QED
    BY <2>2, <2>3 DEF Rules!RuleKeys
<1>5. CASE i \notin {"low_volatility_leader", "pullback_ma20_bounce", "n_day_low_reversal",
                    "consecutive_limit_up_relay"}
  BY <1>5 DEF Rules!Tunable
<1> QED BY <1>1, <1>2, <1>3, <1>4, <1>5

\* What meets a threshold meets a looser one.
LEMMA MeetsLooser ==
  ASSUME NEW cmp \in Comparisons, NEW v \in Int, NEW a \in Int, NEW b \in Int,
         Rules!Meets(cmp, v, a), IF cmp \in {"gte", "gt"} THEN a >= b ELSE a =< b
  PROVE  Rules!Meets(cmp, v, b)
<1>1. CASE cmp = "gte" BY <1>1 DEF Rules!Meets
<1>2. CASE cmp = "gt" BY <1>2 DEF Rules!Meets
<1>3. CASE cmp = "lte" BY <1>3 DEF Rules!Meets
<1>4. CASE cmp = "lt" BY <1>4 DEF Rules!Meets
<1> QED BY <1>1, <1>2, <1>3, <1>4 DEF Comparisons

\* The prefilter asks for nothing that the matcher does not.
LEMMA PrefilterAsksLess ==
  ASSUME NEW i \in Rules!Implementations
  PROVE  Rules!PrefilterHolds(i) \subseteq Rules!Matcher[i].holds
<1>3. CASE i = "ma_golden_cross" BY <1>3 DEF Rules!GoldenCross, Rules!Matcher, Rules!Rule, Rules!PrefilterHolds, Rules!Relays
<1>9. CASE i = "theme_first_board_relay" BY <1>9 DEF Rules!FirstBoard, Rules!Matcher, Rules!Rule, Rules!PrefilterHolds, Rules!Relays
<1>10. CASE i = "consecutive_limit_up_relay" BY <1>10 DEF Rules!BoardRelay, Rules!Matcher, Rules!Rule, Rules!PrefilterHolds, Rules!Relays
<1> QED BY <1>3, <1>9, <1>10 DEF Rules!PrefilterHolds, Rules!Relays

\* For every integer threshold and level: a version none of whose parameters is looser than
\* the registry loses no candidate to the SQL prefilter (_backtest_prefilter_conditions
\* against evaluate_daily_candidate).
THEOREM StricterKept ==
  ASSUME NEW i \in Rules!Implementations, NEW r, RuleTyped(i, r), NEW x, FactsTyped(i, x),
         \A k \in Rules!RuleKeys(i) : Rules!StricterThan(Rules!Cmp(i, k), r.signal[k]),
         Rules!Selected(i, x, r)
  PROVE  Rules!Prefiltered(i, x)
<1>1. Rules!PrefilterHolds(i) \subseteq x.holds
  BY PrefilterAsksLess DEF Rules!Selected, Rules!Matches
<1>2. ASSUME NEW c \in Rules!PrefilterCompared(i)
      PROVE  /\ x.num[c.field] # Rules!Missing
             /\ Rules!Meets(c.cmp, x.num[c.field], Rules!Default(c.cmp))
  <2>1. c \in Rules!Compared(i)
    BY <1>2 DEF Rules!PrefilterCompared
  <2>2. /\ x.num[c.field] # Rules!Missing
        /\ Rules!Meets(c.cmp, x.num[c.field], r.signal[c.key])
    BY <2>1 DEF Rules!Selected, Rules!Matches
  <2>3. /\ c.cmp \in Comparisons /\ Rules!StricterThan(c.cmp, r.signal[c.key])
        /\ x.num[c.field] \in Int /\ r.signal[c.key] \in Int
    BY <2>1, OneCondition, ConditionOf DEF RuleTyped, FactsTyped
  <2> QED
    BY <2>2, <2>3, MeetsLooser DEF Rules!StricterThan, Rules!Default
<1> QED
  BY <1>1, <1>2 DEF Rules!Prefiltered

\* A trial is at least as strict as its baseline in every parameter it sets.
LEMMA TrialsTighten ==
  ASSUME NEW i \in Rules!Implementations, NEW r, RuleTyped(i, r), NEW p \in Rules!Patches(i, r)
  PROVE  /\ \A k \in Rules!Tunable(i) :
              /\ p.signal[k] \in Int
              /\ IF Rules!Cmp(i, k) \in {"gte", "gt"} THEN p.signal[k] >= r.signal[k]
                 ELSE p.signal[k] =< r.signal[k]
         /\ Rules!TunesGate(i) => p.minimum \in Int /\ p.minimum >= r.minimum
         /\ Rules!TunesOpens(i) => /\ p.opens \in Int
                                   /\ IF r.opens = Rules!Missing THEN p.opens >= 1
                                      ELSE p.opens >= r.opens
<1>1. ASSUME NEW cmp, NEW b \in Int, NEW v \in Rules!Candidates(cmp, b)
      PROVE  v \in Int /\ (IF cmp = "gte" THEN v >= b ELSE v =< b)
  BY <1>1 DEF Rules!Candidates, Rules!Default, Rules!Strict
<1>2. /\ \A k \in Rules!Tunable(i) : p.signal[k] \in Rules!ValuesOf(i, r, k)
      /\ p.minimum \in IF Rules!TunesGate(i) THEN Rules!Candidates("gte", r.minimum) ELSE {Rules!Missing}
      /\ p.opens \in IF Rules!TunesOpens(i)
                     THEN Rules!Candidates("gte", IF r.opens = Rules!Missing THEN 1 ELSE r.opens)
                     ELSE {Rules!Missing}
  BY DEF Rules!Patches
<1>3. ASSUME NEW k \in Rules!Tunable(i)
      PROVE  /\ p.signal[k] \in Int
             /\ IF Rules!Cmp(i, k) \in {"gte", "gt"} THEN p.signal[k] >= r.signal[k]
                ELSE p.signal[k] =< r.signal[k]
  <2>1. r.signal[k] \in Int /\ p.signal[k] \in Rules!Candidates(Rules!StudyCmp(i, k), r.signal[k])
    BY <1>2, TunedKeys DEF RuleTyped, Rules!ValuesOf
  <2>2. \E c \in Comparisons : Rules!Cmp(i, k) = c
    BY TunedKeys, OneCondition, ConditionOf
  <2> QED
    BY <2>1, <2>2, <1>1 DEF Rules!StudyCmp, Comparisons
<1>4. Rules!TunesGate(i) => p.minimum \in Int /\ p.minimum >= r.minimum
  BY <1>1, <1>2 DEF RuleTyped
<1>5. Rules!TunesOpens(i) => /\ p.opens \in Int
                             /\ IF r.opens = Rules!Missing THEN p.opens >= 1
                                ELSE p.opens >= r.opens
  <2>1. (IF r.opens = Rules!Missing THEN 1 ELSE r.opens) \in Int
    BY DEF RuleTyped, Rules!Missing
  <2> QED
    BY <1>1, <1>2, <2>1
<1> QED
  BY <1>3, <1>4, <1>5

\* The version made of a trial.
IsPatch(i, r, p, n) ==
  /\ \A k \in Rules!RuleKeys(i) :
       n.signal[k] = IF k \in Rules!Tunable(i) THEN p.signal[k] ELSE r.signal[k]
  /\ n.minimum = IF Rules!TunesGate(i) THEN p.minimum ELSE r.minimum
  /\ n.opens = IF Rules!TunesOpens(i) THEN p.opens ELSE r.opens
  /\ n.enabled = r.enabled /\ n.accept = r.accept /\ n.allow = r.allow

LEMMA PatchedFields ==
  ASSUME NEW i \in Rules!Implementations, NEW r, RuleTyped(i, r), NEW p,
         NEW n, n = Rules!Patched(i, r, p)
  PROVE  IsPatch(i, r, p, n)
<1>1. r = [signal |-> r.signal, opens |-> r.opens, enabled |-> r.enabled,
          accept |-> r.accept, allow |-> r.allow, minimum |-> r.minimum]
  BY DEF RuleTyped
<1> QED
  BY <1>1 DEF Rules!Patched, IsPatch

\* For every integer threshold and level: a version a study proposes selects nothing that its
\* baseline does not (_version_parameter_specs, _parameter_patches).
THEOREM TrialsInventNothing ==
  ASSUME NEW i \in Rules!Implementations, NEW r, RuleTyped(i, r), NEW x, FactsTyped(i, x),
         NEW p \in Rules!Patches(i, r), Rules!Selected(i, x, Rules!Patched(i, r, p))
  PROVE  Rules!Selected(i, x, r)
<1>0. PICK n : n = Rules!Patched(i, r, p)
  OBVIOUS
<1>1. IsPatch(i, r, p, n)
  BY <1>0, PatchedFields
<1>2. Rules!GatePasses(x, n) /\ Rules!Matches(i, x, n)
  BY <1>0 DEF Rules!Selected
<1>3. Rules!GatePasses(x, r)
  <2>1. n.minimum \in Int /\ r.minimum \in Int /\ n.minimum >= r.minimum
    BY <1>1, TrialsTighten DEF RuleTyped, IsPatch
  <2> QED
    BY <1>1, <1>2, <2>1 DEF Rules!GatePasses, Rules!UsableScore, FactsTyped, IsPatch
<1>4. ASSUME NEW c \in Rules!Compared(i)
      PROVE  x.num[c.field] # Rules!Missing /\ Rules!Meets(c.cmp, x.num[c.field], r.signal[c.key])
  <2>1. x.num[c.field] # Rules!Missing /\ Rules!Meets(c.cmp, x.num[c.field], n.signal[c.key])
    BY <1>2 DEF Rules!Matches
  <2>2. /\ c.key \in Rules!RuleKeys(i) /\ Rules!Cmp(i, c.key) = c.cmp /\ c.cmp \in Comparisons
        /\ x.num[c.field] \in Int /\ r.signal[c.key] \in Int
    BY OneCondition, ConditionOf DEF RuleTyped, FactsTyped
  <2>3. CASE c.key \notin Rules!Tunable(i)
    BY <1>1, <2>1, <2>2, <2>3 DEF IsPatch
  <2>4. CASE c.key \in Rules!Tunable(i)
    <3>1. /\ n.signal[c.key] = p.signal[c.key] /\ p.signal[c.key] \in Int
          /\ IF c.cmp \in {"gte", "gt"} THEN p.signal[c.key] >= r.signal[c.key]
             ELSE p.signal[c.key] =< r.signal[c.key]
      BY <1>1, <2>2, <2>4, TrialsTighten DEF IsPatch
    <3> QED
      BY <2>1, <2>2, <3>1, MeetsLooser
  <2> QED
    BY <2>3, <2>4
<1>5. Rules!Natural(i, x, r)
  <2>1. Rules!Natural(i, x, n)
    BY <1>2 DEF Rules!Matches
  <2>2. CASE ~Rules!TunesOpens(i)
    BY <1>1, <2>1, <2>2 DEF Rules!Natural, IsPatch
  <2>3. CASE Rules!TunesOpens(i)
    <3>1. /\ n.opens = p.opens /\ p.opens \in Int /\ r.opens \in Nat \union {Rules!Missing}
          /\ IF r.opens = Rules!Missing THEN p.opens >= 1 ELSE p.opens >= r.opens
      BY <1>1, <2>3, TrialsTighten DEF RuleTyped, IsPatch
    <3>2. x.opens \in Int /\ i = "theme_first_board_relay"
      BY <2>3 DEF FactsTyped, Rules!TunesOpens
    <3> QED
      BY <2>1, <3>1, <3>2 DEF Rules!Natural, Rules!Relays, Rules!Missing
  <2> QED
    BY <2>2, <2>3
<1> QED
  BY <1>2, <1>3, <1>4, <1>5 DEF Rules!Selected, Rules!Matches

\* For every integer threshold and level: where the study compares as the matcher does, a trial
\* replayed over a candidate of the baseline decides as a fresh backtest of the version made of
\* it (_trial_matches against evaluate_daily_candidate).
THEOREM ReplayDecides ==
  ASSUME NEW i \in Rules!Implementations, NEW r, RuleTyped(i, r), NEW x, FactsTyped(i, x),
         NEW p \in Rules!Patches(i, r), Rules!Selected(i, x, r),
         \A k \in Rules!Tunable(i) : Rules!Cmp(i, k) = Rules!StudyCmp(i, k),
         r.enabled, x.score # Rules!Missing, ~Rules!TunesOpens(i)
  PROVE  Rules!TrialMatches(i, x, r, p) <=> Rules!Selected(i, x, Rules!Patched(i, r, p))
<1>0. PICK n : n = Rules!Patched(i, r, p)
  OBVIOUS
<1>1. IsPatch(i, r, p, n)
  BY <1>0, PatchedFields
<1>2. Rules!GatePasses(x, r) /\ Rules!Matches(i, x, r)
  BY DEF Rules!Selected
<1>3. Rules!GatePasses(x, n)
        <=> (Rules!TunesGate(i) /\ Rules!TrialScore(x, r) => x.score # Rules!Missing /\ x.score >= p.minimum)
  BY <1>1, <1>2 DEF Rules!GatePasses, Rules!UsableScore, Rules!TrialScore, IsPatch
<1>4. Rules!Natural(i, x, n)
  BY <1>1, <1>2 DEF Rules!Matches, Rules!Natural, IsPatch
<1>5. (\A c \in Rules!Compared(i) : x.num[c.field] # Rules!Missing
                                   /\ Rules!Meets(c.cmp, x.num[c.field], n.signal[c.key]))
       <=> (\A k \in Rules!Tunable(i) :
               x.num[Rules!Field(i, k)] # Rules!Missing
               /\ Rules!Meets(Rules!StudyCmp(i, k), x.num[Rules!Field(i, k)], p.signal[k]))
  <2>1. ASSUME \A c \in Rules!Compared(i) : x.num[c.field] # Rules!Missing
                                   /\ Rules!Meets(c.cmp, x.num[c.field], n.signal[c.key]),
               NEW k \in Rules!Tunable(i)
        PROVE  x.num[Rules!Field(i, k)] # Rules!Missing
               /\ Rules!Meets(Rules!StudyCmp(i, k), x.num[Rules!Field(i, k)], p.signal[k])
    <3>1. PICK c \in Rules!Compared(i) : c.key = k
      BY ConditionOf, TunedKeys
    <3>2. /\ Rules!Field(i, k) = c.field /\ Rules!StudyCmp(i, k) = c.cmp /\ k \in Rules!RuleKeys(i)
      BY <3>1, ConditionOf, TunedKeys
    <3> QED
      BY <1>1, <2>1, <3>1, <3>2 DEF IsPatch
  <2>2. ASSUME NEW c \in Rules!Compared(i),
               \A k \in Rules!Tunable(i) :
               x.num[Rules!Field(i, k)] # Rules!Missing
               /\ Rules!Meets(Rules!StudyCmp(i, k), x.num[Rules!Field(i, k)], p.signal[k])
        PROVE  x.num[c.field] # Rules!Missing /\ Rules!Meets(c.cmp, x.num[c.field], n.signal[c.key])
    <3>1. /\ c.key \in Rules!RuleKeys(i) /\ Rules!Cmp(i, c.key) = c.cmp
          /\ Rules!Field(i, c.key) = c.field
      BY ConditionOf
    <3>2. CASE c.key \in Rules!Tunable(i)
      BY <1>1, <2>2, <3>1, <3>2 DEF IsPatch
    <3>3. CASE c.key \notin Rules!Tunable(i)
      BY <1>1, <1>2, <3>1, <3>3 DEF Rules!Matches, IsPatch
    <3> QED
      BY <3>2, <3>3
  <2> QED
    BY <2>1, <2>2
<1>6. Rules!Selected(i, x, n) <=> Rules!TrialMatches(i, x, r, p)
  BY <1>2, <1>3, <1>4, <1>5 DEF Rules!Selected, Rules!Matches, Rules!TrialMatches
<1> QED
  BY <1>0, <1>6

\* What a version and the facts it is evaluated on are, whatever its thresholds.
RulesInv ==
  part = "rules" =>
    /\ ruleImpl \in Rules!Implementations
    /\ RuleTyped(ruleImpl, ruleConfig) /\ FactsTyped(ruleImpl, ruleFacts)
    /\ ruleTrials = Rules!Patches(ruleImpl, ruleConfig)

LEMMA ConfigsTyped ==
  ASSUME NEW i \in Rules!Implementations, NEW r \in Rules!RuleConfigs(i)
  PROVE  RuleTyped(i, r)
<1> DEFINE d == Rules!DefaultRule(i)
<1>1. d = [signal |-> d.signal, opens |-> -1, enabled |-> TRUE, accept |-> FALSE,
           allow |-> TRUE, minimum |-> 1]
  BY DEF Rules!DefaultRule, Rules!Missing
<1>2. d.signal \in [Rules!RuleKeys(i) -> Int]
  BY DEF Rules!DefaultRule, Rules!Default
<1> HIDE DEF d
<1>3. \/ r = d
      \/ \E k \in Rules!RuleKeys(i), v \in {0, 2, 4} : r = [d EXCEPT !.signal[k] = v]
      \/ \E v \in {0, 2} : r = [d EXCEPT !.minimum = v]
      \/ r = [d EXCEPT !.enabled = FALSE] \/ r = [d EXCEPT !.accept = TRUE]
      \/ r = [d EXCEPT !.allow = FALSE]
      \/ \E v \in {1, 2} : r = [d EXCEPT !.opens = v]
  BY DEF Rules!RuleConfigs, d
<1>4. ASSUME NEW k \in Rules!RuleKeys(i), NEW v \in {0, 2, 4}, r = [d EXCEPT !.signal[k] = v]
      PROVE  RuleTyped(i, r)
  <2>1. r = [d EXCEPT !.signal = [d.signal EXCEPT ![k] = v]]
    BY <1>1, <1>4
  <2>2. [d.signal EXCEPT ![k] = v] \in [Rules!RuleKeys(i) -> Int]
    BY <1>2
  <2>3. r.signal = [d.signal EXCEPT ![k] = v] /\ r.opens = -1 /\ r.minimum = 1
        /\ r.enabled = TRUE /\ r.accept = FALSE /\ r.allow = TRUE
    BY <1>1, <2>1
  <2>4. r = [signal |-> r.signal, opens |-> r.opens, enabled |-> r.enabled,
             accept |-> r.accept, allow |-> r.allow, minimum |-> r.minimum]
    BY <1>1, <2>1
  <2> QED
    BY <2>2, <2>3, <2>4 DEF RuleTyped, Rules!Missing
<1>5. ASSUME ~\E k \in Rules!RuleKeys(i), v \in {0, 2, 4} : r = [d EXCEPT !.signal[k] = v]
      PROVE  RuleTyped(i, r)
  <2>1. r.signal = d.signal /\ r.opens \in Nat \union {-1} /\ r.minimum \in Int
    BY <1>1, <1>3, <1>5
  <2>2. r = [signal |-> r.signal, opens |-> r.opens, enabled |-> r.enabled,
             accept |-> r.accept, allow |-> r.allow, minimum |-> r.minimum]
    BY <1>1, <1>3, <1>5
  <2> QED
    BY <1>2, <2>1, <2>2 DEF RuleTyped, Rules!Missing
<1> QED
  BY <1>4, <1>5

LEMMA PerfectTyped ==
  ASSUME NEW i PROVE FactsTyped(i, Rules!Perfect(i))
BY DEF FactsTyped, Rules!Perfect, Rules!Middle

\* A record of facts, its fields and their types.
IsFacts(i, x) ==
  /\ x = [num |-> x.num, holds |-> x.holds, opens |-> x.opens, status |-> x.status,
          blocked |-> x.blocked, score |-> x.score]
  /\ FactsTyped(i, x)

LEMMA PerfectIsFacts == ASSUME NEW i PROVE IsFacts(i, Rules!Perfect(i))
BY DEF IsFacts, FactsTyped, Rules!Perfect, Rules!Middle

LEMMA DeviateTyped ==
  ASSUME NEW i, NEW x, IsFacts(i, x), NEW y \in Rules!Deviate(x)
  PROVE  IsFacts(i, y)
<1>1. /\ x = [num |-> x.num, holds |-> x.holds, opens |-> x.opens, status |-> x.status,
              blocked |-> x.blocked, score |-> x.score]
      /\ x.num \in [Rules!Fields(i) -> Int] /\ x.score \in Int /\ x.opens \in Int
  BY DEF IsFacts, FactsTyped
<1>2. \A v \in {Rules!Missing} \union Rules!Scale : v \in Int
  BY DEF Rules!Missing, Rules!Scale
<1>3. \/ \E f \in DOMAIN x.num, v \in {Rules!Missing} \union Rules!Scale : y = [x EXCEPT !.num[f] = v]
      \/ \E h \in x.holds : y = [x EXCEPT !.holds = @ \ {h}]
      \/ \E v \in {Rules!Missing, 0, 1} : y = [x EXCEPT !.opens = v]
      \/ \E v \in {"degraded", "unavailable"} : y = [x EXCEPT !.status = v]
      \/ y = [x EXCEPT !.blocked = TRUE]
      \/ \E v \in {Rules!Missing} \union Rules!Scale : y = [x EXCEPT !.score = v]
  BY DEF Rules!Deviate
<1>4. ASSUME NEW f \in DOMAIN x.num, NEW v \in {Rules!Missing} \union Rules!Scale,
             y = [x EXCEPT !.num[f] = v]
      PROVE  IsFacts(i, y)
  <2>1. y = [x EXCEPT !.num = [x.num EXCEPT ![f] = v]]
    BY <1>1, <1>4
  <2>2. [x.num EXCEPT ![f] = v] \in [Rules!Fields(i) -> Int]
    BY <1>1, <1>2
  <2>3. y.num = [x.num EXCEPT ![f] = v] /\ y.score = x.score /\ y.opens = x.opens
    BY <1>1, <2>1
  <2>4. y = [num |-> y.num, holds |-> y.holds, opens |-> y.opens, status |-> y.status,
             blocked |-> y.blocked, score |-> y.score]
    BY <1>1, <2>1
  <2> QED
    BY <1>1, <2>2, <2>3, <2>4 DEF IsFacts, FactsTyped
<1>5. ASSUME ~\E f \in DOMAIN x.num, v \in {Rules!Missing} \union Rules!Scale : y = [x EXCEPT !.num[f] = v]
      PROVE  IsFacts(i, y)
  <2>1. y.num = x.num /\ y.score \in Int /\ y.opens \in Int
    BY <1>1, <1>2, <1>3, <1>5 DEF Rules!Missing
  <2>2. y = [num |-> y.num, holds |-> y.holds, opens |-> y.opens, status |-> y.status,
             blocked |-> y.blocked, score |-> y.score]
    BY <1>1, <1>3, <1>5
  <2> QED
    BY <1>1, <2>1, <2>2 DEF IsFacts, FactsTyped
<1> QED
  BY <1>4, <1>5

LEMMA DoubtfulTyped ==
  ASSUME NEW i, NEW x, IsFacts(i, x), NEW y \in Rules!Doubtful(x)
  PROVE  IsFacts(i, y)
<1>1. /\ x = [num |-> x.num, holds |-> x.holds, opens |-> x.opens, status |-> x.status,
              blocked |-> x.blocked, score |-> x.score]
      /\ x.num \in [Rules!Fields(i) -> Int] /\ x.score \in Int /\ x.opens \in Int
  BY DEF IsFacts, FactsTyped
<1>2. \/ \E v \in {"degraded", "unavailable"} : y = [x EXCEPT !.status = v]
      \/ \E v \in {Rules!Missing, 0, 1} : y = [x EXCEPT !.score = v]
  BY DEF Rules!Doubtful
<1>3. y.num = x.num /\ y.score \in Int /\ y.opens \in Int
  BY <1>1, <1>2 DEF Rules!Missing
<1>4. y = [num |-> y.num, holds |-> y.holds, opens |-> y.opens, status |-> y.status,
           blocked |-> y.blocked, score |-> y.score]
  BY <1>1, <1>2
<1> QED
  BY <1>1, <1>3, <1>4 DEF IsFacts, FactsTyped

\* What a version is evaluated on has integer levels.
LEMMA StocksTyped ==
  ASSUME NEW i, NEW x \in Rules!Stocks(i)
  PROVE  FactsTyped(i, x)
<1>1. \/ x = Rules!Perfect(i) \/ x \in Rules!Deviate(Rules!Perfect(i))
      \/ \E y \in Rules!Deviate(Rules!Perfect(i)) : x \in Rules!Doubtful(y)
  BY DEF Rules!Stocks
<1>2. IsFacts(i, x)
  BY <1>1, PerfectIsFacts, DeviateTyped, DoubtfulTyped
<1> QED
  BY <1>2 DEF IsFacts

LEMMA RulesStart == PartInit => RulesInv
BY ConfigsTyped, PerfectTyped DEF PartInit, RulesInv, Rules!Init

LEMMA RulesSteps == RulesInv /\ [PartNext]_allVars => RulesInv'
<1> SUFFICES ASSUME RulesInv, [PartNext]_allVars, part' = "rules" PROVE RulesInv'
  BY DEF RulesInv
<1>1. part' = part
  BY DEF PartNext, allVars
<1>2. CASE UNCHANGED <<ruleImpl, ruleConfig, ruleFacts, ruleTrials>>
  <2>1. /\ RuleTyped(ruleImpl', ruleConfig') <=> RuleTyped(ruleImpl, ruleConfig)
        /\ FactsTyped(ruleImpl', ruleFacts') <=> FactsTyped(ruleImpl, ruleFacts)
        /\ Rules!Patches(ruleImpl', ruleConfig') = Rules!Patches(ruleImpl, ruleConfig)
    BY <1>2
  <2> QED
    BY <1>1, <1>2, <2>1 DEF RulesInv
<1>3. CASE Rules!Next
  <2>1. PICK x \in Rules!Stocks(ruleImpl) : Rules!Evaluate(x)
    BY <1>3 DEF Rules!Next
  <2>2. ruleImpl' = ruleImpl /\ ruleConfig' = ruleConfig /\ ruleTrials' = ruleTrials /\ ruleFacts' = x
    BY <2>1 DEF Rules!Evaluate
  <2>3. FactsTyped(ruleImpl, x)
    BY StocksTyped
  <2> QED
    BY <1>1, <2>2, <2>3 DEF RulesInv
<1>4. [Rules!Next]_ruleVars
  BY DEF PartNext, OfCatalogs, catalogVars, allVars
<1> QED
  BY <1>2, <1>3, <1>4 DEF ruleVars

\* In every state of a study: no candidate of a stricter version is lost to the prefilter, no
\* trial invents one, and a replayed trial decides as a fresh backtest (StrategyRules).
THEOREM StudiesAreSound == PartSpec => []StudySound
<1>1. RulesInv => StudySound
  <2> SUFFICES ASSUME RulesInv, part = "rules"
               PROVE  Rules!StricterNotLost /\ Rules!TrialsOnlyRemove /\ Rules!ReplayIsFresh
    BY DEF StudySound
  <2>1. /\ ruleImpl \in Rules!Implementations
        /\ RuleTyped(ruleImpl, ruleConfig) /\ FactsTyped(ruleImpl, ruleFacts)
        /\ ruleTrials = Rules!Patches(ruleImpl, ruleConfig)
    BY DEF RulesInv
  <2>2. Rules!StricterNotLost
    BY <2>1, StricterKept DEF Rules!StricterNotLost
  <2>3. Rules!TrialsOnlyRemove
    BY <2>1, TrialsInventNothing DEF Rules!TrialsOnlyRemove
  <2>4. Rules!ReplayIsFresh
    BY <2>1, ReplayDecides DEF Rules!ReplayIsFresh
  <2> QED
    BY <2>2, <2>3, <2>4
<1> QED
  BY <1>1, RulesStart, RulesSteps, PTL DEF PartSpec

-----------------------------------------------------------------------------
(* The backfills and the catalogs together                                 *)

\* Whatever earlier runs lost: a stock run that ends without a failure leaves every row the
\* provider has, the last run of indexes, sectors or flows every row of its tables, and a stock
\* factor run that no straggler is beside has the percentiles of every date over exactly the
\* rows stored, with those it started from (StockDailyBackfillService, _HistoryBase and
\* FactorBackfillService).
THEOREM BackfillsAreResumed == PartSpec => []BackfillsResume
<1> DEFINE Inv == HistoryInv /\ EntityInv /\ FactorInv
<1>1. PartInit => Inv
  BY HistoryStarts, EntityStarts, FactorStarts DEF PartInit
<1>2. Inv /\ [PartNext]_allVars => Inv'
  <2> SUFFICES ASSUME Inv, [PartNext]_allVars PROVE Inv'
    OBVIOUS
  <2>1. /\ [History!Next]_historyVars /\ [Entity!Next]_entityVars /\ [Factor!Next]_factorVars
    BY DEF PartNext, OfBackfills, backfillVars, allVars
  <2> QED
    BY <2>1, HistorySteps, EntitySteps, FactorSteps
<1>3. Inv => BackfillsResume
  BY HistoryComplete, EntityComplete, FactorComplete DEF BackfillsResume
<1> HIDE DEF Inv
<1> QED
  BY <1>1, <1>2, <1>3, PTL DEF PartSpec

\* In every step: a sector loses stored stocks only to an answer of its own source that has
\* stocks and not those; an index is replaced by stocks, and by all of them when Tushare
\* answers; a stock that was not traded is traded again only by a list of Tushare; a closed
\* membership row stays, no day counts a member twice and no open row is of a stock the last
\* answer left out (sync_sector_catalog, sync_index_catalog, sync_stock_basic and
\* _sync_tickflow_universes).
THEOREM CatalogsAreKept == PartSpec => CatalogsKept
<1> DEFINE Inv == SectorInv /\ MasterInv
<1>1. PartInit => Inv
  BY SectorStarts, MasterStarts DEF PartInit
<1>2. Inv /\ [PartNext]_allVars => Inv' /\ Sector!CatalogStep /\ Stock!MasterStep
  <2> SUFFICES ASSUME Inv, [PartNext]_allVars
               PROVE Inv' /\ Sector!CatalogStep /\ Stock!MasterStep
    OBVIOUS
  <2>1. [Sector!Next]_sectorVars /\ [Stock!Next]_stockVars
    BY DEF PartNext, OfCatalogs, catalogVars, allVars
  <2> QED
    BY <2>1, SectorSteps, MasterSteps
<1> HIDE DEF Inv
<1>3. Inv /\ [PartNext]_allVars => [Sector!CatalogStep /\ Stock!MasterStep]_allVars
  BY <1>2
<1> QED
  BY <1>1, <1>2, <1>3, PTL DEF PartSpec, CatalogsKept
=============================================================================
