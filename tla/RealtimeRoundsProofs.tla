------------------------ MODULE RealtimeRoundsProofs ------------------------
(* What the leader lease guarantees, proved for any number of instances, keys, *)
(* answers and failures: who is granted it, who spends provider quota, and     *)
(* what a lease that never ran out on a live owner gives the shared snapshot   *)
(* and the shared timeline.                                                    *)
EXTENDS RealtimeRounds, TLAPS

USE RoundsAssumption

StepsOf(c) == IF c = "round" THEN RoundSteps ELSE RequestSteps
Reads == [key : Keys, value : Answers, line : SUBSET Answers]

(* ------------------------------- types ------------------------------------ *)

LEMMA Moves ==
  ASSUME TypeOK, NEW p \in Procs, NEW c \in Tasks, NEW step \in StepsOf(c),
         GoesTo(p, c, step)
  PROVE  /\ at' \in [Procs -> [Tasks -> RoundSteps \union RequestSteps]]
         /\ \A q \in Procs : at'[q]["round"] \in RoundSteps /\ at'[q]["request"] \in RequestSteps
         /\ at'[p][c] = step
         /\ \A q \in Procs, d \in Tasks : q # p \/ d # c => at'[q][d] = at[q][d]
<1>1. /\ at \in [Procs -> [Tasks -> RoundSteps \union RequestSteps]]
      /\ \A q \in Procs : at[q]["round"] \in RoundSteps /\ at[q]["request"] \in RequestSteps
      /\ at' = [at EXCEPT ![p] = [at[p] EXCEPT ![c] = step]]
  BY DEF TypeOK, GoesTo
<1>2. step \in RoundSteps \union RequestSteps
  BY DEF StepsOf
<1>3. /\ at' \in [Procs -> [Tasks -> RoundSteps \union RequestSteps]]
      /\ at'[p][c] = step
      /\ \A q \in Procs, d \in Tasks : q # p \/ d # c => at'[q][d] = at[q][d]
  BY <1>1, <1>2
<1>4. ASSUME NEW q \in Procs
      PROVE  at'[q]["round"] \in RoundSteps /\ at'[q]["request"] \in RequestSteps
  BY <1>1, <1>3 DEF StepsOf, Tasks
<1> QED BY <1>3, <1>4

\* One task's record of what it read is replaced.
Reread(p, c, r) == hyd' = [hyd EXCEPT ![p][c] = r]
OneRead(p, c, r) ==
  /\ hyd' \in [Procs -> [Tasks -> Reads]]
  /\ hyd'[p][c] = r
  /\ \A q \in Procs, d \in Tasks : q # p \/ d # c => hyd'[q][d] = hyd[q][d]

LEMMA ReadsType ==
  ASSUME TypeOK, NEW p \in Procs, NEW c \in Tasks, NEW r \in Reads, Reread(p, c, r)
  PROVE  OneRead(p, c, r)
<1>1. hyd \in [Procs -> [Tasks -> Reads]]
  BY DEF TypeOK, Reads
<1> QED BY <1>1 DEF Reread, OneRead

LEMMA KeyType ==
  /\ 1 \in Keys
  /\ \A k \in Keys : k # KeyCount => k + 1 \in Keys
  /\ \A k \in Keys : Read(k) \in Reads
BY DEF Keys, Read, Reads, Answers

LEMMA InitType == Init => TypeOK
BY KeyType DEF Init, TypeOK, Parked, NoHyd, Reads, NoSnap, NoRef, Answers, Tasks,
               RoundSteps, RequestSteps, BlockSteps

LEMMA NextKeyType ==
  ASSUME TypeOK, NEW p \in Procs, NEW c \in Tasks, NextKey(p, c)
  PROVE  /\ \E step \in {"idle", "read"} : GoesTo(p, c, step)
         /\ hyd' \in [Procs -> [Tasks -> Reads]]
         /\ \A q \in Procs, d \in Tasks : q # p \/ d # c => hyd'[q][d] = hyd[q][d]
         /\ hyd'[p][c].value = 0
<1> DEFINE k == hyd[p][c].key
<1>1. k \in Keys
  BY DEF TypeOK
<1>2. \E j \in Keys : hyd' = [hyd EXCEPT ![p][c] = Read(j)]
  BY <1>1, KeyType DEF NextKey
<1> HIDE DEF k
<1>3. PICK r \in Reads : r.value = 0 /\ Reread(p, c, r)
  <2>1. \A j \in Keys : Read(j) \in Reads /\ Read(j).value = 0
    BY KeyType DEF Read
  <2> QED BY <1>2, <2>1 DEF Reread
<1>4. OneRead(p, c, r)
  BY <1>3, ReadsType
<1>5. \E step \in {"idle", "read"} : GoesTo(p, c, step)
  BY DEF NextKey
<1> QED BY <1>3, <1>4, <1>5 DEF OneRead

LEMMA GrantedType ==
  ASSUME TypeOK, NEW p \in Procs, NEW c \in Tasks, Granted(p, c)
  PROVE  /\ active' \in [Procs -> BOOLEAN] /\ lapsed' \in [Procs -> BOOLEAN]
         /\ \A q \in Procs \ {p} : active'[q] = active[q] /\ lapsed'[q] = lapsed[q]
         /\ lapsed'[p] => lapsed[p]
         /\ GoesTo(p, c, IF c = "round" THEN "reference" ELSE "ask")
         /\ (IF c = "round" THEN "reference" ELSE "ask") \in StepsOf(c)
         /\ hyd' = hyd
BY DEF TypeOK, Granted, StepsOf, RoundSteps, RequestSteps

LEMMA RefusedType ==
  ASSUME TypeOK, NEW p \in Procs, NEW c \in Tasks, Refused(p, c)
  PROVE  /\ active' \in [Procs -> BOOLEAN] /\ ~active'[p]
         /\ \A q \in Procs \ {p} : active'[q] = active[q]
         /\ lapsed' = lapsed
         /\ GoesTo(p, c, IF c = "round" THEN "read" ELSE "idle")
         /\ (IF c = "round" THEN "read" ELSE "idle") \in StepsOf(c)
         /\ hyd' \in [Procs -> [Tasks -> Reads]]
         /\ \A q \in Procs, d \in Tasks : hyd'[q][d].value = hyd[q][d].value
<1>1. /\ active' \in [Procs -> BOOLEAN] /\ ~active'[p]
      /\ \A q \in Procs \ {p} : active'[q] = active[q]
      /\ lapsed' = lapsed
      /\ GoesTo(p, c, IF c = "round" THEN "read" ELSE "idle")
      /\ (IF c = "round" THEN "read" ELSE "idle") \in StepsOf(c)
  BY DEF TypeOK, Refused, StepsOf, RoundSteps, RequestSteps
<1>2. hyd \in [Procs -> [Tasks -> Reads]]
  BY DEF TypeOK, Reads
<1>3. CASE c = "round"
  <2> DEFINE r == [hyd[p][c] EXCEPT !.key = 1]
  <2>1. Reread(p, c, r)
    BY <1>3 DEF Refused, Reread
  <2>2. r \in Reads /\ r.value = hyd[p][c].value
    BY <1>2, KeyType DEF Reads
  <2> HIDE DEF r
  <2>3. OneRead(p, c, r)
    BY <2>1, <2>2, ReadsType
  <2>4. ASSUME NEW q \in Procs, NEW d \in Tasks PROVE hyd'[q][d].value = hyd[q][d].value
    BY <2>2, <2>3 DEF OneRead
  <2> QED BY <1>1, <2>3, <2>4 DEF OneRead
<1>4. CASE c # "round"
  BY <1>1, <1>2, <1>4 DEF Refused
<1> QED BY <1>3, <1>4

LEMMA SchedulesType ==
  ASSUME TypeOK, NEW p \in Procs, Schedules(p)
  PROVE  /\ \E step \in {"idle", "forced"} : GoesTo(p, "round", step)
         /\ {"idle", "forced"} \subseteq StepsOf("round") /\ "round" \in Tasks
         /\ block' \in [Procs -> BlockSteps]
         /\ \A q \in Procs \ {p} : block'[q] = block[q]
         /\ block'[p] = block[p] \/ (block[p] = "none" /\ block'[p] = "quotes")
BY DEF TypeOK, Schedules, StepsOf, RoundSteps, BlockSteps, Tasks

LEMMA ForgetsType ==
  ASSUME TypeOK, NEW p \in Procs, Forgets(p)
  PROVE  /\ active' \in [Procs -> BOOLEAN] /\ block' \in [Procs -> BlockSteps]
         /\ at' \in [Procs -> [Tasks -> RoundSteps \union RequestSteps]]
         /\ \A q \in Procs : at'[q]["round"] \in RoundSteps /\ at'[q]["request"] \in RequestSteps
         /\ draft' \in [Procs -> Answers] /\ lapsed' \in [Procs -> BOOLEAN]
         /\ ref' \in [Procs -> [version : 0..MaxEdits, valid : BOOLEAN, read : 0..MaxEdits]]
         /\ snap' \in [Procs -> [Keys -> Answers]] /\ line' \in [Procs -> SUBSET Answers]
         /\ hyd' \in [Procs -> [Tasks -> Reads]] /\ unread' \in [Procs -> BOOLEAN]
<1>1. /\ active' \in [Procs -> BOOLEAN] /\ block' \in [Procs -> BlockSteps]
      /\ draft' \in [Procs -> Answers] /\ lapsed' \in [Procs -> BOOLEAN]
      /\ line' \in [Procs -> SUBSET Answers] /\ unread' \in [Procs -> BOOLEAN]
  BY DEF TypeOK, Forgets, BlockSteps, Answers
<1>2. Parked \in [Tasks -> RoundSteps \union RequestSteps]
      /\ Parked["round"] \in RoundSteps /\ Parked["request"] \in RequestSteps
  BY DEF Parked, Tasks, RoundSteps, RequestSteps
<1>3. /\ at' \in [Procs -> [Tasks -> RoundSteps \union RequestSteps]]
      /\ \A q \in Procs : at'[q]["round"] \in RoundSteps /\ at'[q]["request"] \in RequestSteps
  BY <1>2 DEF TypeOK, Forgets
<1>4. ref' \in [Procs -> [version : 0..MaxEdits, valid : BOOLEAN, read : 0..MaxEdits]]
  BY DEF TypeOK, Forgets, NoRef
<1>5. NoSnap \in [Keys -> Answers] /\ NoHyd \in [Tasks -> Reads]
  BY KeyType DEF NoSnap, NoHyd, Answers
<1>6. snap' \in [Procs -> [Keys -> Answers]] /\ hyd' \in [Procs -> [Tasks -> Reads]]
  BY <1>5 DEF TypeOK, Forgets, Reads
<1> QED BY <1>1, <1>3, <1>4, <1>6

LEMMA EventType == TypeOK /\ Event => events' \in 0..MaxEvents
BY DEF TypeOK, Event

LEMMA LeaseStepsType ==
  ASSUME TypeOK, NEW p \in Procs, NEW c \in Tasks, Acquire(p, c)
  PROVE  TypeOK'
<1>1. CASE SetLease(p, c) \/ GetLease(p, c) \/ RenewLease(p, c)
  <2>1. /\ UNCHANGED <<shared, policy, answers, life, block, draft, ref, snap, line, split, unread, events>>
        /\ lease' \in Procs \union {None}
        /\ \/ Granted(p, c) \/ Refused(p, c)
           \/ /\ GoesTo(p, c, "get") \/ GoesTo(p, c, "renew")
              /\ UNCHANGED <<active, lapsed, hyd>>
    BY <1>1 DEF SetLease, GetLease, RenewLease, TypeOK
  <2>2. "get" \in StepsOf(c) /\ "renew" \in StepsOf(c)
    BY DEF StepsOf, RoundSteps, RequestSteps
  <2>3. CASE Granted(p, c)
    <3>1. /\ active' \in [Procs -> BOOLEAN] /\ lapsed' \in [Procs -> BOOLEAN] /\ hyd' = hyd
          /\ at' \in [Procs -> [Tasks -> RoundSteps \union RequestSteps]]
          /\ \A q \in Procs : at'[q]["round"] \in RoundSteps /\ at'[q]["request"] \in RequestSteps
      BY <2>3, GrantedType, Moves
    <3> QED BY <2>1, <3>1 DEF TypeOK
  <2>4. CASE Refused(p, c)
    <3>1. /\ active' \in [Procs -> BOOLEAN] /\ lapsed' = lapsed
          /\ hyd' \in [Procs -> [Tasks -> Reads]]
          /\ at' \in [Procs -> [Tasks -> RoundSteps \union RequestSteps]]
          /\ \A q \in Procs : at'[q]["round"] \in RoundSteps /\ at'[q]["request"] \in RequestSteps
      BY <2>4, RefusedType, Moves
    <3> QED BY <2>1, <3>1 DEF TypeOK, Reads
  <2>5. CASE /\ GoesTo(p, c, "get") \/ GoesTo(p, c, "renew")
             /\ UNCHANGED <<active, lapsed, hyd>>
    <3>1. /\ at' \in [Procs -> [Tasks -> RoundSteps \union RequestSteps]]
          /\ \A q \in Procs : at'[q]["round"] \in RoundSteps /\ at'[q]["request"] \in RequestSteps
      BY <2>2, <2>5, Moves
    <3> QED BY <2>1, <2>5, <3>1 DEF TypeOK
  <2> QED BY <2>1, <2>3, <2>4, <2>5
<1>2. CASE LeaseFails(p, c)
  <2>1. /\ UNCHANGED <<shared, policy, answers, life, block, draft, ref, snap, line, split, unread>>
        /\ lease' \in Procs \union {None} /\ Refused(p, c) /\ events' \in 0..MaxEvents
    BY <1>2, EventType DEF LeaseFails, TypeOK
  <2>2. /\ active' \in [Procs -> BOOLEAN] /\ lapsed' = lapsed
        /\ hyd' \in [Procs -> [Tasks -> Reads]]
        /\ at' \in [Procs -> [Tasks -> RoundSteps \union RequestSteps]]
        /\ \A q \in Procs : at'[q]["round"] \in RoundSteps /\ at'[q]["request"] \in RequestSteps
    BY <2>1, RefusedType, Moves
  <2> QED BY <2>1, <2>2 DEF TypeOK, Reads
<1> QED BY <1>1, <1>2 DEF Acquire

LEMMA HydrateType ==
  ASSUME TypeOK, NEW p \in Procs, NEW c \in Tasks, Hydrate(p, c)
  PROVE  TypeOK'
<1>0. /\ {"idle", "read", "keep"} \subseteq StepsOf(c)
      /\ hyd \in [Procs -> [Tasks -> Reads]]
  BY DEF StepsOf, RoundSteps, RequestSteps, TypeOK, Reads
<1> DEFINE h == hyd[p][c]
<1>1. h \in Reads /\ h.key \in Keys /\ h.value \in Answers
  BY <1>0 DEF Reads
<1>2. CASE NextKey(p, c)
  <2>1. /\ at' \in [Procs -> [Tasks -> RoundSteps \union RequestSteps]]
        /\ \A q \in Procs : at'[q]["round"] \in RoundSteps /\ at'[q]["request"] \in RequestSteps
        /\ hyd' \in [Procs -> [Tasks -> Reads]]
    BY <1>0, <1>2, NextKeyType, Moves
  <2>2. CASE HydrateReads(p, c)
    <3>1. events' \in 0..MaxEvents
      BY <2>2, EventType DEF HydrateReads, TypeOK
    <3> QED BY <2>1, <2>2, <3>1 DEF HydrateReads, TypeOK, Reads
  <2>3. CASE HydrateKeeps(p, c)
    <3>1. /\ UNCHANGED <<lease, shared, policy, answers, life, active, block, draft, ref, line,
                         lapsed, unread, events>>
          /\ snap' = (IF h.value = 0 THEN snap ELSE [snap EXCEPT ![p][h.key] = h.value])
          /\ split' \in {split, split \union {"hydration"}}
      BY <2>3 DEF HydrateKeeps
    <3> HIDE DEF h
    <3>2. snap' \in [Procs -> [Keys -> Answers]]
      BY <1>1, <3>1 DEF TypeOK
    <3>3. split' \in SUBSET {"lapse", "hydration", "page"}
      BY <3>1 DEF TypeOK
    <3> QED BY <2>1, <3>1, <3>2, <3>3 DEF TypeOK, Reads
  <2> QED BY <2>2, <2>3 DEF Hydrate
<1>3. CASE ~NextKey(p, c)
  <2>1. /\ GoesTo(p, c, "keep")
        /\ \E v \in {0, shared.snap[h.key]} : hyd' = [hyd EXCEPT ![p][c].value = v]
        /\ UNCHANGED <<lease, shared, policy, answers, life, active, block, draft, ref, snap,
                       line, lapsed, split, unread>>
    BY <1>3 DEF Hydrate, HydrateReads, HydrateKeeps
  <2>7. events' \in 0..MaxEvents
    BY <1>3, EventType DEF Hydrate, HydrateReads, HydrateKeeps, TypeOK
  <2>3. {0, shared.snap[h.key]} \subseteq Answers
    BY <1>1 DEF TypeOK, Answers
  <2>8. PICK v \in Answers : hyd' = [hyd EXCEPT ![p][c].value = v]
    BY <2>1, <2>3
  <2> DEFINE r == [h EXCEPT !.value = v]
  <2>2. hyd' = [hyd EXCEPT ![p][c] = r]
    BY <2>8
  <2>4. r \in Reads
    BY <1>1 DEF Reads
  <2> HIDE DEF r
  <2>5. hyd' \in [Procs -> [Tasks -> Reads]]
    BY <2>2, <2>4, ReadsType DEF Reread, OneRead
  <2>6. /\ at' \in [Procs -> [Tasks -> RoundSteps \union RequestSteps]]
        /\ \A q \in Procs : at'[q]["round"] \in RoundSteps /\ at'[q]["request"] \in RequestSteps
    BY <1>0, <2>1, Moves
  <2> QED BY <2>1, <2>5, <2>6, <2>7 DEF TypeOK, Reads
<1> QED BY <1>2, <1>3

LEMMA RoundType ==
  ASSUME TypeOK, NEW p \in Procs, Round(p)
  PROVE  TypeOK'
<1>0. "round" \in Tasks /\ {"idle", "loading", "forced"} \subseteq StepsOf("round")
  BY DEF Tasks, StepsOf, RoundSteps
<1>1. \E step \in {"idle", "loading", "forced"} : GoesTo(p, "round", step)
  BY SchedulesType DEF Round, UseReference, ReadReference, ReferenceLoads, ReferenceFails,
                       ForcedEnds
<1>2. /\ at' \in [Procs -> [Tasks -> RoundSteps \union RequestSteps]]
      /\ \A q \in Procs : at'[q]["round"] \in RoundSteps /\ at'[q]["request"] \in RequestSteps
  BY <1>0, <1>1, Moves
<1>3. block' \in [Procs -> BlockSteps]
  BY SchedulesType DEF Round, UseReference, ReadReference, ReferenceLoads, ReferenceFails,
                       ForcedEnds, TypeOK
<1> DEFINE Refs == [version : 0..MaxEdits, valid : BOOLEAN, read : 0..MaxEdits]
<1>4. ref' \in [Procs -> Refs]
  <2>0. ref \in [Procs -> Refs] /\ policy \in 0..MaxEdits
    BY DEF TypeOK
  <2>1. CASE ref' = ref
    BY <2>0, <2>1
  <2>2. CASE ReadReference(p)
    BY <2>0, <2>2 DEF ReadReference
  <2>3. CASE ReferenceLoads(p)
    BY <2>0, <2>3 DEF ReferenceLoads
  <2>4. CASE ReferenceFails(p)
    <3>1. 0 \in 0..MaxEdits
      OBVIOUS
    <3> QED BY <2>0, <2>4, <3>1 DEF ReferenceFails
  <2> QED BY <2>1, <2>2, <2>3, <2>4 DEF Round, UseReference, ForcedEnds
<1>5. events' \in 0..MaxEvents
  BY EventType DEF Round, UseReference, ReadReference, ReferenceLoads, ReferenceFails,
                   ForcedEnds, TypeOK
<1>6. UNCHANGED <<lease, shared, policy, answers, life, active, draft, snap, line, hyd,
                  lapsed, split, unread>>
  BY DEF Round, UseReference, ReadReference, ReferenceLoads, ReferenceFails, ForcedEnds
<1> QED BY <1>2, <1>3, <1>4, <1>5, <1>6 DEF TypeOK

LEMMA MarketType ==
  ASSUME TypeOK, NEW p \in Procs, MarketBlock(p)
  PROVE  TypeOK'
<1>1. CASE AskQuotes(p) \/ AskIndexes(p) \/ RoundEndsDegraded(p)
  BY <1>1 DEF AskQuotes, AskIndexes, RoundEndsDegraded, TypeOK, BlockSteps
<1>2. CASE QuotesArrive(p)
  BY <1>2 DEF QuotesArrive, TypeOK, BlockSteps, Answers
<1>3. CASE QuotesDegraded(p)
  <2>1. events' \in 0..MaxEvents
    BY <1>3, EventType DEF QuotesDegraded, TypeOK
  <2> QED BY <1>3, <2>1 DEF QuotesDegraded, TypeOK, BlockSteps, Answers
<1>4. CASE IndexesArrive(p)
  <2>1. line' \in [Procs -> SUBSET Answers] /\ block' \in [Procs -> BlockSteps]
    BY <1>4 DEF IndexesArrive, TypeOK, BlockSteps
  <2> QED BY <1>4, <2>1 DEF IndexesArrive, TypeOK
<1>7. CASE TimelineUnread(p)
  <2>1. events' \in 0..MaxEvents
    BY <1>7, EventType DEF TimelineUnread
  <2>2. block' \in [Procs -> BlockSteps] /\ unread' \in [Procs -> BOOLEAN]
    BY <1>7 DEF TimelineUnread, TypeOK, BlockSteps
  <2> QED BY <1>7, <2>1, <2>2 DEF TimelineUnread, TypeOK
<1>5. CASE BlockApplies(p)
  <2>1. /\ snap' \in [Procs -> [Keys -> Answers]] /\ line' \in [Procs -> SUBSET Answers]
        /\ block' \in [Procs -> BlockSteps]
    BY <1>5 DEF BlockApplies, TypeOK, BlockSteps
  <2> QED BY <1>5, <2>1 DEF BlockApplies, TypeOK
<1>6. CASE BlockPersists(p)
  <2>1. events' \in 0..MaxEvents
    BY <1>6, EventType DEF BlockPersists, TypeOK
  <2>2. shared' \in [snap : [Keys -> Answers], line : SUBSET Answers]
    BY <1>6 DEF BlockPersists, Written, TypeOK
  <2>3. block' \in [Procs -> BlockSteps] /\ draft' \in [Procs -> Answers]
    BY <1>6 DEF BlockPersists, TypeOK, BlockSteps, Answers
  <2>4. unread' \in [Procs -> BOOLEAN]
    BY <1>6 DEF BlockPersists, TypeOK
  <2> QED BY <1>6, <2>1, <2>2, <2>3, <2>4 DEF BlockPersists, TypeOK
<1> QED BY <1>1, <1>2, <1>3, <1>4, <1>5, <1>6, <1>7 DEF MarketBlock

LEMMA RequestType ==
  ASSUME TypeOK, NEW p \in Procs, Request(p)
  PROVE  TypeOK'
<1>0. "request" \in Tasks /\ {"idle", "set", "ask", "read", "timeline"} \subseteq StepsOf("request")
  BY DEF Tasks, StepsOf, RequestSteps
<1> DEFINE AtType == /\ at' \in [Procs -> [Tasks -> RoundSteps \union RequestSteps]]
                     /\ \A q \in Procs : at'[q]["round"] \in RoundSteps
                                         /\ at'[q]["request"] \in RequestSteps
<1>1. CASE StockRequest(p) \/ AskStock(p) \/ SnapshotRequest(p)
  <2>1. /\ events' \in 0..MaxEvents
        /\ \E step \in {"idle", "set", "ask", "read"} : GoesTo(p, "request", step)
        /\ UNCHANGED <<lease, shared, policy, answers, life, active, block, draft, ref, snap,
                       line, hyd, lapsed, split, unread>>
    BY <1>1, EventType DEF StockRequest, AskStock, SnapshotRequest, Requested, TypeOK
  <2>2. AtType
    BY <1>0, <2>1, Moves
  <2> QED BY <2>1, <2>2 DEF TypeOK
<1>2. CASE TimelineRequest(p)
  <2>1. /\ events' \in 0..MaxEvents /\ GoesTo(p, "request", "timeline")
        /\ hyd' = [hyd EXCEPT ![p]["request"].line = shared.line]
        /\ UNCHANGED <<lease, shared, policy, answers, life, active, block, draft, ref, snap,
                       line, lapsed, split, unread>>
    BY <1>2, EventType DEF TimelineRequest, Requested
  <2> DEFINE r == [hyd[p]["request"] EXCEPT !.line = shared.line]
  <2>2. hyd[p]["request"] \in Reads /\ shared.line \in SUBSET Answers
    BY <1>0 DEF TypeOK, Reads
  <2>3. r \in Reads /\ hyd' = [hyd EXCEPT ![p]["request"] = r]
    BY <2>1, <2>2 DEF Reads
  <2> HIDE DEF r
  <2>4. hyd' \in [Procs -> [Tasks -> Reads]]
    BY <1>0, <2>3, ReadsType DEF Reread, OneRead
  <2>5. AtType
    BY <1>0, <2>1, Moves
  <2> QED BY <2>1, <2>4, <2>5 DEF TypeOK, Reads
<1>3. CASE TimelineKeeps(p)
  <2>1. /\ GoesTo(p, "request", "idle") /\ hyd' = [hyd EXCEPT ![p]["request"] = Read(1)]
        /\ line' = [line EXCEPT ![p] = hyd[p]["request"].line]
        /\ split' \in {split, split \union {"page"}}
        /\ unread' = [unread EXCEPT ![p] = FALSE]
        /\ UNCHANGED <<lease, shared, policy, answers, life, active, block, draft, ref, snap,
                       lapsed, events>>
    BY <1>3 DEF TimelineKeeps
  <2>2. hyd' \in [Procs -> [Tasks -> Reads]]
    BY <1>0, <2>1, KeyType, ReadsType DEF Reread, OneRead
  <2>3. hyd[p]["request"] \in Reads
    BY <1>0 DEF TypeOK, Reads
  <2>4. line' \in [Procs -> SUBSET Answers]
    BY <2>1, <2>3 DEF TypeOK, Reads
  <2>5. /\ split' \in SUBSET {"lapse", "hydration", "page"}
        /\ unread' \in [Procs -> BOOLEAN]
    BY <2>1 DEF TypeOK
  <2>6. AtType
    BY <1>0, <2>1, Moves
  <2> QED BY <2>1, <2>2, <2>4, <2>5, <2>6 DEF TypeOK, Reads
<1>4. CASE EditPool(p)
  <2>1. policy' \in 0..MaxEdits
    BY <1>4 DEF EditPool, TypeOK
  <2> DEFINE Refs == [version : 0..MaxEdits, valid : BOOLEAN, read : 0..MaxEdits]
             r == [ref[p] EXCEPT !.valid = FALSE]
  <2>0. ref \in [Procs -> Refs] /\ ref' = [ref EXCEPT ![p] = r]
    BY <1>4 DEF EditPool, TypeOK
  <2>3. ref[p] \in Refs
    BY <2>0
  <2>4. r \in Refs
    BY <2>3
  <2>2. ref' \in [Procs -> Refs]
    BY <2>0, <2>4
  <2> QED BY <1>4, <2>1, <2>2 DEF EditPool, TypeOK
<1> QED BY <1>1, <1>2, <1>3, <1>4 DEF Request

LEMMA LifeType ==
  ASSUME TypeOK, NEW p \in Procs, Start(p) \/ StopCancels(p) \/ StopReleases(p) \/ Crash(p)
  PROVE  TypeOK'
<1>1. CASE Start(p)
  BY <1>1 DEF Start, TypeOK
<1>2. CASE StopCancels(p)
  <2>1. /\ events' \in 0..MaxEvents /\ life' = [life EXCEPT ![p] = "stopping"]
        /\ GoesTo(p, "round", "idle") /\ shared' \in {shared, Written(p)}
        /\ block' = [block EXCEPT ![p] = "none"] /\ draft' = [draft EXCEPT ![p] = 0]
        /\ UNCHANGED <<lease, policy, answers, active, ref, snap, line, hyd, lapsed, split, unread>>
    BY <1>2, EventType DEF StopCancels, GoesTo
  <2>2. "round" \in Tasks /\ "idle" \in StepsOf("round")
    BY DEF Tasks, StepsOf, RoundSteps
  <2>3. /\ at' \in [Procs -> [Tasks -> RoundSteps \union RequestSteps]]
        /\ \A q \in Procs : at'[q]["round"] \in RoundSteps /\ at'[q]["request"] \in RequestSteps
    BY <2>1, <2>2, Moves
  <2>4. shared' \in [snap : [Keys -> Answers], line : SUBSET Answers]
    BY <2>1 DEF Written, TypeOK
  <2>5. block' \in [Procs -> BlockSteps] /\ draft' \in [Procs -> Answers]
    BY <2>1 DEF TypeOK, BlockSteps, Answers
  <2>6. life' \in [Procs -> {"up", "stopping", "down"}]
    BY <2>1 DEF TypeOK
  <2> QED BY <2>1, <2>3, <2>4, <2>5, <2>6 DEF TypeOK
<1>3. CASE StopReleases(p) \/ Crash(p)
  <2>1. /\ events' \in 0..MaxEvents /\ life' = [life EXCEPT ![p] = "down"]
        /\ Forgets(p) /\ lease' \in {lease, None}
        /\ UNCHANGED <<shared, policy, answers, split>>
    BY <1>3, EventType DEF StopReleases, Crash, TypeOK
  <2>2. lease' \in Procs \union {None} /\ life' \in [Procs -> {"up", "stopping", "down"}]
    BY <2>1 DEF TypeOK
  <2> QED BY <2>1, <2>2, ForgetsType DEF TypeOK, Reads
<1> QED BY <1>1, <1>2, <1>3

LEMMA NextType == TypeOK /\ [Next]_vars => TypeOK'
<1> SUFFICES ASSUME TypeOK, [Next]_vars PROVE TypeOK'
  OBVIOUS
<1>1. CASE LeaseExpires
  BY <1>1 DEF LeaseExpires, TypeOK
<1>2. CASE LeaseLapses
  <2>1. events' \in 0..MaxEvents
    BY <1>2, EventType DEF LeaseLapses
  <2> QED BY <1>2, <2>1 DEF LeaseLapses, TypeOK
<1>3. CASE SnapshotExpires
  <2>1. NoSnap \in [Keys -> Answers]
    BY DEF NoSnap, Answers
  <2>2. shared' \in [snap : [Keys -> Answers], line : SUBSET Answers]
    BY <1>3, <2>1 DEF SnapshotExpires, TypeOK
  <2> QED BY <1>3, <2>2 DEF SnapshotExpires, TypeOK
<1>4. ASSUME NEW p \in Procs, NEW c \in Tasks, Acquire(p, c) PROVE TypeOK'
  BY <1>4, LeaseStepsType
<1>5. ASSUME NEW p \in Procs, NEW c \in Tasks, Hydrate(p, c) PROVE TypeOK'
  BY <1>5, HydrateType
<1>6. ASSUME NEW p \in Procs, Round(p) PROVE TypeOK'
  BY <1>6, RoundType
<1>7. ASSUME NEW p \in Procs, MarketBlock(p) PROVE TypeOK'
  BY <1>7, MarketType
<1>8. ASSUME NEW p \in Procs, Request(p) PROVE TypeOK'
  BY <1>8, RequestType
<1>9. ASSUME NEW p \in Procs, Start(p) \/ StopCancels(p) \/ StopReleases(p) \/ Crash(p)
      PROVE  TypeOK'
  BY <1>9, LifeType
<1>10. CASE UNCHANGED vars
  BY <1>10 DEF vars, TypeOK
<1> QED BY <1>1, <1>2, <1>3, <1>4, <1>5, <1>6, <1>7, <1>8, <1>9, <1>10 DEF Next

\* Every variable of the runtime keeps its type.
THEOREM TypeCorrect == Spec => []TypeOK
BY InitType, NextType, PTL DEF Spec

(* ------------------------- who is granted the lease ----------------------- *)

GrantSound ==
  /\ \A p \in Procs, c \in Tasks :
       at[p][c] \in {Sets(c), "get", "renew"} /\ at'[p][c] \in {"reference", "ask"}
         => lease' = p
  /\ lease' # lease => None \in {lease, lease'}

\* A step of one task that was not about to be granted the lease, or is granted it.
LEMMA OneMoves ==
  ASSUME TypeOK, NEW p \in Procs, NEW c \in Tasks, NEW step \in StepsOf(c),
         GoesTo(p, c, step), lease' # lease => None \in {lease, lease'},
         step \in {"reference", "ask"} => lease' = p \/ at[p][c] \notin {Sets(c), "get", "renew"}
  PROVE  GrantSound
<1>1. /\ at'[p][c] = step
      /\ \A q \in Procs, d \in Tasks : q # p \/ d # c => at'[q][d] = at[q][d]
  BY Moves
<1>2. ASSUME NEW q \in Procs, NEW d \in Tasks,
             at[q][d] \in {Sets(d), "get", "renew"}, at'[q][d] \in {"reference", "ask"}
      PROVE  lease' = q
  BY <1>1, <1>2 DEF Sets
<1> QED BY <1>2 DEF GrantSound

LEMMA NextGrants == TypeOK /\ [Next]_vars => GrantSound
<1> SUFFICES ASSUME TypeOK, [Next]_vars PROVE GrantSound
  OBVIOUS
<1>0. /\ \A c \in Tasks : {"idle", "get", "renew", "read", "keep"} \subseteq StepsOf(c)
      /\ {"loading", "forced", "reference"} \subseteq StepsOf("round")
      /\ {"set", "ask", "timeline"} \subseteq StepsOf("request")
      /\ Tasks = {"round", "request"}
  BY DEF StepsOf, RoundSteps, RequestSteps, Tasks
<1>1. CASE UNCHANGED at /\ (lease' = lease \/ lease' = None)
  BY <1>1 DEF GrantSound, Sets
<1>2. ASSUME NEW p \in Procs, NEW c \in Tasks, Acquire(p, c) PROVE GrantSound
  <2>1. CASE Granted(p, c)
    <3>1. lease' = p /\ (lease' # lease => lease = None)
      BY <1>2, <2>1 DEF Acquire, SetLease, GetLease, RenewLease, LeaseFails, Granted, Refused,
                        GoesTo, TypeOK
    <3> QED BY <2>1, <3>1, GrantedType, OneMoves
  <2>2. CASE Refused(p, c)
    <3>1. lease' # lease => lease = None
      BY <1>2, <2>2 DEF Acquire, SetLease, GetLease, RenewLease, LeaseFails
    <3>2. (IF c = "round" THEN "read" ELSE "idle") \notin {"reference", "ask"}
      OBVIOUS
    <3> QED BY <2>2, <3>1, <3>2, RefusedType, OneMoves
  <2>3. CASE ~Granted(p, c) /\ ~Refused(p, c)
    <3>1. /\ lease' = lease
          /\ \E step \in {"get", "renew"} : GoesTo(p, c, step)
      BY <1>2, <2>3 DEF Acquire, SetLease, GetLease, RenewLease, LeaseFails
    <3> QED BY <1>0, <3>1, OneMoves
  <2> QED BY <2>1, <2>2, <2>3
<1>3. ASSUME NEW p \in Procs, NEW c \in Tasks, Hydrate(p, c) PROVE GrantSound
  <2>1. lease' = lease /\ \E step \in {"idle", "read", "keep"} : GoesTo(p, c, step)
    BY <1>3 DEF Hydrate, HydrateReads, HydrateKeeps, NextKey
  <2> QED BY <1>0, <2>1, OneMoves
<1>4. ASSUME NEW p \in Procs, Round(p) PROVE GrantSound
  <2>1. lease' = lease /\ \E step \in {"idle", "loading", "forced"} : GoesTo(p, "round", step)
    BY <1>4, SchedulesType DEF Round, UseReference, ReadReference, ReferenceLoads,
                               ReferenceFails, ForcedEnds
  <2> QED BY <1>0, <2>1, OneMoves
<1>5. ASSUME NEW p \in Procs, MarketBlock(p) PROVE GrantSound
  <2>1. UNCHANGED <<at, lease>>
    BY <1>5 DEF MarketBlock, AskQuotes, QuotesArrive, QuotesDegraded, AskIndexes,
                RoundEndsDegraded, IndexesArrive, TimelineUnread, BlockApplies, BlockPersists
  <2> QED BY <1>1, <2>1
<1>6. ASSUME NEW p \in Procs, Request(p) PROVE GrantSound
  <2>1. CASE EditPool(p)
    BY <1>1, <2>1 DEF EditPool
  <2>2. CASE ~EditPool(p)
    <3>1. /\ lease' = lease
          /\ \E step \in {"idle", "set", "ask", "read", "timeline"} :
               /\ GoesTo(p, "request", step)
               /\ step = "ask" => at[p]["request"] = "idle"
      BY <1>6, <2>2 DEF Request, StockRequest, AskStock, SnapshotRequest, TimelineRequest,
                        TimelineKeeps, Requested, Running
    <3> QED BY <1>0, <3>1, OneMoves DEF Sets
  <2> QED BY <2>1, <2>2
<1>7. ASSUME NEW p \in Procs, Start(p) \/ StopReleases(p) \/ StopCancels(p) \/ Crash(p)
      PROVE  GrantSound
  <2>1. CASE Start(p)
    BY <1>1, <2>1 DEF Start
  <2>2. CASE StopCancels(p)
    <3>1. lease' = lease /\ GoesTo(p, "round", "idle")
      BY <2>2 DEF StopCancels, GoesTo
    <3> QED BY <1>0, <3>1, OneMoves
  <2>3. CASE StopReleases(p) \/ Crash(p)
    <3>1. at' = [at EXCEPT ![p] = Parked] /\ lease' \in {lease, None}
      BY <2>3 DEF StopReleases, Crash, Forgets
    <3>2. \A q \in Procs, d \in Tasks : at'[q][d] \in {at[q][d], "idle"}
      BY <3>1 DEF TypeOK, Parked
    <3> QED BY <3>1, <3>2 DEF GrantSound, Sets
  <2> QED BY <1>7, <2>1, <2>2, <2>3
<1>8. CASE LeaseExpires \/ LeaseLapses \/ SnapshotExpires \/ UNCHANGED vars
  BY <1>1, <1>8 DEF LeaseExpires, LeaseLapses, SnapshotExpires, vars
<1> QED BY <1>2, <1>3, <1>4, <1>5, <1>6, <1>7, <1>8 DEF Next

\* LeaseSound: whatever SET, GET and compare-and-expire of several instances and of
\* two tasks of one interleave with, and whichever of them fail, a caller is told it
\* leads only while Redis names its instance.
THEOREM LeasesAreSound == Spec => LeaseSound
<1>1. TypeOK /\ [Next]_vars => [GrantSound]_vars
  BY NextGrants
<1>2. Spec => [][GrantSound]_vars
  BY <1>1, TypeCorrect, PTL DEF Spec
<1> QED BY <1>2 DEF LeaseSound, GrantSound

(* --------------------- what an owner has under way ------------------------ *)

\* What makes an instance spend provider quota.
Spends(p) == \/ active[p]
             \/ block[p] # "none"
             \/ at[p]["round"] \in {"reference", "loading", "forced"}
             \/ at[p]["request"] = "ask"

OwnInv ==
  /\ \A p \in Procs : Spends(p) => lease = p \/ lapsed[p]
  /\ \A p \in Procs : life[p] = "down" => ~Spends(p)
  /\ "lapse" \notin split => \A p \in Procs : ~lapsed[p]

LEMMA InitOwn == Init => OwnInv
BY DEF Init, OwnInv, Spends, Parked, Tasks

\* A step of an instance that is up, which begins nothing it was not entitled to.
LEMMA OneSpends ==
  ASSUME OwnInv, NEW p \in Procs, life[p] = "up", UNCHANGED <<lease, life, lapsed>>,
         "lapse" \in split => "lapse" \in split',
         \A q \in Procs \ {p} : Spends(q)' => Spends(q),
         Spends(p)' => Spends(p)
  PROVE  OwnInv'
BY DEF OwnInv

LEMMA RoundOwn ==
  ASSUME TypeOK, OwnInv, NEW p \in Procs, Round(p) PROVE OwnInv'
<1>0. "round" \in Tasks /\ "request" \in Tasks
      /\ {"idle", "loading", "forced"} \subseteq StepsOf("round")
  BY DEF Tasks, StepsOf, RoundSteps
<1>1. /\ \E step \in {"idle", "loading", "forced"} : GoesTo(p, "round", step)
      /\ life[p] = "up" /\ at[p]["round"] \in {"reference", "loading", "forced"}
      /\ UNCHANGED <<lease, life, lapsed, split, active>>
      /\ \A q \in Procs \ {p} : block'[q] = block[q]
  BY SchedulesType DEF Round, UseReference, ReadReference, ReferenceLoads, ReferenceFails,
                       ForcedEnds, Running
<1>2. \A q \in Procs \ {p} : at'[q]["round"] = at[q]["round"]
                             /\ at'[q]["request"] = at[q]["request"]
  BY <1>0, <1>1, Moves
<1> QED BY <1>1, <1>2, OneSpends DEF Spends

LEMMA MarketOwn ==
  ASSUME TypeOK, OwnInv, NEW p \in Procs, MarketBlock(p) PROVE OwnInv'
<1>1. /\ life[p] = "up" /\ block[p] # "none"
      /\ UNCHANGED <<lease, life, lapsed, split, active, at>>
  BY DEF MarketBlock, AskQuotes, QuotesArrive, QuotesDegraded, AskIndexes,
         RoundEndsDegraded, IndexesArrive, TimelineUnread, BlockApplies, BlockPersists
<1>2. \A q \in Procs \ {p} : block'[q] = block[q]
  BY DEF MarketBlock, AskQuotes, QuotesArrive, QuotesDegraded, AskIndexes,
         RoundEndsDegraded, IndexesArrive, TimelineUnread, BlockApplies, BlockPersists, TypeOK
<1> QED BY <1>1, <1>2, OneSpends DEF Spends

LEMMA HydrateOwn ==
  ASSUME TypeOK, OwnInv, NEW p \in Procs, NEW c \in Tasks, Hydrate(p, c) PROVE OwnInv'
<1>0. "round" \in Tasks /\ "request" \in Tasks /\ Tasks = {"round", "request"}
      /\ {"idle", "read", "keep"} \subseteq StepsOf(c)
  BY DEF Tasks, StepsOf, RoundSteps, RequestSteps
<1>1. /\ \E step \in {"idle", "read", "keep"} : GoesTo(p, c, step)
      /\ life[p] = "up" /\ UNCHANGED <<lease, life, lapsed, active, block>>
      /\ split' \in {split, split \union {"hydration"}}
  BY DEF Hydrate, HydrateReads, HydrateKeeps, NextKey, Running
<1>2. /\ at'[p][c] \in {"idle", "read", "keep"}
      /\ \A q \in Procs, d \in Tasks : q # p \/ d # c => at'[q][d] = at[q][d]
  BY <1>0, <1>1, Moves
<1>3. \A q \in Procs : Spends(q)' => Spends(q)
  BY <1>0, <1>1, <1>2 DEF Spends
<1> QED BY <1>1, <1>3, OneSpends

LEMMA RequestOwn ==
  ASSUME TypeOK, OwnInv, NEW p \in Procs, Request(p) PROVE OwnInv'
<1>0. "round" \in Tasks /\ "request" \in Tasks
      /\ {"idle", "set", "ask", "read", "timeline"} \subseteq StepsOf("request")
  BY DEF Tasks, StepsOf, RequestSteps
<1>1. CASE EditPool(p)
  BY <1>1, OneSpends DEF EditPool, Spends
<1>2. CASE ~EditPool(p)
  <2>1. /\ \E step \in {"idle", "set", "ask", "read", "timeline"} :
             /\ GoesTo(p, "request", step)
             /\ step = "ask" => active[p]
        /\ life[p] = "up" /\ UNCHANGED <<lease, life, lapsed, active, block>>
        /\ split' \in {split, split \union {"page"}}
    BY <1>2 DEF Request, StockRequest, AskStock, SnapshotRequest, TimelineRequest,
                TimelineKeeps, Requested, Running
  <2>2. /\ at'[p]["request"] = "ask" => active[p]
        /\ at'[p]["round"] = at[p]["round"]
        /\ \A q \in Procs \ {p} : at'[q]["round"] = at[q]["round"]
                                  /\ at'[q]["request"] = at[q]["request"]
    BY <1>0, <2>1, Moves
  <2>3. \A q \in Procs : Spends(q)' => Spends(q)
    BY <2>1, <2>2 DEF Spends
  <2> QED BY <2>1, <2>3, OneSpends
<1> QED BY <1>1, <1>2

LEMMA AcquireOwn ==
  ASSUME TypeOK, OwnInv, NEW p \in Procs, NEW c \in Tasks, Acquire(p, c) PROVE OwnInv'
<1>0. /\ "round" \in Tasks /\ "request" \in Tasks /\ Tasks = {"round", "request"}
      /\ {"get", "renew"} \subseteq StepsOf(c)
  BY DEF Tasks, StepsOf, RoundSteps, RequestSteps
<1>1. /\ life[p] = "up" /\ UNCHANGED <<life, block, split>>
      /\ lease' = lease \/ (lease = None /\ lease' = p)
      /\ \/ Granted(p, c) /\ lease' = p
         \/ Refused(p, c)
         \/ (\E step \in {"get", "renew"} : GoesTo(p, c, step)) /\ UNCHANGED <<active, lapsed>>
  BY DEF Acquire, SetLease, GetLease, RenewLease, LeaseFails, Running
<1>2. /\ \A q \in Procs \ {p}, d \in Tasks : at'[q][d] = at[q][d]
      /\ \A q \in Procs \ {p} : active'[q] = active[q] /\ lapsed'[q] = lapsed[q]
      /\ lapsed'[p] => lapsed[p]
  BY <1>0, <1>1, GrantedType, RefusedType, Moves
<1>3. \A q \in Procs \ {p} : Spends(q)' => Spends(q)
  BY <1>0, <1>1, <1>2 DEF Spends
<1>4. ASSUME NEW q \in Procs \ {p}, Spends(q)' PROVE lease' = q \/ lapsed'[q]
  BY <1>1, <1>2, <1>3, <1>4 DEF OwnInv
<1>5. ASSUME Spends(p)' PROVE lease' = p \/ lapsed'[p]
  <2>1. CASE lease' = p
    BY <2>1
  <2>2. CASE lease' # p
    <3>1. lease' = lease /\ UNCHANGED lapsed
      BY <1>1, <2>2 DEF Refused
    <3>2. Spends(p)
      <4>1. CASE Refused(p, c)
        <5>1. /\ ~active'[p] /\ at'[p][c] \in {"read", "idle"}
              /\ \A d \in Tasks : d # c => at'[p][d] = at[p][d]
          BY <4>1, RefusedType, Moves
        <5> QED BY <1>0, <1>1, <1>5, <5>1 DEF Spends
      <4>2. CASE (\E step \in {"get", "renew"} : GoesTo(p, c, step)) /\ UNCHANGED <<active, lapsed>>
        <5>1. /\ at'[p][c] \in {"get", "renew"}
              /\ \A d \in Tasks : d # c => at'[p][d] = at[p][d]
          BY <1>0, <4>2, Moves
        <5> QED BY <1>0, <1>1, <1>5, <4>2, <5>1 DEF Spends
      <4> QED BY <1>1, <2>2, <4>1, <4>2
    <3> QED BY <3>1, <3>2 DEF OwnInv
  <2> QED BY <2>1, <2>2
<1>6. \A q \in Procs : life'[q] = "down" => ~Spends(q)'
  BY <1>1, <1>3 DEF OwnInv
<1>7. "lapse" \notin split' => \A q \in Procs : ~lapsed'[q]
  BY <1>1, <1>2 DEF OwnInv
<1> QED BY <1>4, <1>5, <1>6, <1>7 DEF OwnInv

LEMMA NextOwn == TypeOK /\ OwnInv /\ [Next]_vars => OwnInv'
<1> SUFFICES ASSUME TypeOK, OwnInv, [Next]_vars PROVE OwnInv'
  OBVIOUS
<1>1. CASE LeaseExpires
  BY <1>1 DEF LeaseExpires, OwnInv, Spends, TypeOK
<1>2. CASE LeaseLapses
  <2>1. /\ lease \in Procs /\ lapsed' = [lapsed EXCEPT ![lease] = TRUE]
        /\ split' = split \union {"lapse"} /\ UNCHANGED <<life, active, at, block>>
    BY <1>2 DEF LeaseLapses, TypeOK
  <2>2. \A q \in Procs : lapsed'[q] = (lapsed[q] \/ q = lease)
    BY <2>1 DEF TypeOK
  <2> QED BY <2>1, <2>2 DEF OwnInv, Spends
<1>3. CASE SnapshotExpires \/ UNCHANGED vars
  BY <1>3 DEF SnapshotExpires, vars, OwnInv, Spends
<1>4. ASSUME NEW p \in Procs, NEW c \in Tasks, Acquire(p, c) PROVE OwnInv'
  BY <1>4, AcquireOwn
<1>5. ASSUME NEW p \in Procs, NEW c \in Tasks, Hydrate(p, c) PROVE OwnInv'
  BY <1>5, HydrateOwn
<1>6. ASSUME NEW p \in Procs, Round(p) \/ MarketBlock(p) \/ Request(p) PROVE OwnInv'
  BY <1>6, RoundOwn, MarketOwn, RequestOwn
<1>7. ASSUME NEW p \in Procs, Start(p) PROVE OwnInv'
  BY <1>7 DEF Start, OwnInv, Spends, TypeOK
<1>8. ASSUME NEW p \in Procs, StopCancels(p) PROVE OwnInv'
  <2>1. /\ life[p] = "up" /\ life' = [life EXCEPT ![p] = "stopping"]
        /\ GoesTo(p, "round", "idle") /\ block' = [block EXCEPT ![p] = "none"]
        /\ UNCHANGED <<lease, active, lapsed, split>>
        /\ {"round", "request"} \subseteq Tasks /\ "idle" \in StepsOf("round")
    BY <1>8 DEF StopCancels, GoesTo, Tasks, StepsOf, RoundSteps
  <2>2. \A q \in Procs : at'[q]["request"] = at[q]["request"]
                         /\ at'[q]["round"] \in {at[q]["round"], "idle"}
    BY <2>1, Moves
  <2>3. \A q \in Procs : Spends(q)' => Spends(q)
    BY <2>1, <2>2 DEF Spends, TypeOK
  <2>4. \A q \in Procs : life'[q] = "down" => life[q] = "down"
    BY <2>1 DEF TypeOK
  <2> QED BY <2>1, <2>3, <2>4 DEF OwnInv
<1>9. ASSUME NEW p \in Procs, StopReleases(p) \/ Crash(p) PROVE OwnInv'
  <2>1. /\ Forgets(p) /\ life' = [life EXCEPT ![p] = "down"] /\ UNCHANGED split
        /\ lease' = lease \/ (lease = p /\ lease' = None)
    BY <1>9 DEF StopReleases, Crash
  <2>2. /\ ~Spends(p)' /\ ~lapsed'[p]
        /\ \A q \in Procs \ {p} : /\ Spends(q)' => Spends(q)
                                  /\ lapsed'[q] = lapsed[q] /\ life'[q] = life[q]
    BY <2>1 DEF Forgets, Parked, Tasks, Spends, TypeOK
  <2> QED BY <2>1, <2>2 DEF OwnInv
<1> QED BY <1>1, <1>2, <1>3, <1>4, <1>5, <1>6, <1>7, <1>8, <1>9 DEF Next

\* OwnerSpends, for any number of instances: one that was refused, stopped or crashed
\* and one that came back ask the provider for nothing the owner does not entitle
\* them to, and an owner whose lease ran out is known as such.
THEOREM OwnersSpend == Spec => OwnerSpends
<1>1. OwnInv => \A p \in Procs : AsksProvider(p) => lease = p \/ lapsed[p]
  BY DEF OwnInv, Spends, AsksProvider
<1>2. Spec => [][\A p \in Procs : AsksProvider(p) => lease = p \/ lapsed[p]]_vars
  BY <1>1, InitType, NextType, InitOwn, NextOwn, PTL DEF Spec
<1> QED BY <1>2 DEF OwnerSpends

(* --------------------------- the shared snapshot -------------------------- *)

\* Nothing that is cached anywhere is newer than the last answer.
Bounded ==
  /\ \A k \in Keys : shared.snap[k] <= answers
  /\ \A p \in Procs, k \in Keys : snap[p][k] <= answers
  /\ \A p \in Procs, c \in Tasks : hyd[p][c].value <= answers
  /\ \A p \in Procs : /\ draft[p] <= answers
                      /\ block[p] \in {"apply", "persist"} => draft[p] # 0

\* A block works on the last answer, and writes nothing older.
Current(p) ==
  /\ draft[p] # 0 => block[p] # "none" /\ draft[p] = answers
  /\ block[p] = "persist" => \A k \in Keys : snap[p][k] = answers

Fenced == {"lapse", "hydration"} \intersect split = {}

SnapInv == Bounded /\ (Fenced => \A p \in Procs : Current(p))

LEMMA AnswersCount == TypeOK => answers \in Nat /\ 0 <= answers
BY DEF TypeOK, Answers

LEMMA InitSnap == Init => SnapInv
<1> SUFFICES ASSUME Init PROVE SnapInv
  OBVIOUS
<1>1. /\ \A k \in Keys : shared.snap[k] = 0
      /\ \A p \in Procs, k \in Keys : snap[p][k] = 0
      /\ \A p \in Procs, c \in Tasks : hyd[p][c].value = 0
      /\ answers = 0 /\ \A p \in Procs : block[p] = "none" /\ draft[p] = 0
  BY DEF Init, NoSnap, NoHyd, Read
<1> QED BY <1>1 DEF SnapInv, Bounded, Current

\* One block at a time, while the lease has not run out on a live owner.
LEMMA OneBlock ==
  ASSUME OwnInv, "lapse" \notin split, NEW p \in Procs, block[p] # "none"
  PROVE  lease = p /\ \A q \in Procs \ {p} : block[q] = "none"
BY DEF OwnInv, Spends

\* A step that caches nothing.
LEMMA SnapStill ==
  ASSUME SnapInv, TypeOK, UNCHANGED <<answers, draft, snap>>, shared'.snap = shared.snap,
         \A q \in Procs, d \in Tasks : hyd'[q][d].value \in {hyd[q][d].value, 0},
         \A q \in Procs : block'[q] = block[q] \/ (block[q] = "none" /\ block'[q] = "quotes"),
         split \subseteq split'
  PROVE  SnapInv'
<1>1. answers \in Nat
  BY DEF TypeOK, Answers
<1>2. Bounded'
  BY <1>1 DEF SnapInv, Bounded
<1>3. ASSUME Fenced', NEW q \in Procs PROVE Current(q)'
  <2>1. Current(q)
    BY <1>3 DEF SnapInv, Fenced
  <2> QED BY <2>1 DEF Current
<1> QED BY <1>2, <1>3 DEF SnapInv

LEMMA AcquireSnap ==
  ASSUME TypeOK, SnapInv, NEW p \in Procs, NEW c \in Tasks, Acquire(p, c) PROVE SnapInv'
<1>1. /\ UNCHANGED <<shared, answers, block, draft, snap, split>>
      /\ Granted(p, c) \/ Refused(p, c) \/ hyd' = hyd
  BY DEF Acquire, SetLease, GetLease, RenewLease, LeaseFails
<1>2. \A q \in Procs, d \in Tasks : hyd'[q][d].value = hyd[q][d].value
  BY <1>1, GrantedType, RefusedType
<1> QED BY <1>1, <1>2, SnapStill

LEMMA RoundSnap ==
  ASSUME TypeOK, SnapInv, NEW p \in Procs, Round(p) PROVE SnapInv'
<1>1. /\ UNCHANGED <<shared, answers, draft, snap, split, hyd>>
      /\ block' = block \/ Schedules(p)
  BY DEF Round, UseReference, ReadReference, ReferenceLoads, ReferenceFails, ForcedEnds
<1>2. \A q \in Procs : block'[q] = block[q] \/ (block[q] = "none" /\ block'[q] = "quotes")
  BY <1>1, SchedulesType
<1> QED BY <1>1, <1>2, SnapStill

LEMMA HydrateSnap ==
  ASSUME TypeOK, SnapInv, NEW p \in Procs, NEW c \in Tasks, Hydrate(p, c) PROVE SnapInv'
<1> DEFINE h == hyd[p][c]
<1>0. /\ hyd \in [Procs -> [Tasks -> Reads]] /\ h \in Reads
      /\ h.key \in Keys /\ h.value \in Answers /\ answers \in Nat
      /\ h.value <= answers
  BY DEF TypeOK, Reads, Answers, SnapInv, Bounded
<1>1. CASE NextKey(p, c)
  <2>1. \A q \in Procs, d \in Tasks : hyd'[q][d].value \in {hyd[q][d].value, 0}
    BY <1>1, NextKeyType
  <2>2. CASE HydrateReads(p, c)
    BY <2>1, <2>2, SnapStill DEF HydrateReads
  <2>3. CASE HydrateKeeps(p, c)
    <3>1. /\ UNCHANGED <<shared, answers, block, draft>>
          /\ snap' = (IF h.value = 0 THEN snap ELSE [snap EXCEPT ![p][h.key] = h.value])
          /\ split' = (IF h.value # 0 /\ h.value < snap[p][h.key]
                       THEN split \union {"hydration"} ELSE split)
      BY <2>3 DEF HydrateKeeps
    <3> HIDE DEF h
    <3>2. \A q \in Procs, k \in Keys :
             snap'[q][k] = IF h.value # 0 /\ q = p /\ k = h.key THEN h.value ELSE snap[q][k]
      BY <1>0, <3>1 DEF TypeOK
    <3>3. Bounded'
      <4>1. \A q \in Procs, k \in Keys : snap'[q][k] <= answers'
        BY <1>0, <3>1, <3>2 DEF SnapInv, Bounded
      <4>2. \A q \in Procs, d \in Tasks : hyd'[q][d].value <= answers'
        BY <1>0, <2>1, <3>1 DEF SnapInv, Bounded
      <4> QED BY <3>1, <4>1, <4>2 DEF SnapInv, Bounded
    <3>4. ASSUME Fenced', NEW q \in Procs PROVE Current(q)'
      <4>1. Current(q) /\ split' = split
        BY <3>1, <3>4 DEF SnapInv, Fenced
      <4>2. ASSUME block[q] = "persist", NEW k \in Keys PROVE snap'[q][k] = answers
        <5>1. snap[q][k] = answers
          BY <4>1, <4>2 DEF Current
        <5>2. CASE h.value # 0 /\ q = p /\ k = h.key
          <6>1. ~(h.value < answers)
            BY <3>1, <3>4, <5>1, <5>2 DEF Fenced
          <6> QED BY <1>0, <3>2, <5>2, <6>1 DEF Answers
        <5>3. CASE ~(h.value # 0 /\ q = p /\ k = h.key)
          BY <3>2, <5>1, <5>3
        <5> QED BY <5>2, <5>3
      <4> QED BY <3>1, <4>1, <4>2 DEF Current
    <3> QED BY <3>3, <3>4 DEF SnapInv
  <2> QED BY <2>2, <2>3 DEF Hydrate
<1>2. CASE ~NextKey(p, c)
  <2>1. /\ \E v \in {0, shared.snap[h.key]} : hyd' = [hyd EXCEPT ![p][c].value = v]
        /\ UNCHANGED <<shared, answers, block, draft, snap, split>>
    BY <1>2 DEF Hydrate, HydrateReads, HydrateKeeps
  <2>6. shared.snap[h.key] \in Answers /\ shared.snap[h.key] <= answers
    BY <1>0 DEF TypeOK, SnapInv, Bounded
  <2>7. 0 \in Answers /\ 0 <= answers
    BY <1>0 DEF Answers
  <2>8. \A v \in {0, shared.snap[h.key]} : v \in Answers /\ v <= answers
    BY <2>6, <2>7
  <2> HIDE DEF h
  <2>3. PICK v \in Answers : v <= answers /\ hyd' = [hyd EXCEPT ![p][c].value = v]
    BY <2>1, <2>8, Zenon
  <2> USE DEF h
  <2> DEFINE r == [h EXCEPT !.value = v]
  <2>2. hyd' = [hyd EXCEPT ![p][c] = r] /\ r.value = v
    BY <1>0, <2>3 DEF Reads
  <2>4. r \in Reads
    BY <1>0 DEF Reads
  <2> HIDE DEF r
  <2>5. \A q \in Procs, d \in Tasks : hyd'[q][d].value <= answers
    BY <2>2, <2>3, <2>4, ReadsType DEF SnapInv, Bounded, Reread, OneRead
  <2> QED BY <2>1, <2>5 DEF SnapInv, Bounded, Current, Fenced
<1> QED BY <1>1, <1>2

LEMMA MarketSnap ==
  ASSUME TypeOK, OwnInv, SnapInv, NEW p \in Procs, MarketBlock(p) PROVE SnapInv'
<1>0. answers \in Nat /\ draft \in [Procs -> Answers] /\ block \in [Procs -> BlockSteps]
      /\ snap \in [Procs -> [Keys -> Answers]]
  BY DEF TypeOK, Answers
<1>1. CASE \/ AskQuotes(p) \/ AskIndexes(p) \/ RoundEndsDegraded(p) \/ IndexesArrive(p)
           \/ TimelineUnread(p)
  <2>1. /\ UNCHANGED <<shared, answers, draft, snap, split, hyd>>
        /\ \A q \in Procs \ {p} : block'[q] = block[q]
        /\ block'[p] \in {"quotesSent", "indexesSent"} \/ (block'[p] = "none" /\ draft[p] = 0)
           \/ (block'[p] = "apply" /\ draft[p] # 0)
        /\ block[p] # "none"
    BY <1>0, <1>1 DEF AskQuotes, AskIndexes, RoundEndsDegraded, IndexesArrive, TimelineUnread
  <2>2. Bounded'
    BY <2>1 DEF SnapInv, Bounded
  <2>3. ASSUME Fenced', NEW q \in Procs PROVE Current(q)'
    BY <2>1, <2>3 DEF SnapInv, Fenced, Current
  <2> QED BY <2>2, <2>3 DEF SnapInv
<1>2. CASE QuotesArrive(p)
  <2>1. /\ UNCHANGED <<shared, snap, split, hyd>> /\ answers' = answers + 1
        /\ \A q \in Procs \ {p} : block'[q] = block[q] /\ draft'[q] = draft[q]
        /\ draft'[p] = answers + 1 /\ block'[p] = "indexes" /\ block[p] = "quotesSent"
    BY <1>0, <1>2 DEF QuotesArrive
  <2>2. Bounded'
    <3>1. \A k \in Keys : shared.snap[k] \in Nat
      BY DEF TypeOK, Answers
    <3>2. \A q \in Procs, k \in Keys : snap[q][k] \in Nat
      BY DEF TypeOK, Answers
    <3>3. \A q \in Procs, d \in Tasks : hyd[q][d].value \in Nat
      BY DEF TypeOK, Answers
    <3>4. \A q \in Procs : draft[q] \in Nat
      BY <1>0 DEF Answers
    <3>5. /\ \A k \in Keys : shared'.snap[k] <= answers'
          /\ \A q \in Procs, k \in Keys : snap'[q][k] <= answers'
          /\ \A q \in Procs, d \in Tasks : hyd'[q][d].value <= answers'
      BY <1>0, <2>1, <3>1, <3>2, <3>3 DEF SnapInv, Bounded
    <3>6. ASSUME NEW q \in Procs
          PROVE  draft'[q] <= answers' /\ (block'[q] \in {"apply", "persist"} => draft'[q] # 0)
      <4>1. draft[q] <= answers /\ (block[q] \in {"apply", "persist"} => draft[q] # 0)
        BY DEF SnapInv, Bounded
      <4> QED BY <1>0, <2>1, <3>4, <4>1
    <3> QED BY <3>5, <3>6 DEF Bounded
  <2>3. ASSUME Fenced', NEW q \in Procs PROVE Current(q)'
    <3>1. Fenced
      BY <2>1, <2>3 DEF Fenced
    <3>2. CASE q = p
      BY <2>1, <3>2 DEF Current
    <3>3. CASE q # p
      <4>1. block[q] = "none"
        BY <2>1, <3>1, <3>3, OneBlock DEF Fenced
      <4>2. draft[q] = 0
        BY <3>1, <4>1 DEF SnapInv, Current
      <4> QED BY <2>1, <3>3, <4>1, <4>2 DEF Current
    <3> QED BY <3>2, <3>3
  <2> QED BY <2>2, <2>3 DEF SnapInv
<1>3. CASE QuotesDegraded(p)
  <2>1. /\ UNCHANGED <<shared, answers, snap, split, hyd>>
        /\ \A q \in Procs \ {p} : block'[q] = block[q] /\ draft'[q] = draft[q]
        /\ draft'[p] = 0 /\ block'[p] = "indexes"
    BY <1>0, <1>3 DEF QuotesDegraded
  <2> QED BY <1>0, <2>1 DEF SnapInv, Bounded, Fenced, Current
<1>4. CASE BlockApplies(p)
  <2>1. /\ UNCHANGED <<shared, answers, draft, split, hyd>> /\ block[p] = "apply"
        /\ \A q \in Procs \ {p} : block'[q] = block[q] /\ snap'[q] = snap[q]
        /\ block'[p] = "persist" /\ \A k \in Keys : snap'[p][k] = draft[p]
    BY <1>0, <1>4 DEF BlockApplies
  <2>2. draft[p] # 0 /\ (Fenced => draft[p] = answers)
    BY <2>1 DEF SnapInv, Bounded, Current
  <2>3. draft[p] <= answers
    BY DEF SnapInv, Bounded
  <2>4. Bounded'
    BY <2>1, <2>2, <2>3 DEF SnapInv, Bounded
  <2>5. ASSUME Fenced', NEW q \in Procs PROVE Current(q)'
    <3>1. Current(q) /\ draft[p] = answers
      BY <2>1, <2>2, <2>5 DEF SnapInv, Fenced
    <3> QED BY <2>1, <3>1 DEF Current
  <2> QED BY <2>4, <2>5 DEF SnapInv
<1>5. CASE BlockPersists(p)
  <2>1. /\ UNCHANGED <<answers, snap, split, hyd>>
        /\ \A q \in Procs \ {p} : block'[q] = block[q] /\ draft'[q] = draft[q]
        /\ draft'[p] = 0 /\ block'[p] = "none"
        /\ shared'.snap \in {shared.snap, snap[p]}
    BY <1>0, <1>5 DEF BlockPersists, Written
  <2>2. Bounded'
    <3>1. ASSUME NEW k \in Keys PROVE shared'.snap[k] <= answers'
      BY <1>0, <2>1 DEF SnapInv, Bounded
    <3>2. ASSUME NEW q \in Procs
          PROVE  /\ draft'[q] <= answers'
                 /\ block'[q] \in {"apply", "persist"} => draft'[q] # 0
      <4>1. CASE q = p
        BY <1>0, <2>1, <4>1, AnswersCount
      <4>2. CASE q # p
        BY <1>0, <2>1, <4>2 DEF SnapInv, Bounded
      <4> QED BY <4>1, <4>2
    <3>3. /\ \A q \in Procs, k \in Keys : snap'[q][k] <= answers'
          /\ \A q \in Procs, d \in Tasks : hyd'[q][d].value <= answers'
      BY <1>0, <2>1 DEF SnapInv, Bounded
    <3> QED BY <3>1, <3>2, <3>3 DEF Bounded
  <2>3. ASSUME Fenced', NEW q \in Procs PROVE Current(q)'
    BY <2>1, <2>3 DEF SnapInv, Fenced, Current
  <2> QED BY <2>2, <2>3 DEF SnapInv
<1> QED BY <1>1, <1>2, <1>3, <1>4, <1>5 DEF MarketBlock

LEMMA RequestSnap ==
  ASSUME TypeOK, SnapInv, NEW p \in Procs, Request(p) PROVE SnapInv'
<1>0. "request" \in Tasks /\ hyd \in [Procs -> [Tasks -> Reads]]
  BY DEF Tasks, TypeOK, Reads
<1>1. UNCHANGED <<shared, answers, block, draft, snap>> /\ split \subseteq split'
  BY DEF Request, StockRequest, AskStock, SnapshotRequest, TimelineRequest, TimelineKeeps,
         EditPool
<1>2. \A q \in Procs, d \in Tasks : hyd'[q][d].value \in {hyd[q][d].value, 0}
  <2>1. CASE hyd' = hyd
    BY <2>1
  <2>2. CASE TimelineRequest(p)
    <3> DEFINE r == [hyd[p]["request"] EXCEPT !.line = shared.line]
    <3>1. hyd[p]["request"] \in Reads /\ shared.line \in SUBSET Answers
      BY <1>0 DEF TypeOK
    <3>2. r \in Reads /\ r.value = hyd[p]["request"].value
          /\ hyd' = [hyd EXCEPT ![p]["request"] = r]
      BY <2>2, <3>1 DEF Reads, TimelineRequest
    <3> HIDE DEF r
    <3> QED BY <1>0, <3>2, ReadsType DEF Reread, OneRead
  <2>3. CASE TimelineKeeps(p)
    <3>1. hyd' = [hyd EXCEPT ![p]["request"] = Read(1)] /\ Read(1).value = 0
      BY <2>3 DEF TimelineKeeps, Read
    <3> QED BY <1>0, <3>1, KeyType, ReadsType DEF Reread, OneRead
  <2> QED BY <2>1, <2>2, <2>3 DEF Request, StockRequest, AskStock, SnapshotRequest, EditPool
<1> QED BY <1>1, <1>2, SnapStill

LEMMA LifeSnap ==
  ASSUME TypeOK, SnapInv, NEW p \in Procs,
         Start(p) \/ StopCancels(p) \/ StopReleases(p) \/ Crash(p)
  PROVE  SnapInv'
<1>0. answers \in Nat /\ draft \in [Procs -> Answers] /\ block \in [Procs -> BlockSteps]
      /\ snap \in [Procs -> [Keys -> Answers]]
  BY DEF TypeOK, Answers
<1>1. CASE Start(p)
  BY <1>1, SnapStill DEF Start
<1>2. CASE StopCancels(p)
  <2>1. /\ UNCHANGED <<answers, snap, split, hyd>>
        /\ \A q \in Procs \ {p} : block'[q] = block[q] /\ draft'[q] = draft[q]
        /\ draft'[p] = 0 /\ block'[p] = "none"
        /\ shared'.snap \in {shared.snap, snap[p]}
    BY <1>0, <1>2 DEF StopCancels, Written
  <2>2. Bounded'
    <3>1. ASSUME NEW k \in Keys PROVE shared'.snap[k] <= answers'
      BY <1>0, <2>1 DEF SnapInv, Bounded
    <3>2. ASSUME NEW q \in Procs
          PROVE  /\ draft'[q] <= answers'
                 /\ block'[q] \in {"apply", "persist"} => draft'[q] # 0
      <4>1. CASE q = p
        BY <1>0, <2>1, <4>1, AnswersCount
      <4>2. CASE q # p
        BY <1>0, <2>1, <4>2 DEF SnapInv, Bounded
      <4> QED BY <4>1, <4>2
    <3>3. /\ \A q \in Procs, k \in Keys : snap'[q][k] <= answers'
          /\ \A q \in Procs, d \in Tasks : hyd'[q][d].value <= answers'
      BY <1>0, <2>1 DEF SnapInv, Bounded
    <3> QED BY <3>1, <3>2, <3>3 DEF Bounded
  <2>3. ASSUME Fenced', NEW q \in Procs PROVE Current(q)'
    BY <2>1, <2>3 DEF SnapInv, Fenced, Current
  <2> QED BY <2>2, <2>3 DEF SnapInv
<1>3. CASE StopReleases(p) \/ Crash(p)
  <2>1. /\ Forgets(p) /\ UNCHANGED <<shared, answers, split>>
    BY <1>3 DEF StopReleases, Crash
  <2>2. /\ \A q \in Procs \ {p} : /\ block'[q] = block[q] /\ draft'[q] = draft[q]
                                   /\ snap'[q] = snap[q] /\ hyd'[q] = hyd[q]
        /\ draft'[p] = 0 /\ block'[p] = "none"
        /\ \A k \in Keys : snap'[p][k] = 0
        /\ \A d \in Tasks : hyd'[p][d].value = 0
    BY <2>1 DEF Forgets, TypeOK, NoSnap, NoHyd, Read
  <2>3. Bounded'
    <3>1. \A k \in Keys : shared'.snap[k] <= answers'
      BY <1>0, <2>1 DEF SnapInv, Bounded
    <3>2. ASSUME NEW q \in Procs
          PROVE  /\ \A k \in Keys : snap'[q][k] <= answers'
                 /\ \A d \in Tasks : hyd'[q][d].value <= answers'
                 /\ draft'[q] <= answers'
                 /\ block'[q] \in {"apply", "persist"} => draft'[q] # 0
      <4>1. CASE q = p
        BY <2>1, <2>2, <4>1, AnswersCount
      <4>2. CASE q # p
        BY <1>0, <2>1, <2>2, <4>2 DEF SnapInv, Bounded
      <4> QED BY <4>1, <4>2
    <3> QED BY <3>1, <3>2 DEF Bounded
  <2>4. ASSUME Fenced', NEW q \in Procs PROVE Current(q)'
    BY <2>1, <2>2, <2>4 DEF SnapInv, Fenced, Current
  <2> QED BY <2>3, <2>4 DEF SnapInv
<1> QED BY <1>1, <1>2, <1>3

LEMMA NextSnap == TypeOK /\ OwnInv /\ SnapInv /\ [Next]_vars => SnapInv'
<1> SUFFICES ASSUME TypeOK, OwnInv, SnapInv, [Next]_vars PROVE SnapInv'
  OBVIOUS
<1>1. CASE LeaseExpires \/ LeaseLapses \/ UNCHANGED vars
  BY <1>1, SnapStill DEF LeaseExpires, LeaseLapses, vars
<1>2. CASE SnapshotExpires
  <2>1. /\ UNCHANGED <<answers, block, draft, snap, hyd, split>>
        /\ \A k \in Keys : shared'.snap[k] = 0
    BY <1>2 DEF SnapshotExpires, NoSnap, TypeOK
  <2>2. answers \in Nat
    BY DEF TypeOK, Answers
  <2> QED BY <2>1, <2>2 DEF SnapInv, Bounded, Fenced, Current
<1>3. ASSUME NEW p \in Procs, NEW c \in Tasks, Acquire(p, c) \/ Hydrate(p, c) PROVE SnapInv'
  BY <1>3, AcquireSnap, HydrateSnap
<1>4. ASSUME NEW p \in Procs, Round(p) \/ MarketBlock(p) \/ Request(p) PROVE SnapInv'
  BY <1>4, RoundSnap, MarketSnap, RequestSnap
<1>5. ASSUME NEW p \in Procs, Start(p) \/ StopCancels(p) \/ StopReleases(p) \/ Crash(p)
      PROVE  SnapInv'
  BY <1>5, LifeSnap
<1> QED BY <1>1, <1>2, <1>3, <1>4, <1>5 DEF Next

\* Redis's snapshot and timeline are written by a block, or expire.
LEMMA NextWrites ==
  ASSUME [Next]_vars
  PROVE  \/ shared' = shared \/ SnapshotExpires
         \/ \E p \in Procs : block[p] = "persist" /\ shared' = Written(p)
<1>1. ASSUME NEW p \in Procs, MarketBlock(p)
      PROVE  shared' = shared \/ (block[p] = "persist" /\ shared' = Written(p))
  BY <1>1 DEF MarketBlock, AskQuotes, QuotesArrive, QuotesDegraded, AskIndexes,
              RoundEndsDegraded, IndexesArrive, TimelineUnread, BlockApplies, BlockPersists
<1>2. ASSUME NEW p \in Procs, Start(p) \/ StopCancels(p) \/ StopReleases(p) \/ Crash(p)
      PROVE  shared' = shared \/ (block[p] = "persist" /\ shared' = Written(p))
  BY <1>2 DEF Start, StopCancels, StopReleases, Crash
<1>3. ASSUME NEW p \in Procs, Round(p) \/ Request(p) PROVE shared' = shared
  BY <1>3 DEF Round, UseReference, ReadReference, ReferenceLoads, ReferenceFails, ForcedEnds,
              Request, StockRequest, AskStock, SnapshotRequest, TimelineRequest,
              TimelineKeeps, EditPool
<1>4. ASSUME NEW p \in Procs, NEW c \in Tasks, Acquire(p, c) \/ Hydrate(p, c)
      PROVE  shared' = shared
  BY <1>4 DEF Acquire, SetLease, GetLease, RenewLease, LeaseFails, Hydrate, HydrateReads,
              HydrateKeeps
<1>5. CASE LeaseExpires \/ LeaseLapses \/ UNCHANGED vars
  BY <1>5 DEF LeaseExpires, LeaseLapses, vars
<1> QED BY <1>1, <1>2, <1>3, <1>4, <1>5 DEF Next

Forward == \A k \in Keys : shared'.snap[k] # 0 /\ shared'.snap[k] < shared.snap[k]
                            => {"lapse", "hydration"} \intersect split # {}

\* Only a block writes the snapshot, and while the lease has not run out on it, what it
\* writes is the last answer.
LEMMA NextForward == TypeOK /\ SnapInv /\ [Next]_vars => Forward
<1> SUFFICES ASSUME TypeOK, SnapInv, [Next]_vars, Fenced, NEW k \in Keys,
                    shared'.snap[k] # 0
             PROVE  ~(shared'.snap[k] < shared.snap[k])
  BY DEF Forward, Fenced
<1>0. answers \in Nat /\ shared.snap[k] \in Nat /\ shared.snap[k] <= answers
  BY DEF TypeOK, Answers, SnapInv, Bounded
<1>1. CASE shared' = shared
  BY <1>0, <1>1
<1>2. CASE SnapshotExpires
  BY <1>2 DEF SnapshotExpires, NoSnap, TypeOK
<1>3. ASSUME NEW p \in Procs, block[p] = "persist", shared' = Written(p)
      PROVE  ~(shared'.snap[k] < shared.snap[k])
  <2>1. snap[p][k] = answers
    BY <1>3 DEF SnapInv, Current
  <2> QED BY <1>0, <1>3, <2>1 DEF Written
<1> QED BY <1>1, <1>2, <1>3, NextWrites

\* SnapshotForward, for any number of instances and answers, whatever crashes, takes
\* over, fails or is hydrated late.
THEOREM SnapshotsGoForward == Spec => SnapshotForward
<1>1. TypeOK /\ SnapInv /\ [Next]_vars => [Forward]_vars
  BY NextForward
<1>2. Spec => [][Forward]_vars
  BY <1>1, InitType, NextType, InitOwn, NextOwn, InitSnap, NextSnap, PTL DEF Spec
<1> QED BY <1>2 DEF SnapshotForward, Forward

(* --------------------------- the shared timeline -------------------------- *)

\* The one instance with a timeline of its own owns the lease and has every point that
\* Redis has, unless it could not read them; a block that is about to write has them too.
Carries(p) ==
  /\ line[p] # {} => lease = p
  /\ line[p] # {} \/ block[p] \in {"apply", "persist"} => unread[p] \/ shared.line \subseteq line[p]

Undisturbed == {"lapse", "page"} \intersect split = {}

LineInv ==
  /\ \A p \in Procs : life[p] = "down" => line[p] = {}
  /\ Undisturbed => \A p \in Procs : Carries(p)

LEMMA InitLine == Init => LineInv
<1> SUFFICES ASSUME Init PROVE LineInv
  OBVIOUS
<1>1. \A p \in Procs : line[p] = {} /\ block[p] = "none"
  BY DEF Init
<1> QED BY <1>1 DEF LineInv, Carries

\* A step that leaves the timelines alone, and takes the lease from nobody.
LEMMA LineStill ==
  ASSUME LineInv, UNCHANGED <<line, unread>>, shared'.line = shared.line,
         lease' = lease \/ lease = None,
         \A q \in Procs : life'[q] = "down" => life[q] = "down",
         \A q \in Procs : block'[q] \in {"apply", "persist"}
                            => block[q] \in {"apply", "persist"},
         split \subseteq split'
  PROVE  LineInv'
<1>1. ASSUME Undisturbed', NEW q \in Procs PROVE Carries(q)'
  <2>1. Carries(q)
    BY <1>1 DEF LineInv, Undisturbed
  <2> QED BY <2>1 DEF Carries
<1> QED BY <1>1 DEF LineInv

LEMMA MarketLine ==
  ASSUME TypeOK, OwnInv, LineInv, NEW p \in Procs, MarketBlock(p) PROVE LineInv'
<1>0. /\ life[p] = "up" /\ block[p] # "none" /\ UNCHANGED <<lease, life, split>>
      /\ \A q \in Procs \ {p} : /\ block'[q] = block[q] /\ line'[q] = line[q]
                                /\ unread'[q] = unread[q]
  BY DEF MarketBlock, AskQuotes, QuotesArrive, QuotesDegraded, AskIndexes,
         RoundEndsDegraded, IndexesArrive, TimelineUnread, BlockApplies, BlockPersists, TypeOK
<1>1. CASE \/ AskQuotes(p) \/ QuotesArrive(p) \/ QuotesDegraded(p) \/ AskIndexes(p)
           \/ RoundEndsDegraded(p)
  <2>1. UNCHANGED <<line, shared, unread>> /\ block'[p] \notin {"apply", "persist"}
    BY <1>1 DEF AskQuotes, QuotesArrive, QuotesDegraded, AskIndexes, RoundEndsDegraded, TypeOK
  <2> QED BY <1>0, <2>1, LineStill
<1>2. CASE ~Undisturbed
  BY <1>0, <1>2 DEF LineInv, Undisturbed
<1>3. ASSUME Undisturbed
      PROVE  /\ lease = p /\ Carries(p)
             /\ \A q \in Procs \ {p} : block[q] = "none" /\ line[q] = {}
  <2>1. lease = p /\ \A q \in Procs \ {p} : block[q] = "none"
    BY <1>0, <1>3, OneBlock DEF Undisturbed
  <2> QED BY <1>3, <2>1 DEF LineInv, Carries
<1>4. \A q \in Procs : life'[q] = "down" => line'[q] = {}
  BY <1>0 DEF LineInv
<1>5. CASE Undisturbed /\ IndexesArrive(p)
  <2>1. /\ shared' = shared /\ unread' = unread
        /\ line'[p] = IF line[p] = {} THEN shared.line ELSE line[p]
    BY <1>5 DEF IndexesArrive, TypeOK
  <2>2. unread[p] \/ shared.line \subseteq line'[p]
    BY <1>3, <1>5, <2>1 DEF Carries
  <2> QED BY <1>0, <1>3, <1>4, <1>5, <2>1, <2>2 DEF LineInv, Carries
<1>8. CASE Undisturbed /\ TimelineUnread(p)
  <2>1. /\ shared' = shared /\ line' = line /\ line[p] = {} /\ unread'[p] = (shared.line # {})
    BY <1>8 DEF TimelineUnread, TypeOK
  <2>2. unread'[p] \/ shared.line \subseteq line'[p]
    BY <2>1
  <2> QED BY <1>0, <1>3, <1>4, <1>8, <2>1, <2>2 DEF LineInv, Carries
<1>6. CASE Undisturbed /\ BlockApplies(p)
  <2>1. /\ shared' = shared /\ unread' = unread
        /\ line'[p] = line[p] \union {draft[p]} /\ block[p] = "apply"
    BY <1>6 DEF BlockApplies, TypeOK
  <2>2. unread[p] \/ shared.line \subseteq line'[p]
    BY <1>3, <1>6, <2>1 DEF Carries
  <2> QED BY <1>0, <1>3, <1>4, <1>6, <2>1, <2>2 DEF LineInv, Carries
<1>7. CASE Undisturbed /\ BlockPersists(p)
  <2>1. /\ \/ shared'.line = line[p]
           \/ shared' = shared /\ unread' = unread
        /\ line' = line /\ block'[p] = "none" /\ block[p] = "persist"
    BY <1>7 DEF BlockPersists, Written, TypeOK
  <2>2. unread'[p] \/ shared'.line \subseteq line'[p]
    BY <1>3, <1>7, <2>1 DEF Carries
  <2> QED BY <1>0, <1>3, <1>4, <1>7, <2>1, <2>2 DEF LineInv, Carries
<1> QED BY <1>1, <1>2, <1>5, <1>6, <1>7, <1>8 DEF MarketBlock

LEMMA NextLine == TypeOK /\ OwnInv /\ LineInv /\ [Next]_vars => LineInv'
<1> SUFFICES ASSUME TypeOK, OwnInv, LineInv, [Next]_vars PROVE LineInv'
  OBVIOUS
<1>1. CASE LeaseExpires
  <2>1. /\ lease \in Procs /\ life[lease] = "down" /\ lease' = None
        /\ UNCHANGED <<line, shared, life, block, split, unread>>
    BY <1>1 DEF LeaseExpires, TypeOK
  <2>2. line[lease] = {}
    BY <2>1 DEF LineInv
  <2> QED BY <2>1, <2>2 DEF LineInv, Undisturbed, Carries
<1>2. CASE LeaseLapses
  BY <1>2 DEF LeaseLapses, LineInv, Undisturbed
<1>3. CASE SnapshotExpires \/ UNCHANGED vars
  <2>1. UNCHANGED <<line, lease, life, block, split, unread>> /\ shared'.line = shared.line
    BY <1>3 DEF SnapshotExpires, vars, TypeOK
  <2> QED BY <2>1, LineStill
<1>4. ASSUME NEW p \in Procs, NEW c \in Tasks, Acquire(p, c) \/ Hydrate(p, c) PROVE LineInv'
  <2>1. /\ UNCHANGED <<line, shared, life, block, unread>> /\ (lease' = lease \/ lease = None)
        /\ split \subseteq split'
    BY <1>4 DEF Acquire, SetLease, GetLease, RenewLease, LeaseFails, Hydrate, HydrateReads,
                HydrateKeeps
  <2> QED BY <2>1, LineStill
<1>5. ASSUME NEW p \in Procs, Round(p) PROVE LineInv'
  <2>1. /\ UNCHANGED <<line, shared, life, lease, split, unread>>
        /\ block' = block \/ Schedules(p)
    BY <1>5 DEF Round, UseReference, ReadReference, ReferenceLoads, ReferenceFails, ForcedEnds
  <2>2. \A q \in Procs : block'[q] = block[q] \/ block'[q] = "quotes"
    BY <2>1, SchedulesType
  <2> QED BY <2>1, <2>2, LineStill
<1>6. ASSUME NEW p \in Procs, MarketBlock(p) PROVE LineInv'
  BY <1>6, MarketLine
<1>7. ASSUME NEW p \in Procs, Request(p) PROVE LineInv'
  <2>1. CASE TimelineKeeps(p)
    <3>1. /\ life[p] = "up" /\ UNCHANGED <<lease, shared, life, block>>
          /\ line' = [line EXCEPT ![p] = hyd[p]["request"].line]
          /\ unread' = [unread EXCEPT ![p] = FALSE]
          /\ split' = IF lease = p /\ shared.line \subseteq hyd[p]["request"].line THEN split
                      ELSE split \union {"page"}
      BY <2>1 DEF TimelineKeeps, Running
    <3>2. /\ line'[p] = hyd[p]["request"].line
          /\ \A q \in Procs \ {p} : line'[q] = line[q] /\ unread'[q] = unread[q]
      BY <3>1 DEF TypeOK
    <3>3. ASSUME Undisturbed', NEW q \in Procs PROVE Carries(q)'
      <4>1. lease = p /\ shared.line \subseteq hyd[p]["request"].line /\ split' = split
        BY <3>1, <3>3 DEF Undisturbed
      <4>2. Carries(q)
        BY <3>3, <4>1 DEF LineInv, Undisturbed
      <4> QED BY <3>1, <3>2, <4>1, <4>2 DEF Carries
    <3>4. \A q \in Procs : life'[q] = "down" => line'[q] = {}
      BY <3>1, <3>2 DEF LineInv
    <3> QED BY <3>3, <3>4 DEF LineInv
  <2>2. CASE ~TimelineKeeps(p)
    <3>1. UNCHANGED <<line, shared, life, lease, split, block, unread>>
      BY <1>7, <2>2 DEF Request, StockRequest, AskStock, SnapshotRequest, TimelineRequest,
                        EditPool
    <3> QED BY <3>1, LineStill
  <2> QED BY <2>1, <2>2
<1>8. ASSUME NEW p \in Procs, Start(p) PROVE LineInv'
  <2>1. /\ UNCHANGED <<line, shared, lease, split, block, unread>>
        /\ \A q \in Procs : life'[q] = "down" => life[q] = "down"
    BY <1>8 DEF Start, TypeOK
  <2> QED BY <2>1, LineStill
<1>9. ASSUME NEW p \in Procs, StopCancels(p) PROVE LineInv'
  <2>1. /\ UNCHANGED <<line, lease, split, unread>>
        /\ \A q \in Procs : life'[q] = "down" => life[q] = "down"
        /\ \A q \in Procs \ {p} : block'[q] = block[q]
        /\ block'[p] = "none"
        /\ shared' = shared \/ (block[p] = "persist" /\ shared'.line = line[p])
    BY <1>9 DEF StopCancels, Written, TypeOK
  <2>2. CASE shared' = shared
    BY <2>1, <2>2, LineStill
  <2>3. CASE block[p] = "persist" /\ shared'.line = line[p]
    <3>1. ASSUME Undisturbed', NEW q \in Procs PROVE Carries(q)'
      <4>1. /\ \A o \in Procs : Carries(o)
            /\ lease = p /\ \A o \in Procs \ {p} : block[o] = "none"
        BY <2>1, <2>3, <3>1, OneBlock DEF LineInv, Undisturbed
      <4>2. q # p => line[q] = {}
        BY <4>1 DEF Carries
      <4> QED BY <2>1, <2>3, <4>1, <4>2 DEF Carries
    <3> QED BY <2>1, <3>1 DEF LineInv
  <2> QED BY <2>1, <2>2, <2>3
<1>10. ASSUME NEW p \in Procs, StopReleases(p) \/ Crash(p) PROVE LineInv'
  <2>1. /\ Forgets(p) /\ UNCHANGED <<shared, split>> /\ life' = [life EXCEPT ![p] = "down"]
        /\ lease' = lease \/ lease = p
    BY <1>10 DEF StopReleases, Crash
  <2>2. /\ line'[p] = {} /\ block'[p] = "none"
        /\ \A q \in Procs \ {p} : /\ line'[q] = line[q] /\ block'[q] = block[q]
                                  /\ life'[q] = life[q] /\ unread'[q] = unread[q]
    BY <2>1 DEF Forgets, TypeOK
  <2>3. ASSUME Undisturbed', NEW q \in Procs PROVE Carries(q)'
    <3>1. Carries(q)
      BY <2>1, <2>3 DEF LineInv, Undisturbed
    <3> QED BY <2>1, <2>2, <3>1 DEF Carries
  <2>4. \A q \in Procs : life'[q] = "down" => line'[q] = {}
    BY <2>2 DEF LineInv
  <2> QED BY <2>3, <2>4 DEF LineInv
<1> QED BY <1>1, <1>2, <1>3, <1>4, <1>5, <1>6, <1>7, <1>8, <1>9, <1>10 DEF Next

CarriedOn ==
  \/ shared.line \subseteq shared'.line
  \/ \E p \in Procs : unread[p] /\ shared' = Written(p)
  \/ {"lapse", "page"} \intersect split # {}

LEMMA NextCarried == TypeOK /\ LineInv /\ [Next]_vars => CarriedOn
<1> SUFFICES ASSUME TypeOK, LineInv, [Next]_vars, Undisturbed
             PROVE  \/ shared.line \subseteq shared'.line
                    \/ \E p \in Procs : unread[p] /\ shared' = Written(p)
  BY DEF CarriedOn, Undisturbed
<1>1. CASE shared' = shared
  BY <1>1
<1>2. CASE SnapshotExpires
  BY <1>2 DEF SnapshotExpires, TypeOK
<1>3. ASSUME NEW p \in Procs, block[p] = "persist", shared' = Written(p), ~unread[p]
      PROVE  shared.line \subseteq shared'.line
  BY <1>3 DEF LineInv, Carries, Written
<1> QED BY <1>1, <1>2, <1>3, NextWrites

\* TimelineCarriedOn, for any number of instances and points: through stops, crashes,
\* takeovers and failed writes the shared timeline loses points only to the first write of
\* an instance that could not read it.
THEOREM TimelinesAreCarriedOn == Spec => TimelineCarriedOn
<1>1. TypeOK /\ LineInv /\ [Next]_vars => [CarriedOn]_vars
  BY NextCarried
<1>2. Spec => [][CarriedOn]_vars
  BY <1>1, InitType, NextType, InitOwn, NextOwn, InitLine, NextLine, PTL DEF Spec
<1> QED BY <1>2 DEF TimelineCarriedOn, CarriedOn
=============================================================================
