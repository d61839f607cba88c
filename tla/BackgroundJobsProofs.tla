------------------------ MODULE BackgroundJobsProofs ------------------------
(***************************************************************************)
(* What the jobs that run in the background keep.                          *)
(*                                                                         *)
(* A run of daily_close_minute_ingest (MinutePipeline): when the pipeline  *)
(* has ended well, every stock it was to fetch is in exactly one batch and *)
(* the bars of every batch are stored.  While it runs a stock is at one    *)
(* place: left to fetch, held by a worker, queued, in the writer's open    *)
(* batch, or in a batch that is stored.  The writer ends when it has taken *)
(* as many end marks as there are workers; counting the marks shows that   *)
(* by then nothing is at any place before.                                 *)
(*                                                                         *)
(* The versions of a strategy (StrategyVersions): what racing requests      *)
(* leave true of them, for every number of requests, versions, backtests   *)
(* and batches.                                                            *)
(***************************************************************************)
EXTENDS StrategyVersions, MinutePipeline, FiniteSetTheorems, FunctionTheorems, TLAPS

-----------------------------------------------------------------------------
(* The run of the minute ingest                                            *)

Levels == 0 .. Complete
StockItems == [stock : Stocks, rows : -1 .. Complete]
Phases == {"start", "pipeline", "draining", "raised", "counted", "factors", "success", "partial"}
Pcs == {"new", "fetching", "putting", "closing", "ending", "done"}
Holds(w) == worker[w].pc \in {"fetching", "putting"}

WorkerInv ==
    /\ worker \in [Workers -> [pc : Pcs, holds : StockItems \union {Item(0, 0), Item(0, -1)}]]
    /\ \A w \in Workers : Holds(w) => worker[w].holds \in StockItems
MinuteTypes ==
    /\ phase \in Phases /\ mode \in {"append_safe", "rebuild"}
    /\ bars \in [Stocks -> Levels] /\ factors \in [Stocks -> Levels]
    /\ toFetch \subseteq Stocks /\ targets \subseteq Stocks
    /\ WorkerInv
    /\ queue \in Seq(StockItems \union {Mark}) /\ Len(queue) =< Capacity
    /\ writer \in [pc : {"getting", "writing", "done"}, ended : 0 .. MaxConcurrent,
                   batch : Seq(StockItems)]
    /\ batches \in Seq(Seq(StockItems))
    /\ errors \in BOOLEAN /\ cancels \in Nat

\* Where the stocks are.
Listed(seq) == {seq[i].stock : i \in 1 .. Len(seq)}
Held == {worker[w].holds.stock : w \in {v \in Workers : Holds(v)}}
Queued == Listed(queue) \ {0}
Open == Listed(writer.batch)
Stored == UNION {Listed(batches[b]) : b \in 1 .. Len(batches)}

Once(seq) == \A i, j \in 1 .. Len(seq) : seq[i].stock = seq[j].stock /\ seq[i].stock # 0 => i = j
OnceStored == \A b, c \in 1 .. Len(batches) :
                \A i \in 1 .. Len(batches[b]), j \in 1 .. Len(batches[c]) :
                  batches[b][i].stock = batches[c][j].stock => b = c /\ i = j
HeldOnce == \A v, w \in Workers :
              Holds(v) /\ Holds(w) /\ worker[v].holds.stock = worker[w].holds.stock => v = w
Apart(left, held, queued, grouped, stored) ==
    /\ left \intersect (held \union queued \union grouped \union stored) = {}
    /\ held \intersect (queued \union grouped \union stored) = {}
    /\ queued \intersect (grouped \union stored) = {}
    /\ grouped \intersect stored = {}
OnePlace == /\ HeldOnce /\ Once(queue) /\ Once(writer.batch) /\ OnceStored
            /\ Apart(toFetch, Held, Queued, Open, Stored)
Covered == \A s \in Stocks : \/ bars[s] = Complete
                             \/ s \in toFetch \union Held \union Queued \union Open \union Stored
BarsStored == \A b \in 1 .. Len(batches) : \A i \in 1 .. Len(batches[b]) :
                bars[batches[b][i].stock] >= batches[b][i].rows

\* What the writer may rely on when it counts end marks.
Marks(q) == {i \in 1 .. Len(q) : q[i] = Mark}
Counted == writer.ended + Cardinality(Marks(queue)) + Cardinality(Running) =< MaxConcurrent
LastIsMark == Running = {} /\ queue # <<>> => queue[Len(queue)] = Mark
Exhausted == \A w \in Workers : \/ worker[w].pc \in {"closing", "ending"}
                                \/ w = 1 /\ worker[w].pc = "done"
                                => toFetch = {}
WriterEnds == writer.pc = "done" => writer.ended = MaxConcurrent /\ writer.batch = <<>>

Pipeline == /\ OnePlace /\ Covered /\ BarsStored
            /\ Counted /\ LastIsMark /\ Exhausted /\ WriterEnds
PipelineInv == phase = "pipeline" => Pipeline
OutsideInv == /\ phase = "start" => batches = <<>> /\ queue = <<>> /\ Running = {}
              /\ phase # "pipeline" => writer.pc = "done"
MinuteInv == MinuteTypes /\ OutsideInv /\ PipelineInv /\ BatchesAccount
-----------------------------------------------------------------------------
(* Sequences of items: what a put, a get and a stored batch change. *)

\* An item appended is one stock more.
LEMMA ListedAppend ==
  ASSUME NEW S, NEW seq \in Seq(S), NEW x \in S
  PROVE  Listed(Append(seq, x)) = Listed(seq) \union {x.stock}
<1> DEFINE new == Append(seq, x)
<1>1. PICK n \in Nat : n = Len(seq)
  OBVIOUS
<1>2. Len(new) = n + 1 /\ new[n + 1] = x /\ \A i \in 1 .. n : new[i] = seq[i]
  BY <1>1
<1>3. 1 .. Len(new) = (1 .. n) \union {n + 1}
  BY <1>2
<1> QED BY <1>1, <1>2, <1>3 DEF Listed

\* A stock that was not listed is still listed once.
LEMMA OnceAppend ==
  ASSUME NEW S, NEW seq \in Seq(S), NEW x \in S, Once(seq), x.stock \notin Listed(seq) \ {0}
  PROVE  Once(Append(seq, x))
<1> DEFINE new == Append(seq, x)
<1>1. PICK n \in Nat : n = Len(seq)
  OBVIOUS
<1>2. Len(new) = n + 1 /\ new[n + 1] = x /\ \A i \in 1 .. n : new[i] = seq[i]
  BY <1>1
<1>3. \A i \in 1 .. n : seq[i].stock \in Listed(seq)
  BY <1>1 DEF Listed
<1> SUFFICES ASSUME NEW i \in 1 .. Len(new), NEW j \in 1 .. Len(new),
                    new[i].stock = new[j].stock, new[i].stock # 0
             PROVE  i = j
  BY DEF Once
<1>4. CASE i \in 1 .. n /\ j \in 1 .. n
  BY <1>1, <1>2, <1>4 DEF Once
<1>5. CASE i = n + 1 /\ j = n + 1
  BY <1>5
<1>6. CASE i = n + 1 /\ j \in 1 .. n
  BY <1>2, <1>3, <1>6
<1>7. CASE i \in 1 .. n /\ j = n + 1
  BY <1>2, <1>3, <1>7
<1> QED BY <1>2, <1>4, <1>5, <1>6, <1>7

\* The head of a sequence, and what its tail has.
LEMMA TailShifts ==
  ASSUME NEW S, NEW seq \in Seq(S), seq # <<>>
  PROVE  /\ Len(seq) \in Nat \ {0} /\ Len(Tail(seq)) = Len(seq) - 1
         /\ Head(seq) = seq[1] /\ Head(seq) \in S /\ Tail(seq) \in Seq(S)
         /\ \A i \in 1 .. Len(seq) - 1 : Tail(seq)[i] = seq[i + 1]
         /\ 1 .. Len(seq) = {1} \union {i + 1 : i \in 1 .. Len(seq) - 1}
<1>1. Len(seq) \in Nat \ {0}
  OBVIOUS
<1>2. PICK n \in Nat : Len(seq) = n + 1
  BY <1>1
<1>3. 1 .. n + 1 = {1} \union {i + 1 : i \in 1 .. n}
  <2>1. \A k \in 2 .. n + 1 : k - 1 \in 1 .. n /\ (k - 1) + 1 = k
    OBVIOUS
  <2>2. ASSUME NEW k \in 1 .. n + 1 PROVE k \in {1} \union {i + 1 : i \in 1 .. n}
    <3>1. CASE k = 1
      BY <3>1
    <3>2. CASE k \in 2 .. n + 1
      BY <3>2, <2>1
    <3> QED BY <3>1, <3>2
  <2> QED BY <2>2
<1> QED BY <1>1, <1>2, <1>3

\* The stock at the head leaves the list.
LEMMA ListedTail ==
  ASSUME NEW S, NEW seq \in Seq(S), seq # <<>>, Once(seq)
  PROVE  /\ Once(Tail(seq))
         /\ Head(seq).stock # 0 => Listed(Tail(seq)) \ {0} = (Listed(seq) \ {0}) \ {Head(seq).stock}
         /\ Head(seq).stock = 0 => Listed(Tail(seq)) \ {0} = Listed(seq) \ {0}
         /\ Head(seq).stock \in Listed(seq)
<1> DEFINE h == Head(seq).stock
           t == Tail(seq)
<1>0. Len(seq) \in Nat \ {0}
  BY TailShifts
<1>1. PICK n \in Nat : n + 1 = Len(seq)
  BY <1>0
<1>2. /\ Len(t) = n /\ h = seq[1].stock
      /\ \A i \in 1 .. n : t[i] = seq[i + 1]
  BY <1>1, TailShifts
<1>3. \A i \in 1 .. n : i + 1 \in 1 .. Len(seq) /\ i + 1 # 1
  BY <1>1
<1>4. Once(t)
  <2> SUFFICES ASSUME NEW i \in 1 .. n, NEW j \in 1 .. n, t[i].stock = t[j].stock, t[i].stock # 0
               PROVE  i = j
    BY <1>2 DEF Once
  <2>1. i + 1 = j + 1
    BY <1>2, <1>3 DEF Once
  <2> QED BY <2>1
<1>5. Listed(seq) = {h} \union Listed(t)
  <2>1. Listed(t) = {seq[i + 1].stock : i \in 1 .. n}
    BY <1>2 DEF Listed
  <2>2. 1 .. Len(seq) = {1} \union {i + 1 : i \in 1 .. n}
    BY <1>1, TailShifts
  <2>3. Listed(seq) = {seq[1].stock} \union {seq[i + 1].stock : i \in 1 .. n}
    BY <2>2 DEF Listed
  <2> QED BY <2>1, <2>3, <1>2
<1>6. h # 0 => h \notin Listed(t)
  <2> SUFFICES ASSUME h # 0, NEW i \in 1 .. n, t[i].stock = h
               PROVE  FALSE
    BY <1>2 DEF Listed
  <2>1. seq[i + 1].stock = seq[1].stock /\ seq[1].stock # 0 /\ 1 \in 1 .. Len(seq)
    BY <1>1, <1>2
  <2> QED BY <2>1, <1>3 DEF Once
<1> QED BY <1>4, <1>5, <1>6

\* The marks of a queue are numbers of places.
LEMMA MarksFinite ==
  ASSUME NEW S, NEW q \in Seq(S)
  PROVE  IsFiniteSet(Marks(q)) /\ Cardinality(Marks(q)) \in Nat
<1>1. PICK n \in Nat : n = Len(q)
  OBVIOUS
<1>2. IsFiniteSet(1 .. n) /\ Marks(q) \in SUBSET (1 .. n)
  BY <1>1, FS_Interval DEF Marks
<1>3. IsFiniteSet(Marks(q))
  BY <1>2, FS_Subset
<1> QED BY <1>3, FS_CardinalityType

\* An end mark put is one mark more, an item is none.
LEMMA MarksAppend ==
  ASSUME NEW S, NEW q \in Seq(S), NEW x \in S
  PROVE  /\ x = Mark => Cardinality(Marks(Append(q, x))) = Cardinality(Marks(q)) + 1
         /\ x # Mark => Cardinality(Marks(Append(q, x))) = Cardinality(Marks(q))
<1> DEFINE new == Append(q, x)
<1>1. PICK n \in Nat : n = Len(q)
  OBVIOUS
<1>2. Len(new) = n + 1 /\ new[n + 1] = x /\ \A i \in 1 .. n : new[i] = q[i]
  BY <1>1
<1>3. 1 .. Len(new) = (1 .. n) \union {n + 1}
  BY <1>2
<1>4. x = Mark => Marks(new) = Marks(q) \union {n + 1}
  BY <1>1, <1>2, <1>3 DEF Marks
<1>5. x # Mark => Marks(new) = Marks(q)
  BY <1>1, <1>2, <1>3 DEF Marks
<1>6. n + 1 \notin Marks(q)
  BY <1>1 DEF Marks
<1> QED BY <1>4, <1>5, <1>6, MarksFinite, FS_AddElement

\* Only a mark taken is one mark less.
LEMMA MarksTail ==
  ASSUME NEW S, NEW q \in Seq(S), q # <<>>
  PROVE  /\ Head(q) = Mark => Cardinality(Marks(Tail(q))) = Cardinality(Marks(q)) - 1
         /\ Head(q) # Mark => Cardinality(Marks(Tail(q))) = Cardinality(Marks(q))
         /\ Head(q) = Mark => Cardinality(Marks(q)) >= 1
<1> DEFINE t == Tail(q)
           later == Marks(q) \ {1}
           f == [i \in Marks(t) |-> i + 1]
<1>0. Len(q) \in Nat \ {0}
  BY TailShifts
<1>1. PICK n \in Nat : n + 1 = Len(q)
  BY <1>0
<1>2. /\ Len(t) = n /\ Head(q) = q[1] /\ t \in Seq(S)
      /\ \A i \in 1 .. n : t[i] = q[i + 1]
  BY <1>1, TailShifts
<1>3. \A i \in Marks(t) : i \in Nat /\ i + 1 \in later
  BY <1>1, <1>2 DEF Marks
<1>4. ASSUME NEW k \in later PROVE k \in Nat /\ k - 1 \in Marks(t)
  <2>1. k \in 2 .. n + 1 /\ q[k] = Mark
    BY <1>1 DEF Marks
  <2>2. k - 1 \in 1 .. n /\ (k - 1) + 1 = k
    BY <2>1
  <2> QED BY <2>1, <2>2, <1>2 DEF Marks
<1>5. f \in Bijection(Marks(t), later)
  <2>1. f \in Injection(Marks(t), later)
    BY <1>3 DEF Injection, IsInjective
  <2>2. f \in Surjection(Marks(t), later)
    <3>1. f \in [Marks(t) -> later]
      BY <1>3
    <3>2. ASSUME NEW k \in later PROVE \E i \in Marks(t) : f[i] = k
      <4>1. k - 1 \in Marks(t) /\ k \in Nat
        BY <1>4
      <4>2. f[k - 1] = k
        BY <4>1
      <4> QED BY <4>1, <4>2
    <3> QED BY <3>1, <3>2 DEF Surjection
  <2> QED BY <2>1, <2>2 DEF Bijection
<1>6. Cardinality(Marks(t)) = Cardinality(later)
  <2>1. ExistsBijection(Marks(t), later)
    BY <1>5 DEF ExistsBijection
  <2> QED BY <2>1, <1>2, MarksFinite, FS_Bijection
<1>7. 1 \in Marks(q) <=> Head(q) = Mark
  BY <1>1, <1>2 DEF Marks
<1>8. IsFiniteSet(Marks(q)) /\ Cardinality(Marks(q)) \in Nat /\ Cardinality(Marks(t)) \in Nat
  BY <1>2, MarksFinite
<1>9. Cardinality(later) = IF 1 \in Marks(q) THEN Cardinality(Marks(q)) - 1 ELSE Cardinality(Marks(q))
  BY <1>8, FS_RemoveElement
<1> HIDE DEF t, later
<1> QED BY <1>6, <1>7, <1>8, <1>9 DEF t

-----------------------------------------------------------------------------
(* Types. *)

Moves(w, pc, h) == worker' = [worker EXCEPT ![w] = W(pc, h)]

\* One worker moves.
LEMMA WorkerTyped ==
  ASSUME WorkerInv, NEW w \in Workers, NEW pc \in Pcs,
         NEW h \in StockItems \union {Item(0, 0), Item(0, -1)},
         pc \in {"fetching", "putting"} => h \in StockItems,
         Moves(w, pc, h)
  PROVE  WorkerInv'
BY DEF WorkerInv, Holds, W, Moves

\* The next stock is one of those to fetch.
LEMMA NextTyped ==
  ASSUME MinuteTypes, NEW w \in Workers, TakesNext(w)
  PROVE  WorkerInv' /\ toFetch' \subseteq Stocks
<1>1. CASE toFetch = {} /\ Moves(w, "closing", Nothing)
           /\ UNCHANGED toFetch
  BY <1>1, WorkerTyped DEF MinuteTypes, Pcs, Nothing
<1>2. ASSUME NEW s \in toFetch, Moves(w, "fetching", Item(s, 0)),
             toFetch' = toFetch \ {s}
      PROVE  WorkerInv' /\ toFetch' \subseteq Stocks
  <2>1. Item(s, 0) \in StockItems
    BY DEF MinuteTypes, StockItems, Item, Complete
  <2> QED BY <2>1, <1>2, WorkerTyped DEF MinuteTypes, Pcs
<1> QED BY <1>1, <1>2 DEF TakesNext, Moves

\* Cancelled tasks are still workers and a writer.
LEMMA CancelTyped ==
  ASSUME MinuteTypes, NEW ws, CancelTasks(ws),
         ws \in [Workers -> [pc : Pcs, holds : StockItems \union {Item(0, 0), Item(0, -1)}]]
  PROVE  /\ WorkerInv' /\ phase' \in Phases
         /\ writer' \in [pc : {"getting", "writing", "done"}, ended : 0 .. MaxConcurrent,
                         batch : Seq(StockItems)]
<1>1. WorkerInv'
  <2>1. \A w \in Workers : Cancelled(ws[w]) \in {W("closing", Nothing), W("ending", Nothing), Gone}
    BY DEF Cancelled
  <2>2. \A w \in Workers : worker'[w] = Cancelled(ws[w])
    BY DEF CancelTasks
  <2>3. worker' = [w \in Workers |-> worker'[w]]
    BY DEF CancelTasks
  <2> QED BY <2>1, <2>2, <2>3 DEF WorkerInv, Holds, W, Gone, Nothing, Pcs
<1>2. phase' \in Phases
  BY DEF CancelTasks, Phases
<1> QED BY <1>1, <1>2 DEF CancelTasks, MinuteTypes

\* A batch taken or stored is a sequence of items.
LEMMA FlushTyped ==
  ASSUME MinuteTypes, NEW batch \in Seq(StockItems), NEW flush \in BOOLEAN,
         NEW pc \in {"getting", "writing", "done"}, FlushOr(batch, flush, pc)
  PROVE  /\ writer' \in [pc : {"getting", "writing", "done"}, ended : 0 .. MaxConcurrent,
                         batch : Seq(StockItems)]
         /\ batches' \in Seq(Seq(StockItems))
<1>1. <<>> \in Seq(StockItems)
  OBVIOUS
<1>2. Append(batches, batch) \in Seq(Seq(StockItems))
  BY DEF MinuteTypes
<1> QED BY <1>1, <1>2 DEF FlushOr, MinuteTypes

\* What is committed is the most of what a stock had and what the batch has of it.
Got(s) == {writer.batch[i].rows : i \in {j \in Rows(writer.batch) : writer.batch[j].stock = s}}
Most(s) == CHOOSE n \in Got(s) \union {bars[s]} : \A m \in Got(s) \union {bars[s]} : m =< n

LEMMA MostIsMost ==
  ASSUME MinuteTypes, Once(writer.batch), MinuteAssumption, NEW s \in Stocks
  PROVE  /\ Most(s) \in Levels /\ Most(s) >= bars[s]
         /\ \A i \in 1 .. Len(writer.batch) :
              writer.batch[i].stock = s => Most(s) >= writer.batch[i].rows
<1> DEFINE all == Got(s) \union {bars[s]}
<1>1. bars[s] \in 0 .. 2 /\ writer.batch \in Seq(StockItems)
  BY DEF MinuteTypes, Levels, Complete
<1>2. ASSUME NEW i \in 1 .. Len(writer.batch) PROVE writer.batch[i].rows \in -1 .. 2
  <2>1. writer.batch[i] \in StockItems
    BY <1>1
  <2> QED BY <2>1 DEF StockItems, Complete
<1>3. Got(s) \subseteq 0 .. 2
  BY <1>2 DEF Got, Rows
<1>4. \E n \in all : \A m \in all : m =< n
  <2>1. CASE Got(s) = {}
    BY <1>1, <2>1
  <2>2. CASE Got(s) # {}
    <3>1. PICK g : g \in Got(s)
      BY <2>2
    <3>2. s # 0
      BY DEF MinuteAssumption
    <3>3. \A h \in Got(s) : h = g
      BY <3>1, <3>2 DEF Got, Rows, Once
    <3>4. all = {g, bars[s]} /\ g \in 0 .. 2
      BY <3>1, <3>3, <1>3
    <3>5. PICK b \in 0 .. 2 : b = bars[s]
      BY <1>1
    <3>6. (g =< b /\ b =< b) \/ (b =< g /\ g =< g)
      BY <3>4
    <3> QED BY <3>4, <3>5, <3>6
  <2> QED BY <2>1, <2>2
<1>5. Most(s) \in all /\ \A m \in all : m =< Most(s)
  BY <1>4 DEF Most
<1>6. \A i \in 1 .. Len(writer.batch) :
        writer.batch[i].stock = s => writer.batch[i].rows =< 0 \/ writer.batch[i].rows \in Got(s)
  BY <1>2 DEF Got, Rows
<1>7. Most(s) \in 0 .. 2
  BY <1>1, <1>3, <1>5
<1> QED BY <1>1, <1>2, <1>5, <1>6, <1>7 DEF Levels, Complete

-----------------------------------------------------------------------------
(* What a step of a worker moves. *)

HeldByOthers(w) == {worker[v].holds.stock : v \in {u \in Workers : Holds(u) /\ u # w}}

\* A worker that moves leaves the others where they are.
LEMMA OthersStay ==
  ASSUME MinuteTypes, NEW w \in Workers, NEW pc, NEW h, Moves(w, pc, h)
  PROVE  /\ worker'[w].pc = pc /\ worker'[w].holds = h
         /\ \A v \in Workers \ {w} : worker'[v] = worker[v]
<1>1. worker'[w] = W(pc, h) /\ \A v \in Workers \ {w} : worker'[v] = worker[v]
  BY DEF MinuteTypes, WorkerInv, Moves
<1>2. W(pc, h).pc = pc /\ W(pc, h).holds = h
  BY DEF W
<1> QED BY <1>1, <1>2

\* The workers that hold something after it moved.
LEMMA HoldersMove ==
  ASSUME MinuteTypes, NEW w \in Workers, NEW pc, NEW h, Moves(w, pc, h)
  PROVE  /\ Holds(w)' <=> pc \in {"fetching", "putting"}
         /\ \A v \in Workers \ {w} : Holds(v)' <=> Holds(v)
BY OthersStay DEF Holds

\* A worker that takes or keeps an item holds its stock.
LEMMA WorkerTakes ==
  ASSUME MinuteTypes, NEW w \in Workers, NEW pc \in {"fetching", "putting"}, NEW h,
         Moves(w, pc, h)
  PROVE  Held' = HeldByOthers(w) \union {h.stock} /\ Running' = Running \union {w}
<1>1. /\ worker'[w].pc = pc /\ worker'[w].holds = h
      /\ \A v \in Workers \ {w} : worker'[v] = worker[v]
  BY OthersStay
<1>2. Holds(w)' /\ \A v \in Workers \ {w} : Holds(v)' <=> Holds(v)
  BY HoldersMove
<1>3. Held' = {worker'[v].holds.stock : v \in {u \in Workers : Holds(u)'}}
  BY DEF Held
<1>4. {u \in Workers : Holds(u)'} = {u \in Workers : Holds(u) /\ u # w} \union {w}
  BY <1>2
<1>5. Held' = HeldByOthers(w) \union {h.stock}
  BY <1>1, <1>3, <1>4 DEF HeldByOthers
<1>6. pc # "done"
  OBVIOUS
<1>7. Running' = Running \union {w}
  BY <1>1, <1>6 DEF Running
<1> QED BY <1>5, <1>7

\* A worker that closes, ends or is done holds nothing.
LEMMA WorkerLetsGo ==
  ASSUME MinuteTypes, NEW w \in Workers, NEW pc, NEW h, Moves(w, pc, h),
         pc \notin {"fetching", "putting"}
  PROVE  Held' = HeldByOthers(w)
<1>1. \A v \in Workers \ {w} : worker'[v] = worker[v]
  BY OthersStay
<1>2. ~Holds(w)' /\ \A v \in Workers \ {w} : Holds(v)' <=> Holds(v)
  BY HoldersMove
<1>3. Held' = {worker'[v].holds.stock : v \in {u \in Workers : Holds(u)'}}
  BY DEF Held
<1>4. {u \in Workers : Holds(u)'} = {u \in Workers : Holds(u) /\ u # w}
  BY <1>2
<1> QED BY <1>1, <1>3, <1>4 DEF HeldByOthers

\* It runs until it is done.
LEMMA WorkerRuns ==
  ASSUME MinuteTypes, NEW w \in Workers, NEW pc, NEW h, Moves(w, pc, h), pc # "done"
  PROVE  Running' = Running \union {w}
BY OthersStay DEF Running

LEMMA WorkerStops ==
  ASSUME MinuteTypes, NEW w \in Workers, NEW h, Moves(w, "done", h)
  PROVE  Running' = Running \ {w}
<1>1. worker'[w].pc = "done" /\ \A v \in Workers \ {w} : worker'[v] = worker[v]
  BY OthersStay
<1> QED BY <1>1 DEF Running

\* No two workers hold one stock if what this one takes was nobody else's.
LEMMA HeldOnceStays ==
  ASSUME MinuteTypes, HeldOnce, NEW w \in Workers, NEW pc \in Pcs, NEW h,
         Moves(w, pc, h),
         pc \in {"fetching", "putting"} => h.stock \notin HeldByOthers(w)
  PROVE  HeldOnce'
<1>1. /\ worker'[w].pc = pc /\ worker'[w].holds = h
      /\ \A v \in Workers \ {w} : worker'[v] = worker[v]
  BY OthersStay
<1>2. \A v \in Workers \ {w} : Holds(v)' => Holds(v) /\ worker[v].holds.stock \in HeldByOthers(w)
  BY <1>1 DEF Holds, HeldByOthers
<1>3. Holds(w)' => pc \in {"fetching", "putting"}
  BY <1>1 DEF Holds
<1> SUFFICES ASSUME NEW u \in Workers, NEW v \in Workers, Holds(u)', Holds(v)',
                    worker'[u].holds.stock = worker'[v].holds.stock
             PROVE  u = v
  BY DEF HeldOnce
<1>4. CASE u # w /\ v # w
  BY <1>1, <1>2, <1>4 DEF HeldOnce
<1>5. CASE u = w /\ v # w
  BY <1>1, <1>2, <1>3, <1>5
<1>6. CASE u # w /\ v = w
  BY <1>1, <1>2, <1>3, <1>6
<1> QED BY <1>4, <1>5, <1>6

\* What a worker holds no other does.
LEMMA HoldsAlone ==
  ASSUME HeldOnce, NEW w \in Workers, Holds(w)
  PROVE  worker[w].holds.stock \notin HeldByOthers(w)
BY DEF HeldOnce, HeldByOthers

\* A worker that is free takes a stock from those left, or finds none.
LEMMA NextMoves ==
  ASSUME MinuteTypes, HeldOnce, Exhausted, toFetch \intersect Held = {},
         NEW w \in Workers, worker[w].pc # "done", TakesNext(w)
  PROVE  /\ HeldOnce' /\ Exhausted' /\ Running' = Running
         /\ toFetch' \union Held' = toFetch \union HeldByOthers(w)
         /\ toFetch' \intersect Held' = {}
<1>0. w \in Running
  BY DEF Running
<1>1. CASE toFetch = {} /\ Moves(w, "closing", Nothing)
           /\ UNCHANGED toFetch
  <2>1. Held' = HeldByOthers(w) /\ Running' = Running \union {w}
    BY <1>1, WorkerLetsGo, WorkerRuns
  <2>2. HeldOnce'
    BY <1>1, HeldOnceStays DEF Pcs
  <2> QED BY <2>1, <2>2, <1>0, <1>1 DEF Exhausted
<1>2. ASSUME NEW s \in toFetch, Moves(w, "fetching", Item(s, 0)),
             toFetch' = toFetch \ {s}
      PROVE  /\ HeldOnce' /\ Exhausted' /\ Running' = Running
             /\ toFetch' \union Held' = toFetch \union HeldByOthers(w)
             /\ toFetch' \intersect Held' = {}
  <2>0. Item(s, 0).stock = s /\ "fetching" \in Pcs
    BY DEF Item, Pcs
  <2>1. /\ Held' = HeldByOthers(w) \union {s} /\ Running' = Running \union {w}
        /\ HeldByOthers(w) \subseteq Held
        /\ worker'[w].pc = "fetching" /\ \A v \in Workers \ {w} : worker'[v] = worker[v]
    <3>1. HeldByOthers(w) \subseteq Held
      BY DEF HeldByOthers, Held
    <3>2. worker'[w].pc = "fetching" /\ \A v \in Workers \ {w} : worker'[v] = worker[v]
      BY <1>2, OthersStay
    <3> QED BY <1>2, <2>0, <3>1, <3>2, WorkerTakes
  <2>2. HeldOnce'
    BY <1>2, <2>0, <2>1, HeldOnceStays
  <2>3. Exhausted'
    BY <1>2, <2>1 DEF Exhausted
  <2> QED BY <2>1, <2>2, <2>3, <1>0, <1>2
<1> QED BY <1>1, <1>2 DEF TakesNext, Moves

-----------------------------------------------------------------------------
(* The steps of a worker keep every stock at one place. *)

LEMMA QueueStays ==
  ASSUME UNCHANGED queue
  PROVE  Queued' = Queued /\ (Once(queue) => Once(queue)') /\ Marks(queue)' = Marks(queue)
BY DEF Queued, Listed, Once, Marks

LEMMA BatchesStay ==
  ASSUME UNCHANGED <<writer, batches>>
  PROVE  /\ Open' = Open /\ Stored' = Stored
         /\ Once(writer.batch) => Once(writer.batch)'
         /\ OnceStored => OnceStored'
         /\ WriterEnds => WriterEnds'
         /\ UNCHANGED bars /\ BarsStored => BarsStored'
BY DEF Open, Stored, Listed, Once, OnceStored, WriterEnds, BarsStored

LEMMA StartKeeps ==
  ASSUME MinuteTypes, Pipeline, NEW w \in Workers, WorkerStarts(w)
  PROVE  Pipeline'
<1>1. /\ worker[w].pc = "new" /\ TakesNext(w)
      /\ UNCHANGED <<bars, queue, writer, batches>>
  BY DEF WorkerStarts
<1>2. Held = HeldByOthers(w)
  BY <1>1 DEF Holds, Held, HeldByOthers
<1>3. /\ HeldOnce' /\ Exhausted' /\ Running' = Running
      /\ toFetch' \union Held' = toFetch \union Held
      /\ toFetch' \intersect Held' = {}
  BY <1>1, <1>2, NextMoves DEF Pipeline, OnePlace, Apart
<1>4. /\ Queued' = Queued /\ Once(queue)' /\ Marks(queue)' = Marks(queue)
      /\ Open' = Open /\ Stored' = Stored /\ Once(writer.batch)' /\ OnceStored'
      /\ WriterEnds' /\ BarsStored'
  BY <1>1, QueueStays, BatchesStay DEF Pipeline, OnePlace
<1>5. Apart(toFetch, Held, Queued, Open, Stored)'
  BY <1>3, <1>4 DEF Pipeline, OnePlace, Apart
<1>6. Covered'
  BY <1>1, <1>3, <1>4 DEF Pipeline, Covered
<1>7. Counted' /\ LastIsMark'
  BY <1>1, <1>3, <1>4 DEF Pipeline, Counted, LastIsMark
<1> QED BY <1>3, <1>4, <1>5, <1>6, <1>7 DEF Pipeline, OnePlace

LEMMA FetchedKeeps ==
  ASSUME MinuteTypes, Pipeline, NEW w \in Workers, NEW fetched, Fetched(w, fetched)
  PROVE  Pipeline'
<1> DEFINE s == worker[w].holds.stock
<1>1. /\ worker[w].pc = "fetching"
      /\ Moves(w, "putting", Item(s, fetched))
      /\ UNCHANGED <<bars, toFetch, queue, writer, batches>>
  BY DEF Fetched, Moves
<1>2. Holds(w) /\ "putting" \in Pcs /\ Item(s, fetched).stock = s
  BY <1>1 DEF Holds, Pcs, Item
<1>3. Held = HeldByOthers(w) \union {s}
  BY <1>2 DEF Held, HeldByOthers
<1>4. /\ Held' = Held /\ Running' = Running \union {w}
      /\ worker'[w].pc = "putting" /\ \A v \in Workers \ {w} : worker'[v] = worker[v]
  <2>1. worker'[w].pc = "putting" /\ \A v \in Workers \ {w} : worker'[v] = worker[v]
    BY <1>1, OthersStay
  <2> QED BY <1>1, <1>2, <1>3, <2>1, WorkerTakes
<1>5. Running' = Running
  BY <1>1, <1>4 DEF Running
<1>6. HeldOnce'
  <2>1. s \notin HeldByOthers(w)
    BY <1>2, HoldsAlone DEF Pipeline, OnePlace
  <2> QED BY <2>1, <1>1, <1>2, HeldOnceStays DEF Pipeline, OnePlace
<1>7. /\ Queued' = Queued /\ Once(queue)' /\ Marks(queue)' = Marks(queue)
      /\ Open' = Open /\ Stored' = Stored /\ Once(writer.batch)' /\ OnceStored'
      /\ WriterEnds' /\ BarsStored'
  BY <1>1, QueueStays, BatchesStay DEF Pipeline, OnePlace
<1>8. Apart(toFetch, Held, Queued, Open, Stored)' /\ Covered'
  BY <1>1, <1>4, <1>7 DEF Pipeline, OnePlace, Apart, Covered
<1>9. Exhausted'
  BY <1>1, <1>4 DEF Pipeline, Exhausted
<1>10. Counted' /\ LastIsMark'
  BY <1>1, <1>5, <1>7 DEF Pipeline, Counted, LastIsMark
<1> QED BY <1>6, <1>7, <1>8, <1>9, <1>10 DEF Pipeline, OnePlace

LEMMA PutsKeeps ==
  ASSUME MinuteTypes, MinuteAssumption, Pipeline, NEW w \in Workers, Puts(w)
  PROVE  Pipeline'
<1> DEFINE h == worker[w].holds
<1>1. /\ worker[w].pc = "putting" /\ TakesNext(w) /\ queue' = Append(queue, h)
      /\ UNCHANGED <<bars, writer, batches>>
  BY DEF Puts
<1>2. Holds(w) /\ h \in StockItems /\ h.stock \in Stocks /\ h.stock # 0 /\ h # Mark
  <2>1. Holds(w)
    BY <1>1 DEF Holds
  <2>2. h \in StockItems
    BY <2>1 DEF MinuteTypes, WorkerInv
  <2>3. h.stock \in Stocks /\ h.stock # 0
    BY <2>2 DEF StockItems, MinuteAssumption
  <2>4. Mark.stock = 0
    BY DEF Mark, Item
  <2> QED BY <2>1, <2>2, <2>3, <2>4
<1>3. Held = HeldByOthers(w) \union {h.stock} /\ h.stock \notin HeldByOthers(w)
  <2>1. Held = HeldByOthers(w) \union {h.stock}
    BY <1>2 DEF Held, HeldByOthers
  <2> QED BY <2>1, <1>2, HoldsAlone DEF Pipeline, OnePlace
<1>4. /\ HeldOnce' /\ Exhausted' /\ Running' = Running
      /\ toFetch' \union Held' = toFetch \union HeldByOthers(w)
      /\ toFetch' \intersect Held' = {}
  BY <1>1, NextMoves DEF Pipeline, OnePlace, Apart
<1>5. /\ Queued' = Queued \union {h.stock} /\ Once(queue)'
      /\ Cardinality(Marks(queue)') = Cardinality(Marks(queue))
  <2> DEFINE S == StockItems \union {Mark}
  <2>1. queue \in Seq(S) /\ h \in S /\ h.stock \notin Queued
    BY <1>2, <1>3 DEF MinuteTypes, Pipeline, OnePlace, Apart
  <2>2. h.stock \notin Listed(queue) \ {0}
    BY <2>1 DEF Queued
  <2> HIDE DEF S, h
  <2>3. Listed(queue') = Listed(queue) \union {h.stock}
    BY <1>1, <2>1, ListedAppend
  <2>4. Once(queue')
    BY <1>1, <2>1, <2>2, OnceAppend DEF Pipeline, OnePlace
  <2>5. Cardinality(Marks(queue')) = Cardinality(Marks(queue))
    BY <1>1, <1>2, <2>1, MarksAppend
  <2> QED BY <1>2, <2>3, <2>4, <2>5 DEF Queued, Listed, Once, Marks
<1>6. /\ Open' = Open /\ Stored' = Stored /\ Once(writer.batch)' /\ OnceStored'
      /\ WriterEnds' /\ BarsStored'
  BY <1>1, BatchesStay DEF Pipeline, OnePlace
<1> HIDE DEF h
<1>7. Apart(toFetch, Held, Queued, Open, Stored)'
  BY <1>3, <1>4, <1>5, <1>6 DEF Pipeline, OnePlace, Apart
<1>8. Covered'
  BY <1>1, <1>3, <1>4, <1>5, <1>6 DEF Pipeline, Covered
<1>9. Counted'
  BY <1>1, <1>4, <1>5 DEF Pipeline, Counted
<1>10. LastIsMark'
  BY <1>1, <1>4 DEF LastIsMark, Running
<1> QED BY <1>4, <1>5, <1>6, <1>7, <1>8, <1>9, <1>10 DEF Pipeline, OnePlace

LEMMA ClosedKeeps ==
  ASSUME MinuteTypes, Pipeline, NEW w \in Workers, NEW failed \in BOOLEAN, Closed(w, failed)
  PROVE  Pipeline'
<1>1. PICK h : Moves(w, "ending", h)
  BY DEF Closed, Moves
<1>2. /\ worker[w].pc = "closing" /\ UNCHANGED <<bars, toFetch, queue, writer, batches>>
  BY DEF Closed
<1>3. ~Holds(w) /\ "ending" \in Pcs
  BY <1>2 DEF Holds, Pcs
<1>4. /\ Held' = Held /\ Running' = Running \union {w}
      /\ worker'[w].pc = "ending" /\ \A v \in Workers \ {w} : worker'[v] = worker[v]
  <2>1. Held = HeldByOthers(w)
    BY <1>3 DEF Held, HeldByOthers
  <2>2. worker'[w].pc = "ending" /\ \A v \in Workers \ {w} : worker'[v] = worker[v]
    BY <1>1, OthersStay
  <2> QED BY <1>1, <2>1, <2>2, WorkerLetsGo, WorkerRuns
<1>5. Running' = Running
  BY <1>2, <1>4 DEF Running
<1>6. HeldOnce'
  BY <1>1, <1>3, HeldOnceStays DEF Pipeline, OnePlace
<1>7. /\ Queued' = Queued /\ Once(queue)' /\ Marks(queue)' = Marks(queue)
      /\ Open' = Open /\ Stored' = Stored /\ Once(writer.batch)' /\ OnceStored'
      /\ WriterEnds' /\ BarsStored'
  BY <1>2, QueueStays, BatchesStay DEF Pipeline, OnePlace
<1>8. Apart(toFetch, Held, Queued, Open, Stored)' /\ Covered'
  BY <1>2, <1>4, <1>7 DEF Pipeline, OnePlace, Apart, Covered
<1>9. Exhausted'
  BY <1>2, <1>4 DEF Pipeline, Exhausted
<1>10. Counted' /\ LastIsMark'
  BY <1>2, <1>5, <1>7 DEF Pipeline, Counted, LastIsMark
<1> QED BY <1>6, <1>7, <1>8, <1>9, <1>10 DEF Pipeline, OnePlace

LEMMA EndsKeeps ==
  ASSUME MinuteTypes, MinuteAssumption, Pipeline, NEW w \in Workers, Ends(w), phase' = "pipeline"
  PROVE  Pipeline'
<1>1. /\ worker[w].pc = "ending" /\ queue' = Append(queue, Mark)
      /\ Moves(w, "done", Nothing)
      /\ UNCHANGED <<bars, toFetch, writer, batches>>
  BY DEF Ends, CancelTasks, Gone, Moves
<1>2. ~Holds(w) /\ "done" \in Pcs /\ w \in Running
  BY <1>1 DEF Holds, Pcs, Running
<1>3. /\ Held' = Held /\ Running' = Running \ {w}
      /\ worker'[w].pc = "done" /\ \A v \in Workers \ {w} : worker'[v] = worker[v]
  <2>1. Held = HeldByOthers(w)
    BY <1>2 DEF Held, HeldByOthers
  <2>2. worker'[w].pc = "done" /\ \A v \in Workers \ {w} : worker'[v] = worker[v]
    BY <1>1, OthersStay
  <2> QED BY <1>1, <2>1, <2>2, WorkerLetsGo, WorkerStops
<1>4. HeldOnce'
  BY <1>1, <1>2, HeldOnceStays DEF Pipeline, OnePlace
<1>5. /\ Queued' = Queued /\ Once(queue)' /\ queue'[Len(queue')] = Mark
      /\ Cardinality(Marks(queue)') = Cardinality(Marks(queue)) + 1
  <2> DEFINE S == StockItems \union {Mark}
  <2>1. queue \in Seq(S) /\ Mark \in S /\ Mark.stock = 0
    BY DEF MinuteTypes, Mark, Item
  <2> HIDE DEF S
  <2>2. Listed(queue') = Listed(queue) \union {0}
    BY <1>1, <2>1, ListedAppend
  <2>3. Once(queue')
    BY <1>1, <2>1, OnceAppend DEF Pipeline, OnePlace
  <2>4. Cardinality(Marks(queue')) = Cardinality(Marks(queue)) + 1
    BY <1>1, <2>1, MarksAppend
  <2>5. queue'[Len(queue')] = Mark
    BY <1>1, <2>1
  <2> QED BY <2>2, <2>3, <2>4, <2>5 DEF Queued, Listed, Once, Marks
<1>6. /\ Open' = Open /\ Stored' = Stored /\ Once(writer.batch)' /\ OnceStored'
      /\ WriterEnds' /\ BarsStored'
  BY <1>1, BatchesStay DEF Pipeline, OnePlace
<1>7. Apart(toFetch, Held, Queued, Open, Stored)' /\ Covered'
  BY <1>1, <1>3, <1>5, <1>6 DEF Pipeline, OnePlace, Apart, Covered
<1>8. Exhausted'
  BY <1>1, <1>3 DEF Pipeline, Exhausted
<1>9. Counted'
  <2>1. IsFiniteSet(Running)
    <3>1. IsFiniteSet(Workers) /\ Running \in SUBSET Workers
      BY FS_Interval DEF Workers, Running, MinuteAssumption
    <3> QED BY <3>1, FS_Subset
  <2>2. Cardinality(Running') = Cardinality(Running) - 1 /\ Cardinality(Running) \in Nat
    BY <2>1, <1>2, <1>3, FS_RemoveElement, FS_CardinalityType
  <2>3. Cardinality(Marks(queue)) \in Nat
    BY MarksFinite DEF MinuteTypes
  <2>4. writer.ended \in Nat /\ MaxConcurrent \in Nat
    BY DEF MinuteTypes, MinuteAssumption
  <2> QED BY <1>1, <1>5, <2>2, <2>3, <2>4 DEF Pipeline, Counted
<1>10. LastIsMark'
  BY <1>5 DEF LastIsMark
<1> QED BY <1>4, <1>5, <1>6, <1>7, <1>8, <1>9, <1>10 DEF Pipeline, OnePlace

-----------------------------------------------------------------------------
(* The steps of the writer. *)

\* The stocks of a batch that is stored.
LEMMA StoredAppend ==
  ASSUME MinuteTypes, NEW batch \in Seq(StockItems), OnceStored, Once(batch),
         0 \notin Stocks, Listed(batch) \intersect Stored = {},
         batches' = Append(batches, batch)
  PROVE  Stored' = Stored \union Listed(batch) /\ OnceStored'
<1>0. batches \in Seq(Seq(StockItems))
  BY DEF MinuteTypes
<1>1. PICK n \in Nat : n = Len(batches)
  BY <1>0
<1>2. /\ Len(batches') = n + 1 /\ batches'[n + 1] = batch
      /\ \A b \in 1 .. n : batches'[b] = batches[b]
  BY <1>1 DEF MinuteTypes
<1>3. 1 .. Len(batches') = (1 .. n) \union {n + 1}
  BY <1>2
<1>4. Stored' = Stored \union Listed(batch)
  <2>1. Stored' = UNION {Listed(batches'[b]) : b \in (1 .. n) \union {n + 1}}
    BY <1>3 DEF Stored, Listed
  <2> QED BY <2>1, <1>1, <1>2 DEF Stored
<1>5. \A i \in 1 .. Len(batch) : batch[i].stock \in Listed(batch) /\ batch[i].stock # 0
  <2>1. \A i \in 1 .. Len(batch) : batch[i] \in StockItems
    OBVIOUS
  <2> QED BY <2>1 DEF Listed, StockItems
<1>6. \A b \in 1 .. n : \A i \in 1 .. Len(batches[b]) : batches[b][i].stock \in Stored
  BY <1>1 DEF Stored, Listed
<1>7. OnceStored'
  <2> SUFFICES ASSUME NEW b \in 1 .. Len(batches'), NEW c \in 1 .. Len(batches'),
                      NEW i \in 1 .. Len(batches'[b]), NEW j \in 1 .. Len(batches'[c]),
                      batches'[b][i].stock = batches'[c][j].stock
               PROVE  b = c /\ i = j
    BY DEF OnceStored
  <2>1. CASE b \in 1 .. n /\ c \in 1 .. n
    BY <2>1, <1>1, <1>2 DEF OnceStored
  <2>2. CASE b = n + 1 /\ c = n + 1
    BY <2>2, <1>2, <1>5 DEF Once
  <2>3. CASE b = n + 1 /\ c \in 1 .. n
    BY <2>3, <1>2, <1>5, <1>6
  <2>4. CASE b \in 1 .. n /\ c = n + 1
    BY <2>4, <1>2, <1>5, <1>6
  <2> QED BY <1>3, <2>1, <2>2, <2>3, <2>4
<1> QED BY <1>4, <1>7

\* Bars that only grow keep what is stored, and a batch whose bars are there joins it.
LEMMA BarsAppend ==
  ASSUME MinuteTypes, BarsStored, NEW batch \in Seq(StockItems),
         batches' = Append(batches, batch), \A s \in Stocks : bars'[s] >= bars[s],
         bars' \in [Stocks -> Levels],
         \A i \in 1 .. Len(batch) : bars'[batch[i].stock] >= batch[i].rows
  PROVE  BarsStored'
<1>0. batches \in Seq(Seq(StockItems))
  BY DEF MinuteTypes
<1>1. PICK n \in Nat : n = Len(batches)
  BY <1>0
<1>2. /\ Len(batches') = n + 1 /\ batches'[n + 1] = batch
      /\ \A b \in 1 .. n : batches'[b] = batches[b]
  BY <1>1 DEF MinuteTypes
<1> SUFFICES ASSUME NEW b \in 1 .. n + 1, NEW i \in 1 .. Len(batches'[b])
             PROVE  bars'[batches'[b][i].stock] >= batches'[b][i].rows
  BY <1>2 DEF BarsStored
<1>3. CASE b = n + 1
  <2>1. batches'[b] = batch
    BY <1>2, <1>3
  <2> QED BY <2>1
<1>4. CASE b \in 1 .. n
  <2>1. batches[b] \in Seq(StockItems) /\ batches'[b] = batches[b]
    BY <1>1, <1>2, <1>4 DEF MinuteTypes
  <2>2. batches[b][i] \in StockItems
    BY <2>1
  <2>3. PICK s \in Stocks, fetched \in -1 .. Complete : s = batches[b][i].stock /\ fetched = batches[b][i].rows
    BY <2>2 DEF StockItems
  <2>4. bars[s] >= fetched
    BY <1>1, <1>4, <2>1, <2>3 DEF BarsStored
  <2>5. bars'[s] >= bars[s] /\ bars[s] \in 0 .. 2 /\ bars'[s] \in 0 .. 2 /\ fetched \in -1 .. 2
    BY DEF MinuteTypes, Levels, Complete
  <2> QED BY <2>1, <2>3, <2>4, <2>5
<1> QED BY <1>1, <1>3, <1>4

\* Bars and what is stored can be read as they were.
LEMMA BarsReflexive ==
  ASSUME MinuteTypes, UNCHANGED bars
  PROVE  bars' \in [Stocks -> Levels] /\ \A s \in Stocks : bars'[s] >= bars[s]
<1>1. \A s \in Stocks : bars[s] \in 0 .. 2
  BY DEF MinuteTypes, Levels, Complete
<1>2. \A s \in Stocks : bars'[s] = bars[s] /\ bars[s] >= bars[s]
  BY <1>1
<1> QED BY <1>2 DEF MinuteTypes

\* A batch without rows claims nothing of the bars.
LEMMA NoRows ==
  ASSUME MinuteTypes, NEW batch \in Seq(StockItems), Rows(batch) = {}
  PROVE  \A i \in 1 .. Len(batch) : bars[batch[i].stock] >= batch[i].rows
<1> SUFFICES ASSUME NEW i \in 1 .. Len(batch)
             PROVE  bars[batch[i].stock] >= batch[i].rows
  OBVIOUS
<1>1. batch[i] \in StockItems
  OBVIOUS
<1>2. PICK s \in Stocks, fetched \in -1 .. Complete : s = batch[i].stock /\ fetched = batch[i].rows
  BY <1>1 DEF StockItems
<1>3. ~(fetched > 0)
  BY <1>2 DEF Rows
<1>4. bars[s] \in 0 .. 2 /\ fetched \in -1 .. 2
  BY DEF MinuteTypes, Levels, Complete
<1> QED BY <1>2, <1>3, <1>4

\* The writer takes from the head of the queue.
LEMMA QueueTail ==
  ASSUME MinuteTypes, Once(queue), queue # <<>>, queue' = Tail(queue), LastIsMark, UNCHANGED worker
  PROVE  /\ Once(queue)' /\ LastIsMark' /\ Running' = Running
         /\ Head(queue) \in StockItems \union {Mark} /\ queue' \in Seq(StockItems \union {Mark})
<1> DEFINE S == StockItems \union {Mark}
<1>1. queue \in Seq(S)
  BY DEF MinuteTypes
<1> HIDE DEF S
<1>2. Once(queue')
  BY <1>1, ListedTail
<1>3. LastIsMark'
  <2> SUFFICES ASSUME Running = {}, queue' # <<>>
               PROVE  queue'[Len(queue')] = Mark
    BY DEF LastIsMark, Running
  <2>1. queue[Len(queue)] = Mark
    BY DEF LastIsMark
  <2>2. /\ Len(queue) \in Nat \ {0} /\ Len(queue') = Len(queue) - 1
        /\ \A i \in 1 .. Len(queue) - 1 : queue'[i] = queue[i + 1]
        /\ queue' \in Seq(S)
    BY <1>1, TailShifts
  <2>3. PICK n \in Nat : Len(queue) = n + 1
    <3>1. Len(queue) \in Nat \ {0}
      BY <2>2
    <3> QED BY <3>1
  <2>4. Len(queue') = n /\ n # 0
    BY <2>2, <2>3
  <2>5. queue'[n] = queue[n + 1]
    BY <2>2, <2>3, <2>4
  <2> QED BY <2>1, <2>3, <2>4, <2>5
<1>4. Head(queue) \in S /\ queue' \in Seq(S)
  BY <1>1, TailShifts
<1> QED BY <1>2, <1>3, <1>4 DEF Once, Running, S

LEMMA GetsKeeps ==
  ASSUME MinuteTypes, MinuteAssumption, Pipeline, Gets
  PROVE  Pipeline'
<1> DEFINE h == Head(queue)
           batch == Append(writer.batch, h)
           flush == Len(batch) >= BatchSize
<1>1. /\ writer.pc = "getting" /\ queue # <<>> /\ h # Mark /\ queue' = Tail(queue)
      /\ FlushOr(batch, flush, "getting")
      /\ UNCHANGED <<bars, toFetch, worker>>
  BY DEF Gets
<1>2. /\ Once(queue)' /\ LastIsMark' /\ Running' = Running /\ h \in StockItems \union {Mark}
  BY <1>1, QueueTail DEF Pipeline, OnePlace
<1>3. h \in StockItems /\ h.stock # 0 /\ 0 \notin Stocks
  BY <1>1, <1>2 DEF StockItems, MinuteAssumption
<1>4. /\ Queued' = Queued \ {h.stock} /\ h.stock \in Queued
      /\ Cardinality(Marks(queue)') = Cardinality(Marks(queue))
  <2> DEFINE S == StockItems \union {Mark}
  <2>1. queue \in Seq(S)
    BY DEF MinuteTypes
  <2> HIDE DEF S
  <2>2. /\ Listed(Tail(queue)) \ {0} = (Listed(queue) \ {0}) \ {h.stock}
        /\ h.stock \in Listed(queue)
    BY <1>1, <1>3, <2>1, ListedTail DEF Pipeline, OnePlace
  <2>3. Cardinality(Marks(Tail(queue))) = Cardinality(Marks(queue))
    BY <1>1, <2>1, MarksTail
  <2>4. Queued' = Listed(queue') \ {0} /\ Marks(queue)' = Marks(queue')
    BY DEF Queued, Listed, Marks
  <2> QED BY <1>1, <1>3, <2>2, <2>3, <2>4 DEF Queued
<1>5. batch \in Seq(StockItems) /\ Listed(batch) = Open \union {h.stock} /\ Once(batch)
  <2>1. writer.batch \in Seq(StockItems)
    BY DEF MinuteTypes
  <2>2. h.stock \notin Open
    BY <1>4 DEF Pipeline, OnePlace, Apart
  <2>3. h.stock \notin Listed(writer.batch) \ {0}
    BY <2>2 DEF Open
  <2> HIDE DEF h
  <2> QED BY <1>3, <2>1, <2>3, ListedAppend, OnceAppend DEF Pipeline, OnePlace, Open
<1>6. Listed(batch) \intersect Stored = {}
  BY <1>4, <1>5 DEF Pipeline, OnePlace, Apart
<1>7. Held' = Held
  BY <1>1 DEF Held, Holds
<1>8. /\ Open' \union Stored' = Open \union {h.stock} \union Stored
      /\ Open' \intersect Stored' = {}
      /\ Once(writer.batch)' /\ OnceStored' /\ BarsStored'
      /\ writer'.ended = writer.ended /\ writer'.pc # "done"
  <2> HIDE DEF h, batch, flush
  <2>0. writer \in [pc : {"getting", "writing", "done"}, ended : 0 .. MaxConcurrent, batch : Seq(StockItems)]
    BY DEF MinuteTypes
  <2>1. CASE flush /\ Rows(batch) # {}
    <3>1. /\ writer'.batch = batch /\ writer'.pc = "writing" /\ writer'.ended = writer.ended
          /\ batches' = batches
      BY <1>1, <2>0, <2>1 DEF FlushOr
    <3>2. Open' = Listed(batch) /\ Stored' = Stored /\ Once(writer.batch)' /\ OnceStored' /\ BarsStored'
      BY <1>1, <1>5, <3>1 DEF Open, Stored, Listed, Once, OnceStored, BarsStored, Pipeline, OnePlace
    <3> QED BY <1>5, <1>6, <3>1, <3>2
  <2>2. CASE flush /\ Rows(batch) = {}
    <3>1. batch # <<>>
      <4>1. h.stock \in Listed(batch)
        BY <1>5
      <4>2. Listed(<<>>) = {}
        BY DEF Listed
      <4> QED BY <4>1, <4>2
    <3>2. /\ writer'.batch = <<>> /\ writer'.pc = "getting" /\ writer'.ended = writer.ended
          /\ batches' = Append(batches, batch)
      BY <1>1, <2>0, <2>2, <3>1 DEF FlushOr
    <3>3. Open' = {} /\ Once(writer.batch)'
      BY <3>2 DEF Open, Listed, Once
    <3>4. Stored' = Stored \union Listed(batch) /\ OnceStored'
      BY <1>3, <1>5, <1>6, <3>2, StoredAppend DEF Pipeline, OnePlace
    <3>5. BarsStored'
      <4>1. \A i \in 1 .. Len(batch) : bars[batch[i].stock] >= batch[i].rows
        BY <1>5, <2>2, NoRows
      <4> QED BY <1>1, <1>5, <3>2, <4>1, BarsReflexive, BarsAppend DEF Pipeline
    <3> QED BY <1>5, <3>2, <3>3, <3>4, <3>5
  <2>3. CASE ~flush
    <3>1. /\ writer'.batch = batch /\ writer'.pc = "getting" /\ writer'.ended = writer.ended
          /\ batches' = batches
      BY <1>1, <2>0, <2>3 DEF FlushOr
    <3>2. Open' = Listed(batch) /\ Stored' = Stored /\ Once(writer.batch)' /\ OnceStored' /\ BarsStored'
      BY <1>1, <1>5, <3>1 DEF Open, Stored, Listed, Once, OnceStored, BarsStored, Pipeline, OnePlace
    <3> QED BY <1>5, <1>6, <3>1, <3>2
  <2> QED BY <2>1, <2>2, <2>3
<1>9. HeldOnce' /\ Exhausted'
  BY <1>1 DEF Pipeline, OnePlace, HeldOnce, Holds, Exhausted
<1> HIDE DEF h, batch, flush
<1>10. Apart(toFetch, Held, Queued, Open, Stored)'
  <2>1. /\ toFetch \intersect (Held \union Queued \union Open \union Stored) = {}
        /\ Held \intersect (Queued \union Open \union Stored) = {}
        /\ Queued \intersect (Open \union Stored) = {}
    BY DEF Pipeline, OnePlace, Apart
  <2>2. Open' \union Stored' \subseteq Open \union {h.stock} \union Stored
    BY <1>8
  <2>3. /\ toFetch' = toFetch /\ Held' = Held /\ Queued' = Queued \ {h.stock} /\ h.stock \in Queued
        /\ Open' \intersect Stored' = {}
    BY <1>1, <1>4, <1>7, <1>8
  <2> QED BY <2>1, <2>2, <2>3 DEF Apart
<1>11. Covered'
  BY <1>1, <1>4, <1>7, <1>8 DEF Pipeline, Covered
<1>12. Counted'
  BY <1>2, <1>4, <1>8 DEF Pipeline, Counted
<1>13. WriterEnds'
  BY <1>8 DEF WriterEnds
<1> QED BY <1>2, <1>8, <1>9, <1>10, <1>11, <1>12, <1>13 DEF Pipeline, OnePlace

LEMMA GetsMarkKeeps ==
  ASSUME MinuteTypes, MinuteAssumption, Pipeline, GetsMark
  PROVE  Pipeline' /\ writer'.ended \in 0 .. MaxConcurrent
<1>1. /\ writer.pc = "getting" /\ queue # <<>> /\ Head(queue) = Mark /\ queue' = Tail(queue)
      /\ UNCHANGED <<bars, toFetch, worker>>
  BY DEF GetsMark
<1>2. /\ Once(queue)' /\ LastIsMark' /\ Running' = Running
  BY <1>1, QueueTail DEF Pipeline, OnePlace
<1>3. /\ Queued' = Queued
      /\ Cardinality(Marks(queue)') = Cardinality(Marks(queue)) - 1
      /\ Cardinality(Marks(queue)) >= 1
  <2> DEFINE S == StockItems \union {Mark}
  <2>1. queue \in Seq(S) /\ Mark.stock = 0
    BY DEF MinuteTypes, Mark, Item
  <2> HIDE DEF S
  <2>2. Listed(Tail(queue)) \ {0} = Listed(queue) \ {0}
    BY <1>1, <2>1, ListedTail DEF Pipeline, OnePlace
  <2>3. /\ Cardinality(Marks(Tail(queue))) = Cardinality(Marks(queue)) - 1
        /\ Cardinality(Marks(queue)) >= 1
    BY <1>1, <2>1, MarksTail
  <2>4. Queued' = Listed(queue') \ {0} /\ Marks(queue)' = Marks(queue')
    BY DEF Queued, Listed, Marks
  <2> QED BY <1>1, <2>2, <2>3, <2>4 DEF Queued
<1>4. /\ writer \in [pc : {"getting", "writing", "done"}, ended : 0 .. MaxConcurrent,
                     batch : Seq(StockItems)]
      /\ writer.batch \in Seq(StockItems) /\ writer.ended \in Nat
      /\ MaxConcurrent \in Nat
  BY DEF MinuteTypes, MinuteAssumption
<1>5. writer.ended + 1 =< MaxConcurrent /\ Counted'
  <2>1. Cardinality(Running) \in Nat
    <3>1. IsFiniteSet(Workers) /\ Running \in SUBSET Workers
      BY FS_Interval DEF Workers, Running, MinuteAssumption
    <3> QED BY <3>1, FS_Subset, FS_CardinalityType
  <2>2. Cardinality(Marks(queue)) \in Nat
    BY MarksFinite DEF MinuteTypes
  <2>3. writer'.ended = writer.ended + 1
    BY <1>4 DEF GetsMark
  <2>4. writer.ended + Cardinality(Marks(queue)) + Cardinality(Running) =< MaxConcurrent
    BY DEF Pipeline, Counted
  <2>5. (writer.ended + 1) + (Cardinality(Marks(queue)) - 1) + Cardinality(Running) =< MaxConcurrent
    BY <1>4, <2>1, <2>2, <2>4
  <2>6. Counted'
    BY <1>2, <1>3, <2>3, <2>5 DEF Counted
  <2> QED BY <1>3, <1>4, <2>1, <2>2, <2>4, <2>6
<1>6. writer'.ended = writer.ended + 1 /\ writer'.ended \in 0 .. MaxConcurrent
  <2>1. writer'.ended = writer.ended + 1
    BY <1>4 DEF GetsMark
  <2>2. PICK n \in Nat : n = writer.ended
    BY <1>4
  <2> QED BY <1>4, <1>5, <2>1, <2>2
<1>7. Held' = Held /\ HeldOnce' /\ Exhausted'
  BY <1>1 DEF Pipeline, OnePlace, Held, HeldOnce, Holds, Exhausted
<1>8. /\ Open' \union Stored' = Open \union Stored
      /\ Open' \intersect Stored' = {}
      /\ Once(writer.batch)' /\ OnceStored' /\ BarsStored' /\ WriterEnds'
  <2>0. Open \intersect Stored = {}
    BY DEF Pipeline, OnePlace, Apart
  <2>1. CASE writer'.batch = writer.batch /\ writer'.pc # "done" /\ batches' = batches
    <3>1. Open' = Open /\ Stored' = Stored
      BY <2>1 DEF Open, Stored, Listed
    <3>2. Once(writer.batch)'
      BY <2>1 DEF Once, Pipeline, OnePlace
    <3>3. OnceStored'
      BY <2>1 DEF OnceStored, Pipeline, OnePlace
    <3>4. BarsStored'
      BY <1>1, <2>1 DEF BarsStored, Pipeline
    <3>5. WriterEnds'
      BY <2>1 DEF WriterEnds
    <3> QED BY <2>0, <3>1, <3>2, <3>3, <3>4, <3>5
  <2>2. CASE /\ writer'.batch = <<>> /\ ~(writer.ended + 1 < MaxConcurrent)
             /\ writer.batch = <<>> /\ batches' = batches
    <3>1. writer'.ended = MaxConcurrent
      BY <1>4, <1>5, <1>6, <2>2
    <3>2. Open' = Open /\ Stored' = Stored
      BY <2>2 DEF Open, Stored, Listed
    <3>3. Once(writer.batch)' /\ OnceStored'
      BY <2>2 DEF Once, OnceStored, Pipeline, OnePlace
    <3>4. BarsStored' /\ WriterEnds'
      BY <1>1, <2>2, <3>1 DEF BarsStored, WriterEnds, Pipeline
    <3> QED BY <2>0, <3>2, <3>3, <3>4
  <2>3. CASE /\ writer'.batch = <<>> /\ ~(writer.ended + 1 < MaxConcurrent)
             /\ Rows(writer.batch) = {} /\ batches' = Append(batches, writer.batch)
    <3>1. writer'.ended = MaxConcurrent
      BY <1>4, <1>5, <1>6, <2>3
    <3>2. WriterEnds' /\ Open' = {} /\ Once(writer.batch)'
      BY <2>3, <3>1 DEF WriterEnds, Open, Listed, Once
    <3>3. Stored' = Stored \union Open /\ OnceStored'
      <4>1. 0 \notin Stocks /\ Listed(writer.batch) \intersect Stored = {}
        BY <2>0 DEF MinuteAssumption, Open
      <4> QED BY <1>4, <2>3, <4>1, StoredAppend DEF Pipeline, OnePlace, Open
    <3>4. BarsStored'
      <4>1. \A i \in 1 .. Len(writer.batch) : bars[writer.batch[i].stock] >= writer.batch[i].rows
        BY <1>4, <2>3, NoRows
      <4> QED BY <1>1, <1>4, <2>3, <4>1, BarsReflexive, BarsAppend DEF Pipeline
    <3> QED BY <3>2, <3>3, <3>4
  <2>4. \/ writer'.batch = writer.batch /\ writer'.pc # "done" /\ batches' = batches
        \/ /\ writer'.batch = <<>> /\ ~(writer.ended + 1 < MaxConcurrent)
           /\ writer.batch = <<>> /\ batches' = batches
        \/ /\ writer'.batch = <<>> /\ ~(writer.ended + 1 < MaxConcurrent)
           /\ Rows(writer.batch) = {} /\ batches' = Append(batches, writer.batch)
    <3>1. CASE writer.ended + 1 < MaxConcurrent
      BY <1>1, <1>4, <3>1 DEF GetsMark
    <3>2. CASE ~(writer.ended + 1 < MaxConcurrent) /\ Rows(writer.batch) # {}
      BY <1>1, <1>4, <3>2 DEF GetsMark
    <3>3. CASE ~(writer.ended + 1 < MaxConcurrent) /\ Rows(writer.batch) = {}
      BY <1>1, <1>4, <3>3 DEF GetsMark
    <3> QED BY <3>1, <3>2, <3>3
  <2> QED BY <2>1, <2>2, <2>3, <2>4
<1>9. Apart(toFetch, Held, Queued, Open, Stored)'
  <2>1. /\ toFetch \intersect (Held \union Queued \union Open \union Stored) = {}
        /\ Held \intersect (Queued \union Open \union Stored) = {}
        /\ Queued \intersect (Open \union Stored) = {}
    BY DEF Pipeline, OnePlace, Apart
  <2> QED BY <1>1, <1>3, <1>7, <1>8, <2>1 DEF Apart
<1>10. Covered'
  BY <1>1, <1>3, <1>7, <1>8 DEF Pipeline, Covered
<1> QED BY <1>2, <1>5, <1>6, <1>7, <1>8, <1>9, <1>10 DEF Pipeline, OnePlace

LEMMA WrittenKeeps ==
  ASSUME MinuteTypes, MinuteAssumption, Pipeline, Written
  PROVE  Pipeline' /\ bars' \in [Stocks -> Levels]
<1>1. /\ writer.batch \in Seq(StockItems) /\ Once(writer.batch) /\ 0 \notin Stocks
      /\ writer \in [pc : {"getting", "writing", "done"}, ended : 0 .. MaxConcurrent,
                     batch : Seq(StockItems)]
  BY DEF MinuteTypes, Pipeline, OnePlace, MinuteAssumption
<1>2. /\ bars' = [s \in Stocks |-> Most(s)]
      /\ batches' = Append(batches, writer.batch)
      /\ UNCHANGED <<toFetch, worker, queue>>
  BY DEF Written, Most, Got
<1>3. /\ writer'.batch = <<>> /\ writer'.ended = writer.ended
      /\ writer'.pc = "done" => writer.ended = MaxConcurrent
  BY <1>1 DEF Written
<1>4. /\ bars' \in [Stocks -> Levels]
      /\ \A s \in Stocks : bars'[s] >= bars[s]
      /\ \A i \in 1 .. Len(writer.batch) : bars'[writer.batch[i].stock] >= writer.batch[i].rows
  <2>1. \A s \in Stocks : /\ bars'[s] = Most(s) /\ Most(s) \in Levels /\ Most(s) >= bars[s]
                          /\ \A i \in 1 .. Len(writer.batch) :
                               writer.batch[i].stock = s => Most(s) >= writer.batch[i].rows
    BY <1>1, <1>2, MostIsMost
  <2>2. ASSUME NEW i \in 1 .. Len(writer.batch) PROVE writer.batch[i].stock \in Stocks
    <3>1. writer.batch[i] \in StockItems
      BY <1>1
    <3> QED BY <3>1 DEF StockItems
  <2> QED BY <1>2, <2>1, <2>2
<1>5. Open' = {} /\ Once(writer.batch)' /\ WriterEnds'
  BY <1>3 DEF Open, Listed, Once, WriterEnds
<1>6. Stored' = Stored \union Open /\ OnceStored'
  <2>1. Listed(writer.batch) \intersect Stored = {}
    BY DEF Pipeline, OnePlace, Apart, Open
  <2> QED BY <1>1, <1>2, <2>1, StoredAppend DEF Pipeline, OnePlace, Open
<1>7. BarsStored'
  BY <1>1, <1>2, <1>4, BarsAppend DEF Pipeline
<1>8. /\ Held' = Held /\ HeldOnce' /\ Exhausted' /\ Running' = Running
      /\ Queued' = Queued /\ Once(queue)' /\ Marks(queue)' = Marks(queue) /\ LastIsMark'
  BY <1>2 DEF Pipeline, OnePlace, Held, HeldOnce, Holds, Exhausted, Running, Queued, Listed, Once,
              Marks, LastIsMark
<1>9. Apart(toFetch, Held, Queued, Open, Stored)'
  BY <1>2, <1>5, <1>6, <1>8 DEF Pipeline, OnePlace, Apart
<1>10. Covered'
  <2>1. ASSUME NEW s \in Stocks, bars[s] = Complete PROVE bars'[s] = Complete
    <3>1. bars'[s] \in 0 .. 2 /\ bars'[s] >= 2
      BY <1>4, <2>1 DEF Levels, Complete
    <3> QED BY <3>1 DEF Complete
  <2> QED BY <1>2, <1>5, <1>6, <1>8, <2>1 DEF Pipeline, Covered
<1>11. Counted'
  BY <1>3, <1>8 DEF Pipeline, Counted
<1> QED BY <1>4, <1>5, <1>6, <1>7, <1>8, <1>9, <1>10, <1>11 DEF Pipeline, OnePlace

-----------------------------------------------------------------------------
(* The steps of the run. *)

\* What BatchesAccount says of a run that has fetched everything.
AllAccounted ==
    LET items == UNION {{<<b, i>> : i \in 1 .. Len(batches[b])} : b \in 1 .. Len(batches)}
        stock(p) == batches[p[1]][p[2]].stock
    IN /\ \A p, q \in items : stock(p) = stock(q) => p = q
       /\ \A p \in items : bars[stock(p)] >= batches[p[1]][p[2]].rows
       /\ \A s \in Stocks : bars[s] = Complete \/ \E p \in items : stock(p) = s

\* Stored batches account for a day whose stocks are complete or stored.
LEMMA Accounts ==
  ASSUME batches \in Seq(Seq(StockItems)), OnceStored, BarsStored,
         \A s \in Stocks : bars[s] = Complete \/ s \in Stored
  PROVE  AllAccounted
<1> DEFINE items == UNION {{<<b, i>> : i \in 1 .. Len(batches[b])} : b \in 1 .. Len(batches)}
           stock(p) == batches[p[1]][p[2]].stock
<1>1. ASSUME NEW p \in items
      PROVE  p[1] \in 1 .. Len(batches) /\ p[2] \in 1 .. Len(batches[p[1]]) /\ p = <<p[1], p[2]>>
  OBVIOUS
<1>2. \A p, q \in items : stock(p) = stock(q) => p = q
  <2> SUFFICES ASSUME NEW p \in items, NEW q \in items, stock(p) = stock(q)
               PROVE  p = q
    OBVIOUS
  <2>1. /\ p[1] \in 1 .. Len(batches) /\ p[2] \in 1 .. Len(batches[p[1]]) /\ p = <<p[1], p[2]>>
        /\ q[1] \in 1 .. Len(batches) /\ q[2] \in 1 .. Len(batches[q[1]]) /\ q = <<q[1], q[2]>>
    BY <1>1
  <2>2. p[1] = q[1] /\ p[2] = q[2]
    BY <2>1 DEF OnceStored
  <2> QED BY <2>1, <2>2
<1>3. \A p \in items : bars[stock(p)] >= batches[p[1]][p[2]].rows
  BY <1>1 DEF BarsStored
<1>4. ASSUME NEW s \in Stored PROVE \E p \in items : stock(p) = s
  <2>1. PICK b \in 1 .. Len(batches) : s \in Listed(batches[b])
    BY <1>4 DEF Stored
  <2>2. PICK i \in 1 .. Len(batches[b]) : batches[b][i].stock = s
    BY <2>1 DEF Listed
  <2>3. <<b, i>> \in items /\ <<b, i>>[1] = b /\ <<b, i>>[2] = i
    BY <2>1, <2>2
  <2> QED BY <2>2, <2>3
<1> HIDE DEF items
<1> QED BY <1>2, <1>3, <1>4 DEF AllAccounted, items

\* Once everything has ended nothing is left on the way.
LEMMA NothingLeft ==
  ASSUME MinuteTypes, MinuteAssumption, Pipeline, Running = {}, writer.pc = "done"
  PROVE  AllAccounted
<1>1. toFetch = {}
  <2>1. 1 \in Workers
    BY DEF Workers, MinuteAssumption
  <2>2. worker[1].pc = "done"
    BY <2>1 DEF Running
  <2> QED BY <2>1, <2>2 DEF Pipeline, Exhausted
<1>2. Held = {}
  BY DEF Held, Holds, Running
<1>3. queue = <<>>
  <2> SUFFICES ASSUME queue # <<>>
               PROVE  FALSE
    OBVIOUS
  <2>1. PICK n \in Nat : n = Len(queue)
    BY DEF MinuteTypes
  <2>2. n # 0
    BY <2>1 DEF MinuteTypes
  <2>3. n \in Marks(queue)
    BY <2>1, <2>2 DEF Marks, Pipeline, LastIsMark
  <2>4. IsFiniteSet(Marks(queue)) /\ Cardinality(Marks(queue)) \in Nat
    BY MarksFinite DEF MinuteTypes
  <2>5. Cardinality(Marks(queue)) # 0
    BY <2>3, <2>4, FS_EmptySet
  <2>6. Cardinality(Running) = 0
    BY FS_EmptySet
  <2>7. writer.ended = MaxConcurrent /\ MaxConcurrent \in Nat
    BY DEF Pipeline, WriterEnds, MinuteAssumption
  <2>8. MaxConcurrent + Cardinality(Marks(queue)) + 0 =< MaxConcurrent
    BY <2>6, <2>7 DEF Pipeline, Counted
  <2> QED BY <2>4, <2>5, <2>7, <2>8
<1>4. Queued = {} /\ Open = {}
  <2>1. queue = <<>> /\ writer.batch = <<>>
    BY <1>3 DEF Pipeline, WriterEnds
  <2> QED BY <2>1 DEF Queued, Open, Listed
<1>5. \A s \in Stocks : bars[s] = Complete \/ s \in Stored
  BY <1>1, <1>2, <1>4 DEF Pipeline, Covered
<1> QED BY <1>5, Accounts DEF MinuteTypes, Pipeline, OnePlace

\* Batches and bars that stay account for what they did.
LEMMA AccountStays ==
  ASSUME BatchesAccount, UNCHANGED <<bars, batches>>,
         phase' \in {"counted", "factors", "success", "partial"}
           => phase \in {"counted", "factors", "success", "partial"}
  PROVE  BatchesAccount'
BY DEF BatchesAccount

\* What a run starts with.
LEMMA StartsKeeps ==
  ASSUME MinuteAssumption, MinuteTypes, OutsideInv, Starts
  PROVE  MinuteInv'
<1> DEFINE kept(x) == IF mode = "rebuild" THEN [s \in Stocks |-> 0] ELSE x
           needed == Needed(mode, kept(bars))
           count == IF Cardinality(needed) < MaxConcurrent THEN Cardinality(needed)
                                                           ELSE MaxConcurrent
<1>1. batches = <<>> /\ queue = <<>>
  BY DEF OutsideInv, Starts
<1>2. /\ needed \subseteq Stocks /\ IsFiniteSet(needed) /\ Cardinality(needed) \in Nat
      /\ Cardinality(needed) = 0 <=> needed = {}
  <2>1. needed \in SUBSET Stocks
    BY DEF Needed
  <2>2. IsFiniteSet(needed)
    BY <2>1, FS_Subset DEF MinuteAssumption
  <2> QED BY <2>1, <2>2, FS_CardinalityType, FS_EmptySet
<1>3. /\ bars' = kept(bars) /\ factors' = kept(factors)
      /\ kept(bars) \in [Stocks -> Levels] /\ kept(factors) \in [Stocks -> Levels]
  <2>1. kept(bars) \in [Stocks -> Levels] /\ kept(factors) \in [Stocks -> Levels]
    BY DEF MinuteTypes, Levels, Complete
  <2> QED BY <2>1 DEF Starts
<1>4. \A s \in Stocks : s \in needed \/ bars'[s] = Complete
  <2>1. \A s \in Stocks : kept(bars)[s] \in 0 .. 2
    BY <1>3 DEF Levels, Complete
  <2> QED BY <1>3, <2>1 DEF Needed, Complete
<1>5. /\ toFetch' = needed /\ UNCHANGED <<mode, queue, batches, targets, errors, cancels>>
      /\ worker' = [w \in Workers |-> IF w =< count THEN W("new", Nothing) ELSE Gone]
      /\ writer' = [pc |-> IF count = 0 THEN "done" ELSE "getting",
                    ended |-> MaxConcurrent - count, batch |-> <<>>]
      /\ phase' = IF count = 0 THEN "counted" ELSE "pipeline"
  BY DEF Starts
<1> HIDE DEF needed
<1>6. MaxConcurrent \in Nat \ {0} /\ count \in 0 .. MaxConcurrent /\ (count = 0 <=> needed = {})
  BY <1>2 DEF MinuteAssumption
<1> HIDE DEF kept, count
<1>7. MaxConcurrent - count \in 0 .. MaxConcurrent
  BY <1>6
<1>8. MinuteTypes'
  <2>1. WorkerInv'
    BY <1>5 DEF WorkerInv, Holds, W, Gone, Nothing, Pcs
  <2>2. writer' \in [pc : {"getting", "writing", "done"}, ended : 0 .. MaxConcurrent,
                     batch : Seq(StockItems)]
    BY <1>5, <1>7
  <2>3. phase' \in Phases
    BY <1>5 DEF Phases
  <2> QED BY <1>2, <1>3, <1>5, <2>1, <2>2, <2>3 DEF MinuteTypes
<1>9. /\ Held' = {} /\ Queued' = {} /\ Open' = {} /\ Stored' = {}
      /\ Marks(queue)' = {}
  <2>1. \A w \in Workers : worker'[w].pc \in {"new", "done"}
    BY <1>5 DEF W, Gone
  <2>2. Held' = {}
    BY <2>1 DEF Held, Holds
  <2>3. Queued' = {} /\ Marks(queue)' = {}
    BY <1>1, <1>5 DEF Queued, Listed, Marks
  <2>4. Open' = {} /\ Stored' = {}
    BY <1>1, <1>5 DEF Open, Stored, Listed
  <2> QED BY <2>2, <2>3, <2>4
<1>10. OnceStored' /\ BarsStored' /\ \A s \in Stocks : bars'[s] = Complete \/ s \in toFetch'
  BY <1>1, <1>4, <1>5 DEF OnceStored, BarsStored
<1>11. CASE needed = {}
  <2>1. phase' = "counted" /\ writer'.pc = "done"
    BY <1>5, <1>6, <1>11
  <2>2. BatchesAccount'
    <3>1. \A s \in Stocks : bars'[s] = Complete
      BY <1>5, <1>10, <1>11
    <3>2. batches' = <<>> /\ UNION {{<<b, i>> : i \in 1 .. Len(batches'[b])} : b \in 1 .. Len(batches')} = {}
      BY <1>1, <1>5
    <3> QED BY <3>1, <3>2 DEF BatchesAccount
  <2> QED BY <1>8, <2>1, <2>2 DEF MinuteInv, OutsideInv, PipelineInv
<1>12. CASE needed # {}
  <2>1. /\ phase' = "pipeline" /\ writer'.pc = "getting"
        /\ writer'.ended = MaxConcurrent - count /\ count >= 1
    BY <1>5, <1>6, <1>12
  <2>2. HeldOnce' /\ Exhausted' /\ WriterEnds'
    <3>1. \A w \in Workers : worker'[w].pc \in {"new", "done"} /\ (w = 1 => worker'[w].pc = "new")
      BY <1>5, <1>6, <2>1 DEF W, Gone, Workers
    <3> QED BY <2>1, <3>1 DEF HeldOnce, Holds, Exhausted, WriterEnds
  <2>3. OnePlace'
    <3>1. Once(queue)' /\ Once(writer.batch)'
      BY <1>1, <1>5 DEF Once
    <3>2. Apart(toFetch, Held, Queued, Open, Stored)'
      BY <1>9 DEF Apart
    <3> QED BY <1>10, <2>2, <3>1, <3>2 DEF OnePlace
  <2>4. Covered' /\ LastIsMark'
    BY <1>1, <1>5, <1>10 DEF Covered, LastIsMark
  <2>5. Counted'
    <3>1. Running' = 1 .. count
      <4>1. \A w \in Workers : worker'[w].pc = "new" <=> w =< count
        BY <1>5 DEF W, Gone
      <4>2. \A w \in Workers : worker'[w].pc \in {"new", "done"}
        BY <1>5 DEF W, Gone
      <4>3. Running' = {w \in Workers : w =< count}
        BY <4>1, <4>2 DEF Running
      <4> QED BY <4>3, <1>6 DEF Workers
    <3>2. Cardinality(Running') = count
      BY <1>6, <2>1, <3>1, FS_Interval
    <3>3. Cardinality(Marks(queue)') = 0
      BY <1>9, FS_EmptySet
    <3> QED BY <1>6, <2>1, <3>2, <3>3 DEF Counted
  <2>6. BatchesAccount' /\ OutsideInv'
    BY <2>1 DEF BatchesAccount, OutsideInv
  <2> QED BY <1>8, <1>10, <2>2, <2>3, <2>4, <2>5, <2>6 DEF MinuteInv, PipelineInv, Pipeline
<1> QED BY <1>11, <1>12

\* A step of a worker.
LEMMA WorkerStep ==
  ASSUME MinuteAssumption, MinuteInv, NEW w \in Workers,
         \/ WorkerStarts(w) \/ Puts(w) \/ Ends(w)
         \/ \E fetched \in Answers : Fetched(w, fetched)
         \/ \E failed \in BOOLEAN : Closed(w, failed)
  PROVE  MinuteInv'
<1>0. MinuteTypes /\ OutsideInv /\ PipelineInv /\ BatchesAccount
  BY DEF MinuteInv
<1>1. /\ worker[w].pc # "done"
      /\ UNCHANGED <<mode, bars, factors, targets, batches, errors, cancels>>
  BY DEF WorkerStarts, Puts, Ends, Fetched, Closed
<1>2. phase # "start"
  BY <1>0, <1>1 DEF OutsideInv, Running
<1>3. ASSUME UNCHANGED <<phase, writer>>, phase = "pipeline" => Pipeline'
      PROVE  OutsideInv' /\ PipelineInv' /\ BatchesAccount'
  BY <1>0, <1>1, <1>2, <1>3, AccountStays DEF OutsideInv, PipelineInv
<1>4. CASE WorkerStarts(w)
  <2>1. MinuteTypes'
    BY <1>0, <1>1, <1>4, NextTyped DEF WorkerStarts, MinuteTypes
  <2>2. UNCHANGED <<phase, writer>> /\ (phase = "pipeline" => Pipeline')
    BY <1>0, <1>4, StartKeeps DEF WorkerStarts, PipelineInv
  <2> QED BY <1>3, <2>1, <2>2 DEF MinuteInv
<1>5. CASE Puts(w)
  <2>1. MinuteTypes'
    <3>1. Holds(w) /\ worker[w].holds \in StockItems
      BY <1>0, <1>5 DEF Puts, Holds, MinuteTypes, WorkerInv
    <3>2. queue' \in Seq(StockItems \union {Mark}) /\ Len(queue') =< Capacity
      <4>1. queue' = Append(queue, worker[w].holds) /\ Len(queue) < Capacity
        BY <1>5 DEF Puts
      <4>2. queue \in Seq(StockItems \union {Mark})
        BY <1>0 DEF MinuteTypes
      <4>3. Len(queue) \in Nat /\ Capacity \in Nat
        BY <4>2 DEF Capacity, MinuteAssumption
      <4>4. Len(queue') = Len(queue) + 1 /\ queue' \in Seq(StockItems \union {Mark})
        BY <3>1, <4>1, <4>2
      <4> QED BY <4>1, <4>3, <4>4
    <3> QED BY <1>0, <1>1, <1>5, <3>2, NextTyped DEF Puts, MinuteTypes
  <2>2. UNCHANGED <<phase, writer>> /\ (phase = "pipeline" => Pipeline')
    BY <1>0, <1>5, PutsKeeps DEF Puts, PipelineInv
  <2> QED BY <1>3, <2>1, <2>2 DEF MinuteInv
<1>6. ASSUME NEW fetched \in Answers, Fetched(w, fetched) PROVE MinuteInv'
  <2>1. MinuteTypes'
    <3> DEFINE h == Item(worker[w].holds.stock, fetched)
    <3>1. worker[w].holds \in StockItems
      BY <1>0, <1>6 DEF Fetched, Holds, MinuteTypes, WorkerInv
    <3>2. h \in StockItems /\ "putting" \in Pcs
      BY <3>1 DEF StockItems, Item, Pcs, MinuteAssumption
    <3>3. Moves(w, "putting", h)
      BY <1>6 DEF Fetched, Moves
    <3> HIDE DEF h
    <3>4. WorkerInv'
      BY <1>0, <3>2, <3>3, WorkerTyped DEF MinuteTypes
    <3> QED BY <1>0, <1>1, <1>6, <3>4 DEF Fetched, MinuteTypes
  <2>2. UNCHANGED <<phase, writer>> /\ (phase = "pipeline" => Pipeline')
    BY <1>0, <1>6, FetchedKeeps DEF Fetched, PipelineInv
  <2> QED BY <1>3, <2>1, <2>2 DEF MinuteInv
<1>7. ASSUME NEW failed \in BOOLEAN, Closed(w, failed) PROVE MinuteInv'
  <2>1. MinuteTypes'
    <3> DEFINE h == Item(0, IF failed THEN -1 ELSE 0)
    <3>1. h \in StockItems \union {Item(0, 0), Item(0, -1)} /\ "ending" \in Pcs
      BY DEF Item, Pcs
    <3>2. Moves(w, "ending", h)
      BY <1>7 DEF Closed, Moves
    <3> HIDE DEF h
    <3>3. WorkerInv'
      BY <1>0, <3>1, <3>2, WorkerTyped DEF MinuteTypes
    <3> QED BY <1>0, <1>1, <1>7, <3>3 DEF Closed, MinuteTypes
  <2>2. UNCHANGED <<phase, writer>> /\ (phase = "pipeline" => Pipeline')
    BY <1>0, <1>7, ClosedKeeps DEF Closed, PipelineInv
  <2> QED BY <1>3, <2>1, <2>2 DEF MinuteInv
<1>8. CASE Ends(w)
  <2>1. queue' \in Seq(StockItems \union {Mark}) /\ Len(queue') =< Capacity
    <3>1. queue' = Append(queue, Mark) /\ Len(queue) < Capacity
      BY <1>8 DEF Ends
    <3>2. queue \in Seq(StockItems \union {Mark})
      BY <1>0 DEF MinuteTypes
    <3>3. Len(queue) \in Nat /\ Capacity \in Nat
      BY <3>2 DEF Capacity, MinuteAssumption
    <3>4. Len(queue') = Len(queue) + 1 /\ queue' \in Seq(StockItems \union {Mark})
      BY <3>1, <3>2
    <3> QED BY <3>1, <3>3, <3>4
  <2>2. CASE worker[w].holds.rows = -1 /\ phase = "pipeline"
    <3> DEFINE ws == [worker EXCEPT ![w] = Gone]
    <3>1. CancelTasks(ws) /\ UNCHANGED toFetch
      BY <1>8, <2>2 DEF Ends
    <3>2. ws \in [Workers -> [pc : Pcs, holds : StockItems \union {Item(0, 0), Item(0, -1)}]]
      BY <1>0 DEF MinuteTypes, WorkerInv, Gone, W, Nothing, Pcs
    <3> HIDE DEF ws
    <3>3. MinuteTypes'
      BY <1>0, <1>1, <2>1, <3>1, <3>2, CancelTyped DEF MinuteTypes
    <3>4. phase' = "draining" /\ writer'.pc = "done"
      BY <1>0, <3>1 DEF CancelTasks, MinuteTypes
    <3> QED BY <3>3, <3>4 DEF MinuteInv, OutsideInv, PipelineInv, BatchesAccount
  <2>3. CASE ~(worker[w].holds.rows = -1 /\ phase = "pipeline")
    <3>1. Moves(w, "done", Nothing) /\ UNCHANGED <<writer, phase, toFetch>>
      BY <1>8, <2>3 DEF Ends, Gone, Moves
    <3>2. MinuteTypes'
      <4>1. WorkerInv'
        BY <1>0, <3>1, WorkerTyped DEF MinuteTypes, Pcs, Nothing
      <4> QED BY <1>0, <1>1, <2>1, <3>1, <4>1 DEF MinuteTypes
    <3>3. phase = "pipeline" => Pipeline'
      BY <1>0, <1>8, <3>1, EndsKeeps DEF PipelineInv
    <3> QED BY <1>3, <3>1, <3>2, <3>3 DEF MinuteInv
  <2> QED BY <2>2, <2>3
<1> QED BY <1>4, <1>5, <1>6, <1>7, <1>8

\* A step of the writer.
LEMMA WriterStep ==
  ASSUME MinuteAssumption, MinuteInv, Gets \/ GetsMark \/ Written
  PROVE  MinuteInv'
<1>0. MinuteTypes /\ OutsideInv /\ PipelineInv /\ BatchesAccount
  BY DEF MinuteInv
<1>1. /\ writer.pc # "done"
      /\ UNCHANGED <<phase, mode, factors, toFetch, worker, targets, cancels>>
  BY DEF Gets, GetsMark, Written
<1>2. phase = "pipeline" /\ Pipeline
  BY <1>0, <1>1 DEF OutsideInv, PipelineInv
<1>3. ASSUME Pipeline' PROVE OutsideInv' /\ PipelineInv' /\ BatchesAccount'
  BY <1>1, <1>2, <1>3 DEF OutsideInv, PipelineInv, BatchesAccount
<1>4. ASSUME queue # <<>>, queue' = Tail(queue)
      PROVE  /\ Head(queue) \in StockItems \union {Mark}
             /\ queue' \in Seq(StockItems \union {Mark}) /\ Len(queue') =< Capacity
  <2>1. queue \in Seq(StockItems \union {Mark}) /\ Len(queue) =< Capacity
    BY <1>0 DEF MinuteTypes
  <2>2. /\ Len(queue) \in Nat \ {0} /\ Len(queue') = Len(queue) - 1
        /\ Head(queue) \in StockItems \union {Mark} /\ queue' \in Seq(StockItems \union {Mark})
    BY <1>4, <2>1, TailShifts
  <2>3. Capacity \in Nat
    BY DEF Capacity, MinuteAssumption
  <2> QED BY <2>1, <2>2, <2>3
<1>5. WorkerInv' /\ UNCHANGED <<toFetch, phase, mode, factors, targets, cancels>>
  BY <1>0, <1>1 DEF MinuteTypes, WorkerInv, Holds
<1>6. CASE Gets
  <2> DEFINE batch == Append(writer.batch, Head(queue))
             flush == Len(batch) >= BatchSize
  <2>1. /\ queue # <<>> /\ Head(queue) # Mark /\ queue' = Tail(queue)
        /\ FlushOr(batch, flush, "getting") /\ UNCHANGED bars
        /\ errors' = (errors \/ Head(queue).rows < 0)
    BY <1>6 DEF Gets
  <2>2. Head(queue) \in StockItems /\ queue' \in Seq(StockItems \union {Mark}) /\ Len(queue') =< Capacity
    BY <1>4, <2>1
  <2>3. batch \in Seq(StockItems) /\ flush \in BOOLEAN
    BY <1>0, <2>2 DEF MinuteTypes
  <2> HIDE DEF batch, flush
  <2>4. /\ writer' \in [pc : {"getting", "writing", "done"}, ended : 0 .. MaxConcurrent,
                        batch : Seq(StockItems)]
        /\ batches' \in Seq(Seq(StockItems))
    BY <1>0, <2>1, <2>3, FlushTyped
  <2>5. errors' \in BOOLEAN
    BY <1>0, <2>1 DEF MinuteTypes
  <2>6. MinuteTypes'
    BY <1>0, <1>5, <2>1, <2>2, <2>4, <2>5 DEF MinuteTypes
  <2>7. Pipeline'
    BY <1>0, <1>2, <1>6, GetsKeeps
  <2> QED BY <1>3, <2>6, <2>7 DEF MinuteInv
<1>7. CASE GetsMark
  <2>1. Pipeline' /\ writer'.ended \in 0 .. MaxConcurrent
    BY <1>0, <1>2, <1>7, GetsMarkKeeps
  <2>2. queue' \in Seq(StockItems \union {Mark}) /\ Len(queue') =< Capacity
    BY <1>4, <1>7 DEF GetsMark
  <2>3. writer \in [pc : {"getting", "writing", "done"}, ended : 0 .. MaxConcurrent, batch : Seq(StockItems)]
    BY <1>0 DEF MinuteTypes
  <2>4. writer' \in [pc : {"getting", "writing", "done"}, ended : 0 .. MaxConcurrent, batch : Seq(StockItems)]
    <3>1. \/ writer' = [writer EXCEPT !.ended = @ + 1]
          \/ writer' = [writer EXCEPT !.ended = @ + 1, !.pc = "writing"]
          \/ writer' = [writer EXCEPT !.ended = @ + 1, !.pc = "done", !.batch = <<>>]
      BY <1>7 DEF GetsMark
    <3>2. writer.ended + 1 \in 0 .. MaxConcurrent
      BY <2>1, <2>3, <3>1
    <3>3. <<>> \in Seq(StockItems)
      OBVIOUS
    <3> QED BY <2>3, <3>1, <3>2, <3>3
  <2>5. batches' \in Seq(Seq(StockItems))
    <3>1. batches' = batches \/ batches' = Append(batches, writer.batch)
      BY <1>7 DEF GetsMark
    <3>2. writer.batch \in Seq(StockItems) /\ batches \in Seq(Seq(StockItems))
      BY <1>0, <2>3 DEF MinuteTypes
    <3> QED BY <3>1, <3>2
  <2>6. MinuteTypes'
    BY <1>0, <1>5, <1>7, <2>2, <2>4, <2>5 DEF GetsMark, MinuteTypes
  <2> QED BY <1>3, <2>1, <2>6 DEF MinuteInv
<1>8. CASE Written
  <2>1. Pipeline' /\ bars' \in [Stocks -> Levels]
    BY <1>0, <1>2, <1>8, WrittenKeeps
  <2>2. writer \in [pc : {"getting", "writing", "done"}, ended : 0 .. MaxConcurrent, batch : Seq(StockItems)]
    BY <1>0 DEF MinuteTypes
  <2>3. writer' \in [pc : {"getting", "writing", "done"}, ended : 0 .. MaxConcurrent, batch : Seq(StockItems)]
    <3>1. <<>> \in Seq(StockItems)
      OBVIOUS
    <3> QED BY <1>8, <2>2, <3>1 DEF Written
  <2>4. batches' \in Seq(Seq(StockItems))
    BY <1>0, <1>8, <2>2 DEF Written, MinuteTypes
  <2>5. MinuteTypes'
    BY <1>0, <1>5, <1>8, <2>1, <2>3, <2>4 DEF Written, MinuteTypes
  <2> QED BY <1>3, <2>1, <2>5 DEF MinuteInv
<1> QED BY <1>6, <1>7, <1>8

\* A step of the run, or its cancellation.
LEMMA MinuteRunStep ==
  ASSUME MinuteAssumption, MinuteInv,
         \/ ListTargets \/ Finish \/ Gathered \/ Drained \/ WriteFails \/ Cancel
         \/ \E failed \in BOOLEAN : Calculate(failed)
  PROVE  MinuteInv'
<1>0. MinuteTypes /\ OutsideInv /\ PipelineInv /\ BatchesAccount
  BY DEF MinuteInv
<1>1. phase # "start" /\ UNCHANGED <<mode, bars, toFetch, queue, batches>>
  BY DEF ListTargets, Finish, Gathered, Drained, WriteFails, Cancel, Calculate
<1>2. CASE WriteFails \/ Cancel
  <2>1. CancelTasks(worker) /\ UNCHANGED <<factors, targets, errors>> /\ cancels' \in {cancels, cancels + 1}
    BY <1>2 DEF WriteFails, Cancel
  <2>2. worker \in [Workers -> [pc : Pcs, holds : StockItems \union {Item(0, 0), Item(0, -1)}]]
    BY <1>0 DEF MinuteTypes, WorkerInv
  <2>3. MinuteTypes'
    <3>1. /\ WorkerInv' /\ phase' \in Phases
          /\ writer' \in [pc : {"getting", "writing", "done"}, ended : 0 .. MaxConcurrent,
                          batch : Seq(StockItems)]
      BY <1>0, <2>1, <2>2, CancelTyped
    <3>2. cancels' \in Nat
      BY <1>0, <2>1 DEF MinuteTypes
    <3> QED BY <1>0, <1>1, <2>1, <3>1, <3>2 DEF MinuteTypes
  <2>4. phase' = "draining" /\ writer'.pc = "done"
    BY <1>0, <2>1 DEF CancelTasks, MinuteTypes
  <2> QED BY <2>3, <2>4 DEF MinuteInv, OutsideInv, PipelineInv, BatchesAccount
<1>3. CASE ~(WriteFails \/ Cancel)
  <2>1. /\ UNCHANGED <<worker, writer, cancels>>
        /\ ListTargets \/ Finish \/ Gathered \/ Drained \/ \E failed \in BOOLEAN : Calculate(failed)
    BY <1>3 DEF ListTargets, Finish, Gathered, Drained, Calculate
  <2>2. MinuteTypes'
    <3>1. WorkerInv'
      BY <1>0, <2>1 DEF MinuteTypes, WorkerInv, Holds
    <3>2. phase' \in Phases /\ targets' \subseteq Stocks /\ errors' \in BOOLEAN
      BY <1>0, <2>1 DEF ListTargets, Finish, Gathered, Drained, Calculate, MinuteTypes, Phases
    <3>3. factors' \in [Stocks -> Levels]
      BY <1>0, <2>1 DEF ListTargets, Finish, Gathered, Drained, Calculate, MinuteTypes
    <3> QED BY <1>0, <1>1, <2>1, <3>1, <3>2, <3>3 DEF MinuteTypes
  <2>3. phase' # "start" /\ phase' # "pipeline"
    BY <2>1 DEF ListTargets, Finish, Gathered, Drained, Calculate
  <2>4. writer.pc = "done"
    BY <1>0, <2>1 DEF OutsideInv, ListTargets, Finish, Gathered, Drained, Calculate
  <2>5. BatchesAccount'
    <3>1. CASE Gathered
      <4>1. Pipeline /\ Running = {}
        BY <1>0, <3>1 DEF Gathered, PipelineInv
      <4>2. AllAccounted
        BY <1>0, <2>4, <4>1, NothingLeft
      <4> QED BY <1>1, <4>2 DEF BatchesAccount, AllAccounted
    <3>2. CASE ~Gathered
      <4>1. phase' \in {"counted", "factors", "success", "partial"}
              => phase \in {"counted", "factors", "success", "partial"}
        BY <2>1, <3>2 DEF ListTargets, Finish, Drained, Calculate
      <4> QED BY <1>0, <1>1, <4>1, AccountStays
    <3> QED BY <3>1, <3>2
  <2> QED BY <2>1, <2>2, <2>3, <2>4, <2>5 DEF MinuteInv, OutsideInv, PipelineInv
<1> QED BY <1>2, <1>3

-----------------------------------------------------------------------------
(* The theorems. *)

LEMMA InitInv ==
  ASSUME MinuteAssumption, MinuteInit
  PROVE  MinuteInv
<1>1. MinuteTypes
  <2>1. phase \in Phases /\ mode \in {"append_safe", "rebuild"}
    BY DEF MinuteInit, MinuteAssumption, Phases
  <2>2. bars \in [Stocks -> Levels] /\ factors \in [Stocks -> Levels]
    BY DEF MinuteInit, MinuteAssumption, Levels
  <2>3. WorkerInv
    BY DEF MinuteInit, WorkerInv, Holds, Gone, W, Nothing, Pcs
  <2>4. queue \in Seq(StockItems \union {Mark}) /\ Len(queue) =< Capacity
    BY DEF MinuteInit, Capacity, MinuteAssumption
  <2>5. writer \in [pc : {"getting", "writing", "done"}, ended : 0 .. MaxConcurrent,
                    batch : Seq(StockItems)]
    BY DEF MinuteInit, NoWriter, MinuteAssumption
  <2>6. batches = <<>> /\ toFetch = {} /\ targets = {} /\ cancels = 0
    BY DEF MinuteInit
  <2>7. batches \in Seq(Seq(StockItems)) /\ toFetch \subseteq Stocks /\ targets \subseteq Stocks
        /\ cancels \in Nat
    BY <2>6
  <2>8. errors \in BOOLEAN
    BY DEF MinuteInit
  <2> QED BY <2>1, <2>2, <2>3, <2>4, <2>5, <2>7, <2>8 DEF MinuteTypes
<1>2. OutsideInv /\ PipelineInv /\ BatchesAccount
  BY DEF MinuteInit, OutsideInv, PipelineInv, BatchesAccount, Running, Gone, W, NoWriter
<1> QED BY <1>1, <1>2 DEF MinuteInv

LEMMA StepInv ==
  ASSUME MinuteAssumption, MinuteInv, [MinuteNext]_minuteVars
  PROVE  MinuteInv'
<1>1. CASE Starts
  BY <1>1, StartsKeeps DEF MinuteInv
<1>2. ASSUME NEW w \in Workers,
             \/ WorkerStarts(w) \/ Puts(w) \/ Ends(w)
             \/ \E fetched \in Answers : Fetched(w, fetched)
             \/ \E failed \in BOOLEAN : Closed(w, failed)
      PROVE  MinuteInv'
  BY <1>2, WorkerStep
<1>3. CASE Gets \/ GetsMark \/ Written
  BY <1>3, WriterStep
<1>4. CASE \/ ListTargets \/ Finish \/ Gathered \/ Drained \/ WriteFails \/ Cancel
           \/ \E failed \in BOOLEAN : Calculate(failed)
  BY <1>4, MinuteRunStep
<1>5. CASE UNCHANGED minuteVars
  <2>1. UNCHANGED <<phase, mode, bars, factors, toFetch, worker, queue, writer, batches, targets,
                    errors, cancels>>
    BY <1>5 DEF minuteVars
  <2>2. MinuteTypes'
    BY <2>1 DEF MinuteInv, MinuteTypes, WorkerInv, Holds
  <2>3. OutsideInv' /\ BatchesAccount'
    BY <2>1, AccountStays DEF MinuteInv, OutsideInv, Running
  <2>4. PipelineInv'
    <3> SUFFICES ASSUME Pipeline
                 PROVE  Pipeline'
      BY <2>1 DEF MinuteInv, PipelineInv
    <3>1. /\ Queued' = Queued /\ Once(queue)' /\ Marks(queue)' = Marks(queue)
          /\ Open' = Open /\ Stored' = Stored /\ Once(writer.batch)' /\ OnceStored'
          /\ WriterEnds' /\ BarsStored'
      BY <2>1, QueueStays, BatchesStay DEF Pipeline, OnePlace
    <3>2. Held' = Held /\ HeldOnce' /\ Exhausted' /\ Running' = Running
      BY <2>1 DEF Pipeline, OnePlace, Held, HeldOnce, Holds, Exhausted, Running
    <3>3. Apart(toFetch, Held, Queued, Open, Stored)' /\ Covered'
      BY <2>1, <3>1, <3>2 DEF Pipeline, OnePlace, Apart, Covered
    <3>4. Counted' /\ LastIsMark'
      BY <2>1, <3>1, <3>2 DEF Pipeline, Counted, LastIsMark
    <3> QED BY <3>1, <3>2, <3>3, <3>4 DEF Pipeline, OnePlace
  <2> QED BY <2>2, <2>3, <2>4 DEF MinuteInv
<1> QED BY <1>1, <1>2, <1>3, <1>4, <1>5 DEF MinuteNext, Step

LEMMA Inductive == MinuteSpec => []MinuteInv
<1>1. MinuteInit => MinuteInv
  BY InitInv, MinuteAssumption
<1>2. MinuteInv /\ [MinuteNext]_minuteVars => MinuteInv'
  BY StepInv, MinuteAssumption
<1> QED BY <1>1, <1>2, PTL DEF MinuteSpec

\* Types, and that the queue never holds more than twice as many items as there are
\* workers (write_queue, close_ingest.py:1687).
THEOREM MinuteTypesCorrect == MinuteSpec => []MinuteTypes
<1>1. MinuteInv => MinuteTypes
  BY DEF MinuteInv
<1> QED BY <1>1, Inductive, PTL

\* However the workers, their bounded queue and the writer interleave, and whichever stocks
\* fail: a pipeline that has ended well has every stock it was to fetch in exactly one
\* batch, and the bars of every batch are stored (minute_worker, minute_writer).
THEOREM EveryStockInOneBatch == MinuteSpec => []BatchesAccount
<1>1. MinuteInv => BatchesAccount
  BY DEF MinuteInv
<1> QED BY <1>1, Inductive, PTL

-----------------------------------------------------------------------------
(* The versions of a strategy                                              *)

USE VersionAssumption, BatchAssumption, StartAssumption

Request_ == [op : {"idle", "create", "edit", "status", "promote", "retire"},
             v : Versions, def : DefStatus, was : VersionStatus,
             saw : SUBSET Versions, others : SUBSET Versions, to : DefStatus]

\* A backtest that loads has batches left.
BatchesLeft == \A r \in Runs : run[r].pc = "run" => run[r].done < Batches
TypeInv == TypeOK /\ BatchesLeft

\* A promotion that is about to commit retires what it listed, but for its own version.
Retires == \A q \in Requests :
             req[q].op = "retire" => req[q].others = req[q].saw \ {req[q].v}

\* At most one version is on paper, said of the rows.
OnePaper == \A v, w \in Versions : ver[v].status = "paper" /\ ver[w].status = "paper" => v = w
PaperInv == (~raced => OnePaper) /\ PoolFollowsDefinition

-----------------------------------------------------------------------------
\* Types.
LEMMA LatestType == Latest \in Nat
  <1>1. IsFiniteSet(Versions)
    BY FS_Interval DEF Versions
  <1>2. IsFiniteSet(Versions \ InState("none"))
    BY <1>1, FS_Subset
  <1> QED BY <1>2, FS_CardinalityType DEF Latest

LEMMA StartType ==
  ASSUME started \in 0 .. MaxStarts, Start
  PROVE  started' \in 0 .. MaxStarts
  BY DEF Start

LEMMA InStateType == ASSUME NEW s PROVE InState(s) \in SUBSET Versions
  BY DEF InState

LEMMA RunConstants == NoRun \in Run /\ OldRun \in Run
  <1>1. NoRun \in Run
    <2>1. 0 \in 0 .. Batches /\ FALSE \in BOOLEAN
      OBVIOUS
    <2> QED BY <2>1 DEF NoRun, Run, RowStatus
  <1>2. Batches \in 0 .. Batches
    OBVIOUS
  <1>3. OldRun \in Run
    BY <1>1, <1>2 DEF OldRun, Run, RowStatus
  <1> QED BY <1>1, <1>3

\* The versions of an empty database, and of one an earlier release left.
LEMMA InitType == Init => TypeInv
  <1> SUFFICES ASSUME Init PROVE TypeInv
    OBVIOUS
  <1> USE DEF Versions
  <1>1. study \in SUBSET Runs /\ started \in 0 .. MaxStarts /\ raced \in BOOLEAN
    <2>1. study = {} /\ started = 0 /\ raced = FALSE
      BY DEF Init
    <2>2. started \in 0 .. MaxStarts
      BY <2>1
    <2>3. raced \in BOOLEAN
      BY <2>1, Zenon
    <2> QED BY <2>1, <2>2, <2>3
  <1>2. round \in [on : BOOLEAN, enter : SUBSET Versions, exit : SUBSET Versions]
    BY DEF Init, Off
  <1>3. req \in [Requests -> Request_]
    <2>1. Idle \in Request_
      BY DEF Idle, Request_, DefStatus, VersionStatus
    <2> QED BY <2>1 DEF Init
  <1>4. NoRun \in Run /\ NoVersion \in Version /\ OldRun \in Run
    <2>1. NoVersion \in Version
      BY DEF NoVersion, Version, VersionStatus
    <2>2. OldRun \in Run
      BY RunConstants
    <2> QED BY <2>1, <2>2, RunConstants
  <1>5. CASE Empty
    <2>1. def \in DefStatus /\ pool \in BOOLEAN /\ policy \in BOOLEAN
      BY <1>5 DEF Empty, DefStatus
    <2>2. ver \in [Versions -> Version] /\ run \in [Runs -> Run] /\ cand = {} /\ open = {}
      BY <1>4, <1>5 DEF Empty
    <2>3. BatchesLeft
      BY <1>5 DEF Empty, BatchesLeft, NoRun
    <2> QED BY <1>1, <1>2, <1>3, <2>1, <2>2, <2>3 DEF TypeInv, TypeOK, Request_
  <1>6. CASE Inherited
    <2>1. def \in DefStatus /\ pool \in BOOLEAN /\ policy \in BOOLEAN
      BY <1>6 DEF Inherited, DefStatus
    <2>2. cand \in SUBSET Versions /\ open \in SUBSET Versions
      BY <1>6, InStateType DEF Inherited, ListPaperVersions
    <2>3. ver \in [Versions -> Version]
      <3>1. PICK s \in [Versions -> {"none", "draft", "backtest_ready", "paper"}] :
              ver = [v \in Versions |->
                       [NoVersion EXCEPT !.status = s[v],
                          !.qualified = s[v] \in {"backtest_ready", "paper"}]]
        BY <1>6 DEF Inherited
      <3> SUFFICES ASSUME NEW v \in Versions
                   PROVE  [NoVersion EXCEPT !.status = s[v],
                             !.qualified = s[v] \in {"backtest_ready", "paper"}] \in Version
        BY <3>1
      <3>2. s[v] \in VersionStatus /\ (s[v] \in {"backtest_ready", "paper"}) \in BOOLEAN
        BY DEF VersionStatus
      <3> QED BY <3>2 DEF NoVersion, Version
    <2>4. PICK old \in SUBSET Runs, c \in BOOLEAN :
            run = [r \in Runs |-> IF r \in old THEN [OldRun EXCEPT !.capped = c] ELSE NoRun]
      BY <1>6 DEF Inherited
    <2>5. [OldRun EXCEPT !.capped = c] \in Run
      BY <1>4 DEF Run
    <2>6. run \in [Runs -> Run]
      BY <1>4, <2>4, <2>5
    <2>7. BatchesLeft
      BY <2>4 DEF BatchesLeft, NoRun, OldRun
    <2> QED BY <1>1, <1>2, <1>3, <2>1, <2>2, <2>3, <2>6, <2>7 DEF TypeInv, TypeOK, Request_
  <1> QED BY <1>5, <1>6 DEF Init

\* The rows a request may write.
RowTypes == /\ def \in DefStatus /\ pool \in BOOLEAN /\ policy \in BOOLEAN
            /\ ver \in [Versions -> Version] /\ raced \in BOOLEAN
RunTypes == run \in [Runs -> Run] /\ study \in SUBSET Runs /\ BatchesLeft
TradeTypes == /\ cand \in SUBSET Versions /\ open \in SUBSET Versions
              /\ round \in [on : BOOLEAN, enter : SUBSET Versions, exit : SUBSET Versions]
ReqTypes == req \in [Requests -> Request_] /\ started \in 0 .. MaxStarts

LEMMA TypeParts == TypeInv <=> RowTypes /\ RunTypes /\ TradeTypes /\ ReqTypes
  BY DEF TypeInv, TypeOK, RowTypes, RunTypes, TradeTypes, ReqTypes, Request_

LEMMA BeginType ==
  ASSUME ReqTypes, NEW q \in Requests, NEW r \in Request_, Begin(q, r)
  PROVE  ReqTypes'
  BY StartType DEF ReqTypes, Begin

LEMMA EndType ==
  ASSUME ReqTypes, NEW q \in Requests, End(q)
  PROVE  ReqTypes'
  BY DEF ReqTypes, End, Idle, Request_, Versions, DefStatus, VersionStatus

LEMMA ReqStep ==
  ASSUME TypeInv, [Next]_vars
  PROVE  ReqTypes'
  <1>0. ReqTypes /\ RowTypes
    BY TypeParts
  <1>1. Idle \in Request_
    BY DEF Idle, Request_, Versions, DefStatus, VersionStatus
  <1>2. ASSUME NEW q \in Requests, Request(q) PROVE ReqTypes'
    <2>1. CASE CreateReads(q)
      <3>1. Latest + 1 \in Versions
        BY <2>1, LatestType DEF CreateReads, Versions
      <3>2. [Idle EXCEPT !.op = "create", !.v = Latest + 1] \in Request_
        BY <1>1, <3>1 DEF Request_
      <3> QED BY <1>0, <2>1, <3>2, BeginType DEF CreateReads
    <2>2. ASSUME NEW v \in Versions, EditReads(q, v) PROVE ReqTypes'
      <3>1. [Idle EXCEPT !.op = "edit", !.v = v] \in Request_
        BY <1>1 DEF Request_
      <3> QED BY <1>0, <2>2, <3>1, BeginType DEF EditReads
    <2>3. ASSUME NEW to \in {"draft", "research", "archived"}, StatusReads(q, to) PROVE ReqTypes'
      <3>1. [Idle EXCEPT !.op = "status", !.def = def, !.to = to] \in Request_
        BY <1>0, <1>1 DEF Request_, RowTypes, DefStatus
      <3> QED BY <1>0, <2>3, <3>1, BeginType DEF StatusReads
    <2>4. ASSUME NEW v \in Versions, PromoteReads(q, v) PROVE ReqTypes'
      <3>1. ver[v].status \in VersionStatus /\ def \in DefStatus
        BY <1>0 DEF RowTypes, Version
      <3>2. [Idle EXCEPT !.op = "promote", !.v = v, !.def = def, !.was = ver[v].status]
              \in Request_
        BY <1>1, <3>1 DEF Request_
      <3> QED BY <1>0, <2>4, <3>2, BeginType DEF PromoteReads
    <2>5. CASE PromoteLists(q)
      <3>1. [req[q] EXCEPT !.op = "retire", !.saw = InState("paper"),
                           !.others = OthersOnPaper(req[q].v)] \in Request_
        BY <1>0, InStateType DEF ReqTypes, Request_, OthersOnPaper
      <3>2. req' = [req EXCEPT ![q] = [req[q] EXCEPT !.op = "retire", !.saw = InState("paper"),
                                         !.others = OthersOnPaper(req[q].v)]]
        BY <2>5 DEF PromoteLists
      <3> QED BY <1>0, <2>5, <3>1, <3>2 DEF ReqTypes, PromoteLists
    <2>6. CASE CreateCommits(q) \/ EditCommits(q) \/ StatusCommits(q) \/ PromoteCommits(q)
      BY <1>0, <2>6, EndType
         DEF CreateCommits, EditCommits, StatusCommits, PromoteCommits
    <2> QED BY <1>2, <2>1, <2>2, <2>3, <2>4, <2>5, <2>6 DEF Request
  <1>3. ASSUME \/ \E s \in {"draft", "research"} : CreateDefinition(s)
               \/ \E r \in Runs : StartBacktest(r)
               \/ RoundLists
        PROVE ReqTypes'
    BY <1>0, <1>3, StartType DEF ReqTypes, CreateDefinition, StartBacktest, RoundLists, SetRun
  <1>4. CASE Crash
    BY <1>0, <1>1, <1>4 DEF ReqTypes, Crash
  <1>5. ASSUME NEW r \in Runs, \/ Proceed(r) \/ StatementFails(r) \/ CancelBacktest(r)
                               \/ DiscardFails(r) \/ Optimise(r)
        PROVE ReqTypes'
    BY <1>0, <1>5 DEF ReqTypes, Proceed, Batch, LoadRaises, Summarise, DiscardPartial,
       StatementFails, CancelBacktest, DiscardFails, Optimise, SetRun, sessions
  <1>6. CASE (\E i, o \in SUBSET Versions : RoundCommits(i, o)) \/ UNCHANGED vars
    BY <1>0, <1>6 DEF ReqTypes, RoundCommits, sessions, vars
  <1> QED BY <1>2, <1>3, <1>4, <1>5, <1>6 DEF Next

LEMMA RowStep ==
  ASSUME TypeInv, [Next]_vars
  PROVE  RowTypes'
  <1>0. RowTypes /\ ReqTypes
    BY TypeParts
  <1>1. [NoVersion EXCEPT !.status = "draft"] \in Version
    BY DEF NoVersion, Version, VersionStatus
  <1>2. ASSUME NEW s \in {"draft", "research"}, CreateDefinition(s) PROVE RowTypes'
    BY <1>0, <1>1, <1>2 DEF RowTypes, CreateDefinition, DefStatus, Versions
  <1>3. ASSUME NEW q \in Requests, Request(q) PROVE RowTypes'
    <2>0. req[q].v \in Versions /\ req[q].to \in DefStatus
      BY <1>0 DEF ReqTypes, Request_
    <2>1. CASE CreateCommits(q)
      BY <1>0, <1>1, <2>0, <2>1 DEF RowTypes, CreateCommits
    <2>2. CASE EditCommits(q)
      <3>1. [ver[req[q].v] EXCEPT !.rev = ver[req[q].v].rev + 1] \in Version
        BY <1>0, <2>0 DEF RowTypes, Version
      <3>2. ver' = [ver EXCEPT ![req[q].v] = [ver[req[q].v] EXCEPT !.rev = ver[req[q].v].rev + 1]]
        BY <2>2 DEF EditCommits
      <3> QED BY <1>0, <2>2, <3>1, <3>2 DEF RowTypes, EditCommits
    <2>3. CASE StatusCommits(q)
      BY <1>0, <2>0, <2>3 DEF RowTypes, StatusCommits, PoolVisible
    <2>4. CASE PromoteCommits(q)
      <3>1. \A w \in Versions : [ver[w] EXCEPT !.status = "paper"] \in Version
                                /\ [ver[w] EXCEPT !.status = "retired"] \in Version
        BY <1>0 DEF RowTypes, Version, VersionStatus
      <3>2. ver' \in [Versions -> Version]
        BY <1>0, <2>4, <3>1 DEF RowTypes, PromoteCommits
      <3>3. raced' \in BOOLEAN
        BY <1>0, <2>4 DEF RowTypes, PromoteCommits
      <3> QED BY <1>0, <2>4, <3>2, <3>3 DEF RowTypes, PromoteCommits, DefStatus
    <2>5. CASE UNCHANGED <<rows, raced>>
      BY <1>0, <2>5 DEF RowTypes, rows
    <2> QED BY <1>3, <2>1, <2>2, <2>3, <2>4, <2>5
            DEF Request, CreateReads, EditReads, StatusReads, PromoteReads, PromoteLists
  <1>4. CASE UNCHANGED <<rows, raced>>
    BY <1>0, <1>4 DEF RowTypes, rows
  <1> QED BY <1>2, <1>3, <1>4 DEF Next, StartBacktest, Proceed, Batch, LoadRaises, Summarise,
          DiscardPartial, StatementFails, CancelBacktest, DiscardFails, Optimise, SetRun,
          RoundLists, RoundCommits, Crash, vars, rows

LEMMA RunStep ==
  ASSUME TypeInv, [Next]_vars
  PROVE  RunTypes'
  <1>0. RunTypes
    BY TypeParts
  <1>1. ASSUME NEW r \in Runs, NEW x \in Run, x.pc = "run" => x.done < Batches, SetRun(r, x)
        PROVE  RunTypes'
    BY <1>0, <1>1 DEF RunTypes, SetRun, BatchesLeft
  <1>2. ASSUME NEW r \in Runs, StartBacktest(r) PROVE RunTypes'
    <2>1. [NoRun EXCEPT !.pc = "run", !.status = "running"] \in Run
      BY RunConstants DEF Run, RowStatus
    <2>2. [NoRun EXCEPT !.pc = "run", !.status = "running"].done < Batches
      BY DEF NoRun
    <2> QED BY <1>1, <1>2, <2>1, <2>2 DEF StartBacktest
  <1>3. ASSUME NEW r \in Runs, Batch(r) PROVE RunTypes'
    <2> DEFINE done == run[r].done + 1
               x == [run[r] EXCEPT !.done = done,
                                   !.pc = IF done = Batches THEN "summary" ELSE "run"]
    <2>1. run[r] \in Run /\ run[r].done \in 0 .. Batches /\ run[r].done < Batches
      BY <1>0, <1>3 DEF RunTypes, Run, BatchesLeft, Batch
    <2>2. done \in 0 .. Batches
      BY <2>1
    <2>3. x \in Run
      BY <2>1, <2>2 DEF Run
    <2>4. x.pc = "run" => x.done < Batches
      BY <2>1, <2>2 DEF Run
    <2>5. SetRun(r, x)
      BY <1>3 DEF Batch
    <2> QED BY <1>1, <2>3, <2>4, <2>5
  <1>4. ASSUME NEW r \in Runs, \/ LoadRaises(r) \/ Summarise(r) \/ DiscardPartial(r)
                               \/ StatementFails(r) \/ CancelBacktest(r) \/ DiscardFails(r)
        PROVE  RunTypes'
    <2>1. run[r] \in Run
      BY <1>0 DEF RunTypes
    <2>2. /\ FailBacktestRun(run[r]) \in Run /\ FailBacktestRun(run[r]).pc = "idle"
          /\ CancelBacktestRun(run[r]) \in Run /\ CancelBacktestRun(run[r]).pc = "idle"
      BY <2>1 DEF FailBacktestRun, CancelBacktestRun, Run, RowStatus
    <2>3. /\ [run[r] EXCEPT !.pc = "idle", !.lost = TRUE] \in Run
          /\ [run[r] EXCEPT !.pc = "idle", !.lost = TRUE].pc = "idle"
          /\ [run[r] EXCEPT !.pc = "discard"] \in Run
          /\ [run[r] EXCEPT !.pc = "discard"].pc = "discard"
      BY <2>1 DEF Run
    <2> QED BY <1>1, <1>4, <2>2, <2>3
            DEF LoadRaises, Summarise, DiscardPartial, StatementFails, CancelBacktest, DiscardFails
  <1>5. ASSUME NEW r \in Runs, Optimise(r) PROVE RunTypes'
    BY <1>0, <1>5 DEF RunTypes, Optimise, BatchesLeft
  <1>6. CASE Crash
    <2> DEFINE x(r) == [run[r] EXCEPT !.pc = "idle", !.lost = run[r].lost \/ run[r].pc # "idle"]
    <2>1. \A r \in Runs : (run[r].lost \/ run[r].pc # "idle") \in BOOLEAN
      BY <1>0 DEF RunTypes, Run
    <2>2. \A r \in Runs : x(r) \in Run /\ x(r).pc = "idle"
      BY <1>0, <2>1 DEF RunTypes, Run
    <2>3. run' = [r \in Runs |-> x(r)]
      BY <1>6 DEF Crash
    <2> HIDE DEF x
    <2>4. \A r \in Runs : run'[r] \in Run /\ run'[r].pc = "idle"
      BY <2>2, <2>3
    <2>5. run' \in [Runs -> Run]
      BY <2>2, <2>3
    <2>6. study' = study
      BY <1>6 DEF Crash
    <2> QED BY <1>0, <2>4, <2>5, <2>6 DEF RunTypes, BatchesLeft
  <1>7. CASE UNCHANGED <<run, study>>
    BY <1>0, <1>7 DEF RunTypes, BatchesLeft
  <1>8. CASE \E q \in Requests : Request(q)
    BY <1>7, <1>8 DEF Request, CreateReads, CreateCommits, EditReads, EditCommits, StatusReads,
       StatusCommits, PromoteReads, PromoteLists, PromoteCommits
  <1> QED BY <1>2, <1>3, <1>4, <1>5, <1>6, <1>7, <1>8
          DEF Next, Proceed, CreateDefinition, RoundLists, RoundCommits, vars

LEMMA TradeStep ==
  ASSUME TypeInv, [Next]_vars
  PROVE  TradeTypes'
  <1>0. TradeTypes
    BY TypeParts
  <1>1. CASE RoundLists
    BY <1>0, <1>1 DEF TradeTypes, RoundLists
  <1>2. ASSUME NEW i \in SUBSET Versions, NEW o \in SUBSET Versions, RoundCommits(i, o)
        PROVE  TradeTypes'
    BY <1>0, <1>2 DEF TradeTypes, RoundCommits, Off
  <1>3. CASE Crash
    BY <1>0, <1>3 DEF TradeTypes, Crash, Off
  <1>4. CASE UNCHANGED trading
    BY <1>0, <1>4 DEF TradeTypes, trading
  <1>5. CASE \E q \in Requests : Request(q)
    BY <1>4, <1>5 DEF Request, CreateReads, CreateCommits, EditReads, EditCommits, StatusReads,
       StatusCommits, PromoteReads, PromoteLists, PromoteCommits
  <1>6. ASSUME NEW r \in Runs, \/ StartBacktest(r) \/ Proceed(r) \/ StatementFails(r)
                               \/ CancelBacktest(r) \/ DiscardFails(r) \/ Optimise(r)
        PROVE  TradeTypes'
    BY <1>4, <1>6 DEF StartBacktest, Proceed, Batch, LoadRaises, Summarise, DiscardPartial,
       StatementFails, CancelBacktest, DiscardFails, Optimise, SetRun
  <1> QED BY <1>1, <1>2, <1>3, <1>4, <1>5, <1>6 DEF Next, CreateDefinition, vars, trading

LEMMA TypeStep == TypeInv /\ [Next]_vars => TypeInv'
  BY TypeParts, ReqStep, RowStep, RunStep, TradeStep
     DEF TypeInv, TypeOK, BatchesLeft, RowTypes, RunTypes, TradeTypes, ReqTypes, Request_

\* What the database holds of the strategy, and every session, keep their types
\* (strategy_center/service.py).
THEOREM TypeCorrect == Spec => []TypeOK
  <1>1. TypeInv => TypeOK
    BY DEF TypeInv
  <1> QED BY <1>1, InitType, TypeStep, PTL DEF Spec

-----------------------------------------------------------------------------
\* Versions and pool.
LEMMA RetiresStep ==
  ASSUME TypeInv, Retires, [Next]_vars
  PROVE  Retires'
  <1>0. ReqTypes
    BY TypeParts
  <1>1. ASSUME NEW p \in Requests, Request(p), NEW q \in Requests, (req[q].op = "retire")'
        PROVE  req'[q].others = req'[q].saw \ {req'[q].v}
    <2>1. CASE q # p
      BY <1>0, <1>1, <2>1 DEF ReqTypes, Retires, Request, CreateReads, CreateCommits, EditReads,
         EditCommits, StatusReads, StatusCommits, PromoteReads, PromoteLists, PromoteCommits,
         Begin, End
    <2>2. CASE q = p /\ PromoteLists(p)
      <3>1. req' = [req EXCEPT ![q] = [req[q] EXCEPT !.op = "retire", !.saw = InState("paper"),
                                         !.others = OthersOnPaper(req[q].v)]]
        BY <2>2 DEF PromoteLists
      <3>2. req[q] \in Request_
        BY <1>0 DEF ReqTypes
      <3>3. req'[q] = [req[q] EXCEPT !.op = "retire", !.saw = InState("paper"),
                                     !.others = OthersOnPaper(req[q].v)]
        BY <1>0, <3>1 DEF ReqTypes
      <3>4. /\ req'[q].saw = InState("paper") /\ req'[q].v = req[q].v
            /\ req'[q].others = OthersOnPaper(req[q].v)
        BY <3>2, <3>3 DEF Request_
      <3> QED BY <3>4 DEF OthersOnPaper
    <2>3. CASE q = p /\ ~PromoteLists(p)
      <3>0. ASSUME NEW x, req' = [req EXCEPT ![q] = x], x.op # "retire" PROVE FALSE
        BY <1>0, <1>1, <3>0 DEF ReqTypes
      <3>1. CASE CreateCommits(q) \/ EditCommits(q) \/ StatusCommits(q) \/ PromoteCommits(q)
        <4>1. req' = [req EXCEPT ![q] = Idle]
          BY <3>1 DEF CreateCommits, EditCommits, StatusCommits, PromoteCommits, End
        <4>2. Idle.op # "retire"
          BY DEF Idle
        <4> QED BY <3>0, <4>1, <4>2
      <3>2. CASE CreateReads(q)
        <4>1. [Idle EXCEPT !.op = "create", !.v = Latest + 1].op # "retire"
          BY DEF Idle
        <4> QED BY <3>0, <3>2, <4>1 DEF CreateReads, Begin
      <3>3. ASSUME NEW v \in Versions, EditReads(q, v) PROVE FALSE
        <4>1. [Idle EXCEPT !.op = "edit", !.v = v].op # "retire"
          BY DEF Idle
        <4> QED BY <3>0, <3>3, <4>1 DEF EditReads, Begin
      <3>4. ASSUME NEW to \in {"draft", "research", "archived"}, StatusReads(q, to) PROVE FALSE
        <4>1. [Idle EXCEPT !.op = "status", !.def = def, !.to = to].op # "retire"
          BY DEF Idle
        <4> QED BY <3>0, <3>4, <4>1 DEF StatusReads, Begin
      <3>5. ASSUME NEW v \in Versions, PromoteReads(q, v) PROVE FALSE
        <4>1. [Idle EXCEPT !.op = "promote", !.v = v, !.def = def, !.was = ver[v].status].op
                # "retire"
          BY DEF Idle
        <4> QED BY <3>0, <3>5, <4>1 DEF PromoteReads, Begin
      <3> QED BY <1>1, <2>3, <3>1, <3>2, <3>3, <3>4, <3>5 DEF Request
    <2> QED BY <2>1, <2>2, <2>3
  <1>2. CASE Crash
    BY <1>2 DEF Retires, Crash, Idle
  <1>3. CASE UNCHANGED req
    BY <1>3 DEF Retires
  <1> QED BY <1>1, <1>2, <1>3 DEF Next, Retires, StartBacktest, Proceed, Batch, LoadRaises,
          Summarise, DiscardPartial, StatementFails, CancelBacktest, DiscardFails, Optimise,
          SetRun, RoundLists, RoundCommits, CreateDefinition, vars, sessions

\* Only a promotion puts a version on paper, and unless it raced it retires every other.
LEMMA PaperStep ==
  ASSUME TypeInv, Retires, PaperInv, [Next]_vars
  PROVE  PaperInv'
  <1>0. RowTypes /\ ReqTypes
    BY TypeParts
  <1>1. ASSUME NEW s \in {"draft", "research"}, CreateDefinition(s) PROVE PaperInv'
    BY <1>0, <1>1 DEF PaperInv, RowTypes, CreateDefinition, OnePaper, PoolFollowsDefinition,
       NoVersion, Versions
  <1>2. ASSUME NEW q \in Requests, Request(q) PROVE PaperInv'
    <2>0. req[q].v \in Versions
      BY <1>0 DEF ReqTypes, Request_
    <2>1. CASE CreateCommits(q)
      BY <1>0, <2>0, <2>1 DEF PaperInv, RowTypes, CreateCommits, OnePaper,
         PoolFollowsDefinition, NoVersion
    <2>2. CASE EditCommits(q)
      <3>1. \A w \in Versions : ver'[w].status = ver[w].status
        BY <1>0, <2>0, <2>2 DEF RowTypes, Version, EditCommits
      <3> QED BY <2>2, <3>1 DEF PaperInv, EditCommits, OnePaper, PoolFollowsDefinition
    <2>3. CASE StatusCommits(q)
      <3>1. (~raced => OnePaper)'
        BY <1>0, <2>3 DEF PaperInv, StatusCommits, OnePaper, RowTypes
      <3>2. PoolFollowsDefinition'
        BY <1>0, <2>3 DEF PaperInv, StatusCommits, PoolFollowsDefinition, PoolVisible, RowTypes
      <3> QED BY <3>1, <3>2 DEF PaperInv
    <2>4. CASE PromoteCommits(q)
      <3>1. ASSUME ~raced', NEW w \in Versions, ver'[w].status = "paper" PROVE w = req[q].v
        <4>1. SUFFICES ASSUME w # req[q].v PROVE FALSE
          OBVIOUS
        <4>2. w \notin req[q].others /\ ver'[w] = ver[w]
          BY <1>0, <2>4, <3>1, <4>1 DEF PromoteCommits, RowTypes, Version
        <4>3. InState("paper") = req[q].saw
          BY <2>4, <3>1 DEF PromoteCommits
        <4>4. w \in InState("paper")
          BY <3>1, <4>2 DEF InState
        <4>5. req[q].others = req[q].saw \ {req[q].v}
          BY <2>4 DEF Retires, PromoteCommits
        <4> QED BY <4>1, <4>2, <4>3, <4>4, <4>5
      <3>2. (~raced => OnePaper)'
        BY <3>1 DEF OnePaper
      <3>3. PoolFollowsDefinition'
        BY <2>4 DEF PromoteCommits, PoolFollowsDefinition
      <3> QED BY <3>2, <3>3 DEF PaperInv
    <2>5. CASE UNCHANGED <<rows, raced>>
      BY <2>5 DEF PaperInv, OnePaper, PoolFollowsDefinition, rows
    <2> QED BY <1>2, <2>1, <2>2, <2>3, <2>4, <2>5
            DEF Request, CreateReads, EditReads, StatusReads, PromoteReads, PromoteLists
  <1>3. CASE UNCHANGED <<rows, raced>>
    BY <1>3 DEF PaperInv, OnePaper, PoolFollowsDefinition, rows
  <1> QED BY <1>1, <1>2, <1>3 DEF Next, StartBacktest, Proceed, Batch, LoadRaises, Summarise,
          DiscardPartial, StatementFails, CancelBacktest, DiscardFails, Optimise, SetRun,
          RoundLists, RoundCommits, Crash, vars, rows

LEMMA FiniteVersions == ASSUME NEW S \in SUBSET Versions PROVE IsFiniteSet(S)
  <1>1. IsFiniteSet(Versions)
    BY FS_Interval DEF Versions
  <1> QED BY <1>1, FS_Subset

LEMMA AtMostOne ==
  ASSUME NEW S, IsFiniteSet(S)
  PROVE  Cardinality(S) =< 1 <=> \A x, y \in S : x = y
  <1>1. Cardinality(S) \in Nat
    BY FS_CardinalityType
  <1>2. Cardinality(S) = 0 <=> S = {}
    BY FS_EmptySet
  <1>3. Cardinality(S) = 1 <=> \E x : S = {x}
    BY FS_Singleton
  <1>4. (\A x, y \in S : x = y) <=> S = {} \/ \E x : S = {x}
    OBVIOUS
  <1> QED BY <1>1, <1>2, <1>3, <1>4

\* The rows of a new database.
LEMMA PaperInit == Init => Retires /\ PaperInv
  <1> SUFFICES ASSUME Init PROVE Retires /\ PaperInv
    OBVIOUS
  <1>1. Retires
    <2>1. Idle.op = "idle"
      BY DEF Idle
    <2> QED BY <2>1 DEF Init, Retires
  <1>2. CASE Empty
    <2>1. \A v \in Versions : ver[v].status = "none"
      BY <1>2 DEF Empty, NoVersion
    <2>2. def = "none"
      BY <1>2 DEF Empty
    <2> QED BY <1>1, <2>1, <2>2 DEF PaperInv, OnePaper, PoolFollowsDefinition
  <1>3. CASE Inherited
    <2>1. PICK s \in [Versions -> {"none", "draft", "backtest_ready", "paper"}] :
            /\ Cardinality({v \in Versions : s[v] = "paper"}) =< 1
            /\ ver = [v \in Versions |->
                        [NoVersion EXCEPT !.status = s[v],
                           !.qualified = s[v] \in {"backtest_ready", "paper"}]]
            /\ def = IF \E v \in Versions : s[v] = "paper" THEN "paper" ELSE "research"
      BY <1>3 DEF Inherited
    <2>2. \A v \in Versions : ver[v].status = s[v]
      BY <2>1 DEF NoVersion
    <2>3. IsFiniteSet({v \in Versions : s[v] = "paper"})
      BY FiniteVersions
    <2>4. \A x, y \in {v \in Versions : s[v] = "paper"} : x = y
      BY <2>1, <2>3, AtMostOne
    <2>6. OnePaper
      BY <2>2, <2>4 DEF OnePaper
    <2>5. pool = TRUE /\ def # "archived"
      BY <1>3, <2>1 DEF Inherited
    <2> QED BY <1>1, <2>5, <2>6 DEF PaperInv, PoolFollowsDefinition
  <1> QED BY <1>1, <1>2, <1>3 DEF Init

LEMMA OnePaperCounts == TypeInv /\ PaperInv => VersionsSound
  <1> SUFFICES ASSUME TypeInv, PaperInv PROVE VersionsSound
    OBVIOUS
  <1>1. IsFiniteSet(InState("paper"))
    BY FiniteVersions, InStateType
  <1>2. ~raced => Cardinality(InState("paper")) =< 1
    BY <1>1, AtMostOne DEF PaperInv, OnePaper, InState
  <1> QED BY <1>2 DEF PaperInv, VersionsSound, OnePaperVersion

\* Whatever requests race, two versions of a strategy are only on paper together, and its
\* pool only disagrees with its status, after a commit wrote from rows that had changed
\* since it read them (promote_version_to_paper, update_definition).
THEOREM VersionsAreSound == Spec => []VersionsSound
  <1>1. Init => TypeInv /\ Retires /\ PaperInv
    BY InitType, PaperInit
  <1>2. TypeInv /\ Retires /\ PaperInv /\ [Next]_vars => (TypeInv /\ Retires /\ PaperInv)'
    BY TypeStep, RetiresStep, PaperStep
  <1> QED BY <1>1, <1>2, OnePaperCounts, PTL DEF Spec

=============================================================================
