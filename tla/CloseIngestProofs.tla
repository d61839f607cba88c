------------------------- MODULE CloseIngestProofs -------------------------
(***************************************************************************)
(* What a repair of a day that no other job disturbs does, proved for      *)
(* every set of blocks, whichever of them answer short or fail, for both   *)
(* modes of the other jobs and whatever they left of the day.              *)
(***************************************************************************)
EXTENDS CloseIngest, TLAPS

USE BlocksAssumption, FaultsAssumption, PayloadAssumption, MaxRunsAssumption

Steps == {"idle", "clear", "core", "enrich", "stock", "sector", "summary", "final"}

Run == [pc : Steps, todo : SUBSET Blocks, sync : SUBSET Blocks,
        calc : SUBSET {"stock", "sector"}, strict : BOOLEAN]

\* The blocks of a run are in its plan, and it has none left after its blocks.
Planned(r) == /\ r.todo \subseteq r.sync
              /\ r.todo # {} => r.pc \in {"clear", "core", "enrich"}

TypeInv ==
    /\ level \in [Blocks -> 0 .. 2]
    /\ marks \subseteq Blocks \intersect Audited
    /\ ready \in 0 .. 2
    /\ built \subseteq Derived
    /\ fresh \in [Derived -> SUBSET Blocks]
    /\ \A d \in Derived : fresh[d] \subseteq Inputs[d]
    /\ run \in [Jobs -> Run]
    /\ \A j \in Jobs : Planned(run[j])
    /\ repair \in [wrote : SUBSET Blocks, full : BOOLEAN, alone : BOOLEAN]

-----------------------------------------------------------------------------
(* The larger and the smaller of two counts *)

LEMMA MaxPair ==
  ASSUME NEW a \in Int, NEW b \in Int
  PROVE  Max({a, b}) = IF a >= b THEN a ELSE b
<1>1. \E x \in {a, b} : \A y \in {a, b} : x >= y
  BY a >= b \/ b >= a
<1>2. Max({a, b}) \in {a, b} /\ \A y \in {a, b} : Max({a, b}) >= y
  BY <1>1 DEF Max
<1> QED BY <1>2

LEMMA MinPair ==
  ASSUME NEW a \in Int, NEW b \in Int
  PROVE  Min({a, b}) = IF a <= b THEN a ELSE b
<1>1. \E x \in {a, b} : \A y \in {a, b} : x <= y
  BY a <= b \/ b <= a
<1>2. Min({a, b}) \in {a, b} /\ \A y \in {a, b} : Min({a, b}) <= y
  BY <1>1 DEF Min
<1> QED BY <1>2

LEMMA PricedType ==
  ASSUME TypeInv
  PROVE  /\ Priced \in 0 .. 2
         /\ level["daily"] = 2 /\ ("adjust" \in Blocks => level["adjust"] = 2)
               => Priced = 2
<1>1. level["daily"] \in 0 .. 2 /\ ("adjust" \in Blocks => level["adjust"] \in 0 .. 2)
  BY DEF TypeInv
<1>2. CASE "adjust" \in Blocks
  <2> DEFINE m == level["daily"]
             a == level["adjust"]
  <2>1. m \in 0 .. 2 /\ a \in 0 .. 2
    BY <1>1, <1>2
  <2> HIDE DEF m, a
  <2>2. Min({m, a}) \in 0 .. 2 /\ (m = 2 /\ a = 2 => Min({m, a}) = 2)
    BY <2>1, MinPair
  <2> QED BY <1>2, <2>2 DEF Priced, m, a
<1>3. CASE "adjust" \notin Blocks
  BY <1>1, <1>3 DEF Priced
<1> QED BY <1>2, <1>3

LEMMA AnswersType == ASSUME NEW b PROVE Answers(b) \subseteq 0 .. 2
BY DEF Answers

LEMMA UpsertedType ==
  ASSUME TypeInv, NEW b \in Blocks, NEW n \in 0 .. 2
  PROVE  /\ Upserted(b, n) \in 0 .. 2 /\ Upserted(b, n) >= level[b]
         /\ n = 2 => Upserted(b, n) = 2
<1> DEFINE l == level[b]
<1>1. l \in 0 .. 2
  BY DEF TypeInv
<1> HIDE DEF l
<1>2. Max({l, n}) \in 0 .. 2 /\ Max({l, n}) >= l /\ (n = 2 => Max({l, n}) = 2)
  BY <1>1, MaxPair
<1> QED BY <1>2 DEF Upserted, l

-----------------------------------------------------------------------------
(* Types *)

LEMMA NoRepairType ==
  /\ NoRepair \in [wrote : SUBSET Blocks, full : BOOLEAN, alone : BOOLEAN]
  /\ Idle \in Run /\ Planned(Idle)
BY DEF NoRepair, Idle, Run, Planned, Steps

LEMMA InitType == Init => TypeInv
BY NoRepairType DEF Init, TypeInv, Inputs, Derived

\* A step that leaves the day alone and replaces one run.
LEMMA RunType ==
  ASSUME TypeInv, NEW j \in Jobs, NEW r \in Run, Planned(r),
         run' = [run EXCEPT ![j] = r],
         repair' \in [wrote : SUBSET Blocks, full : BOOLEAN, alone : BOOLEAN],
         UNCHANGED day
  PROVE  TypeInv'
BY DEF TypeInv, day

LEMMA StopType ==
  ASSUME TypeInv, NEW j \in Jobs, Stop(j), UNCHANGED day PROVE TypeInv'
<1>1. repair' \in [wrote : SUBSET Blocks, full : BOOLEAN, alone : BOOLEAN]
  BY NoRepairType DEF Stop, TypeInv
<1> QED BY <1>1, NoRepairType, RunType DEF Stop

\* What a step makes of the fields of one run.
LEMMA Moved ==
  ASSUME TypeInv, NEW j \in Jobs, NEW p \in Steps, run' = [run EXCEPT ![j].pc = p],
         run[j].todo = {} \/ p \in {"clear", "core", "enrich"}
  PROVE  /\ run' \in [Jobs -> Run] /\ \A o \in Jobs : Planned(run'[o])
         /\ \A o \in Jobs \ {j} : run'[o] = run[o]
         /\ run'[j].pc = p /\ run'[j].todo = run[j].todo /\ run'[j].sync = run[j].sync
         /\ run'[j].calc = run[j].calc /\ run'[j].strict = run[j].strict
<1>1. run'[j] = [run[j] EXCEPT !.pc = p] /\ \A o \in Jobs \ {j} : run'[o] = run[o]
  BY DEF TypeInv
<1>2. run[j] \in Run /\ Planned(run[j])
  BY DEF TypeInv
<1>3. /\ run'[j].pc = p /\ run'[j].todo = run[j].todo /\ run'[j].sync = run[j].sync
      /\ run'[j].calc = run[j].calc /\ run'[j].strict = run[j].strict /\ run'[j] \in Run
  BY <1>1, <1>2 DEF Run
<1>4. Planned(run'[j])
  BY <1>2, <1>3 DEF Planned
<1>5. run' \in [Jobs -> Run] /\ \A o \in Jobs : Planned(run'[o])
  BY <1>1, <1>3, <1>4 DEF TypeInv
<1> QED BY <1>1, <1>3, <1>5

LEMMA Worked ==
  ASSUME TypeInv, NEW j \in Jobs, NEW b \in Blocks,
         run' = [run EXCEPT ![j].todo = @ \ {b}]
  PROVE  /\ run' \in [Jobs -> Run] /\ \A o \in Jobs : Planned(run'[o])
         /\ \A o \in Jobs \ {j} : run'[o] = run[o]
         /\ run'[j].pc = run[j].pc /\ run'[j].todo = run[j].todo \ {b}
         /\ run'[j].sync = run[j].sync /\ run'[j].calc = run[j].calc
<1>1. run'[j] = [run[j] EXCEPT !.todo = run[j].todo \ {b}]
      /\ \A o \in Jobs \ {j} : run'[o] = run[o]
  BY DEF TypeInv
<1>2. run[j] \in Run /\ Planned(run[j])
  BY DEF TypeInv
<1>3. /\ run'[j].pc = run[j].pc /\ run'[j].todo = run[j].todo \ {b}
      /\ run'[j].sync = run[j].sync /\ run'[j].calc = run[j].calc
      /\ run'[j].strict = run[j].strict /\ run'[j] \in Run
  BY <1>1, <1>2 DEF Run
<1>4. Planned(run'[j])
  BY <1>2, <1>3 DEF Planned
<1>5. run' \in [Jobs -> Run] /\ \A o \in Jobs : Planned(run'[o])
  BY <1>1, <1>3, <1>4 DEF TypeInv
<1> QED BY <1>1, <1>3, <1>5

LEMMA Enriching ==
  ASSUME TypeInv, NEW j \in Jobs,
         run' = [run EXCEPT ![j].pc = "enrich", ![j].todo = run[j].sync \intersect Enrich]
  PROVE  /\ run' \in [Jobs -> Run] /\ \A o \in Jobs : Planned(run'[o])
         /\ \A o \in Jobs \ {j} : run'[o] = run[o]
         /\ run'[j].pc = "enrich" /\ run'[j].todo = run[j].sync \intersect Enrich
         /\ run'[j].sync = run[j].sync /\ run'[j].calc = run[j].calc
<1>1. run'[j] = [run[j] EXCEPT !.pc = "enrich", !.todo = run[j].sync \intersect Enrich]
      /\ \A o \in Jobs \ {j} : run'[o] = run[o]
  BY DEF TypeInv
<1>2. run[j] \in Run
  BY DEF TypeInv
<1> DEFINE t == run[j].sync \intersect Enrich
<1>6. t \in SUBSET Blocks /\ "enrich" \in Steps /\ t \subseteq run[j].sync
      /\ run'[j] = [run[j] EXCEPT !.pc = "enrich", !.todo = t]
  BY <1>1, <1>2 DEF Run, Steps
<1> HIDE DEF t
<1>7. /\ run'[j].pc = "enrich" /\ run'[j].todo = t
      /\ run'[j].sync = run[j].sync /\ run'[j].calc = run[j].calc
      /\ run'[j].strict = run[j].strict
  BY <1>6, <1>2 DEF Run
<1>3. /\ run'[j].pc = "enrich" /\ run'[j].todo = t
      /\ run'[j].sync = run[j].sync /\ run'[j].calc = run[j].calc
      /\ run'[j] \in Run
  BY <1>6, <1>7, <1>2 DEF Run
<1>4. Planned(run'[j])
  BY <1>6, <1>3 DEF Planned
<1>5. run' \in [Jobs -> Run] /\ \A o \in Jobs : Planned(run'[o])
  BY <1>1, <1>3, <1>4 DEF TypeInv
<1> QED BY <1>1, <1>3, <1>5 DEF t

\* The run a job begins with.
LEMMA Launched ==
  ASSUME TypeInv, NEW j \in Jobs, NEW plan, NEW strict \in BOOLEAN,
         NEW p \in {"clear", "core"}, Launch(j, plan, strict, p),
         plan.sync \subseteq Blocks, plan.calc \subseteq {"stock", "sector"}
  PROVE  /\ run[j].pc = "idle" /\ UNCHANGED day
         /\ run' \in [Jobs -> Run] /\ \A o \in Jobs : Planned(run'[o])
         /\ \A o \in Jobs \ {j} : run'[o] = run[o]
         /\ run'[j].pc = p /\ run'[j].todo = plan.sync \intersect Core
         /\ run'[j].sync = plan.sync /\ run'[j].calc = plan.calc
<1> DEFINE r == [pc |-> p, todo |-> plan.sync \intersect Core, sync |-> plan.sync,
                 calc |-> plan.calc, strict |-> strict]
<1>1. run[j].pc = "idle" /\ UNCHANGED day /\ run' = [run EXCEPT ![j] = r]
  BY DEF Launch, Going
<1>2. /\ r.pc = p /\ r.todo = plan.sync \intersect Core
      /\ r.sync = plan.sync /\ r.calc = plan.calc
  OBVIOUS
<1>3. p \in Steps /\ plan.sync \intersect Core \in SUBSET Blocks
  BY DEF Steps
<1>4. r \in Run
  BY <1>3 DEF Run
<1>5. Planned(r)
  BY <1>2 DEF Planned
<1> HIDE DEF r
<1> QED BY <1>1, <1>2, <1>4, <1>5 DEF TypeInv

LEMMA PlansType ==
  /\ CorePlan.sync \subseteq Blocks /\ CorePlan.calc \subseteq {"stock", "sector"}
  /\ EnrichPlan.sync \subseteq Blocks /\ EnrichPlan.calc \subseteq {"stock", "sector"}
  /\ \A m : /\ RepairPlan(m).sync = RepairSync(m) \intersect Blocks
            /\ RepairPlan(m).calc = RepairCalc(m, RepairSync(m))
            /\ RepairPlan(m).calc \subseteq {"stock", "sector"}
BY DEF CorePlan, EnrichPlan, Plan, RepairPlan, RepairCalc

LEMMA BlockDoneType ==
  ASSUME TypeInv, NEW j \in Jobs, NEW b \in Blocks, NEW n \in Answers(b), BlockDone(j, b, n)
  PROVE  /\ TypeInv'
         /\ n \in 0 .. 2 /\ level' = [level EXCEPT ![b] = Upserted(b, n)]
         /\ \A c \in Blocks : level'[c] >= level[c]
<1>1. n \in 0 .. 2
  BY AnswersType
<1>2. Upserted(b, n) \in 0 .. 2 /\ Upserted(b, n) >= level[b]
  BY <1>1, UpsertedType
<1>3. /\ level' = [level EXCEPT ![b] = Upserted(b, n)]
      /\ marks' = marks \union ({b} \intersect Audited)
      /\ ready' = IF b = "technical" THEN Max({ready, n}) ELSE ready
      /\ built' = IF b = "technical" /\ n > 0 THEN built \union {"stock"} ELSE built
      /\ fresh' = [d \in Derived |->
                      IF level'[b] = level[b] THEN fresh[d] ELSE fresh[d] \ {b}]
      /\ run' = [run EXCEPT ![j].todo = @ \ {b}]
      /\ repair' = IF j = "repair"
                   THEN [repair EXCEPT !.wrote = @ \union {b}, !.full = @ /\ n = 2]
                   ELSE repair
  BY DEF BlockDone
<1>4. level' \in [Blocks -> 0 .. 2] /\ \A c \in Blocks : level'[c] >= level[c]
  BY <1>2, <1>3 DEF TypeInv
<1>5. ready' \in 0 .. 2
  <2>1. ready \in 0 .. 2
    BY DEF TypeInv
  <2>2. Max({ready, n}) \in 0 .. 2
    BY <1>1, <2>1, MaxPair
  <2> QED BY <1>3, <2>1, <2>2
<1>6. fresh' \in [Derived -> SUBSET Blocks] /\ \A d \in Derived : fresh'[d] \subseteq Inputs[d]
  BY <1>3 DEF TypeInv
<1>7. repair' \in [wrote : SUBSET Blocks, full : BOOLEAN, alone : BOOLEAN]
  BY <1>3 DEF TypeInv
<1>8. marks' \subseteq Blocks \intersect Audited /\ built' \subseteq Derived
  BY <1>3 DEF TypeInv, Derived
<1>9. run' \in [Jobs -> Run] /\ \A o \in Jobs : Planned(run'[o])
  BY <1>3, Worked
<1> QED BY <1>1, <1>3, <1>4, <1>5, <1>6, <1>7, <1>8, <1>9 DEF TypeInv

LEMMA ComputeType ==
  ASSUME TypeInv, NEW ds \in SUBSET Derived, Compute(ds)
  PROVE  /\ built' = built \union ds /\ built' \subseteq Derived
         /\ fresh' \in [Derived -> SUBSET Blocks]
         /\ \A d \in Derived : /\ fresh'[d] \subseteq Inputs[d]
                               /\ d \in ds => fresh'[d] = Inputs[d] \intersect Blocks
                               /\ d \notin ds => fresh'[d] = fresh[d]
BY DEF Compute, TypeInv

\* The last step of a factor table: the run moves on.
LEMMA AdvanceType ==
  ASSUME TypeInv, NEW j \in Jobs, NEW p \in Steps, Advance(j, p), run[j].todo = {},
         built' \subseteq Derived, fresh' \in [Derived -> SUBSET Blocks],
         \A d \in Derived : fresh'[d] \subseteq Inputs[d],
         ready' \in 0 .. 2, UNCHANGED <<level, marks>>
  PROVE  TypeInv'
<1>1. run' \in [Jobs -> Run] /\ (\A o \in Jobs : Planned(run'[o])) /\ repair' = repair
  BY Moved DEF Advance
<1> QED BY <1>1 DEF TypeInv

LEMMA NextType == TypeInv /\ [Next]_vars => TypeInv'
<1> SUFFICES ASSUME TypeInv, [Next]_vars PROVE TypeInv'
  OBVIOUS
<1>0. ASSUME NEW j \in Jobs
      PROVE  run[j] \in Run /\ Planned(run[j]) /\ repair.wrote \subseteq Blocks
  BY DEF TypeInv
<1>1. ASSUME NEW j \in {"core", "enrichment"}, NEW s \in Strict, NEW r \in Rebuild,
             Start(j, s, r)
      PROVE  TypeInv'
  <2> DEFINE plan == IF j = "core" THEN CorePlan ELSE EnrichPlan
             p == IF r THEN "clear" ELSE "core"
  <2>1. /\ Launch(j, plan, s, p) /\ repair' = [repair EXCEPT !.alone = "repair" \notin Going]
        /\ j \in Jobs /\ s \in BOOLEAN /\ p \in {"clear", "core"}
    BY <1>1 DEF Start, Jobs
  <2>2. plan.sync \subseteq Blocks /\ plan.calc \subseteq {"stock", "sector"}
    BY PlansType
  <2> HIDE DEF plan, p
  <2>3. UNCHANGED day /\ run' \in [Jobs -> Run] /\ \A o \in Jobs : Planned(run'[o])
    BY <2>1, <2>2, Launched
  <2>4. repair' \in [wrote : SUBSET Blocks, full : BOOLEAN, alone : BOOLEAN]
    BY <2>1 DEF TypeInv
  <2> QED BY <2>3, <2>4 DEF TypeInv, day
<1>2. ASSUME NEW s \in Strict, StartRepair(s) PROVE TypeInv'
  <2>1. /\ Launch("repair", RepairPlan(Missing), s, "core") /\ s \in BOOLEAN
        /\ repair' = [NoRepair EXCEPT !.alone = Going = {}] /\ "repair" \in Jobs
    BY <1>2 DEF StartRepair, Jobs
  <2>2. UNCHANGED day /\ run' \in [Jobs -> Run] /\ \A o \in Jobs : Planned(run'[o])
    BY <2>1, PlansType, Launched
  <2>3. repair' \in [wrote : SUBSET Blocks, full : BOOLEAN, alone : BOOLEAN]
    BY <2>1 DEF NoRepair
  <2> QED BY <2>2, <2>3 DEF TypeInv, day
<1>3. ASSUME NEW j \in Jobs, Clear(j) PROVE TypeInv'
  <2>1. run' \in [Jobs -> Run] /\ \A o \in Jobs : Planned(run'[o])
    BY <1>3, Moved DEF Clear, Steps
  <2> QED BY <1>3, <2>1 DEF Clear, TypeInv
<1>4. ASSUME NEW j \in Jobs, NEW b \in Blocks, NEW n \in Answers(b), BlockDone(j, b, n)
      PROVE  TypeInv'
  BY <1>4, BlockDoneType
<1>5. ASSUME NEW j \in Jobs, NEW b \in Blocks, BlockFails(j, b) PROVE TypeInv'
  <2>1. CASE Fatal(j, b)
    BY <1>5, <2>1, StopType DEF BlockFails
  <2>2. CASE ~Fatal(j, b)
    <3>1. /\ run' = [run EXCEPT ![j].todo = @ \ {b}]
          /\ repair' = [repair EXCEPT !.full = @ /\ j # "repair"] /\ UNCHANGED day
      BY <1>5, <2>2 DEF BlockFails
    <3>2. run' \in [Jobs -> Run] /\ \A o \in Jobs : Planned(run'[o])
      BY <3>1, Worked
    <3>3. repair' \in [wrote : SUBSET Blocks, full : BOOLEAN, alone : BOOLEAN]
      BY <3>1 DEF TypeInv
    <3> QED BY <3>1, <3>2, <3>3 DEF TypeInv, day
  <2> QED BY <2>1, <2>2
<1>6. ASSUME NEW j \in Jobs, CoreDone(j) PROVE TypeInv'
  <2>1. CASE level["daily"] = 0
    BY <1>6, <2>1, StopType DEF CoreDone
  <2>2. CASE level["daily"] # 0
    <3>1. /\ run' \in [Jobs -> Run] /\ \A o \in Jobs : Planned(run'[o])
          /\ repair' = repair /\ UNCHANGED day
      BY <1>6, <2>2, Enriching DEF CoreDone
    <3> QED BY <3>1 DEF TypeInv, day
  <2> QED BY <2>1, <2>2
<1>7. ASSUME NEW j \in Jobs, EnrichDone(j) PROVE TypeInv'
  <2>1. /\ run' \in [Jobs -> Run] /\ \A o \in Jobs : Planned(run'[o])
        /\ repair' = repair /\ UNCHANGED day
    BY <1>7, Moved DEF EnrichDone, Steps
  <2> QED BY <2>1 DEF TypeInv, day
<1>8. ASSUME NEW j \in Jobs, AssembleChunk(j) PROVE TypeInv'
  <2>1. ready' \in 0 .. 2
    <3> DEFINE p == Priced
    <3>1. p \in 0 .. 2 /\ ready \in 0 .. 2 /\ ready' \in Min({ready, p}) .. Max({ready, p})
      BY <1>8, PricedType DEF AssembleChunk, TypeInv
    <3> HIDE DEF p
    <3>2. Min({ready, p}) \in 0 .. 2 /\ Max({ready, p}) \in 0 .. 2
      BY <3>1, MinPair, MaxPair
    <3> QED BY <3>1, <3>2
  <2> QED BY <1>8, <2>1 DEF AssembleChunk, TypeInv, Derived
<1>9. ASSUME NEW j \in Jobs, AssembleStock(j) PROVE TypeInv'
  <2>1. /\ Advance(j, "sector") /\ "sector" \in Steps /\ run[j].todo = {}
        /\ UNCHANGED <<level, marks>>
    BY <1>0, <1>9 DEF AssembleStock, Planned, Steps
  <2>2. /\ built' \subseteq Derived /\ fresh' \in [Derived -> SUBSET Blocks]
        /\ \A d \in Derived : fresh'[d] \subseteq Inputs[d]
        /\ ready' \in 0 .. 2
    <3>1. CASE Assembles(j)
      <4>1. Compute({"stock"}) /\ {"stock"} \in SUBSET Derived /\ ready' = Priced
        BY <1>9, <3>1 DEF AssembleStock, Derived
      <4> QED BY <4>1, ComputeType, PricedType
    <3>2. CASE ~Assembles(j)
      BY <1>9, <3>2 DEF AssembleStock, TypeInv
    <3> QED BY <3>1, <3>2
  <2> QED BY <2>1, <2>2, AdvanceType
<1>10. ASSUME NEW j \in Jobs, AssembleSector(j) PROVE TypeInv'
  <2>1. /\ Advance(j, "summary") /\ "summary" \in Steps /\ run[j].todo = {}
        /\ UNCHANGED <<level, marks, ready>>
    BY <1>0, <1>10 DEF AssembleSector, Planned, Steps
  <2>2. /\ built' \subseteq Derived /\ fresh' \in [Derived -> SUBSET Blocks]
        /\ \A d \in Derived : fresh'[d] \subseteq Inputs[d]
    <3>1. CASE "sector" \in run[j].calc /\ SectorRows
      <4>1. Compute({"sector"}) /\ {"sector"} \in SUBSET Derived
        BY <1>10, <3>1 DEF AssembleSector, Derived
      <4> QED BY <4>1, ComputeType
    <3>2. CASE ~("sector" \in run[j].calc /\ SectorRows)
      BY <1>10, <3>2 DEF AssembleSector, TypeInv
    <3> QED BY <3>1, <3>2
  <2>3. ready' \in 0 .. 2
    BY <2>1 DEF TypeInv
  <2> QED BY <2>1, <2>2, <2>3, AdvanceType
<1>11. ASSUME NEW j \in Jobs, Summarise(j) PROVE TypeInv'
  <2>1. /\ Advance(j, "final") /\ "final" \in Steps /\ run[j].todo = {}
        /\ UNCHANGED <<level, marks, ready>>
    BY <1>0, <1>11 DEF Summarise, Planned, Steps
  <2>2. /\ built' \subseteq Derived /\ fresh' \in [Derived -> SUBSET Blocks]
        /\ \A d \in Derived : fresh'[d] \subseteq Inputs[d]
    <3>1. CASE "stock" \in run[j].calc
      <4>1. PICK ds \in SUBSET {"summary", "index"} : Compute(ds)
        BY <1>11, <3>1 DEF Summarise
      <4>2. ds \in SUBSET Derived
        BY DEF Derived
      <4> QED BY <4>1, <4>2, ComputeType
    <3>2. CASE "stock" \notin run[j].calc
      BY <1>11, <3>2 DEF Summarise, TypeInv
    <3> QED BY <3>1, <3>2
  <2>3. ready' \in 0 .. 2
    BY <2>1 DEF TypeInv
  <2> QED BY <2>1, <2>2, <2>3, AdvanceType
<1>12. ASSUME NEW j \in Jobs, Finish(j) \/ Abort(j) PROVE TypeInv'
  BY <1>12, StopType DEF Finish, Abort
<1>13. CASE UNCHANGED vars
  BY <1>13 DEF vars, day, TypeInv
<1> QED BY <1>1, <1>2, <1>3, <1>4, <1>5, <1>6, <1>7, <1>8, <1>9, <1>10, <1>11, <1>12,
           <1>13 DEF Next

\* Row levels, marks, factors and runs keep their types, a run has only blocks
\* of its plan to do, and has done or given up each before it computes.
THEOREM TypeCorrect == Spec => []TypeOK
<1>1. TypeInv => TypeOK
  BY DEF TypeInv, TypeOK, Run, Planned
<1> QED BY <1>1, InitType, NextType, PTL DEF Spec

-----------------------------------------------------------------------------
(* The inductive invariant: what a repair that has the day for itself has   *)
(* done so far, and what it may rely on of the rows others left.            *)

Alone == run["repair"].pc # "idle" /\ repair.alone

Solo == Alone => \A j \in Jobs \ {"repair"} : run[j].pc = "idle"

\* Sector factors are computed from sector rows, and go when the rows go.
SectorBacked == "sector" \in built => SectorRows

\* The blocks a run has still to do.
Pending(r) == r.todo \union (IF r.pc = "core" THEN r.sync \intersect Enrich ELSE {})

\* A block no number of daily bars can make incomplete.
Whole(b) == IF b \in ByMark THEN b \in marks
            ELSE IF b = "sectorFlow" THEN level[b] > 0 /\ b \in marks
            ELSE level[b] = 2

StockReads == {"daily", "basic", "moneyflow", "adjust", "technical"}
SectorReads == {"sectorBars", "sectorFlow"}

\* The plan computes whatever one of its blocks feeds.
Closed(r) == /\ r.sync \intersect StockReads # {} => "stock" \in r.calc
             /\ r.sync \intersect SectorReads # {} => "sector" \in r.calc

\* What it does not touch was whole when it began.
Untouched(r) == /\ \A b \in Blocks \ (r.sync \union Optional) : Whole(b)
                /\ "stock" \notin r.calc => ready = 2
                /\ "sector" \notin r.calc => "sector" \in built

\* The blocks it has done.
Written(r) ==
    /\ repair.wrote \subseteq r.sync
    /\ repair.full => /\ r.sync \subseteq repair.wrote \union Pending(r)
                      /\ \A b \in repair.wrote : level[b] = 2 /\ (b \in Audited => b \in marks)

Refreshed(d) == d \in built => repair.wrote \intersect Recomputed[d] \subseteq fresh[d]

\* The factors it has computed.
Assembled(r) ==
    /\ r.pc \in {"enrich", "stock", "sector", "summary", "final"} => level["daily"] > 0
    /\ r.pc \in {"sector", "summary", "final"} => /\ Refreshed("stock")
                                                  /\ repair.full => ready = 2
    /\ r.pc \in {"summary", "final"} => /\ Refreshed("sector")
                                        /\ repair.full => "sector" \in built
    /\ r.pc = "final" => Refreshed("summary")

Sound(r) == r.pc # "clear" /\ Closed(r) /\ Untouched(r) /\ Written(r) /\ Assembled(r)

RepairInv == Solo /\ SectorBacked /\ (Alone => Sound(run["repair"]))

LEMMA InitRepair == Init => RepairInv
<1> SUFFICES ASSUME Init PROVE RepairInv
  OBVIOUS
<1>1. run["repair"].pc = "idle" /\ built = {}
  BY DEF Init, Idle, Jobs
<1> QED BY <1>1 DEF RepairInv, Solo, SectorBacked, Alone

LEMMA WholeComplete ==
  ASSUME TypeInv, NEW b \in Blocks, Whole(b)
  PROVE  Complete(b)
<1> DEFINE d == level["daily"]
<1>1. d \in 0 .. 2
  BY DEF TypeInv
<1> HIDE DEF d
<1>2. 2 >= Max({1, d})
  BY <1>1, MaxPair
<1>3. AgainstDaily(2)
  BY <1>2 DEF AgainstDaily, d
<1> QED BY <1>3 DEF Whole, Complete, PerStock, ByMark

\* Against a full market's daily bars only a full count is enough.
LEMMA CoversDaily ==
  ASSUME TypeInv, NEW n \in 0 .. 2, level["daily"] = 2, AgainstDaily(n)
  PROVE  n = 2
<1>1. n >= Max({1, 2})
  BY DEF AgainstDaily
<1> QED BY <1>1, MaxPair

\* What is complete when the daily bars are, or whatever they are.
LEMMA CompleteWhole ==
  ASSUME TypeInv, NEW b \in Blocks, Complete(b), b \in PerStock => level["daily"] = 2
  PROVE  Whole(b)
<1>1. level[b] \in 0 .. 2
  BY DEF TypeInv
<1>2. CASE b \in PerStock
  <2>1. AgainstDaily(level[b]) /\ b \notin ByMark /\ b # "sectorFlow"
    BY <1>2 DEF Complete, PerStock, ByMark
  <2>2. level[b] = 2
    BY <1>1, <1>2, <2>1, CoversDaily
  <2> QED BY <2>1, <2>2 DEF Whole
<1>3. CASE b \notin PerStock
  BY <1>3 DEF Complete, Whole, PerStock, ByMark
<1> QED BY <1>2, <1>3

\* Once its blocks are done, and were all full, only an optional one may lack
\* rows.
LEMMA AllWhole ==
  ASSUME TypeInv, NEW r, Untouched(r), Written(r), repair.full, Pending(r) = {}
  PROVE  \A b \in Blocks \ Optional : Whole(b)
<1> SUFFICES ASSUME NEW b \in Blocks \ Optional PROVE Whole(b)
  OBVIOUS
<1>1. CASE b \in r.sync
  <2>1. level[b] = 2 /\ (b \in Audited => b \in marks)
    BY <1>1 DEF Written
  <2> QED BY <2>1 DEF Whole, Audited
<1>2. CASE b \notin r.sync
  BY <1>2 DEF Untouched
<1> QED BY <1>1, <1>2

\* What holds of the repair's next run, by name.
LEMMA SoundNext ==
  ASSUME NEW q, q = run'["repair"], Sound(q)'
  PROVE  Sound(run["repair"])'
BY DEF Sound, Closed, Untouched, Written, Pending, Assembled, Refreshed, Whole

\* The plan of a repair.
LEMMA RepairBegins ==
  ASSUME TypeInv, RepairInv, NEW s \in Strict, StartRepair(s)
  PROVE  RepairInv'
<1> DEFINE m == Missing
<1> PICK q : q = run'["repair"]
  OBVIOUS
<1>1. /\ Launch("repair", RepairPlan(Missing), s, "core") /\ s \in BOOLEAN
      /\ repair' = [NoRepair EXCEPT !.alone = Going = {}] /\ "repair" \in Jobs
  BY DEF StartRepair, Jobs
<1>2. /\ UNCHANGED day /\ \A o \in Jobs \ {"repair"} : run'[o] = run[o]
      /\ q.pc = "core" /\ q.todo = q.sync \intersect Core
      /\ q.sync = RepairSync(m) \intersect Blocks
      /\ q.calc = RepairCalc(m, RepairSync(m))
  BY <1>1, PlansType, Launched
<1>3. repair'.wrote = {} /\ repair'.full = TRUE /\ (repair'.alone => Going = {})
  BY <1>1 DEF NoRepair
<1>4. Solo'
  <2>1. ASSUME NEW o \in Jobs \ {"repair"}, Alone' PROVE run'[o].pc = "idle"
    <3>1. o \notin Going
      BY <1>3, <2>1 DEF Alone
    <3> QED BY <1>2, <3>1 DEF Going
  <2> QED BY <2>1 DEF Solo
<1>5. SectorBacked'
  BY <1>2 DEF RepairInv, SectorBacked, SectorRows, day
<1>6. /\ m \intersect Blocks \subseteq q.sync
      /\ "daily" \in m => {"basic", "moneyflow", "adjust"} \intersect Blocks \subseteq q.sync
  BY <1>2 DEF RepairSync
<1>7. /\ "stock" \notin q.calc => "daily_factors" \notin m /\ q.sync \intersect StockReads = {}
      /\ "sector" \notin q.calc => "sector_factors" \notin m /\ q.sync \intersect SectorReads = {}
  BY <1>2 DEF RepairCalc, StockReads, SectorReads
<1>8. /\ \A b \in Blocks : b \notin m => Complete(b)
      /\ "daily_factors" \notin m => AgainstDaily(ready)
      /\ "sector_factors" \notin m => "sector" \in built
  BY DEF Missing
<1> HIDE DEF m
<1>9. "daily" \notin m => level["daily"] = 2
  BY <1>8 DEF Complete, PerStock, ByMark
<1>10. Closed(q)
  BY <1>7 DEF Closed
<1>11. Untouched(q)
  <2>1. ASSUME NEW b \in Blocks \ (q.sync \union Optional) PROVE Whole(b)
    <3>1. b \notin m /\ Complete(b)
      BY <1>6, <1>8
    <3>2. b \in PerStock => level["daily"] = 2
      BY <1>6, <1>9 DEF PerStock, Optional
    <3> QED BY <3>1, <3>2, CompleteWhole
  <2>2. ASSUME "stock" \notin q.calc PROVE ready = 2
    <3>1. "daily" \notin m /\ AgainstDaily(ready)
      BY <1>6, <1>7, <1>8, <2>2 DEF StockReads
    <3>2. ready \in 0 .. 2
      BY DEF TypeInv
    <3> QED BY <1>9, <3>1, <3>2, CoversDaily
  <2>3. "sector" \notin q.calc => "sector" \in built
    BY <1>7, <1>8
  <2> QED BY <2>1, <2>2, <2>3 DEF Untouched
<1>12. Untouched(q)'
  BY <1>2, <1>11 DEF Untouched, Whole, day
<1>13. Written(q)'
  <2>1. q.sync \subseteq Pending(q)
    BY <1>2 DEF Pending, Core, Enrich
  <2> QED BY <1>3, <2>1 DEF Written, Pending
<1>14. Sound(q)'
  BY <1>2, <1>10, <1>12, <1>13 DEF Assembled, Closed, Sound
<1> QED BY <1>4, <1>5, <1>14, SoundNext DEF RepairInv

-----------------------------------------------------------------------------
(* A step of another job, the end of the repair, a step of the repair *)

LEMMA SectorStays ==
  ASSUME TypeInv, SectorBacked, \A b \in Blocks : level'[b] \in 0 .. 2 /\ level'[b] >= level[b],
         "sector" \in built' => "sector" \in built \/ SectorRows
  PROVE  SectorBacked'
<1> SUFFICES ASSUME "sector" \in built' PROVE SectorRows'
  BY DEF SectorBacked
<1>1. PICK b \in {"sectorBars", "sectorFlow"} \intersect Blocks : level[b] > 0
  BY DEF SectorBacked, SectorRows
<1>2. level[b] \in 0 .. 2
  BY DEF TypeInv
<1>3. level'[b] > 0
  BY <1>1, <1>2
<1> QED BY <1>1, <1>3 DEF SectorRows

\* Nobody else is at work while a repair has the day for itself.
LEMMA OthersKeep ==
  ASSUME RepairInv, NEW j \in Jobs \ {"repair"}, run[j].pc # "idle",
         run'["repair"] = run["repair"], repair' = repair, SectorBacked'
  PROVE  RepairInv'
<1>1. ~Alone
  BY DEF RepairInv, Solo
<1>2. ~Alone'
  BY <1>1 DEF Alone
<1> QED BY <1>2 DEF RepairInv, Solo

LEMMA RepairEnds ==
  ASSUME run'["repair"].pc = "idle", SectorBacked'
  PROVE  RepairInv'
BY DEF RepairInv, Solo, Alone

LEMMA RepairMoves ==
  ASSUME RepairInv, run["repair"].pc # "idle", repair'.alone = repair.alone,
         \A o \in Jobs \ {"repair"} : run'[o] = run[o], SectorBacked',
         NEW q, q = run'["repair"], Alone /\ Sound(run["repair"]) => Sound(q)'
  PROVE  RepairInv'
<1> SUFFICES ASSUME Alone' PROVE Solo' /\ Sound(run["repair"])'
  BY DEF RepairInv, Solo
<1>1. Alone
  BY DEF Alone
<1>2. Solo'
  BY <1>1 DEF RepairInv, Solo
<1>3. Sound(q)'
  BY <1>1 DEF RepairInv
<1> QED BY <1>2, <1>3, SoundNext

\* What a step does to the rows the repair relies on.
LEMMA UntouchedKept ==
  ASSUME NEW r, NEW q, Untouched(r), q.sync = r.sync, q.calc = r.calc,
         \A b \in Blocks \ r.sync : level'[b] = level[b], marks \subseteq marks',
         "stock" \notin r.calc => ready' = ready, built \subseteq built'
  PROVE  Untouched(q)'
BY DEF Untouched, Whole

-----------------------------------------------------------------------------
(* The blocks *)

LEMMA BlockIsSound ==
  ASSUME TypeInv, NEW r, NEW q, r = run["repair"], q = run'["repair"],
         Sound(r), NEW b \in Blocks, NEW n \in Answers(b), BlockDone("repair", b, n)
  PROVE  Sound(q)'
<1>0. "repair" \in Jobs
  BY DEF Jobs
<1>1. /\ n \in 0 .. 2 /\ level' = [level EXCEPT ![b] = Upserted(b, n)]
      /\ \A c \in Blocks : level'[c] >= level[c]
  BY <1>0, BlockDoneType
<1>2. /\ b \in r.todo /\ r.pc \in {"core", "enrich"}
      /\ marks' = marks \union ({b} \intersect Audited)
      /\ b # "technical" => ready' = ready
      /\ built \subseteq built'
      /\ run' = [run EXCEPT !["repair"].todo = @ \ {b}]
      /\ repair' = [repair EXCEPT !.wrote = @ \union {b}, !.full = @ /\ n = 2]
  BY DEF BlockDone, Running
<1>3. q.pc = r.pc /\ q.todo = r.todo \ {b} /\ q.sync = r.sync /\ q.calc = r.calc
  BY <1>0, <1>2, Worked
<1>4. b \in r.sync
  BY <1>0, <1>2 DEF TypeInv, Planned
<1>5. repair'.wrote = repair.wrote \union {b} /\ (repair'.full => repair.full /\ n = 2)
  BY <1>2 DEF TypeInv
<1>6. Closed(q)'
  BY <1>3 DEF Sound, Closed
<1>7. Untouched(q)'
  <2>1. \A c \in Blocks \ r.sync : level'[c] = level[c]
    BY <1>1, <1>4 DEF TypeInv
  <2>2. "stock" \notin r.calc => b # "technical"
    BY <1>4 DEF Sound, Closed, StockReads
  <2> QED BY <1>2, <1>3, <2>1, <2>2, UntouchedKept DEF Sound
<1>8. Written(q)'
  <2>1. q.sync \subseteq repair'.wrote \union Pending(q) \/ ~repair'.full
    BY <1>2, <1>3, <1>5 DEF Sound, Written, Pending
  <2>2. repair'.full => \A c \in repair'.wrote : level'[c] = 2 /\ (c \in Audited => c \in marks')
    <3> SUFFICES ASSUME repair'.full, NEW c \in repair'.wrote
                 PROVE  level'[c] = 2 /\ (c \in Audited => c \in marks')
      OBVIOUS
    <3>1. repair.full /\ n = 2
      BY <1>5
    <3>2. CASE c = b
      <4>1. Upserted(b, n) = 2
        BY <3>1, UpsertedType
      <4> QED BY <1>1, <1>2, <3>2, <4>1 DEF TypeInv
    <3>3. CASE c # b
      <4>1. c \in repair.wrote /\ c \in Blocks
        BY <1>5, <3>3 DEF TypeInv
      <4>2. level[c] = 2 /\ (c \in Audited => c \in marks)
        BY <3>1, <4>1 DEF Sound, Written
      <4> QED BY <1>1, <1>2, <3>3, <4>1, <4>2 DEF TypeInv
    <3> QED BY <3>2, <3>3
  <2>3. repair'.wrote \subseteq q.sync
    BY <1>3, <1>4, <1>5 DEF Sound, Written
  <2> QED BY <2>1, <2>2, <2>3 DEF Written, Pending
<1>9. Assembled(q)'
  <2>1. q.pc = "enrich" => level'["daily"] > 0
    <3>1. q.pc = "enrich" => level["daily"] > 0
      BY <1>3 DEF Sound, Assembled
    <3>2. level["daily"] \in 0 .. 2 /\ level'["daily"] \in Int /\ level'["daily"] >= level["daily"]
      BY <1>0, <1>1, BlockDoneType DEF TypeInv
    <3> QED BY <3>1, <3>2
  <2> QED BY <1>2, <1>3, <2>1 DEF Assembled
<1> QED BY <1>2, <1>3, <1>6, <1>7, <1>8, <1>9 DEF Sound

\* A step that moves the repair to its next step and leaves the day alone, as
\* long as what it has still to do is the same.
LEMMA MoveIsSound ==
  ASSUME NEW r, NEW q, Sound(r), UNCHANGED day, q.sync = r.sync, q.calc = r.calc,
         repair' = repair, Pending(q) = Pending(r),
         q.pc = "enrich" \/ (q.pc = "stock" /\ r.pc = "enrich"),
         level["daily"] > 0
  PROVE  Sound(q)'
<1>1. Untouched(q)'
  BY UntouchedKept DEF Sound, day
<1>2. Written(q)'
  BY DEF Sound, Written, day, Pending
<1> QED BY <1>1, <1>2 DEF Sound, Closed, Assembled, day

LEMMA FailureIsSound ==
  ASSUME TypeInv, NEW r, NEW q, r = run["repair"], q = run'["repair"], Sound(r),
         NEW b \in Blocks, BlockFails("repair", b), ~Fatal("repair", b)
  PROVE  Sound(q)'
<1>1. /\ run' = [run EXCEPT !["repair"].todo = @ \ {b}] /\ "repair" \in Jobs
      /\ repair' = [repair EXCEPT !.full = @ /\ "repair" # "repair"] /\ UNCHANGED day
      /\ r.pc \in {"core", "enrich"}
  BY DEF BlockFails, Running, Jobs
<1>2. q.pc = r.pc /\ q.todo = r.todo \ {b} /\ q.sync = r.sync /\ q.calc = r.calc
  BY <1>1, Worked
<1>3. repair'.wrote = repair.wrote /\ repair'.full = FALSE
  BY <1>1 DEF TypeInv
<1>4. Untouched(q)'
  BY <1>1, <1>2, UntouchedKept DEF Sound, day
<1> QED BY <1>1, <1>2, <1>3, <1>4 DEF Sound, Closed, Written, Assembled, day

-----------------------------------------------------------------------------
(* The factors *)

LEMMA ChunkIsSound ==
  ASSUME NEW r, NEW q, r = run["repair"], q = r, Sound(r), AssembleChunk("repair")
  PROVE  Sound(q)'
<1>1. /\ UNCHANGED <<level, marks, fresh, run, repair>> /\ r.pc = "stock"
      /\ "stock" \in r.calc /\ built \subseteq built'
  BY DEF AssembleChunk, Assembles
<1>2. Untouched(q)'
  BY <1>1, UntouchedKept DEF Sound
<1> QED BY <1>1, <1>2 DEF Sound, Closed, Written, Pending, Assembled

LEMMA StockIsSound ==
  ASSUME TypeInv, NEW r, NEW q, r = run["repair"], q = run'["repair"], Sound(r),
         AssembleStock("repair"), r.todo = {}
  PROVE  Sound(q)'
<1>1. /\ run' = [run EXCEPT !["repair"].pc = "sector"] /\ "repair" \in Jobs
      /\ repair' = repair /\ UNCHANGED <<level, marks>> /\ r.pc = "stock"
      /\ "sector" \in Steps
  BY DEF AssembleStock, Advance, Jobs, Steps
<1>2. q.pc = "sector" /\ q.sync = r.sync /\ q.calc = r.calc /\ q.todo = {}
  BY <1>1, Moved
<1>3. level["daily"] > 0 /\ level'["daily"] > 0
  BY <1>1 DEF Sound, Assembled
<1>4. /\ "stock" \notin r.calc => UNCHANGED <<built, fresh, ready>>
      /\ built \subseteq built'
  <2>1. CASE Assembles("repair")
    BY <2>1 DEF AssembleStock, Compute, Assembles
  <2>2. CASE ~Assembles("repair")
    BY <2>2 DEF AssembleStock
  <2> QED BY <2>1, <2>2
<1>5. Untouched(q)'
  BY <1>1, <1>2, <1>4, UntouchedKept DEF Sound
<1>6. Written(q)'
  BY <1>1, <1>2 DEF Sound, Written, Pending
<1>7. Refreshed("stock")' /\ (repair'.full => ready' = 2)
  <2>1. CASE "stock" \in r.calc
    <3>1. Compute({"stock"}) /\ ready' = Priced
      BY <1>3, <2>1 DEF AssembleStock, Assembles
    <3>2. fresh'["stock"] = StockInputs \intersect Blocks
      BY <3>1 DEF Compute, Derived, Inputs
    <3>3. repair.wrote \subseteq Blocks
      BY DEF TypeInv
    <3>4. Refreshed("stock")'
      BY <1>1, <3>2, <3>3 DEF Refreshed, Recomputed, StockInputs
    <3>5. ASSUME repair.full PROVE ready' = 2
      <4>1. Pending(r) = {}
        BY <1>1 DEF Pending
      <4>2. \A b \in Blocks \ Optional : Whole(b)
        BY <3>5, <4>1, AllWhole DEF Sound
      <4>3. level["daily"] = 2 /\ ("adjust" \in Blocks => level["adjust"] = 2)
        BY <4>2 DEF Whole, Optional, ByMark
      <4> QED BY <3>1, <4>3, PricedType
    <3> QED BY <1>1, <3>4, <3>5
  <2>2. CASE "stock" \notin r.calc
    <3>1. repair.wrote \intersect StockReads = {} /\ ready = 2
      BY <2>2 DEF Sound, Closed, Written, Untouched
    <3> QED BY <1>1, <1>4, <2>2, <3>1 DEF Refreshed, Recomputed, StockReads
  <2> QED BY <2>1, <2>2
<1> QED BY <1>1, <1>2, <1>3, <1>5, <1>6, <1>7 DEF Sound, Closed, Assembled

LEMMA SectorIsSound ==
  ASSUME TypeInv, SectorBacked, NEW r, NEW q, r = run["repair"], q = run'["repair"],
         Sound(r), AssembleSector("repair"), r.todo = {}
  PROVE  Sound(q)'
<1>1. /\ run' = [run EXCEPT !["repair"].pc = "summary"] /\ "repair" \in Jobs
      /\ repair' = repair /\ UNCHANGED <<level, marks, ready>> /\ r.pc = "sector"
      /\ "summary" \in Steps
  BY DEF AssembleSector, Advance, Jobs, Steps
<1>2. q.pc = "summary" /\ q.sync = r.sync /\ q.calc = r.calc /\ q.todo = {}
  BY <1>1, Moved
<1> DEFINE c == "sector" \in r.calc /\ SectorRows
<1>3. /\ c => Compute({"sector"})
      /\ ~c => UNCHANGED <<built, fresh>>
  BY DEF AssembleSector
<1> HIDE DEF c
<1>4. /\ built \subseteq built' /\ ("stock" \in built' => "stock" \in built)
      /\ fresh'["stock"] = fresh["stock"]
      /\ c => "sector" \in built' /\ fresh'["sector"] = SectorInputs \intersect Blocks
  BY <1>3 DEF Compute, Derived, Inputs
<1>5. Untouched(q)'
  BY <1>1, <1>2, <1>4, UntouchedKept DEF Sound
<1>6. Written(q)'
  BY <1>1, <1>2 DEF Sound, Written, Pending
<1>7. Refreshed("stock")' /\ (repair'.full => ready' = 2) /\ level'["daily"] > 0
  BY <1>1, <1>4 DEF Sound, Assembled, Refreshed
<1>8. Refreshed("sector")' /\ (repair'.full => "sector" \in built')
  <2>1. CASE c
    <3>1. repair.wrote \subseteq Blocks
      BY DEF TypeInv
    <3> QED BY <1>1, <1>4, <2>1, <3>1 DEF Refreshed, Recomputed, SectorInputs
  <2>2. CASE "sector" \notin r.calc
    <3>1. repair.wrote \intersect SectorReads = {} /\ "sector" \in built
      BY <2>2 DEF Sound, Closed, Written, Untouched
    <3> QED BY <1>1, <1>4, <3>1 DEF Refreshed, Recomputed, SectorReads
  <2>3. CASE ~SectorRows
    <3>1. "sector" \notin built'
      BY <1>3, <2>3 DEF SectorBacked, c
    <3>2. ASSUME repair.full PROVE FALSE
      <4>1. Pending(r) = {}
        BY <1>1 DEF Pending
      <4>2. \A b \in Blocks \ Optional : Whole(b)
        BY <3>2, <4>1, AllWhole DEF Sound
      <4>3. PICK b \in {"sectorBars", "sectorFlow"} : b \in Blocks
        OBVIOUS
      <4>4. level[b] > 0
        BY <4>2, <4>3 DEF Whole, Optional, ByMark
      <4> QED BY <2>3, <4>3, <4>4 DEF SectorRows
    <3> QED BY <1>1, <3>1, <3>2 DEF Refreshed
  <2> QED BY <2>1, <2>2, <2>3 DEF c
<1> QED BY <1>1, <1>2, <1>5, <1>6, <1>7, <1>8 DEF Sound, Closed, Assembled

LEMMA SummaryIsSound ==
  ASSUME TypeInv, NEW r, NEW q, r = run["repair"], q = run'["repair"],
         Sound(r), Summarise("repair"), r.todo = {}
  PROVE  Sound(q)'
<1>1. /\ run' = [run EXCEPT !["repair"].pc = "final"] /\ "repair" \in Jobs
      /\ repair' = repair /\ UNCHANGED <<level, marks, ready>> /\ r.pc = "summary"
      /\ "final" \in Steps
  BY DEF Summarise, Advance, Jobs, Steps
<1>2. q.pc = "final" /\ q.sync = r.sync /\ q.calc = r.calc /\ q.todo = {}
  BY <1>1, Moved
<1>3. /\ "stock" \in r.calc => \E ds \in SUBSET {"summary", "index"} :
                                   "summary" \in ds /\ Compute(ds)
      /\ "stock" \notin r.calc => UNCHANGED <<built, fresh>>
  BY DEF Summarise
<1>4. /\ built \subseteq built'
      /\ \A d \in {"stock", "sector"} : (d \in built' => d \in built) /\ fresh'[d] = fresh[d]
      /\ "stock" \in r.calc => fresh'["summary"] = SummaryInputs \intersect Blocks
  <2>1. CASE "stock" \in r.calc
    <3>1. PICK ds \in SUBSET {"summary", "index"} : "summary" \in ds /\ Compute(ds)
      BY <1>3, <2>1
    <3> QED BY <2>1, <3>1 DEF Compute, Derived, Inputs
  <2>2. CASE "stock" \notin r.calc
    BY <1>3, <2>2
  <2> QED BY <2>1, <2>2
<1>5. Untouched(q)'
  BY <1>1, <1>2, <1>4, UntouchedKept DEF Sound
<1>6. Written(q)'
  BY <1>1, <1>2 DEF Sound, Written, Pending
<1>7. /\ Refreshed("stock")' /\ (repair'.full => ready' = 2) /\ level'["daily"] > 0
      /\ Refreshed("sector")' /\ (repair'.full => "sector" \in built')
  BY <1>1, <1>4 DEF Sound, Assembled, Refreshed
<1>8. Refreshed("summary")'
  <2>1. CASE "stock" \in r.calc
    <3>1. repair.wrote \subseteq Blocks
      BY DEF TypeInv
    <3> QED BY <1>1, <1>4, <2>1, <3>1 DEF Refreshed, Recomputed, SummaryInputs
  <2>2. CASE "stock" \notin r.calc
    <3>1. repair.wrote \intersect StockReads = {}
      BY <2>2 DEF Sound, Closed, Written
    <3> QED BY <1>1, <3>1 DEF Refreshed, Recomputed, StockReads
  <2> QED BY <2>1, <2>2
<1> QED BY <1>1, <1>2, <1>5, <1>6, <1>7, <1>8 DEF Sound, Closed, Assembled

-----------------------------------------------------------------------------
(* Every step *)

\* A step of a job that the day's sector rows and factors survive.
LEMMA JobSteps ==
  ASSUME TypeInv, RepairInv, NEW j \in Jobs, run[j].pc # "idle",
         \A o \in Jobs \ {j} : run'[o] = run[o],
         j # "repair" => repair' = repair, repair'.alone = repair.alone, SectorBacked',
         NEW q, q = run'["repair"],
         j = "repair" /\ Sound(run["repair"]) => Sound(q)'
  PROVE  RepairInv'
<1>1. CASE j = "repair"
  BY <1>1, RepairMoves
<1>2. CASE j # "repair"
  <2>1. run'["repair"] = run["repair"]
    BY <1>2 DEF Jobs
  <2> QED BY <1>2, <2>1, OthersKeep
<1> QED BY <1>1, <1>2

LEMMA StopKeeps ==
  ASSUME TypeInv, RepairInv, NEW j \in Jobs, run[j].pc # "idle", Stop(j), UNCHANGED day
  PROVE  RepairInv'
<1>1. SectorBacked'
  BY DEF RepairInv, SectorBacked, SectorRows, day
<1>2. run' = [run EXCEPT ![j] = Idle] /\ run \in [Jobs -> Run]
  BY DEF Stop, TypeInv
<1>3. CASE j = "repair"
  BY <1>1, <1>2, <1>3, RepairEnds DEF Idle
<1>4. CASE j # "repair"
  <2>1. run'["repair"] = run["repair"] /\ repair' = repair
    BY <1>2, <1>4 DEF Stop, Jobs
  <2> QED BY <1>1, <1>4, <2>1, OthersKeep
<1> QED BY <1>3, <1>4

LEMMA NextRepair == TypeInv /\ RepairInv /\ [Next]_vars => RepairInv'
<1> SUFFICES ASSUME TypeInv, RepairInv, [Next]_vars PROVE RepairInv'
  OBVIOUS
<1> PICK q : q = run'["repair"]
  OBVIOUS
<1>0. /\ SectorBacked
      /\ \A b \in Blocks : level[b] \in 0 .. 2
      /\ \A j \in Jobs : run[j] \in Run /\ Planned(run[j])
  BY DEF RepairInv, TypeInv
<1>1. ASSUME NEW j \in {"core", "enrichment"}, NEW s \in Strict, NEW r \in Rebuild,
             Start(j, s, r)
      PROVE  RepairInv'
  <2> DEFINE plan == IF j = "core" THEN CorePlan ELSE EnrichPlan
             p == IF r THEN "clear" ELSE "core"
  <2>1. /\ Launch(j, plan, s, p) /\ repair' = [repair EXCEPT !.alone = "repair" \notin Going]
        /\ j \in Jobs /\ s \in BOOLEAN /\ p \in {"clear", "core"} /\ j # "repair"
    BY <1>1 DEF Start, Jobs
  <2>2. plan.sync \subseteq Blocks /\ plan.calc \subseteq {"stock", "sector"}
    BY PlansType
  <2> HIDE DEF plan, p
  <2>3. UNCHANGED day /\ run'["repair"] = run["repair"]
    BY <2>1, <2>2, Launched DEF Jobs
  <2>4. repair'.alone => "repair" \notin Going
    BY <2>1 DEF TypeInv
  <2>5. ~Alone'
    BY <2>3, <2>4 DEF Alone, Going, Jobs
  <2> QED BY <1>0, <2>3, <2>5 DEF RepairInv, Solo, SectorBacked, SectorRows, day
<1>2. ASSUME NEW s \in Strict, StartRepair(s) PROVE RepairInv'
  BY <1>2, RepairBegins
<1>3. ASSUME NEW j \in Jobs, Clear(j) PROVE RepairInv'
  <2>1. /\ run' = [run EXCEPT ![j].pc = "core"] /\ run[j].pc = "clear" /\ repair' = repair
        /\ SectorBacked' /\ "core" \in Steps
    BY <1>3 DEF Clear, SectorBacked, Steps
  <2>2. \A o \in Jobs \ {j} : run'[o] = run[o]
    BY <2>1, Moved
  <2>3. j = "repair" => ~Sound(run["repair"])
    BY <2>1 DEF Sound
  <2> QED BY <2>1, <2>2, <2>3, JobSteps
<1>4. ASSUME NEW j \in Jobs, NEW b \in Blocks, NEW n \in Answers(b), BlockDone(j, b, n)
      PROVE  RepairInv'
  <2>1. \A c \in Blocks : level'[c] \in 0 .. 2 /\ level'[c] >= level[c]
    BY <1>4, BlockDoneType DEF TypeInv
  <2>2. SectorBacked'
    BY <1>0, <1>4, <2>1, SectorStays DEF BlockDone
  <2>3. /\ run[j].pc # "idle" /\ (\A o \in Jobs \ {j} : run'[o] = run[o])
        /\ j # "repair" => repair' = repair
    BY <1>4, Worked DEF BlockDone, Running
  <2>4. repair'.alone = repair.alone
    BY <1>4 DEF BlockDone, TypeInv
  <2>5. j = "repair" /\ Sound(run["repair"]) => Sound(q)'
    BY <1>4, BlockIsSound
  <2> QED BY <2>2, <2>3, <2>4, <2>5, JobSteps
<1>5. ASSUME NEW j \in Jobs, NEW b \in Blocks, BlockFails(j, b) PROVE RepairInv'
  <2>1. run[j].pc # "idle" /\ UNCHANGED day
    BY <1>5 DEF BlockFails, Running
  <2>2. CASE Fatal(j, b)
    BY <1>5, <2>1, <2>2, StopKeeps DEF BlockFails
  <2>3. CASE ~Fatal(j, b)
    <3>1. /\ run' = [run EXCEPT ![j].todo = @ \ {b}]
          /\ repair' = [repair EXCEPT !.full = @ /\ j # "repair"]
      BY <1>5, <2>3 DEF BlockFails
    <3>2. \A o \in Jobs \ {j} : run'[o] = run[o]
      BY <3>1, Worked
    <3>3. repair'.alone = repair.alone /\ (j # "repair" => repair' = repair)
      BY <3>1 DEF TypeInv
    <3>4. j = "repair" /\ Sound(run["repair"]) => Sound(q)'
      BY <1>5, <2>3, FailureIsSound
    <3>5. SectorBacked'
      BY <1>0, <2>1 DEF SectorBacked, SectorRows, day
    <3> QED BY <2>1, <3>2, <3>3, <3>4, <3>5, JobSteps
  <2> QED BY <2>2, <2>3
<1>6. ASSUME NEW j \in Jobs, CoreDone(j) PROVE RepairInv'
  <2>1. run[j].pc = "core" /\ run[j].todo = {} /\ UNCHANGED day
    BY <1>6 DEF CoreDone
  <2>2. CASE level["daily"] = 0
    BY <1>6, <2>1, <2>2, StopKeeps DEF CoreDone
  <2>3. CASE level["daily"] # 0
    <3>1. /\ run' = [run EXCEPT ![j].pc = "enrich", ![j].todo = run[j].sync \intersect Enrich]
          /\ repair' = repair
      BY <1>6, <2>3 DEF CoreDone
    <3>2. /\ \A o \in Jobs \ {j} : run'[o] = run[o]
          /\ run'[j].pc = "enrich" /\ run'[j].todo = run[j].sync \intersect Enrich
          /\ run'[j].sync = run[j].sync /\ run'[j].calc = run[j].calc
      BY <3>1, Enriching
    <3>3. level["daily"] > 0
      BY <1>0, <2>3
    <3>4. j = "repair" /\ Sound(run["repair"]) => Sound(q)'
      <4> SUFFICES ASSUME j = "repair", Sound(run["repair"]) PROVE Sound(q)'
        OBVIOUS
      <4>1. Pending(q) = Pending(run["repair"])
        BY <2>1, <3>2 DEF Pending
      <4> QED BY <2>1, <3>1, <3>2, <3>3, <4>1, MoveIsSound
    <3>5. SectorBacked'
      BY <1>0, <2>1 DEF SectorBacked, SectorRows, day
    <3> QED BY <2>1, <3>1, <3>2, <3>4, <3>5, JobSteps
  <2> QED BY <2>2, <2>3
<1>7. ASSUME NEW j \in Jobs, EnrichDone(j) PROVE RepairInv'
  <2>1. /\ run[j].pc = "enrich" /\ run[j].todo = {} /\ UNCHANGED day /\ repair' = repair
        /\ run' = [run EXCEPT ![j].pc = "stock"] /\ "stock" \in Steps
    BY <1>7 DEF EnrichDone, Steps
  <2>2. /\ \A o \in Jobs \ {j} : run'[o] = run[o]
        /\ run'[j].pc = "stock" /\ run'[j].todo = {}
        /\ run'[j].sync = run[j].sync /\ run'[j].calc = run[j].calc
    BY <2>1, Moved
  <2>3. j = "repair" /\ Sound(run["repair"]) => Sound(q)'
    <3> SUFFICES ASSUME j = "repair", Sound(run["repair"]) PROVE Sound(q)'
      OBVIOUS
    <3>1. Pending(q) = Pending(run["repair"])
      BY <2>1, <2>2 DEF Pending
    <3>2. level["daily"] > 0
      BY <2>1 DEF Sound, Assembled
    <3> QED BY <2>1, <2>2, <3>1, <3>2, MoveIsSound
  <2>4. SectorBacked'
    BY <1>0, <2>1 DEF SectorBacked, SectorRows, day
  <2> QED BY <2>1, <2>2, <2>3, <2>4, JobSteps
<1>8. ASSUME NEW j \in Jobs, AssembleChunk(j) PROVE RepairInv'
  <2>1. /\ run[j].pc # "idle" /\ run' = run /\ repair' = repair
        /\ UNCHANGED level /\ ("sector" \in built' => "sector" \in built)
    BY <1>8 DEF AssembleChunk
  <2>2. SectorBacked'
    BY <1>0, <2>1 DEF SectorBacked, SectorRows
  <2>3. j = "repair" /\ Sound(run["repair"]) => Sound(q)'
    BY <1>8, <2>1, ChunkIsSound
  <2> QED BY <2>1, <2>2, <2>3, JobSteps
<1>9. ASSUME NEW j \in Jobs, AssembleStock(j) PROVE RepairInv'
  <2>1. /\ run[j].pc = "stock" /\ run' = [run EXCEPT ![j].pc = "sector"] /\ repair' = repair
        /\ UNCHANGED level /\ "sector" \in Steps
    BY <1>9 DEF AssembleStock, Advance, Steps
  <2>2. run[j].todo = {}
    BY <1>0, <2>1 DEF Planned
  <2>3. \A o \in Jobs \ {j} : run'[o] = run[o]
    BY <2>1, <2>2, Moved
  <2>4. "sector" \in built' => "sector" \in built
    BY <1>9 DEF AssembleStock, Compute
  <2>5. SectorBacked'
    BY <1>0, <2>1, <2>4 DEF SectorBacked, SectorRows
  <2>6. j = "repair" /\ Sound(run["repair"]) => Sound(q)'
    BY <1>9, <2>2, StockIsSound
  <2> QED BY <2>1, <2>3, <2>5, <2>6, JobSteps
<1>10. ASSUME NEW j \in Jobs, AssembleSector(j) PROVE RepairInv'
  <2>1. /\ run[j].pc = "sector" /\ run' = [run EXCEPT ![j].pc = "summary"] /\ repair' = repair
        /\ UNCHANGED level /\ "summary" \in Steps
    BY <1>10 DEF AssembleSector, Advance, Steps
  <2>2. run[j].todo = {}
    BY <1>0, <2>1 DEF Planned
  <2>3. \A o \in Jobs \ {j} : run'[o] = run[o]
    BY <2>1, <2>2, Moved
  <2>4. "sector" \in built' => "sector" \in built \/ SectorRows
    BY <1>10 DEF AssembleSector
  <2>5. SectorBacked'
    BY <1>0, <2>1, <2>4 DEF SectorBacked, SectorRows
  <2>6. j = "repair" /\ Sound(run["repair"]) => Sound(q)'
    BY <1>0, <1>10, <2>2, SectorIsSound
  <2> QED BY <2>1, <2>3, <2>5, <2>6, JobSteps
<1>11. ASSUME NEW j \in Jobs, Summarise(j) PROVE RepairInv'
  <2>1. /\ run[j].pc = "summary" /\ run' = [run EXCEPT ![j].pc = "final"] /\ repair' = repair
        /\ UNCHANGED level /\ "final" \in Steps
    BY <1>11 DEF Summarise, Advance, Steps
  <2>2. run[j].todo = {}
    BY <1>0, <2>1 DEF Planned
  <2>3. \A o \in Jobs \ {j} : run'[o] = run[o]
    BY <2>1, <2>2, Moved
  <2>4. "sector" \in built' => "sector" \in built
    BY <1>11 DEF Summarise, Compute
  <2>5. SectorBacked'
    BY <1>0, <2>1, <2>4 DEF SectorBacked, SectorRows
  <2>6. j = "repair" /\ Sound(run["repair"]) => Sound(q)'
    BY <1>11, <2>2, SummaryIsSound
  <2> QED BY <2>1, <2>3, <2>5, <2>6, JobSteps
<1>12. ASSUME NEW j \in Jobs, Finish(j) \/ Abort(j) PROVE RepairInv'
  <2>1. run[j].pc # "idle" /\ Stop(j) /\ UNCHANGED day
    BY <1>12 DEF Finish, Abort
  <2> QED BY <2>1, StopKeeps
<1>13. CASE UNCHANGED vars
  <2>1. UNCHANGED <<level, marks, ready, fresh, built, run, repair>>
    BY <1>13 DEF vars, day
  <2> QED BY <2>1 DEF RepairInv, Solo, SectorBacked, SectorRows, Alone, Sound, Closed,
                      Untouched, Written, Pending, Assembled, Refreshed, Whole
<1> QED BY <1>1, <1>2, <1>3, <1>4, <1>5, <1>6, <1>7, <1>8, <1>9, <1>10, <1>11, <1>12,
           <1>13 DEF Next

\* RepairRefreshes, whatever the blocks, whichever of them answer short, and
\* whatever the other jobs had left: at the end of an undisturbed repair no stock
\* factor, sector factor or summary is one computed without rows it replaced.
THEOREM RepairsRefresh == Spec => []RepairRefreshes
<1>1. TypeInv /\ RepairInv => RepairRefreshes
  <2> SUFFICES ASSUME TypeInv, RepairInv, Repaired, NEW d \in Derived, d \in built
               PROVE  repair.wrote \intersect Recomputed[d] \subseteq fresh[d]
    BY DEF RepairRefreshes
  <2>1. Sound(run["repair"]) /\ run["repair"].pc = "final"
    BY DEF RepairInv, Alone, Repaired
  <2>2. Refreshed("stock") /\ Refreshed("sector") /\ Refreshed("summary")
    BY <2>1 DEF Sound, Assembled
  <2>3. CASE d = "index"
    BY <2>3 DEF Recomputed
  <2>4. CASE d # "index"
    BY <2>2, <2>4 DEF Refreshed, Derived
  <2> QED BY <2>3, <2>4
<1> QED BY <1>1, InitType, NextType, InitRepair, NextRepair, PTL DEF Spec

\* RepairCloses, likewise: when every answer was full, the repair leaves nothing
\* missing but the optional technicals and the summary.
THEOREM RepairsClose == Spec => []RepairCloses
<1>1. TypeInv /\ RepairInv => RepairCloses
  <2> SUFFICES ASSUME TypeInv, RepairInv, Repaired, repair.full
               PROVE  Missing \subseteq {"market_summary"} \union Optional
    BY DEF RepairCloses
  <2>1. Sound(run["repair"]) /\ run["repair"].pc = "final" /\ "repair" \in Jobs
    BY DEF RepairInv, Alone, Repaired, Jobs
  <2>2. Pending(run["repair"]) = {}
    BY <2>1 DEF Pending, TypeInv, Planned
  <2>3. \A b \in Blocks \ Optional : Complete(b)
    BY <2>1, <2>2, AllWhole, WholeComplete DEF Sound
  <2>4. AgainstDaily(ready) /\ "sector" \in built
    <3>1. ready = 2 /\ "sector" \in built
      BY <2>1 DEF Sound, Assembled
    <3> DEFINE d == level["daily"]
    <3>2. d \in 0 .. 2
      BY DEF TypeInv
    <3> HIDE DEF d
    <3>3. 2 >= Max({1, d})
      BY <3>2, MaxPair
    <3> QED BY <3>1, <3>3 DEF AgainstDaily, d
  <2> QED BY <2>3, <2>4 DEF Missing
<1> QED BY <1>1, InitType, NextType, InitRepair, NextRepair, PTL DEF Spec
=============================================================================
