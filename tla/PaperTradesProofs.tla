------------------------- MODULE PaperTradesProofs -------------------------
(***************************************************************************)
(* What is proved of PaperTrades for every number of callers and           *)
(* candidates, every quantity and every take-profit plan.                  *)
(***************************************************************************)
EXTENDS PaperTrades, FiniteSetTheorems, SequenceTheorems, WellFoundedInduction, TLAPS

USE QuantityAssumption, RatiosAssumption, NoCallerAssumption, MaxTimeAssumption

\* The legs of a trade, written or about to be, are finitely many.
FiniteLegs ==
    \A c \in Candidates : /\ IsFiniteSet(legs[c])
                          /\ \A k \in Callers : IsFiniteSet(tx[k].sells[c])

TypeInv == TypeOK /\ FiniteLegs

-----------------------------------------------------------------------------
\* A take-profit leg never sells more than what is open.
LEMMA PortionFits ==
  ASSUME NEW o \in Nat, NEW r \in 0 .. 100
  PROVE  (o * r) \div 100 \in 0 .. o
<1>1. o * r \in Nat /\ o * r <= o * 100
  OBVIOUS
<1> DEFINE p == o * r
<1>2. p \in Nat /\ p <= o * 100
  BY <1>1
<1> HIDE DEF p
<1>3. p \div 100 \in 0 .. o
  BY <1>2
<1> QED BY <1>3 DEF p

LEMMA LegLotsFit ==
  ASSUME NEW o \in Nat, NEW i \in 1 .. Len(Ratios)
  PROVE  LegLots(o, i) \in 0 .. o
<1>1. Ratios[i] \in 0 .. 100
  BY RatiosAssumption, ElementOfSeq
<1>2. (o * Ratios[i]) \div 100 \in 0 .. o
  BY <1>1, PortionFits
<1> QED BY <1>2 DEF LegLots

LEMMA DayType == ASSUME NEW t \in Nat PROVE Day(t) \in Nat
BY DEF Day

LEMMA NoTradeType == NoTrade \in Row
BY DEF NoTrade, Row

LEMMA NoTxType == NoTx \in Tx /\ \A c \in Candidates : NoTx.sells[c] = {}
<1>1. 0 \in 0 .. MaxTime /\ "absent" \in Status
  BY DEF Status
<1> QED BY <1>1, NoTradeType DEF NoTx, Tx

LEMMA NoRecType == NoRec \in Rec
BY DEF NoRec, Rec, Status

LEMMA InitType == Init => TypeInv
<1> SUFFICES ASSUME Init PROVE TypeInv
  OBVIOUS
<1>1. TypeOK
  BY NoTxType, NoRecType, NoTradeType DEF Init, TypeOK, Status
<1>2. FiniteLegs
  BY NoTxType, FS_EmptySet DEF Init, FiniteLegs
<1> QED BY <1>1, <1>2 DEF TypeInv

-----------------------------------------------------------------------------
\* A step of a round that only replaces the session of its caller.
LEMMA SessionType ==
  ASSUME TypeInv, NEW k \in Callers, NEW T \in Tx,
         tx' = [tx EXCEPT ![k] = T],
         \A c \in Candidates : IsFiniteSet(T.sells[c]),
         mutex' \in Callers \union {NoCaller},
         UNCHANGED <<clock, paper, cand, trade, legs, rec>>
  PROVE  TypeInv'
<1>1. TypeOK'
  BY DEF TypeInv, TypeOK
<1>2. FiniteLegs'
  BY DEF TypeInv, TypeOK, FiniteLegs
<1> QED BY <1>1, <1>2 DEF TypeInv

\* What one sale does to the session of its caller.
LEMMA SellType ==
  ASSUME TypeInv, NEW k \in Callers, NEW c \in Candidates, NEW kind \in Nat,
         NEW lots \in 0 .. tx[k].row[c].open, Sell(k, c, kind, lots)
  PROVE  TypeInv'
<1> DEFINE row == tx[k].row[c]
           leg == NewLeg(k, c, kind, lots)
           left == Left(row, kind, lots)
           T == Sold(k, c, kind, lots)
<1>1. tx[k] \in Tx /\ row \in Row
  BY DEF TypeInv, TypeOK, Tx
<1>2. LegNo(k, c) \in Nat
  <2>1. IsFiniteSet(legs[c] \union tx[k].sells[c])
    BY FS_Union DEF TypeInv, FiniteLegs
  <2>2. Cardinality(legs[c] \union tx[k].sells[c]) \in Nat
    BY <2>1, FS_CardinalityType
  <2> QED BY <2>2 DEF LegNo
<1>3. leg \in Leg
  <2>0. tx[k].now \in Nat
    BY <1>1 DEF Tx
  <2>1. Day(tx[k].now) \in Nat
    BY <2>0, DayType
  <2>2. lots \in Nat
    BY <1>1 DEF Row
  <2> QED BY <1>2, <2>1, <2>2 DEF Leg, NewLeg
<1>4. left \in Row
  <2>1. row.open \in Nat /\ row.open - lots \in Nat
    BY <1>1 DEF Row
  <2>2. /\ row.next \in Nat \ {0}
        /\ (IF kind = 0 THEN row.next ELSE kind + 1) \in Nat \ {0}
    BY <1>1 DEF Row
  <2> HIDE DEF row
  <2> QED BY <1>1, <2>1, <2>2 DEF Row, Left
<1>5. tx' = [tx EXCEPT ![k] = T] /\ UNCHANGED <<clock, paper, cand, trade, legs, mutex, rec>>
  BY DEF Sell
<1>6. T \in Tx
  BY <1>1, <1>3, <1>4 DEF Tx, Sold
<1>7. \A d \in Candidates : IsFiniteSet(T.sells[d])
  <2>1. IsFiniteSet(tx[k].sells[c] \union {leg})
    BY FS_AddElement DEF TypeInv, FiniteLegs
  <2>2. \A d \in Candidates :
          T.sells[d] = IF d = c THEN tx[k].sells[c] \union {leg} ELSE tx[k].sells[d]
    BY <1>1 DEF Tx, Sold
  <2> QED BY <2>1, <2>2 DEF TypeInv, FiniteLegs
<1> HIDE DEF T
<1>8. mutex' \in Callers \union {NoCaller}
  BY <1>5 DEF TypeInv, TypeOK
<1> QED BY <1>5, <1>6, <1>7, <1>8, SessionType

\* A session record whose fields are changed as the steps of a round do.
LEMMA MarkType ==
  ASSUME NEW k \in Callers, tx[k] \in Tx, NEW c \in Candidates, NEW st \in Status
  PROVE  Mark(k, c, st) \in Tx /\ Mark(k, c, st).sells = tx[k].sells
BY DEF Mark, Tx

LEMMA DropType ==
  ASSUME NEW k \in Callers, tx[k] \in Tx, NEW c \in Candidates
  PROVE  Drop(k, c) \in Tx /\ Drop(k, c).sells = tx[k].sells
BY DEF Drop, Tx

LEMMA BoughtType ==
  ASSUME NEW k \in Callers, tx[k] \in Tx
  PROVE  Bought(k) \in Row
<1>1. tx[k].now \in Nat
  BY DEF Tx
<1>2. Day(tx[k].now) \in Nat
  BY <1>1, DayType
<1> QED BY <1>2 DEF Bought, Row

LEMMA EnteredType ==
  ASSUME NEW k \in Callers, tx[k] \in Tx, NEW c \in Candidates
  PROVE  Entered(k, c) \in Tx /\ Entered(k, c).sells = tx[k].sells
<1> DEFINE M == Mark(k, c, "entry_triggered")
<1>1. M \in Tx /\ M.sells = tx[k].sells
  BY MarkType DEF Status
<1>2. Entered(k, c) = [M EXCEPT !.dirty = @ \union {c}, !.row[c] = Bought(k)]
  BY DEF Entered
<1>3. Bought(k) \in Row
  BY BoughtType
<1> DEFINE b == Bought(k)
<1>4. b \in Row /\ Entered(k, c) = [M EXCEPT !.dirty = @ \union {c}, !.row[c] = b]
  BY <1>2, <1>3
<1> HIDE DEF M, b
<1>5. [M.row EXCEPT ![c] = b] \in [Candidates -> Row] /\ M.dirty \union {c} \in SUBSET Candidates
  BY <1>1, <1>4 DEF Tx
<1> QED BY <1>1, <1>4, <1>5 DEF Tx

LEMMA NextType == TypeInv /\ [Next]_vars => TypeInv'
<1> SUFFICES ASSUME TypeInv, [Next]_vars PROVE TypeInv'
  OBVIOUS
<1>0. /\ \A k \in Callers : tx[k] \in Tx
      /\ \A k \in Callers, c \in Candidates : IsFiniteSet(tx[k].sells[c])
      /\ mutex \in Callers \union {NoCaller}
  BY DEF TypeInv, TypeOK, FiniteLegs
<1>1. ASSUME NEW k \in Callers, Call(k) PROVE TypeInv'
  <2> DEFINE T == [NoTx EXCEPT !.pc = "called", !.now = clock]
  <2>1. T \in Tx /\ T.sells = NoTx.sells
    BY NoTxType DEF TypeInv, TypeOK, Tx
  <2>2. tx' = [tx EXCEPT ![k] = T] /\ UNCHANGED <<clock, paper, cand, trade, legs, mutex, rec>>
    BY <1>1 DEF Call
  <2>3. \A c \in Candidates : IsFiniteSet(T.sells[c])
    BY <2>1, NoTxType, FS_EmptySet
  <2> HIDE DEF T
  <2> QED BY <1>0, <2>1, <2>2, <2>3, SessionType
<1>2. ASSUME NEW k \in Callers, Begin(k) PROVE TypeInv'
  <2>1. Listed(k) \in Tx /\ Listed(k).sells = tx[k].sells
    BY ZenonT(60), <1>0 DEF Listed, Runtime, Tx, TypeInv, TypeOK
  <2> QED BY <1>0, <1>2, <2>1, SessionType DEF Begin, Listing
<1>3. ASSUME NEW k \in Callers, ListOpen(k) PROVE TypeInv'
  <2>1. Seen(k) \in [Candidates -> Row] /\ Open(k) \subseteq Candidates
    BY <1>0 DEF Seen, Open, Tx, TypeInv, TypeOK
  <2>2. Opened(k) \in Tx /\ Opened(k).sells = tx[k].sells
    BY ZenonT(60), <1>0, <2>1 DEF Opened, Tx
  <2> QED BY <1>0, <1>3, <2>2, SessionType DEF ListOpen
<1>4. ASSUME NEW k \in Callers, Commit(k) PROVE TypeInv'
  <2>1. TypeOK'
    <3>1. /\ cand' \in [Candidates -> Status] /\ trade' \in [Candidates -> Row]
          /\ legs' \in [Candidates -> SUBSET Leg]
      BY <1>0, <1>4 DEF Commit, TypeInv, TypeOK, Tx
    <3>2. tx' \in [Callers -> Tx]
      BY <1>4, NoTxType DEF Commit, TypeInv, TypeOK
    <3> QED BY <1>4, <3>1, <3>2 DEF Commit, TypeInv, TypeOK
  <2>2. FiniteLegs'
    <3>1. \A c \in Candidates : IsFiniteSet(legs[c] \union tx[k].sells[c])
      BY FS_Union DEF TypeInv, FiniteLegs
    <3>2. \A c \in Candidates : legs'[c] = legs[c] \union tx[k].sells[c]
      BY <1>4 DEF Commit
    <3>3. \A o \in Callers : tx'[o] = IF o = k THEN NoTx ELSE tx[o]
      BY <1>4 DEF Commit, TypeInv, TypeOK
    <3> QED BY ZenonT(60), <3>1, <3>2, <3>3, NoTxType, FS_EmptySet DEF TypeInv, FiniteLegs
  <2> QED BY <2>1, <2>2 DEF TypeInv
<1>5. ASSUME NEW k \in Callers, Abort(k) PROVE TypeInv'
  <2>1. \A c \in Candidates : IsFiniteSet(NoTx.sells[c])
    BY NoTxType, FS_EmptySet
  <2>2. mutex' \in Callers \union {NoCaller}
    BY <1>0, <1>5 DEF Abort
  <2> QED BY <1>5, <2>1, <2>2, NoTxType, SessionType DEF Abort
<1>6. ASSUME NEW k \in Callers, NEW c \in Candidates, Pass(k, c) \/ Hold(k, c) PROVE TypeInv'
  BY <1>0, <1>6, DropType, SessionType DEF Pass, Hold
<1>7. ASSUME NEW k \in Callers, NEW c \in Candidates, Watch(k, c) PROVE TypeInv'
  <2>1. "watching" \in Status
    BY DEF Status, Waiting
  <2>2. Mark(k, c, "watching") \in Tx /\ Mark(k, c, "watching").sells = tx[k].sells
    BY <1>0, <2>1, MarkType
  <2>3. /\ tx' = [tx EXCEPT ![k] = Mark(k, c, "watching")]
        /\ UNCHANGED <<clock, paper, cand, trade, legs, mutex, rec>>
    BY <1>7 DEF Watch
  <2> QED BY <1>0, <2>2, <2>3, SessionType
<1>8. ASSUME NEW k \in Callers, NEW c \in Candidates, Reject(k, c) PROVE TypeInv'
  <2>1. "not_triggered" \in Status
    BY DEF Status
  <2>2. Mark(k, c, "not_triggered") \in Tx /\ Mark(k, c, "not_triggered").sells = tx[k].sells
    BY <1>0, <2>1, MarkType
  <2>3. /\ tx' = [tx EXCEPT ![k] = Mark(k, c, "not_triggered")]
        /\ UNCHANGED <<clock, paper, cand, trade, legs, mutex, rec>>
    BY <1>8 DEF Reject
  <2> QED BY <1>0, <2>2, <2>3, SessionType
<1>9. ASSUME NEW k \in Callers, NEW c \in Candidates, Enter(k, c) PROVE TypeInv'
  BY ZenonT(60), <1>0, <1>9, EnteredType, SessionType DEF Enter
<1>10. ASSUME NEW k \in Callers, NEW c \in Candidates, SellAll(k, c) \/ SellLeg(k, c)
       PROVE  TypeInv'
  <2>0. tx[k].row[c].open \in Nat /\ tx[k].row[c].next \in Nat \ {0}
    BY <1>0 DEF Tx, Row
  <2>1. CASE SellAll(k, c)
    BY <2>0, <2>1, SellType DEF SellAll
  <2>2. CASE SellLeg(k, c)
    <3> DEFINE i == tx[k].row[c].next
    <3>1. i \in 1 .. Len(Ratios) /\ Sell(k, c, i, LegLots(tx[k].row[c].open, i))
      BY <2>0, <2>2 DEF SellLeg
    <3>2. LegLots(tx[k].row[c].open, i) \in 0 .. tx[k].row[c].open
      BY <2>0, <3>1, LegLotsFit
    <3> QED BY <2>0, <3>1, <3>2, SellType
  <2> QED BY <1>10, <2>1, <2>2
<1>11. CASE Reconcile
  <2>1. RecBegin => rec' \in Rec
    BY NoRecType DEF RecBegin, TypeInv, TypeOK, Rec
  <2>2. (\E c \in Candidates : RecCreate(c) \/ RecKeep(c) \/ RecCancel(c)) => rec' \in Rec
    <3>0. rec \in Rec /\ {"pending_confirmation", "cancelled"} \subseteq Status
      BY DEF TypeInv, TypeOK, Status, Waiting
    <3>1. ASSUME NEW c \in Candidates, NEW st \in Status, RecMark(c, st) PROVE rec' \in Rec
      <4>1. [rec.seen EXCEPT ![c] = st] \in [Candidates -> Status]
        BY <3>0 DEF Rec
      <4> QED BY <3>0, <3>1, <4>1 DEF RecMark, Rec
    <3>2. \A c \in Candidates : RecKeep(c) => rec' \in Rec
      BY <3>0 DEF RecKeep, Rec
    <3> QED BY <3>0, <3>1, <3>2 DEF RecCreate, RecCancel
  <2>3. RecCommit \/ RecAbort => rec' \in Rec
    BY NoRecType DEF RecCommit, RecAbort
  <2>4. cand' \in [Candidates -> Status]
    BY <1>11 DEF Reconcile, RecBegin, RecCommit, RecAbort, RecCreate, RecKeep, RecCancel,
                 TypeInv, TypeOK, Rec
  <2>5. rec' \in Rec /\ UNCHANGED <<clock, paper, trade, legs, mutex, tx>>
    BY <1>11, <2>1, <2>2, <2>3
       DEF Reconcile, RecBegin, RecCommit, RecAbort, RecCreate, RecKeep, RecCancel
  <2> QED BY <2>4, <2>5 DEF TypeInv, TypeOK, FiniteLegs
<1>12. CASE Tick
  BY <1>12 DEF Tick, TypeInv, TypeOK, FiniteLegs
<1>13. CASE Republish
  BY <1>13 DEF Republish, TypeInv, TypeOK, FiniteLegs
<1>14. CASE UNCHANGED vars
  BY <1>14 DEF vars, TypeInv, TypeOK, FiniteLegs
<1> QED BY <1>1, <1>2, <1>3, <1>4, <1>5, <1>6, <1>7, <1>8, <1>9, <1>10, <1>11, <1>12,
           <1>13, <1>14 DEF Next, Round

\* Statuses, rows, legs and sessions keep their types, no trade sells more
\* than it holds, and the next take-profit leg exists, for every plan.
THEOREM TypeCorrect == Spec => []TypeOK
<1>1. TypeInv => TypeOK
  BY DEF TypeInv
<1> QED BY <1>1, InitType, NextType, PTL DEF Spec

-----------------------------------------------------------------------------
(* The inductive invariant behind TPlusOne and EntryAtomic: what the copies *)
(* in the session of a round have to do with the rows they were read from.  *)

Held(T) == T.pc \in {"candidates", "trades"}

\* Only the holder of the process's lock has read or written anything.
Owned == \A k \in Callers : /\ Held(tx[k]) <=> mutex = k
                            /\ ~Held(tx[k]) => /\ tx[k].dirty = {}
                                               /\ tx[k].marked = {}
                                               /\ \A c \in Candidates : tx[k].sells[c] = {}

\* Copies of trades: a written one was entered by this round or keeps the day
\* of its row, an unwritten one is the row itself.
Copied(T, c) ==
    /\ T.sells[c] # {} => T.pc = "trades" /\ c \in T.dirty
    /\ \A l \in T.sells[c] : l.day > T.row[c].day
    /\ c \in T.dirty => T.row[c].state # "none"
    /\ c \in T.dirty /\ trade[c].state # "none" => T.row[c].day = trade[c].day
    /\ T.pc = "trades" /\ c \notin T.dirty => T.row[c] = trade[c]
    /\ T.pc = "trades" /\ c \in T.todo => T.row[c].state = "open"

\* Decisions: an entry is marked and has a trade in the same session, any
\* other decision is about a candidate without one.
Decided(T, c) ==
    /\ T.pc = "candidates" /\ c \in T.todo =>
          c \notin T.marked \union T.dirty /\ cand[c] # "absent" /\ trade[c].state = "none"
    /\ c \in T.marked =>
          /\ cand[c] # "absent"
          /\ T.seen[c] \in {"watching", "not_triggered", "entry_triggered"}
          /\ T.seen[c] = "entry_triggered" => c \in T.dirty
          /\ T.seen[c] # "entry_triggered" => c \notin T.dirty /\ trade[c].state = "none"
    /\ c \in T.dirty \ T.marked => trade[c].state # "none"

\* A candidate the job is about to create does not exist for anybody else.
Creates(c) ==
    rec.pc = "open" =>
        /\ c \in rec.todo /\ rec.seen[c] = "absent" => cand[c] = "absent"
        /\ c \in rec.marked => rec.seen[c] \in {"pending_confirmation", "cancelled"}
        /\ c \in rec.marked /\ rec.seen[c] = "pending_confirmation" => cand[c] = "absent"

Untraded(c) == trade[c].state = "none" => trade[c] = NoTrade /\ legs[c] = {}

RoundInv ==
    /\ Owned
    /\ \A c \in Candidates :
          /\ Untraded(c) /\ Creates(c)
          /\ \A k \in Callers : Copied(tx[k], c) /\ Decided(tx[k], c)

IInv == RoundInv /\ TPlusOne /\ EntryAtomic

LEMMA InitInv == Init => IInv
<1> SUFFICES ASSUME Init PROVE IInv
  OBVIOUS
<1>1. \A k \in Callers : /\ tx[k].pc = "idle" /\ tx[k].dirty = {} /\ tx[k].marked = {}
                         /\ \A c \in Candidates : tx[k].sells[c] = {}
  BY DEF Init, NoTx
<1>2. /\ rec.pc = "idle" /\ mutex = NoCaller
      /\ \A c \in Candidates : cand[c] = "absent" /\ trade[c] = NoTrade /\ legs[c] = {}
  BY DEF Init, NoRec
<1>3. Owned
  BY <1>1, <1>2 DEF Owned, Held
<1>4. \A c \in Candidates : Untraded(c) /\ Creates(c)
  BY <1>2 DEF Untraded, Creates
<1>5. \A c \in Candidates, k \in Callers : Copied(tx[k], c) /\ Decided(tx[k], c)
  BY <1>1 DEF Copied, Decided
<1>6. TPlusOne /\ EntryAtomic
  BY <1>2 DEF TPlusOne, EntryAtomic, NoTrade
<1> QED BY <1>3, <1>4, <1>5, <1>6 DEF IInv, RoundInv

\* A step that only replaces one session, by one that fits the rows.
LEMMA SessionKeeps ==
  ASSUME TypeInv, IInv, NEW k \in Callers, NEW T,
         tx' = [tx EXCEPT ![k] = T], UNCHANGED <<cand, trade, legs, rec>>,
         Held(T) <=> mutex' = k,
         \A o \in Callers \ {k} : mutex' = o <=> mutex = o,
         ~Held(T) => /\ T.dirty = {} /\ T.marked = {}
                     /\ \A c \in Candidates : T.sells[c] = {},
         \A c \in Candidates : Copied(T, c) /\ Decided(T, c)
  PROVE  IInv'
<1>1. \A o \in Callers : tx'[o] = IF o = k THEN T ELSE tx[o]
  BY DEF TypeInv, TypeOK
<1>2. Owned'
  BY <1>1 DEF IInv, RoundInv, Owned, Held
<1>3. \A c \in Candidates : Untraded(c)' /\ Creates(c)'
  BY DEF IInv, RoundInv, Untraded, Creates
<1>4. ASSUME NEW c \in Candidates, NEW o \in Callers
      PROVE  Copied(tx[o], c)' /\ Decided(tx[o], c)'
  <2>1. CASE o = k
    <3>1. tx'[o] = T /\ Copied(T, c) /\ Decided(T, c)
      BY <1>1, <2>1
    <3> QED BY <3>1 DEF Copied, Decided
  <2>2. CASE o # k
    <3>1. tx'[o] = tx[o] /\ Copied(tx[o], c) /\ Decided(tx[o], c)
      BY <1>1, <2>2 DEF IInv, RoundInv
    <3> QED BY <3>1 DEF Copied, Decided
  <2> QED BY <2>1, <2>2
<1>5. TPlusOne' /\ EntryAtomic'
  BY DEF IInv, TPlusOne, EntryAtomic
<1> QED BY <1>2, <1>3, <1>4, <1>5 DEF IInv, RoundInv

\* A step of the round that holds the lock and goes on.
LEMMA RoundKeeps ==
  ASSUME TypeInv, IInv, NEW k \in Callers, NEW T, Held(tx[k]), Held(T),
         tx' = [tx EXCEPT ![k] = T], UNCHANGED <<cand, trade, legs, mutex, rec>>,
         \A c \in Candidates : Copied(T, c) /\ Decided(T, c)
  PROVE  IInv'
<1>1. mutex = k
  BY DEF IInv, RoundInv, Owned
<1> QED BY <1>1, SessionKeeps

LEMMA SellKeeps ==
  ASSUME TypeInv, IInv, NEW k \in Callers, NEW c \in Candidates, NEW kind, NEW lots,
         Sell(k, c, kind, lots)
  PROVE  IInv'
<1> DEFINE row == tx[k].row[c]
           T == Sold(k, c, kind, lots)
<1>1. /\ tx[k] \in Tx /\ tx[k].pc = "trades" /\ c \in tx[k].todo
      /\ row.day < Day(tx[k].now)
  BY DEF Sell, Exiting, MayExit, TypeInv, TypeOK
<1>2. /\ T.pc = "trades" /\ T.todo = tx[k].todo \ {c} /\ T.dirty = tx[k].dirty \union {c}
      /\ T.marked = tx[k].marked /\ T.seen = tx[k].seen
      /\ \A d \in Candidates \ {c} : T.row[d] = tx[k].row[d] /\ T.sells[d] = tx[k].sells[d]
      /\ T.row[c] = Left(row, kind, lots)
      /\ T.sells[c] = tx[k].sells[c] \union {NewLeg(k, c, kind, lots)}
  BY <1>1 DEF Sold, Tx
<1>3. /\ NewLeg(k, c, kind, lots).day = Day(tx[k].now)
      /\ Left(row, kind, lots).day = row.day /\ Left(row, kind, lots).state # "none"
  <2>1. row \in Row
    BY <1>1 DEF Tx
  <2> QED BY <2>1 DEF NewLeg, Left, Row
<1>4. \A d \in Candidates : Copied(tx[k], d) /\ Decided(tx[k], d)
  BY DEF IInv, RoundInv
<1> HIDE DEF T
<1>5. ASSUME NEW d \in Candidates, d # c PROVE Copied(T, d) /\ Decided(T, d)
  BY <1>1, <1>2, <1>4, <1>5 DEF Copied, Decided
<1>6. c \in tx[k].dirty \/ (row = trade[c] /\ trade[c].state = "open")
  BY <1>1, <1>4 DEF Copied
<1>7. Copied(T, c)
  <2>1. \A l \in T.sells[c] : l.day > T.row[c].day
    BY <1>1, <1>2, <1>3, <1>4 DEF Copied
  <2>2. trade[c].state # "none" => T.row[c].day = trade[c].day
    BY <1>2, <1>3, <1>4, <1>6 DEF Copied
  <2> QED BY <1>2, <1>3, <2>1, <2>2 DEF Copied
<1>8. Decided(T, c)
  <2>1. tx[k].row[c].state = "open"
    BY <1>1, <1>4 DEF Copied
  <2> QED BY <1>1, <1>2, <1>4, <1>6, <2>1 DEF Copied, Decided
<1>9. /\ tx' = [tx EXCEPT ![k] = T]
      /\ UNCHANGED <<cand, trade, legs, mutex, rec>>
  BY DEF Sell, T
<1>10. \A d \in Candidates : Copied(T, d) /\ Decided(T, d)
  BY <1>5, <1>7, <1>8
<1>11. Held(tx[k]) /\ Held(T)
  BY <1>1, <1>2 DEF Held
<1> QED BY <1>9, <1>10, <1>11, RoundKeeps

\* Looking at a candidate and deciding it.
LEMMA DecideKeeps ==
  ASSUME TypeInv, IInv, NEW k \in Callers, NEW c \in Candidates, Deciding(k, c),
         NEW st \in {"watching", "not_triggered"},
         \/ tx' = [tx EXCEPT ![k] = Drop(k, c)]
         \/ tx' = [tx EXCEPT ![k] = Mark(k, c, st)]
         \/ tx' = [tx EXCEPT ![k] = Entered(k, c)],
         UNCHANGED <<cand, trade, legs, mutex, rec>>
  PROVE  IInv'
<1>1. tx[k] \in Tx /\ tx[k].pc = "candidates" /\ c \in tx[k].todo
  BY DEF Deciding, TypeInv, TypeOK
<1>2. \A d \in Candidates : Copied(tx[k], d) /\ Decided(tx[k], d)
  BY DEF IInv, RoundInv
<1>3. Held(tx[k])
  BY <1>1 DEF Held
<1>4. ASSUME NEW T, T.pc = "candidates", T.todo = tx[k].todo \ {c},
             T.sells = tx[k].sells, UNCHANGED <<cand, trade, legs, mutex, rec>>,
             tx' = [tx EXCEPT ![k] = T],
             \A d \in Candidates \ {c} :
                /\ T.row[d] = tx[k].row[d] /\ T.seen[d] = tx[k].seen[d]
                /\ d \in T.marked <=> d \in tx[k].marked
                /\ d \in T.dirty <=> d \in tx[k].dirty,
             \/ c \notin T.marked \union T.dirty
             \/ c \in T.marked \ T.dirty /\ T.seen[c] \in {"watching", "not_triggered"}
             \/ /\ c \in T.marked \intersect T.dirty /\ T.seen[c] = "entry_triggered"
                /\ T.row[c].state = "open"
      PROVE  IInv'
  <2>1. ASSUME NEW d \in Candidates, d # c PROVE Copied(T, d) /\ Decided(T, d)
    BY <1>1, <1>2, <1>4, <2>1 DEF Copied, Decided
  <2>2. cand[c] # "absent" /\ trade[c].state = "none" /\ T.sells[c] = {}
    BY <1>1, <1>2, <1>4 DEF Copied, Decided
  <2>3. Copied(T, c) /\ Decided(T, c)
    BY <1>4, <2>2 DEF Copied, Decided
  <2>4. Held(T)
    BY <1>4 DEF Held
  <2>5. \A d \in Candidates : Copied(T, d) /\ Decided(T, d)
    BY <2>1, <2>3
  <2> QED BY <1>3, <1>4, <2>4, <2>5, RoundKeeps
<1>5. c \notin tx[k].marked \union tx[k].dirty
  BY <1>1, <1>2 DEF Decided
<1>6. CASE tx' = [tx EXCEPT ![k] = Drop(k, c)]
  <2> DEFINE T == Drop(k, c)
  <2>1. /\ T.pc = "candidates" /\ T.todo = tx[k].todo \ {c} /\ T.sells = tx[k].sells
        /\ T.row = tx[k].row /\ T.seen = tx[k].seen
        /\ T.marked = tx[k].marked /\ T.dirty = tx[k].dirty
    BY <1>1 DEF Drop, Tx
  <2> HIDE DEF T
  <2> QED BY <1>4, <1>5, <1>6, <2>1 DEF T
<1>7. CASE tx' = [tx EXCEPT ![k] = Mark(k, c, st)]
  <2> DEFINE T == Mark(k, c, st)
  <2>1. /\ T.pc = "candidates" /\ T.todo = tx[k].todo \ {c} /\ T.sells = tx[k].sells
        /\ T.row = tx[k].row /\ T.marked = tx[k].marked \union {c}
        /\ T.dirty = tx[k].dirty /\ T.seen[c] = st
        /\ \A d \in Candidates \ {c} : T.seen[d] = tx[k].seen[d]
    BY <1>1 DEF Mark, Tx
  <2> HIDE DEF T
  <2> QED BY <1>4, <1>5, <1>7, <2>1 DEF T
<1>8. CASE tx' = [tx EXCEPT ![k] = Entered(k, c)]
  <2> DEFINE M == Mark(k, c, "entry_triggered")
             T == Entered(k, c)
  <2>1. /\ M.pc = "candidates" /\ M.todo = tx[k].todo \ {c} /\ M.sells = tx[k].sells
        /\ M.row = tx[k].row /\ M.marked = tx[k].marked \union {c}
        /\ M.dirty = tx[k].dirty /\ M.seen[c] = "entry_triggered"
        /\ \A d \in Candidates \ {c} : M.seen[d] = tx[k].seen[d]
    BY <1>1 DEF Mark, Tx
  <2>2. M \in Tx
    BY <1>1, MarkType DEF Status
  <2>3. T = [M EXCEPT !.dirty = @ \union {c}, !.row[c] = Bought(k)]
    BY DEF Entered
  <2> HIDE DEF M
  <2>4. /\ T.pc = "candidates" /\ T.todo = tx[k].todo \ {c} /\ T.sells = tx[k].sells
        /\ T.marked = tx[k].marked \union {c} /\ T.dirty = tx[k].dirty \union {c}
        /\ T.seen = M.seen /\ T.row[c] = Bought(k)
        /\ \A d \in Candidates \ {c} : T.row[d] = tx[k].row[d]
    BY <1>1, <2>1, <2>2, <2>3 DEF Tx
  <2>5. Bought(k).state = "open"
    BY DEF Bought
  <2>6. tx' = [tx EXCEPT ![k] = T]
    BY <1>8
  <2> HIDE DEF T
  <2>7. \A d \in Candidates \ {c} :
           /\ T.row[d] = tx[k].row[d] /\ T.seen[d] = tx[k].seen[d]
           /\ d \in T.marked <=> d \in tx[k].marked
           /\ d \in T.dirty <=> d \in tx[k].dirty
    BY <2>1, <2>4
  <2>8. /\ c \in T.marked \intersect T.dirty /\ T.seen[c] = "entry_triggered"
        /\ T.row[c].state = "open"
    BY <2>1, <2>4, <2>5
  <2> QED BY <1>4, <2>4, <2>6, <2>7, <2>8
<1> QED BY <1>6, <1>7, <1>8

LEMMA CommitKeeps ==
  ASSUME TypeInv, IInv, NEW k \in Callers, Commit(k)
  PROVE  IInv'
<1>1. mutex = k /\ mutex' = NoCaller /\ rec' = rec /\ tx[k].pc = "trades"
  BY DEF Commit, IInv, RoundInv, Owned, Held
<1>2. \A o \in Callers : tx'[o] = IF o = k THEN NoTx ELSE tx[o]
  BY DEF Commit, TypeInv, TypeOK
<1>3. \A o \in Callers :
         /\ ~Held(tx'[o])
         /\ tx'[o].dirty = {} /\ tx'[o].marked = {}
         /\ \A c \in Candidates : tx'[o].sells[c] = {}
  BY <1>1, <1>2 DEF IInv, RoundInv, Owned, Held, NoTx
<1>4. Owned'
  BY <1>1, <1>3 DEF Owned, Held
<1>5. \A c \in Candidates, o \in Callers : Copied(tx[o], c)' /\ Decided(tx[o], c)'
  BY <1>3 DEF Copied, Decided, Held
<1>6. ASSUME NEW c \in Candidates
      PROVE  /\ cand'[c] = IF c \in tx[k].marked THEN tx[k].seen[c] ELSE cand[c]
             /\ trade'[c] = IF c \in tx[k].dirty THEN tx[k].row[c] ELSE trade[c]
             /\ legs'[c] = legs[c] \union tx[k].sells[c]
  BY DEF Commit
<1>7. \A c \in Candidates : /\ Copied(tx[k], c) /\ Decided(tx[k], c)
                            /\ Untraded(c) /\ Creates(c)
  BY DEF IInv, RoundInv
<1>8. ASSUME NEW c \in Candidates PROVE Untraded(c)' /\ Creates(c)'
  BY <1>1, <1>6, <1>7 DEF Untraded, Creates, Copied, Decided
<1>9. TPlusOne'
  <2> SUFFICES ASSUME NEW c \in Candidates, NEW l \in legs'[c]
               PROVE  l.day > trade'[c].day
    BY DEF TPlusOne
  <2>1. CASE l \in legs[c]
    <3>1. l.day > trade[c].day /\ trade[c].state # "none"
      BY <1>7, <2>1 DEF Untraded, IInv, TPlusOne
    <3> QED BY <1>6, <1>7, <3>1 DEF Copied
  <2>2. CASE l \in tx[k].sells[c]
    BY <1>6, <1>7, <2>2 DEF Copied
  <2> QED BY <1>6, <2>1, <2>2
<1>10. EntryAtomic'
  <2> SUFFICES ASSUME NEW c \in Candidates
      PROVE /\ cand'[c] = "entry_triggered" => trade'[c].state # "none"
            /\ trade'[c].state # "none" =>
                  cand'[c] \notin Waiting \union {"absent", "not_triggered"}
    BY DEF EntryAtomic
  <2>1. /\ cand[c] = "entry_triggered" => trade[c].state # "none"
        /\ trade[c].state # "none" =>
              cand[c] \notin Waiting \union {"absent", "not_triggered"}
    BY DEF IInv, EntryAtomic
  <2> QED BY <1>6, <1>7, <2>1 DEF Copied, Decided, Waiting
<1> QED BY <1>4, <1>5, <1>8, <1>9, <1>10 DEF IInv, RoundInv

LEMMA NextInv == TypeInv /\ IInv /\ [Next]_vars => IInv'
<1> SUFFICES ASSUME TypeInv, IInv, [Next]_vars PROVE IInv'
  OBVIOUS
<1>0. \A k \in Callers : tx[k] \in Tx
  BY DEF TypeInv, TypeOK
<1>1. ASSUME NEW k \in Callers, NEW T, tx[k].pc \in {"idle", "called"} \/ ~Held(T),
             T.dirty = {}, T.marked = {}, \A c \in Candidates : T.sells[c] = {},
             \A c \in Candidates : T.pc = "candidates" /\ c \in T.todo =>
                cand[c] # "absent" /\ trade[c].state = "none",
             T.pc # "trades", tx' = [tx EXCEPT ![k] = T],
             UNCHANGED <<cand, trade, legs, rec>>,
             Held(T) <=> mutex' = k, \A o \in Callers \ {k} : mutex' = o <=> mutex = o
      PROVE  IInv'
  <2>1. \A c \in Candidates : Copied(T, c) /\ Decided(T, c)
    BY <1>1 DEF Copied, Decided
  <2> QED BY <1>1, <2>1, SessionKeeps
<1>2. ASSUME NEW k \in Callers, Call(k) PROVE IInv'
  <2> DEFINE T == [NoTx EXCEPT !.pc = "called", !.now = clock]
  <2>1. /\ T.pc = "called" /\ T.dirty = {} /\ T.marked = {}
        /\ \A c \in Candidates : T.sells[c] = {}
    BY DEF NoTx
  <2>2. /\ tx[k].pc = "idle" /\ tx' = [tx EXCEPT ![k] = T]
        /\ UNCHANGED <<cand, trade, legs, mutex, rec>>
    BY <1>2 DEF Call
  <2> HIDE DEF T
  <2>3. ~Held(T) /\ mutex # k
    BY <2>1, <2>2 DEF Held, IInv, RoundInv, Owned
  <2> QED BY <1>1, <2>1, <2>2, <2>3
<1>3. ASSUME NEW k \in Callers, Begin(k) PROVE IInv'
  <2> DEFINE T == Listed(k)
  <2>1. /\ tx[k].pc = "called" /\ mutex = NoCaller /\ mutex' = k
        /\ tx' = [tx EXCEPT ![k] = T] /\ UNCHANGED <<cand, trade, legs, rec>>
    BY <1>3 DEF Begin, Listing
  <2>2. /\ T.pc = "candidates" /\ T.dirty = tx[k].dirty /\ T.marked = tx[k].marked
        /\ T.sells = tx[k].sells /\ T.todo = Runtime(k)
    BY <1>0 DEF Listed, Tx
  <2>3. /\ T.dirty = {} /\ T.marked = {}
        /\ \A c \in Candidates : T.sells[c] = {}
    BY <2>1, <2>2 DEF IInv, RoundInv, Owned, Held
  <2>4. \A c \in Candidates : c \in Runtime(k) =>
           cand[c] # "absent" /\ trade[c].state = "none"
    BY DEF Runtime, Waiting, IInv, EntryAtomic
  <2> HIDE DEF T
  <2>5. Held(T)
    BY <2>2 DEF Held
  <2>6. \A o \in Callers \ {k} : mutex' = o <=> mutex = o
    BY <2>1
  <2>7. T.pc # "trades" /\ \A c \in Candidates :
           T.pc = "candidates" /\ c \in T.todo => cand[c] # "absent" /\ trade[c].state = "none"
    BY <2>2, <2>4
  <2>8. (Held(T) <=> mutex' = k) /\ tx[k].pc \in {"idle", "called"}
    BY <2>1, <2>5
  <2> QED BY <1>1, <2>1, <2>3, <2>6, <2>7, <2>8
<1>4. ASSUME NEW k \in Callers, Abort(k) PROVE IInv'
  <2>1. NoTx.pc = "idle" /\ NoTx.dirty = {} /\ NoTx.marked = {}
    BY DEF NoTx
  <2>2. ~Held(NoTx)
    BY <2>1 DEF Held
  <2>3. /\ mutex' = IF mutex = k THEN NoCaller ELSE mutex
        /\ tx' = [tx EXCEPT ![k] = NoTx] /\ UNCHANGED <<cand, trade, legs, rec>>
    BY <1>4 DEF Abort
  <2>4. mutex' # k /\ \A o \in Callers \ {k} : mutex' = o <=> mutex = o
    BY <2>3
  <2> QED BY <1>1, <2>1, <2>2, <2>3, <2>4, NoTxType
<1>5. ASSUME NEW k \in Callers, ListOpen(k) PROVE IInv'
  <2> DEFINE T == Opened(k)
  <2>1. /\ tx[k].pc = "candidates" /\ tx' = [tx EXCEPT ![k] = T]
        /\ UNCHANGED <<cand, trade, legs, mutex, rec>>
    BY <1>5 DEF ListOpen
  <2>2. /\ T.pc = "trades" /\ T.dirty = tx[k].dirty /\ T.marked = tx[k].marked
        /\ T.sells = tx[k].sells /\ T.seen = tx[k].seen
        /\ T.row = Seen(k) /\ T.todo = Open(k)
    BY <1>0 DEF Opened, Tx
  <2>3. \A c \in Candidates :
          /\ Seen(k)[c] = IF c \in tx[k].dirty THEN tx[k].row[c] ELSE trade[c]
          /\ c \in Open(k) => Seen(k)[c].state = "open"
    BY DEF Seen, Open
  <2>4. \A c \in Candidates : Copied(tx[k], c) /\ Decided(tx[k], c)
    BY DEF IInv, RoundInv
  <2> HIDE DEF T
  <2>5. \A c \in Candidates : Copied(T, c) /\ Decided(T, c)
    BY <2>1, <2>2, <2>3, <2>4 DEF Copied, Decided
  <2>6. Held(tx[k]) /\ Held(T)
    BY <2>1, <2>2 DEF Held
  <2> QED BY <2>1, <2>5, <2>6, RoundKeeps
<1>6. ASSUME NEW k \in Callers, NEW c \in Candidates,
             Pass(k, c) \/ Watch(k, c) \/ Reject(k, c) \/ Enter(k, c)
      PROVE  IInv'
  BY <1>6, DecideKeeps DEF Pass, Watch, Reject, Enter
<1>7. ASSUME NEW k \in Callers, NEW c \in Candidates, Hold(k, c) PROVE IInv'
  <2> DEFINE T == Drop(k, c)
  <2>1. /\ tx[k].pc = "trades" /\ tx' = [tx EXCEPT ![k] = T]
        /\ UNCHANGED <<cand, trade, legs, mutex, rec>>
    BY <1>7 DEF Hold, Exiting
  <2>2. /\ T.pc = "trades" /\ T.dirty = tx[k].dirty /\ T.marked = tx[k].marked
        /\ T.sells = tx[k].sells /\ T.seen = tx[k].seen /\ T.row = tx[k].row
        /\ T.todo \subseteq tx[k].todo
    BY <1>0, <2>1 DEF Drop, Tx
  <2>3. \A d \in Candidates : Copied(tx[k], d) /\ Decided(tx[k], d)
    BY DEF IInv, RoundInv
  <2> HIDE DEF T
  <2>4. \A d \in Candidates : Copied(T, d) /\ Decided(T, d)
    BY <2>1, <2>2, <2>3 DEF Copied, Decided
  <2>5. Held(tx[k]) /\ Held(T)
    BY <2>1, <2>2 DEF Held
  <2> QED BY <2>1, <2>4, <2>5, RoundKeeps
<1>8. ASSUME NEW k \in Callers, NEW c \in Candidates, SellAll(k, c) \/ SellLeg(k, c)
      PROVE  IInv'
  BY <1>8, SellKeeps DEF SellAll, SellLeg
<1>9. ASSUME UNCHANGED <<trade, legs, mutex, tx>>,
             \A c \in Candidates : \/ cand'[c] = cand[c]
                                   \/ cand'[c] = "cancelled"
                                   \/ /\ cand[c] = "absent"
                                      /\ cand'[c] = "pending_confirmation",
             \A c \in Candidates : Creates(c)'
      PROVE  IInv'
  <2>1. \A c \in Candidates, k \in Callers : Copied(tx[k], c)'
    BY <1>9 DEF IInv, RoundInv, Copied
  <2>2. \A c \in Candidates, k \in Callers : Decided(tx[k], c)'
    BY <1>9 DEF IInv, RoundInv, Decided
  <2>3. Owned' /\ \A c \in Candidates : Untraded(c)'
    BY <1>9 DEF IInv, RoundInv, Owned, Held, Untraded
  <2>4. TPlusOne' /\ EntryAtomic'
    BY <1>9 DEF IInv, TPlusOne, EntryAtomic, Waiting
  <2> QED BY <1>9, <2>1, <2>2, <2>3, <2>4 DEF IInv, RoundInv
<1>10. CASE Reconcile
  <2>0. rec \in Rec /\ \A c \in Candidates : Creates(c)
    BY DEF TypeInv, TypeOK, IInv, RoundInv
  <2>1. CASE RecBegin
    BY <1>9, <2>1 DEF RecBegin, NoRec, Creates
  <2>2. CASE RecCommit
    BY <1>9, <2>0, <2>2 DEF RecCommit, NoRec, Creates
  <2>3. CASE RecAbort
    BY <1>9, <2>3 DEF RecAbort, NoRec, Creates
  <2>4. ASSUME NEW c \in Candidates, RecKeep(c) PROVE IInv'
    <3>1. \A d \in Candidates : Creates(d)'
      BY <2>0, <2>4 DEF RecKeep, Rec, Creates
    <3> QED BY <1>9, <2>4, <3>1 DEF RecKeep
  <2>5. ASSUME NEW c \in Candidates, RecCreate(c) \/ RecCancel(c) PROVE IInv'
    <3>1. PICK st \in {"pending_confirmation", "cancelled"} :
            /\ rec.pc = "open" /\ c \in rec.todo
            /\ st = "pending_confirmation" => rec.seen[c] = "absent"
            /\ rec' = [rec EXCEPT !.todo = @ \ {c}, !.marked = @ \union {c},
                                  !.seen[c] = st]
            /\ UNCHANGED <<cand, trade, legs, mutex, tx>>
      BY <2>5 DEF RecCreate, RecCancel, RecMark
    <3>2. /\ rec'.pc = "open" /\ rec'.todo = rec.todo \ {c}
          /\ rec'.marked = rec.marked \union {c} /\ rec'.seen[c] = st
          /\ \A d \in Candidates \ {c} : rec'.seen[d] = rec.seen[d]
      BY <2>0, <3>1 DEF Rec
    <3>3. \A d \in Candidates : Creates(d)'
      BY <2>0, <3>1, <3>2 DEF Creates
    <3> QED BY <1>9, <3>1, <3>3
  <2> QED BY <1>10, <2>1, <2>2, <2>3, <2>4, <2>5 DEF Reconcile
<1>11. CASE Tick \/ Republish \/ UNCHANGED vars
  <2>1. UNCHANGED <<cand, trade, legs, mutex, tx, rec>>
    BY <1>11 DEF Tick, Republish, vars
  <2>2. \A c \in Candidates : Creates(c)'
    BY <2>1 DEF IInv, RoundInv, Creates
  <2> QED BY <1>9, <2>1, <2>2
<1>12. ASSUME NEW k \in Callers, Commit(k) PROVE IInv'
  BY <1>12, CommitKeeps
<1> QED BY <1>2, <1>3, <1>4, <1>5, <1>6, <1>7, <1>8, <1>10, <1>11, <1>12 DEF Next, Round

LEMMA Invariant == Spec => [](TypeInv /\ IInv)
BY InitType, NextType, InitInv, NextInv, PTL DEF Spec

\* No share bought on a day is sold on that day (_process_open_trade), for
\* every number of concurrent blocks and candidates.
THEOREM SellsAreTPlusOne == Spec => []TPlusOne
<1>1. IInv => TPlusOne
  BY DEF IInv
<1> QED BY <1>1, Invariant, PTL

\* An entry and the decision of its candidate are committed together or not
\* at all (_process_candidate, process), wherever a round or the nightly job
\* fails.
THEOREM EntriesAreAtomic == Spec => []EntryAtomic
<1>1. IInv => EntryAtomic
  BY DEF IInv
<1> QED BY <1>1, Invariant, PTL

-----------------------------------------------------------------------------
(* LotsOf adds up.  MapThenSumSet is the solution CHOOSE picks for a        *)
(* recursive equation over the subsets of its set: the shares of the legs,  *)
(* counted one by one, are a solution, and it has no other.                 *)

\* A set of naturals has a least element.
LEMMA LeastNat ==
  ASSUME NEW S \in SUBSET Nat, S # {}
  PROVE  \E n \in S : \A m \in S : n <= m
<1> DEFINE R == {p \in Nat \X Nat : p[1] < p[2]}
<1>1. IsWellFoundedOn(R, Nat)
  BY NatLessThanWellFounded DEF OpToRel
<1> HIDE DEF R
<1>2. PICK n \in S : \A m \in S : <<m, n>> \notin R
  BY <1>1, WFMin
<1>3. \A m \in S : ~(m < n)
  BY <1>2 DEF R
<1> QED BY <1>3

\* The lots of a set of legs, one by one.
Shares(ls) == UNION {{l} \X (1 .. l.lots) : l \in ls}

LEMMA UpTo ==
  ASSUME NEW n \in Nat PROVE IsFiniteSet(1 .. n) /\ Cardinality(1 .. n) = n
<1>1. 1 \in Int /\ n \in Int
  OBVIOUS
<1>2. IsFiniteSet(1 .. n) /\ Cardinality(1 .. n) = IF 1 > n THEN 0 ELSE n - 1 + 1
  BY <1>1, FS_Interval
<1> QED BY <1>2

LEMMA SharesFinite ==
  ASSUME NEW ls \in SUBSET Leg, IsFiniteSet(ls)
  PROVE  IsFiniteSet(Shares(ls)) /\ Cardinality(Shares(ls)) \in Nat
<1> DEFINE P == {{l} \X (1 .. l.lots) : l \in ls}
           f == [l \in ls |-> {l} \X (1 .. l.lots)]
<1>1. f \in Surjection(ls, P)
  BY DEF Surjection
<1>2. IsFiniteSet(P)
  <2> HIDE DEF f, P
  <2> QED BY <1>1, FS_Surjection
<1>3. ASSUME NEW T \in P PROVE IsFiniteSet(T)
  <2>1. PICK l \in ls : T = {l} \X (1 .. l.lots)
    BY <1>3
  <2>2. l.lots \in Nat
    BY DEF Leg
  <2>3. IsFiniteSet(1 .. l.lots)
    BY <2>2, UpTo
  <2>4. IsFiniteSet({l})
    BY FS_Singleton
  <2> QED BY <2>1, <2>3, <2>4, FS_Product
<1> HIDE DEF P
<1>4. IsFiniteSet(UNION P)
  BY <1>2, <1>3, FS_UNION
<1>5. UNION P = Shares(ls)
  BY DEF P, Shares
<1> QED BY <1>4, <1>5, FS_CardinalityType

LEMMA SharesAdd ==
  ASSUME NEW ls \in SUBSET Leg, IsFiniteSet(ls), NEW m \in Leg, m \notin ls
  PROVE  Cardinality(Shares(ls \union {m})) = Cardinality(Shares(ls)) + m.lots
<1> DEFINE A == Shares(ls)
           B == {m} \X (1 .. m.lots)
<1>1. IsFiniteSet(A) /\ Cardinality(A) \in Nat
  BY SharesFinite
<1>2. m.lots \in Nat
  BY DEF Leg
<1>3. IsFiniteSet(B) /\ Cardinality(B) = m.lots
  <2>1. IsFiniteSet(1 .. m.lots) /\ Cardinality(1 .. m.lots) = m.lots
    BY <1>2, UpTo
  <2>2. IsFiniteSet({m}) /\ Cardinality({m}) = 1
    BY FS_Singleton
  <2>3. IsFiniteSet(B) /\ Cardinality(B) = 1 * m.lots
    BY <2>1, <2>2, FS_Product
  <2>4. PICK n \in Nat : n = m.lots
    BY <1>2
  <2>5. 1 * n = n
    OBVIOUS
  <2> HIDE DEF B
  <2> QED BY <2>3, <2>4, <2>5
<1>4. A \intersect B = {}
  BY DEF Shares
<1>5. Shares(ls \union {m}) = A \union B
  BY DEF Shares
<1> HIDE DEF A, B
<1>6. Cardinality(A \union B) = Cardinality(A) + Cardinality(B) - Cardinality({})
  BY <1>1, <1>3, <1>4, FS_Union
<1>7. Cardinality({}) = 0
  BY FS_EmptySet
<1>8. Cardinality(A \union B) = Cardinality(A) + m.lots
  BY <1>1, <1>2, <1>3, <1>6, <1>7
<1> QED BY <1>5, <1>8 DEF A

LEMMA SharesOfNone == Cardinality(Shares({})) = 0
<1>1. Shares({}) = {}
  BY DEF Shares
<1> QED BY <1>1, FS_EmptySet

\* The equation MapThenSumSet solves, for a candidate f.
Picked(s) == CHOOSE x \in s : TRUE
Summed(f, S) ==
  f = [s \in SUBSET S |-> IF s = {} THEN 0 ELSE Picked(s).lots + f[s \ {Picked(s)}]]

LEMMA LotsOfChoice ==
  ASSUME NEW S PROVE LotsOf(S) = (CHOOSE f : Summed(f, S))[S]
BY DEF LotsOf, Summed, Picked, MapThenSumSet, MapThenFoldSet

LEMMA LotsOfShares ==
  ASSUME NEW S \in SUBSET Leg, IsFiniteSet(S)
  PROVE  LotsOf(S) = Cardinality(Shares(S))
<1> DEFINE g == [s \in SUBSET S |-> Cardinality(Shares(s))]
<1>1. ASSUME NEW s \in SUBSET S, s # {}
      PROVE  /\ Picked(s) \in s /\ s \ {Picked(s)} \in SUBSET S
             /\ IsFiniteSet(s) /\ Picked(s).lots \in Nat
             /\ Cardinality(s \ {Picked(s)}) < Cardinality(s)
             /\ Cardinality(s) \in Nat /\ Cardinality(s \ {Picked(s)}) \in Nat
             /\ Cardinality(Shares(s)) =
                   Picked(s).lots + Cardinality(Shares(s \ {Picked(s)}))
  <2> DEFINE x == Picked(s)
             r == s \ {x}
  <2>1. x \in s
    BY <1>1 DEF Picked
  <2> HIDE DEF x
  <2>2. IsFiniteSet(s) /\ IsFiniteSet(r)
    BY FS_Subset
  <2>3. x \in Leg /\ r \in SUBSET Leg /\ x \notin r /\ s = r \union {x}
    BY <2>1
  <2>4. x.lots \in Nat
    BY <2>3 DEF Leg
  <2>5. Cardinality(r) \in Nat /\ Cardinality(s) = Cardinality(r) + 1
    <3> HIDE DEF r
    <3> QED BY <2>2, <2>3, FS_AddElement, FS_CardinalityType
  <2>6. Cardinality(Shares(s)) = Cardinality(Shares(r)) + x.lots
    <3> HIDE DEF r
    <3> QED BY <2>2, <2>3, SharesAdd
  <2>7. Cardinality(Shares(r)) \in Nat
    BY <2>2, <2>3, SharesFinite
  <2> HIDE DEF r
  <2>8. /\ Cardinality(r) < Cardinality(s) /\ Cardinality(s) \in Nat
        /\ Cardinality(Shares(s)) = x.lots + Cardinality(Shares(r))
    BY <2>4, <2>5, <2>6, <2>7
  <2> QED BY <2>1, <2>2, <2>4, <2>5, <2>8 DEF r, x
<1>2. Summed(g, S)
  <2>1. ASSUME NEW s \in SUBSET S
        PROVE  g[s] = IF s = {} THEN 0 ELSE Picked(s).lots + g[s \ {Picked(s)}]
    <3>1. CASE s = {}
      BY <3>1, SharesOfNone
    <3>2. CASE s # {}
      <4>1. /\ s \ {Picked(s)} \in SUBSET S
            /\ Cardinality(Shares(s)) =
                  Picked(s).lots + Cardinality(Shares(s \ {Picked(s)}))
        BY <3>2, <1>1
      <4>2. g[s \ {Picked(s)}] = Cardinality(Shares(s \ {Picked(s)}))
        BY <4>1
      <4> QED BY <3>2, <4>1, <4>2
    <3> QED BY <3>1, <3>2
  <2> QED BY <2>1 DEF Summed
<1>3. ASSUME NEW f, Summed(f, S), f[S] # g[S] PROVE FALSE
  <2> DEFINE W == {n \in Nat : \E s \in SUBSET S : Cardinality(s) = n /\ f[s] # g[s]}
  <2>1. Cardinality(S) \in W
    BY <1>3, FS_CardinalityType
  <2>2. PICK n \in W : \A m \in W : n <= m
    <3>1. W \in SUBSET Nat /\ W # {}
      BY <2>1
    <3> HIDE DEF W
    <3> QED BY <3>1, LeastNat
  <2>3. PICK s \in SUBSET S : Cardinality(s) = n /\ f[s] # g[s]
    BY <2>2
  <2> HIDE DEF g
  <2>4. f[s] = IF s = {} THEN 0 ELSE Picked(s).lots + f[s \ {Picked(s)}]
    BY <1>3 DEF Summed
  <2>5. g[s] = IF s = {} THEN 0 ELSE Picked(s).lots + g[s \ {Picked(s)}]
    BY <1>2 DEF Summed
  <2>6. s # {} /\ f[s \ {Picked(s)}] # g[s \ {Picked(s)}]
    BY <2>3, <2>4, <2>5
  <2> DEFINE r == s \ {Picked(s)}
  <2>7. r \in SUBSET S /\ Cardinality(r) \in Nat /\ Cardinality(r) < n /\ n \in Nat
    BY <1>1, <2>3, <2>6
  <2>8. Cardinality(r) \in W
    BY <2>6, <2>7
  <2> HIDE DEF r, W
  <2> QED BY <2>2, <2>7, <2>8
<1> DEFINE h == CHOOSE f : Summed(f, S)
<1> HIDE DEF g
<1>4. Summed(h, S)
  BY <1>2
<1>5. LotsOf(S) = h[S]
  BY LotsOfChoice
<1> HIDE DEF h
<1>6. LotsOf(S) = g[S]
  BY <1>3, <1>4, <1>5
<1> QED BY <1>6 DEF g

LEMMA LotsOfNone == LotsOf({}) = 0
BY LotsOfShares, SharesOfNone, FS_EmptySet

LEMMA LotsOfAdd ==
  ASSUME NEW ls \in SUBSET Leg, IsFiniteSet(ls), NEW m \in Leg, m \notin ls
  PROVE  LotsOf(ls \union {m}) = LotsOf(ls) + m.lots
<1>1. IsFiniteSet(ls \union {m})
  BY FS_AddElement
<1> QED BY <1>1, LotsOfShares, SharesAdd

LEMMA LotsOfNat ==
  ASSUME NEW ls \in SUBSET Leg, IsFiniteSet(ls) PROVE LotsOf(ls) \in Nat
BY LotsOfShares, SharesFinite

-----------------------------------------------------------------------------
(* LegsAccount.  Beside the rows and legs that are committed, the copy of a *)
(* row a round has written has to account for the legs it has added, and    *)
(* their numbers (a leg's `no` is counted, not drawn) tell them apart from  *)
(* all the earlier ones.                                                    *)

Balanced(row, ls) ==
    row.state # "none" => /\ row.open + LotsOf(ls) = Quantity
                          /\ row.state = "closed" <=> row.open = 0

Numbered(ls) == \A l \in ls : l.no <= 1 + Cardinality(ls)

Accounted(T, c) ==
    /\ Numbered(legs[c] \union T.sells[c])
    /\ c \in T.dirty => Balanced(T.row[c], legs[c] \union T.sells[c])

AccountInv ==
    \A c \in Candidates : /\ Balanced(trade[c], legs[c]) /\ Numbered(legs[c])
                          /\ \A k \in Callers : Accounted(tx[k], c)

LEMMA InitAccount == Init => AccountInv
<1> SUFFICES ASSUME Init PROVE AccountInv
  OBVIOUS
<1>1. ASSUME NEW c \in Candidates
      PROVE  trade[c].state = "none" /\ legs[c] = {}
  BY DEF Init, NoTrade
<1>2. ASSUME NEW c \in Candidates, NEW k \in Callers
      PROVE  tx[k].sells[c] = {} /\ tx[k].dirty = {}
  BY DEF Init, NoTx
<1> QED BY <1>1, <1>2 DEF AccountInv, Balanced, Numbered, Accounted

\* A step that only replaces one session, by one that accounts for its legs.
LEMMA SessionAccounts ==
  ASSUME TypeInv, AccountInv, NEW k \in Callers, NEW T,
         tx' = [tx EXCEPT ![k] = T], UNCHANGED <<trade, legs>>,
         \A c \in Candidates : Accounted(T, c)
  PROVE  AccountInv'
<1>1. \A o \in Callers : tx'[o] = IF o = k THEN T ELSE tx[o]
  BY DEF TypeInv, TypeOK
<1>2. ASSUME NEW c \in Candidates, NEW o \in Callers PROVE Accounted(tx[o], c)'
  <2>1. Accounted(T, c) /\ Accounted(tx[o], c)
    BY DEF AccountInv
  <2> QED BY <1>1, <2>1 DEF Accounted, Balanced, Numbered
<1>3. ASSUME NEW c \in Candidates PROVE (Balanced(trade[c], legs[c]) /\ Numbered(legs[c]))'
  BY DEF AccountInv, Balanced, Numbered
<1> QED BY <1>2, <1>3 DEF AccountInv

\* The sessions that have added no leg to their written rows.
LEMMA UnsoldAccounts ==
  ASSUME AccountInv, NEW k \in Callers, NEW T,
         T.sells = tx[k].sells, T.dirty = tx[k].dirty,
         \A c \in T.dirty : T.row[c] = tx[k].row[c]
  PROVE  \A c \in Candidates : Accounted(T, c)
BY DEF AccountInv, Accounted

LEMMA UnusedAccounts ==
  ASSUME AccountInv, NEW T, T.dirty = {}, \A c \in Candidates : T.sells[c] = {}
  PROVE  \A c \in Candidates : Accounted(T, c)
BY DEF AccountInv, Accounted

\* A purchase: the row is new and has no legs.
LEMMA EnterAccounts ==
  ASSUME TypeInv, IInv, AccountInv, NEW k \in Callers, NEW c \in Candidates, Enter(k, c)
  PROVE  AccountInv'
<1> DEFINE M == Mark(k, c, "entry_triggered")
           T == Entered(k, c)
<1>1. tx[k] \in Tx /\ tx[k].pc = "candidates" /\ trade[c] = NoTrade
  BY DEF Enter, Deciding, TypeInv, TypeOK
<1>2. legs[c] = {} /\ tx[k].sells[c] = {}
  <2>1. Untraded(c) /\ Copied(tx[k], c)
    BY DEF IInv, RoundInv
  <2> QED BY <1>1, <2>1 DEF Untraded, Copied, NoTrade
<1>3. M \in Tx /\ M.row = tx[k].row /\ M.dirty = tx[k].dirty /\ M.sells = tx[k].sells
  <2>1. "entry_triggered" \in Status
    BY DEF Status
  <2>2. M \in Tx
    BY <1>1, <2>1, MarkType
  <2>3. M.row = tx[k].row /\ M.dirty = tx[k].dirty /\ M.sells = tx[k].sells
    BY <1>1 DEF Mark, Tx
  <2> QED BY <2>2, <2>3
<1>4. T = [M EXCEPT !.dirty = @ \union {c}, !.row[c] = Bought(k)]
  BY DEF Entered
<1> HIDE DEF M
<1>5. /\ T.sells = tx[k].sells /\ T.dirty = tx[k].dirty \union {c} /\ T.row[c] = Bought(k)
      /\ \A d \in Candidates \ {c} : T.row[d] = tx[k].row[d]
  BY <1>1, <1>3, <1>4 DEF Tx
<1>6. tx' = [tx EXCEPT ![k] = T] /\ UNCHANGED <<trade, legs>>
  BY DEF Enter
<1> HIDE DEF T
<1>7. Accounted(T, c)
  <2>1. Balanced(Bought(k), {})
    BY LotsOfNone DEF Bought, Balanced
  <2>2. Numbered({})
    BY DEF Numbered
  <2> QED BY <1>2, <1>5, <2>1, <2>2 DEF Accounted
<1>8. ASSUME NEW d \in Candidates, d # c PROVE Accounted(T, d)
  <2>1. Accounted(tx[k], d)
    BY DEF AccountInv
  <2> QED BY <1>5, <1>8, <2>1 DEF Accounted
<1> QED BY <1>6, <1>7, <1>8, SessionAccounts

\* A sale: the leg is a new one, and what it sells is taken from the row.
LEMMA SellAccounts ==
  ASSUME TypeInv, IInv, AccountInv, NEW k \in Callers, NEW c \in Candidates,
         NEW kind \in Nat, NEW lots \in 0 .. tx[k].row[c].open, Sell(k, c, kind, lots)
  PROVE  AccountInv'
<1> DEFINE row == tx[k].row[c]
           ls == legs[c] \union tx[k].sells[c]
           leg == NewLeg(k, c, kind, lots)
           T == Sold(k, c, kind, lots)
<1>1. /\ tx[k] \in Tx /\ tx[k].pc = "trades" /\ c \in tx[k].todo /\ lots > 0
      /\ row \in Row /\ ls \in SUBSET Leg /\ IsFiniteSet(ls)
  <2>1. IsFiniteSet(ls)
    BY FS_Union DEF TypeInv, FiniteLegs
  <2> QED BY <2>1 DEF Sell, Exiting, TypeInv, TypeOK, Tx
<1>2. row.state = "open" /\ Balanced(row, ls) /\ Numbered(ls)
  <2>1. Copied(tx[k], c) /\ Accounted(tx[k], c) /\ Balanced(trade[c], legs[c])
    BY DEF IInv, RoundInv, AccountInv
  <2>2. row.state = "open" /\ Numbered(ls)
    BY <1>1, <2>1 DEF Copied, Accounted
  <2>3. CASE c \in tx[k].dirty
    BY <2>1, <2>2, <2>3 DEF Accounted
  <2>4. CASE c \notin tx[k].dirty
    <3>1. row = trade[c] /\ ls = legs[c]
      BY <1>1, <2>1, <2>4 DEF Copied
    <3> QED BY <2>1, <2>2, <3>1
  <2> QED BY <2>2, <2>3, <2>4
<1>3. /\ T.dirty = tx[k].dirty \union {c} /\ T.row[c] = Left(row, kind, lots)
      /\ T.sells[c] = tx[k].sells[c] \union {leg}
      /\ \A d \in Candidates \ {c} : T.row[d] = tx[k].row[d] /\ T.sells[d] = tx[k].sells[d]
  BY <1>1 DEF Sold, Tx
<1>4. tx' = [tx EXCEPT ![k] = T] /\ UNCHANGED <<trade, legs>>
  BY DEF Sell
<1>5. legs[c] \union T.sells[c] = ls \union {leg}
  BY <1>3
<1>6. row.open \in Nat /\ lots \in Nat /\ lots <= row.open /\ Cardinality(ls) \in Nat
  BY <1>1, FS_CardinalityType DEF Row
<1>7. leg \in Leg /\ leg.no = 2 + Cardinality(ls) /\ leg.lots = lots
  <2>1. tx[k].now \in Nat
    BY <1>1 DEF Tx
  <2>2. Day(tx[k].now) \in Nat
    BY <2>1, DayType
  <2>3. LegNo(k, c) = 2 + Cardinality(ls)
    BY DEF LegNo
  <2> HIDE DEF ls
  <2>4. LegNo(k, c) \in Nat
    BY <1>6, <2>3
  <2> QED BY <1>6, <2>2, <2>3, <2>4 DEF NewLeg, Leg
<1>8. /\ Left(row, kind, lots).open = row.open - lots
      /\ Left(row, kind, lots).state = IF row.open = lots THEN "closed" ELSE "open"
  BY <1>1 DEF Left, Row
<1> HIDE DEF T, leg, ls, row
<1>9. leg \notin ls
  BY <1>2, <1>6, <1>7 DEF Numbered
<1>10. LotsOf(ls \union {leg}) = LotsOf(ls) + lots /\ LotsOf(ls) \in Nat
  BY <1>1, <1>7, <1>9, LotsOfAdd, LotsOfNat
<1>11. Cardinality(ls \union {leg}) = Cardinality(ls) + 1
  BY <1>1, <1>9, FS_AddElement
<1>12. Numbered(ls \union {leg})
  <2> SUFFICES ASSUME NEW l \in ls \union {leg}
               PROVE  l.no <= 2 + Cardinality(ls)
    BY <1>6, <1>11 DEF Numbered
  <2>1. CASE l \in ls
    <3>1. l.no \in Nat /\ l.no <= 1 + Cardinality(ls)
      BY <1>1, <1>2, <2>1 DEF Numbered, Leg
    <3> QED BY <1>6, <3>1
  <2>2. CASE l = leg
    BY <1>6, <1>7, <2>2
  <2> QED BY <2>1, <2>2
<1>13. Balanced(Left(row, kind, lots), ls \union {leg})
  <2> DEFINE left == Left(row, kind, lots)
             sum == LotsOf(ls)
             open == row.open
  <2>1. open + sum = Quantity /\ open # 0
    BY <1>2 DEF Balanced
  <2> HIDE DEF left, sum, open
  <2>2. left.open = open - lots /\ sum \in Nat /\ open \in Nat
    BY <1>6, <1>8, <1>10 DEF left, sum, open
  <2>3. left.open + (sum + lots) = Quantity
    BY <1>6, <2>1, <2>2
  <2>4. left.open = 0 <=> open = lots
    BY <1>6, <2>2
  <2>5. left.state = "closed" <=> open = lots
    BY <1>8 DEF left, open
  <2>6. left.open + LotsOf(ls \union {leg}) = Quantity
    BY <1>10, <2>3 DEF sum
  <2> QED BY <2>4, <2>5, <2>6 DEF Balanced, left
<1>14. Accounted(T, c)
  BY <1>3, <1>5, <1>12, <1>13 DEF Accounted
<1>15. ASSUME NEW d \in Candidates, d # c PROVE Accounted(T, d)
  <2>1. Accounted(tx[k], d)
    BY DEF AccountInv
  <2> QED BY <1>3, <1>15, <2>1 DEF Accounted
<1> QED BY <1>4, <1>14, <1>15, SessionAccounts

\* The commit: the only session that has written anything is this one.
LEMMA CommitAccounts ==
  ASSUME TypeInv, IInv, AccountInv, NEW k \in Callers, Commit(k)
  PROVE  AccountInv'
<1>1. tx[k].pc = "trades" /\ \A o \in Callers : tx'[o] = IF o = k THEN NoTx ELSE tx[o]
  BY DEF Commit, TypeInv, TypeOK
<1>2. ASSUME NEW o \in Callers
      PROVE  tx'[o].dirty = {} /\ \A c \in Candidates : tx'[o].sells[c] = {}
  BY <1>1 DEF IInv, RoundInv, Owned, Held, NoTx
<1>3. ASSUME NEW c \in Candidates
      PROVE  (Balanced(trade[c], legs[c]) /\ Numbered(legs[c]))'
  <2>1. /\ trade'[c] = IF c \in tx[k].dirty THEN tx[k].row[c] ELSE trade[c]
        /\ legs'[c] = legs[c] \union tx[k].sells[c]
    BY DEF Commit
  <2>2. Copied(tx[k], c) /\ Accounted(tx[k], c) /\ Balanced(trade[c], legs[c])
    BY DEF IInv, RoundInv, AccountInv
  <2>3. Numbered(legs'[c])
    BY <2>1, <2>2 DEF Accounted
  <2>4. Balanced(trade'[c], legs'[c])
    <3>1. CASE c \in tx[k].dirty
      BY <2>1, <2>2, <3>1 DEF Accounted
    <3>2. CASE c \notin tx[k].dirty
      <4>1. trade'[c] = trade[c] /\ legs'[c] = legs[c]
        BY <2>1, <2>2, <3>2 DEF Copied
      <4> QED BY <2>2, <4>1
    <3> QED BY <3>1, <3>2
  <2> QED BY <2>3, <2>4 DEF Balanced, Numbered
<1>4. ASSUME NEW c \in Candidates, NEW o \in Callers PROVE Accounted(tx[o], c)'
  BY <1>2, <1>3 DEF Accounted
<1> QED BY <1>3, <1>4 DEF AccountInv

LEMMA NextAccount == TypeInv /\ IInv /\ AccountInv /\ [Next]_vars => AccountInv'
<1> SUFFICES ASSUME TypeInv, IInv, AccountInv, [Next]_vars PROVE AccountInv'
  OBVIOUS
<1>0. \A k \in Callers : tx[k] \in Tx
  BY DEF TypeInv, TypeOK
<1>1. ASSUME NEW k \in Callers, Call(k) \/ Abort(k) PROVE AccountInv'
  <2> DEFINE U == [NoTx EXCEPT !.pc = "called", !.now = clock]
  <2>1. /\ NoTx.dirty = {} /\ U.dirty = {}
        /\ \A c \in Candidates : NoTx.sells[c] = {} /\ U.sells[c] = {}
    BY DEF NoTx
  <2>2. PICK T \in {NoTx, U} : tx' = [tx EXCEPT ![k] = T] /\ UNCHANGED <<trade, legs>>
    BY <1>1 DEF Call, Abort
  <2> HIDE DEF U
  <2>3. T.dirty = {} /\ \A c \in Candidates : T.sells[c] = {}
    BY <2>1, <2>2
  <2>4. \A c \in Candidates : Accounted(T, c)
    BY <2>3, UnusedAccounts
  <2> QED BY <2>2, <2>4, SessionAccounts
<1>2. ASSUME NEW k \in Callers, Begin(k) \/ ListOpen(k) PROVE AccountInv'
  <2>1. /\ Listed(k).sells = tx[k].sells /\ Listed(k).dirty = tx[k].dirty
        /\ Listed(k).row = tx[k].row
    BY <1>0 DEF Listed, Tx
  <2>2. /\ Opened(k).sells = tx[k].sells /\ Opened(k).dirty = tx[k].dirty
        /\ \A c \in tx[k].dirty : Opened(k).row[c] = tx[k].row[c]
    BY <1>0 DEF Opened, Seen, Tx
  <2>3. PICK T \in {Listed(k), Opened(k)} :
          tx' = [tx EXCEPT ![k] = T] /\ UNCHANGED <<trade, legs>>
    BY <1>2 DEF Begin, Listing, ListOpen
  <2>4. /\ T.sells = tx[k].sells /\ T.dirty = tx[k].dirty
        /\ \A c \in T.dirty : T.row[c] = tx[k].row[c]
    BY <2>1, <2>2, <2>3
  <2>5. \A c \in Candidates : Accounted(T, c)
    BY <2>4, UnsoldAccounts
  <2> QED BY <2>3, <2>5, SessionAccounts
<1>3. ASSUME NEW k \in Callers, NEW c \in Candidates,
             Pass(k, c) \/ Watch(k, c) \/ Reject(k, c) \/ Hold(k, c)
      PROVE  AccountInv'
  <2>1. PICK T \in {Drop(k, c), Mark(k, c, "watching"), Mark(k, c, "not_triggered")} :
               tx' = [tx EXCEPT ![k] = T] /\ UNCHANGED <<trade, legs>>
    BY <1>3 DEF Pass, Watch, Reject, Hold
  <2>2. /\ Drop(k, c).sells = tx[k].sells /\ Drop(k, c).dirty = tx[k].dirty
        /\ Drop(k, c).row = tx[k].row
    BY <1>0 DEF Drop, Tx
  <2>3. ASSUME NEW st
        PROVE  /\ Mark(k, c, st).sells = tx[k].sells /\ Mark(k, c, st).dirty = tx[k].dirty
               /\ Mark(k, c, st).row = tx[k].row
    BY <1>0 DEF Mark, Tx
  <2>4. /\ T.sells = tx[k].sells /\ T.dirty = tx[k].dirty
        /\ \A d \in T.dirty : T.row[d] = tx[k].row[d]
    BY <2>1, <2>2, <2>3
  <2>5. \A d \in Candidates : Accounted(T, d)
    BY <2>4, UnsoldAccounts
  <2> QED BY <2>1, <2>5, SessionAccounts
<1>4. ASSUME NEW k \in Callers, NEW c \in Candidates, Enter(k, c) PROVE AccountInv'
  BY <1>4, EnterAccounts
<1>5. ASSUME NEW k \in Callers, NEW c \in Candidates, SellAll(k, c) PROVE AccountInv'
  <2>1. tx[k].row[c].open \in Nat
    BY <1>0 DEF Tx, Row
  <2> QED BY <1>5, <2>1, SellAccounts DEF SellAll
<1>6. ASSUME NEW k \in Callers, NEW c \in Candidates, SellLeg(k, c) PROVE AccountInv'
  <2> DEFINE i == tx[k].row[c].next
  <2>0. tx[k].row[c].open \in Nat /\ i \in Nat \ {0}
    BY <1>0 DEF Tx, Row
  <2>1. i \in 1 .. Len(Ratios) /\ Sell(k, c, i, LegLots(tx[k].row[c].open, i))
    BY <1>6, <2>0 DEF SellLeg
  <2>2. LegLots(tx[k].row[c].open, i) \in 0 .. tx[k].row[c].open
    BY <2>0, <2>1, LegLotsFit
  <2> QED BY <2>0, <2>1, <2>2, SellAccounts
<1>7. ASSUME NEW k \in Callers, Commit(k) PROVE AccountInv'
  BY <1>7, CommitAccounts
<1>8. CASE UNCHANGED <<trade, legs, tx>>
  BY <1>8 DEF AccountInv, Balanced, Numbered, Accounted
<1>9. CASE Reconcile \/ Tick \/ Republish \/ UNCHANGED vars
  BY <1>8, <1>9 DEF Reconcile, RecBegin, RecCommit, RecAbort, RecCreate, RecKeep, RecCancel,
                    Tick, Republish, vars
<1> QED BY <1>1, <1>2, <1>3, <1>4, <1>5, <1>6, <1>7, <1>9 DEF Next, Round

\* What was bought is what is left plus what the legs sold, and a trade is
\* closed exactly when nothing is left (append_paper_sell_leg), for every
\* number of concurrent blocks, every quantity and every take-profit plan.
THEOREM LegsBalance == Spec => []LegsAccount
<1>1. TypeInv /\ IInv /\ AccountInv => LegsAccount
  BY DEF AccountInv, Balanced, LegsAccount
<1> QED BY <1>1, Invariant, InitAccount, NextAccount, PTL DEF Spec
=============================================================================
