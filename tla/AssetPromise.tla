---------------------------- MODULE AssetPromise ----------------------------
(***************************************************************************)
(* What the data centre promises the readers of its snapshots: a snapshot  *)
(* is replaced only by one that is not older, a refresh that fails changes *)
(* nothing, and the last one is served for as long as it is retained after *)
(* its refresh.  Once a refresh has outlasted its lease two may run at     *)
(* once, and the older result may be stored last.                          *)
(***************************************************************************)
EXTENDS Integers

CONSTANTS Keys,       \* snapshots
          Retention   \* how long the last good snapshot is kept

VARIABLES served,     \* the version a reader of a key is given, 0 when there is none
          left,       \* what remains of its retention
          outlasted   \* a refresh was still running when its lease ran out

vars == <<served, left, outlasted>>

Init == served = [k \in Keys |-> 0] /\ left = [k \in Keys |-> 0] /\ outlasted = FALSE

Refresh(k) ==
    /\ served' \in [Keys -> Nat] /\ served'[k] > 0
    /\ outlasted \/ served'[k] >= served[k]
    /\ \A j \in Keys \ {k} : served'[j] = served[j]
    /\ left' = [left EXCEPT ![k] = Retention]
    /\ UNCHANGED outlasted

Older(n) == IF n > 0 THEN n - 1 ELSE 0
\* Time passes; a lease may run out with it.
Tick == /\ left' = [k \in Keys |-> Older(left[k])]
        /\ served' = [k \in Keys |-> IF left[k] =< 1 THEN 0 ELSE served[k]]
        /\ outlasted' \in {outlasted, TRUE}

Next == (\E k \in Keys : Refresh(k)) \/ Tick

Spec == Init /\ [][Next]_vars
=============================================================================
