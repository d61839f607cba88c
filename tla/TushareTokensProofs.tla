-------------------------- MODULE TushareTokensProofs --------------------------
(* The token limiter never lets a window hold more than rate_limit_per_minute *)
(* reservations, for every pool, every set of calls and every option.         *)
EXTENDS TushareTokens, FiniteSetTheorems, WellFoundedInduction, TLAPS

(* The deque: what trimming and appending do to one, for every deque, window  *)
(* and limit.                                                                *)

\* The deque q holds the latest of all times g ever recorded, and those it no
\* longer holds have left the window.
Recorded(q, g, at, w) ==
  /\ Len(q) <= Len(g)
  /\ \A i \in 1 .. Len(q) : q[i] = g[Len(g) - Len(q) + i]
  /\ \A i \in 1 .. Len(g) - Len(q) : Aged(g[i], at, w)

\* A set of naturals has a least element.
LEMMA LeastNat ==
  ASSUME NEW S \in SUBSET Nat, S # {}
  PROVE  \E n \in S : \A m \in S : n <= m
<1> DEFINE R == {p \in Nat \X Nat : p[1] < p[2]}
<1>1. IsWellFoundedOn(R, Nat)
  BY NatLessThanWellFounded DEF OpToRel
<1> HIDE DEF R
<1>2. PICK n \in S : \A m \in S : <<m, n>> \notin R
  BY <1>1, WFMin
<1>3. \A m \in S : ~(m < n)
  BY <1>2 DEF R
<1> QED BY <1>3

\* The popleft loop stops, and where it stops is what Drops says.
LEMMA DropsExist ==
  ASSUME NEW q \in Seq(Nat), NEW at \in Nat, NEW w \in Nat
  PROVE  /\ Drops(q, at, w) \in 0 .. Len(q)
         /\ \A i \in 1 .. Drops(q, at, w) : Aged(q[i], at, w)
         /\ Drops(q, at, w) < Len(q) => ~Aged(q[Drops(q, at, w) + 1], at, w)
<1> DEFINE Stops(k) == /\ \A i \in 1 .. k : Aged(q[i], at, w)
                       /\ k < Len(q) => ~Aged(q[k + 1], at, w)
<1>1. \E k \in 0 .. Len(q) : Stops(k)
  <2>1. CASE \A i \in 1 .. Len(q) : Aged(q[i], at, w)
    <3>1. Len(q) \in 0 .. Len(q) /\ Stops(Len(q))
      BY <2>1
    <3> QED BY <3>1
  <2>2. CASE \E i \in 1 .. Len(q) : ~Aged(q[i], at, w)
    <3> DEFINE S == {i \in 1 .. Len(q) : ~Aged(q[i], at, w)}
    <3>1. S \in SUBSET Nat /\ S # {}
      BY <2>2
    <3>2. PICK n \in S : \A m \in S : n <= m
      <4> HIDE DEF S
      <4> QED BY <3>1, LeastNat
    <3>3. n - 1 \in 0 .. Len(q) /\ Stops(n - 1)
      BY <3>2
    <3> QED BY <3>3
  <2> QED BY <2>1, <2>2
<1> QED BY <1>1 DEF Drops

\* Trimming keeps the deque a record of the latest times.
LEMMA TrimKeeps ==
  ASSUME NEW q \in Seq(Nat), NEW g \in Seq(Nat), NEW at \in Nat, NEW w \in Nat,
         Recorded(q, g, at, w)
  PROVE  /\ Trim(q, at, w) \in Seq(Nat)
         /\ Len(Trim(q, at, w)) <= Len(q)
         /\ Recorded(Trim(q, at, w), g, at, w)
<1> DEFINE k == Drops(q, at, w)
           p == SubSeq(q, k + 1, Len(q))
<1>1. k \in 0 .. Len(q) /\ \A i \in 1 .. k : Aged(q[i], at, w)
  BY DropsExist
<1>2. Trim(q, at, w) = p
  BY DEF Trim
<1> HIDE DEF k
<1>3. p \in Seq(Nat) /\ Len(p) = Len(q) - k /\ \A i \in 1 .. Len(p) : p[i] = q[k + i]
  BY <1>1
<1> HIDE DEF p
<1>0. PICK l \in Nat, n \in Nat, m \in Nat : l = Len(q) /\ n = Len(g) /\ m = Len(p)
  BY <1>3
<1>4. ASSUME NEW i \in 1 .. Len(p) PROVE p[i] = g[Len(g) - Len(p) + i]
  <2>1. k \in 0 .. l /\ m = l - k /\ i \in 1 .. m
    BY <1>0, <1>1, <1>3
  <2>2. k + i \in 1 .. l /\ n - l + (k + i) = n - m + i
    BY <1>0, <2>1
  <2>3. q[k + i] = g[n - l + (k + i)]
    BY <1>0, <2>2 DEF Recorded
  <2> QED BY <1>0, <1>3, <2>2, <2>3
<1>5. \A i \in 1 .. Len(g) - Len(p) : Aged(g[i], at, w)
  <2>1. SUFFICES ASSUME NEW i \in 1 .. Len(g) - Len(p), ~(i \in 1 .. Len(g) - Len(q))
                 PROVE  Aged(g[i], at, w)
    BY DEF Recorded
  <2>2. PICK j \in 1 .. k : i = Len(g) - Len(q) + j
    <3>2. Len(q) \in Nat /\ Len(g) \in Nat /\ Len(q) <= Len(g)
      BY DEF Recorded
    <3>3. k \in 0 .. Len(q) /\ Len(p) = Len(q) - k
      BY <1>1, <1>3
    <3>4. i \in 1 .. Len(g) - Len(p) /\ ~(i \in 1 .. Len(g) - Len(q))
      BY <2>1
    <3>1. i - (Len(g) - Len(q)) \in 1 .. k
      BY <3>2, <3>3, <3>4
    <3> QED BY <3>1, <2>1
  <2>3. q[j] = g[i]
    <3>1. j \in 1 .. Len(q)
      BY <1>1
    <3> QED BY <2>2, <3>1 DEF Recorded
  <2> QED BY <1>1, <2>2, <2>3
<1> QED BY <1>1, <1>2, <1>3, <1>4, <1>5 DEF Recorded

\* A request that finds room in a deque of at most n keeps every window of the
\* record below n + 1.
LEMMA AppendKeeps ==
  ASSUME NEW q \in Seq(Nat), NEW g \in Seq(Nat), NEW at \in Nat, NEW w \in Nat,
         NEW n \in Nat, Recorded(q, g, at, w), Len(q) < n, Spaced(g, n, w)
  PROVE  /\ Recorded(Append(q, at), Append(g, at), at, w)
         /\ Spaced(Append(g, at), n, w)
<1> DEFINE h == Append(g, at)  p == Append(q, at)
<1>1. /\ h \in Seq(Nat) /\ Len(h) = Len(g) + 1 /\ h[Len(g) + 1] = at
      /\ \A i \in 1 .. Len(g) : h[i] = g[i]
  OBVIOUS
<1>2. /\ p \in Seq(Nat) /\ Len(p) = Len(q) + 1 /\ p[Len(q) + 1] = at
      /\ \A i \in 1 .. Len(q) : p[i] = q[i]
  OBVIOUS
<1>0. Len(h) = Len(g) + 1 /\ Len(g) \in Nat
  OBVIOUS
<1> HIDE DEF h, p
<1>3. Recorded(p, h, at, w)
  <2>1. \A i \in 1 .. Len(p) : p[i] = h[Len(h) - Len(p) + i]
    <3>1. SUFFICES ASSUME NEW i \in 1 .. Len(p) PROVE p[i] = h[Len(h) - Len(p) + i]
      OBVIOUS
    <3>2. CASE i = Len(q) + 1
      <4>1. Len(h) - Len(p) + i = Len(g) + 1
        BY <1>1, <1>2, <3>2
      <4> QED BY <1>1, <1>2, <3>2, <4>1
    <3>3. CASE i \in 1 .. Len(q)
      <4>0. Len(q) <= Len(g) /\ q[i] = g[Len(g) - Len(q) + i]
        BY <3>3 DEF Recorded
      <4>1. Len(g) - Len(q) + i \in 1 .. Len(g) /\ q[i] = g[Len(g) - Len(q) + i]
        <5>1. Len(q) \in Nat /\ Len(g) \in Nat /\ i \in Nat /\ 1 <= i /\ i <= Len(q)
          BY <3>3
        <5> QED BY <4>0, <5>1
      <4>2. Len(h) - Len(p) = Len(g) - Len(q)
        BY <1>1, <1>2
      <4> QED BY <1>1, <1>2, <3>3, <4>1, <4>2
    <3> QED BY <1>2, <3>1, <3>2, <3>3
  <2>2. \A i \in 1 .. Len(h) - Len(p) : Aged(h[i], at, w)
    <3>1. Len(h) - Len(p) = Len(g) - Len(q)
      BY <1>1, <1>2
    <3>2. \A i \in 1 .. Len(g) - Len(q) : h[i] = g[i]
      BY <1>1
    <3> QED BY <3>1, <3>2 DEF Recorded
  <2> QED BY <1>1, <1>2, <2>1, <2>2 DEF Recorded
<1>4. Spaced(h, n, w)
  <2>1. SUFFICES ASSUME NEW i \in 1 .. Len(h) - n PROVE h[i + n] - h[i] >= w
    BY DEF Spaced
  <2>2. CASE i + n = Len(h)
    <3>1. i \in 1 .. Len(g) - Len(q) /\ i \in 1 .. Len(g)
      <4>1. Len(q) \in Nat
        OBVIOUS
      <4> QED BY <1>0, <2>2, <4>1
    <3>2. Aged(g[i], at, w)
      BY <3>1 DEF Recorded
    <3>3. h[i] = g[i] /\ h[i + n] = at
      BY <1>1, <2>2, <3>1
    <3> QED BY <3>2, <3>3 DEF Aged
  <2>3. CASE i + n # Len(h)
    <3>0. PICK l \in Nat : l = Len(g) /\ Len(h) = l + 1
      BY <1>0
    <3>1. i \in 1 .. Len(g) - n /\ i \in 1 .. Len(g) /\ i + n \in 1 .. Len(g)
      <4>1. i \in 1 .. l + 1 - n /\ i + n # l + 1
        BY <2>3, <3>0
      <4>2. i \in 1 .. l - n /\ i \in 1 .. l /\ i + n \in 1 .. l
        BY <4>1
      <4> QED BY <3>0, <4>2
    <3>2. g[i + n] - g[i] >= w
      BY <3>1 DEF Spaced
    <3>3. h[i + n] = g[i + n] /\ h[i] = g[i]
      BY <1>1, <3>1
    <3> QED BY <3>2, <3>3
  <2> QED BY <2>2, <2>3
<1> QED BY <1>3, <1>4 DEF h, p

\* Time only ages the record.
LEMMA LaterKeeps ==
  ASSUME NEW q, NEW g \in Seq(Nat), NEW at \in Nat, NEW w \in Nat, NEW later \in Nat,
         later >= at, Len(q) \in Nat, Recorded(q, g, at, w)
  PROVE  Recorded(q, g, later, w)
<1>1. \A i \in 1 .. Len(g) - Len(q) : g[i] \in Nat
  OBVIOUS
<1> QED BY <1>1 DEF Recorded, Aged

-----------------------------------------------------------------------------
(* The token pool. *)

Pcs == {"idle", "reserve", "asleep", "ask", "backoff", "done"}

\* A call that sleeps before a retry has a retry left.
RetryLeft == \A c \in Calls : pc[c] = "backoff" => attempt[c] <= RetryCount

TypeInv == TypeOK /\ RetryLeft

\* The deque of a token records the latest reservations and is never longer
\* than the limit: this is why a new one keeps them apart.
WindowInv ==
  \A t \in Tokens : /\ Len(requests[t]) <= PerMinute
                    /\ Recorded(requests[t], grants[t], now, Window)
                    /\ Spaced(grants[t], PerMinute, Window)

USE LimitAssumption, BudgetAssumption, OptionAssumption

LEMMA InitType == Init => TypeInv
BY DEF Init, TypeInv, TypeOK, RetryLeft, Statuses, Outcomes

\* Trimming the deques a call looks at.
LEMMA TrimmedFacts ==
  ASSUME TypeOK, NEW c \in Calls
  PROVE  /\ Trimmed(c) \in [Tokens -> Seq(Nat)]
         /\ WindowInv => \A t \in Tokens :
              /\ Len(Trimmed(c)[t]) <= PerMinute
              /\ Recorded(Trimmed(c)[t], grants[t], now, Window)
<1>1. now \in Nat /\ requests \in [Tokens -> Seq(Nat)] /\ grants \in [Tokens -> Seq(Nat)]
  BY DEF TypeOK
<1>2. \A q \in Seq(Nat) : /\ Trim(q, now, Window) \in Seq(Nat)
                          /\ Len(Trim(q, now, Window)) <= Len(q)
  <2>1. TAKE q \in Seq(Nat)
  <2>2. Recorded(q, q, now, Window)
    BY <1>1 DEF Recorded
  <2> QED BY <1>1, <2>2, TrimKeeps
<1>3. Trimmed(c) \in [Tokens -> Seq(Nat)]
  BY <1>1, <1>2 DEF Trimmed
<1>4. ASSUME WindowInv, NEW t \in Tokens
      PROVE  /\ Len(Trimmed(c)[t]) <= PerMinute
             /\ Recorded(Trimmed(c)[t], grants[t], now, Window)
  <2>1. CASE t \notin cands[c]
    BY <1>4, <2>1 DEF WindowInv, Trimmed
  <2>2. CASE t \in cands[c]
    <3>1. Trimmed(c)[t] = Trim(requests[t], now, Window)
      BY <2>2 DEF Trimmed
    <3>2. Recorded(requests[t], grants[t], now, Window) /\ Len(requests[t]) <= PerMinute
      BY <1>4 DEF WindowInv
    <3>3. Recorded(Trim(requests[t], now, Window), grants[t], now, Window)
      BY <1>1, <3>2, TrimKeeps
    <3>4. Len(Trim(requests[t], now, Window)) <= Len(requests[t])
      BY <1>1, <1>2
    <3>5. Len(Trim(requests[t], now, Window)) \in Nat /\ Len(requests[t]) \in Nat
      BY <1>1, <1>2
    <3> QED BY <3>1, <3>2, <3>3, <3>4, <3>5
  <2> QED BY <2>1, <2>2
<1> QED BY <1>3, <1>4

\* Ending a call, and moving on to its next token.
LEMMA EndsType ==
  ASSUME TypeOK, NEW c \in Calls, NEW o \in Outcomes, Ends(c, o)
  PROVE  /\ pc' \in [Calls -> Pcs] /\ outcome' \in [Calls -> Outcomes]
         /\ \A d \in Calls : pc'[d] = "backoff" => pc[d] = "backoff"
BY DEF TypeOK, Ends, Pcs

LEMMA NextTokenType ==
  ASSUME TypeOK, NEW c \in Calls, NextToken(c)
  PROVE  /\ pc' \in [Calls -> Pcs] /\ outcome' \in [Calls -> Outcomes]
         /\ cands' \in [Calls -> SUBSET Tokens] /\ cur' \in [Calls -> SUBSET Tokens]
         /\ \A d \in Calls : pc'[d] = "backoff" => pc[d] = "backoff"
<1>1. cands' \in [Calls -> SUBSET Tokens] /\ cur' \in [Calls -> SUBSET Tokens]
  BY DEF TypeOK, NextToken
<1>2. CASE Ends(c, "failed")
  BY <1>1, <1>2, EndsType DEF Outcomes
<1>3. CASE pc' = [pc EXCEPT ![c] = "reserve"] /\ UNCHANGED outcome
  BY <1>1, <1>3 DEF TypeOK, Pcs
<1> QED BY <1>2, <1>3 DEF NextToken

LEMMA NextType == TypeInv /\ [Next]_vars => TypeInv'
<1> SUFFICES ASSUME TypeInv, [Next]_vars PROVE TypeInv'
  OBVIOUS
<1> USE DEF TypeInv, TypeOK, RetryLeft, Statuses, Outcomes
<1>1. ASSUME NEW c \in Calls, Load(c) PROVE TypeInv'
  <2>1. \A t \in Tokens : status'[t] \in Statuses /\ until'[t] \in Nat
    BY <1>1 DEF Load, Released
  <2>2. status' \in [Tokens -> Statuses] /\ until' \in [Tokens -> Nat]
    BY <1>1, <2>1 DEF Load, Released
  <2>3. PICK usable \in SUBSET Tokens :
          /\ values' = [values EXCEPT ![c] = usable]
          /\ cands' = [cands EXCEPT ![c] = usable]
          /\ \/ \E o \in {"no_token", "failed"} : Ends(c, o)
             \/ pc' = [pc EXCEPT ![c] = "reserve"] /\ UNCHANGED outcome
    BY <1>1 DEF Load
  <2>4. /\ pc' \in [Calls -> Pcs] /\ outcome' \in [Calls -> Outcomes]
        /\ \A d \in Calls : pc'[d] = "backoff" => pc[d] = "backoff"
    <3>1. CASE \E o \in {"no_token", "failed"} : Ends(c, o)
      <4>1. PICK o \in Outcomes : Ends(c, o)
        BY <3>1
      <4> QED BY <4>1, EndsType
    <3>2. CASE pc' = [pc EXCEPT ![c] = "reserve"] /\ UNCHANGED outcome
      BY <3>2 DEF Pcs
    <3> QED BY <2>3, <3>1, <3>2
  <2> QED BY <1>1, <2>2, <2>3, <2>4 DEF Load, history, Pcs
<1>2. ASSUME NEW c \in Calls, NEW t \in Tokens, Grant(c, t) PROVE TypeInv'
  <2>1. Trimmed(c) \in [Tokens -> Seq(Nat)]
    BY TrimmedFacts
  <2>2. requests' \in [Tokens -> Seq(Nat)] /\ grants' \in [Tokens -> Seq(Nat)]
    BY SMTT(60), <1>2, <2>1 DEF Grant
  <2>3. sent' \in [Tokens -> Seq(Request)]
    <3> DEFINE r == [by |-> c, at |-> now]
    <3>1. r \in Request /\ sent' = [sent EXCEPT ![t] = Append(@, r)]
      BY <1>2 DEF Request, Grant
    <3> HIDE DEF r
    <3>2. Append(sent[t], r) \in Seq(Request)
      BY <3>1
    <3> QED BY <3>1, <3>2
  <2>4. cur' \in [Calls -> SUBSET Tokens] /\ attempt' \in [Calls -> 0 .. RetryCount + 1]
    BY SMTT(60), <1>2 DEF Grant
  <2>5. /\ pc' \in [Calls -> Pcs]
        /\ \A d \in Calls : pc'[d] = "backoff" => attempt'[d] <= RetryCount
    BY <1>2 DEF Grant, Pcs
  <2> QED BY <1>2, <2>2, <2>3, <2>4, <2>5 DEF Grant, tokenVars, Pcs
<1>3. ASSUME NEW c \in Calls, Sleep(c) PROVE TypeInv'
  <2>1. Trimmed(c) \in [Tokens -> Seq(Nat)]
    BY TrimmedFacts
  <2>2. wake' \in [Calls -> Nat] /\ deadline' \in [Calls -> Nat]
    BY <1>3 DEF Sleep, Deadline
  <2> QED BY <1>3, <2>1, <2>2 DEF Sleep, tokenVars, history
<1>4. ASSUME NEW c \in Calls, GiveUp(c) PROVE TypeInv'
  <2>1. Trimmed(c) \in [Tokens -> Seq(Nat)]
    BY TrimmedFacts
  <2> QED BY <1>4, <2>1 DEF GiveUp, Ends, tokenVars, history
<1>5. ASSUME NEW c \in Calls, NEW o \in {"records", "empty"}, Answer(c, o) PROVE TypeInv'
  <2>1. /\ cands' \in [Calls -> SUBSET Tokens] /\ cur' \in [Calls -> SUBSET Tokens]
        /\ pc' \in [Calls -> Pcs] /\ outcome' \in [Calls -> Outcomes]
        /\ \A d \in Calls : pc'[d] = "backoff" => pc[d] = "backoff"
    <3>1. CASE NextToken(c)
      BY <3>1, NextTokenType
    <3>2. CASE Ends(c, o) /\ UNCHANGED <<cands, cur>>
      BY <3>2, EndsType
    <3> QED BY <1>5, <3>1, <3>2 DEF Answer
  <2> QED BY <1>5, <2>1 DEF Answer, tokenVars, history, Pcs
<1>6. ASSUME NEW c \in Calls, NEW k \in Kinds, Fail(c, k) PROVE TypeInv'
  <2>1. status' \in [Tokens -> Statuses] /\ until' \in [Tokens -> Nat]
    BY SMTT(60), <1>6 DEF Fail, Mark
  <2>2. /\ cands' \in [Calls -> SUBSET Tokens] /\ cur' \in [Calls -> SUBSET Tokens]
        /\ pc' \in [Calls -> Pcs] /\ outcome' \in [Calls -> Outcomes]
        /\ \A d \in Calls : pc'[d] = "backoff" => attempt[d] <= RetryCount
    <3>1. CASE NextToken(c)
      BY <3>1, NextTokenType
    <3>2. CASE /\ attempt[c] <= RetryCount /\ pc' = [pc EXCEPT ![c] = "backoff"]
               /\ UNCHANGED <<cands, cur, outcome>>
      BY <3>2 DEF Pcs
    <3> QED BY <1>6, <3>1, <3>2 DEF Fail
  <2> QED BY <1>6, <2>1, <2>2 DEF Fail, history, Pcs
<1>7. ASSUME NEW c \in Calls, AskAgain(c) PROVE TypeInv'
  <2>1. sent' \in [Tokens -> Seq(Request)]
    <3> DEFINE r == [by |-> c, at |-> now]
    <3>1. r \in Request
      BY DEF Request
    <3>2. sent' = [t \in Tokens |-> IF t \in cur[c] THEN Append(sent[t], r) ELSE sent[t]]
      BY <1>7 DEF AskAgain
    <3> HIDE DEF r
    <3>3. \A t \in Tokens : sent[t] \in Seq(Request) /\ Append(sent[t], r) \in Seq(Request)
      BY <3>1
    <3> QED BY <3>2, <3>3
  <2>2. attempt' \in [Calls -> 0 .. RetryCount + 1]
    BY <1>7 DEF AskAgain
  <2>3. \A d \in Calls : pc'[d] = "backoff" => attempt'[d] <= RetryCount
    BY <1>7 DEF AskAgain
  <2>4. pc' \in [Calls -> Pcs]
    BY <1>7 DEF AskAgain, Pcs
  <2> QED BY <1>7, <2>1, <2>2, <2>3, <2>4 DEF AskAgain, tokenVars, Pcs
<1>8. ASSUME NEW c \in Calls, CancelCall(c) PROVE TypeInv'
  BY <1>8 DEF CancelCall, Ends, tokenVars, history
<1>9. ASSUME NEW t \in Tokens, NEW s \in {"active", "disabled"}, EditToken(t, s)
      PROVE  TypeInv'
  BY <1>9 DEF EditToken, callVars, history
<1>10. CASE Tick
  BY <1>10 DEF Tick, tokenVars, callVars, history
<1>11. CASE UNCHANGED vars
  BY <1>11 DEF vars, tokenVars, callVars, history
<1> QED BY <1>1, <1>2, <1>3, <1>4, <1>5, <1>6, <1>7, <1>8, <1>9, <1>10, <1>11
        DEF Next, Waiting

\* Rows, deques and call states keep their types, and attempts never exceed
\* retry_count + 1.
THEOREM TypeCorrect == Spec => []TypeOK
<1>1. TypeInv => TypeOK
  BY DEF TypeInv
<1> QED BY <1>1, InitType, NextType, PTL DEF Spec

LEMMA InitWindow == Init => WindowInv
<1> SUFFICES ASSUME Init
             PROVE  \A t \in Tokens : /\ Len(requests[t]) <= PerMinute
                                      /\ Recorded(requests[t], grants[t], now, Window)
                                      /\ Spaced(grants[t], PerMinute, Window)
  BY DEF WindowInv
<1>1. \A t \in Tokens : requests[t] = <<>> /\ grants[t] = <<>>
  BY DEF Init
<1>2. TAKE t \in Tokens
<1>3. Len(requests[t]) = 0 /\ Len(grants[t]) = 0
  BY <1>1
<1>4. Recorded(requests[t], grants[t], now, Window)
  BY <1>3 DEF Recorded
<1>5. Spaced(grants[t], PerMinute, Window)
  BY <1>3 DEF Spaced
<1> QED BY <1>3, <1>4, <1>5

LEMMA NextWindow == TypeInv /\ WindowInv /\ [Next]_vars => WindowInv'
<1> SUFFICES ASSUME TypeInv, WindowInv, [Next]_vars PROVE WindowInv'
  OBVIOUS
<1>1. now \in Nat /\ requests \in [Tokens -> Seq(Nat)] /\ grants \in [Tokens -> Seq(Nat)]
  BY DEF TypeInv, TypeOK
<1>2. CASE UNCHANGED <<now, requests, grants>>
  BY <1>2 DEF WindowInv
<1>3. ASSUME NEW c \in Calls, requests' = Trimmed(c), UNCHANGED <<now, grants>>
      PROVE  WindowInv'
  BY <1>3, TrimmedFacts DEF WindowInv, TypeInv
<1>4. ASSUME NEW c \in Calls, NEW t \in Tokens, Grant(c, t) PROVE WindowInv'
  <2>1. /\ Trimmed(c) \in [Tokens -> Seq(Nat)]
        /\ \A u \in Tokens : /\ Len(Trimmed(c)[u]) <= PerMinute
                             /\ Recorded(Trimmed(c)[u], grants[u], now, Window)
    BY TrimmedFacts DEF TypeInv
  <2>2. now' = now
    BY <1>4 DEF Grant
  <2>3. ASSUME NEW u \in Tokens, u # t
        PROVE  requests'[u] = Trimmed(c)[u] /\ grants'[u] = grants[u]
    BY <1>1, <1>4, <2>1, <2>3 DEF Grant
  <2>4. requests'[t] = Append(Trimmed(c)[t], now) /\ grants'[t] = Append(grants[t], now)
    BY <1>1, <1>4, <2>1 DEF Grant
  <2>5. Len(Trimmed(c)[t]) < PerMinute
    BY <1>4 DEF Grant, Free
  <2>6. Recorded(Trimmed(c)[t], grants[t], now, Window) /\ Spaced(grants[t], PerMinute, Window)
    BY <2>1 DEF WindowInv
  <2>7. /\ Recorded(requests'[t], grants'[t], now, Window)
        /\ Spaced(grants'[t], PerMinute, Window)
    BY <1>1, <2>1, <2>4, <2>5, <2>6, AppendKeeps
  <2>8. Len(requests'[t]) <= PerMinute
    BY <2>1, <2>4, <2>5
  <2> QED BY <2>1, <2>2, <2>3, <2>7, <2>8 DEF WindowInv
<1>5. CASE Tick
  <2>1. now' \in Nat /\ now' >= now /\ UNCHANGED <<requests, grants>>
    BY <1>1, <1>5 DEF Tick, history
  <2>2. \A t \in Tokens : Recorded(requests[t], grants[t], now', Window)
    <3>1. TAKE t \in Tokens
    <3>2. Len(requests[t]) \in Nat /\ grants[t] \in Seq(Nat)
      BY <1>1
    <3>3. Recorded(requests[t], grants[t], now, Window)
      BY DEF WindowInv
    <3> QED BY <1>1, <2>1, <3>2, <3>3, LaterKeeps
  <2> QED BY <2>1, <2>2 DEF WindowInv
<1>6. CASE \E c \in Calls : Sleep(c) \/ GiveUp(c)
  BY <1>3, <1>6 DEF Sleep, GiveUp, history
<1>7. CASE \E c \in Calls : \/ Load(c) \/ AskAgain(c) \/ CancelCall(c)
                            \/ \E o \in {"records", "empty"} : Answer(c, o)
                            \/ \E k \in Kinds : Fail(c, k)
  BY <1>2, <1>7 DEF Load, AskAgain, CancelCall, Answer, Fail, history
<1>8. CASE \E t \in Tokens, s \in {"active", "disabled"} : EditToken(t, s)
  BY <1>2, <1>8 DEF EditToken, history
<1>9. CASE UNCHANGED vars
  BY <1>2, <1>9 DEF vars, history
<1> QED BY <1>4, <1>5, <1>6, <1>7, <1>8, <1>9 DEF Next, Waiting

\* No window of 60 seconds holds more than rate_limit_per_minute reservations
\* of one token, whatever the interleaving of calls, sleeps and failures.
THEOREM WindowIsKept == Spec => []WindowKept
<1>1. WindowInv => WindowKept
  BY DEF WindowInv, WindowKept
<1> QED BY <1>1, InitType, NextType, InitWindow, NextWindow, PTL DEF Spec
-----------------------------------------------------------------------------
(* The fallback: how often each call has used each token. *)

Uses(s, c) == {i \in DOMAIN s : s[i].by = c}
Count(all, c, t) == Cardinality(Uses(all[t], c))

\* One more request in the record of a token.
LEMMA UsesAppend ==
  ASSUME NEW s \in Seq(Request), NEW r \in Request, NEW c \in Calls
  PROVE  /\ Cardinality(Uses(s, c)) \in Nat
         /\ (Uses(s, c) # {}) <=> (Cardinality(Uses(s, c)) >= 1)
         /\ Cardinality(Uses(Append(s, r), c)) =
              Cardinality(Uses(s, c)) + (IF r.by = c THEN 1 ELSE 0)
<1> DEFINE n == Len(s) + 1
           U == Uses(s, c)
           V == Uses(Append(s, r), c)
<1>1. /\ DOMAIN Append(s, r) = 1 .. n /\ Append(s, r)[n] = r
      /\ DOMAIN s = 1 .. n - 1 /\ \A i \in 1 .. n - 1 : Append(s, r)[i] = s[i]
  OBVIOUS
<1>2. n \in Nat \ {0}
  OBVIOUS
<1>3. IsFiniteSet(U) /\ U \subseteq 1 .. n - 1
  <2>1. IsFiniteSet(1 .. n - 1)
    BY <1>2, FS_Interval
  <2>2. U \subseteq 1 .. n - 1
    BY <1>1 DEF Uses
  <2> QED BY <2>1, <2>2, FS_Subset
<1>4. V = U \cup (IF r.by = c THEN {n} ELSE {})
  <2> HIDE DEF n
  <2>1. 1 .. n = 1 .. n - 1 \cup {n}
    BY <1>2
  <2> QED BY <1>1, <2>1 DEF Uses
<1>5. n \notin U
  BY <1>2, <1>3
<1> HIDE DEF n, U, V
<1>6. Cardinality(U) \in Nat /\ (Cardinality(U) = 0 <=> U = {})
  BY <1>3, FS_CardinalityType, FS_EmptySet
<1>7. Cardinality(V) = Cardinality(U) + (IF r.by = c THEN 1 ELSE 0)
  <2>1. CASE r.by = c
    <3>1. V = U \cup {n}
      BY <1>4, <2>1
    <3> QED BY <1>3, <1>5, <2>1, <3>1, FS_AddElement
  <2>2. CASE r.by # c
    BY <1>4, <1>6, <2>2
  <2> QED BY <2>1, <2>2
<1> QED BY <1>6, <1>7 DEF U, V

LEMMA CountFacts ==
  ASSUME TypeOK, NEW c \in Calls, NEW t \in Tokens
  PROVE  Count(sent, c, t) \in Nat /\ (t \in Asked(c) <=> Count(sent, c, t) >= 1)
<1>1. sent[t] \in Seq(Request) /\ [by |-> c, at |-> now] \in Request
  BY DEF TypeOK, Request
<1>2. t \in Asked(c) <=> Uses(sent[t], c) # {}
  BY DEF Asked, Uses
<1> QED BY <1>1, <1>2, UsesAppend DEF Count

\* A request of c with each token of S.
LEMMA CountSent ==
  ASSUME TypeOK, NEW c \in Calls, NEW S \in SUBSET Tokens, NEW r \in Request, r.by = c,
         \A t \in Tokens : sent'[t] = IF t \in S THEN Append(sent[t], r) ELSE sent[t]
  PROVE  \A d \in Calls, t \in Tokens :
           Count(sent', d, t) = Count(sent, d, t) + (IF d = c /\ t \in S THEN 1 ELSE 0)
<1> TAKE d \in Calls, t \in Tokens
<1>1. sent[t] \in Seq(Request)
  BY DEF TypeOK
<1>2. sent'[t] = IF t \in S THEN Append(sent[t], r) ELSE sent[t]
  OBVIOUS
<1>3. /\ Cardinality(Uses(sent[t], d)) \in Nat
      /\ Cardinality(Uses(Append(sent[t], r), d)) =
           Cardinality(Uses(sent[t], d)) + (IF r.by = d THEN 1 ELSE 0)
  BY <1>1, UsesAppend
<1>4. CASE t \in S
  BY <1>1, <1>2, <1>3, <1>4 DEF Count
<1>5. CASE t \notin S
  BY <1>2, <1>3, <1>5 DEF Count
<1> QED BY <1>4, <1>5

\* Where a call stands in its candidates: those it gave up were asked, those it has
\* left, but for the one whose slot it holds, were not.
Given(c) == values[c] \ cands[c]

Standing(c) ==
  /\ cur[c] \subseteq cands[c] /\ cands[c] \subseteq values[c]
  /\ pc[c] = "idle" => values[c] = {} /\ \A t \in Tokens : Count(sent, c, t) = 0
  /\ pc[c] \in {"idle", "reserve", "asleep"} => cur[c] = {}
  /\ pc[c] \in {"ask", "backoff"} =>
       \E t \in Tokens : cur[c] = {t} /\ Count(sent, c, t) = attempt[c] /\ attempt[c] >= 1
  /\ pc[c] # "done" => /\ outcome[c] = "none"
                       /\ \A t \in cands[c] \ cur[c] : Count(sent, c, t) = 0

Spent(c) ==
  /\ \A t \in Given(c) : Count(sent, c, t) >= 1
  /\ \A t \in Tokens : Count(sent, c, t) <= RetryCount + 1
  /\ outcome[c] = "failed" \/ (outcome[c] = "empty" /\ c \in Fallback)
       => \A t \in values[c] : Count(sent, c, t) >= 1

CallInv == \A c \in Calls : Standing(c) /\ Spent(c)

\* Nothing of the call d changed.
Kept(d) == /\ values'[d] = values[d] /\ cands'[d] = cands[d] /\ cur'[d] = cur[d]
           /\ pc'[d] = pc[d] /\ attempt'[d] = attempt[d] /\ outcome'[d] = outcome[d]
           /\ \A t \in Tokens : Count(sent', d, t) = Count(sent, d, t)

LEMMA KeptCall ==
  ASSUME TypeOK, NEW d \in Calls, Standing(d), Spent(d), Kept(d)
  PROVE  Standing(d)' /\ Spent(d)'
<1>1. cands[d] \subseteq Tokens /\ values[d] \subseteq Tokens
  BY DEF TypeOK
<1>2. Standing(d)'
  BY <1>1 DEF Standing, Kept
<1>3. Spent(d)'
  BY <1>1 DEF Spent, Kept, Given
<1> QED BY <1>2, <1>3

\* A call that goes to its next token leaves the others alone.
LEMMA NextTokenOthers ==
  ASSUME TypeOK, NEW c \in Calls, NEW d \in Calls, c # d, NextToken(c)
  PROVE  /\ pc'[d] = pc[d] /\ outcome'[d] = outcome[d]
         /\ cands'[d] = cands[d] /\ cur'[d] = cur[d]
<1>1. d \in DOMAIN pc /\ d \in DOMAIN outcome /\ d \in DOMAIN cands /\ d \in DOMAIN cur
  BY DEF TypeOK
<1>2. cands'[d] = cands[d] /\ cur'[d] = cur[d]
  BY <1>1 DEF NextToken
<1>3. CASE Ends(c, "failed")
  BY <1>1, <1>2, <1>3 DEF Ends
<1>4. CASE pc' = [pc EXCEPT ![c] = "reserve"] /\ UNCHANGED outcome
  BY <1>1, <1>2, <1>4
<1> QED BY <1>3, <1>4 DEF NextToken

\* The token in hand is given up: it was asked.
LEMMA NextTokenCall ==
  ASSUME TypeInv, NEW c \in Calls, Standing(c), Spent(c), pc[c] = "ask", NextToken(c),
         UNCHANGED <<values, attempt, sent>>
  PROVE  Standing(c)' /\ Spent(c)'
<1>0. TypeOK
  BY DEF TypeInv
<1>1. /\ cands[c] \subseteq Tokens /\ values[c] \subseteq Tokens /\ values' = values
      /\ cands'[c] = cands[c] \ cur[c] /\ cur'[c] = {} /\ sent' = sent
  BY <1>0 DEF NextToken, TypeOK
<1>2. PICK t \in Tokens : cur[c] = {t} /\ Count(sent, c, t) >= 1
  BY DEF Standing
<1>3. /\ pc'[c] \in {"reserve", "done"}
      /\ pc'[c] = "reserve" => outcome'[c] = outcome[c]
      /\ pc'[c] = "done" => cands[c] \subseteq cur[c]
  BY <1>0 DEF NextToken, Ends, TypeOK
<1>4. Standing(c)'
  <2>1. /\ cur'[c] \subseteq cands'[c] /\ cands'[c] \subseteq values'[c]
        /\ \A u \in cands'[c] \ cur'[c] : Count(sent', c, u) = 0
    BY <1>1 DEF Standing
  <2>2. pc'[c] # "done" => outcome'[c] = "none"
    BY <1>3 DEF Standing
  <2> QED BY <1>1, <1>3, <2>1, <2>2 DEF Standing
<1>5. \A u \in Given(c)' : Count(sent', c, u) >= 1
  BY <1>1, <1>2 DEF Given, Spent
<1>6. outcome'[c] # outcome[c] => \A u \in values[c] : Count(sent', c, u) >= 1
  <2>1. outcome'[c] # outcome[c] => cands[c] = {t}
    BY <1>2, <1>3 DEF Standing
  <2> QED BY <1>1, <1>2, <2>1 DEF Spent, Given
<1>7. Spent(c)'
  BY <1>1, <1>5, <1>6 DEF Spent
<1> QED BY <1>4, <1>7

LEMMA NextCalls == TypeInv /\ TypeOK' /\ CallInv /\ [Next]_vars => CallInv'
<1> SUFFICES ASSUME TypeInv, TypeOK', CallInv, [Next]_vars, NEW d \in Calls
             PROVE  Standing(d)' /\ Spent(d)'
  BY DEF CallInv
<1>0. /\ TypeOK /\ Standing(d) /\ Spent(d)
      /\ \A t \in Tokens : Count(sent, d, t) \in Nat /\ Count(sent', d, t) = Count(sent', d, t)
  BY CountFacts DEF TypeInv, CallInv
<1>1. ASSUME Kept(d) PROVE Standing(d)' /\ Spent(d)'
  BY <1>0, <1>1, KeptCall
<1>2. ASSUME NEW c \in Calls, Load(c) PROVE Standing(d)' /\ Spent(d)'
  <2>1. CASE c # d
    <3>1. Kept(d)
      BY <1>0, <1>2, <2>1 DEF Load, Kept, Ends, TypeOK, history
    <3> QED BY <1>1, <3>1
  <2>2. CASE c = d
    <3>1. /\ values[d] = {} /\ cands[d] = {} /\ cur[d] = {} /\ outcome[d] = "none"
          /\ \A t \in Tokens : Count(sent, d, t) = 0
      BY <1>0, <1>2, <2>2 DEF Load, Standing
    <3>2. sent' = sent /\ cur' = cur /\ attempt' = attempt
      BY <1>2 DEF Load, history
    <3>3. PICK usable \in SUBSET Tokens :
            /\ values'[d] = usable /\ cands'[d] = usable
            /\ IF usable = {} THEN pc'[d] = "done"
               ELSE pc'[d] = "reserve" /\ outcome'[d] = outcome[d]
      BY <1>0, <1>2, <2>2 DEF Load, Ends, TypeOK
    <3>4. Standing(d)'
      BY <3>1, <3>2, <3>3 DEF Standing
    <3>5. Spent(d)'
      BY <1>0, <3>1, <3>2, <3>3 DEF Spent, Given
    <3> QED BY <3>4, <3>5
  <2> QED BY <2>1, <2>2
<1>3. ASSUME NEW c \in Calls, NEW t \in Tokens, Grant(c, t) PROVE Standing(d)' /\ Spent(d)'
  <2>1. \A u \in Tokens : Count(sent', d, u) = Count(sent, d, u) + (IF d = c /\ u \in {t} THEN 1 ELSE 0)
    <3> DEFINE r == [by |-> c, at |-> now]
               S == {t}
    <3>1. sent' = [sent EXCEPT ![t] = Append(sent[t], r)] /\ sent \in [Tokens -> Seq(Request)]
      BY <1>0, <1>3 DEF Grant, TypeOK
    <3>2. r \in Request /\ r.by = c /\ S \in SUBSET Tokens
      BY <1>0 DEF Request, TypeOK
    <3> HIDE DEF r
    <3>3. \A u \in Tokens : sent'[u] = IF u \in S THEN Append(sent[u], r) ELSE sent[u]
      BY <3>1
    <3> HIDE DEF S
    <3>4. \A u \in Tokens : Count(sent', d, u) = Count(sent, d, u)
                                                 + (IF d = c /\ u \in S THEN 1 ELSE 0)
      BY <1>0, <3>2, <3>3, CountSent
    <3> QED BY <3>4 DEF S
  <2>2. CASE c # d
    <3>1. Kept(d)
      <4>1. \A u \in Tokens : Count(sent', d, u) = Count(sent, d, u)
        BY <1>0, <2>1, <2>2
      <4> QED BY <1>0, <1>3, <2>2, <4>1 DEF Grant, Kept, TypeOK
    <3> QED BY <1>1, <3>1
  <2>3. CASE c = d
    <3>1. /\ values'[d] = values[d] /\ cands'[d] = cands[d] /\ cur'[d] = {t}
          /\ pc'[d] = "ask" /\ attempt'[d] = 1 /\ outcome'[d] = outcome[d]
      BY <1>0, <1>3, <2>3 DEF Grant, TypeOK
    <3>2. pc[d] \in {"reserve", "asleep"} /\ t \in cands[d]
      BY <1>3, <2>3 DEF Grant, Reserving, Free
    <3>3. cur[d] = {} /\ Count(sent, d, t) = 0 /\ outcome[d] = "none"
      BY <1>0, <3>2 DEF Standing
    <3>4. Count(sent', d, t) = 1 /\ \A u \in Tokens \ {t} : Count(sent', d, u) = Count(sent, d, u)
      BY <1>0, <2>1, <2>3, <3>3
    <3>5. cands[d] \subseteq values[d] /\ values[d] \subseteq Tokens
      BY <1>0 DEF Standing, TypeOK
    <3>6. Standing(d)'
      <4>1. \A u \in cands[d] \ {t} : Count(sent', d, u) = 0
        BY <1>0, <3>2, <3>3, <3>4, <3>5 DEF Standing
      <4> QED BY <3>1, <3>2, <3>3, <3>4, <3>5, <4>1 DEF Standing
    <3>7. Spent(d)'
      <4>1. \A u \in Given(d)' : Count(sent', d, u) >= 1
        BY <1>0, <3>1, <3>2, <3>4, <3>5 DEF Spent, Given
      <4>2. \A u \in Tokens : Count(sent', d, u) <= RetryCount + 1
        BY <1>0, <3>4 DEF Spent
      <4> QED BY <3>1, <3>3, <4>1, <4>2 DEF Spent
    <3> QED BY <3>6, <3>7
  <2> QED BY <2>2, <2>3
<1>4. ASSUME NEW c \in Calls, Sleep(c) PROVE Standing(d)' /\ Spent(d)'
  <2>1. sent' = sent /\ values' = values /\ cands' = cands /\ cur' = cur
        /\ attempt' = attempt /\ outcome' = outcome
    BY <1>4 DEF Sleep, history
  <2>2. pc'[d] = pc[d] \/ (pc[d] \in {"reserve", "asleep"} /\ pc'[d] = "asleep")
    BY <1>0, <1>4 DEF Sleep, Reserving, TypeOK
  <2>3. Standing(d)'
    BY <1>0, <2>1, <2>2 DEF Standing
  <2>4. Spent(d)'
    BY <1>0, <2>1 DEF Spent, Given
  <2> QED BY <2>3, <2>4
\* An execution that ends keeps what it was about.
<1>5. ASSUME NEW c \in Calls, NEW o, Ends(c, o), UNCHANGED <<values, cands, cur, attempt, sent>>,
             o \notin {"failed", "empty"} \/ (o = "empty" /\ c \notin Fallback)
             \/ \A t \in values[c] : Count(sent, c, t) >= 1
      PROVE  Standing(d)' /\ Spent(d)'
  <2>1. CASE c # d
    <3>1. Kept(d)
      BY <1>0, <1>5, <2>1 DEF Ends, Kept, TypeOK
    <3> QED BY <1>1, <3>1
  <2>2. CASE c = d
    <3>1. pc'[d] = "done" /\ outcome'[d] = o
      BY <1>0, <1>5, <2>2 DEF Ends, TypeOK
    <3>2. Standing(d)'
      BY <1>0, <1>5, <3>1 DEF Standing
    <3>3. Spent(d)'
      BY <1>0, <1>5, <2>2, <3>1 DEF Spent, Given
    <3> QED BY <3>2, <3>3
  <2> QED BY <2>1, <2>2
<1>6. ASSUME NEW c \in Calls, GiveUp(c) \/ CancelCall(c) PROVE Standing(d)' /\ Spent(d)'
  <2>1. PICK o \in {"local_limit", "cancelled"} :
          Ends(c, o) /\ UNCHANGED <<values, cands, cur, attempt, sent>>
    BY <1>6 DEF GiveUp, CancelCall, history
  <2> QED BY <1>5, <2>1
<1>7. ASSUME NEW c \in Calls, NEW o \in {"records", "empty"}, Answer(c, o)
      PROVE  Standing(d)' /\ Spent(d)'
  <2>1. pc[c] = "ask" /\ UNCHANGED <<values, attempt, sent>>
    BY <1>7 DEF Answer, history
  <2>2. CASE NextToken(c)
    <3>1. CASE c # d
      <4>1. Kept(d)
        BY <1>0, <2>1, <2>2, <3>1, NextTokenOthers DEF Kept
      <4> QED BY <1>1, <4>1
    <3>2. CASE c = d
      BY <1>0, <2>1, <2>2, <3>2, NextTokenCall
    <3> QED BY <3>1, <3>2
  <2>3. CASE Ends(c, o) /\ UNCHANGED <<cands, cur>> /\ ~(o = "empty" /\ c \in Fallback)
    BY <1>5, <2>1, <2>3
  <2>4. CASE Ends(c, o) /\ UNCHANGED <<cands, cur>> /\ ~(Cardinality(cands[c]) > 1)
    <3>1. Standing(c) /\ Spent(c) /\ cands[c] \subseteq Tokens
      BY <1>0 DEF CallInv, TypeOK
    <3>2. PICK t \in Tokens : cur[c] = {t} /\ Count(sent, c, t) >= 1
      BY <2>1, <3>1 DEF Standing
    <3>3. IsFiniteSet(cands[c])
      BY <3>1, TokensAssumption, FS_Subset
    <3>4. cands[c] = {t}
      <4>1. {t} \in SUBSET cands[c]
        BY <3>1, <3>2 DEF Standing
      <4>2. Cardinality({t}) <= Cardinality(cands[c]) /\ Cardinality({t}) = 1
        BY <3>3, <4>1, FS_Subset, FS_Singleton
      <4>3. Cardinality(cands[c]) = Cardinality({t})
        BY <2>4, <3>3, <4>2, FS_CardinalityType
      <4> QED BY <3>3, <4>1, <4>3, FS_Subset
    <3>5. \A u \in values[c] : Count(sent, c, u) >= 1
      BY <3>1, <3>2, <3>4 DEF Spent, Given
    <3> QED BY <1>5, <2>1, <2>4, <3>5
  <2> QED BY <1>7, <2>2, <2>3, <2>4 DEF Answer
<1>8. ASSUME NEW c \in Calls, NEW k \in Kinds, Fail(c, k) PROVE Standing(d)' /\ Spent(d)'
  <2>1. pc[c] = "ask" /\ UNCHANGED <<values, attempt, sent>>
    BY <1>8 DEF Fail, history
  <2>2. CASE NextToken(c)
    <3>1. CASE c # d
      <4>1. Kept(d)
        BY <1>0, <2>1, <2>2, <3>1, NextTokenOthers DEF Kept
      <4> QED BY <1>1, <4>1
    <3>2. CASE c = d
      BY <1>0, <2>1, <2>2, <3>2, NextTokenCall
    <3> QED BY <3>1, <3>2
  <2>3. CASE pc' = [pc EXCEPT ![c] = "backoff"] /\ UNCHANGED <<cands, cur, outcome>>
    <3>1. pc'[d] = pc[d] \/ (pc[d] = "ask" /\ pc'[d] = "backoff")
      BY <1>0, <2>1, <2>3 DEF TypeOK
    <3>2. Standing(d)'
      BY <1>0, <2>1, <2>3, <3>1 DEF Standing
    <3>3. Spent(d)'
      BY <1>0, <2>1, <2>3 DEF Spent, Given
    <3> QED BY <3>2, <3>3
  <2> QED BY <1>8, <2>2, <2>3 DEF Fail
<1>9. ASSUME NEW c \in Calls, AskAgain(c) PROVE Standing(d)' /\ Spent(d)'
  <2>1. \A u \in Tokens : Count(sent', d, u) = Count(sent, d, u)
                                               + (IF d = c /\ u \in cur[c] THEN 1 ELSE 0)
    <3> DEFINE r == [by |-> c, at |-> now]
               S == cur[c]
    <3>1. sent' = [u \in Tokens |-> IF u \in S THEN Append(sent[u], r) ELSE sent[u]]
      BY <1>9 DEF AskAgain
    <3>2. r \in Request /\ r.by = c /\ S \in SUBSET Tokens
      BY <1>0 DEF Request, TypeOK
    <3> HIDE DEF r, S
    <3>3. \A u \in Tokens : sent'[u] = IF u \in S THEN Append(sent[u], r) ELSE sent[u]
      BY <3>1
    <3>4. \A u \in Tokens : Count(sent', d, u) = Count(sent, d, u)
                                                 + (IF d = c /\ u \in S THEN 1 ELSE 0)
      BY <1>0, <3>2, <3>3, CountSent
    <3> QED BY <3>4 DEF S
  <2>2. CASE c # d
    <3>1. \A u \in Tokens : Count(sent', d, u) = Count(sent, d, u)
      BY <1>0, <2>1, <2>2
    <3>2. UNCHANGED <<values, cands, cur, outcome>> /\ pc'[d] = pc[d] /\ attempt'[d] = attempt[d]
      BY <1>0, <1>9, <2>2 DEF AskAgain, TypeOK
    <3>3. Kept(d)
      BY <3>1, <3>2 DEF Kept
    <3> QED BY <1>1, <3>3
  <2>3. CASE c = d
    <3>1. /\ values'[d] = values[d] /\ cands'[d] = cands[d] /\ cur'[d] = cur[d]
          /\ pc'[d] = "ask" /\ attempt'[d] = attempt[d] + 1 /\ outcome'[d] = outcome[d]
      BY <1>0, <1>9, <2>3 DEF AskAgain, TypeOK
    <3>2. PICK t \in Tokens : cur[d] = {t} /\ Count(sent, d, t) = attempt[d] /\ attempt[d] >= 1
      BY <1>0, <1>9, <2>3 DEF AskAgain, Standing
    <3>3. attempt[d] <= RetryCount /\ attempt[d] \in Nat
      BY <1>9, <2>3 DEF AskAgain, TypeInv, TypeOK, RetryLeft
    <3>4. /\ Count(sent', d, t) = attempt[d] + 1
          /\ \A u \in Tokens \ {t} : Count(sent', d, u) = Count(sent, d, u)
      BY <1>0, <2>1, <2>3, <3>2
    <3>5. cands[d] \subseteq values[d] /\ values[d] \subseteq Tokens /\ outcome[d] = "none"
      BY <1>0, <1>9, <2>3 DEF Standing, TypeOK, AskAgain
    <3>6. Standing(d)'
      <4>1. \A u \in cands[d] \ {t} : Count(sent', d, u) = 0
        BY <1>0, <1>9, <2>3, <3>2, <3>4, <3>5 DEF Standing, AskAgain
      <4>2. cur'[d] \subseteq cands'[d]
        BY <1>0, <3>1 DEF Standing
      <4> QED BY <3>1, <3>2, <3>3, <3>4, <3>5, <4>1, <4>2 DEF Standing
    <3>7. Spent(d)'
      <4>1. \A u \in Given(d)' : Count(sent', d, u) >= 1
        BY <1>0, <3>1, <3>2, <3>3, <3>4, <3>5 DEF Spent, Given
      <4>2. \A u \in Tokens : Count(sent', d, u) <= RetryCount + 1
        BY <1>0, <3>3, <3>4 DEF Spent
      <4> QED BY <3>1, <3>5, <4>1, <4>2 DEF Spent
    <3> QED BY <3>6, <3>7
  <2> QED BY <2>2, <2>3
<1>10. CASE \/ \E t \in Tokens, s \in {"active", "disabled"} : EditToken(t, s)
            \/ Tick \/ UNCHANGED vars
  <2>1. UNCHANGED <<values, cands, cur, pc, attempt, outcome, sent>>
    BY <1>10 DEF EditToken, Tick, vars, callVars, history
  <2>2. Kept(d)
    BY <1>0, <2>1 DEF Kept
  <2> QED BY <1>1, <2>2
<1> QED BY <1>2, <1>3, <1>4, <1>6, <1>7, <1>8, <1>9, <1>10 DEF Next, Waiting

LEMMA InitCalls == Init => CallInv
<1> SUFFICES ASSUME Init, NEW c \in Calls PROVE Standing(c) /\ Spent(c)
  BY DEF CallInv
<1>1. /\ values[c] = {} /\ cands[c] = {} /\ cur[c] = {} /\ pc[c] = "idle"
      /\ outcome[c] = "none"
  BY DEF Init
<1>2. \A t \in Tokens : Count(sent, c, t) = 0
  <2> TAKE t \in Tokens
  <2>1. Uses(sent[t], c) = {}
    BY DEF Init, Uses
  <2> QED BY <2>1, FS_EmptySet DEF Count
<1>3. Standing(c)
  BY <1>1, <1>2 DEF Standing
<1>4. Spent(c)
  BY <1>1, <1>2 DEF Spent, Given
<1> QED BY <1>3, <1>4

LEMMA CallInvariant == Spec => [](TypeInv /\ WindowInv /\ CallInv)
<1>1. TypeInv => TypeOK
  BY DEF TypeInv
<1> QED BY <1>1, InitType, NextType, InitWindow, NextWindow, InitCalls, NextCalls, PTL DEF Spec

\* A call fails, or takes an empty answer, only after every token was asked, and
\* asks none more often than the retries of one slot.
THEOREM FallbackIsSound == Spec => []FallbackSound
<1>1. TypeInv /\ CallInv => FallbackSound
  <2> SUFFICES ASSUME TypeInv, CallInv PROVE FallbackSound
    OBVIOUS
  <2>1. TypeOK
    BY DEF TypeInv
  <2>2. GivesUpLast
    <3> SUFFICES ASSUME NEW c \in Calls, outcome[c] = "failed" \/ (outcome[c] = "empty" /\ c \in Fallback),
                        NEW t \in values[c]
                 PROVE  t \in Asked(c)
      BY DEF GivesUpLast
    <3>1. t \in Tokens /\ Count(sent, c, t) >= 1
      BY <2>1 DEF TypeOK, CallInv, Spent
    <3> QED BY <2>1, <3>1, CountFacts
  <2>3. AskedOnce
    BY DEF AskedOnce, CallInv, Spent, Count, Uses
  <2> QED BY <2>2, <2>3 DEF FallbackSound
<1> QED BY <1>1, CallInvariant, PTL
-----------------------------------------------------------------------------
(* The refusals of the local limit. *)

\* Reservations are recorded in the order they were made.
Ordered(g, at) == /\ \A i \in 1 .. Len(g) : g[i] <= at
                  /\ \A i, j \in 1 .. Len(g) : i <= j => g[i] <= g[j]

OrderInv == \A t \in Tokens : Ordered(grants[t], now)

LEMMA OrderedAppend ==
  ASSUME NEW g \in Seq(Nat), NEW at \in Nat, Ordered(g, at)
  PROVE  Ordered(Append(g, at), at)
<1> DEFINE h == Append(g, at)
<1>1. /\ Len(h) = Len(g) + 1 /\ h[Len(g) + 1] = at /\ Len(g) \in Nat
      /\ \A i \in 1 .. Len(g) : h[i] = g[i]
  OBVIOUS
<1> HIDE DEF h
<1>2. PICK n \in Nat : n = Len(g)
  BY <1>1
<1>3. \A i \in 1 .. n + 1 : i \in 1 .. n \/ i = n + 1
  OBVIOUS
<1>4. \A i \in 1 .. n + 1 : h[i] <= at
  BY <1>1, <1>2, <1>3 DEF Ordered
<1>5. ASSUME NEW i \in 1 .. n + 1, NEW j \in 1 .. n + 1, i <= j PROVE h[i] <= h[j]
  <2>1. CASE j = n + 1
    BY <1>1, <1>2, <1>4, <2>1
  <2>2. CASE j # n + 1
    <3>1. i \in 1 .. n /\ j \in 1 .. n
      BY <1>5, <2>2
    <3> QED BY <1>1, <1>2, <1>5, <3>1 DEF Ordered
  <2> QED BY <2>1, <2>2
<1> QED BY <1>1, <1>2, <1>4, <1>5 DEF Ordered, h

LEMMA NextOrder == TypeInv /\ OrderInv /\ [Next]_vars => OrderInv'
<1> SUFFICES ASSUME TypeInv, OrderInv, [Next]_vars PROVE OrderInv'
  OBVIOUS
<1>1. now \in Nat /\ grants \in [Tokens -> Seq(Nat)]
  BY DEF TypeInv, TypeOK
<1>2. CASE UNCHANGED <<now, grants>>
  BY <1>2 DEF OrderInv
<1>3. ASSUME NEW c \in Calls, NEW t \in Tokens, Grant(c, t) PROVE OrderInv'
  <2>1. now' = now /\ grants' = [grants EXCEPT ![t] = Append(grants[t], now)]
    BY <1>3 DEF Grant
  <2>2. Ordered(Append(grants[t], now), now)
    BY <1>1, OrderedAppend DEF OrderInv
  <2> QED BY <1>1, <2>1, <2>2 DEF OrderInv
<1>4. CASE Tick
  <2>1. now' = now + 1 /\ grants' = grants
    BY <1>4 DEF Tick, history
  <2>2. ASSUME NEW t \in Tokens PROVE Ordered(grants'[t], now')
    <3>1. PICK g \in Seq(Nat) : g = grants[t] /\ Ordered(g, now)
      BY <1>1 DEF OrderInv
    <3>2. \A i \in 1 .. Len(g) : g[i] \in Nat
      BY <3>1
    <3>3. \A x \in Nat : x <= now => x <= now + 1
      BY <1>1
    <3> QED BY <2>1, <3>1, <3>2, <3>3 DEF Ordered
  <2> QED BY <2>2 DEF OrderInv
<1>5. CASE \E c \in Calls : \/ Load(c) \/ Sleep(c) \/ GiveUp(c) \/ AskAgain(c) \/ CancelCall(c)
                            \/ \E o \in {"records", "empty"} : Answer(c, o)
                            \/ \E k \in Kinds : Fail(c, k)
  BY <1>2, <1>5 DEF Load, Sleep, GiveUp, AskAgain, CancelCall, Answer, Fail, history
<1>6. CASE \/ \E t \in Tokens, s \in {"active", "disabled"} : EditToken(t, s)
           \/ UNCHANGED vars
  BY <1>2, <1>6 DEF EditToken, vars, history
<1> QED BY <1>3, <1>4, <1>5, <1>6 DEF Next, Waiting

LEMMA YoungerStays ==
  \A x, y, at, w \in Nat : x <= y /\ ~Aged(x, at, w) => ~Aged(y, at, w)
BY DEF Aged

\* What a trimmed deque still holds is inside the window, and it is all that is.
Inside(g, at, w) == {i \in DOMAIN g : ~Aged(g[i], at, w)}

LEMMA TrimmedIsRecent ==
  ASSUME NEW q \in Seq(Nat), NEW g \in Seq(Nat), NEW at \in Nat, NEW w \in Nat,
         Recorded(q, g, at, w), Ordered(g, at)
  PROVE  /\ Cardinality(Inside(g, at, w)) = Len(Trim(q, at, w))
         /\ \A i \in Inside(g, at, w) : g[i] \in Nat /\ g[i] >= Trim(q, at, w)[1]
<1> DEFINE k == Drops(q, at, w)
           p == SubSeq(q, k + 1, Len(q))
           R == Inside(g, at, w)
<1>0. Trim(q, at, w) = p
  BY DEF Trim
<1>2. k \in 0 .. Len(q) /\ (k < Len(q) => ~Aged(q[k + 1], at, w))
  BY DropsExist
<1> HIDE DEF k
<1>3. Len(p) = Len(q) - k /\ \A i \in 1 .. Len(p) : p[i] = q[k + i]
  BY <1>2
<1> HIDE DEF p
<1>1. p \in Seq(Nat) /\ Recorded(p, g, at, w)
  BY <1>0, TrimKeeps
<1>4. PICK n \in Nat, m \in Nat : n = Len(g) /\ m = Len(p) /\ m <= n
  BY <1>1 DEF Recorded
<1>5. PICK b \in 1 .. n + 1 : b = n - m + 1
  <2>1. n - m + 1 \in 1 .. n + 1
    BY <1>4
  <2> QED BY <2>1
<1>6. ASSUME m > 0 PROVE ~Aged(p[1], at, w) /\ p[1] = g[b]
  <2>1. k < Len(q) /\ 1 \in 1 .. Len(p) /\ Len(g) - Len(p) + 1 = b
    <3>0. PICK l \in Nat : l = Len(q)
      OBVIOUS
    <3>1. k \in 0 .. l /\ m = l - k
      BY <1>2, <1>3, <1>4, <3>0
    <3>2. k < l /\ 1 \in 1 .. m
      BY <1>6, <3>1
    <3>3. Len(g) - Len(p) + 1 = b
      BY <1>4, <1>5
    <3> QED BY <1>4, <3>0, <3>2, <3>3
  <2>2. p[1] = q[k + 1]
    BY <1>3, <2>1
  <2>3. p[1] = g[Len(g) - Len(p) + 1]
    BY <1>1, <2>1 DEF Recorded
  <2> QED BY <1>2, <2>1, <2>2, <2>3
<1>7. ASSUME NEW i \in 1 .. n, i < b PROVE Aged(g[i], at, w)
  <2>1. i \in 1 .. Len(g) - Len(p)
    BY <1>4, <1>5, <1>7
  <2> QED BY <1>1, <2>1 DEF Recorded
<1>8. \A i \in 1 .. n : g[i] \in Nat
  BY <1>4
<1>9. ASSUME NEW i \in 1 .. n, b <= i PROVE ~Aged(g[i], at, w) /\ g[i] >= p[1]
  <2>1. m > 0 /\ b \in 1 .. n
    BY <1>4, <1>5, <1>9
  <2>2. g[b] <= g[i]
    BY <1>4, <1>9, <2>1 DEF Ordered
  <2>3. g[b] \in Nat /\ g[i] \in Nat
    BY <1>8, <2>1
  <2>4. ~Aged(g[b], at, w) /\ p[1] = g[b]
    BY <1>6, <2>1
  <2>5. PICK x \in Nat, y \in Nat : x = g[b] /\ y = g[i] /\ x <= y
    BY <2>2, <2>3
  <2>6. ~Aged(x, at, w) => ~Aged(y, at, w)
    BY <2>5, YoungerStays
  <2> QED BY <2>4, <2>5, <2>6
<1>10. R = b .. n
  <2>1. DOMAIN g = 1 .. n
    BY <1>4
  <2>2. \A i \in 1 .. n : (i < b \/ b <= i) /\ (b <= i <=> i \in b .. n) /\ ~(i < b /\ b <= i)
    BY <1>5
  <2>3. b .. n \subseteq 1 .. n
    BY <1>5
  <2> QED BY <1>7, <1>9, <2>1, <2>2, <2>3 DEF Inside
<1>11. Cardinality(R) = m
  <2>1. Cardinality(b .. n) = IF b > n THEN 0 ELSE n - b + 1
    BY <1>5, FS_Interval
  <2>2. Cardinality(b .. n) = m
    BY <1>4, <1>5, <2>1
  <2> QED BY <1>10, <2>2
<1>12. \A i \in R : i \in 1 .. n /\ b <= i
  BY <1>5, <1>10
<1> QED BY <1>0, <1>4, <1>8, <1>9, <1>11, <1>12

\* Only GiveUp records that the local limit refused a call.
LEMMA RefusalIsGiveUp ==
  ASSUME TypeInv, CallInv, [Next]_vars, NEW c \in Calls,
         pc[c] # "done", outcome'[c] = "local_limit"
  PROVE  GiveUp(c)
<1>1. outcome[c] = "none" /\ outcome \in [Calls -> Outcomes]
  BY DEF CallInv, Standing, TypeInv, TypeOK
<1>2. outcome' # outcome
  BY <1>1
<1>3. ASSUME NEW d \in Calls, NEW o \in Outcomes \ {"local_limit"}, Ends(d, o) PROVE FALSE
  BY <1>1, <1>3 DEF Ends
<1>4. ASSUME NEW d \in Calls, GiveUp(d) PROVE GiveUp(c)
  BY <1>1, <1>4 DEF GiveUp, Ends
<1>5. ASSUME NEW d \in Calls, NextToken(d) PROVE FALSE
  BY <1>2, <1>3, <1>5 DEF NextToken, Outcomes
<1>6. ASSUME NEW d \in Calls, Load(d) PROVE FALSE
  BY <1>2, <1>3, <1>6 DEF Load, Outcomes
<1>7. ASSUME NEW d \in Calls, CancelCall(d) PROVE FALSE
  BY <1>3, <1>7 DEF CancelCall, Outcomes
<1>8. ASSUME NEW d \in Calls, NEW o \in {"records", "empty"}, Answer(d, o) PROVE FALSE
  BY <1>3, <1>5, <1>8 DEF Answer, Outcomes
<1>9. ASSUME NEW d \in Calls, NEW k \in Kinds, Fail(d, k) PROVE FALSE
  BY <1>2, <1>5, <1>9 DEF Fail
<1>10. ASSUME NEW d \in Calls, Sleep(d) \/ AskAgain(d) \/ \E t \in Tokens : Grant(d, t)
       PROVE  FALSE
  BY <1>2, <1>10 DEF Sleep, AskAgain, Grant
<1>11. CASE \/ \E t \in Tokens, s \in {"active", "disabled"} : EditToken(t, s)
            \/ Tick \/ UNCHANGED vars
  BY <1>2, <1>11 DEF EditToken, Tick, vars, callVars
<1> QED BY <1>4, <1>6, <1>7, <1>8, <1>9, <1>10, <1>11 DEF Next, Waiting

\* The local limit only refuses a call whose candidates are all used up, and none
\* of them is free again before its deadline.
THEOREM RefusalsAreJustified == Spec => RefusalJustified
<1>1. Init => OrderInv
  <2> SUFFICES ASSUME Init, NEW t \in Tokens PROVE Ordered(grants[t], now)
    BY DEF OrderInv
  <2>1. grants[t] = <<>>
    BY DEF Init
  <2> QED BY <2>1 DEF Ordered
<1>2. TypeInv /\ WindowInv /\ CallInv /\ OrderInv /\ [Next]_vars
      => [\A c \in Calls : pc[c] # "done" /\ outcome'[c] = "local_limit"
            => \A t \in cands[c] :
                 /\ Cardinality(Recent(t)) >= PerMinute
                 /\ \A i \in Recent(t) : grants[t][i] + Window > Deadline(c)]_vars
  <2> SUFFICES ASSUME TypeInv, WindowInv, CallInv, OrderInv, [Next]_vars, NEW c \in Calls,
                      pc[c] # "done", outcome'[c] = "local_limit", NEW t \in cands[c]
               PROVE  /\ Cardinality(Recent(t)) >= PerMinute
                      /\ \A i \in Recent(t) : grants[t][i] + Window > Deadline(c)
    OBVIOUS
  <2>0. /\ now \in Nat /\ t \in Tokens /\ Deadline(c) \in Nat
        /\ requests[t] \in Seq(Nat) /\ grants[t] \in Seq(Nat)
    BY DEF TypeInv, TypeOK, Deadline
  <2>1. PICK w \in 0 .. Window : /\ Free(c) = {} /\ \A v \in Waits(c) : w <= v
                                 /\ now + w > Deadline(c)
    BY RefusalIsGiveUp DEF GiveUp, NoFreeUntil
  <2> DEFINE p == Trim(requests[t], now, Window)
  <2>2. Trimmed(c)[t] = p
    BY <2>0 DEF Trimmed
  <2>3. p \in Seq(Nat) /\ Len(p) >= PerMinute
    <3>1. p \in Seq(Nat)
      BY <2>0, TrimKeeps DEF WindowInv
    <3>2. ~(Len(p) < PerMinute)
      BY <2>1, <2>2 DEF Free
    <3> HIDE DEF p
    <3>3. Len(p) \in Nat
      BY <3>1
    <3> QED BY <3>1, <3>2, <3>3
  <2>4. /\ Cardinality(Recent(t)) = Len(p)
        /\ \A i \in Recent(t) : grants[t][i] \in Nat /\ grants[t][i] >= p[1]
    <3>1. Recent(t) = Inside(grants[t], now, Window)
      BY DEF Recent, Inside
    <3>2. Recorded(requests[t], grants[t], now, Window) /\ Ordered(grants[t], now)
      BY <2>0 DEF WindowInv, OrderInv
    <3>3. \A g \in Seq(Nat) : g = grants[t] =>
            /\ Cardinality(Inside(g, now, Window)) = Len(p)
            /\ \A i \in Inside(g, now, Window) : g[i] \in Nat /\ g[i] >= p[1]
      BY <2>0, <3>2, TrimmedIsRecent, LimitAssumption
    <3> QED BY <2>0, <3>1, <3>3
  <2>5. p[1] \in Nat /\ w <= Window - (now - p[1])
    <3>1. Window - (now - Head(p)) \in Waits(c)
      BY <2>2 DEF Waits
    <3> HIDE DEF p
    <3>2. Head(p) = p[1] /\ p[1] \in Nat
      BY <2>3
    <3> QED BY <2>1, <3>1, <3>2
  <2> HIDE DEF p
  <2>6. \A i \in Recent(t) : grants[t][i] + Window > Deadline(c)
    <3> TAKE i \in Recent(t)
    <3>1. PICK a \in Nat : a = grants[t][i] /\ a >= p[1]
      BY <2>4
    <3>2. now + w > Deadline(c) /\ w <= Window - (now - p[1])
      BY <2>1, <2>5
    <3>3. PICK f \in Nat, D \in Nat, n \in Nat : f = p[1] /\ D = Deadline(c) /\ n = now
      BY <2>0, <2>5
    <3>4. n + w > D /\ w <= Window - (n - f) /\ a >= f
      BY <3>1, <3>2, <3>3
    <3>5. a + Window > D
      BY <3>4
    <3> QED BY <3>1, <3>3, <3>5
  <2> QED BY <2>3, <2>4, <2>6
<1> QED BY <1>1, <1>2, CallInvariant, NextOrder, PTL DEF Spec, RefusalJustified
=============================================================================
