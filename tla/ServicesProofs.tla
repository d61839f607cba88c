--------------------------- MODULE ServicesProofs ---------------------------
(***************************************************************************)
(* What the parts that serve stored data keep, for every value of their    *)
(* constants: the columns of a factor row, the keys of the configuration   *)
(* centre, the answers of queries, the members of pools, the minute bars   *)
(* the instances share, the chains of skills, the ladder after the close,  *)
(* the boards of the daily review and the events of a realtime round.      *)
(* Each part has its own variables and its own inductive invariant.        *)
(***************************************************************************)
EXTENDS Services, Sequences, FiniteSetTheorems, WellFoundedInduction, TLAPS

-----------------------------------------------------------------------------
(* The factor row                                                          *)

\* The row is of its type, and a core that is ready has its columns of the series.
RowInv ==
  part = "row" =>
    /\ Factor!TypeOK
    /\ factorRow.core = "ready" => factorRow.has["core"] # "none"

RowType == [stored: BOOLEAN, has: [Factor!Columns -> {"none", "pro", "local"}],
            price: Factor!Statuses, core: Factor!Statuses, extended: Factor!Statuses,
            valuation: Factor!Statuses, final: BOOLEAN,
            source: SUBSET {"pro", "local", "core", "rsi14", "rebase"},
            flags: SUBSET {"core_missing", "fallback"}]
CoreHas(r) == r.core = "ready" => r.has["core"] # "none"

\* What the provider maps, and what it merges into a row, is a row.
LEMMA MappedRow ==
  ASSUME NEW given \in SUBSET Factor!ProColumns
  PROVE  Factor!Mapped(given) \in RowType /\ CoreHas(Factor!Mapped(given))
<1> USE DEF Factor!ProColumns, Factor!CoreColumns, Factor!Columns, Factor!Statuses
<1>1. Factor!NoRow \in RowType
  BY DEF Factor!NoRow, Factor!Empty, RowType
<1>2. [c \in Factor!Columns |-> IF c \in given THEN "pro" ELSE "none"]
        \in [Factor!Columns -> {"none", "pro", "local"}]
  OBVIOUS
<1>3. Factor!Readiness("price" \in given) \in Factor!Statuses
      /\ Factor!Readiness(Factor!CoreColumns \subseteq given) \in Factor!Statuses
      /\ Factor!Readiness("extended" \in given) \in Factor!Statuses
  BY DEF Factor!Readiness
<1>4. Factor!Mapped(given) \in RowType
  BY <1>1, <1>2, <1>3, ZenonT(60) DEF Factor!Mapped, RowType, Factor!ProSource
<1>5. CoreHas(Factor!Mapped(given))
  BY <1>1 DEF Factor!Mapped, RowType, CoreHas, Factor!Readiness
<1> QED
  BY <1>4, <1>5

LEMMA CoalescedColumns ==
  ASSUME NEW a \in [Factor!Columns -> {"none", "pro", "local"}],
         NEW b \in [Factor!Columns -> {"none", "pro", "local"}]
  PROVE  /\ Factor!Coalesced(a, b) \in [Factor!Columns -> {"none", "pro", "local"}]
         /\ \A c \in Factor!Columns : Factor!Coalesced(a, b)[c] =
              IF a[c] # "none" THEN a[c] ELSE b[c]
BY DEF Factor!Coalesced

LEMMA MergedRow ==
  ASSUME NEW old \in RowType, NEW new \in RowType, CoreHas(old), CoreHas(new)
  PROVE  Factor!Merged(old, new) \in RowType /\ CoreHas(Factor!Merged(old, new))
<1>1. "core" \in Factor!Columns
  BY DEF Factor!Columns, Factor!ProColumns, Factor!CoreColumns
<1>2. /\ Factor!Better(new.price, old.price) \in Factor!Statuses
      /\ Factor!Better(new.core, old.core) \in Factor!Statuses
      /\ Factor!Better(new.core, old.core) = "ready" => new.core = "ready" \/ old.core = "ready"
      /\ Factor!Better(new.extended, old.extended) \in Factor!Statuses
  BY DEF Factor!Better, RowType, Factor!Statuses
<1>3. old.has \in [Factor!Columns -> {"none", "pro", "local"}]
      /\ new.has \in [Factor!Columns -> {"none", "pro", "local"}]
  BY DEF RowType
<1>4. PICK h : h = Factor!Coalesced(new.has, old.has)
  OBVIOUS
<1>5. h \in [Factor!Columns -> {"none", "pro", "local"}]
      /\ h["core"] = IF new.has["core"] # "none" THEN new.has["core"] ELSE old.has["core"]
  BY <1>1, <1>3, <1>4, CoalescedColumns
<1>6. Factor!Merged(old, new) =
        [old EXCEPT !.has = h, !.price = Factor!Better(new.price, old.price),
          !.core = Factor!Better(new.core, old.core),
          !.extended = Factor!Better(new.extended, old.extended),
          !.source = IF "ready" \in {new.core, new.extended} \/ old.source = {} THEN new.source ELSE old.source,
          !.flags = IF new.core = "ready" THEN old.flags \ {"core_missing", "fallback"}
                    ELSE old.flags \cup {"core_missing"}]
  BY <1>4 DEF Factor!Merged, RowType
<1>7. Factor!Merged(old, new) \in RowType
  <2>1. (IF "ready" \in {new.core, new.extended} \/ old.source = {} THEN new.source ELSE old.source)
          \in SUBSET {"pro", "local", "core", "rsi14", "rebase"}
    BY DEF RowType
  <2>2. (IF new.core = "ready" THEN old.flags \ {"core_missing", "fallback"} ELSE old.flags \cup {"core_missing"})
          \in SUBSET {"core_missing", "fallback"}
    BY DEF RowType
  <2> QED
    BY <1>2, <1>5, <1>6, <2>1, <2>2, ZenonT(60) DEF RowType
<1>8. /\ Factor!Merged(old, new).core = Factor!Better(new.core, old.core)
      /\ Factor!Merged(old, new).has = h
  BY <1>6 DEF RowType
<1> QED
  BY <1>2, <1>5, <1>7, <1>8 DEF CoreHas

\* What the calculation writes is a row that keeps the provider's columns; the assembly leaves
\* the price and the averages, the filling the core and the RSI.
Keeps(r, s) == \A c \in Factor!Columns : /\ r.has[c] = "pro" => s.has[c] = "pro"
                                         /\ r.has[c] # "none" => s.has[c] # "none"

LEMMA AssembledRow ==
  ASSUME Factor!TypeOK, CoreHas(factorRow), NEW only \in BOOLEAN
  PROVE  /\ Factor!Assembled(only) \in RowType /\ CoreHas(Factor!Assembled(only))
         /\ Keeps(factorRow, Factor!Assembled(only))
         /\ {"bar", "adjust"} \subseteq rowFacts /\ ~only =>
              /\ Factor!Assembled(only).stored /\ Factor!Assembled(only).price = "ready"
              /\ Factor!Assembled(only).has["price"] # "none" /\ Factor!Assembled(only).has["ma"] # "none"
<1>1. factorRow \in RowType
  BY DEF Factor!TypeOK, RowType
<1>2. CASE "bar" \notin rowFacts \/ (only /\ Factor!Settled)
  BY <1>1, <1>2 DEF Factor!Assembled, Keeps
<1>3. CASE ~("bar" \notin rowFacts \/ (only /\ Factor!Settled))
  <2>1. PICK l : l = [c \in Factor!Columns |->
             IF "adjust" \in rowFacts /\ c \in {"price", "ma"} THEN "local" ELSE "none"]
    OBVIOUS
  <2>2. PICK h : h = Factor!Coalesced(factorRow.has, l)
    OBVIOUS
  <2>3. /\ h \in [Factor!Columns -> {"none", "pro", "local"}]
        /\ \A c \in Factor!Columns : h[c] = IF factorRow.has[c] # "none" THEN factorRow.has[c] ELSE l[c]
    BY <1>1, <2>1, <2>2, CoalescedColumns DEF RowType
  <2>4. Factor!Held("adjust") \in Factor!Statuses /\ Factor!Held("basic") \in Factor!Statuses
        /\ ("adjust" \in rowFacts => Factor!Held("adjust") = "ready")
    BY DEF Factor!Held, Factor!Statuses
  <2>5. Factor!Assembled(only) =
          [factorRow EXCEPT !.stored = TRUE, !.has = h, !.price = Factor!Held("adjust"),
             !.valuation = Factor!Held("basic"), !.flags = {}, !.final = TRUE]
    BY <1>1, <1>3, <2>1, <2>2 DEF Factor!Assembled, RowType
  <2>6. Factor!Assembled(only) \in RowType
    BY <1>1, <2>3, <2>4, <2>5, ZenonT(60) DEF RowType
  <2>7. /\ Factor!Assembled(only).has = h /\ Factor!Assembled(only).core = factorRow.core
        /\ Factor!Assembled(only).stored /\ Factor!Assembled(only).price = Factor!Held("adjust")
    BY <1>1, <2>5 DEF RowType
  <2>8. "core" \in Factor!Columns /\ "price" \in Factor!Columns /\ "ma" \in Factor!Columns
    BY DEF Factor!Columns, Factor!ProColumns, Factor!CoreColumns
  <2> QED
    BY <1>1, <2>1, <2>3, <2>4, <2>6, <2>7, <2>8 DEF CoreHas, Keeps, RowType
<1> QED
  BY <1>2, <1>3

LEMMA FilledRow ==
  ASSUME NEW r \in RowType, CoreHas(r)
  PROVE  /\ Factor!Filled(r) \in RowType /\ CoreHas(Factor!Filled(r)) /\ Keeps(r, Factor!Filled(r))
         /\ Factor!Filled(r).price = r.price
         /\ {"bar", "adjust"} \subseteq rowFacts /\ r.stored =>
              /\ Factor!Filled(r).core = "ready" /\ Factor!Filled(r).has["core"] # "none"
              /\ Factor!Filled(r).has["rsi14"] # "none"
<1>1. "core" \in Factor!Columns /\ "rsi14" \in Factor!Columns
  BY DEF Factor!Columns, Factor!ProColumns, Factor!CoreColumns
<1>2. CASE ~r.stored \/ ~({"bar", "adjust"} \subseteq rowFacts) \/ ~(Factor!NeedsCore(r) \/ Factor!NeedsRsi14(r))
  BY <1>1, <1>2 DEF Factor!Filled, Factor!NeedsCore, Factor!NeedsRsi14, CoreHas, Keeps
<1>3. CASE ~(~r.stored \/ ~({"bar", "adjust"} \subseteq rowFacts) \/ ~(Factor!NeedsCore(r) \/ Factor!NeedsRsi14(r)))
  <2>1. Factor!LocalCore \in [Factor!Columns -> {"none", "pro", "local"}]
        /\ Factor!LocalCore["core"] = "local" /\ Factor!LocalCore["rsi14"] = "local"
    BY <1>1 DEF Factor!LocalCore
  <2>2. PICK h : h = Factor!Coalesced(r.has, Factor!LocalCore)
    OBVIOUS
  <2>3. /\ h \in [Factor!Columns -> {"none", "pro", "local"}]
        /\ \A c \in Factor!Columns : h[c] = IF r.has[c] # "none" THEN r.has[c] ELSE Factor!LocalCore[c]
    BY <2>1, <2>2, CoalescedColumns DEF RowType
  <2>4. Factor!FilledSource(r) \in SUBSET {"pro", "local", "core", "rsi14", "rebase"}
    BY DEF Factor!FilledSource
  <2>5. Factor!Filled(r) =
          [r EXCEPT !.has = h, !.core = "ready", !.source = Factor!FilledSource(r),
             !.flags = IF Factor!NeedsCore(r) THEN (r.flags \ {"core_missing"}) \cup {"fallback"} ELSE r.flags]
    BY <1>3, <2>2 DEF Factor!Filled, RowType, Factor!NeedsCore, Factor!NeedsRsi14
  <2>6. Factor!Filled(r) \in RowType
    <3>1. (IF Factor!NeedsCore(r) THEN (r.flags \ {"core_missing"}) \cup {"fallback"} ELSE r.flags)
            \in SUBSET {"core_missing", "fallback"}
      BY DEF RowType
    <3>2. "ready" \in Factor!Statuses
      BY DEF Factor!Statuses
    <3> QED
      BY <2>3, <2>4, <2>5, <3>1, <3>2, ZenonT(60) DEF RowType
  <2>7. /\ Factor!Filled(r).has = h /\ Factor!Filled(r).core = "ready" /\ Factor!Filled(r).price = r.price
    BY <2>5 DEF RowType
  <2> QED
    BY <1>1, <2>1, <2>3, <2>6, <2>7 DEF CoreHas, Keeps, RowType
<1> QED
  BY <1>2, <1>3

LEMMA RowStart == ServicesInit => RowInv
<1> SUFFICES ASSUME ServicesInit, part = "row" PROVE RowInv
  BY DEF RowInv
<1>1. factorRow = Factor!NoRow /\ rowFacts = {}
  BY DEF ServicesInit, Factor!Init
<1> QED
  BY <1>1 DEF RowInv, Factor!TypeOK, Factor!NoRow, Factor!Empty, Factor!Statuses, Factor!Columns,
       Factor!ProColumns, Factor!CoreColumns, Factor!Facts

LEMMA RowSteps == RowInv /\ [ServicesNext]_servicesVars => RowInv'
<1> SUFFICES ASSUME RowInv, [ServicesNext]_servicesVars, part' = "row" PROVE RowInv'
  BY DEF RowInv
<1>1. part' = part /\ part = "row"
  BY DEF ServicesNext, servicesVars
<1>2. [Factor!Next]_rowVars
  BY <1>1 DEF ServicesNext, servicesVars, rowVars
<1>3. Factor!TypeOK /\ CoreHas(factorRow) /\ factorRow \in RowType
  BY <1>1 DEF RowInv, CoreHas, Factor!TypeOK, RowType
<1>4. SUFFICES factorRow' \in RowType /\ CoreHas(factorRow') /\ rowFacts' \subseteq Factor!Facts
  BY DEF RowInv, Factor!TypeOK, CoreHas, RowType
<1>5. CASE UNCHANGED rowVars
  BY <1>3, <1>5 DEF rowVars, Factor!TypeOK
<1>6. ASSUME NEW given \in SUBSET Factor!ProColumns, Factor!ProviderRow(given)
      PROVE  factorRow' \in RowType /\ CoreHas(factorRow') /\ rowFacts' \subseteq Factor!Facts
  BY <1>3, <1>6, MappedRow, MergedRow DEF Factor!ProviderRow, Factor!TypeOK
<1>7. ASSUME NEW f \in Factor!Facts, Factor!FactsTurn(f)
      PROVE  factorRow' \in RowType /\ CoreHas(factorRow') /\ rowFacts' \subseteq Factor!Facts
  BY <1>3, <1>7 DEF Factor!FactsTurn, Factor!TypeOK
<1>8. ASSUME NEW only \in BOOLEAN, Factor!Calculate(only)
      PROVE  factorRow' \in RowType /\ CoreHas(factorRow') /\ rowFacts' \subseteq Factor!Facts
  <2>1. Factor!Assembled(only) \in RowType /\ CoreHas(Factor!Assembled(only))
    BY <1>3, AssembledRow
  <2> QED
    BY <1>3, <1>8, <2>1, FilledRow DEF Factor!Calculate, Factor!TypeOK
<1>9. CASE Factor!ClearTechnical
  <2>1. [c \in Factor!Columns |-> IF c \in Factor!ProColumns THEN "none" ELSE factorRow.has[c]]
          \in [Factor!Columns -> {"none", "pro", "local"}]
    BY <1>3 DEF RowType
  <2>2. factorRow' = [factorRow EXCEPT
          !.has = [c \in Factor!Columns |-> IF c \in Factor!ProColumns THEN "none" ELSE factorRow.has[c]],
          !.source = {}, !.core = "missing", !.extended = "missing"] /\ rowFacts' = rowFacts
    BY <1>3, <1>9 DEF Factor!ClearTechnical, Factor!TechnicalCleared, RowType
  <2> QED
    BY <1>3, <2>1, <2>2 DEF RowType, CoreHas, Factor!Statuses, Factor!TypeOK
<1>10. CASE Factor!Rebase
  BY <1>3, <1>10 DEF Factor!Rebase, RowType, CoreHas, Factor!TypeOK
<1> QED
  BY <1>2, <1>5, <1>6, <1>7, <1>8, <1>9, <1>10 DEF Factor!Next

LEMMA RowCompletes ==
  ASSUME RowInv, part = "row", Factor!Calculate(FALSE)
  PROVE  Factor!CalculationCompletes
<1>1. Factor!TypeOK /\ CoreHas(factorRow)
  BY DEF RowInv, CoreHas
<1>2. PICK a : a = Factor!Assembled(FALSE)
  OBVIOUS
<1>3. /\ a \in RowType /\ CoreHas(a) /\ Keeps(factorRow, a)
      /\ {"bar", "adjust"} \subseteq rowFacts =>
           a.stored /\ a.price = "ready" /\ a.has["price"] # "none" /\ a.has["ma"] # "none"
  BY <1>1, <1>2, AssembledRow
<1>4. factorRow' = Factor!Filled(a)
  BY <1>2 DEF Factor!Calculate
<1>5. /\ Keeps(a, factorRow') /\ factorRow'.price = a.price
      /\ {"bar", "adjust"} \subseteq rowFacts /\ a.stored =>
           factorRow'.core = "ready" /\ factorRow'.has["core"] # "none" /\ factorRow'.has["rsi14"] # "none"
  BY <1>3, <1>4, FilledRow
<1> QED
  BY <1>3, <1>5 DEF Factor!CalculationCompletes, Factor!CoreWhole, Keeps, Factor!CoreColumns, Factor!Columns,
       Factor!ProColumns

-----------------------------------------------------------------------------
(* The keys of the configuration centre                                    *)

Key == [state : {"unborn", "live", "gone"}, secret : KeySecrets \union {0}, own : {"none", "own"},
        on : BOOLEAN, status : {"active", "cooldown", "invalid", "disabled"},
        until : {"none", "later", "past"},
        probe : [result : {"none", "yes", "no"}, of : KeySecrets \union {0}]]
KeyTest == [value : KeyIds \union {0}, secret : KeySecrets \union {0}, step : 0 .. 6,
            errors : SUBSET {"empty", "refused", "failed"}]

\* Rows and tests are of their types, a test under way has a key, and the clients of the
\* runtime are of the identity it remembers (_ensure_provider_pools).
KeyInv ==
  part = "config" =>
    /\ keyRows \in [KeyIds -> Key] /\ keyTest \in [KeyTests -> KeyTest]
    /\ \A t \in KeyTests : keyTest[t] # Centre!Free => keyTest[t].value \in KeyIds
    /\ keyRuntime = [settings |-> keyRuntime.settings, id |-> keyRuntime.id, pool |-> keyRuntime.pool]
    /\ Centre!PoolOfOneKey

\* The questions of a test are five, and the step after them records.
LEMMA Recorded ==
  /\ Centre!Recording = 6 /\ DOMAIN Centre!Questions = 1 .. 5
  /\ \A i \in 1 .. 5 : Centre!Questions[i] \subseteq {"rows", "empty", "refused", "failed"}
BY DEF Centre!Recording, Centre!Questions, Centre!Quotes, Centre!Catalogue, Centre!Universe, Centre!Books

LEMMA KeyStart == ServicesInit => KeyInv
<1> SUFFICES ASSUME ServicesInit, part = "config" PROVE KeyInv
  BY DEF KeyInv
<1>1. Centre!Init
  BY DEF ServicesInit
<1>2. /\ keyRows = [v \in KeyIds |-> Centre!Unborn] /\ keyTest = [t \in KeyTests |-> Centre!Free]
      /\ keyRuntime = [settings |-> Centre!Off, id |-> Centre!NoClient, pool |-> << >>]
  BY <1>1 DEF Centre!Init
<1>3. Centre!Unborn \in Key
  BY DEF Centre!Unborn, Centre!Row, Centre!NoProbe, Key
<1>4. Centre!Free \in KeyTest
  BY DEF Centre!Free, KeyTest
<1>5. DOMAIN << >> = {}
  <2>1. << >> \in Seq({}) /\ Len(<< >>) = 0
    OBVIOUS
  <2> QED
    BY <2>1
<1>6. keyRows \in [KeyIds -> Key] /\ keyTest \in [KeyTests -> KeyTest]
  BY <1>2, <1>3, <1>4
<1>7. keyRuntime.pool = << >>
      /\ keyRuntime = [settings |-> keyRuntime.settings, id |-> keyRuntime.id, pool |-> keyRuntime.pool]
  BY <1>2
<1>8. Centre!PoolOfOneKey
  BY <1>5, <1>7 DEF Centre!PoolOfOneKey
<1>9. \A t \in KeyTests : keyTest[t] = Centre!Free
  BY <1>2
<1> QED
  BY <1>6, <1>7, <1>8, <1>9 DEF KeyInv

\* A key after one field was written.
LEMMA KeyFields ==
  ASSUME NEW row \in Key
  PROVE  /\ \A s \in KeySecrets : [row EXCEPT !.secret = s] \in Key
         /\ \A e \in {"none", "own"} : [row EXCEPT !.own = e] \in Key
         /\ \A b \in BOOLEAN : [row EXCEPT !.on = b] \in Key
         /\ \A s \in {"active", "cooldown", "invalid", "disabled"} : [row EXCEPT !.status = s] \in Key
         /\ \A u \in {"none", "later", "past"} : [row EXCEPT !.until = u] \in Key
         /\ \A r \in {"none", "yes", "no"}, s \in KeySecrets \union {0} :
              [row EXCEPT !.probe = [result |-> r, of |-> s]] \in Key
         /\ [row EXCEPT !.status = "disabled", !.on = FALSE] \in Key
         /\ [row EXCEPT !.status = "cooldown", !.until = "later"] \in Key
         /\ [row EXCEPT !.status = "active", !.until = "none"] \in Key
BY DEF Key

LEMMA EditedKey ==
  ASSUME NEW v \in KeyIds, keyRows[v] \in Key, NEW row \in Centre!Edits(v)
  PROVE  row \in Key
<1>1. Centre!NoProbe = [result |-> "none", of |-> 0]
  BY DEF Centre!NoProbe
<1>2. \A e \in Centre!Endpoints(v) : e \in {"none", "own"}
  BY DEF Centre!Endpoints
<1>3. PICK k \in Key : k = keyRows[v]
  OBVIOUS
<1>4. \/ \E s \in KeySecrets : row = [k EXCEPT !.secret = s]
      \/ \E e \in Centre!Endpoints(v) : row = [k EXCEPT !.own = e]
      \/ \E b \in BOOLEAN : row = [k EXCEPT !.on = b]
      \/ \E s \in {"active", "disabled"} : row = [k EXCEPT !.status = s]
      \/ row = [k EXCEPT !.until = "none"]
      \/ row = [k EXCEPT !.probe = [result |-> "none", of |-> 0]]
  BY <1>1, <1>3 DEF Centre!Edits
<1>5. CASE row = [k EXCEPT !.probe = [result |-> "none", of |-> 0]]
  BY <1>5, KeyFields
<1>6. CASE row # [k EXCEPT !.probe = [result |-> "none", of |-> 0]]
  BY <1>2, <1>4, <1>6, KeyFields, ZenonT(60)
<1> QED
  BY <1>5, <1>6

LEMMA ProbedKey ==
  ASSUME NEW row \in Key, NEW q \in KeyTest
  PROVE  /\ Centre!Probed(row, q) \in Key
         /\ Centre!Probed(row, q).state = row.state /\ Centre!Probed(row, q).on = row.on
         /\ Centre!Probed(row, q).until = row.until
         /\ Centre!Probed(row, q).status = "active" => row.status = "active"
<1>1. PICK t : t = IF "refused" \in q.errors THEN "invalid" ELSE row.status
  OBVIOUS
<1>2. PICK c : c = IF q.errors = {} THEN "yes" ELSE "no"
  OBVIOUS
<1>3. Centre!Probed(row, q) =
        [row EXCEPT !.status = t, !.probe = [result |-> c, of |-> q.secret]]
  BY <1>1, <1>2 DEF Centre!Probed, Key
<1>4. c \in {"yes", "no"} /\ q.secret \in KeySecrets \union {0}
  BY <1>2 DEF KeyTest
<1>5. t \in {"active", "cooldown", "invalid", "disabled"} /\ (t = "active" => row.status = "active")
  BY <1>1 DEF Key
<1>6. PICK p : p = [result |-> c, of |-> q.secret]
  OBVIOUS
<1>7. p \in [result : {"none", "yes", "no"}, of : KeySecrets \union {0}]
  BY <1>4, <1>6
<1>8. Centre!Probed(row, q) = [row EXCEPT !.status = t, !.probe = p]
  BY <1>3, <1>6
<1> QED
  BY <1>5, <1>7, <1>8 DEF Key

LEMMA ReleasedKeys ==
  ASSUME keyRows \in [KeyIds -> Key]
  PROVE  Centre!Released \in [KeyIds -> Key]
<1>1. ASSUME NEW v \in KeyIds
      PROVE  [keyRows[v] EXCEPT !.status = "active", !.until = "none"] \in Key
  BY KeyFields
<1> QED
  BY <1>1 DEF Centre!Released

\* What a round writes of the runtime: clients of the identity it asks with.
LEMMA ServedPool ==
  ASSUME keyRuntime = [settings |-> keyRuntime.settings, id |-> keyRuntime.id, pool |-> keyRuntime.pool],
         Centre!PoolOfOneKey, NEW id, Centre!Serves(id)
  PROVE  /\ keyRuntime' = [settings |-> keyRuntime'.settings, id |-> keyRuntime'.id, pool |-> keyRuntime'.pool]
         /\ keyRuntime'.id = id
         /\ \A i \in DOMAIN keyRuntime'.pool : keyRuntime'.pool[i] = id
<1>1. PICK p : p = Centre!Pool(keyRuntime, id, keyRuntime.settings.size)
  OBVIOUS
<1>2. keyRuntime' = [keyRuntime EXCEPT !.id = id, !.pool = p]
  BY <1>1 DEF Centre!Serves
<1>3. \A i \in DOMAIN p : p[i] = id
  <2>1. CASE keyRuntime.id = id /\ Len(keyRuntime.pool) = keyRuntime.settings.size
    BY <1>1, <2>1 DEF Centre!Pool, Centre!PoolOfOneKey
  <2>2. CASE ~(keyRuntime.id = id /\ Len(keyRuntime.pool) = keyRuntime.settings.size)
    BY <1>1, <2>2 DEF Centre!Pool
  <2> QED
    BY <2>1, <2>2
<1>4. keyRuntime' = [settings |-> keyRuntime.settings, id |-> id, pool |-> p]
  BY <1>2
<1> QED
  BY <1>3, <1>4

LEMMA KeySteps == KeyInv /\ [ServicesNext]_servicesVars => KeyInv'
<1> SUFFICES ASSUME KeyInv, [ServicesNext]_servicesVars, part' = "config" PROVE KeyInv'
  BY DEF KeyInv
<1>1. part' = part /\ part = "config"
  BY DEF ServicesNext, servicesVars
<1>2. [Centre!Next]_keyVars
  BY <1>1 DEF ServicesNext, servicesVars, keyVars
<1>3. /\ keyRows \in [KeyIds -> Key] /\ keyTest \in [KeyTests -> KeyTest]
      /\ \A t \in KeyTests : keyTest[t] # Centre!Free => keyTest[t].value \in KeyIds
      /\ keyRuntime = [settings |-> keyRuntime.settings, id |-> keyRuntime.id, pool |-> keyRuntime.pool]
      /\ Centre!PoolOfOneKey
  BY <1>1 DEF KeyInv
<1> DEFINE Whole == /\ keyRuntime' = [settings |-> keyRuntime'.settings, id |-> keyRuntime'.id, pool |-> keyRuntime'.pool]
                    /\ \A i \in DOMAIN keyRuntime'.pool : keyRuntime'.pool[i] = keyRuntime'.id
           Tests == /\ keyTest' \in [KeyTests -> KeyTest]
                    /\ \A t \in KeyTests : keyTest'[t] # Centre!Free => keyTest'[t].value \in KeyIds
<1>4. SUFFICES keyRows' \in [KeyIds -> Key] /\ Tests /\ Whole
  BY <1>1 DEF KeyInv, Centre!PoolOfOneKey, Centre!Free
<1>5. keyRuntime' = keyRuntime => Whole
  BY <1>3 DEF Centre!PoolOfOneKey
<1>6. keyTest' = keyTest => Tests
  BY <1>3
<1>7. ASSUME NEW v \in KeyIds, NEW row \in Key, Centre!Write(v, row)
      PROVE  keyRows' \in [KeyIds -> Key]
  BY <1>3, <1>7 DEF Centre!Write
<1>8. \A s \in KeySecrets, own \in {"none", "own"} : Centre!Row(s, own) \in Key
  BY DEF Centre!Row, Centre!NoProbe, Key
<1> HIDE DEF Whole, Tests
<1>9. CASE UNCHANGED keyVars
  BY <1>3, <1>5, <1>6, <1>9 DEF keyVars
<1>10. ASSUME NEW v \in KeyIds, Centre!CreateValue(v)
       PROVE  keyRows' \in [KeyIds -> Key] /\ Tests /\ Whole
  <2>1. PICK s \in KeySecrets, own \in Centre!Endpoints(v) : Centre!Write(v, Centre!Row(s, own))
    BY <1>10 DEF Centre!CreateValue
  <2>2. own \in {"none", "own"}
    BY DEF Centre!Endpoints
  <2> QED
    BY <1>5, <1>6, <1>7, <1>8, <1>10, <2>1, <2>2 DEF Centre!CreateValue
<1>11. ASSUME NEW v \in KeyIds, Centre!UpdateValue(v)
       PROVE  keyRows' \in [KeyIds -> Key] /\ Tests /\ Whole
  <2>1. PICK row \in Centre!Edits(v) : Centre!Write(v, row)
    BY <1>11 DEF Centre!UpdateValue
  <2>2. row \in Key
    BY <1>3, EditedKey
  <2> QED
    BY <1>5, <1>6, <1>7, <1>11, <2>1, <2>2 DEF Centre!UpdateValue
<1>12. ASSUME NEW v \in KeyIds, Centre!DisableValue(v)
       PROVE  keyRows' \in [KeyIds -> Key] /\ Tests /\ Whole
  <2>1. [keyRows[v] EXCEPT !.status = "disabled", !.on = FALSE] \in Key
    BY <1>3, KeyFields
  <2> QED
    BY <1>5, <1>6, <1>7, <1>12, <2>1 DEF Centre!DisableValue
<1>13. ASSUME NEW v \in KeyIds, Centre!DeleteValue(v)
       PROVE  keyRows' \in [KeyIds -> Key] /\ Tests /\ Whole
  <2>1. Centre!Gone \in Key
    BY DEF Centre!Gone, Centre!Row, Centre!NoProbe, Key
  <2> QED
    BY <1>5, <1>6, <1>7, <1>13, <2>1 DEF Centre!DeleteValue
<1>14. ASSUME NEW v \in KeyIds, Centre!MarkCooldown(v)
       PROVE  keyRows' \in [KeyIds -> Key] /\ Tests /\ Whole
  <2>1. [keyRows[v] EXCEPT !.status = "cooldown", !.until = "later"] \in Key
    BY <1>3, KeyFields
  <2> QED
    BY <1>5, <1>6, <1>7, <1>14, <2>1 DEF Centre!MarkCooldown
<1>15. ASSUME NEW v \in KeyIds, Centre!CooldownPasses(v)
       PROVE  keyRows' \in [KeyIds -> Key] /\ Tests /\ Whole
  <2>1. [keyRows[v] EXCEPT !.until = "past"] \in Key
    BY <1>3 DEF Key
  <2> QED
    BY <1>5, <1>6, <1>7, <1>15, <2>1 DEF Centre!CooldownPasses
<1>16. CASE Centre!PutOptions \/ Centre!SwitchItem \/ Centre!UnsetDefault \/ \E c \in KeyConfigs : Centre!SetDefault(c)
  BY <1>3, <1>5, <1>6, <1>16 DEF Centre!PutOptions, Centre!SwitchItem, Centre!UnsetDefault, Centre!SetDefault
<1>17. ASSUME NEW v \in KeyIds, NEW t \in KeyTests, Centre!BeginTest(t, v)
       PROVE  keyRows' \in [KeyIds -> Key] /\ Tests /\ Whole
  <2>1. PICK read : /\ keyTest' = [keyTest EXCEPT ![t] = read]
                    /\ read.value = v /\ read \in KeyTest
    <3>1. PICK broken \in BOOLEAN : broken = (Centre!EndpointOf(v) = "bad")
      OBVIOUS
    <3>2. PICK i \in 0 .. 6 : i = IF broken THEN Centre!Recording ELSE 1
      BY Recorded
    <3>3. PICK e \in SUBSET {"empty", "refused", "failed"} : e = IF broken THEN {"failed"} ELSE {}
      <4>1. {"failed"} \in SUBSET {"empty", "refused", "failed"} /\ {} \in SUBSET {"empty", "refused", "failed"}
        OBVIOUS
      <4> QED
        BY <4>1
    <3>4. keyTest' = [keyTest EXCEPT ![t] = [value |-> v, secret |-> keyRows[v].secret, step |-> i, errors |-> e]]
      BY <1>17, <3>1, <3>2, <3>3 DEF Centre!BeginTest
    <3>5. keyRows[v].secret \in KeySecrets \union {0}
      BY <1>3 DEF Key
    <3>6. PICK read : read = [value |-> v, secret |-> keyRows[v].secret, step |-> i, errors |-> e]
      OBVIOUS
    <3>7. read \in KeyTest /\ read.value = v
      BY <3>5, <3>6 DEF KeyTest
    <3> QED
      BY <3>4, <3>6, <3>7
  <2>2. Tests
    BY <1>3, <2>1 DEF Tests
  <2> QED
    BY <1>3, <1>5, <1>17, <2>2 DEF Centre!BeginTest
<1>18. ASSUME NEW t \in KeyTests, Centre!Asks(t)
       PROVE  keyRows' \in [KeyIds -> Key] /\ Tests /\ Whole
  <2>1. PICK q : q = keyTest[t]
    OBVIOUS
  <2>2. q \in KeyTest /\ q.step \in 1 .. 5
    BY <1>3, <1>18, <2>1, Recorded DEF Centre!Asks
  <2>3. q.value \in KeyIds
    BY <1>3, <2>1, <2>2 DEF Centre!Free
  <2>4. PICK answer \in Centre!Questions[q.step] :
          keyTest' = [keyTest EXCEPT ![t] =
            IF answer = "rows" THEN [q EXCEPT !.step = q.step + 1]
            ELSE [q EXCEPT !.step = IF q.step \in Centre!Decisive THEN Centre!Recording ELSE q.step + 1,
                           !.errors = q.errors \union {answer}]]
    BY <1>18, <2>1, <2>2 DEF Centre!Asks, KeyTest
  <2>5. answer = "rows" \/ answer \in {"empty", "refused", "failed"}
    BY <2>2, Recorded
  <2>6. PICK i \in 0 .. 6 : i = IF q.step \in Centre!Decisive THEN Centre!Recording ELSE q.step + 1
    BY <2>2, Recorded
  <2>7. PICK new : new = IF answer = "rows" THEN [q EXCEPT !.step = q.step + 1]
                         ELSE [q EXCEPT !.step = i, !.errors = q.errors \union {answer}]
    OBVIOUS
  <2>8. new \in KeyTest /\ new.value = q.value
    <3>1. CASE answer = "rows"
      BY <2>2, <2>7, <3>1 DEF KeyTest
    <3>2. CASE answer # "rows"
      BY <2>2, <2>5, <2>7, <3>2 DEF KeyTest
    <3> QED
      BY <3>1, <3>2
  <2>9. keyTest' = [keyTest EXCEPT ![t] = new]
    BY <2>4, <2>6, <2>7
  <2>10. Tests
    BY <1>3, <2>3, <2>8, <2>9 DEF Tests
  <2> QED
    BY <1>3, <1>5, <1>18, <2>10 DEF Centre!Asks
<1>19. ASSUME NEW t \in KeyTests, keyTest' = [keyTest EXCEPT ![t] = Centre!Free]
       PROVE  Tests
  <2>1. Centre!Free \in KeyTest
    BY DEF Centre!Free, KeyTest
  <2> QED
    BY <1>3, <1>19, <2>1 DEF Tests
<1>20. ASSUME NEW t \in KeyTests, Centre!RecordProbe(t)
       PROVE  keyRows' \in [KeyIds -> Key] /\ Tests /\ Whole
  <2>1. PICK q : q = keyTest[t]
    OBVIOUS
  <2>2. q \in KeyTest /\ q.step = 6
    BY <1>3, <1>20, <2>1, Recorded DEF Centre!RecordProbe
  <2>3. q.value \in KeyIds
    BY <1>3, <2>1, <2>2 DEF Centre!Free
  <2>4. keyRows' = [keyRows EXCEPT ![q.value] = IF Centre!Live(q.value) THEN Centre!Probed(keyRows[q.value], q)
                                                ELSE keyRows[q.value]]
    BY <1>3, <1>20, <2>1, <2>3 DEF Centre!RecordProbe
  <2>5. Centre!Probed(keyRows[q.value], q) \in Key
    BY <1>3, <2>2, <2>3, ProbedKey
  <2> QED
    BY <1>3, <1>5, <1>19, <1>20, <2>3, <2>4, <2>5, ZenonT(60) DEF Centre!RecordProbe
<1>21. ASSUME NEW t \in KeyTests, Centre!OtherTest(t)
       PROVE  keyRows' \in [KeyIds -> Key] /\ Tests /\ Whole
  BY <1>3, <1>5, <1>19, <1>21 DEF Centre!OtherTest
<1>22. CASE Centre!LoadSettings
  <2>1. PICK settings : keyRuntime' = [keyRuntime EXCEPT !.settings = settings]
    BY <1>22 DEF Centre!LoadSettings
  <2>2. keyRuntime' = [settings |-> settings, id |-> keyRuntime.id, pool |-> keyRuntime.pool]
    BY <1>3, <2>1
  <2>3. Whole
    BY <1>3, <2>2 DEF Whole, Centre!PoolOfOneKey
  <2> QED
    BY <1>3, <1>6, <1>22, <2>3 DEF Centre!LoadSettings
<1>23. ASSUME NEW id, Centre!Serves(id)
       PROVE  Whole
  <2> QED
    BY <1>3, <1>23, ServedPool DEF Whole
<1>24. CASE Centre!RoundOnMootdx
  BY <1>3, <1>6, <1>23, <1>24 DEF Centre!RoundOnMootdx
<1>25. CASE Centre!RoundOnTickflow
  BY <1>3, <1>6, <1>23, <1>25, ReleasedKeys DEF Centre!RoundOnTickflow
<1>26. CASE Centre!RoundFails
  BY <1>3, <1>5, <1>6, <1>26, ReleasedKeys DEF Centre!RoundFails
<1> QED
  BY <1>2, <1>9, <1>10, <1>11, <1>12, <1>13, <1>14, <1>15, <1>16, <1>17, <1>18, <1>20, <1>21, <1>22, <1>24,
     <1>25, <1>26 DEF Centre!Next

\* A test records for one key, and what it writes makes none available.
LEMMA RecordedKeys ==
  ASSUME KeyInv, part = "config", NEW t \in KeyTests, Centre!RecordProbe(t),
         NEW v \in KeyIds, Centre!Available(keyRows', v)
  PROVE  Centre!Available(keyRows, v)
<1>1. PICK q : q = keyTest[t]
  OBVIOUS
<1>2. q \in KeyTest /\ keyRows \in [KeyIds -> Key]
  BY <1>1 DEF KeyInv
<1>3. keyRows' = [keyRows EXCEPT ![q.value] = IF Centre!Live(q.value) THEN Centre!Probed(keyRows[q.value], q)
                                              ELSE keyRows[q.value]]
  BY <1>1 DEF Centre!RecordProbe
<1>4. CASE v = q.value /\ Centre!Live(q.value)
  <2>1. keyRows'[v] = Centre!Probed(keyRows[v], q)
    BY <1>2, <1>3, <1>4
  <2> QED
    BY <1>2, <2>1, ProbedKey DEF Centre!Available
<1>5. CASE ~(v = q.value /\ Centre!Live(q.value))
  BY <1>2, <1>3, <1>5 DEF Centre!Available
<1> QED
  BY <1>4, <1>5

\* The key a round takes is there.
LEMMA LeastExists ==
  ASSUME NEW some \in SUBSET Nat, some # {}
  PROVE  \E n \in some : \A m \in some : n <= m
<1> DEFINE Less == OpToRel(<, Nat)
<1>1. IsWellFoundedOn(Less, Nat)
  BY NatLessThanWellFounded
<1>2. PICK n \in some : \A m \in some : <<m, n>> \notin Less
  <2> HIDE DEF Less
  <2> QED
    BY <1>1, WFMin
<1>3. \A m \in some : ~(m < n)
  BY <1>2 DEF OpToRel
<1>4. \A m \in some : n <= m
  <2> HIDE DEF Less
  <2> QED
    BY <1>3
<1> QED
  BY <1>4

LEMMA FirstPasses ==
  ASSUME NEW rows, Centre!Passed(rows) # {}
  PROVE  Centre!First(rows) \in Centre!Passed(rows)
<1>1. PICK some : some = Centre!Passed(rows)
  OBVIOUS
<1>2. some \in SUBSET Nat
  BY <1>1, KeyAssumption DEF Centre!Passed
<1>3. \E v \in some : \A w \in some : v <= w
  BY <1>1, <1>2, LeastExists
<1> QED
  BY <1>1, <1>3 DEF Centre!First

LEMMA KeysStaySound ==
  ASSUME KeyInv, part = "config", [Centre!Next]_keyVars
  PROVE  Centre!KeysSound
<1>1. /\ keyRows \in [KeyIds -> Key] /\ keyTest \in [KeyTests -> KeyTest]
      /\ \A t \in KeyTests : keyTest[t] # Centre!Free => keyTest[t].value \in KeyIds
  BY DEF KeyInv
<1>2. ASSUME NEW t \in KeyTests, keyTest[t].step = Centre!Recording, keyTest'[t] = Centre!Free,
             NEW v \in KeyIds, Centre!Available(keyRows', v)
      PROVE  Centre!Available(keyRows, v)
  <2>1. keyTest[t] # Centre!Free /\ keyTest[t].step = 6
    BY <1>2, Recorded DEF Centre!Free
  <2>2. keyTest' # keyTest
    BY <1>2, <2>1
  <2>3. ASSUME NEW s \in KeyTests, NEW new, keyTest' = [keyTest EXCEPT ![s] = new]
        PROVE  s = t /\ new = Centre!Free
    BY <1>1, <1>2, <2>1, <2>3
  <2>4. ~\E s \in KeyTests, w \in KeyIds : Centre!BeginTest(s, w)
    <3> SUFFICES ASSUME NEW s \in KeyTests, NEW w \in KeyIds, Centre!BeginTest(s, w) PROVE FALSE
      OBVIOUS
    <3>1. PICK read : keyTest' = [keyTest EXCEPT ![s] = read]
      BY DEF Centre!BeginTest
    <3>2. keyTest[s] = Centre!Free
      BY DEF Centre!BeginTest
    <3> QED
      BY <2>1, <2>3, <3>1, <3>2
  <2>5. ~\E s \in KeyTests : Centre!Asks(s)
    <3> SUFFICES ASSUME NEW s \in KeyTests, Centre!Asks(s) PROVE FALSE
      OBVIOUS
    <3>1. PICK new : keyTest' = [keyTest EXCEPT ![s] = new]
      BY DEF Centre!Asks
    <3>2. keyTest[s].step \in 1 .. 5
      BY Recorded DEF Centre!Asks
    <3>3. s = t
      BY <2>3, <3>1
    <3> QED
      BY <2>1, <3>2, <3>3
  <2>6. (\E s \in KeyTests : Centre!RecordProbe(s)) \/ keyRows' = keyRows
    BY <2>2, <2>4, <2>5 DEF Centre!Next, keyVars, Centre!OtherTest, Centre!CreateValue, Centre!UpdateValue,
         Centre!DisableValue, Centre!DeleteValue, Centre!MarkCooldown, Centre!CooldownPasses,
         Centre!PutOptions, Centre!SwitchItem, Centre!UnsetDefault, Centre!SetDefault, Centre!LoadSettings,
         Centre!RoundOnMootdx, Centre!RoundOnTickflow, Centre!RoundFails
  <2> QED
    BY <1>2, <2>6, RecordedKeys
<1>3. ASSUME keyRuntime'.id # keyRuntime.id, keyRuntime'.id.provider = "tickflow"
      PROVE  \E v \in KeyIds : /\ Centre!Available(keyRows', v) /\ keyRows'[v].probe.result = "yes"
                               /\ keyRows'[v].secret = keyRuntime'.id.secret
  <2>1. keyRuntime = [settings |-> keyRuntime.settings, id |-> keyRuntime.id, pool |-> keyRuntime.pool]
        /\ Centre!PoolOfOneKey
    BY DEF KeyInv
  <2>2. ~Centre!LoadSettings
    <3> SUFFICES ASSUME Centre!LoadSettings PROVE FALSE
      OBVIOUS
    <3>1. PICK settings : keyRuntime' = [keyRuntime EXCEPT !.settings = settings]
      BY DEF Centre!LoadSettings
    <3> QED
      BY <1>3, <2>1, <3>1
  <2>3. ~Centre!RoundOnMootdx
    <3> SUFFICES ASSUME Centre!RoundOnMootdx PROVE FALSE
      OBVIOUS
    <3>1. keyRuntime'.id = Centre!MootdxClient
      BY <2>1, ServedPool DEF Centre!RoundOnMootdx
    <3> QED
      BY <1>3, <3>1 DEF Centre!MootdxClient, Centre!NoClient
  <2>4. keyRuntime' # keyRuntime
    BY <1>3
  <2>5. Centre!RoundOnTickflow
    BY <2>2, <2>3, <2>4 DEF Centre!Next, keyVars, Centre!BeginTest, Centre!Asks, Centre!RecordProbe,
         Centre!OtherTest, Centre!CreateValue, Centre!UpdateValue,
         Centre!DisableValue, Centre!DeleteValue, Centre!MarkCooldown, Centre!CooldownPasses,
         Centre!PutOptions, Centre!SwitchItem, Centre!UnsetDefault, Centre!SetDefault, Centre!RoundFails
  <2>6. keyRows' = Centre!Released /\ Centre!Passed(keyRows') # {}
    BY <2>5 DEF Centre!RoundOnTickflow, Centre!Usable
  <2>7. keyRuntime'.id = Centre!KeyClient(keyRows')
    BY <2>1, <2>5, <2>6, ServedPool DEF Centre!RoundOnTickflow
  <2>8. Centre!First(keyRows') \in Centre!Passed(keyRows')
    BY <2>6, FirstPasses
  <2>9. keyRuntime'.id.secret = keyRows'[Centre!First(keyRows')].secret
    BY <2>7 DEF Centre!KeyClient
  <2> QED
    BY <2>8, <2>9 DEF Centre!Passed
<1> QED
  BY <1>2, <1>3 DEF Centre!KeysSound

-----------------------------------------------------------------------------
(* The queries of market data                                              *)

Ranges == {"any", "range", "today", "last"}

\* The engines of a capability are known ones, and an adapter that answers says which days.
LEMMA AdaptersKnown ==
  ASSUME queryCap \in Market!Capabilities
  PROVE  /\ queryCap.engines \in Seq(Market!Known)
         /\ \A e \in Market!Known : queryCap.calls[e] # Market!Nothing => queryCap.calls[e].days \in Ranges
         /\ queryCap.dated \in BOOLEAN /\ queryCap.cut \in BOOLEAN
<1>0. << >> \in Seq(Market!Known)
  OBVIOUS
<1>1. CASE queryCap = Market!StockBasic
  BY <1>1 DEF Market!StockBasic, Market!TushareStock, Market!AkStock, Market!TdxStock, Market!Plain, Market!Calls, Market!Gives, Market!Nothing,
       Market!Known, Ranges
<1>2. CASE queryCap = Market!DailyBars
  BY <1>2 DEF Market!DailyBars, Market!TushareDaily, Market!AkDaily, Market!TdxDaily, Market!Plain, Market!Calls, Market!Gives, Market!Nothing,
       Market!Known, Ranges
<1>3. CASE queryCap = Market!MinuteBars
  BY <1>3 DEF Market!MinuteBars, Market!AkMinutes, Market!TdxMinutes, Market!Plain, Market!Calls, Market!Gives, Market!Nothing,
       Market!Known, Ranges
<1>4. CASE queryCap = Market!Quote
  BY <1>4 DEF Market!Quote, Market!AkQuote, Market!TdxQuote, Market!Plain, Market!Calls, Market!Gives, Market!Nothing,
       Market!Known, Ranges
<1>5. CASE queryCap = Market!Ticks
  BY <1>5 DEF Market!Ticks, Market!AkTicks, Market!TdxTicks, Market!Plain, Market!Calls, Market!Gives, Market!Nothing,
       Market!Known, Ranges
<1>6. CASE queryCap = Market!Sectors
  BY <1>6 DEF Market!Sectors, Market!TushareSectors, Market!AkSectors, Market!TdxSectors, Market!Plain, Market!Calls, Market!Gives, Market!Nothing,
       Market!Known, Ranges
<1>7. CASE queryCap = Market!SectorBars
  BY <1>7 DEF Market!SectorBars, Market!AkSectorBars, Market!Plain, Market!Calls, Market!Gives, Market!Nothing,
       Market!Known, Ranges
<1>8. CASE queryCap = Market!Indexes
  BY <1>8 DEF Market!Indexes, Market!TushareIndexes, Market!AkIndexes, Market!Plain, Market!Calls, Market!Gives, Market!Nothing,
       Market!Known, Ranges
<1>9. CASE queryCap = Market!IndexMembers
  BY <1>9, SMTT(40) DEF Market!IndexMembers, Market!TushareIndexMembers, Market!AkIndexMembers, Market!Plain, Market!Calls, Market!Gives, Market!Nothing,
       Market!Known, Ranges
<1>10. CASE queryCap = Market!IndexBars
  BY <1>10 DEF Market!IndexBars, Market!TushareIndexBars, Market!AkIndexBars, Market!TdxIndexBars, Market!Plain, Market!Calls, Market!Gives, Market!Nothing,
       Market!Known, Ranges
<1>11. CASE queryCap = Market!StockFlow
  BY <1>11 DEF Market!StockFlow, Market!TushareFlow, Market!AkFlow, Market!Plain, Market!Calls, Market!Gives, Market!Nothing,
       Market!Known, Ranges
<1>12. CASE queryCap = Market!SectorFlow
  BY <1>12 DEF Market!SectorFlow, Market!AkSectorFlow, Market!Plain, Market!Calls, Market!Gives, Market!Nothing,
       Market!Known, Ranges
<1>13. CASE queryCap = Market!Lhb
  BY <1>13 DEF Market!Lhb, Market!TushareLhb, Market!AkLhb, Market!Plain, Market!Calls, Market!Gives, Market!Nothing,
       Market!Known, Ranges
<1>14. CASE queryCap = Market!Notices
  BY <1>14 DEF Market!Notices, Market!TushareNotices, Market!AkNotices, Market!Plain, Market!Calls, Market!Gives, Market!Nothing,
       Market!Known, Ranges
<1>15. CASE queryCap = Market!StockSectors
  <2>1. queryCap.engines = << >> /\ queryCap.dated \in BOOLEAN /\ queryCap.cut \in BOOLEAN
        /\ queryCap.calls = Market!Calls(Market!Nothing, Market!Nothing, Market!Nothing)
    BY <1>15 DEF Market!StockSectors, Market!Plain
  <2>2. \A e \in Market!Known : queryCap.calls[e] = Market!Nothing
    BY <2>1 DEF Market!Calls, Market!Known
  <2> QED
    BY <1>0, <2>1, <2>2
<1>16. CASE queryCap = Market!Indicators
  <2>1. queryCap.engines = << >> /\ queryCap.dated \in BOOLEAN /\ queryCap.cut \in BOOLEAN
        /\ queryCap.calls = Market!Calls(Market!Nothing, Market!Nothing, Market!Nothing)
    BY <1>16 DEF Market!Indicators, Market!Plain
  <2>2. \A e \in Market!Known : queryCap.calls[e] = Market!Nothing
    BY <2>1 DEF Market!Calls, Market!Known
  <2> QED
    BY <1>0, <2>1, <2>2
<1>17. CASE queryCap = Market!SectorMembers(Market!TushareThsMembers)
  BY <1>17 DEF Market!SectorMembers, Market!AkMembers, Market!TdxMembers, Market!TushareThsMembers, Market!Plain, Market!Calls, Market!Gives, Market!Nothing,
       Market!Known, Ranges
<1>18. CASE queryCap = Market!SectorMembers(Market!TushareSwMembers)
  BY <1>18 DEF Market!SectorMembers, Market!AkMembers, Market!TdxMembers, Market!TushareSwMembers, Market!Plain, Market!Calls, Market!Gives, Market!Nothing,
       Market!Known, Ranges
<1>19. CASE queryCap = Market!SectorMembers(Market!Nothing)
  <2>1. queryCap.engines = <<"tushare", "akshare", "mootdx">> /\ queryCap.dated \in BOOLEAN /\ queryCap.cut \in BOOLEAN
        /\ queryCap.calls = Market!Calls(Market!Nothing, Market!AkMembers, Market!TdxMembers)
    BY <1>19 DEF Market!SectorMembers, Market!Plain
  <2>2. Market!AkMembers.days = "any" /\ Market!TdxMembers.days = "any"
    BY DEF Market!AkMembers, Market!TdxMembers, Market!Gives
  <2>3. \A e \in Market!Known : queryCap.calls[e] \in {Market!Nothing, Market!AkMembers, Market!TdxMembers}
    BY <2>1 DEF Market!Calls, Market!Known
  <2>4. queryCap.engines \in Seq(Market!Known)
    BY <2>1 DEF Market!Known
  <2> QED
    BY <2>1, <2>2, <2>3, <2>4 DEF Ranges
<1>20. \/ queryCap = Market!StockBasic
       \/ queryCap = Market!DailyBars
       \/ queryCap = Market!MinuteBars
       \/ queryCap = Market!Quote
       \/ queryCap = Market!Ticks
       \/ queryCap = Market!Sectors
       \/ queryCap = Market!SectorBars
       \/ queryCap = Market!Indexes
       \/ queryCap = Market!IndexMembers
       \/ queryCap = Market!IndexBars
       \/ queryCap = Market!StockFlow
       \/ queryCap = Market!SectorFlow
       \/ queryCap = Market!Lhb
       \/ queryCap = Market!Notices
       \/ queryCap = Market!StockSectors
       \/ queryCap = Market!Indicators
       \/ queryCap = Market!SectorMembers(Market!TushareThsMembers)
       \/ queryCap = Market!SectorMembers(Market!TushareSwMembers)
       \/ queryCap = Market!SectorMembers(Market!Nothing)
  BY DEF Market!Capabilities
<1> QED
  BY <1>1, <1>2, <1>3, <1>4, <1>5, <1>6, <1>7, <1>8, <1>9, <1>10,
     <1>11, <1>12, <1>13, <1>14, <1>15, <1>16, <1>17, <1>18, <1>19, <1>20

Outcomes == {"unsupported", "raised", "empty", "answered"}
Shaped(r) ==
  r = [pc |-> r.pc, mode |-> r.mode, engines |-> r.engines, range |-> r.range, old |-> r.old,
       at |-> r.at, tried |-> r.tried, answer |-> r.answer, by |-> r.by, ref |-> r.ref,
       persisted |-> r.persisted, missing |-> r.missing]

\* The outcomes of the engines a request has asked: the ones before it had no answer.
Tries(r, n) ==
  /\ r.mode \in Market!Modes \ {"db_only"}
  /\ r.engines \in Seq(Market!Known) /\ r.at \in 1 .. Len(r.engines)
  /\ r.tried \in Seq(Outcomes) /\ Len(r.tried) = n
  /\ \A i \in 1 .. r.at - 1 : r.tried[i] # "answered"

\* A request that asks has no answer yet; one that stores has the answer of the engine it
\* asked last, with its audit, which is empty only where that is an answer.
AskInv(r) == Tries(r, r.at - 1) /\ r.by = "none" /\ ~r.persisted /\ ~r.missing
StoreInv(r, log) ==
  /\ Tries(r, r.at) /\ ~r.persisted /\ ~r.missing
  /\ r.engines[r.at] = r.by /\ r.ref \in 1 .. Len(log) /\ log[r.ref] = r.by
  /\ r.answer = {} => queryCap.empty

\* What EnvelopeTrue says of a finished request, with the audit in place.
DoneInv(r, log, rows) ==
  /\ r.mode = "db_only" => r.tried = << >>
  /\ r.by = "database" => r.mode \in Market!ReadsFirst \/ queryCap.engines = << >>
  /\ r.by \in Market!Known =>
       /\ Tries(r, r.at)
       /\ r.engines[r.at] = r.by /\ r.ref \in 1 .. Len(log) /\ log[r.ref] = r.by
  /\ r.persisted => /\ r.mode \notin {"db_only", "provider_only"}
                    /\ \A n \in r.answer : \E s \in rows : Market!SameKey(n, s)
  /\ r.answer = {} /\ ~r.missing => queryCap.empty

RequestInv(r, log, rows) ==
  /\ r.pc \in {"free", "ask", "store", "done"}
  /\ r.pc # "free" => Shaped(r)
  /\ r.pc = "ask" => AskInv(r)
  /\ r.pc = "store" => StoreInv(r, log)
  /\ r.pc = "done" => DoneInv(r, log, rows)

\* Every request is as far as its fields say.
QueryInv ==
  part = "query" =>
    /\ queryCap \in Market!Capabilities /\ queryToday \in Nat \ {0}
    /\ queryAudits \in Seq(Market!Known)
    /\ query = [q \in Queries |-> query[q]]
    /\ \A q \in Queries : RequestInv(query[q], queryAudits, queryRows)

LEMMA QueryStart == ServicesInit => QueryInv
BY DEF ServicesInit, Market!Init, QueryInv, RequestInv, Market!Free

\* The audits grow and no key leaves the table: what a finished request says stays true.
LEMMA StillTrue ==
  ASSUME NEW r, NEW log \in Seq(Market!Known), NEW rows, RequestInv(r, log, rows),
         NEW more \in Seq(Market!Known), Len(log) =< Len(more), \A i \in 1 .. Len(log) : more[i] = log[i],
         NEW new, \A s \in rows : \E n \in new : Market!SameKey(s, n)
  PROVE  RequestInv(r, more, new)
<1>1. StoreInv(r, log) => StoreInv(r, more)
  BY DEF StoreInv
<1>2. ASSUME DoneInv(r, log, rows)
      PROVE  DoneInv(r, more, new)
  <2>1. ASSUME NEW n \in r.answer, r.persisted
        PROVE  \E s \in new : Market!SameKey(n, s)
    <3>1. PICK s \in rows : Market!SameKey(n, s)
      BY <1>2, <2>1 DEF DoneInv
    <3>2. PICK t \in new : Market!SameKey(s, t)
      OBVIOUS
    <3> QED
      BY <3>1, <3>2 DEF Market!SameKey
  <2>2. r.ref \in 1 .. Len(log) /\ log[r.ref] = r.by => r.ref \in 1 .. Len(more) /\ more[r.ref] = r.by
    OBVIOUS
  <2> QED
    BY <1>2, <2>1, <2>2 DEF DoneInv
<1> QED
  BY <1>1, <1>2 DEF RequestInv

\* An upsert keeps the keys there are and has the new ones.
LEMMA UpsertKeeps ==
  ASSUME NEW rows
  PROVE  /\ \A s \in queryRows : \E n \in Market!Upsert(rows) : Market!SameKey(s, n)
         /\ \A s \in rows : \E n \in Market!Upsert(rows) : Market!SameKey(s, n)
BY DEF Market!Upsert, Market!SameKey

LEMMA AuditsGrow ==
  ASSUME NEW log \in Seq(Market!Known), NEW e \in Market!Known
  PROVE  /\ Append(log, e) \in Seq(Market!Known) /\ Len(Append(log, e)) = Len(log) + 1
         /\ Append(log, e)[Len(log) + 1] = e
         /\ \A i \in 1 .. Len(log) : Append(log, e)[i] = log[i]
OBVIOUS

\* What is cut to a page that has rows has rows.
LEMMA NothingCounts == Market!Cardinality({}) = 0
BY FS_EmptySet DEF Market!Cardinality, Cardinality

LEMMA CutHasRows ==
  ASSUME NEW rows, rows # {}, NEW n \in Nat, \A r \in rows : r.day \in 1 .. n, NEW newest \in BOOLEAN
  PROVE  Market!Cut(rows, newest) # {}
<1> DEFINE Rank(r) == IF newest THEN n - r.day ELSE r.day
<1>1. \A r \in rows : Rank(r) \in Nat
  OBVIOUS
<1>2. PICK ranks : ranks = {Rank(r) : r \in rows}
  OBVIOUS
<1>3. ranks \in SUBSET Nat /\ ranks # {}
  BY <1>1, <1>2
<1>4. PICK m \in ranks : \A k \in ranks : m <= k
  BY <1>3, LeastExists
<1>5. PICK r \in rows : m = Rank(r)
  BY <1>2
<1>6. \A s \in rows : Rank(r) <= Rank(s)
  BY <1>2, <1>4, <1>5
<1>7. {s \in rows : IF newest THEN s.day > r.day ELSE s.day < r.day} = {}
  BY <1>6
<1>8. Market!Cardinality({s \in rows : IF newest THEN s.day > r.day ELSE s.day < r.day}) < RowLimit
  BY <1>7, NothingCounts, PageAssumption
<1> QED
  BY <1>8 DEF Market!Cut

\* The days an adapter may return are days there are.
LEMMA OfferedDays ==
  ASSUME queryCap \in Market!Capabilities, queryToday \in Nat \ {0}, NEW e \in Market!Known,
         queryCap.calls[e] # Market!Nothing, NEW range
  PROVE  \E n \in Nat : \A d \in Market!Offered(queryCap.calls[e], range) : d \in 1 .. n
<1>1. queryCap.calls[e].days \in Ranges
  BY AdaptersKnown
<1>2. PICK a : a = queryCap.calls[e]
  OBVIOUS
<1>3. PICK m \in Nat : m = IF queryCap.dated THEN queryToday ELSE QueryDays
  BY PageAssumption
<1>4. /\ a.days = "any" => Market!Offered(a, range) = 1 .. m
      /\ a.days = "range" => Market!Offered(a, range) = (1 .. m) \intersect range
      /\ a.days = "today" => Market!Offered(a, range) = {queryToday}
      /\ a.days = "last" => Market!Offered(a, range) = {d \in 1 .. m : d > queryToday - RowLimit}
  BY <1>3 DEF Market!Offered
<1>5. CASE a.days = "today"
  BY <1>2, <1>4, <1>5
<1> QED
  BY <1>1, <1>2, <1>3, <1>4, <1>5 DEF Ranges

\* A request that got nothing goes on to the next engine, or ends.
LEMMA GoesOn ==
  ASSUME NEW q \in Queries, Shaped(query[q]), query[q].pc = "ask", AskInv(query[q]),
         NEW outcome \in {"unsupported", "raised", "empty"}, NEW log, NEW rows
  PROVE  RequestInv(Market!GoOn(q, outcome), log, rows)
<1>1. PICK r : r = query[q]
  OBVIOUS
<1>2. PICK t : t = Append(r.tried, outcome)
  OBVIOUS
<1>3. PICK n : n = [r EXCEPT !.tried = t, !.at = r.at + 1]
  OBVIOUS
<1>4. /\ r.mode \in Market!Modes \ {"db_only"} /\ r.engines \in Seq(Market!Known)
      /\ r.at \in 1 .. Len(r.engines) /\ r.tried \in Seq(Outcomes) /\ Len(r.tried) = r.at - 1
      /\ \A i \in 1 .. r.at - 1 : r.tried[i] # "answered"
      /\ r.by = "none" /\ ~r.persisted /\ ~r.missing
  BY <1>1 DEF AskInv, Tries
<1>5. /\ t \in Seq(Outcomes) /\ Len(t) = r.at
      /\ \A i \in 1 .. r.at : t[i] # "answered"
  <2>1. outcome \in Outcomes /\ outcome # "answered"
    BY DEF Outcomes
  <2>2. t \in Seq(Outcomes) /\ Len(t) = r.at
    BY <1>2, <1>4, <2>1
  <2>3. ASSUME NEW i \in 1 .. r.at PROVE t[i] # "answered"
    <3>1. t[i] = IF i = r.at THEN outcome ELSE r.tried[i]
      BY <1>2, <1>4, <2>1
    <3> QED
      BY <1>4, <2>1, <3>1
  <2> QED
    BY <2>2, <2>3
<1>6. n = [pc |-> "ask", mode |-> r.mode, engines |-> r.engines, range |-> r.range, old |-> r.old,
           at |-> r.at + 1, tried |-> t, answer |-> r.answer, by |-> r.by, ref |-> r.ref,
           persisted |-> r.persisted, missing |-> r.missing]
  BY <1>1, <1>3 DEF Shaped
<1>7. Market!GoOn(q, outcome) = IF n.at > Len(n.engines) THEN Market!Exhausted(n) ELSE n
  BY <1>1, <1>2, <1>3 DEF Market!GoOn
<1>8. CASE n.at > Len(n.engines)
  <2>1. PICK x : x = Market!Exhausted(n)
    OBVIOUS
  <2>2. /\ x.pc = "done" /\ Shaped(x) /\ x.mode = r.mode /\ x.missing /\ ~x.persisted
        /\ x.by = "none" \/ (x.by = "database" /\ x.mode = "db_first")
    BY <1>4, <1>6, <2>1 DEF Market!Exhausted, Market!Done, Shaped
  <2>3. DoneInv(x, log, rows)
    BY <1>4, <2>2 DEF DoneInv, Market!Known, Market!ReadsFirst
  <2> QED
    BY <1>7, <1>8, <2>1, <2>2, <2>3 DEF RequestInv
<1>9. CASE ~(n.at > Len(n.engines))
  <2>1. AskInv(n) /\ Shaped(n) /\ n.pc = "ask"
    BY <1>4, <1>5, <1>6, <1>9 DEF AskInv, Tries, Shaped
  <2> QED
    BY <1>7, <1>9, <2>1 DEF RequestInv
<1> QED
  BY <1>8, <1>9

\* A request that starts is answered by a mode that reads, or asks.
LEMMA Begins ==
  ASSUME NEW q \in Queries, Market!Begin(q), queryCap \in Market!Capabilities, NEW log, NEW rows
  PROVE  \E new : query' = [query EXCEPT ![q] = new] /\ RequestInv(new, log, rows)
<1>1. PICK mode \in Market!Modes, named \in Market!Named,
           range \in IF queryCap.dated THEN {Market!Days} \union {{d} : d \in Market!Days} ELSE {Market!Days} :
         LET alone == mode = "db_only" \/ queryCap.engines = <<>>
             reads == mode \in Market!ReadsFirst \/ alone
             page  == IF reads THEN Market!Found(range) ELSE {}
             new   == Market!Asking(mode, Market!Engines(named), range, page)
             found == page # {} /\ ~Market!IsStale(page, range)
         IN  query' = [query EXCEPT ![q] =
               IF alone \/ found
               THEN Market!Done(new, page, IF page = {} /\ queryCap # Market!Indicators THEN "none" ELSE "database",
                         page = {} /\ ~queryCap.empty)
               ELSE new]
  BY DEF Market!Begin
<1>2. PICK page : page = IF mode \in Market!ReadsFirst \/ mode = "db_only" \/ queryCap.engines = <<>>
                         THEN Market!Found(range) ELSE {}
  OBVIOUS
<1>3. PICK n : n = Market!Asking(mode, Market!Engines(named), range, page)
  OBVIOUS
<1>4. /\ n = [pc |-> "ask", mode |-> mode, engines |-> Market!Engines(named), range |-> range, old |-> page,
              at |-> 1, tried |-> <<>>, answer |-> {}, by |-> "none", ref |-> 0, persisted |-> FALSE,
              missing |-> FALSE]
  BY <1>3 DEF Market!Asking
<1>5. CASE mode = "db_only" \/ queryCap.engines = << >> \/ (page # {} /\ ~Market!IsStale(page, range))
  <2>1. PICK by : by = IF page = {} /\ queryCap # Market!Indicators THEN "none" ELSE "database"
    OBVIOUS
  <2>2. PICK missing : missing = (page = {} /\ ~queryCap.empty)
    OBVIOUS
  <2>3. query' = [query EXCEPT ![q] = Market!Done(n, page, by, missing)]
    BY <1>1, <1>2, <1>3, <1>5, <2>1, <2>2
  <2>4. Market!Done(n, page, by, missing) =
          [pc |-> "done", mode |-> mode, engines |-> Market!Engines(named), range |-> range, old |-> page,
           at |-> 1, tried |-> <<>>, answer |-> page, by |-> by, ref |-> 0, persisted |-> FALSE,
           missing |-> missing]
    <3>1. Market!Done(n, page, by, missing) =
            [n EXCEPT !.pc = "done", !.answer = page, !.by = by, !.missing = missing]
      BY DEF Market!Done
    <3> QED
      BY <1>4, <3>1, ZenonT(60)
  <2>5. PICK x : x = Market!Done(n, page, by, missing)
    OBVIOUS
  <2>6. /\ Shaped(x) /\ x.pc = "done" /\ x.mode = mode /\ x.tried = << >> /\ x.by = by /\ ~x.persisted
        /\ x.answer = page /\ x.missing = missing
    BY <2>4, <2>5 DEF Shaped
  <2>7. mode \in Market!ReadsFirst \/ queryCap.engines = << >>
    BY <1>2, <1>5 DEF Market!ReadsFirst
  <2>8. by \notin Market!Known
    BY <2>1 DEF Market!Known
  <2>9. page = {} /\ ~missing => queryCap.empty
    BY <2>2
  <2>10. DoneInv(x, log, rows)
    BY <2>6, <2>7, <2>8, <2>9 DEF DoneInv
  <2> QED
    BY <2>3, <2>5, <2>6, <2>10 DEF RequestInv
<1>6. CASE ~(mode = "db_only" \/ queryCap.engines = << >> \/ (page # {} /\ ~Market!IsStale(page, range)))
  <2>1. query' = [query EXCEPT ![q] = n]
    BY <1>1, <1>2, <1>3, <1>6
  <2>2. Market!Engines(named) \in Seq(Market!Known) /\ Market!Engines(named) # << >>
    <3>1. <<"mootdx", "akshare">> \in Seq(Market!Known) /\ <<"mootdx", "akshare">> # << >>
      BY DEF Market!Known
    <3> QED
      BY <1>6, <3>1, AdaptersKnown DEF Market!Engines, Market!Named
  <2>3. 1 \in 1 .. Len(Market!Engines(named))
    BY <2>2
  <2>4. << >> \in Seq(Outcomes) /\ Len(<< >>) = 0
    OBVIOUS
  <2>5. /\ Shaped(n) /\ n.pc = "ask" /\ n.mode = mode /\ n.engines = Market!Engines(named) /\ n.at = 1
        /\ n.tried = << >> /\ n.by = "none" /\ ~n.persisted /\ ~n.missing
    BY <1>4 DEF Shaped
  <2>6. AskInv(n)
    BY <1>6, <2>2, <2>3, <2>4, <2>5 DEF AskInv, Tries
  <2> QED
    BY <2>1, <2>5, <2>6 DEF RequestInv
<1> QED
  BY <1>5, <1>6

\* An engine answers: its answer is audited, and a page of it is kept.
LEMMA EngineAnswers ==
  ASSUME NEW q \in Queries, Market!AskAnswers(q), queryCap \in Market!Capabilities,
         queryToday \in Nat \ {0}, queryAudits \in Seq(Market!Known),
         Shaped(query[q]), query[q].pc = "ask", AskInv(query[q]), NEW rows
  PROVE  /\ \E e \in Market!Known : queryAudits' = Append(queryAudits, e)
         /\ \E new : query' = [query EXCEPT ![q] = new] /\ RequestInv(new, queryAudits', rows)
<1>1. PICK r : r = query[q]
  OBVIOUS
<1>2. PICK e : e = Market!Engine(q)
  OBVIOUS
<1>3. /\ r.mode \in Market!Modes \ {"db_only"} /\ r.engines \in Seq(Market!Known)
      /\ r.at \in 1 .. Len(r.engines) /\ r.tried \in Seq(Outcomes) /\ Len(r.tried) = r.at - 1
      /\ \A i \in 1 .. r.at - 1 : r.tried[i] # "answered"
      /\ ~r.persisted
  BY <1>1 DEF AskInv, Tries
<1>4. e \in Market!Known /\ r.engines[r.at] = e
  BY <1>1, <1>2, <1>3 DEF Market!Engine
<1>5. PICK a : a = queryCap.calls[e] /\ a # Market!Nothing /\ a = Market!Adapter(q)
  BY <1>2 DEF Market!AskAnswers, Market!Adapter
<1>6. queryAudits' = Append(queryAudits, e)
  BY <1>2 DEF Market!AskAnswers
<1>7. PICK days \in SUBSET Market!Offered(Market!Adapter(q), query[q].range), under \in Market!Adapter(q).under,
           newest \in BOOLEAN :
        LET page == {Market!Row(d, Market!Adapter(q).source, under) : d \in days}
            kept == IF queryCap.cut THEN Market!Cut(page, newest) ELSE page
        IN  query' = [query EXCEPT ![q] =
              IF page = {} /\ ~queryCap.empty
              THEN Market!GoOn(q, "empty")
              ELSE [query[q] EXCEPT !.pc = "store", !.tried = Append(@, "answered"), !.answer = kept,
                             !.by = Market!Engine(q), !.ref = Len(queryAudits) + 1]]
  BY DEF Market!AskAnswers
<1>8. PICK page : page = {Market!Row(d, Market!Adapter(q).source, under) : d \in days}
  OBVIOUS
<1>9. PICK kept : kept = IF queryCap.cut THEN Market!Cut(page, newest) ELSE page
  OBVIOUS
<1>10. CASE page = {} /\ ~queryCap.empty
  <2>1. query' = [query EXCEPT ![q] = Market!GoOn(q, "empty")]
    BY <1>7, <1>8, <1>9, <1>10
  <2>2. RequestInv(Market!GoOn(q, "empty"), queryAudits', rows)
    BY GoesOn
  <2> QED
    BY <1>4, <1>6, <2>1, <2>2
<1>11. CASE ~(page = {} /\ ~queryCap.empty)
  <2>1. PICK t : t = Append(r.tried, "answered")
    OBVIOUS
  <2>2. PICK n : n = [r EXCEPT !.pc = "store", !.tried = t, !.answer = kept, !.by = e, !.ref = Len(queryAudits) + 1]
    OBVIOUS
  <2>3. query' = [query EXCEPT ![q] = n]
    <3>1. query' = [query EXCEPT ![q] = [r EXCEPT !.pc = "store", !.tried = Append(@, "answered"), !.answer = kept,
                                                  !.by = e, !.ref = Len(queryAudits) + 1]]
      BY <1>1, <1>2, <1>7, <1>8, <1>9, <1>11
    <3>2. [r EXCEPT !.pc = "store", !.tried = Append(@, "answered"), !.answer = kept,
                    !.by = e, !.ref = Len(queryAudits) + 1] = n
      BY <1>1, <2>1, <2>2 DEF Shaped
    <3> QED
      BY <3>1, <3>2
  <2>4. t \in Seq(Outcomes) /\ Len(t) = r.at /\ \A i \in 1 .. r.at - 1 : t[i] # "answered"
    <3>1. "answered" \in Outcomes
      BY DEF Outcomes
    <3>2. t \in Seq(Outcomes) /\ Len(t) = r.at
      BY <1>3, <2>1, <3>1
    <3>3. \A i \in 1 .. r.at - 1 : t[i] = r.tried[i]
      BY <1>3, <2>1, <3>1
    <3> QED
      BY <1>3, <3>2, <3>3
  <2>5. n = [pc |-> "store", mode |-> r.mode, engines |-> r.engines, range |-> r.range, old |-> r.old,
             at |-> r.at, tried |-> t, answer |-> kept, by |-> e, ref |-> Len(queryAudits) + 1,
             persisted |-> r.persisted, missing |-> r.missing]
    BY <1>1, <2>2 DEF Shaped
  <2>6. kept = {} => queryCap.empty
    <3>1. PICK m \in Nat : \A d \in Market!Offered(a, r.range) : d \in 1 .. m
      BY <1>4, <1>5, OfferedDays
    <3>2. \A x \in page : x.day \in 1 .. m
      BY <1>1, <1>5, <1>8, <3>1 DEF Market!Row
    <3>3. page # {} => kept # {}
      BY <1>9, <3>2, CutHasRows
    <3> QED
      BY <1>11, <3>3
  <2>7. Len(queryAudits) + 1 \in 1 .. Len(queryAudits') /\ queryAudits'[Len(queryAudits) + 1] = e
    BY <1>4, <1>6, AuditsGrow
  <2>8. /\ Shaped(n) /\ n.pc = "store" /\ n.mode = r.mode /\ n.engines = r.engines /\ n.at = r.at /\ n.tried = t
        /\ n.answer = kept /\ n.by = e /\ n.ref = Len(queryAudits) + 1 /\ n.persisted = r.persisted
        /\ n.missing = r.missing
    BY <2>5 DEF Shaped
  <2>9. ~r.missing
    BY <1>1 DEF AskInv
  <2>10. StoreInv(n, queryAudits')
    BY <1>3, <1>4, <2>4, <2>6, <2>7, <2>8, <2>9 DEF StoreInv, Tries
  <2> QED
    BY <1>4, <1>6, <2>3, <2>8, <2>10 DEF RequestInv
<1> QED
  BY <1>10, <1>11

LEMMA QuerySteps == QueryInv /\ [ServicesNext]_servicesVars => QueryInv'
<1> SUFFICES ASSUME QueryInv, [ServicesNext]_servicesVars, part' = "query" PROVE QueryInv'
  BY DEF QueryInv
<1>1. part' = part /\ part = "query"
  BY DEF ServicesNext, servicesVars
<1>2. [Market!Next]_queryVars
  BY <1>1 DEF ServicesNext, servicesVars, queryVars
<1>3. /\ queryCap \in Market!Capabilities /\ queryToday \in Nat \ {0}
      /\ queryAudits \in Seq(Market!Known)
      /\ query = [q \in Queries |-> query[q]]
      /\ \A q \in Queries : RequestInv(query[q], queryAudits, queryRows)
  BY <1>1 DEF QueryInv
<1>4. SUFFICES /\ queryCap' = queryCap /\ queryToday' \in Nat \ {0}
               /\ queryAudits' \in Seq(Market!Known)
               /\ query' = [q \in Queries |-> query'[q]]
               /\ \A q \in Queries : RequestInv(query'[q], queryAudits', queryRows')
  BY <1>3 DEF QueryInv, RequestInv, StoreInv, DoneInv, AskInv, Tries, Shaped, Market!SameKey
<1> DEFINE Grown == /\ queryAudits' \in Seq(Market!Known) /\ Len(queryAudits) =< Len(queryAudits')
                    /\ \A i \in 1 .. Len(queryAudits) : queryAudits'[i] = queryAudits[i]
           Stored == \A s \in queryRows : \E n \in queryRows' : Market!SameKey(s, n)
           After == /\ query' = [q \in Queries |-> query'[q]]
                    /\ \A q \in Queries : RequestInv(query'[q], queryAudits', queryRows')
<1>5. queryAudits' = queryAudits => Grown
  BY <1>3
<1>6. queryRows' = queryRows => Stored
  BY DEF Market!SameKey
<1>7. ASSUME NEW rows, queryRows' = Market!Upsert(rows) PROVE Stored
  BY <1>7, UpsertKeeps
<1>8. ASSUME Grown, Stored, NEW q \in Queries
      PROVE  RequestInv(query[q], queryAudits', queryRows')
  BY <1>3, <1>8, StillTrue
<1> HIDE DEF Grown, Stored
<1>9. Grown /\ Stored /\ query' = query => After
  BY <1>3, <1>8
<1>10. ASSUME Grown, Stored, NEW q \in Queries, NEW new, query' = [query EXCEPT ![q] = new],
              RequestInv(new, queryAudits', queryRows')
       PROVE  After
  BY <1>3, <1>8, <1>10
<1> HIDE DEF After
<1>11. SUFFICES /\ queryCap' = queryCap /\ queryToday' \in Nat \ {0}
                /\ queryAudits' \in Seq(Market!Known) /\ After
  BY DEF After
<1>12. Grown => queryAudits' \in Seq(Market!Known)
  BY DEF Grown
<1>13. CASE UNCHANGED queryVars
  BY <1>3, <1>5, <1>6, <1>9, <1>13 DEF queryVars
<1>14. CASE Market!IngestStores
  BY <1>3, <1>5, <1>7, <1>9, <1>14 DEF Market!IngestStores, Market!Others
<1>15. CASE Market!DayPasses
  BY <1>3, <1>5, <1>6, <1>9, <1>15 DEF Market!DayPasses
<1>16. ASSUME NEW q \in Queries, Market!Begin(q)
       PROVE  /\ queryCap' = queryCap /\ queryToday' \in Nat \ {0}
              /\ queryAudits' \in Seq(Market!Known) /\ After
  <2>1. queryAudits' = queryAudits /\ queryRows' = queryRows /\ queryCap' = queryCap /\ queryToday' = queryToday
    BY <1>16 DEF Market!Begin, Market!Others
  <2>2. PICK new : query' = [query EXCEPT ![q] = new] /\ RequestInv(new, queryAudits', queryRows')
    BY <1>3, <1>16, Begins
  <2> QED
    BY <1>3, <1>5, <1>6, <1>10, <2>1, <2>2
<1>17. ASSUME NEW q \in Queries, query[q].pc = "ask"
       PROVE  Shaped(query[q]) /\ AskInv(query[q])
  BY <1>3, <1>17 DEF RequestInv
<1>18. ASSUME NEW q \in Queries, Market!AskFails(q)
       PROVE  /\ queryCap' = queryCap /\ queryToday' \in Nat \ {0}
              /\ queryAudits' \in Seq(Market!Known) /\ After
  <2>1. queryAudits' = queryAudits /\ queryRows' = queryRows /\ queryCap' = queryCap /\ queryToday' = queryToday
    BY <1>18 DEF Market!AskFails, Market!Others
  <2>2. PICK outcome \in {"unsupported", "raised"} : query' = [query EXCEPT ![q] = Market!GoOn(q, outcome)]
    BY <1>18 DEF Market!AskFails
  <2>3. query[q].pc = "ask"
    BY <1>18 DEF Market!AskFails, Market!Doing
  <2>4. RequestInv(Market!GoOn(q, outcome), queryAudits', queryRows')
    BY <1>17, <2>3, GoesOn
  <2> QED
    BY <1>3, <1>5, <1>6, <1>10, <2>1, <2>2, <2>4
<1>19. ASSUME NEW q \in Queries, Market!AskAnswers(q)
       PROVE  /\ queryCap' = queryCap /\ queryToday' \in Nat \ {0}
              /\ queryAudits' \in Seq(Market!Known) /\ After
  <2>1. queryRows' = queryRows /\ queryCap' = queryCap /\ queryToday' = queryToday
    BY <1>19 DEF Market!AskAnswers, Market!Others
  <2>2. query[q].pc = "ask"
    BY <1>19 DEF Market!AskAnswers, Market!Doing
  <2>3. /\ \E e \in Market!Known : queryAudits' = Append(queryAudits, e)
        /\ \E new : query' = [query EXCEPT ![q] = new] /\ RequestInv(new, queryAudits', queryRows')
    BY <1>3, <1>17, <1>19, <2>2, EngineAnswers
  <2>4. Grown
    BY <1>3, <2>3, AuditsGrow DEF Grown
  <2> QED
    BY <1>3, <1>6, <1>10, <1>12, <2>1, <2>3, <2>4
<1>20. ASSUME NEW q \in Queries, Market!Store(q)
       PROVE  /\ queryCap' = queryCap /\ queryToday' \in Nat \ {0}
              /\ queryAudits' \in Seq(Market!Known) /\ After
  <2>1. queryAudits' = queryAudits /\ queryCap' = queryCap /\ queryToday' = queryToday
    BY <1>20 DEF Market!Store, Market!Others
  <2>2. queryRows' = (IF Market!Keep(q) THEN Market!Upsert(query[q].answer) ELSE queryRows)
    BY <1>20 DEF Market!Store
  <2>3. Stored
    BY <1>6, <1>7, <2>2
  <2>4. PICK r : r = query[q]
    OBVIOUS
  <2>5. r.pc = "store" /\ Shaped(r) /\ StoreInv(r, queryAudits)
    BY <1>3, <1>20, <2>4 DEF RequestInv, Market!Store, Market!Doing
  <2>6. PICK k : k = Market!Keep(q)
    OBVIOUS
  <2>7. PICK n : n = [r EXCEPT !.pc = "done", !.persisted = k]
    OBVIOUS
  <2>8. query' = [query EXCEPT ![q] = n]
    BY <1>3, <1>20, <2>4, <2>6, <2>7 DEF Market!Store
  <2>9. n = [pc |-> "done", mode |-> r.mode, engines |-> r.engines, range |-> r.range, old |-> r.old,
             at |-> r.at, tried |-> r.tried, answer |-> r.answer, by |-> r.by, ref |-> r.ref,
             persisted |-> k, missing |-> r.missing]
    BY <2>5, <2>7 DEF Shaped
  <2>10. PICK a : a = r.answer
    OBVIOUS
  <2>11. k => /\ r.mode # "provider_only"
              /\ \A x \in a : \E s \in queryRows' : Market!SameKey(x, s)
    BY <2>2, <2>4, <2>6, <2>10, UpsertKeeps DEF Market!Keep
  <2>12. /\ n.pc = "done" /\ Shaped(n) /\ n.mode = r.mode /\ n.engines = r.engines /\ n.at = r.at
         /\ n.tried = r.tried /\ n.answer = a /\ n.by = r.by /\ n.ref = r.ref /\ n.persisted = k
         /\ n.missing = r.missing
    BY <2>9, <2>10 DEF Shaped
  <2>13. /\ Tries(r, r.at) /\ r.engines[r.at] = r.by /\ r.ref \in 1 .. Len(queryAudits)
         /\ queryAudits[r.ref] = r.by /\ (a = {} => queryCap.empty)
    BY <2>5, <2>10 DEF StoreInv
  <2>14. r.mode # "db_only" /\ r.by \in Market!Known
    BY <2>13 DEF Tries
  <2>15. Tries(n, n.at)
    BY <2>12, <2>13 DEF Tries
  <2>16. DoneInv(n, queryAudits', queryRows')
    BY <2>1, <2>11, <2>12, <2>13, <2>14, <2>15 DEF DoneInv, Market!Known
  <2> QED
    BY <1>3, <1>5, <1>10, <2>1, <2>3, <2>8, <2>12, <2>16 DEF RequestInv
<1>21. ASSUME NEW q \in Queries, Market!StoreFails(q)
       PROVE  /\ queryCap' = queryCap /\ queryToday' \in Nat \ {0}
              /\ queryAudits' \in Seq(Market!Known) /\ After
  <2>1. RequestInv(Market!Free, queryAudits', queryRows')
    BY DEF RequestInv, Market!Free
  <2> QED
    BY <1>3, <1>5, <1>6, <1>10, <1>21, <2>1 DEF Market!StoreFails, Market!Others
<1> QED
  BY <1>2, <1>13, <1>14, <1>15, <1>16, <1>18, <1>19, <1>20, <1>21 DEF Market!Next

LEMMA QueriesTrue == QueryInv /\ part = "query" => Market!EnvelopeTrue
<1> SUFFICES ASSUME QueryInv, part = "query", NEW q \in Queries, query[q].pc = "done"
             PROVE  LET r == query[q] IN
                    /\ r.mode = "db_only" => r.tried = <<>>
                    /\ r.by = "database" => r.mode \in Market!ReadsFirst \/ queryCap.engines = <<>>
                    /\ r.by \in Market!Known =>
                         /\ \A i \in 1 .. Len(r.tried) - 1 : r.tried[i] # "answered"
                         /\ Len(r.tried) = r.at /\ r.engines[r.at] = r.by
                         /\ queryAudits[r.ref] = r.by
                    /\ r.persisted => /\ r.mode \notin {"db_only", "provider_only"}
                                      /\ \A n \in r.answer : \E s \in queryRows : Market!SameKey(n, s)
                    /\ r.answer = {} /\ ~r.missing => queryCap.empty
  BY DEF Market!EnvelopeTrue, Market!Answered
<1>1. DoneInv(query[q], queryAudits, queryRows)
  BY DEF QueryInv, RequestInv
<1> QED
  BY <1>1 DEF DoneInv, Tries

-----------------------------------------------------------------------------
(* The stock pools                                                         *)

PoolRow == [id : Nat, system : BOOLEAN, on : BOOLEAN,
            rule : {"none", "active_a_share", "strategy_candidates"}]
Operations == {"none", "create", "strategy", "edit", "policy", "enable", "delete", "add", "remove"}
Requests == [op : Operations, code : Pooled!AllCodes \union {"none"}, pool : PoolRow]

\* No row, or one with an id that was given; the pool of the whole market has the first.
Sane(row, next) ==
  /\ row \in PoolRow
  /\ row = Pooled!NoPool \/ row.id \in 1 .. next - 1
  /\ row.id = 1 <=> row.rule = "active_a_share"

\* No two pools have one id.
Apart(rows, next) ==
  /\ rows \in [Pooled!AllCodes -> PoolRow]
  /\ \A c \in Pooled!AllCodes : Sane(rows[c], next)
  /\ \A c, d \in Pooled!AllCodes : rows[c].id = rows[d].id /\ rows[c].id # 0 => c = d

\* What a request read is still said of the pool with the id it read: pools do not change
\* their rule and ids are not used twice.
Reads(req, rows, next) ==
  /\ req \in Requests /\ Sane(req.pool, next)
  /\ req.op # "none" => req.code \in Pooled!AllCodes
  /\ req.op \in {"add", "remove"} => req.pool # Pooled!NoPool /\ req.pool.rule = "none"
  /\ req.op = "enable" => req.pool.rule # "active_a_share"
  /\ \A c \in Pooled!AllCodes : rows[c].id = req.pool.id => rows[c].rule = req.pool.rule

\* Members are of pools that are there and have no rule.
Belong(all, rows) ==
  \A m \in all : \E c \in Pooled!AllCodes : rows[c].id = m[1] /\ m[1] # 0 /\ rows[c].rule = "none"

PoolInv ==
  part = "pool" =>
    /\ poolNextId \in Nat \ {0, 1} /\ Apart(poolRows, poolNextId)
    /\ poolRequest \in [PoolClients -> Requests]
    /\ \A r \in PoolClients : Reads(poolRequest[r], poolRows, poolNextId)
    /\ Belong(poolMembers, poolRows)
    /\ DOMAIN poolOwner = Pooled!Ids /\ poolOwner[1] = Pooled!NoOwner
    /\ DOMAIN poolPolicy = Pooled!Ids /\ poolPolicy[1] # "on"
    /\ \A k \in poolCands : k.day \in {1, 2} /\ k.fate \in Pooled!Fates

LEMMA NoPoolSane ==
  ASSUME NEW next \in Nat \ {0, 1}
  PROVE  Sane(Pooled!NoPool, next) /\ Pooled!NoPool.id = 0 /\ Pooled!NoPool.rule = "none"
BY DEF Sane, Pooled!NoPool, PoolRow

LEMMA PoolStart == ServicesInit => PoolInv
<1> SUFFICES ASSUME ServicesInit, part = "pool" PROVE PoolInv
  BY DEF PoolInv
<1>1. Pooled!Init
  BY DEF ServicesInit
<1>2. /\ poolRows = [c \in Pooled!AllCodes |-> IF c = "all" THEN Pooled!Seeded ELSE Pooled!NoPool]
      /\ poolNextId = 2 /\ poolMembers = {} /\ poolCands = {}
      /\ poolPolicy = [i \in Pooled!Ids |-> IF i = 1 THEN "off" ELSE "none"]
      /\ poolOwner = [i \in Pooled!Ids |-> Pooled!NoOwner]
      /\ poolRequest = [r \in PoolClients |-> Pooled!Free]
  BY <1>1 DEF Pooled!Init
<1>3. 1 \in Pooled!Ids
  BY PoolAssumption DEF Pooled!Ids
<1>4. /\ Sane(Pooled!Seeded, 2) /\ Sane(Pooled!NoPool, 2)
      /\ Pooled!Seeded.id = 1 /\ Pooled!NoPool.id = 0
      /\ Pooled!NoPool.rule = "none"
  BY DEF Sane, Pooled!Seeded, Pooled!NoPool, PoolRow
<1>5. Apart(poolRows, 2)
  BY <1>2, <1>4 DEF Apart, Sane
<1>6. /\ Pooled!Free \in Requests /\ Pooled!Free.op = "none" /\ Pooled!Free.pool = Pooled!NoPool
  BY <1>4 DEF Pooled!Free, Requests, Operations, Sane
<1>7. \A c \in Pooled!AllCodes : poolRows[c].id = 0 => poolRows[c].rule = "none"
  BY <1>2, <1>4
<1>8. Reads(Pooled!Free, poolRows, 2)
  BY <1>4, <1>6, <1>7 DEF Reads
<1> QED
  BY <1>2, <1>3, <1>5, <1>6, <1>8 DEF PoolInv, Belong

\* A row of one code is replaced by one of a new id, of the same id, or by none.
LEMMA RowGiven ==
  ASSUME NEW rows, NEW next \in Nat \ {0, 1}, Apart(rows, next), NEW c \in Pooled!AllCodes,
         rows[c] = Pooled!NoPool, NEW row \in PoolRow, row.id = next, row.rule # "active_a_share",
         NEW new, new = [rows EXCEPT ![c] = row]
  PROVE  /\ Apart(new, next + 1)
         /\ \A req : Reads(req, rows, next) => Reads(req, new, next + 1)
         /\ \A all : Belong(all, rows) => Belong(all, new)
<1>1. /\ rows \in [Pooled!AllCodes -> PoolRow]
      /\ \A d \in Pooled!AllCodes : rows[d] = Pooled!NoPool \/ rows[d].id \in 1 .. next - 1
  BY DEF Apart, Sane
<1>2. new[c] = row /\ \A d \in Pooled!AllCodes : d # c => new[d] = rows[d]
  BY <1>1
<1>3. Pooled!NoPool.id = 0
  BY DEF Pooled!NoPool
<1>4. \A d \in Pooled!AllCodes : rows[d].id # next
  BY <1>1, <1>3
<1>5. \A x : Sane(x, next) => Sane(x, next + 1) /\ x.id # next
  BY <1>3 DEF Sane
<1>6. Sane(row, next + 1)
  BY DEF Sane
<1>7. Apart(new, next + 1)
  BY <1>1, <1>2, <1>4, <1>5, <1>6 DEF Apart
<1>8. ASSUME NEW req, Reads(req, rows, next)
      PROVE  Reads(req, new, next + 1)
  BY <1>2, <1>5, <1>8 DEF Reads
<1>9. ASSUME NEW all, Belong(all, rows)
      PROVE  Belong(all, new)
  BY <1>2, <1>3, <1>9 DEF Belong
<1> QED
  BY <1>7, <1>8, <1>9

LEMMA RowEdited ==
  ASSUME NEW rows, NEW next \in Nat \ {0, 1}, Apart(rows, next), NEW c \in Pooled!AllCodes,
         rows[c] # Pooled!NoPool, NEW row \in PoolRow, row.id = rows[c].id, row.rule = rows[c].rule,
         NEW new, new = [rows EXCEPT ![c] = row]
  PROVE  /\ Apart(new, next)
         /\ \A req : Reads(req, rows, next) => Reads(req, new, next)
         /\ \A all : Belong(all, rows) => Belong(all, new)
<1>1. rows \in [Pooled!AllCodes -> PoolRow] /\ Sane(rows[c], next)
  BY DEF Apart
<1>2. Sane(row, next)
  BY <1>1 DEF Sane
<1>3. \A d \in Pooled!AllCodes : new[d].id = rows[d].id /\ new[d].rule = rows[d].rule
                                 /\ new[d] = IF d = c THEN row ELSE rows[d]
  BY <1>1
<1>4. new \in [Pooled!AllCodes -> PoolRow]
  BY <1>1
<1> QED
  BY <1>2, <1>3, <1>4 DEF Apart, Reads, Belong

LEMMA RowDeleted ==
  ASSUME NEW rows, NEW next \in Nat \ {0, 1}, Apart(rows, next), NEW c \in Pooled!AllCodes,
         rows[c] # Pooled!NoPool, NEW new, new = [rows EXCEPT ![c] = Pooled!NoPool]
  PROVE  /\ Apart(new, next)
         /\ \A req : Reads(req, rows, next) => Reads(req, new, next)
         /\ \A all : Belong(all, rows) => Belong({m \in all : m[1] # rows[c].id}, new)
<1>1. rows \in [Pooled!AllCodes -> PoolRow]
  BY DEF Apart
<1>2. new[c] = Pooled!NoPool /\ \A d \in Pooled!AllCodes : d # c => new[d] = rows[d]
  BY <1>1
<1>3. Sane(Pooled!NoPool, next) /\ Pooled!NoPool.id = 0 /\ Pooled!NoPool.rule = "none"
  BY NoPoolSane
<1>4. Apart(new, next)
  <2>1. new \in [Pooled!AllCodes -> PoolRow]
    BY <1>1, <1>3 DEF Sane
  <2> QED
    BY <1>2, <1>3, <2>1 DEF Apart
<1>5. \A x : Sane(x, next) /\ x.id = 0 => x = Pooled!NoPool
  BY DEF Sane
<1>6. ASSUME NEW req, Reads(req, rows, next)
      PROVE  Reads(req, new, next)
  BY <1>2, <1>3, <1>5, <1>6 DEF Reads
<1>7. ASSUME NEW all, Belong(all, rows)
      PROVE  Belong({m \in all : m[1] # rows[c].id}, new)
  BY <1>2, <1>7 DEF Belong
<1> QED
  BY <1>4, <1>6, <1>7

LEMMA PoolSteps == PoolInv /\ [ServicesNext]_servicesVars => PoolInv'
<1> SUFFICES ASSUME PoolInv, [ServicesNext]_servicesVars, part' = "pool" PROVE PoolInv'
  BY DEF PoolInv
<1>1. part' = part /\ part = "pool"
  BY DEF ServicesNext, servicesVars
<1>2. [Pooled!Next]_poolVars
  BY <1>1 DEF ServicesNext, servicesVars, poolVars
<1>3. /\ poolNextId \in Nat \ {0, 1} /\ Apart(poolRows, poolNextId)
      /\ poolRequest \in [PoolClients -> Requests]
      /\ \A r \in PoolClients : Reads(poolRequest[r], poolRows, poolNextId)
      /\ Belong(poolMembers, poolRows)
      /\ DOMAIN poolOwner = Pooled!Ids /\ poolOwner[1] = Pooled!NoOwner
      /\ DOMAIN poolPolicy = Pooled!Ids /\ poolPolicy[1] # "on"
      /\ \A k \in poolCands : k.day \in {1, 2} /\ k.fate \in Pooled!Fates
  BY <1>1 DEF PoolInv
<1> DEFINE Asked == /\ poolRequest' \in [PoolClients -> Requests]
                    /\ \A r \in PoolClients : Reads(poolRequest'[r], poolRows', poolNextId')
           Listed == /\ poolNextId' \in Nat \ {0, 1} /\ Apart(poolRows', poolNextId')
                     /\ Belong(poolMembers', poolRows')
                     /\ \A r \in PoolClients : Reads(poolRequest[r], poolRows', poolNextId')
           Owners == DOMAIN poolOwner' = Pooled!Ids /\ poolOwner'[1] = Pooled!NoOwner
           Policies == DOMAIN poolPolicy' = Pooled!Ids /\ poolPolicy'[1] # "on"
           Days == \A k \in poolCands' : k.day \in {1, 2} /\ k.fate \in Pooled!Fates
<1>4. SUFFICES Asked /\ Listed /\ Owners /\ Policies /\ Days
  BY DEF PoolInv
<1>5. Listed /\ poolRequest' = poolRequest => Asked
  BY <1>3
<1>6. ASSUME Listed, NEW r \in PoolClients, Pooled!Ends(r)
      PROVE  Asked
  <2>1. Reads(Pooled!Free, poolRows', poolNextId')
    <3>1. Sane(Pooled!NoPool, poolNextId') /\ Pooled!NoPool.id = 0 /\ Pooled!NoPool.rule = "none"
      BY <1>6, NoPoolSane
    <3>2. /\ Pooled!Free \in Requests /\ Pooled!Free.op = "none" /\ Pooled!Free.pool = Pooled!NoPool
      BY <3>1 DEF Pooled!Free, Requests, Operations, Sane
    <3>3. \A c \in Pooled!AllCodes : poolRows'[c].id = 0 => poolRows'[c].rule = "none"
      BY <1>6, <3>1 DEF Apart, Sane
    <3> QED
      BY <3>1, <3>2, <3>3 DEF Reads
  <2>2. poolRequest' = [poolRequest EXCEPT ![r] = Pooled!Free]
    BY <1>6 DEF Pooled!Ends
  <2>3. Pooled!Free \in Requests
    BY <2>1 DEF Reads
  <2> QED
    BY <1>3, <1>6, <2>1, <2>2, <2>3
<1>7. poolRows' = poolRows /\ poolNextId' = poolNextId /\ poolMembers' = poolMembers => Listed
  BY <1>3
<1>8. /\ poolOwner' = poolOwner => Owners
      /\ poolPolicy' = poolPolicy => Policies
      /\ poolCands' = poolCands => Days
  BY <1>3
<1>9. ASSUME NEW r \in PoolClients
      PROVE  /\ Reads(poolRequest[r], poolRows, poolNextId) /\ Sane(poolRequest[r].pool, poolNextId)
             /\ poolRequest[r].op # "none" => poolRequest[r].code \in Pooled!AllCodes
  BY <1>3 DEF Reads
<1> HIDE DEF Asked, Listed, Owners, Policies, Days
<1>10. CASE UNCHANGED poolVars
  BY <1>5, <1>7, <1>8, <1>10 DEF poolVars
<1>11. CASE Pooled!StocksTurn
  BY <1>5, <1>7, <1>8, <1>11 DEF Pooled!StocksTurn
<1>12. ASSUME NEW c \in Pooled!AllCodes, Pooled!StrategyTurns(c)
       PROVE  Asked /\ Listed /\ Owners /\ Policies /\ Days
  <2>1. PICK i : i = poolRows[c].id
    OBVIOUS
  <2>2. i # 1 /\ poolRows[c] # Pooled!NoPool
    BY <1>3, <1>12, <2>1 DEF Pooled!StrategyTurns
  <2>3. PICK o :
          /\ poolOwner' = [poolOwner EXCEPT ![i] = o]
          /\ poolRows' = [poolRows EXCEPT ![c].on = (o.status # "archived")]
          /\ poolPolicy' = [poolPolicy EXCEPT ![i] = IF o.status = "paper" THEN "on" ELSE poolPolicy[i]]
    BY <1>12, <2>1 DEF Pooled!StrategyTurns
  <2>4. PICK on \in BOOLEAN : on = (o.status # "archived")
    OBVIOUS
  <2>5. poolRows' = [poolRows EXCEPT ![c].on = on]
    BY <2>3, <2>4
  <2>6. /\ Apart(poolRows', poolNextId)
        /\ \A req : Reads(req, poolRows, poolNextId) => Reads(req, poolRows', poolNextId)
        /\ \A all : Belong(all, poolRows) => Belong(all, poolRows')
    <3>1. PICK row : row = [poolRows[c] EXCEPT !.on = on]
      OBVIOUS
    <3>2. poolRows' = [poolRows EXCEPT ![c] = row]
      BY <1>3, <2>5, <3>1 DEF Apart
    <3>3. poolRows[c] \in PoolRow
      BY <1>3, <2>2 DEF Apart
    <3>4. row \in PoolRow /\ row.id = poolRows[c].id /\ row.rule = poolRows[c].rule
      BY <3>1, <3>3 DEF PoolRow
    <3> QED
      BY <1>3, <2>2, <3>2, <3>4, RowEdited
  <2>7. poolNextId' = poolNextId /\ poolMembers' = poolMembers /\ poolRequest' = poolRequest /\ poolCands' = poolCands
    BY <1>12 DEF Pooled!StrategyTurns
  <2>8. Listed
    BY <1>3, <2>6, <2>7 DEF Listed
  <2>9. Owners /\ Policies
    BY <1>3, <2>2, <2>3 DEF Owners, Policies
  <2> QED
    BY <1>5, <1>8, <2>7, <2>8, <2>9
<1>13. ASSUME NEW c \in Pooled!AllCodes, Pooled!CandidatesTurn(c)
       PROVE  Asked /\ Listed /\ Owners /\ Policies /\ Days
  <2>1. PICK s \in PoolStocks, v \in 1 .. poolOwner[poolRows[c].id].version, d \in 1 .. 2,
            f \in Pooled!Fates :
          poolCands' = {k \in poolCands : <<k.pool, k.stock, k.version, k.day>> # <<poolRows[c].id, s, v, d>>}
                \union {[pool |-> poolRows[c].id, version |-> v, day |-> d, stock |-> s, fate |-> f]}
    BY <1>13 DEF Pooled!CandidatesTurn
  <2>2. Days
    BY <1>3, <2>1 DEF Days
  <2> QED
    BY <1>5, <1>7, <1>8, <1>13, <2>2 DEF Pooled!CandidatesTurn
<1>14. ASSUME NEW r \in PoolClients, NEW op \in Operations \ {"none"}, NEW c \in Pooled!AllCodes, Pooled!Begin(r, op, c)
       PROVE  Asked /\ Listed /\ Owners /\ Policies /\ Days
  <2>1. UNCHANGED <<poolRows, poolMembers, poolPolicy, poolNextId, poolActive, poolOwner, poolCands>>
    BY <1>14 DEF Pooled!Begin
  <2>2. PICK req : req = [op |-> op, code |-> c, pool |-> poolRows[c]]
    OBVIOUS
  <2>3. poolRequest' = [poolRequest EXCEPT ![r] = req]
    BY <1>14, <2>2 DEF Pooled!Begin
  <2>4. req.op = op /\ req.code = c /\ req.pool = poolRows[c]
    BY <2>2
  <2>5. Sane(poolRows[c], poolNextId) /\ poolRows[c] \in PoolRow
    BY <1>3 DEF Apart
  <2>6. req \in Requests
    BY <2>2, <2>5 DEF Requests
  <2>7. Pooled!Allowed(op, poolRows[c])
    BY <1>14 DEF Pooled!Begin
  <2>8. /\ op \in {"add", "remove"} => poolRows[c] # Pooled!NoPool /\ poolRows[c].rule = "none"
        /\ op = "enable" => poolRows[c].rule # "active_a_share"
    BY <2>7 DEF Pooled!Allowed, Pooled!IsDynamic
  <2>9. \A d \in Pooled!AllCodes : poolRows[d].id = poolRows[c].id => poolRows[d].rule = poolRows[c].rule
    <3>1. \A d \in Pooled!AllCodes : poolRows[d].id = 0 => poolRows[d] = Pooled!NoPool
      BY <1>3 DEF Apart, Sane
    <3> QED
      BY <1>3, <3>1 DEF Apart
  <2>10. Reads(req, poolRows, poolNextId)
    BY <2>4, <2>5, <2>6, <2>8, <2>9 DEF Reads
  <2>11. Asked
    BY <1>3, <2>1, <2>3, <2>6, <2>10 DEF Asked
  <2> QED
    BY <1>7, <1>8, <2>1, <2>11
<1>15. ASSUME NEW r \in PoolClients, Pooled!Fails(r)
       PROVE  Asked /\ Listed /\ Owners /\ Policies /\ Days
  BY <1>6, <1>7, <1>8, <1>15 DEF Pooled!Fails
<1>16. ASSUME NEW c \in Pooled!AllCodes, poolRows[c] = Pooled!NoPool, NEW row \in PoolRow, row.id = poolNextId,
              row.rule # "active_a_share", poolRows' = [poolRows EXCEPT ![c] = row],
              poolNextId' = poolNextId + 1, poolMembers' = poolMembers
       PROVE  Listed
  <2>1. /\ Apart(poolRows', poolNextId + 1)
        /\ \A req : Reads(req, poolRows, poolNextId) => Reads(req, poolRows', poolNextId + 1)
        /\ \A all : Belong(all, poolRows) => Belong(all, poolRows')
    BY <1>3, <1>16, RowGiven
  <2>2. Apart(poolRows', poolNextId') /\ poolNextId' \in Nat \ {0, 1}
    BY <1>3, <1>16, <2>1
  <2>3. \A req : Reads(req, poolRows, poolNextId) => Reads(req, poolRows', poolNextId')
    BY <1>16, <2>1
  <2>4. Belong(poolMembers', poolRows')
    BY <1>3, <1>16, <2>1
  <2> QED
    BY <1>3, <2>2, <2>3, <2>4 DEF Listed
<1>17. ASSUME NEW r \in PoolClients, Pooled!CreatePool(r)
       PROVE  Asked /\ Listed /\ Owners /\ Policies /\ Days
  <2>1. PICK row : row = Pooled!Custom(poolNextId)
    OBVIOUS
  <2>2. row \in PoolRow /\ row.id = poolNextId /\ row.rule # "active_a_share"
    BY <1>3, <2>1 DEF Pooled!Custom, PoolRow
  <2>3. PICK c : c = poolRequest[r].code
    OBVIOUS
  <2>4. c \in Pooled!AllCodes /\ poolRows[c] = Pooled!NoPool
    BY <1>9, <1>17, <2>3 DEF Pooled!CreatePool, Pooled!Doing
  <2>5. /\ poolRows' = [poolRows EXCEPT ![c] = row] /\ poolNextId' = poolNextId + 1
        /\ poolMembers' = poolMembers /\ poolOwner' = poolOwner /\ poolCands' = poolCands /\ Pooled!Ends(r)
    BY <1>17, <2>1, <2>3 DEF Pooled!CreatePool
  <2>6. PICK given \in {"on", "off"} : poolPolicy' = [poolPolicy EXCEPT ![poolNextId] = given]
    BY <1>17 DEF Pooled!CreatePool
  <2>7. Policies
    BY <1>3, <2>6 DEF Policies
  <2>8. Listed
    BY <1>16, <2>2, <2>4, <2>5
  <2> QED
    BY <1>6, <1>8, <2>5, <2>7, <2>8
<1>18. ASSUME NEW r \in PoolClients, Pooled!CreateStrategy(r)
       PROVE  Asked /\ Listed /\ Owners /\ Policies /\ Days
  <2>1. PICK row : row = Pooled!Owned(poolNextId)
    OBVIOUS
  <2>2. row \in PoolRow /\ row.id = poolNextId /\ row.rule # "active_a_share"
    BY <1>3, <2>1 DEF Pooled!Owned, PoolRow
  <2>3. PICK c : c = poolRequest[r].code
    OBVIOUS
  <2>4. c \in Pooled!AllCodes /\ poolRows[c] = Pooled!NoPool
    BY <1>9, <1>18, <2>3 DEF Pooled!CreateStrategy, Pooled!Doing
  <2>5. /\ poolRows' = [poolRows EXCEPT ![c] = row] /\ poolNextId' = poolNextId + 1
        /\ poolMembers' = poolMembers /\ poolCands' = poolCands /\ Pooled!Ends(r)
        /\ poolPolicy' = [poolPolicy EXCEPT ![poolNextId] = "off"]
        /\ poolOwner' = [poolOwner EXCEPT ![poolNextId].status = "draft"]
    BY <1>18, <2>1, <2>3 DEF Pooled!CreateStrategy
  <2>6. Policies /\ Owners
    BY <1>3, <2>5 DEF Policies, Owners
  <2>7. Listed
    BY <1>16, <2>2, <2>4, <2>5
  <2> QED
    BY <1>6, <1>8, <2>5, <2>6, <2>7
<1>19. ASSUME NEW r \in PoolClients, Pooled!EditPool(r)
       PROVE  Asked /\ Listed /\ Owners /\ Policies /\ Days
  <2>1. PICK c : c = poolRequest[r].code
    OBVIOUS
  <2>2. c \in Pooled!AllCodes /\ poolRows[c] # Pooled!NoPool
    BY <1>9, <1>19, <2>1 DEF Pooled!EditPool, Pooled!Doing
  <2>3. PICK on \in BOOLEAN : poolRows' = [poolRows EXCEPT ![c].on = on]
    BY <1>19, <2>1 DEF Pooled!EditPool
  <2>4. /\ Apart(poolRows', poolNextId)
        /\ \A req : Reads(req, poolRows, poolNextId) => Reads(req, poolRows', poolNextId)
        /\ \A all : Belong(all, poolRows) => Belong(all, poolRows')
    <3>1. PICK row : row = [poolRows[c] EXCEPT !.on = on]
      OBVIOUS
    <3>2. poolRows' = [poolRows EXCEPT ![c] = row]
      BY <1>3, <2>3, <3>1 DEF Apart
    <3>3. poolRows[c] \in PoolRow
      BY <1>3, <2>2 DEF Apart
    <3>4. row \in PoolRow /\ row.id = poolRows[c].id /\ row.rule = poolRows[c].rule
      BY <3>1, <3>3 DEF PoolRow
    <3> QED
      BY <1>3, <2>2, <3>2, <3>4, RowEdited
  <2>5. Listed
    BY <1>3, <1>19, <2>4 DEF Listed, Pooled!EditPool
  <2> QED
    BY <1>6, <1>8, <1>19, <2>5 DEF Pooled!EditPool
<1>20. ASSUME NEW r \in PoolClients, Pooled!SetPolicy(r)
       PROVE  Asked /\ Listed /\ Owners /\ Policies /\ Days
  <2>1. poolRequest[r].op = "enable" => poolRequest[r].pool.id # 1
    BY <1>9 DEF Reads, Sane
  <2>2. poolPolicy' = [poolPolicy EXCEPT ![poolRequest[r].pool.id] = IF poolRequest[r].op = "enable" THEN "on" ELSE "off"]
    BY <1>20 DEF Pooled!SetPolicy
  <2>3. Policies
    BY <1>3, <2>1, <2>2 DEF Policies
  <2> QED
    BY <1>6, <1>7, <1>8, <1>20, <2>3 DEF Pooled!SetPolicy
<1>21. ASSUME NEW r \in PoolClients, Pooled!DeletePool(r)
       PROVE  Asked /\ Listed /\ Owners /\ Policies /\ Days
  <2>1. PICK c : c = poolRequest[r].code
    OBVIOUS
  <2>2. c \in Pooled!AllCodes /\ poolRows[c] # Pooled!NoPool
    BY <1>9, <1>21, <2>1 DEF Pooled!DeletePool, Pooled!Doing
  <2>3. /\ poolRows' = [poolRows EXCEPT ![c] = Pooled!NoPool]
        /\ poolMembers' = {m \in poolMembers : m[1] # poolRows[c].id}
        /\ poolPolicy' = [poolPolicy EXCEPT ![poolRows[c].id] = "none"]
        /\ poolOwner' = [poolOwner EXCEPT ![poolRows[c].id] = Pooled!NoOwner]
        /\ Pooled!Ends(r) /\ poolNextId' = poolNextId /\ poolCands' = poolCands
    BY <1>21, <2>1 DEF Pooled!DeletePool
  <2>4. /\ Apart(poolRows', poolNextId)
        /\ \A req : Reads(req, poolRows, poolNextId) => Reads(req, poolRows', poolNextId)
        /\ \A all : Belong(all, poolRows) => Belong({m \in all : m[1] # poolRows[c].id}, poolRows')
    BY <1>3, <2>2, <2>3, RowDeleted
  <2>5. Listed
    BY <1>3, <2>3, <2>4 DEF Listed
  <2>6. Policies /\ Owners
    BY <1>3, <2>3 DEF Policies, Owners
  <2> QED
    BY <1>6, <1>8, <2>3, <2>5, <2>6
<1>22. ASSUME NEW r \in PoolClients, Pooled!AddMembers(r)
       PROVE  Asked /\ Listed /\ Owners /\ Policies /\ Days
  <2>1. PICK i : i = poolRequest[r].pool.id
    OBVIOUS
  <2>2. PICK c \in Pooled!AllCodes : poolRows[c].id = i /\ i # 0
    BY <1>22, <2>1 DEF Pooled!AddMembers, Pooled!Exists
  <2>3. poolRows[c].rule = "none"
    BY <1>9, <1>22, <2>1, <2>2 DEF Reads, Pooled!AddMembers, Pooled!Doing
  <2>4. PICK some \in SUBSET PoolStocks : poolMembers' = poolMembers \union {<<i, s>> : s \in some}
    BY <1>22, <2>1 DEF Pooled!AddMembers
  <2>5. Belong(poolMembers', poolRows)
    BY <1>3, <2>2, <2>3, <2>4 DEF Belong
  <2>6. Listed
    BY <1>3, <1>22, <2>5 DEF Listed, Pooled!AddMembers
  <2> QED
    BY <1>6, <1>8, <1>22, <2>6 DEF Pooled!AddMembers
<1>23. ASSUME NEW r \in PoolClients, Pooled!DeleteMember(r)
       PROVE  Asked /\ Listed /\ Owners /\ Policies /\ Days
  <2>1. poolMembers' \subseteq poolMembers
    BY <1>23 DEF Pooled!DeleteMember
  <2>2. Belong(poolMembers', poolRows)
    BY <1>3, <2>1 DEF Belong
  <2>3. Listed
    BY <1>3, <1>23, <2>2 DEF Listed, Pooled!DeleteMember
  <2> QED
    BY <1>6, <1>8, <1>23, <2>3 DEF Pooled!DeleteMember
<1>24. PoolCodes \subseteq Pooled!AllCodes
  BY DEF Pooled!AllCodes
<1> QED
  BY <1>2, <1>10, <1>11, <1>12, <1>13, <1>14, <1>15, <1>17, <1>18, <1>19, <1>20, <1>21, <1>22, <1>23, <1>24
     DEF Pooled!Next, Operations

\* The list of a strategy's pool has every stock with an open candidate: of its last day.
LEMMA OpenListed ==
  ASSUME \A k \in poolCands : k.day \in {1, 2}, NEW pool, pool.rule = "strategy_candidates",
         NEW o \in Pooled!OpenCands(pool)
  PROVE  \E x \in Pooled!Rows(pool) : x.stock = o.stock
<1>1. PICK cands : cands = Pooled!OpenCands(pool)
  OBVIOUS
<1>2. cands \subseteq poolCands /\ \A k \in cands : k.pool = pool.id
  BY <1>1 DEF Pooled!OpenCands
<1>3. PICK days : days = {k.day : k \in {x \in cands : x.stock = o.stock}}
  OBVIOUS
<1>4. PICK last : last = CHOOSE d \in days : \A k \in cands : k.stock = o.stock => k.day <= d
  OBVIOUS
<1>5. \E d \in days : \A k \in cands : k.stock = o.stock => k.day <= d
  <2>1. days \subseteq {1, 2} /\ days # {}
    BY <1>1, <1>2, <1>3
  <2>2. \A k \in cands : k.stock = o.stock => k.day \in days
    BY <1>3
  <2>3. CASE 2 \in days
    BY <2>1, <2>2, <2>3
  <2>4. CASE 2 \notin days
    <3>1. days = {1}
      BY <2>1, <2>4
    <3> QED
      BY <2>2, <3>1
  <2> QED
    BY <2>3, <2>4
<1>6. PICK k \in cands : k.stock = o.stock /\ k.day = last
  BY <1>3, <1>4, <1>5
<1>7. Pooled!Rows(pool) =
        {[stock |-> x.stock, version |-> x.version] :
           x \in {y \in poolCands :
             /\ y.pool = pool.id
             /\ \E z \in cands : z.stock = y.stock
             /\ y.day = CHOOSE d \in {u.day : u \in {v \in cands : v.stock = y.stock}} :
                  \A u \in cands : u.stock = y.stock => u.day <= d}}
  BY <1>1 DEF Pooled!Rows
<1>8. k.day = CHOOSE d \in {u.day : u \in {v \in cands : v.stock = k.stock}} :
                \A u \in cands : u.stock = k.stock => u.day <= d
  BY <1>3, <1>4, <1>6
<1>9. k \in {y \in poolCands :
             /\ y.pool = pool.id
             /\ \E z \in cands : z.stock = y.stock
             /\ y.day = CHOOSE d \in {u.day : u \in {v \in cands : v.stock = y.stock}} :
                  \A u \in cands : u.stock = y.stock => u.day <= d}
  BY <1>2, <1>6, <1>8
<1>10. [stock |-> k.stock, version |-> k.version] \in Pooled!Rows(pool)
  BY <1>7, <1>9
<1> QED
  BY <1>6, <1>10

LEMMA PoolsStaySound == PoolInv /\ part = "pool" => Pooled!PoolsSound
<1> SUFFICES ASSUME PoolInv, part = "pool" PROVE Pooled!PoolsSound
  OBVIOUS
<1>1. /\ Apart(poolRows, poolNextId) /\ Belong(poolMembers, poolRows)
      /\ poolPolicy[1] # "on" /\ \A k \in poolCands : k.day \in {1, 2} /\ k.fate \in Pooled!Fates
  BY DEF PoolInv
<1>2. ASSUME NEW m \in poolMembers
      PROVE  \E p \in Pooled!Live : p.id = m[1] /\ ~Pooled!IsDynamic(p)
  <2>1. PICK c \in Pooled!AllCodes : poolRows[c].id = m[1] /\ m[1] # 0 /\ poolRows[c].rule = "none"
    BY <1>1 DEF Belong
  <2>2. poolRows[c] # Pooled!NoPool
    BY <2>1 DEF Pooled!NoPool
  <2> QED
    BY <2>1, <2>2 DEF Pooled!Live, Pooled!IsDynamic
<1>3. ASSUME NEW p \in Pooled!Live
      PROVE  /\ p.rule = "active_a_share" => poolPolicy[p.id] # "on"
             /\ Pooled!Targeted(p) \subseteq
                  (Pooled!Detailed(p) \cap Pooled!Listed(p)) \union Pooled!Bought(p)
  <2>1. Sane(p, poolNextId)
    BY DEF Pooled!Live, Apart, PoolInv
  <2>2. p.rule = "active_a_share" => poolPolicy[p.id] # "on"
    BY <1>1, <2>1 DEF Sane
  <2>3. CASE p.rule = "active_a_share"
    BY <2>2, <2>3 DEF Pooled!Targeted
  <2>4. CASE p.rule = "none"
    <3>1. Pooled!Targeted(p) \subseteq Pooled!Members(p)
      BY <2>4 DEF Pooled!Targeted
    <3>2. Pooled!Detailed(p) = Pooled!Members(p)
      BY <2>4 DEF Pooled!Detailed
    <3>3. Pooled!Rows(p) = {[stock |-> s, version |-> 0] : s \in Pooled!Members(p)}
      BY <2>4 DEF Pooled!Rows
    <3>4. ASSUME NEW s \in Pooled!Members(p)
          PROVE  s \in Pooled!Listed(p)
      <4>1. [stock |-> s, version |-> 0] \in Pooled!Rows(p)
        BY <3>3
      <4> QED
        BY <4>1 DEF Pooled!Listed
    <3> QED
      BY <2>2, <3>1, <3>2, <3>4
  <2>5. CASE p.rule = "strategy_candidates"
    <3>1. ASSUME NEW s \in Pooled!Targeted(p)
          PROVE  s \in poolActive /\ \E k \in poolCands :
                   k.pool = p.id /\ k.stock = s /\ Pooled!Followed(k)
      BY <2>5, <3>1 DEF Pooled!Targeted
    <3>2. Pooled!Detailed(p) = {k.stock : k \in Pooled!OpenCands(p)} \cap poolActive
      BY <2>5 DEF Pooled!Detailed
    <3>3. ASSUME NEW o \in Pooled!OpenCands(p)
          PROVE  o.stock \in Pooled!Listed(p)
      BY <1>1, <2>5, OpenListed DEF Pooled!Listed
    <3>4. ASSUME NEW s \in Pooled!Targeted(p)
          PROVE  s \in (Pooled!Detailed(p) \cap Pooled!Listed(p)) \union Pooled!Bought(p)
      <4>1. PICK k \in poolCands : k.pool = p.id /\ k.stock = s /\ Pooled!Followed(k)
        BY <3>1, <3>4
      <4>2. CASE k.fate \in Pooled!Waiting
        <5>1. k \in Pooled!OpenCands(p)
          BY <4>1, <4>2 DEF Pooled!OpenCands, Pooled!Followed
        <5> QED
          BY <4>1, <5>1, <3>1, <3>2, <3>3, <3>4
      <4>3. CASE k.fate \notin Pooled!Waiting
        <5>1. k.fate \in Pooled!Entered
          BY <1>1, <4>1, <4>3 DEF Pooled!Fates, Pooled!Followed
        <5> QED
          BY <4>1, <5>1 DEF Pooled!Bought
      <4> QED
        BY <4>2, <4>3
    <3> QED
      BY <2>2, <3>4
  <2> QED
    BY <2>1, <2>3, <2>4, <2>5 DEF Sane, PoolRow
<1> QED
  BY <1>2, <1>3 DEF Pooled!PoolsSound
-----------------------------------------------------------------------------
(* The minute bars.  Only changes are written, so what an instance shows is *)
(* in Redis because of what it takes for written: each bar of the account   *)
(* is safe, that is covered by the hash or at risk, or it is under way.     *)
(* The hash loses no bar that is not at risk, because no write under way    *)
(* has such a bar as it was before: rows are not older than what is there   *)
(* when they are asked for, and those that meet an older write are at risk. *)

Bars == [day : Nat, minute : Nat, value : {0, 1}]
Times == [day : Nat, minute : Nat]
Places == [step : {"idle", "ask", "write", "sending", "restore", "need"}, rows : SUBSET Bars]
NotOlder(fields, bars) == \A f \in fields, h \in bars : Shared!SameBar(f, h) => f.value >= h.value

\* A bar of the day so far, unfinished while its minute runs.
Dated(b, time) ==
  /\ b.day = time.day /\ b.minute <= time.minute
  /\ b.minute = time.minute => b.value = 0

\* What an instance holds is not of a day to come; what it has under way is of today.
Fresh(time, shown, account, round, page) ==
  /\ \A b \in shown \union account : b.day <= time.day
  /\ \A b \in round.rows \union page.rows : Dated(b, time)

Held(place, steps, b) == place.step \in steps /\ b \in place.rows
OnWay(rounds, pages) ==
  {b \in Bars : \E p \in Instances :
     Held(rounds[p], Shared!Writing, b) \/ Held(pages[p], Shared!Writing, b)}

\* A bar is stored or at risk; no bar that is stored or under way, but for those at risk, is
\* under way as it was before.
Safe(bars, risk, b) == Shared!Covers(bars, b) \/ b \in risk
Ordered(bars, risk, way) ==
  \A b \in bars \union way : b \notin risk => NotOlder(way, {b})

Accounted(time, bars, risk, account, round, page) ==
  \A b \in account : b.day = time.day =>
    Safe(bars, risk, b) \/ Held(round, {"sending"}, b) \/ Held(page, {"sending"}, b)
Shown(time, bars, risk, shown, round, page) ==
  \A b \in shown : b.day = time.day =>
    Safe(bars, risk, b) \/ Held(round, Shared!Writing, b) \/ Held(page, {"sending"}, b)
Restored(bars, risk, page) == page.step = "restore" => \A b \in page.rows : Safe(bars, risk, b)
Kept(time, bars, risk, shown, account, round, page) ==
  /\ Accounted(time, bars, risk, account, round, page)
  /\ Shown(time, bars, risk, shown, round, page)
  /\ Restored(bars, risk, page)

BarsInv ==
  part = "bars" =>
    /\ minuteNow \in Times /\ barsAtRisk \in SUBSET Bars
    /\ barsHash \in SUBSET Bars /\ \A h \in barsHash : Dated(h, minuteNow)
    /\ minuteBars \in [Instances -> SUBSET Bars] /\ barsSent \in [Instances -> SUBSET Bars]
    /\ minuteRound \in [Instances -> Places] /\ minutePage \in [Instances -> Places]
    /\ \A p \in Instances :
         Fresh(minuteNow, minuteBars[p], barsSent[p], minuteRound[p], minutePage[p])
    /\ Ordered(barsHash, barsAtRisk, OnWay(minuteRound, minutePage))
    /\ \A p \in Instances :
         Kept(minuteNow, barsHash, barsAtRisk, minuteBars[p], barsSent[p], minuteRound[p], minutePage[p])

\* A bar covers itself; of a finished bar there is no other that covers it.
LEMMA CoversOwn ==
  ASSUME NEW bars \in SUBSET Bars, NEW b \in Bars
  PROVE  /\ b \in bars => Shared!Covers(bars, b)
         /\ \A c \in Bars : Shared!SameBar(c, b) => b.value = 0 \/ c = b \/ c.value = 0
<1>1. b.value \in {0, 1}
  BY DEF Bars
<1>2. ASSUME NEW c \in Bars, Shared!SameBar(c, b), b.value # 0, c.value # 0
      PROVE  c = b
  BY <1>2 DEF Bars, Shared!SameBar
<1> QED
  BY <1>1, <1>2 DEF Shared!Covers, Shared!SameBar

LEMMA OrderedLess ==
  ASSUME NEW bars, NEW risk, NEW way, Ordered(bars, risk, way),
         NEW bars2, NEW risk2, NEW way2,
         bars2 \subseteq bars \union way, risk \subseteq risk2, way2 \subseteq way
  PROVE  Ordered(bars2, risk2, way2)
BY DEF Ordered, NotOlder

\* A write that is executed keeps safe what is safe and stores its bars; those that are at
\* risk no more are not under way as they were before.
LEMMA ExecutedKeeps ==
  ASSUME NEW bars \in SUBSET Bars, NEW risk \in SUBSET Bars, NEW way \in SUBSET Bars,
         NEW fields \in SUBSET Bars, fields \subseteq way, Ordered(bars, risk, way),
         NEW new, new = Shared!Merged(bars, fields),
         NEW risk2 \in SUBSET risk,
         \A b \in risk \ risk2 : NotOlder(way, {b}) /\ Shared!Covers(fields, b)
  PROVE  /\ new \in SUBSET Bars
         /\ \A b \in fields : Safe(new, risk2, b)
         /\ \A b \in Bars : Safe(bars, risk, b) => Safe(new, risk2, b)
         /\ Ordered(new, risk2, way)
<1>1. /\ new \in SUBSET Bars /\ fields \subseteq new /\ new \subseteq bars \union fields
      /\ \A h \in bars : h \in new \/ \E f \in fields : Shared!SameBar(h, f)
  BY DEF Shared!Merged
<1>2. \A b \in Bars : Shared!Covers(fields, b) => Shared!Covers(new, b)
  BY <1>1 DEF Shared!Covers
<1>3. \A b \in fields : Safe(new, risk2, b)
  BY <1>1, CoversOwn DEF Safe
<1>4. ASSUME NEW b \in Bars, b \notin risk, NEW h \in bars, Shared!SameBar(h, b), h.value >= b.value
      PROVE  Shared!Covers(new, b)
  <2>1. CASE h \in new
    BY <1>4, <2>1 DEF Shared!Covers
  <2>2. CASE h \notin new
    <3>1. PICK f \in fields : Shared!SameBar(h, f)
      BY <1>1, <2>2
    <3>2. h \in Bars /\ f \in Bars /\ f \in way /\ f \in new
      BY <1>1
    <3>3. Shared!SameBar(f, b) /\ Shared!SameBar(f, h)
      BY <1>4, <3>1 DEF Shared!SameBar
    <3>4. f.value \in {0, 1} /\ b.value \in {0, 1} /\ h.value \in {0, 1}
      BY <3>2 DEF Bars
    <3>5. f.value >= b.value
      <4>1. CASE b.value = 0
        BY <3>4, <4>1
      <4>2. CASE b.value # 0
        <5>1. h = b
          <6>1. h.value # 0
            BY <1>4, <3>4, <4>2
          <6> QED
            BY <1>4, <3>2, <4>2, <6>1, CoversOwn
        <5>2. NotOlder(way, {h})
          BY <1>4, <5>1 DEF Ordered
        <5> QED
          BY <3>2, <3>3, <5>1, <5>2 DEF NotOlder
      <4> QED
        BY <4>1, <4>2
    <3> QED
      BY <3>2, <3>3, <3>5 DEF Shared!Covers
  <2> QED
    BY <2>1, <2>2
<1>5. ASSUME NEW b \in Bars, Safe(bars, risk, b)
      PROVE  Safe(new, risk2, b)
  <2>1. CASE b \in risk
    BY <1>2, <2>1 DEF Safe
  <2>2. CASE b \notin risk
    BY <1>4, <1>5, <2>2 DEF Safe, Shared!Covers
  <2> QED
    BY <2>1, <2>2
<1>6. Ordered(new, risk2, way)
  <2> SUFFICES ASSUME NEW b \in new \union way, b \notin risk2 PROVE NotOlder(way, {b})
    BY DEF Ordered
  <2>1. b \in bars \union way
    BY <1>1
  <2> QED
    BY <2>1 DEF Ordered
<1> QED
  BY <1>1, <1>3, <1>5, <1>6

\* Rows that arrive are not older than what is dated, and those that meet an older bar under
\* way are at risk.
LEMMA ArrivedOrdered ==
  ASSUME NEW bars, NEW risk, NEW way, Ordered(bars, risk, way),
         NEW rows, NotOlder(rows, bars \union way \union rows),
         NEW risk2, risk \subseteq risk2, \A b \in rows \ risk2 : NotOlder(way, {b})
  PROVE  Ordered(bars, risk2, way \union rows)
<1> SUFFICES ASSUME NEW b \in bars \union (way \union rows), b \notin risk2,
                    NEW r \in way \union rows, Shared!SameBar(r, b)
             PROVE  r.value >= b.value
  BY DEF Ordered, NotOlder
<1>1. CASE r \in rows
  BY <1>1 DEF NotOlder
<1>2. CASE r \in way /\ b \in bars \union way
  BY <1>2 DEF Ordered, NotOlder
<1>3. CASE r \in way /\ b \in rows
  BY <1>3 DEF NotOlder
<1> QED
  BY <1>1, <1>2, <1>3

\* What the provider answers is of today and not older than what is of today.
LEMMA RowsAnswered ==
  ASSUME minuteNow \in Times, NEW bars \in SUBSET Bars, \A h \in bars : Dated(h, minuteNow)
  PROVE  /\ Shared!Rows \in SUBSET Bars /\ \A b \in Shared!Rows : Dated(b, minuteNow)
         /\ NotOlder(Shared!Rows, bars)
<1>1. minuteNow.day \in Nat /\ minuteNow.minute \in Nat
  BY DEF Times
<1>2. ASSUME NEW b \in Shared!Rows
      PROVE  b \in Bars /\ Dated(b, minuteNow) /\ (b.minute # minuteNow.minute => b.value = 1)
  <2>1. PICK m \in 1 .. minuteNow.minute : b = Shared!Bar(m, IF m = minuteNow.minute THEN 0 ELSE 1)
    BY <1>2 DEF Shared!Rows
  <2>2. PICK v : v = IF m = minuteNow.minute THEN 0 ELSE 1
    OBVIOUS
  <2>3. b = [day |-> minuteNow.day, minute |-> m, value |-> v]
    BY <2>1, <2>2 DEF Shared!Bar
  <2>4. m \in Nat /\ m <= minuteNow.minute /\ v \in {0, 1}
    BY <1>1, <2>2
  <2> QED
    BY <1>1, <2>2, <2>3, <2>4 DEF Bars, Dated
<1>3. ASSUME NEW f \in Shared!Rows, NEW h \in bars, Shared!SameBar(f, h)
      PROVE  f.value >= h.value
  <2>1. h.value \in {0, 1} /\ f.value \in {0, 1} /\ f.minute = h.minute
    BY <1>2, <1>3 DEF Bars, Shared!SameBar
  <2>2. h.minute = minuteNow.minute => h.value = 0
    BY DEF Dated
  <2> QED
    BY <1>2, <2>1, <2>2
<1> QED
  BY <1>2, <1>3 DEF NotOlder

\* What an instance holds stays safe when all that is safe does and what it has under way
\* goes on or is safe.
LEMMA KeptSafe ==
  ASSUME NEW time, NEW bars, NEW risk, NEW bars2, NEW risk2,
         NEW shown \in SUBSET Bars, NEW account \in SUBSET Bars,
         NEW round \in Places, NEW page \in Places, NEW round2, NEW page2,
         Kept(time, bars, risk, shown, account, round, page),
         \A b \in Bars : Safe(bars, risk, b) => Safe(bars2, risk2, b),
         \A b \in Bars :
           /\ Held(round, {"sending"}, b) => Safe(bars2, risk2, b) \/ Held(round2, {"sending"}, b)
           /\ Held(round, Shared!Writing, b) => Safe(bars2, risk2, b) \/ Held(round2, Shared!Writing, b)
           /\ Held(page, {"sending"}, b) => Safe(bars2, risk2, b) \/ Held(page2, {"sending"}, b),
         page2 = page \/ Restored(bars2, risk2, page2)
  PROVE  Kept(time, bars2, risk2, shown, account, round2, page2)
<1>1. page.rows \in SUBSET Bars
  BY DEF Places
<1>2. Restored(bars2, risk2, page2)
  BY <1>1 DEF Kept, Restored
<1>3. Accounted(time, bars2, risk2, account, round2, page2)
  BY DEF Kept, Accounted
<1>4. Shown(time, bars2, risk2, shown, round2, page2)
  BY DEF Kept, Shown
<1> QED
  BY <1>2, <1>3, <1>4 DEF Kept

LEMMA IdlePlace ==
  /\ Shared!Idle \in Places /\ Shared!Idle.step = "idle" /\ Shared!Idle.rows = {}
  /\ \A step \in {"idle", "ask", "write", "sending", "restore", "need"} : \A rows \in SUBSET Bars :
       /\ Shared!At(step, rows) \in Places
       /\ Shared!At(step, rows).step = step /\ Shared!At(step, rows).rows = rows
BY DEF Shared!Idle, Shared!At, Places

LEMMA BarsStart == ServicesInit => BarsInv
<1> SUFFICES ASSUME Shared!Init PROVE
    /\ minuteNow \in Times /\ barsAtRisk \in SUBSET Bars
    /\ barsHash \in SUBSET Bars /\ \A h \in barsHash : Dated(h, minuteNow)
    /\ minuteBars \in [Instances -> SUBSET Bars] /\ barsSent \in [Instances -> SUBSET Bars]
    /\ minuteRound \in [Instances -> Places] /\ minutePage \in [Instances -> Places]
    /\ \A p \in Instances :
         Fresh(minuteNow, minuteBars[p], barsSent[p], minuteRound[p], minutePage[p])
    /\ Ordered(barsHash, barsAtRisk, OnWay(minuteRound, minutePage))
    /\ \A p \in Instances :
         Kept(minuteNow, barsHash, barsAtRisk, minuteBars[p], barsSent[p], minuteRound[p], minutePage[p])
  BY DEF ServicesInit, BarsInv
<1>1. /\ minuteNow \in Times /\ barsAtRisk = {} /\ barsHash = {}
      /\ minuteBars = [p \in Instances |-> {}] /\ barsSent = [p \in Instances |-> {}]
      /\ minuteRound = [p \in Instances |-> Shared!Idle]
      /\ minutePage = [p \in Instances |-> Shared!Idle]
  BY DEF Shared!Init, Times
<1>2. /\ minuteBars \in [Instances -> SUBSET Bars] /\ barsSent \in [Instances -> SUBSET Bars]
      /\ minuteRound \in [Instances -> Places] /\ minutePage \in [Instances -> Places]
  BY <1>1, IdlePlace
<1>3. ASSUME NEW p \in Instances
      PROVE  /\ minuteBars[p] = {} /\ barsSent[p] = {}
             /\ minuteRound[p].step = "idle" /\ minuteRound[p].rows = {}
             /\ minutePage[p].step = "idle" /\ minutePage[p].rows = {}
  BY <1>1, IdlePlace
<1>4. OnWay(minuteRound, minutePage) = {}
  BY <1>3 DEF OnWay, Held
<1>5. Ordered(barsHash, barsAtRisk, OnWay(minuteRound, minutePage))
  BY <1>1, <1>4 DEF Ordered
<1>6. ASSUME NEW p \in Instances
      PROVE  /\ Fresh(minuteNow, minuteBars[p], barsSent[p], minuteRound[p], minutePage[p])
             /\ Kept(minuteNow, barsHash, barsAtRisk, minuteBars[p], barsSent[p], minuteRound[p], minutePage[p])
  BY <1>3 DEF Fresh, Kept, Restored, Accounted, Shown
<1> QED
  BY <1>1, <1>2, <1>5, <1>6

LEMMA SendingTyped ==
  ASSUME NEW account \in SUBSET Bars, NEW rows \in SUBSET Bars
  PROVE  /\ Shared!At("sending", rows \ account) \in Places
         /\ Shared!At("sending", rows \ account).step = "sending"
         /\ Shared!At("sending", rows \ account).rows = rows \ account
         /\ Shared!Merged(account, rows \ account) \in SUBSET (account \union rows)
         /\ Shared!Merged(account, rows \ account) \in SUBSET (account \union (rows \ account))
BY DEF Shared!At, Places, Shared!Merged

LEMMA BarsSteps == BarsInv /\ [ServicesNext]_servicesVars => BarsInv'
<1> SUFFICES ASSUME BarsInv, [ServicesNext]_servicesVars, part' = "bars" PROVE BarsInv'
  BY DEF BarsInv
<1>1. part' = part /\ part = "bars"
  BY DEF ServicesNext, servicesVars
<1>2. [Shared!Next]_minuteVars
  BY <1>1 DEF ServicesNext, servicesVars, minuteVars
<1>3. /\ minuteNow \in Times /\ barsAtRisk \in SUBSET Bars
      /\ barsHash \in SUBSET Bars /\ \A h \in barsHash : Dated(h, minuteNow)
      /\ minuteBars \in [Instances -> SUBSET Bars] /\ barsSent \in [Instances -> SUBSET Bars]
      /\ minuteRound \in [Instances -> Places] /\ minutePage \in [Instances -> Places]
      /\ \A p \in Instances :
           Fresh(minuteNow, minuteBars[p], barsSent[p], minuteRound[p], minutePage[p])
      /\ \A p \in Instances :
           Kept(minuteNow, barsHash, barsAtRisk, minuteBars[p], barsSent[p], minuteRound[p], minutePage[p])
  BY <1>1 DEF BarsInv
<1>4. PICK way : way = OnWay(minuteRound, minutePage)
  OBVIOUS
<1>5. ASSUME NEW p \in Instances
      PROVE  /\ minuteBars = [minuteBars EXCEPT ![p] = minuteBars[p]]
             /\ barsSent = [barsSent EXCEPT ![p] = barsSent[p]]
             /\ minuteRound = [minuteRound EXCEPT ![p] = minuteRound[p]]
             /\ minutePage = [minutePage EXCEPT ![p] = minutePage[p]]
             /\ minuteBars[p] \in SUBSET Bars /\ barsSent[p] \in SUBSET Bars
             /\ minuteRound[p] \in Places /\ minutePage[p] \in Places
             /\ minuteRound[p].rows \in SUBSET Bars /\ minutePage[p].rows \in SUBSET Bars
  BY <1>3 DEF Places
\* What is under way, and what that says of a bar that is late.
<1>6. /\ Ordered(barsHash, barsAtRisk, way) /\ way \in SUBSET Bars
      /\ \A b \in way : Dated(b, minuteNow)
      /\ \A p \in Instances, b \in Bars :
           Held(minuteRound[p], Shared!Writing, b) \/ Held(minutePage[p], Shared!Writing, b) => b \in way
  BY <1>1, <1>3, <1>4 DEF BarsInv, OnWay, Held, Fresh
<1>7. \A b \in Bars : ~Shared!Late(b) => NotOlder(way, {b})
  <2> SUFFICES ASSUME NEW b \in Bars, ~Shared!Late(b), NEW r \in way, Shared!SameBar(r, b)
               PROVE  r.value >= b.value
    BY DEF NotOlder
  <2>1. PICK p \in Instances :
          Held(minuteRound[p], Shared!Writing, r) \/ Held(minutePage[p], Shared!Writing, r)
    BY <1>4 DEF OnWay
  <2>2. r \in Shared!Carried(p)
    BY <2>1 DEF Held, Shared!Carried
  <2>3. ~(r.value < b.value)
    BY <2>2 DEF Shared!Late
  <2>4. r.value \in {0, 1} /\ b.value \in {0, 1}
    BY <1>6 DEF Bars
  <2> QED
    BY <2>3, <2>4
\* One instance moves: what is to be shown of it, of what it has under way and of the hash.
<1>8. ASSUME NEW p \in Instances, NEW m \in SUBSET Bars, NEW s \in SUBSET Bars,
             NEW r \in Places, NEW g \in Places, NEW more \in SUBSET Bars,
             minuteBars' = [minuteBars EXCEPT ![p] = m], barsSent' = [barsSent EXCEPT ![p] = s],
             minuteRound' = [minuteRound EXCEPT ![p] = r], minutePage' = [minutePage EXCEPT ![p] = g],
             minuteNow' = minuteNow, barsAtRisk' \in SUBSET Bars,
             barsHash' \in SUBSET Bars, \A h \in barsHash' : Dated(h, minuteNow),
             Fresh(minuteNow, m, s, r, g),
             \A b \in Bars : Held(r, Shared!Writing, b) \/ Held(g, Shared!Writing, b) =>
               b \in way \union more,
             Ordered(barsHash', barsAtRisk', way \union more),
             Kept(minuteNow, barsHash', barsAtRisk', m, s, r, g),
             \A b \in Bars : Safe(barsHash, barsAtRisk, b) => Safe(barsHash', barsAtRisk', b)
      PROVE  BarsInv'
  <2>1. /\ minuteBars' \in [Instances -> SUBSET Bars] /\ barsSent' \in [Instances -> SUBSET Bars]
        /\ minuteRound' \in [Instances -> Places] /\ minutePage' \in [Instances -> Places]
    BY <1>3, <1>8
  <2>2. /\ minuteBars'[p] = m /\ barsSent'[p] = s /\ minuteRound'[p] = r /\ minutePage'[p] = g
        /\ \A q \in Instances \ {p} : /\ minuteBars'[q] = minuteBars[q] /\ barsSent'[q] = barsSent[q]
                                      /\ minuteRound'[q] = minuteRound[q] /\ minutePage'[q] = minutePage[q]
    BY <1>3, <1>8
  <2>3. \A q \in Instances :
          Fresh(minuteNow', minuteBars'[q], barsSent'[q], minuteRound'[q], minutePage'[q])
    BY <1>3, <1>8, <2>2
  <2>4. ASSUME NEW q \in Instances
        PROVE  Kept(minuteNow', barsHash', barsAtRisk', minuteBars'[q], barsSent'[q], minuteRound'[q], minutePage'[q])
    <3>1. CASE q = p
      BY <1>8, <2>2, <3>1
    <3>2. CASE q # p
      <4>1. Kept(minuteNow, barsHash, barsAtRisk, minuteBars[q], barsSent[q], minuteRound[q], minutePage[q])
        BY <1>3
      <4>2. Kept(minuteNow, barsHash', barsAtRisk', minuteBars[q], barsSent[q], minuteRound[q], minutePage[q])
        BY <1>5, <1>8, <4>1, KeptSafe
      <4> QED
        BY <1>8, <2>2, <3>2, <4>2
    <3> QED
      BY <3>1, <3>2
  <2>5. PICK after : after = OnWay(minuteRound', minutePage')
    OBVIOUS
  <2>6. after \subseteq way \union more
    <3> SUFFICES ASSUME NEW b \in after PROVE b \in way \union more
      OBVIOUS
    <3>1. PICK q \in Instances :
            Held(minuteRound'[q], Shared!Writing, b) \/ Held(minutePage'[q], Shared!Writing, b)
      BY <2>5 DEF OnWay
    <3>2. b \in Bars
      BY <2>5 DEF OnWay
    <3> QED
      BY <1>6, <1>8, <2>2, <3>1, <3>2
  <2>7. Ordered(barsHash', barsAtRisk', after)
    BY <1>8, <2>6 DEF Ordered, NotOlder
  <2> QED
    BY <1>3, <1>8, <2>1, <2>3, <2>4, <2>5, <2>7 DEF BarsInv
\* A step of one instance that gets and writes nothing.
<1>9. ASSUME NEW p \in Instances, NEW r \in Places, NEW g \in Places,
             minuteRound' = [minuteRound EXCEPT ![p] = r], minutePage' = [minutePage EXCEPT ![p] = g],
             UNCHANGED <<minuteBars, barsSent, minuteNow, barsAtRisk, barsHash>>,
             r = minuteRound[p] \/ (r.step \notin Shared!Writing /\ r.rows = {} /\ minuteRound[p].step \notin Shared!Writing),
             g = minutePage[p] \/ (g.step \notin Shared!Writing /\ minutePage[p].step \notin Shared!Writing),
             g.rows \in SUBSET barsHash \/ g = minutePage[p]
      PROVE  BarsInv'
  <2>1. Fresh(minuteNow, minuteBars[p], barsSent[p], r, g)
    BY <1>3, <1>9 DEF Fresh
  <2>2. g = minutePage[p] \/ Restored(barsHash, barsAtRisk, g)
    BY <1>3, <1>9, CoversOwn DEF Restored, Safe
  <2>3. \A b : /\ Held(minuteRound[p], {"sending"}, b) => Held(r, {"sending"}, b)
               /\ Held(minuteRound[p], Shared!Writing, b) => Held(r, Shared!Writing, b)
               /\ Held(minutePage[p], {"sending"}, b) => Held(g, {"sending"}, b)
               /\ Held(r, Shared!Writing, b) => Held(minuteRound[p], Shared!Writing, b)
               /\ Held(g, Shared!Writing, b) => Held(minutePage[p], Shared!Writing, b)
    BY <1>9 DEF Held, Shared!Writing
  <2>4. Kept(minuteNow, barsHash, barsAtRisk, minuteBars[p], barsSent[p], r, g)
    BY <1>3, <1>5, <2>2, <2>3, KeptSafe
  <2>5. \A b \in Bars : Held(r, Shared!Writing, b) \/ Held(g, Shared!Writing, b) => b \in way
    BY <1>6, <2>3
  <2>6. Ordered(barsHash, barsAtRisk, way \union {})
    BY <1>6
  <2>7. {} \in SUBSET Bars
    OBVIOUS
  <2> QED
    BY <1>3, <1>5, <1>8, <1>9, <2>1, <2>4, <2>5, <2>6, <2>7
<1>10. CASE UNCHANGED minuteVars
  BY <1>1, <1>10 DEF minuteVars, BarsInv
<1>11. CASE Shared!NextMinute
  <2>1. /\ UNCHANGED <<minuteBars, barsSent, minuteRound, minutePage, barsAtRisk, barsHash>>
        /\ minuteNow' = [minuteNow EXCEPT !.minute = minuteNow.minute + 1]
    BY <1>11 DEF Shared!NextMinute
  <2>2. minuteNow' \in Times /\ minuteNow'.day = minuteNow.day /\ minuteNow'.minute = minuteNow.minute + 1
    BY <1>3, <2>1 DEF Times
  <2>3. \A b \in Bars : Dated(b, minuteNow) => Dated(b, minuteNow')
    <3>1. minuteNow.minute \in Nat /\ \A b \in Bars : b.minute \in Nat
      BY <1>3 DEF Times, Bars
    <3> QED
      BY <2>2, <3>1 DEF Dated
  <2>4. \A h \in barsHash : Dated(h, minuteNow')
    BY <1>3, <2>3
  <2>5. ASSUME NEW p \in Instances
        PROVE  Fresh(minuteNow', minuteBars[p], barsSent[p], minuteRound[p], minutePage[p])
    BY <1>3, <1>5, <2>2, <2>3 DEF Fresh
  <2>6. ASSUME NEW p \in Instances
        PROVE  Kept(minuteNow', barsHash, barsAtRisk, minuteBars[p], barsSent[p], minuteRound[p], minutePage[p])
    BY <1>3, <2>2 DEF Kept, Accounted, Shown
  <2>7. Ordered(barsHash, barsAtRisk, OnWay(minuteRound, minutePage))
    BY <1>4, <1>6
  <2> QED
    BY <1>3, <2>1, <2>2, <2>4, <2>5, <2>6, <2>7 DEF BarsInv
<1>12. CASE Shared!NextDay
  <2>1. /\ UNCHANGED <<minuteBars, barsSent, minuteRound, minutePage, barsAtRisk>>
        /\ barsHash' = {} /\ minuteNow' = [day |-> minuteNow.day + 1, minute |-> 1]
    BY <1>12 DEF Shared!NextDay
  <2>2. minuteNow.day \in Nat /\ minuteNow'.day = minuteNow.day + 1 /\ minuteNow' \in Times
    BY <1>3, <2>1 DEF Times
  <2>3. ASSUME NEW p \in Instances
        PROVE  minuteRound[p] = Shared!Idle /\ minutePage[p] = Shared!Idle
    BY <1>12 DEF Shared!NextDay
  <2>4. ASSUME NEW p \in Instances
        PROVE  \A b \in minuteBars[p] \union barsSent[p] : b.day < minuteNow'.day
    <3>1. \A b \in minuteBars[p] \union barsSent[p] : b.day <= minuteNow.day /\ b.day \in Nat
      BY <1>3, <1>5 DEF Fresh, Bars
    <3> QED
      BY <2>2, <3>1
  <2>5. \A b \in Bars : b.day < minuteNow'.day => b.day <= minuteNow'.day /\ b.day # minuteNow'.day
    BY <2>2 DEF Bars
  <2>6. ASSUME NEW p \in Instances
        PROVE  Fresh(minuteNow', minuteBars[p], barsSent[p], minuteRound[p], minutePage[p])
    BY <1>5, <2>3, <2>4, <2>5, IdlePlace DEF Fresh
  <2>7. ASSUME NEW p \in Instances
        PROVE  Kept(minuteNow', {}, barsAtRisk, minuteBars[p], barsSent[p], minuteRound[p], minutePage[p])
    <3>1. Restored({}, barsAtRisk, minutePage[p])
      BY <2>3, IdlePlace DEF Restored
    <3>2. Accounted(minuteNow', {}, barsAtRisk, barsSent[p], minuteRound[p], minutePage[p])
      BY <1>5, <2>4, <2>5 DEF Accounted
    <3>3. Shown(minuteNow', {}, barsAtRisk, minuteBars[p], minuteRound[p], minutePage[p])
      BY <1>5, <2>4, <2>5 DEF Shown
    <3> QED
      BY <3>1, <3>2, <3>3 DEF Kept
  <2>8. Ordered({}, barsAtRisk, way)
    BY <1>6 DEF Ordered
  <2> QED
    BY <1>3, <1>4, <2>1, <2>2, <2>6, <2>7, <2>8 DEF BarsInv
<1>13. ASSUME NEW p \in Instances, Shared!RoundAsks(p)
       PROVE  BarsInv'
  <2>1. PICK r : r = Shared!At("ask", {})
    OBVIOUS
  <2>2. r \in Places /\ r.step \notin Shared!Writing /\ r.rows = {}
    BY <2>1, IdlePlace DEF Shared!Writing
  <2>3. minuteRound[p].step \notin Shared!Writing
    BY <1>13, IdlePlace DEF Shared!RoundAsks, Shared!Writing
  <2>4. minuteRound' = [minuteRound EXCEPT ![p] = r] /\ minutePage' = [minutePage EXCEPT ![p] = minutePage[p]]
    BY <1>5, <1>13, <2>1 DEF Shared!RoundAsks
  <2>5. UNCHANGED <<minuteBars, barsSent, minuteNow, barsAtRisk, barsHash>>
    BY <1>13 DEF Shared!RoundAsks
  <2>6. minutePage[p] \in Places
    BY <1>5
  <2> QED
    BY <1>9, <2>2, <2>3, <2>4, <2>5, <2>6
<1>14. ASSUME NEW p \in Instances, Shared!RoundFails(p)
       PROVE  BarsInv'
  <2>1. PICK r : r = Shared!Idle
    OBVIOUS
  <2>2. r \in Places /\ r.step \notin Shared!Writing /\ r.rows = {}
    BY <2>1, IdlePlace DEF Shared!Writing
  <2>3. minuteRound[p].step \notin Shared!Writing
    BY <1>14 DEF Shared!RoundFails, Shared!Writing
  <2>4. minuteRound' = [minuteRound EXCEPT ![p] = r] /\ minutePage' = [minutePage EXCEPT ![p] = minutePage[p]]
    BY <1>5, <1>14, <2>1 DEF Shared!RoundFails
  <2>5. UNCHANGED <<minuteBars, barsSent, minuteNow, barsAtRisk, barsHash>>
    BY <1>14 DEF Shared!RoundFails
  <2>6. minutePage[p] \in Places
    BY <1>5
  <2> QED
    BY <1>9, <2>2, <2>3, <2>4, <2>5, <2>6
\* A page that asks, waits, gives up or has failed holds no rows; one that restores holds the hash.
<1>15. ASSUME NEW p \in Instances, NEW g \in Places, minutePage' = [minutePage EXCEPT ![p] = g],
              UNCHANGED <<minuteBars, barsSent, minuteRound, minuteNow, barsAtRisk, barsHash>>,
              g.step \notin Shared!Writing, minutePage[p].step \notin Shared!Writing,
              g.rows \in SUBSET barsHash
       PROVE  BarsInv'
  BY <1>5, <1>9, <1>15
<1>16. ASSUME NEW p \in Instances, Shared!PageRequest(p)
       PROVE  BarsInv'
  <2>1. PICK g : g = IF Shared!Restores(p) THEN Shared!At("restore", barsHash) ELSE Shared!At("need", {})
    OBVIOUS
  <2>2. g \in Places /\ g.step \notin Shared!Writing /\ g.rows \in SUBSET barsHash
    BY <1>3, <2>1, IdlePlace DEF Shared!Writing
  <2>3. minutePage[p].step \notin Shared!Writing
    BY <1>16, IdlePlace DEF Shared!PageRequest, Shared!Writing
  <2> QED
    BY <1>15, <1>16, <2>1, <2>2, <2>3 DEF Shared!PageRequest
<1>17. ASSUME NEW p \in Instances, Shared!PageGivesUp(p) \/ Shared!PageTooEarly(p) \/ Shared!PageFails(p)
       PROVE  BarsInv'
  <2>1. PICK g : g = Shared!Idle
    OBVIOUS
  <2>2. g \in Places /\ g.step \notin Shared!Writing /\ g.rows \in SUBSET barsHash
    BY <2>1, IdlePlace DEF Shared!Writing
  <2>3. minutePage[p].step \notin Shared!Writing
    BY <1>17 DEF Shared!PageGivesUp, Shared!PageTooEarly, Shared!PageFails, Shared!Writing
  <2>4. /\ minutePage' = [minutePage EXCEPT ![p] = g]
        /\ UNCHANGED <<minuteBars, barsSent, minuteRound, minuteNow, barsAtRisk, barsHash>>
    BY <1>17, <2>1 DEF Shared!PageGivesUp, Shared!PageTooEarly, Shared!PageFails
  <2> QED
    BY <1>15, <2>2, <2>3, <2>4
<1>18. ASSUME NEW p \in Instances, Shared!PageAsks(p)
       PROVE  BarsInv'
  <2>1. PICK g : g = Shared!At("ask", {})
    OBVIOUS
  <2>2. g \in Places /\ g.step \notin Shared!Writing /\ g.rows \in SUBSET barsHash
    BY <2>1, IdlePlace DEF Shared!Writing
  <2>3. minutePage[p].step \notin Shared!Writing
    BY <1>18 DEF Shared!PageAsks, Shared!Writing
  <2> QED
    BY <1>15, <1>18, <2>1, <2>2, <2>3 DEF Shared!PageAsks
<1>19. ASSUME NEW p \in Instances, Shared!CoolsDown(p) \/ Shared!Takeover(p)
       PROVE  BarsInv'
  <2>1. UNCHANGED <<minuteBars, barsSent, minuteRound, minutePage, minuteNow, barsAtRisk, barsHash>>
    BY <1>19 DEF Shared!CoolsDown, Shared!Takeover
  <2> QED
    BY <1>1, <2>1 DEF BarsInv
\* The answer is here: what meets an older bar under way is at risk.
<1>20. PICK rows : rows = Shared!Rows
  OBVIOUS
<1>21. /\ rows \in SUBSET Bars /\ \A b \in rows : Dated(b, minuteNow)
       /\ minuteNow.day \in Nat /\ \A b \in rows : b.day <= minuteNow.day
       /\ NotOlder(rows, barsHash \union way \union rows)
  <2>1. minuteNow.day \in Nat
    BY <1>3 DEF Times
  <2>2. rows \in SUBSET Bars /\ \A b \in rows : Dated(b, minuteNow)
    BY <1>3, <1>20, RowsAnswered
  <2>3. PICK all : all = barsHash \union way \union rows
    OBVIOUS
  <2>4. all \in SUBSET Bars /\ \A b \in all : Dated(b, minuteNow)
    BY <1>3, <1>6, <2>2, <2>3
  <2> QED
    BY <1>3, <1>20, <2>1, <2>2, <2>3, <2>4, RowsAnswered DEF Dated
<1>22. ASSUME Shared!Arrive
       PROVE  /\ barsAtRisk' \in SUBSET Bars /\ Ordered(barsHash, barsAtRisk', way \union rows)
              /\ \A b \in Bars : Safe(barsHash, barsAtRisk, b) => Safe(barsHash, barsAtRisk', b)
  <2>1. barsAtRisk' = barsAtRisk \union {b \in rows : Shared!Late(b)}
    BY <1>20, <1>22 DEF Shared!Arrive
  <2>2. PICK risk : risk = barsAtRisk'
    OBVIOUS
  <2>3. risk \in SUBSET Bars /\ barsAtRisk \subseteq risk
    BY <1>3, <1>21, <2>1, <2>2
  <2>4. \A b \in rows \ risk : NotOlder(way, {b})
    BY <1>7, <1>21, <2>1, <2>2
  <2>5. Ordered(barsHash, risk, way \union rows)
    BY <1>6, <1>21, <2>3, <2>4, ArrivedOrdered
  <2> QED
    BY <2>2, <2>3, <2>5 DEF Safe
<1>23. ASSUME NEW p \in Instances, Shared!RoundGets(p)
       PROVE  BarsInv'
  <2>1. PICK r : r = Shared!At("write", rows)
    OBVIOUS
  <2>2. r \in Places /\ r.step = "write" /\ r.rows = rows
    BY <1>21, <2>1, IdlePlace
  <2>3. /\ minuteBars' = [minuteBars EXCEPT ![p] = rows] /\ barsSent' = [barsSent EXCEPT ![p] = barsSent[p]]
        /\ minuteRound' = [minuteRound EXCEPT ![p] = r] /\ minutePage' = [minutePage EXCEPT ![p] = minutePage[p]]
        /\ minuteNow' = minuteNow /\ barsHash' = barsHash /\ Shared!Arrive
        /\ minuteRound[p].step = "ask"
    BY <1>5, <1>20, <1>23, <2>1 DEF Shared!RoundGets
  <2>4. Fresh(minuteNow, rows, barsSent[p], r, minutePage[p])
    BY <1>3, <1>21, <2>2 DEF Fresh
  <2>5. /\ barsAtRisk' \in SUBSET Bars /\ Ordered(barsHash, barsAtRisk', way \union rows)
        /\ \A b \in Bars : Safe(barsHash, barsAtRisk, b) => Safe(barsHash, barsAtRisk', b)
    BY <1>22, <2>3
  <2>6. \A b \in Bars : Held(r, Shared!Writing, b) \/ Held(minutePage[p], Shared!Writing, b) =>
          b \in way \union rows
    BY <1>6, <2>2 DEF Held
  <2>7. Kept(minuteNow, barsHash, barsAtRisk', rows, barsSent[p], r, minutePage[p])
    <3>1. Kept(minuteNow, barsHash, barsAtRisk, minuteBars[p], barsSent[p], minuteRound[p], minutePage[p])
      BY <1>3
    <3>2. \A b : ~Held(minuteRound[p], {"sending"}, b)
      BY <2>3 DEF Held
    <3>3. Accounted(minuteNow, barsHash, barsAtRisk', barsSent[p], r, minutePage[p])
      BY <1>5, <2>5, <3>1, <3>2 DEF Kept, Accounted
    <3>4. Shown(minuteNow, barsHash, barsAtRisk', rows, r, minutePage[p])
      BY <2>2 DEF Shown, Held, Shared!Writing
    <3>5. Restored(barsHash, barsAtRisk', minutePage[p])
      BY <1>5, <2>5, <3>1 DEF Kept, Restored
    <3> QED
      BY <3>3, <3>4, <3>5 DEF Kept
  <2> QED
    BY <1>3, <1>5, <1>8, <1>21, <2>2, <2>3, <2>4, <2>5, <2>6, <2>7
<1>24. ASSUME NEW p \in Instances, Shared!PageGets(p)
       PROVE  BarsInv'
  <2>1. PICK g : g = Shared!At("write", rows)
    OBVIOUS
  <2>2. g \in Places /\ g.step = "write" /\ g.rows = rows
    BY <1>21, <2>1, IdlePlace
  <2>3. /\ minuteBars' = [minuteBars EXCEPT ![p] = minuteBars[p]] /\ barsSent' = [barsSent EXCEPT ![p] = barsSent[p]]
        /\ minuteRound' = [minuteRound EXCEPT ![p] = minuteRound[p]] /\ minutePage' = [minutePage EXCEPT ![p] = g]
        /\ minuteNow' = minuteNow /\ barsHash' = barsHash /\ Shared!Arrive
        /\ minutePage[p].step = "ask"
    BY <1>5, <1>20, <1>24, <2>1 DEF Shared!PageGets
  <2>4. Fresh(minuteNow, minuteBars[p], barsSent[p], minuteRound[p], g)
    BY <1>3, <1>21, <2>2 DEF Fresh
  <2>5. /\ barsAtRisk' \in SUBSET Bars /\ Ordered(barsHash, barsAtRisk', way \union rows)
        /\ \A b \in Bars : Safe(barsHash, barsAtRisk, b) => Safe(barsHash, barsAtRisk', b)
    BY <1>22, <2>3
  <2>6. \A b \in Bars : Held(minuteRound[p], Shared!Writing, b) \/ Held(g, Shared!Writing, b) =>
          b \in way \union rows
    BY <1>6, <2>2 DEF Held
  <2>7. \A b : ~Held(minutePage[p], {"sending"}, b)
    BY <2>3 DEF Held
  <2>8. Restored(barsHash, barsAtRisk', g)
    BY <2>2 DEF Restored
  <2>9. Kept(minuteNow, barsHash, barsAtRisk', minuteBars[p], barsSent[p], minuteRound[p], g)
    BY <1>3, <1>5, <2>5, <2>7, <2>8, KeptSafe
  <2> QED
    BY <1>3, <1>5, <1>8, <1>21, <2>2, <2>3, <2>4, <2>5, <2>6, <2>9
<1>25. ASSUME NEW p \in Instances, Shared!WriterSends(p)
       PROVE  BarsInv'
  <2>1. PICK all : all = minuteRound[p].rows
    OBVIOUS
  <2>2. PICK account : account = barsSent[p]
    OBVIOUS
  <2>3. PICK r : r = Shared!At("sending", all \ account)
    OBVIOUS
  <2>4. PICK merged : merged = Shared!Merged(account, all \ account)
    OBVIOUS
  <2>5. all \in SUBSET Bars /\ account \in SUBSET Bars /\ minuteRound[p].step = "write"
    BY <1>5, <1>25, <2>1, <2>2 DEF Shared!WriterSends
  <2>6. /\ r \in Places /\ r.step = "sending" /\ r.rows = all \ account
        /\ merged \in SUBSET (account \union all) /\ merged \in SUBSET (account \union (all \ account))
    BY <2>3, <2>4, <2>5, SendingTyped
  <2>7. /\ minuteBars' = [minuteBars EXCEPT ![p] = minuteBars[p]] /\ barsSent' = [barsSent EXCEPT ![p] = merged]
        /\ minuteRound' = [minuteRound EXCEPT ![p] = r] /\ minutePage' = [minutePage EXCEPT ![p] = minutePage[p]]
        /\ minuteNow' = minuteNow /\ barsHash' = barsHash /\ barsAtRisk' = barsAtRisk
    BY <1>5, <1>25, <2>1, <2>2, <2>3, <2>4 DEF Shared!WriterSends, Shared!Sends, Shared!Fields
  <2>8. Fresh(minuteNow, minuteBars[p], merged, r, minutePage[p])
    <3>1. minuteNow.day \in Nat /\ \A b \in all : b.day <= minuteNow.day
      BY <1>3, <2>1 DEF Fresh, Dated, Times
    <3> QED
      BY <1>3, <2>1, <2>2, <2>6, <3>1 DEF Fresh
  <2>9. Kept(minuteNow, barsHash, barsAtRisk, minuteBars[p], merged, r, minutePage[p])
    <3>1. Kept(minuteNow, barsHash, barsAtRisk, minuteBars[p], account, minuteRound[p], minutePage[p])
      BY <1>3, <2>2
    <3>2. \A b \in account : b.day = minuteNow.day =>
            Safe(barsHash, barsAtRisk, b) \/ Held(minutePage[p], {"sending"}, b)
      BY <2>5, <3>1 DEF Kept, Accounted, Held
    <3>3. \A b \in all \ account : Held(r, {"sending"}, b) /\ Held(r, Shared!Writing, b)
      BY <2>6 DEF Held, Shared!Writing
    <3>4. Accounted(minuteNow, barsHash, barsAtRisk, merged, r, minutePage[p])
      BY <2>6, <3>2, <3>3 DEF Accounted
    <3>5. \A b : Held(minuteRound[p], Shared!Writing, b) => b \in all
      BY <2>1 DEF Held
    <3>6. Shown(minuteNow, barsHash, barsAtRisk, minuteBars[p], r, minutePage[p])
      BY <3>1, <3>2, <3>3, <3>5 DEF Kept, Shown
    <3> QED
      BY <3>1, <3>4, <3>6 DEF Kept
  <2>10. merged \in SUBSET Bars
    BY <2>5, <2>6
  <2>11. \A b \in Bars : Held(r, Shared!Writing, b) \/ Held(minutePage[p], Shared!Writing, b) => b \in way
    <3>1. \A b : Held(r, Shared!Writing, b) => Held(minuteRound[p], Shared!Writing, b)
      BY <2>1, <2>5, <2>6 DEF Held, Shared!Writing
    <3> QED
      BY <1>6, <3>1
  <2>12. Ordered(barsHash, barsAtRisk, way \union {}) /\ {} \in SUBSET Bars
    BY <1>6
  <2> QED
    BY <1>3, <1>5, <1>8, <2>6, <2>7, <2>8, <2>9, <2>10, <2>11, <2>12
<1>26. ASSUME NEW p \in Instances, Shared!PageSends(p)
       PROVE  BarsInv'
  <2>1. PICK all : all = minutePage[p].rows
    OBVIOUS
  <2>2. PICK account : account = barsSent[p]
    OBVIOUS
  <2>3. PICK g : g = Shared!At("sending", all \ account)
    OBVIOUS
  <2>4. PICK merged : merged = Shared!Merged(account, all \ account)
    OBVIOUS
  <2>5. all \in SUBSET Bars /\ account \in SUBSET Bars /\ minutePage[p].step = "write"
    BY <1>5, <1>26, <2>1, <2>2 DEF Shared!PageSends
  <2>6. /\ g \in Places /\ g.step = "sending" /\ g.rows = all \ account
        /\ merged \in SUBSET (account \union all) /\ merged \in SUBSET (account \union (all \ account))
    BY <2>3, <2>4, <2>5, SendingTyped
  <2>7. /\ minuteBars' = [minuteBars EXCEPT ![p] = all] /\ barsSent' = [barsSent EXCEPT ![p] = merged]
        /\ minuteRound' = [minuteRound EXCEPT ![p] = minuteRound[p]] /\ minutePage' = [minutePage EXCEPT ![p] = g]
        /\ minuteNow' = minuteNow /\ barsHash' = barsHash /\ barsAtRisk' = barsAtRisk
    BY <1>5, <1>26, <2>1, <2>2, <2>3, <2>4 DEF Shared!PageSends, Shared!Sends, Shared!Fields
  <2>8. Fresh(minuteNow, all, merged, minuteRound[p], g)
    <3>1. minuteNow.day \in Nat /\ \A b \in all : b.day <= minuteNow.day
      BY <1>3, <2>1 DEF Fresh, Dated, Times
    <3> QED
      BY <1>3, <2>1, <2>2, <2>6, <3>1 DEF Fresh
  <2>9. Kept(minuteNow, barsHash, barsAtRisk, all, merged, minuteRound[p], g)
    <3>1. Kept(minuteNow, barsHash, barsAtRisk, minuteBars[p], account, minuteRound[p], minutePage[p])
      BY <1>3, <2>2
    <3>2. \A b \in account : b.day = minuteNow.day =>
            Safe(barsHash, barsAtRisk, b) \/ Held(minuteRound[p], {"sending"}, b)
      BY <2>5, <3>1 DEF Kept, Accounted, Held
    <3>3. \A b \in all \ account : Held(g, {"sending"}, b)
      BY <2>6 DEF Held
    <3>4. Accounted(minuteNow, barsHash, barsAtRisk, merged, minuteRound[p], g)
      BY <2>6, <3>2, <3>3 DEF Accounted
    <3>5. \A b : Held(minuteRound[p], {"sending"}, b) => Held(minuteRound[p], Shared!Writing, b)
      BY DEF Held, Shared!Writing
    <3>6. Shown(minuteNow, barsHash, barsAtRisk, all, minuteRound[p], g)
      BY <3>2, <3>3, <3>5 DEF Shown
    <3>7. Restored(barsHash, barsAtRisk, g)
      BY <2>6 DEF Restored
    <3> QED
      BY <3>4, <3>6, <3>7 DEF Kept
  <2>10. merged \in SUBSET Bars
    BY <2>5, <2>6
  <2>11. \A b \in Bars : Held(minuteRound[p], Shared!Writing, b) \/ Held(g, Shared!Writing, b) => b \in way
    <3>1. \A b : Held(g, Shared!Writing, b) => Held(minutePage[p], Shared!Writing, b)
      BY <2>1, <2>5, <2>6 DEF Held, Shared!Writing
    <3> QED
      BY <1>6, <3>1
  <2>12. Ordered(barsHash, barsAtRisk, way \union {}) /\ {} \in SUBSET Bars
    BY <1>6
  <2> QED
    BY <1>3, <1>5, <1>8, <2>5, <2>6, <2>7, <2>8, <2>9, <2>10, <2>11, <2>12
\* A write of what is under way ends: it is executed, or its bars are at risk.
<1>27. ASSUME NEW all \in SUBSET way, Shared!Executes(all)
       PROVE  /\ barsAtRisk' \in SUBSET Bars
              /\ barsHash' \in SUBSET Bars /\ \A h \in barsHash' : Dated(h, minuteNow)
              /\ \A b \in all : Safe(barsHash', barsAtRisk', b)
              /\ \A b \in Bars : Safe(barsHash, barsAtRisk, b) => Safe(barsHash', barsAtRisk', b)
              /\ Ordered(barsHash', barsAtRisk', way \union {})
  <2>1. CASE Shared!Executed(all)
    <3>1. /\ barsHash' = Shared!Merged(barsHash, all)
          /\ barsAtRisk' = {b \in barsAtRisk : Shared!Late(b) \/ ~Shared!Covers(all, b)}
      BY <2>1 DEF Shared!Executed
    <3>2. PICK risk : risk = barsAtRisk'
      OBVIOUS
    <3>3. PICK hash : hash = barsHash'
      OBVIOUS
    <3>4. risk \in SUBSET barsAtRisk
      BY <3>1, <3>2
    <3>5. \A b \in barsAtRisk \ risk : NotOlder(way, {b}) /\ Shared!Covers(all, b)
      BY <1>3, <1>7, <3>1, <3>2
    <3>6. /\ hash \in SUBSET Bars
          /\ \A b \in all : Safe(hash, risk, b)
          /\ \A b \in Bars : Safe(barsHash, barsAtRisk, b) => Safe(hash, risk, b)
          /\ Ordered(hash, risk, way)
      <4>1. all \in SUBSET Bars /\ all \subseteq way /\ hash = Shared!Merged(barsHash, all)
        BY <1>6, <3>1, <3>3
      <4>2. /\ barsHash \in SUBSET Bars /\ barsAtRisk \in SUBSET Bars /\ way \in SUBSET Bars
            /\ Ordered(barsHash, barsAtRisk, way)
        BY <1>3, <1>6
      <4>3. /\ risk \in SUBSET barsAtRisk
            /\ \A b \in barsAtRisk \ risk : NotOlder(way, {b}) /\ Shared!Covers(all, b)
        BY <3>4, <3>5
      <4> QED
        BY <4>1, <4>2, <4>3, ExecutedKeeps
    <3>7. \A h \in hash : Dated(h, minuteNow)
      BY <1>3, <1>6, <3>1, <3>3 DEF Shared!Merged
    <3> QED
      BY <1>3, <3>2, <3>3, <3>4, <3>6, <3>7
  <2>2. CASE Shared!Failed(all)
    <3>1. barsHash' = barsHash /\ barsAtRisk' = barsAtRisk \union all
      BY <2>2 DEF Shared!Failed
    <3>2. PICK risk : risk = barsAtRisk'
      OBVIOUS
    <3>3. risk \in SUBSET Bars /\ barsAtRisk \subseteq risk /\ all \subseteq risk
      BY <1>3, <1>6, <3>1, <3>2
    <3>4. Ordered(barsHash, risk, way)
      BY <1>6, <3>3 DEF Ordered
    <3> QED
      BY <1>3, <3>1, <3>2, <3>3, <3>4 DEF Safe
  <2> QED
    BY <1>27, <2>1, <2>2 DEF Shared!Executes
<1>28. ASSUME NEW p \in Instances, Shared!WriterDone(p) \/ Shared!PageDone(p)
       PROVE  BarsInv'
  <2>1. PICK free : free = Shared!Idle
    OBVIOUS
  <2>2. free \in Places /\ free.step \notin Shared!Writing /\ free.step # "restore" /\ free.rows = {}
    BY <2>1, IdlePlace DEF Shared!Writing
  <2>3. PICK r : r = IF Shared!WriterDone(p) THEN free ELSE minuteRound[p]
    OBVIOUS
  <2>4. PICK g : g = IF Shared!WriterDone(p) THEN minutePage[p] ELSE free
    OBVIOUS
  <2>5. PICK all : all = IF Shared!WriterDone(p) THEN minuteRound[p].rows ELSE minutePage[p].rows
    OBVIOUS
  <2>6. /\ minuteBars' = [minuteBars EXCEPT ![p] = minuteBars[p]] /\ barsSent' = [barsSent EXCEPT ![p] = barsSent[p]]
        /\ minuteRound' = [minuteRound EXCEPT ![p] = r] /\ minutePage' = [minutePage EXCEPT ![p] = g]
        /\ minuteNow' = minuteNow /\ Shared!Executes(all)
    <3>1. CASE Shared!WriterDone(p)
      BY <1>5, <2>1, <2>3, <2>4, <2>5, <3>1 DEF Shared!WriterDone
    <3>2. CASE ~Shared!WriterDone(p)
      BY <1>5, <1>28, <2>1, <2>3, <2>4, <2>5, <3>2 DEF Shared!PageDone
    <3> QED
      BY <3>1, <3>2
  <2>7. r \in Places /\ g \in Places /\ all \in SUBSET Bars
    BY <1>5, <2>2, <2>3, <2>4, <2>5
  <2>8. /\ \A b : b \in all => Held(minuteRound[p], Shared!Writing, b) \/ Held(minutePage[p], Shared!Writing, b)
        /\ \A b : Held(minuteRound[p], {"sending"}, b) => b \in all \/ Held(r, {"sending"}, b)
        /\ \A b : Held(minuteRound[p], Shared!Writing, b) => b \in all \/ Held(r, Shared!Writing, b)
        /\ \A b : Held(minutePage[p], {"sending"}, b) => b \in all \/ Held(g, {"sending"}, b)
        /\ \A b : Held(r, Shared!Writing, b) => Held(minuteRound[p], Shared!Writing, b)
        /\ \A b : Held(g, Shared!Writing, b) => Held(minutePage[p], Shared!Writing, b)
    <3>1. CASE Shared!WriterDone(p)
      <4>1. minuteRound[p].step = "sending" /\ r = free /\ g = minutePage[p] /\ all = minuteRound[p].rows
        BY <2>3, <2>4, <2>5, <3>1 DEF Shared!WriterDone
      <4> QED
        BY <2>2, <4>1 DEF Held, Shared!Writing
    <3>2. CASE ~Shared!WriterDone(p)
      <4>1. minutePage[p].step = "sending" /\ r = minuteRound[p] /\ g = free /\ all = minutePage[p].rows
        BY <1>28, <2>3, <2>4, <2>5, <3>2 DEF Shared!PageDone
      <4> QED
        BY <2>2, <4>1 DEF Held, Shared!Writing
    <3> QED
      BY <3>1, <3>2
  <2>9. all \in SUBSET way
    BY <1>6, <2>7, <2>8
  <2>10. /\ barsAtRisk' \in SUBSET Bars
         /\ barsHash' \in SUBSET Bars /\ \A h \in barsHash' : Dated(h, minuteNow)
         /\ \A b \in all : Safe(barsHash', barsAtRisk', b)
         /\ \A b \in Bars : Safe(barsHash, barsAtRisk, b) => Safe(barsHash', barsAtRisk', b)
         /\ Ordered(barsHash', barsAtRisk', way \union {})
    BY <1>27, <2>6, <2>9
  <2>11. Fresh(minuteNow, minuteBars[p], barsSent[p], r, g)
    BY <1>3, <2>2, <2>3, <2>4 DEF Fresh
  <2>12. g = minutePage[p] \/ Restored(barsHash', barsAtRisk', g)
    BY <2>2, <2>4 DEF Restored
  <2>13. Kept(minuteNow, barsHash', barsAtRisk', minuteBars[p], barsSent[p], r, g)
    BY <1>3, <1>5, <2>8, <2>10, <2>12, KeptSafe
  <2>14. \A b \in Bars : Held(r, Shared!Writing, b) \/ Held(g, Shared!Writing, b) => b \in way
    BY <1>6, <2>8
  <2>15. {} \in SUBSET Bars
    OBVIOUS
  <2> QED
    BY <1>5, <1>8, <2>6, <2>7, <2>10, <2>11, <2>13, <2>14, <2>15
<1>29. ASSUME NEW p \in Instances, Shared!PageRestores(p)
       PROVE  BarsInv'
  <2>1. PICK all : all = minutePage[p].rows
    OBVIOUS
  <2>2. PICK g : g = Shared!At("need", {})
    OBVIOUS
  <2>3. g \in Places /\ g.step \notin Shared!Writing /\ g.step # "restore" /\ g.rows = {}
    BY <2>2, IdlePlace DEF Shared!Writing
  <2>4. all \in SUBSET Bars /\ minutePage[p].step = "restore" /\ \A b \in all : Dated(b, minuteNow)
    BY <1>3, <1>5, <1>29, <2>1 DEF Shared!PageRestores, Fresh
  <2>5. minutePage[p].step \notin Shared!Writing
    BY <2>4 DEF Shared!Writing
  <2>6. /\ minutePage' = [minutePage EXCEPT ![p] = g]
        /\ UNCHANGED <<minuteRound, minuteNow, barsAtRisk, barsHash>>
    BY <1>29, <2>2 DEF Shared!PageRestores
  <2>7. CASE all = {}
    <3>1. UNCHANGED <<minuteBars, barsSent>>
      BY <1>29, <2>1, <2>7 DEF Shared!PageRestores
    <3> QED
      BY <1>15, <2>3, <2>5, <2>6, <3>1
  <2>8. CASE all # {}
    <3>1. /\ minuteBars' = [minuteBars EXCEPT ![p] = all] /\ barsSent' = [barsSent EXCEPT ![p] = all]
          /\ minuteRound' = [minuteRound EXCEPT ![p] = minuteRound[p]]
      BY <1>5, <1>29, <2>1, <2>8 DEF Shared!PageRestores
    <3>2. Fresh(minuteNow, all, all, minuteRound[p], g)
      <4>1. minuteNow.day \in Nat /\ \A b \in all : b.day <= minuteNow.day
        BY <1>3, <2>4 DEF Dated, Times
      <4> QED
        BY <1>3, <2>3, <4>1 DEF Fresh
    <3>3. \A b \in all : Safe(barsHash, barsAtRisk, b)
      BY <1>3, <2>1, <2>4 DEF Kept, Restored
    <3>4. Kept(minuteNow, barsHash, barsAtRisk, all, all, minuteRound[p], g)
      BY <2>3, <3>3 DEF Kept, Restored, Accounted, Shown
    <3>5. \A b \in Bars : Held(minuteRound[p], Shared!Writing, b) \/ Held(g, Shared!Writing, b) => b \in way
      BY <1>6, <2>3 DEF Held
    <3>6. Ordered(barsHash, barsAtRisk, way \union {}) /\ {} \in SUBSET Bars
      BY <1>6
    <3> QED
      BY <1>3, <1>5, <1>8, <2>3, <2>4, <2>6, <3>1, <3>2, <3>4, <3>5, <3>6
  <2> QED
    BY <2>7, <2>8
<1>30. ASSUME NEW p \in Instances, Shared!Restart(p)
       PROVE  BarsInv'
  <2>1. PICK free : free = Shared!Idle
    OBVIOUS
  <2>2. free \in Places /\ free.step \notin Shared!Writing /\ free.step # "restore" /\ free.rows = {}
    BY <2>1, IdlePlace DEF Shared!Writing
  <2>3. /\ minuteBars' = [minuteBars EXCEPT ![p] = {}] /\ barsSent' = [barsSent EXCEPT ![p] = {}]
        /\ minuteRound' = [minuteRound EXCEPT ![p] = free] /\ minutePage' = [minutePage EXCEPT ![p] = free]
        /\ minuteNow' = minuteNow /\ barsAtRisk' = barsAtRisk
    BY <1>30, <2>1 DEF Shared!Restart
  <2>4. \/ barsHash' = barsHash
        \/ \E w \in {minuteRound[p], minutePage[p]} :
             w.step = "sending" /\ barsHash' = Shared!Merged(barsHash, w.rows)
    BY <1>30 DEF Shared!Restart
  <2>5. PICK hash : hash = barsHash'
    OBVIOUS
  <2>6. /\ hash \in SUBSET Bars /\ \A h \in hash : Dated(h, minuteNow)
        /\ \A b \in Bars : Safe(barsHash, barsAtRisk, b) => Safe(hash, barsAtRisk, b)
        /\ Ordered(hash, barsAtRisk, way)
    <3>1. CASE hash = barsHash
      BY <1>3, <1>6, <3>1
    <3>2. ASSUME NEW w \in {minuteRound[p], minutePage[p]}, w.step = "sending",
                 hash = Shared!Merged(barsHash, w.rows)
          PROVE  /\ hash \in SUBSET Bars /\ \A h \in hash : Dated(h, minuteNow)
                 /\ \A b \in Bars : Safe(barsHash, barsAtRisk, b) => Safe(hash, barsAtRisk, b)
                 /\ Ordered(hash, barsAtRisk, way)
      <4>1. PICK all : all = w.rows
        OBVIOUS
      <4>2. all \in SUBSET Bars
        BY <1>5, <3>2, <4>1
      <4>3. \A b \in all : Held(minuteRound[p], Shared!Writing, b) \/ Held(minutePage[p], Shared!Writing, b)
        BY <3>2, <4>1 DEF Held, Shared!Writing
      <4>4. all \subseteq way
        BY <1>6, <4>2, <4>3
      <4>5. /\ hash \in SUBSET Bars
            /\ \A b \in Bars : Safe(barsHash, barsAtRisk, b) => Safe(hash, barsAtRisk, b)
            /\ Ordered(hash, barsAtRisk, way)
        <5>1. hash = Shared!Merged(barsHash, all) /\ barsAtRisk \in SUBSET barsAtRisk
          BY <3>2, <4>1
        <5>2. \A b \in barsAtRisk \ barsAtRisk : NotOlder(way, {b}) /\ Shared!Covers(all, b)
          OBVIOUS
        <5>3. /\ barsHash \in SUBSET Bars /\ barsAtRisk \in SUBSET Bars /\ way \in SUBSET Bars
              /\ Ordered(barsHash, barsAtRisk, way)
          BY <1>3, <1>6
        <5> QED
          BY <4>2, <4>4, <5>1, <5>2, <5>3, ExecutedKeeps
      <4>6. \A h \in hash : Dated(h, minuteNow)
        BY <1>3, <1>6, <3>2, <4>1, <4>4 DEF Shared!Merged
      <4> QED
        BY <4>5, <4>6
    <3> QED
      BY <2>4, <2>5, <3>1, <3>2
  <2>7. Fresh(minuteNow, {}, {}, free, free)
    BY <2>2 DEF Fresh
  <2>8. Kept(minuteNow, hash, barsAtRisk, {}, {}, free, free)
    BY <2>2 DEF Kept, Accounted, Shown, Restored
  <2>9. \A b \in Bars : Held(free, Shared!Writing, b) \/ Held(free, Shared!Writing, b) => b \in way
    BY <2>2 DEF Held
  <2>10. Ordered(hash, barsAtRisk, way \union {}) /\ {} \in SUBSET Bars
    BY <2>6
  <2> QED
    BY <1>3, <1>8, <2>2, <2>3, <2>5, <2>6, <2>7, <2>8, <2>9, <2>10
<1> QED
  BY <1>2, <1>10, <1>11, <1>12, <1>13, <1>14, <1>16, <1>17, <1>18, <1>19, <1>23, <1>24, <1>25, <1>26,
     <1>28, <1>29, <1>30 DEF Shared!Next

LEMMA BarsWhole == BarsInv /\ part = "bars" => Shared!SharedWhole
<1> SUFFICES ASSUME BarsInv, part = "bars",
                    NEW p \in Instances, NEW b \in minuteBars[p], b.day = minuteNow.day
             PROVE  Shared!Covers(barsHash, b) \/ b \in barsAtRisk \/ b \in Shared!Carried(p)
  BY DEF Shared!SharedWhole
<1>1. Kept(minuteNow, barsHash, barsAtRisk, minuteBars[p], barsSent[p], minuteRound[p], minutePage[p])
  BY DEF BarsInv
<1>2. Held(minuteRound[p], Shared!Writing, b) \/ Held(minutePage[p], {"sending"}, b) => b \in Shared!Carried(p)
  BY DEF Held, Shared!Carried, Shared!Writing
<1> QED
  BY <1>1, <1>2 DEF Kept, Shown, Safe
-----------------------------------------------------------------------------
(* The chains of skills                                                    *)

SkillResult == [skill : Nat, ok : BOOLEAN, items : Nat, own : BOOLEAN]
SkillRow == [skill : Nat, ok : BOOLEAN]

ChainShaped(row) ==
  row = [step |-> row.step, at |-> row.at, left |-> row.left, results |-> row.results,
         errors |-> row.errors, resolved |-> row.resolved]

\* The last row of a skill tells how it ended, those before it are failures.
Tells(rows, skill, ok) ==
  \E j \in DOMAIN rows : /\ rows[j].skill = skill /\ rows[j].ok = ok
                         /\ \A x \in DOMAIN rows : rows[x].skill = skill /\ x # j => x < j /\ ~rows[x].ok

\* The first n skills have been tried, with a result and rows of each.
Reported(row, rows, n) ==
  /\ row.results \in Seq(SkillResult) /\ Len(row.results) = n
  /\ rows \in Seq(SkillRow) /\ row.errors \subseteq 1 .. n
  /\ \A i \in 1 .. n : /\ row.results[i].skill = i
                       /\ i \in row.errors <=> ~row.results[i].ok
                       /\ Tells(rows, i, row.results[i].ok)

\* A chain at a skill has tried those before it, none with enough results; the rows of the
\* skill itself, one of each key that was refused, are failures.
Going(row, rows) ==
  /\ ChainShaped(row) /\ row.at \in 1 .. SkillLength /\ row.resolved = 0
  /\ Reported(row, rows, row.at - 1)
  /\ \A i \in 1 .. row.at - 1 : row.results[i].items < MinItems
  /\ \A j \in DOMAIN rows : rows[j].skill <= row.at /\ (rows[j].skill = row.at => ~rows[j].ok)

Ended(row, rows) ==
  /\ Reported(row, rows, Len(row.results))
  /\ IF row.resolved # 0
     THEN row.resolved = Len(row.results) /\ row.results[Len(row.results)].items >= MinItems
     ELSE Len(row.results) = SkillLength
  /\ \A i \in 1 .. Len(row.results) : row.results[i].items >= MinItems => i = Len(row.results)

ProcessesOf(all, c) == {p \in all : p.chain = c}
FirstOf(left) == IF left = << >> THEN 0 ELSE Head(left)

ChainInv(c, row, rows, all) ==
  /\ row.step \in {"idle", "skill", "run", "done", "cancelled", "raised"}
  /\ row.step = "idle" => rows = << >> /\ ProcessesOf(all, c) = {}
  /\ row.step = "skill" => /\ Going(row, rows) /\ ProcessesOf(all, c) = {} /\ row.left = << >>
                           /\ \A j \in DOMAIN rows : rows[j].skill < row.at
  /\ row.step = "run" =>
       Going(row, rows) /\ ProcessesOf(all, c) = {Skill!Process(c, row.at, FirstOf(row.left))}
  /\ row.step = "done" => Ended(row, rows) /\ ProcessesOf(all, c) = {}
  /\ row.step = "raised" => ProcessesOf(all, c) = {}

SkillInv ==
  part = "skill" =>
    /\ DOMAIN skillChain = SkillChains /\ skillChain = [c \in SkillChains |-> skillChain[c]]
    /\ skillLog = [c \in SkillChains |-> skillLog[c]]
    /\ \A c \in SkillChains : ChainInv(c, skillChain[c], skillLog[c], skillRunning)

\* One more row of a log: what it tells of the skills before stays, and what it tells of its own.
LEMMA RowAdded ==
  ASSUME NEW rows \in Seq(SkillRow), NEW at \in Nat, NEW ok \in BOOLEAN,
         \A j \in DOMAIN rows : rows[j].skill <= at /\ (rows[j].skill = at => ~rows[j].ok)
  PROVE  /\ Append(rows, [skill |-> at, ok |-> ok]) \in Seq(SkillRow)
         /\ \A j \in DOMAIN Append(rows, [skill |-> at, ok |-> ok]) :
              /\ Append(rows, [skill |-> at, ok |-> ok])[j].skill <= at
              /\ (~ok /\ Append(rows, [skill |-> at, ok |-> ok])[j].skill = at
                    => ~Append(rows, [skill |-> at, ok |-> ok])[j].ok)
         /\ Tells(Append(rows, [skill |-> at, ok |-> ok]), at, ok)
         /\ \A i \in Nat, was \in BOOLEAN : i # at /\ Tells(rows, i, was)
              => Tells(Append(rows, [skill |-> at, ok |-> ok]), i, was)
<1>1. PICK row : row = [skill |-> at, ok |-> ok]
  OBVIOUS
<1>2. row \in SkillRow /\ row.skill = at /\ row.ok = ok
  BY <1>1 DEF SkillRow
<1>3. PICK new : new = Append(rows, row)
  OBVIOUS
<1>4. /\ new \in Seq(SkillRow) /\ Len(new) = Len(rows) + 1 /\ new[Len(rows) + 1] = row
      /\ \A j \in 1 .. Len(rows) : new[j] = rows[j]
      /\ DOMAIN rows = 1 .. Len(rows) /\ DOMAIN new = 1 .. Len(rows) + 1 /\ Len(rows) \in Nat
  BY <1>2, <1>3
<1>5. \A j \in DOMAIN new : new[j].skill <= at /\ (~ok /\ new[j].skill = at => ~new[j].ok)
  BY <1>2, <1>4
<1>6. Tells(new, at, ok)
  <2>1. \A x \in DOMAIN new : x # Len(rows) + 1 => x < Len(rows) + 1 /\ new[x] = rows[x] /\ x \in DOMAIN rows
    BY <1>4
  <2> QED
    BY <1>2, <1>4, <2>1 DEF Tells
<1>7. ASSUME NEW i \in Nat, NEW was \in BOOLEAN, i # at, Tells(rows, i, was)
      PROVE  Tells(new, i, was)
  <2>1. PICK j \in DOMAIN rows : /\ rows[j].skill = i /\ rows[j].ok = was
                                 /\ \A x \in DOMAIN rows : rows[x].skill = i /\ x # j => x < j /\ ~rows[x].ok
    BY <1>7 DEF Tells
  <2>2. \A x \in DOMAIN new : new[x].skill = i => x \in DOMAIN rows /\ new[x] = rows[x]
    BY <1>2, <1>4, <1>7
  <2>3. j \in DOMAIN new /\ new[j] = rows[j]
    BY <1>4
  <2> QED
    BY <2>1, <2>2, <2>3 DEF Tells
<1> QED
  BY <1>1, <1>3, <1>4, <1>5, <1>6, <1>7

\* A skill that has ended without another key to try: on to the next, or the end.
LEMMA SkillEnds ==
  ASSUME NEW row, NEW rows, Going(row, rows), NEW r \in SkillResult, r.skill = row.at,
         r.items >= MinItems => r.ok
  PROVE  LET new == Skill!AfterSkill(row, r)
             more == Append(rows, [skill |-> row.at, ok |-> r.ok]) IN
         \/ /\ new.step = "skill" /\ new.left = << >> /\ Going(new, more)
            /\ \A j \in DOMAIN more : more[j].skill < new.at
         \/ new.step = "done" /\ Ended(new, more)
<1> DEFINE new == Skill!AfterSkill(row, r)
           more == Append(rows, [skill |-> row.at, ok |-> r.ok])
           results == Append(row.results, r)
           errors == IF r.ok THEN row.errors ELSE row.errors \union {r.skill}
           goes == /\ new.step = "skill" /\ new.left = << >> /\ Going(new, more)
                   /\ \A j \in DOMAIN more : more[j].skill < new.at
           ends == new.step = "done" /\ Ended(new, more)
<1>1. PICK at : at = row.at
  OBVIOUS
<1>2. /\ at \in 1 .. SkillLength /\ SkillLength \in Nat /\ at \in Nat /\ MinItems \in Nat \ {0}
      /\ row.results \in Seq(SkillResult) /\ Len(row.results) = at - 1
      /\ rows \in Seq(SkillRow) /\ r.ok \in BOOLEAN /\ r.items \in Nat
      /\ \A j \in DOMAIN rows : rows[j].skill <= at /\ (rows[j].skill = at => ~rows[j].ok)
  BY <1>1, SkillAssumption DEF Going, Reported, SkillResult
<1>3. /\ results \in Seq(SkillResult) /\ Len(results) = at /\ results[at] = r
      /\ \A i \in 1 .. at - 1 : results[i] = row.results[i]
  BY <1>2
<1>4. /\ more \in Seq(SkillRow) /\ Tells(more, at, r.ok)
      /\ \A j \in DOMAIN more : more[j].skill <= at
      /\ \A i \in Nat, was \in BOOLEAN : i # at /\ Tells(rows, i, was) => Tells(more, i, was)
  BY <1>1, <1>2, RowAdded
<1> HIDE DEF more, results
<1>5. ASSUME NEW last, last.results = results, last.errors = errors
      PROVE  Reported(last, more, at)
  <2>1. row.errors \subseteq 1 .. at - 1
    BY <1>1 DEF Going, Reported
  <2>2. errors \subseteq 1 .. at
    BY <1>1, <1>2, <2>1
  <2>3. ASSUME NEW i \in 1 .. at
        PROVE  /\ results[i].skill = i
               /\ i \in errors <=> ~results[i].ok
               /\ Tells(more, i, results[i].ok)
    <3>1. CASE i = at
      BY <1>1, <1>2, <1>3, <1>4, <2>1, <3>1
    <3>2. CASE i # at
      <4>1. i \in 1 .. at - 1
        BY <1>2, <3>2
      <4>2. row.results[i].skill = i /\ (i \in row.errors <=> ~row.results[i].ok) /\ Tells(rows, i, row.results[i].ok)
        BY <1>1, <4>1 DEF Going, Reported
      <4>3. row.results[i] \in SkillResult
        BY <1>2, <4>1
      <4>4. row.results[i].ok \in BOOLEAN
        BY <4>3 DEF SkillResult
      <4> QED
        BY <1>1, <1>3, <1>4, <3>2, <4>1, <4>2, <4>4
    <3> QED
      BY <3>1, <3>2
  <2> QED
    BY <1>3, <1>4, <1>5, <2>2, <2>3 DEF Reported
<1>6. \A i \in 1 .. at - 1 : results[i].items < MinItems /\ results[i].items \in Nat
  <2>1. \A i \in 1 .. at - 1 : results[i].items < MinItems
    BY <1>1, <1>3 DEF Going
  <2>2. \A i \in 1 .. at - 1 : results[i] \in SkillResult
    BY <1>2, <1>3
  <2> QED
    BY <2>1, <2>2 DEF SkillResult
<1>7. ChainShaped(row) /\ row.resolved = 0
  BY DEF Going
<1>8. PICK base : base = [row EXCEPT !.results = results, !.left = << >>, !.errors = errors]
  OBVIOUS
<1>9. base = [step |-> row.step, at |-> at, left |-> << >>, results |-> results, errors |-> errors,
              resolved |-> 0]
  BY <1>1, <1>7, <1>8, Zenon DEF ChainShaped
<1>10. new = IF Skill!Enough(r) THEN [base EXCEPT !.step = "done", !.resolved = r.skill]
             ELSE IF r.skill = SkillLength THEN [base EXCEPT !.step = "done"]
             ELSE [base EXCEPT !.step = "skill", !.at = @ + 1]
  BY <1>7, <1>8, Zenon DEF Skill!AfterSkill, ChainShaped, results
<1> HIDE DEF new, errors
<1>11. ASSUME Skill!Enough(r) PROVE ends
  <2>1. new = [step |-> "done", at |-> at, left |-> << >>, results |-> results, errors |-> errors,
               resolved |-> at]
    BY <1>1, <1>9, <1>10, <1>11
  <2>2. new.step = "done" /\ new.results = results /\ new.errors = errors /\ new.resolved = at
    BY <2>1
  <2>3. r.items >= MinItems
    BY <1>11 DEF Skill!Enough
  <2>4. Reported(new, more, at)
    BY <1>5, <2>2
  <2> QED
    BY <1>2, <1>3, <1>6, <2>2, <2>3, <2>4 DEF Ended
<1>12. ASSUME ~Skill!Enough(r), at = SkillLength PROVE ends
  <2>1. new = [step |-> "done", at |-> at, left |-> << >>, results |-> results, errors |-> errors,
               resolved |-> 0]
    BY <1>1, <1>9, <1>10, <1>12
  <2>2. new.step = "done" /\ new.results = results /\ new.errors = errors /\ new.resolved = 0
    BY <2>1
  <2>3. Reported(new, more, at)
    BY <1>5, <2>2
  <2>4. r.items >= MinItems => FALSE
    BY <1>12 DEF Skill!Enough
  <2> QED
    BY <1>2, <1>3, <1>6, <1>12, <2>2, <2>3, <2>4 DEF Ended
<1>13. ASSUME ~Skill!Enough(r), at # SkillLength PROVE goes
  <2>1. new = [step |-> "skill", at |-> at + 1, left |-> << >>, results |-> results, errors |-> errors,
               resolved |-> 0]
    BY <1>1, <1>9, <1>10, <1>13
  <2>2. /\ new.step = "skill" /\ new.results = results /\ new.errors = errors /\ new.resolved = 0
        /\ new.at = at + 1 /\ new.left = << >>
    BY <2>1
  <2>3. ChainShaped(new)
    BY <2>1, <2>2, Zenon DEF ChainShaped
  <2>4. Reported(new, more, at)
    BY <1>5, <2>2
  <2>5. ~(r.items >= MinItems)
    BY <1>13 DEF Skill!Enough
  <2>6. \A i \in 1 .. at : results[i].items < MinItems
    <3>1. \A i \in 1 .. at : i = at \/ i \in 1 .. at - 1
      BY <1>2
    <3> QED
      BY <1>2, <1>3, <1>6, <2>5, <3>1
  <2>7. \A j \in DOMAIN more : more[j].skill < at + 1 /\ more[j].skill <= at + 1 /\ more[j].skill # at + 1
    <3>1. ASSUME NEW j \in DOMAIN more
          PROVE  more[j].skill \in Nat
      <4>1. more[j] \in SkillRow
        BY <1>4
      <4> QED
        BY <4>1 DEF SkillRow
    <3> QED
      BY <1>2, <1>4, <3>1
  <2>8. at + 1 \in 1 .. SkillLength /\ at + 1 - 1 = at
    BY <1>2, <1>13
  <2>9. Going(new, more)
    BY <1>2, <2>2, <2>3, <2>4, <2>6, <2>7, <2>8 DEF Going
  <2> QED
    BY <2>2, <2>7, <2>9
<1> QED
  BY <1>11, <1>12, <1>13 DEF new, more, goes, ends

LEMMA SkillStart == ServicesInit => SkillInv
<1> SUFFICES ASSUME ServicesInit, part = "skill" PROVE SkillInv
  BY DEF SkillInv
<1>1. Skill!Init
  BY DEF ServicesInit
<1>2. /\ skillChain = [c \in SkillChains |-> Skill!NewChain]
      /\ skillLog = [c \in SkillChains |-> << >>] /\ skillRunning = {}
  BY <1>1 DEF Skill!Init
<1>3. Skill!NewChain.step = "idle"
  BY DEF Skill!NewChain
<1>4. \A c \in SkillChains : ChainInv(c, skillChain[c], skillLog[c], skillRunning)
  BY <1>2, <1>3 DEF ChainInv, ProcessesOf
<1> QED
  BY <1>2, <1>4 DEF SkillInv

\* A step of one chain is nothing to the others.
LEMMA OtherChains ==
  ASSUME SkillInv, part = "skill", part' = part, NEW c \in SkillChains, NEW row, NEW rows,
         skillChain' = [skillChain EXCEPT ![c] = row],
         skillLog' = [skillLog EXCEPT ![c] = rows],
         \A p : p.chain # c => (p \in skillRunning' <=> p \in skillRunning),
         ChainInv(c, row, rows, skillRunning')
  PROVE  SkillInv'
<1>1. \A d \in SkillChains : ChainInv(d, skillChain[d], skillLog[d], skillRunning)
  BY DEF SkillInv
<1>2. /\ skillChain' = [d \in SkillChains |-> IF d = c THEN row ELSE skillChain[d]]
      /\ skillLog' = [d \in SkillChains |-> IF d = c THEN rows ELSE skillLog[d]]
  BY DEF SkillInv
<1>3. ASSUME NEW d \in SkillChains
      PROVE  ChainInv(d, skillChain'[d], skillLog'[d], skillRunning')
  <2>1. CASE d = c
    BY <1>2, <2>1
  <2>2. CASE d # c
    <3>1. skillChain'[d] = skillChain[d] /\ skillLog'[d] = skillLog[d]
      BY <1>2, <2>2
    <3>2. ProcessesOf(skillRunning', d) = ProcessesOf(skillRunning, d)
      BY <2>2 DEF ProcessesOf
    <3> QED
      BY <1>1, <3>1, <3>2 DEF ChainInv
  <2> QED
    BY <2>1, <2>2
<1> QED
  BY <1>2, <1>3 DEF SkillInv

LEMMA SkillSteps == SkillInv /\ [ServicesNext]_servicesVars => SkillInv'
<1> SUFFICES ASSUME SkillInv, [ServicesNext]_servicesVars PROVE SkillInv'
  OBVIOUS
<1>0. part' = part
  BY DEF ServicesNext, servicesVars
<1> SUFFICES ASSUME part = "skill" PROVE SkillInv'
  BY <1>0 DEF SkillInv
<1>1. CASE UNCHANGED skillVars
  <2>1. skillChain' = skillChain /\ skillLog' = skillLog /\ skillRunning' = skillRunning
    BY <1>1 DEF skillVars
  <2> QED
    BY <2>1, <1>0 DEF SkillInv
<1>2. ASSUME NEW c \in SkillChains, Skill!Begin(c)
      PROVE  SkillInv'
  <2>1. PICK row : row = [Skill!NewChain EXCEPT !.step = "skill", !.at = 1]
    OBVIOUS
  <2>2. /\ skillChain' = [skillChain EXCEPT ![c] = row] /\ skillChain[c] = Skill!NewChain
        /\ skillLog' = skillLog /\ skillRunning' = skillRunning
    BY <1>2, <2>1 DEF Skill!Begin, Skill!Goes
  <2>3. row = [step |-> "skill", at |-> 1, left |-> << >>, results |-> << >>, errors |-> {},
               resolved |-> 0]
    BY <2>1 DEF Skill!NewChain
  <2>4. skillLog[c] = << >> /\ ProcessesOf(skillRunning, c) = {}
    BY <2>2 DEF SkillInv, ChainInv, Skill!NewChain
  <2>5. << >> \in Seq(SkillRow) /\ << >> \in Seq(SkillResult) /\ Len(<< >>) = 0
        /\ DOMAIN << >> = {}
    OBVIOUS
  <2>6. Going(row, << >>)
    BY <2>3, <2>5, SkillAssumption DEF Going, Reported, ChainShaped
  <2>7. ChainInv(c, row, skillLog[c], skillRunning')
    BY <2>2, <2>3, <2>4, <2>5, <2>6 DEF ChainInv
  <2>8. skillLog' = [skillLog EXCEPT ![c] = skillLog[c]]
    BY <2>2 DEF SkillInv
  <2> QED
    BY <1>0, <2>2, <2>7, <2>8, OtherChains
<1>3. ASSUME NEW c \in SkillChains, skillChain[c].step = "skill", NEW left, NEW key,
             skillChain' = [skillChain EXCEPT ![c] = [skillChain[c] EXCEPT !.step = "run", !.left = left]],
             skillRunning' = skillRunning \union {Skill!Process(c, skillChain[c].at, key)},
             key = FirstOf(left), skillLog' = skillLog
      PROVE  SkillInv'
  <2>1. PICK was : was = skillChain[c]
    OBVIOUS
  <2>2. PICK row : row = [was EXCEPT !.step = "run", !.left = left]
    OBVIOUS
  <2>3. Going(was, skillLog[c]) /\ ProcessesOf(skillRunning, c) = {}
    BY <1>3, <2>1 DEF SkillInv, ChainInv
  <2>4. row = [step |-> "run", at |-> was.at, left |-> left, results |-> was.results,
               errors |-> was.errors, resolved |-> was.resolved]
    BY <2>2, <2>3, Zenon DEF Going, ChainShaped
  <2>5. /\ row.step = "run" /\ row.at = was.at /\ row.left = left /\ row.results = was.results
        /\ row.errors = was.errors /\ row.resolved = was.resolved
    BY <2>4
  <2>6. ChainShaped(row)
    BY <2>4, <2>5, Zenon DEF ChainShaped
  <2>7. Going(row, skillLog[c])
    BY <2>3, <2>5, <2>6 DEF Going, Reported
  <2>8. ProcessesOf(skillRunning', c) = {Skill!Process(c, row.at, FirstOf(row.left))}
    BY <1>3, <2>1, <2>3, <2>5 DEF ProcessesOf, Skill!Process
  <2>9. ChainInv(c, row, skillLog[c], skillRunning')
    BY <2>5, <2>7, <2>8 DEF ChainInv
  <2>10. skillLog' = [skillLog EXCEPT ![c] = skillLog[c]]
    BY <1>3 DEF SkillInv
  <2>11. \A p : p.chain # c => (p \in skillRunning' <=> p \in skillRunning)
    BY <1>3 DEF Skill!Process
  <2> QED
    BY <1>0, <1>3, <2>1, <2>2, <2>9, <2>10, <2>11, OtherChains
<1>4. ASSUME NEW c \in SkillChains, Skill!StartKeyless(c)
      PROVE  SkillInv'
  <2>1. /\ skillChain[c].step = "skill" /\ skillLog' = skillLog
        /\ skillRunning' = skillRunning \union {Skill!Process(c, skillChain[c].at, 0)}
        /\ skillChain' = [skillChain EXCEPT ![c] = [skillChain[c] EXCEPT !.step = "run"]]
    BY <1>4 DEF Skill!StartKeyless, Skill!Goes
  <2>2. PICK row : row = skillChain[c]
    OBVIOUS
  <2>3. ChainShaped(row) /\ row.left = << >>
    BY <2>1, <2>2 DEF SkillInv, ChainInv, Going
  <2>4. [row EXCEPT !.step = "run"] = [row EXCEPT !.step = "run", !.left = << >>]
    <3>1. PICK none : none = << >>
      OBVIOUS
    <3>2. PICK new : new = [row EXCEPT !.step = "run"]
      OBVIOUS
    <3>3. PICK other : other = [row EXCEPT !.step = "run", !.left = none]
      OBVIOUS
    <3>4. new = [step |-> "run", at |-> row.at, left |-> row.left, results |-> row.results,
                 errors |-> row.errors, resolved |-> row.resolved]
      BY <2>3, <3>2, Zenon DEF ChainShaped
    <3>5. other = [step |-> "run", at |-> row.at, left |-> none, results |-> row.results,
                   errors |-> row.errors, resolved |-> row.resolved]
      BY <2>3, <3>3, Zenon DEF ChainShaped
    <3> QED
      BY <2>3, <3>1, <3>2, <3>3, <3>4, <3>5
  <2> QED
    BY <1>3, <2>1, <2>2, <2>4 DEF FirstOf
<1>5. ASSUME NEW c \in SkillChains, Skill!StartKeyed(c)
      PROVE  SkillInv'
  <2>1. PICK left : left = Skill!Credentials
    OBVIOUS
  <2>2. /\ skillChain[c].step = "skill" /\ skillLog' = skillLog /\ left # << >>
        /\ skillRunning' = skillRunning \union {Skill!Process(c, skillChain[c].at, Head(left))}
        /\ skillChain' = [skillChain EXCEPT ![c] = [skillChain[c] EXCEPT !.step = "run", !.left = left]]
    BY <1>5, <2>1 DEF Skill!StartKeyed, Skill!Goes
  <2> QED
    BY <1>3, <2>2 DEF FirstOf
<1>6. ASSUME NEW c \in SkillChains, skillChain[c].step \in {"skill", "run"}, NEW r \in SkillResult,
             r.skill = skillChain[c].at, r.items >= MinItems => r.ok,
             skillChain' = [skillChain EXCEPT ![c] = Skill!AfterSkill(skillChain[c], r)],
             skillLog' = [skillLog EXCEPT ![c] = Append(skillLog[c], [skill |-> skillChain[c].at, ok |-> r.ok])],
             skillRunning' = {p \in skillRunning : p.chain # c}
      PROVE  SkillInv'
  <2>1. PICK new : new = Skill!AfterSkill(skillChain[c], r)
    OBVIOUS
  <2>2. PICK more : more = Append(skillLog[c], [skill |-> skillChain[c].at, ok |-> r.ok])
    OBVIOUS
  <2>3. Going(skillChain[c], skillLog[c])
    BY <1>6 DEF SkillInv, ChainInv
  <2>4. \/ /\ new.step = "skill" /\ new.left = << >> /\ Going(new, more)
           /\ \A j \in DOMAIN more : more[j].skill < new.at
        \/ new.step = "done" /\ Ended(new, more)
    BY <1>6, <2>1, <2>2, <2>3, SkillEnds
  <2>5. ProcessesOf(skillRunning', c) = {}
    BY <1>6 DEF ProcessesOf
  <2>6. ChainInv(c, new, more, skillRunning')
    BY <2>4, <2>5 DEF ChainInv
  <2>7. \A p : p.chain # c => (p \in skillRunning' <=> p \in skillRunning)
    BY <1>6
  <2> QED
    BY <1>0, <1>6, <2>1, <2>2, <2>6, <2>7, OtherChains
<1>7. ASSUME NEW c \in SkillChains, Skill!KeyMissing(c)
      PROVE  SkillInv'
  <2>1. PICK at : at = skillChain[c].at
    OBVIOUS
  <2>2. PICK r : r = [skill |-> at, ok |-> FALSE, items |-> 0, own |-> FALSE]
    OBVIOUS
  <2>3. /\ skillChain[c].step = "skill" /\ skillRunning' = skillRunning
        /\ skillChain' = [skillChain EXCEPT ![c] = Skill!AfterSkill(skillChain[c], r)]
        /\ skillLog' = [skillLog EXCEPT ![c] = Append(@, [skill |-> at, ok |-> FALSE])]
    BY <1>7, <2>1, <2>2 DEF Skill!KeyMissing, Skill!Goes, Skill!Logs, Skill!Result
  <2>4. skillLog' = [skillLog EXCEPT ![c] = Append(skillLog[c], [skill |-> at, ok |-> FALSE])]
    BY <2>3 DEF SkillInv
  <2>5. at \in Nat /\ ProcessesOf(skillRunning, c) = {}
    BY <2>1, <2>3, SkillAssumption DEF SkillInv, ChainInv, Going
  <2>6. skillRunning' = {p \in skillRunning : p.chain # c}
    BY <2>3, <2>5 DEF ProcessesOf
  <2>7. r \in SkillResult /\ r.skill = at /\ r.ok = FALSE /\ ~(r.items >= MinItems)
    BY <2>2, <2>5, SkillAssumption DEF SkillResult
  <2> QED
    BY <1>6, <2>1, <2>3, <2>4, <2>6, <2>7
<1>8. ASSUME NEW c \in SkillChains, Skill!Finish(c)
      PROVE  SkillInv'
  <2>1. PICK e \in Skill!Ends, starts \in BOOLEAN :
          LET k == Skill!KeyOf(c)  ok == Skill!Success(c, e)  at == skillChain[c].at
              rest == IF k = 0 THEN << >> ELSE Tail(skillChain[c].left)
              stays == ~ok /\ e.retry /\ rest # << >> IN
          /\ skillLog' = [skillLog EXCEPT ![c] = Append(@, [skill |-> at, ok |-> ok])]
          /\ skillRunning' = (skillRunning \ {Skill!Process(c, at, k)})
                               \union (IF stays /\ starts THEN {Skill!Process(c, at, Head(rest))} ELSE {})
          /\ skillChain' = [skillChain EXCEPT ![c] =
                IF ~stays THEN Skill!AfterSkill(skillChain[c], Skill!ResultOf(c, e))
                ELSE IF starts THEN [skillChain[c] EXCEPT !.left = rest]
                ELSE [skillChain[c] EXCEPT !.step = "raised"]]
    BY <1>8 DEF Skill!Finish, Skill!Goes, Skill!Logs
  <2>2. PICK was : was = skillChain[c]
    OBVIOUS
  <2>3. PICK ok : ok = Skill!Success(c, e)
    OBVIOUS
  <2>4. PICK k : k = Skill!KeyOf(c)
    OBVIOUS
  <2>5. PICK rest : rest = IF k = 0 THEN << >> ELSE Tail(was.left)
    OBVIOUS
  <2>6. was.step = "run"
    BY <1>8, <2>2 DEF Skill!Finish
  <2>7. k = FirstOf(was.left)
    BY <2>2, <2>4 DEF Skill!KeyOf, FirstOf
  <2>8. Going(was, skillLog[c]) /\ ProcessesOf(skillRunning, c) = {Skill!Process(c, was.at, k)}
    BY <2>2, <2>6, <2>7 DEF SkillInv, ChainInv
  <2>9. was.at \in Nat
    BY <2>8, SkillAssumption DEF Going
  <2>10. ok \in BOOLEAN
    BY <2>3 DEF Skill!Success, Skill!Found, Skill!Ends
  <2>11. CASE ~ok /\ e.retry /\ rest # << >> /\ starts
    <3>1. PICK row : row = [was EXCEPT !.left = rest]
      OBVIOUS
    <3>2. PICK more : more = Append(skillLog[c], [skill |-> was.at, ok |-> ok])
      OBVIOUS
    <3>3. /\ skillLog' = [skillLog EXCEPT ![c] = more]
          /\ skillRunning' = (skillRunning \ {Skill!Process(c, was.at, k)})
                                \union {Skill!Process(c, was.at, Head(rest))}
          /\ skillChain' = [skillChain EXCEPT ![c] = row]
      BY <2>1, <2>2, <2>3, <2>4, <2>5, <2>11, <3>1, <3>2 DEF SkillInv
    <3>4. row = [step |-> "run", at |-> was.at, left |-> rest, results |-> was.results,
                 errors |-> was.errors, resolved |-> was.resolved]
      <4>1. PICK s, a, l, r, f, v : was = [step |-> s, at |-> a, left |-> l, results |-> r,
                                           errors |-> f, resolved |-> v]
        BY <2>8, Zenon DEF Going, ChainShaped
      <4> QED
        BY <2>6, <3>1, <4>1
    <3>5. /\ row.step = "run" /\ row.at = was.at /\ row.left = rest /\ row.results = was.results
          /\ row.errors = was.errors /\ row.resolved = was.resolved
      BY <3>4
    <3>6. ChainShaped(row)
      BY <3>4, <3>5, Zenon DEF ChainShaped
    <3>7. /\ skillLog[c] \in Seq(SkillRow) /\ Reported(was, skillLog[c], was.at - 1)
          /\ \A j \in DOMAIN skillLog[c] :
               skillLog[c][j].skill <= was.at /\ (skillLog[c][j].skill = was.at => ~skillLog[c][j].ok)
      BY <2>8 DEF Going, Reported
    <3>8. /\ more \in Seq(SkillRow)
          /\ \A j \in DOMAIN more : more[j].skill <= was.at /\ (more[j].skill = was.at => ~more[j].ok)
          /\ \A i \in Nat, b \in BOOLEAN : i # was.at /\ Tells(skillLog[c], i, b) => Tells(more, i, b)
      BY <2>9, <2>10, <2>11, <3>2, <3>7, RowAdded
    <3>9. ASSUME NEW i \in 1 .. was.at - 1
          PROVE  Tells(more, i, was.results[i].ok)
      <4>1. was.results \in Seq(SkillResult) /\ Len(was.results) = was.at - 1
        BY <3>7 DEF Reported
      <4>2. was.results[i] \in SkillResult
        BY <2>9, <4>1
      <4>3. was.results[i].ok \in BOOLEAN
        BY <4>2 DEF SkillResult
      <4>4. i \in Nat /\ i # was.at
        BY <2>9
      <4>5. Tells(skillLog[c], i, was.results[i].ok)
        BY <3>7 DEF Reported
      <4> QED
        BY <3>8, <4>3, <4>4, <4>5
    <3>10. Reported(row, more, was.at - 1)
      BY <3>5, <3>7, <3>8, <3>9 DEF Reported
    <3>11. Going(row, more)
      BY <2>8, <3>5, <3>6, <3>8, <3>10 DEF Going
    <3>12. ProcessesOf(skillRunning', c) = {Skill!Process(c, row.at, FirstOf(row.left))}
      BY <2>8, <2>11, <3>3, <3>5 DEF ProcessesOf, FirstOf, Skill!Process
    <3>13. ChainInv(c, row, more, skillRunning')
      BY <3>5, <3>11, <3>12 DEF ChainInv
    <3>14. \A p : p.chain # c => (p \in skillRunning' <=> p \in skillRunning)
      BY <3>3 DEF Skill!Process
    <3> QED
      BY <1>0, <3>3, <3>13, <3>14, OtherChains
  <2>12. CASE ~(~ok /\ e.retry /\ rest # << >>)
    <3>1. PICK r : r = [skill |-> was.at, ok |-> ok, items |-> e.items, own |-> e.printed \/ e.wrote]
      OBVIOUS
    <3>2. r = Skill!ResultOf(c, e)
      BY <2>2, <2>3, <3>1 DEF Skill!ResultOf, Skill!Result
    <3>3. /\ skillLog' = [skillLog EXCEPT ![c] = Append(skillLog[c], [skill |-> was.at, ok |-> ok])]
          /\ skillRunning' = skillRunning \ {Skill!Process(c, was.at, k)}
          /\ skillChain' = [skillChain EXCEPT ![c] = Skill!AfterSkill(was, r)]
      BY <2>1, <2>2, <2>3, <2>4, <2>5, <2>12, <3>2 DEF SkillInv
    <3>4. /\ e.items \in Nat /\ e.printed \in BOOLEAN /\ e.wrote \in BOOLEAN
          /\ e.items >= MinItems => ok
      BY <2>3, SkillAssumption DEF Skill!Ends, Skill!Success
    <3>5. r \in SkillResult /\ r.skill = was.at /\ r.ok = ok /\ r.items = e.items
      BY <2>9, <2>10, <3>1, <3>4 DEF SkillResult
    <3>6. skillRunning' = {p \in skillRunning : p.chain # c}
      BY <2>8, <3>3 DEF ProcessesOf, Skill!Process
    <3> QED
      BY <1>6, <2>2, <2>6, <3>3, <3>4, <3>5, <3>6
  <2>13. CASE ~ok /\ e.retry /\ rest # << >> /\ ~starts
    <3>1. PICK row : row = [was EXCEPT !.step = "raised"]
      OBVIOUS
    <3>2. PICK more : more = Append(skillLog[c], [skill |-> was.at, ok |-> ok])
      OBVIOUS
    <3>3. /\ skillLog' = [skillLog EXCEPT ![c] = more]
          /\ skillRunning' = skillRunning \ {Skill!Process(c, was.at, k)}
          /\ skillChain' = [skillChain EXCEPT ![c] = row]
      BY <2>1, <2>2, <2>3, <2>4, <2>5, <2>13, <3>1, <3>2 DEF SkillInv
    <3>4. row.step = "raised"
      BY <2>8, <3>1 DEF Going, ChainShaped
    <3>5. ProcessesOf(skillRunning', c) = {}
      BY <2>8, <3>3 DEF ProcessesOf
    <3>6. ChainInv(c, row, more, skillRunning')
      BY <3>4, <3>5 DEF ChainInv
    <3>7. \A p : p.chain # c => (p \in skillRunning' <=> p \in skillRunning)
      BY <3>3 DEF Skill!Process
    <3> QED
      BY <1>0, <3>3, <3>6, <3>7, OtherChains
  <2> QED
    BY <2>11, <2>12, <2>13
<1>9. ASSUME NEW c \in SkillChains, Skill!Cancel(c)
      PROVE  SkillInv'
  <2>1. PICK row : row = [skillChain[c] EXCEPT !.step = "cancelled"]
    OBVIOUS
  <2>2. /\ skillChain[c].step = "run" /\ skillLog' = skillLog /\ skillRunning' = skillRunning
        /\ skillChain' = [skillChain EXCEPT ![c] = row]
    BY <1>9, <2>1 DEF Skill!Cancel, Skill!Goes
  <2>3. ChainShaped(skillChain[c])
    BY <2>2 DEF SkillInv, ChainInv, Going
  <2>4. row.step = "cancelled"
    BY <2>1, <2>3 DEF ChainShaped
  <2>5. ChainInv(c, row, skillLog[c], skillRunning')
    BY <2>4 DEF ChainInv
  <2>6. skillLog' = [skillLog EXCEPT ![c] = skillLog[c]]
    BY <2>2 DEF SkillInv
  <2> QED
    BY <1>0, <2>2, <2>5, <2>6, OtherChains
<1>10. ASSUME NEW c \in SkillChains, Skill!OrphanEnds(c)
      PROVE  SkillInv'
  <2>1. /\ skillChain[c].step = "cancelled" /\ skillChain' = skillChain /\ skillLog' = skillLog
        /\ skillRunning' = {p \in skillRunning : p.chain # c}
    BY <1>10 DEF Skill!OrphanEnds
  <2>2. ChainInv(c, skillChain[c], skillLog[c], skillRunning')
    BY <2>1 DEF ChainInv
  <2>3. skillChain' = [skillChain EXCEPT ![c] = skillChain[c]] /\ skillLog' = [skillLog EXCEPT ![c] = skillLog[c]]
    BY <2>1 DEF SkillInv
  <2>4. \A p : p.chain # c => (p \in skillRunning' <=> p \in skillRunning)
    BY <2>1
  <2> QED
    BY <1>0, <2>2, <2>3, <2>4, OtherChains
<1>11. ASSUME NEW k \in SkillKeys, Skill!EditKey(k)
      PROVE  SkillInv'
  <2>1. skillChain' = skillChain /\ skillLog' = skillLog /\ skillRunning' = skillRunning
    BY <1>11 DEF Skill!EditKey
  <2> QED
    BY <1>0, <2>1 DEF SkillInv
<1>13. ASSUME NEW c \in SkillChains, Skill!NotStarted(c)
      PROVE  SkillInv'
  <2>1. PICK row : row = [skillChain[c] EXCEPT !.step = "raised"]
    OBVIOUS
  <2>2. /\ skillChain[c].step = "skill" /\ skillLog' = skillLog /\ skillRunning' = skillRunning
        /\ skillChain' = [skillChain EXCEPT ![c] = row]
    BY <1>13, <2>1 DEF Skill!NotStarted, Skill!Goes
  <2>3. ChainShaped(skillChain[c]) /\ ProcessesOf(skillRunning, c) = {}
    BY <2>2 DEF SkillInv, ChainInv, Going
  <2>4. row.step = "raised"
    BY <2>1, <2>3 DEF ChainShaped
  <2>5. ChainInv(c, row, skillLog[c], skillRunning')
    BY <2>2, <2>3, <2>4 DEF ChainInv
  <2>6. skillLog' = [skillLog EXCEPT ![c] = skillLog[c]]
    BY <2>2 DEF SkillInv
  <2> QED
    BY <1>0, <2>2, <2>5, <2>6, OtherChains
<1>12. Skill!Next \/ UNCHANGED skillVars
  BY DEF ServicesNext, servicesVars
<1> QED
  BY <1>1, <1>2, <1>4, <1>5, <1>7, <1>8, <1>9, <1>10, <1>11, <1>12, <1>13 DEF Skill!Next

LEMMA SkillsStaySound == SkillInv /\ part = "skill" => Skill!SkillsSound
<1> SUFFICES ASSUME SkillInv, part = "skill" PROVE Skill!SkillsSound
  OBVIOUS
<1>1. ASSUME NEW c \in SkillChains
      PROVE  ChainInv(c, skillChain[c], skillLog[c], skillRunning)
  BY DEF SkillInv
<1>2. Skill!OneProcess
  <2> SUFFICES ASSUME NEW c \in SkillChains
               PROVE  /\ skillChain[c].step = "run" =>
                           {p \in skillRunning : p.chain = c}
                             = {Skill!Process(c, skillChain[c].at, Skill!KeyOf(c))}
                      /\ skillChain[c].step \in {"skill", "done", "raised"} => \A p \in skillRunning : p.chain # c
    BY DEF Skill!OneProcess
  <2> QED
    BY <1>1 DEF ChainInv, ProcessesOf, FirstOf, Skill!KeyOf
<1>3. Skill!ChainAccounts
  <2> SUFFICES ASSUME NEW c \in SkillChains, skillChain[c].step = "done"
               PROVE  LET row == skillChain[c]  rs == row.results  n == Len(rs)
                          rows(k) == {j \in DOMAIN skillLog[c] : skillLog[c][j].skill = k} IN
                      /\ \A i \in 1 .. n : rs[i].skill = i
                      /\ IF row.resolved # 0 THEN row.resolved = n /\ rs[n].items >= MinItems
                         ELSE n = SkillLength
                      /\ \A i \in 1 .. n :
                           /\ rs[i].items >= MinItems => i = n
                           /\ i \in row.errors <=> ~rs[i].ok
                           /\ \E j \in rows(i) :
                                /\ skillLog[c][j].ok = rs[i].ok
                                /\ \A x \in rows(i) \ {j} : x < j /\ ~skillLog[c][x].ok
    BY Zenon DEF Skill!ChainAccounts, Skill!Done
  <2>1. Ended(skillChain[c], skillLog[c])
    BY <1>1 DEF ChainInv
  <2> QED
    BY <2>1 DEF Ended, Reported, Tells
<1> QED
  BY <1>2, <1>3 DEF Skill!SkillsSound

-----------------------------------------------------------------------------
(* The ladder after the close                                              *)

\* What may be shown of a board: the date's limit-ups and breaks as they were, and no stock
\* higher than it reached.
TrueBoard(answer) ==
  answer.available =>
    /\ answer.ups = {s \in BoardStocks : ladderMarket[answer.date][s] = "limit_up"}
    /\ answer.breaks = {s \in BoardStocks : ladderMarket[answer.date][s] = "limit_break"}
    /\ \A s \in answer.ups : answer.boards[s] \in 1 .. Ladder!TrueRun(answer.date, s)

\* An audited date has all its events, and what is shown or cached is a true board.
LadderInv ==
  part = "ladder" =>
    /\ ladderBars \in 0 .. BoardDates
    /\ \A d \in ladderAudited, s \in BoardStocks : <<d, s>> \in ladderStored
    /\ TrueBoard(ladderCached) /\ TrueBoard(ladderShown)

\* The dates up to e from which the rows have limit-ups without a gap to e.
RowRun(d, s, e) ==
  {x \in Ladder!Floor(d) .. e : \A y \in x .. e : Ladder!Event(y, s) = "limit_up"}

LEMMA FloorIsDate ==
  ASSUME NEW d \in Nat \ {0}
  PROVE  Ladder!Floor(d) \in 1 .. d
BY DatesAssumption DEF Ladder!Floor

\* A run grows by one date, and ends where a row is missing.
LEMMA RunGrows ==
  ASSUME NEW d \in Nat \ {0}, NEW s, NEW e \in 0 .. d
  PROVE  /\ IsFiniteSet(RowRun(d, s, e))
         /\ Cardinality(RowRun(d, s, e))
              = IF e < Ladder!Floor(d) \/ Ladder!Event(e, s) # "limit_up" THEN 0
                ELSE 1 + Cardinality(RowRun(d, s, e - 1))
<1>1. Ladder!Floor(d) \in 1 .. d
  BY FloorIsDate
<1>2. ASSUME NEW x \in 0 .. d PROVE IsFiniteSet(RowRun(d, s, x))
  <2>1. RowRun(d, s, x) \subseteq Ladder!Floor(d) .. x
    BY DEF RowRun
  <2>2. IsFiniteSet(Ladder!Floor(d) .. x)
    BY <1>1, FS_Interval
  <2> QED
    BY <2>1, <2>2, FS_Subset
<1>3. CASE e < Ladder!Floor(d) \/ Ladder!Event(e, s) # "limit_up"
  <2>1. RowRun(d, s, e) = {}
    BY <1>1, <1>3 DEF RowRun
  <2> QED
    BY <1>2, <1>3, <2>1, FS_EmptySet
<1>4. CASE ~(e < Ladder!Floor(d)) /\ Ladder!Event(e, s) = "limit_up"
  <2>1. PICK floor \in 1 .. d : floor = Ladder!Floor(d)
    BY <1>1
  <2>2. e - 1 \in 0 .. d /\ floor <= e
    BY <1>4, <2>1
  <2>3. ASSUME NEW x \in floor .. e, x # e, \A y \in x .. e : Ladder!Event(y, s) = "limit_up"
        PROVE  x \in RowRun(d, s, e - 1)
    BY <2>1, <2>3 DEF RowRun
  <2>4. ASSUME NEW x \in RowRun(d, s, e - 1)
        PROVE  x \in RowRun(d, s, e)
    BY <1>4, <2>1 DEF RowRun
  <2>5. e \in RowRun(d, s, e) /\ e \notin RowRun(d, s, e - 1)
    BY <1>4, <2>1, <2>2 DEF RowRun
  <2>6. RowRun(d, s, e) = RowRun(d, s, e - 1) \union {e}
    BY <2>1, <2>3, <2>4, <2>5 DEF RowRun
  <2>7. IsFiniteSet(RowRun(d, s, e - 1))
    BY <1>2, <2>2
  <2>8. Cardinality(RowRun(d, s, e)) = Cardinality(RowRun(d, s, e - 1)) + 1
    BY <2>5, <2>6, <2>7, FS_AddElement
  <2>9. Cardinality(RowRun(d, s, e - 1)) \in Nat
    BY <2>7, FS_CardinalityType
  <2> QED
    BY <1>2, <1>4, <2>8, <2>9
<1> QED
  BY <1>3, <1>4

\* The rungs that are counted backwards are the dates of the run.
LEMMA BoardIsRun ==
  ASSUME NEW d \in Nat \ {0}, NEW s
  PROVE  Ladder!BoardCount(d, s) = Cardinality(RowRun(d, s, d))
<1> DEFINE Rungs(f) == [e \in 0 .. d |->
             IF e < Ladder!Floor(d) \/ Ladder!Event(e, s) # "limit_up" THEN 0 ELSE 1 + f[e - 1]]
           run == [e \in 0 .. d |-> Cardinality(RowRun(d, s, e))]
           back == CHOOSE f : f = Rungs(f)
<1>1. run = Rungs(run)
  <2>1. ASSUME NEW e \in 0 .. d
        PROVE  run[e] = Rungs(run)[e]
    <3>1. CASE e < Ladder!Floor(d) \/ Ladder!Event(e, s) # "limit_up"
      BY <3>1, RunGrows
    <3>2. CASE ~(e < Ladder!Floor(d) \/ Ladder!Event(e, s) # "limit_up")
      <4>1. e - 1 \in 0 .. d
        BY <3>2, FloorIsDate
      <4> QED
        BY <3>2, <4>1, RunGrows
    <3> QED
      BY <3>1, <3>2
  <2> QED
    BY <2>1
<1>2. back = Rungs(back)
  <2> HIDE DEF run, Rungs
  <2> QED
    BY <1>1
<1>3. ASSUME NEW e \in 0 .. d, back[e] # run[e]
      PROVE  FALSE
  <2> DEFINE differ == {x \in 0 .. d : back[x] # run[x]}
  <2>1. differ \in SUBSET Nat /\ differ # {}
    <3> HIDE DEF back, run
    <3> QED
      BY <1>3
  <2>2. PICK n \in differ : \A m \in differ : n <= m
    <3> HIDE DEF differ
    <3> QED
      BY <2>1, LeastExists
  <2>3. n \in 0 .. d /\ back[n] # run[n]
    BY <2>2
  <2>4. back[n] = Rungs(back)[n] /\ run[n] = Rungs(run)[n]
    <3> HIDE DEF back, run, Rungs
    <3> QED
      BY <1>1, <1>2
  <2>5. CASE n < Ladder!Floor(d) \/ Ladder!Event(n, s) # "limit_up"
    <3> HIDE DEF back, run
    <3> QED
      BY <2>3, <2>4, <2>5
  <2>6. CASE ~(n < Ladder!Floor(d) \/ Ladder!Event(n, s) # "limit_up")
    <3>1. n - 1 \in 0 .. d /\ n - 1 \notin differ
      BY <2>2, <2>3, <2>6, FloorIsDate
    <3>2. back[n - 1] = run[n - 1]
      BY <3>1
    <3> HIDE DEF back, run
    <3> QED
      BY <2>3, <2>4, <2>6, <3>2
  <2> QED
    BY <2>5, <2>6
<1>4. Ladder!BoardCount(d, s) = back[d]
  BY DEF Ladder!BoardCount
<1>5. back[d] = run[d]
  <2> HIDE DEF back, run
  <2> QED
    BY <1>3
<1> QED
  BY <1>4, <1>5

\* The run of the rows is part of the run there was, and all of it when every date it goes
\* back over is audited.
LEMMA RunsAreTrue ==
  ASSUME part = "ladder", LadderInv, NEW d \in 1 .. BoardDates, NEW s \in BoardStocks,
         d \in ladderAudited, ladderMarket[d][s] = "limit_up"
  PROVE  /\ Ladder!BoardCount(d, s) \in 1 .. Ladder!TrueRun(d, s)
         /\ (\A e \in Ladder!Floor(d) .. d : e \in ladderAudited)
              => Ladder!BoardCount(d, s) = Ladder!TrueRun(d, s)
<1> DEFINE real == {e \in Ladder!Floor(d) .. d : \A x \in e .. d : ladderMarket[x][s] = "limit_up"}
           rows == RowRun(d, s, d)
<1>1. d \in Nat \ {0} /\ Ladder!Floor(d) \in 1 .. d
  BY DatesAssumption, FloorIsDate
<1>2. \A e \in ladderAudited : <<e, s>> \in ladderStored
  BY DEF LadderInv
<1>3. \A e : Ladder!Event(e, s) = "limit_up" => ladderMarket[e][s] = "limit_up"
  BY DEF Ladder!Event
<1>4. \A e \in ladderAudited : Ladder!Event(e, s) = ladderMarket[e][s]
  BY <1>2 DEF Ladder!Event
<1>5. rows \subseteq real
  BY <1>3 DEF RowRun
<1>6. IsFiniteSet(real)
  <2>1. real \subseteq Ladder!Floor(d) .. d /\ IsFiniteSet(Ladder!Floor(d) .. d)
    BY <1>1, FS_Interval
  <2> QED
    BY <2>1, FS_Subset
<1>7. IsFiniteSet(rows) /\ Cardinality(rows) <= Cardinality(real)
  BY <1>5, <1>6, FS_Subset
<1>8. Ladder!TrueRun(d, s) = Cardinality(real)
  BY DEF Ladder!TrueRun, Ladder!Cardinality, Cardinality
<1>9. Ladder!BoardCount(d, s) = Cardinality(rows)
  BY <1>1, BoardIsRun
<1>10. d \in rows
  BY <1>1, <1>4 DEF RowRun
<1>11. Cardinality(rows) \in Nat /\ Cardinality(real) \in Nat /\ Cardinality(rows) # 0
  BY <1>6, <1>7, <1>10, FS_CardinalityType, FS_EmptySet
<1>12. ASSUME \A e \in Ladder!Floor(d) .. d : e \in ladderAudited
       PROVE  rows = real
  BY <1>1, <1>4, <1>12 DEF RowRun
<1> HIDE DEF rows, real
<1> QED
  BY <1>7, <1>8, <1>9, <1>11, <1>12

LEMMA StructureTrue ==
  ASSUME part = "ladder", LadderInv, NEW d \in 0 .. BoardDates
  PROVE  /\ TrueBoard(Ladder!Structure(d))
         /\ Ladder!Structure(d).date = d
         /\ Ladder!Structure(d).available /\ (\A e \in Ladder!Floor(d) .. d : e \in ladderAudited)
              => \A s \in Ladder!Structure(d).ups :
                   Ladder!Structure(d).boards[s] = Ladder!TrueRun(d, s)
<1> DEFINE whole == [available |-> TRUE, date |-> d, reason |-> "none",
                     ups |-> Ladder!Of(d, "limit_up"), breaks |-> Ladder!Of(d, "limit_break"),
                     boards |-> [s \in BoardStocks |-> Ladder!BoardCount(d, s)]]
           open == d # 0 /\ d <= ladderBars /\ d \in ladderAudited
<1>1. CASE ~open
  <2>1. PICK reason : Ladder!Structure(d) = Ladder!Unavailable(d, reason)
    BY <1>1, DatesAssumption DEF Ladder!Structure, LadderInv
  <2>2. Ladder!Structure(d).available = FALSE /\ Ladder!Structure(d).date = d
    BY <2>1 DEF Ladder!Unavailable
  <2> QED
    BY <2>2 DEF TrueBoard
<1>2. CASE open
  <2>1. d \in 1 .. BoardDates
    BY <1>2, DatesAssumption
  <2>2. Ladder!Structure(d) = whole
    BY <1>2, DatesAssumption DEF Ladder!Structure, LadderInv
  <2>3. \A s \in BoardStocks : Ladder!Event(d, s) = ladderMarket[d][s]
    BY <1>2 DEF LadderInv, Ladder!Event
  <2>4. /\ whole.ups = {s \in BoardStocks : ladderMarket[d][s] = "limit_up"}
        /\ whole.breaks = {s \in BoardStocks : ladderMarket[d][s] = "limit_break"}
    BY <2>3 DEF Ladder!Of
  <2>5. ASSUME NEW s \in whole.ups
        PROVE  /\ whole.boards[s] \in 1 .. Ladder!TrueRun(d, s)
               /\ (\A e \in Ladder!Floor(d) .. d : e \in ladderAudited)
                    => whole.boards[s] = Ladder!TrueRun(d, s)
    <3>1. s \in BoardStocks /\ ladderMarket[d][s] = "limit_up"
      BY <2>4
    <3>2. whole.boards[s] = Ladder!BoardCount(d, s)
      BY <3>1
    <3> HIDE DEF whole
    <3> QED
      BY <1>2, <2>1, <3>1, <3>2, RunsAreTrue
  <2>6. whole.available /\ whole.date = d
    OBVIOUS
  <2> HIDE DEF whole, open
  <2> QED
    BY <2>2, <2>4, <2>5, <2>6 DEF TrueBoard
<1> QED
  BY <1>1, <1>2

LEMMA LadderStart == ServicesInit => LadderInv
<1> SUFFICES ASSUME ServicesInit, part = "ladder" PROVE LadderInv
  BY DEF LadderInv
<1>1. Ladder!Init
  BY DEF ServicesInit
<1>2. ladderCached.available = FALSE /\ ladderShown = ladderCached
  BY <1>1 DEF Ladder!Init, Ladder!Unavailable
<1> QED
  BY <1>1, <1>2, DatesAssumption DEF LadderInv, Ladder!Init, TrueBoard

\* What a step may show or cache, and when it does.
LEMMA LadderReads ==
  ASSUME part = "ladder", LadderInv, [Ladder!Next]_ladderVars
  PROVE  /\ ladderMarket' = ladderMarket
         /\ TrueBoard(ladderCached') /\ TrueBoard(ladderShown')
         /\ \/ ladderQueries' = ladderQueries /\ ladderShown' = ladderShown
            \/ ladderFresh /\ ladderShown' = ladderCached
            \/ \E d \in 0 .. BoardDates : ladderShown' = Ladder!Structure(d)
            \/ ladderShown' = Ladder!Unavailable(0, "post_close_structure_load_failed")
<1>1. ASSUME NEW d, NEW reason PROVE TrueBoard(Ladder!Unavailable(d, reason))
  BY DEF TrueBoard, Ladder!Unavailable
<1>2. TrueBoard(ladderCached) /\ TrueBoard(ladderShown) /\ ladderBars \in 0 .. BoardDates
  BY DEF LadderInv
<1>3. CASE \/ Ladder!BarsIngested \/ Ladder!CacheExpires \/ UNCHANGED ladderVars
           \/ \E d \in Ladder!Dates : Ladder!EventsIngested(d) \/ Ladder!EventsAudited(d)
  <2>1. /\ ladderMarket' = ladderMarket /\ ladderQueries' = ladderQueries
        /\ ladderShown' = ladderShown /\ ladderCached' = ladderCached
    BY <1>3 DEF Ladder!BarsIngested, Ladder!CacheExpires, Ladder!EventsIngested,
                Ladder!EventsAudited, ladderVars
  <2> QED
    BY <1>2, <2>1
<1>4. CASE Ladder!CachedReport
  <2>1. /\ ladderMarket' = ladderMarket /\ ladderFresh
        /\ ladderShown' = ladderCached /\ ladderCached' = ladderCached
    BY <1>4 DEF Ladder!CachedReport
  <2> QED
    BY <1>2, <2>1
<1>5. CASE Ladder!LatestReport
  <2>1. /\ ladderMarket' = ladderMarket /\ ladderShown' = ladderCached'
        /\ ladderCached' \in {Ladder!Structure(ladderBars),
                              Ladder!Unavailable(0, "post_close_structure_load_failed")}
    BY <1>5 DEF Ladder!LatestReport
  <2>2. TrueBoard(Ladder!Structure(ladderBars))
    BY <1>2, StructureTrue
  <2> QED
    BY <1>1, <1>2, <2>1, <2>2
<1>6. ASSUME NEW d \in Ladder!Dates, Ladder!HistoricalReport(d)
      PROVE  /\ ladderMarket' = ladderMarket /\ ladderCached' = ladderCached
             /\ ladderShown' = Ladder!Structure(d) /\ TrueBoard(ladderShown')
             /\ d \in 0 .. BoardDates
  <2>1. d \in 0 .. BoardDates
    BY DatesAssumption DEF Ladder!Dates
  <2>2. /\ ladderMarket' = ladderMarket /\ ladderCached' = ladderCached
        /\ ladderShown' = Ladder!Structure(d)
    BY <1>6 DEF Ladder!HistoricalReport
  <2> QED
    BY <2>1, <2>2, StructureTrue
<1>7. \/ Ladder!BarsIngested \/ Ladder!CacheExpires \/ UNCHANGED ladderVars
      \/ \E d \in Ladder!Dates : Ladder!EventsIngested(d) \/ Ladder!EventsAudited(d)
      \/ Ladder!CachedReport \/ Ladder!LatestReport
      \/ \E d \in Ladder!Dates : Ladder!HistoricalReport(d)
  BY DEF Ladder!Next
<1> QED
  BY <1>2, <1>3, <1>4, <1>5, <1>6, <1>7

LEMMA LadderSteps == LadderInv /\ [ServicesNext]_servicesVars => LadderInv'
<1> SUFFICES ASSUME LadderInv, [ServicesNext]_servicesVars, part' = "ladder" PROVE LadderInv'
  BY DEF LadderInv
<1>1. part = "ladder" /\ [Ladder!Next]_ladderVars
  BY DEF ServicesNext, servicesVars, ladderVars
<1>2. /\ ladderMarket' = ladderMarket
      /\ TrueBoard(ladderCached') /\ TrueBoard(ladderShown')
  BY <1>1, LadderReads
<1>3. TrueBoard(ladderCached)' /\ TrueBoard(ladderShown)'
  BY <1>2 DEF TrueBoard, Ladder!TrueRun
<1>4. \/ Ladder!BarsIngested \/ (\E d \in Ladder!Dates : Ladder!EventsIngested(d))
      \/ (\E d \in Ladder!Dates : Ladder!EventsAudited(d))
      \/ UNCHANGED <<ladderBars, ladderStored, ladderAudited>>
  BY <1>1 DEF Ladder!Next, ladderVars, Ladder!CacheExpires, Ladder!LatestReport,
              Ladder!CachedReport, Ladder!HistoricalReport
<1>5. /\ ladderBars \in 0 .. BoardDates
      /\ \A d \in ladderAudited, s \in BoardStocks : <<d, s>> \in ladderStored
  BY <1>1 DEF LadderInv
<1>6. /\ ladderBars' \in 0 .. BoardDates
      /\ \A d \in ladderAudited', s \in BoardStocks : <<d, s>> \in ladderStored'
  <2>1. CASE Ladder!BarsIngested
    BY <1>5, <2>1, DatesAssumption DEF Ladder!BarsIngested
  <2>2. ASSUME NEW d \in Ladder!Dates, Ladder!EventsIngested(d)
        PROVE  <1>6!:
    BY <1>5, <2>2 DEF Ladder!EventsIngested
  <2>3. ASSUME NEW d \in Ladder!Dates, Ladder!EventsAudited(d)
        PROVE  <1>6!:
    BY <1>5, <2>3 DEF Ladder!EventsAudited
  <2>4. CASE UNCHANGED <<ladderBars, ladderStored, ladderAudited>>
    BY <1>5, <2>4
  <2> QED
    BY <1>4, <2>1, <2>2, <2>3, <2>4
<1> QED
  BY <1>3, <1>6 DEF LadderInv

LEMMA LadderTrue == LadderInv /\ part = "ladder" => Ladder!BoardTrue
BY DEF LadderInv, TrueBoard, Ladder!BoardTrue

LEMMA RungsHold ==
  ASSUME LadderInv, part = "ladder", [Ladder!Next]_ladderVars
  PROVE  Ladder!RungsExplained
<1> SUFFICES ASSUME ladderQueries' # ladderQueries, ~(ladderFresh /\ ladderShown' = ladderCached),
                    ladderShown'.available,
                    \A e \in Ladder!Floor(ladderShown'.date) .. ladderShown'.date : e \in ladderAudited
             PROVE  \A s \in ladderShown'.ups :
                      ladderShown'.boards[s] = Ladder!TrueRun(ladderShown'.date, s)
  BY DEF Ladder!RungsExplained
<1>1. \/ \E d \in 0 .. BoardDates : ladderShown' = Ladder!Structure(d)
      \/ ladderShown' = Ladder!Unavailable(0, "post_close_structure_load_failed")
  BY LadderReads
<1>2. ladderShown' # Ladder!Unavailable(0, "post_close_structure_load_failed")
  BY DEF Ladder!Unavailable
<1>3. PICK d \in 0 .. BoardDates : ladderShown' = Ladder!Structure(d)
  BY <1>1, <1>2
<1>4. ladderShown'.date = d
  BY <1>3, StructureTrue
<1> QED
  BY <1>3, <1>4, StructureTrue

-----------------------------------------------------------------------------
(* The daily review                                                        *)

\* A row of the summary, whatever it counts.
SummaryShaped(row) ==
  row = [stored |-> row.stored, highest |-> row.highest, promoted |-> row.promoted,
         previous |-> row.previous]

\* The boards of a date as its events have them.
HighestStreak(d) == Daily!Max({Daily!Streak(s, d) : s \in Daily!LimitUps(d)})

\* The evidence of a date's limit-ups is the one of the events.
EvidenceOf(d) ==
  \A s \in Daily!LimitUps(d) :
    reviewEvidence[<<s, d>>] = [status |-> "ready", board |-> Daily!Streak(s, d)]

SummaryOf(d) ==
  Daily!NoGhosts(d) /\ reviewSummary[d].stored /\ Daily!LimitUps(d) # {} =>
    /\ reviewSummary[d].highest = HighestStreak(d)
    /\ reviewSummary[d].promoted = Daily!Cardinality(Daily!Promoted(d))

\* A board is counted only in evidence that is ready, of a date that is complete; a reviewed
\* date whose facts have not changed has the boards of its events.
ReviewInv ==
  part = "review" =>
    /\ reviewLimit \subseteq ReviewStocks \X Daily!Dates
    /\ reviewComplete \subseteq Daily!Dates
    /\ reviewJob \in [left: SUBSET Daily!Dates, usable: SUBSET reviewComplete]
    /\ reviewFresh \subseteq reviewComplete
    /\ reviewEvidence \in [ReviewStocks \X Daily!Dates ->
                             [status: {"none", "pending", "ready"}, board: {-1} \union Nat]]
    /\ \A x \in ReviewStocks \X Daily!Dates :
         reviewEvidence[x].board # -1 => reviewEvidence[x].status = "ready"
    /\ DOMAIN reviewSummary = Daily!Dates
    /\ \A d \in Daily!Dates : SummaryShaped(reviewSummary[d])
    /\ \A d \in reviewFresh : EvidenceOf(d) /\ SummaryOf(d)

LEMMA GreatestExists ==
  ASSUME NEW n \in Nat, NEW some \in SUBSET (0 .. n), some # {}
  PROVE  \E m \in some : \A k \in some : m >= k
<1> DEFINE under == {n - m : m \in some}
<1>1. under \in SUBSET Nat /\ under # {}
  <2>1. ASSUME NEW m \in some PROVE n - m \in Nat
    OBVIOUS
  <2>2. PICK m : m \in some
    OBVIOUS
  <2>3. n - m \in under
    BY <2>2
  <2>4. under \subseteq Nat
    BY <2>1
  <2> HIDE DEF under
  <2> QED
    BY <2>3, <2>4
<1>2. PICK u \in under : \A v \in under : u <= v
  <2> HIDE DEF under
  <2> QED
    BY <1>1, LeastExists
<1>3. PICK m \in some : u = n - m
  BY <1>2
<1>4. ASSUME NEW k \in some PROVE m >= k
  <2>1. n - k \in under
    OBVIOUS
  <2>2. n - m <= n - k
    BY <1>2, <1>3, <2>1
  <2> QED
    BY <2>2
<1> QED
  BY <1>4

\* The streak of a limit-up on a complete date, and when it is a promotion.
LEMMA StreakCounts ==
  ASSUME NEW d \in Daily!Dates, NEW s
  PROVE  /\ Daily!Streak(s, d) \in 0 .. d
         /\ d \in reviewComplete /\ s \in Daily!LimitUps(d) => Daily!Streak(s, d) >= 1
         /\ d \in reviewComplete /\ s \in Daily!LimitUps(d) /\ reviewComplete \subseteq Daily!Dates
              => (Daily!Streak(s, d) >= 2 <=> s \in Daily!Promoted(d))
<1> DEFINE runs == {k \in 0 .. d : \A e \in (d - k + 1) .. d :
                      e \in reviewComplete /\ s \in Daily!LimitUps(e)}
<1>1. d \in Nat \ {0}
  BY DatesAssumption DEF Daily!Dates
<1>2. 0 \in runs
  BY <1>1
<1>3. \E m \in runs : \A k \in runs : m >= k
  <2>1. runs \in SUBSET (0 .. d) /\ runs # {}
    BY <1>2
  <2> HIDE DEF runs
  <2> QED
    BY <1>1, <2>1, GreatestExists
<1>4. Daily!Streak(s, d) \in runs /\ \A k \in runs : Daily!Streak(s, d) >= k
  BY <1>3 DEF Daily!Streak, Daily!Max
<1>5. PICK n : n = Daily!Streak(s, d)
  OBVIOUS
<1>6. n \in 0 .. d /\ \A e \in (d - n + 1) .. d : e \in reviewComplete /\ s \in Daily!LimitUps(e)
  BY <1>4, <1>5
<1>7. ASSUME d \in reviewComplete, s \in Daily!LimitUps(d)
      PROVE  n >= 1
  <2>1. 1 \in runs
    BY <1>1, <1>7
  <2> HIDE DEF runs
  <2> QED
    BY <1>4, <1>5, <2>1
<1>8. ASSUME n >= 2, s \in Daily!LimitUps(d)
      PROVE  s \in Daily!Promoted(d)
  <2>1. d - 1 \in (d - n + 1) .. d
    BY <1>1, <1>6, <1>8
  <2> QED
    BY <1>6, <1>8, <2>1 DEF Daily!Promoted
<1>9. ASSUME s \in Daily!Promoted(d), d \in reviewComplete, reviewComplete \subseteq Daily!Dates
      PROVE  n >= 2
  <2>1. /\ s \in Daily!LimitUps(d) /\ s \in Daily!LimitUps(d - 1) /\ d - 1 \in reviewComplete
        /\ d - 1 \in Nat \ {0}
    BY <1>9, DatesAssumption DEF Daily!Promoted, Daily!Dates
  <2>2. \A e \in (d - 2 + 1) .. d : e = d \/ e = d - 1
    BY <1>1
  <2>3. 2 \in runs
    BY <1>1, <1>9, <2>1, <2>2
  <2> HIDE DEF runs
  <2> QED
    BY <1>4, <1>5, <2>3
<1> HIDE DEF runs
<1> QED
  BY <1>5, <1>6, <1>7, <1>8, <1>9

\* Whatever evidence there is without ghosts, the height and the promotions that are counted
\* over it are those of the events, over all stocks, the ready ones or those of the day before.
LEMMA CountedBoards ==
  ASSUME NEW d \in Daily!Dates, d \in reviewComplete, reviewComplete \subseteq Daily!Dates,
         NEW E, NEW T, T \subseteq ReviewStocks, Daily!LimitUps(d) # {},
         \A s \in Daily!LimitUps(d) :
           E[<<s, d>>] = [status |-> "ready", board |-> Daily!Streak(s, d)],
         \A s \in ReviewStocks : /\ E[<<s, d>>].board \in {-1} \union Nat
                                 /\ E[<<s, d>>].board # -1 => E[<<s, d>>].status = "ready"
                                 /\ E[<<s, d>>].status = "ready" => s \in Daily!LimitUps(d)
  PROVE  /\ Daily!LimitUps(d) \subseteq T => Daily!Highest(E, d, T) = HighestStreak(d)
         /\ Daily!Promoted(d) \subseteq T => Daily!Above(E, d, T) = Daily!Promoted(d)
<1> DEFINE streaks == {Daily!Streak(s, d) : s \in Daily!LimitUps(d)}
           counted == {-1} \union {E[<<s, d>>].board : s \in T}
<1>1. d \in Nat \ {0} /\ Daily!LimitUps(d) \subseteq ReviewStocks
  BY DatesAssumption DEF Daily!Dates, Daily!LimitUps
<1>2. \A s \in Daily!LimitUps(d) : /\ Daily!Streak(s, d) \in 1 .. d
                                   /\ E[<<s, d>>].board = Daily!Streak(s, d)
  <2> SUFFICES ASSUME NEW s \in Daily!LimitUps(d)
               PROVE  Daily!Streak(s, d) \in 1 .. d /\ E[<<s, d>>].board = Daily!Streak(s, d)
    OBVIOUS
  <2>1. PICK n : n = Daily!Streak(s, d)
    OBVIOUS
  <2>2. n \in 0 .. d /\ n >= 1
    BY <2>1, StreakCounts
  <2>3. E[<<s, d>>] = [status |-> "ready", board |-> n]
    BY <2>1
  <2>4. n \in 1 .. d
    BY <1>1, <2>2
  <2> QED
    BY <2>1, <2>3, <2>4
<1>3. \E m \in streaks : \A k \in streaks : m >= k
  <2>1. streaks \in SUBSET (0 .. d) /\ streaks # {}
    <3>1. \A s \in Daily!LimitUps(d) : Daily!Streak(s, d) \in 0 .. d
      BY StreakCounts
    <3> QED
      BY <3>1
  <2> HIDE DEF streaks
  <2> QED
    BY <1>1, <2>1, GreatestExists
<1>4. PICK highest : highest = HighestStreak(d)
  OBVIOUS
<1>5. highest \in streaks /\ \A k \in streaks : highest >= k
  BY <1>3, <1>4 DEF HighestStreak, Daily!Max
<1>6. PICK top \in Daily!LimitUps(d) : highest = Daily!Streak(top, d)
  BY <1>5
<1>7. highest \in 1 .. d
  BY <1>2, <1>6
<1>8. ASSUME Daily!LimitUps(d) \subseteq T
      PROVE  Daily!Highest(E, d, T) = highest
  <2>1. highest \in counted
    BY <1>2, <1>6, <1>8
  <2>2. ASSUME NEW s \in T, E[<<s, d>>].board # -1
        PROVE  highest >= E[<<s, d>>].board
    <3>1. s \in Daily!LimitUps(d)
      BY <2>2
    <3>2. Daily!Streak(s, d) \in streaks /\ E[<<s, d>>].board = Daily!Streak(s, d)
      BY <1>2, <3>1
    <3> HIDE DEF streaks
    <3> QED
      BY <1>5, <3>2
  <2>3. \A k \in counted : highest >= k /\ k \in Int
    <3>1. highest >= -1 /\ -1 \in Int
      BY <1>7
    <3>2. ASSUME NEW s \in T
          PROVE  highest >= E[<<s, d>>].board /\ E[<<s, d>>].board \in Int
      BY <2>2, <3>1
    <3> QED
      BY <3>1, <3>2
  <2>4. PICK m : m = Daily!Max(counted)
    OBVIOUS
  <2>5. m \in counted /\ \A k \in counted : m >= k
    <3> HIDE DEF counted
    <3> QED
      BY <2>1, <2>3, <2>4 DEF Daily!Max
  <2>6. m = highest
    <3> HIDE DEF counted
    <3> QED
      BY <1>1, <1>7, <2>1, <2>3, <2>5
  <2>7. Daily!Highest(E, d, T) = m
    BY <2>4 DEF Daily!Highest, Daily!Null
  <2> QED
    BY <2>6, <2>7
<1>9. ASSUME Daily!Promoted(d) \subseteq T
      PROVE  Daily!Above(E, d, T) = Daily!Promoted(d)
  <2>1. ASSUME NEW s \in T, E[<<s, d>>].board >= 2
        PROVE  s \in Daily!Promoted(d)
    <3>1. E[<<s, d>>].board # -1
      BY <2>1
    <3>2. s \in Daily!LimitUps(d)
      BY <3>1
    <3>3. Daily!Streak(s, d) >= 2
      BY <1>2, <2>1, <3>2
    <3> QED
      BY <3>2, <3>3, StreakCounts
  <2>2. ASSUME NEW s \in Daily!Promoted(d)
        PROVE  s \in T /\ E[<<s, d>>].board >= 2
    <3>1. s \in Daily!LimitUps(d) /\ s \in T
      BY <1>9, <2>2 DEF Daily!Promoted
    <3>2. Daily!Streak(s, d) >= 2
      BY <2>2, <3>1, StreakCounts
    <3> QED
      BY <1>2, <3>1, <3>2
  <2>3. Daily!Above(E, d, T) \subseteq Daily!Promoted(d)
    BY <2>1 DEF Daily!Above
  <2>4. Daily!Promoted(d) \subseteq Daily!Above(E, d, T)
    BY <2>2 DEF Daily!Above
  <2> QED
    BY <2>3, <2>4
<1> QED
  BY <1>4, <1>8, <1>9

\* A date keeps its streaks when it and the dates before it keep their events.
LEMMA StreaksStay ==
  ASSUME NEW d \in Daily!Dates,
         \A e \in 0 .. d : /\ e \in reviewComplete' <=> e \in reviewComplete
                           /\ \A s : <<s, e>> \in reviewLimit' <=> <<s, e>> \in reviewLimit
  PROVE  /\ \A s : Daily!Streak(s, d)' = Daily!Streak(s, d)
         /\ Daily!LimitUps(d)' = Daily!LimitUps(d)
         /\ Daily!Promoted(d)' = Daily!Promoted(d)
         /\ HighestStreak(d)' = HighestStreak(d)
<1>1. d \in Nat \ {0}
  BY DatesAssumption DEF Daily!Dates
<1>2. \A e \in 0 .. d : Daily!LimitUps(e)' = Daily!LimitUps(e)
  BY DEF Daily!LimitUps
<1>3. Daily!Promoted(d)' = Daily!Promoted(d)
  BY <1>1, <1>2 DEF Daily!Promoted
<1>4. ASSUME NEW s
      PROVE  Daily!Streak(s, d)' = Daily!Streak(s, d)
  <2>1. ASSUME NEW k \in 0 .. d, NEW e \in (d - k + 1) .. d
        PROVE  /\ e \in reviewComplete' <=> e \in reviewComplete
               /\ s \in Daily!LimitUps(e)' <=> s \in Daily!LimitUps(e)
    <3>1. e \in 0 .. d
      BY <1>1
    <3> QED
      BY <1>2, <3>1
  <2>2. {k \in 0 .. d : \A e \in (d - k + 1) .. d : e \in reviewComplete' /\ s \in Daily!LimitUps(e)'}
          = {k \in 0 .. d : \A e \in (d - k + 1) .. d : e \in reviewComplete /\ s \in Daily!LimitUps(e)}
    BY <2>1
  <2> QED
    BY <2>2 DEF Daily!Streak
<1> QED
  BY <1>1, <1>2, <1>3, <1>4 DEF HighestStreak

LEMMA ReviewStart == ServicesInit => ReviewInv
<1> SUFFICES ASSUME ServicesInit, part = "review" PROVE ReviewInv
  BY DEF ReviewInv
<1>1. Daily!Init
  BY DEF ServicesInit
<1>2. /\ reviewLimit = {} /\ reviewComplete = {} /\ reviewFresh = {}
      /\ reviewJob = [left |-> {}, usable |-> {}]
  BY <1>1 DEF Daily!Init, Daily!Idle
<1>3. reviewEvidence = [x \in ReviewStocks \X Daily!Dates |-> [status |-> "none", board |-> -1]]
  BY <1>1 DEF Daily!Init, Daily!NoEvidence, Daily!Null
<1>4. /\ DOMAIN reviewSummary = Daily!Dates
      /\ \A d \in Daily!Dates : SummaryShaped(reviewSummary[d])
  BY <1>1 DEF Daily!Init, Daily!NoSummary, SummaryShaped
<1>5. /\ reviewEvidence \in [ReviewStocks \X Daily!Dates ->
                             [status: {"none", "pending", "ready"}, board: {-1} \union Nat]]
      /\ \A x \in ReviewStocks \X Daily!Dates :
           reviewEvidence[x].board # -1 => reviewEvidence[x].status = "ready"
  BY <1>3
<1> QED
  BY <1>2, <1>4, <1>5 DEF ReviewInv

\* A date that nothing of has changed keeps its boards.
LEMMA BoardsKept ==
  ASSUME NEW d \in Daily!Dates, EvidenceOf(d), SummaryOf(d),
         \A e \in 0 .. d : /\ e \in reviewComplete' <=> e \in reviewComplete
                           /\ \A s : <<s, e>> \in reviewLimit' <=> <<s, e>> \in reviewLimit,
         \A s \in ReviewStocks : reviewEvidence'[<<s, d>>] = reviewEvidence[<<s, d>>],
         reviewSummary'[d] = reviewSummary[d]
  PROVE  EvidenceOf(d)' /\ SummaryOf(d)'
<1>1. /\ \A s : Daily!Streak(s, d)' = Daily!Streak(s, d)
      /\ Daily!LimitUps(d)' = Daily!LimitUps(d)
      /\ Daily!Promoted(d)' = Daily!Promoted(d)
      /\ HighestStreak(d)' = HighestStreak(d)
  BY StreaksStay
<1>2. Daily!LimitUps(d) \subseteq ReviewStocks
  BY DEF Daily!LimitUps
<1>3. EvidenceOf(d)'
  BY <1>1, <1>2 DEF EvidenceOf
<1>4. Daily!NoGhosts(d)' <=> Daily!NoGhosts(d)
  BY <1>1 DEF Daily!NoGhosts, Daily!Ready
<1> QED
  BY <1>1, <1>3, <1>4 DEF SummaryOf, Daily!Cardinality

\* A row of the summary that is refreshed.
LEMMA RowRefreshed ==
  ASSUME NEW d, NEW E, SummaryShaped(reviewSummary[d])
  PROVE  /\ SummaryShaped(Daily!Refreshed(E, d))
         /\ Daily!Refreshed(E, d).stored = reviewSummary[d].stored
         /\ Daily!Refreshed(E, d).highest = Daily!Highest(E, d, Daily!Ready(E, d))
         /\ Daily!Refreshed(E, d).promoted
              = Daily!Cardinality(Daily!Above(E, d, Daily!Ready(E, d)))
<1>1. PICK row : row = reviewSummary[d]
  OBVIOUS
<1>2. PICK highest : highest = Daily!Highest(E, d, Daily!Ready(E, d))
  OBVIOUS
<1>3. PICK promoted : promoted = Daily!Cardinality(Daily!Above(E, d, Daily!Ready(E, d)))
  OBVIOUS
<1>4. PICK previous : previous = Daily!Cardinality(Daily!Previous(d))
  OBVIOUS
<1>5. PICK new : new = Daily!Refreshed(E, d)
  OBVIOUS
<1>6. new = [row EXCEPT !.highest = highest, !.promoted = promoted, !.previous = previous]
  BY <1>1, <1>2, <1>3, <1>4, <1>5 DEF Daily!Refreshed
<1>7. SummaryShaped(row)
  BY <1>1
<1>8. new = [stored |-> row.stored, highest |-> highest, promoted |-> promoted, previous |-> previous]
  BY <1>6, <1>7, Zenon DEF SummaryShaped
<1>9. /\ new.stored = row.stored /\ new.highest = highest /\ new.promoted = promoted
      /\ new.previous = previous
  BY <1>8
<1>10. SummaryShaped(new)
  BY <1>8, <1>9, Zenon DEF SummaryShaped
<1> QED
  BY <1>1, <1>2, <1>3, <1>5, <1>9, <1>10, Zenon

\* A row whose metrics stay as they are.
LEMMA RowStored ==
  ASSUME NEW row, SummaryShaped(row)
  PROVE  SummaryShaped([row EXCEPT !.stored = TRUE])
<1>1. PICK new : new = [row EXCEPT !.stored = TRUE]
  OBVIOUS
<1>2. new = [stored |-> TRUE, highest |-> row.highest, promoted |-> row.promoted,
             previous |-> row.previous]
  BY <1>1, Zenon DEF SummaryShaped
<1>3. /\ new.stored = TRUE /\ new.highest = row.highest /\ new.promoted = row.promoted
      /\ new.previous = row.previous
  BY <1>2
<1>4. SummaryShaped(new)
  BY <1>2, <1>3, Zenon DEF SummaryShaped
<1> QED
  BY <1>1, <1>4

LEMMA ReviewSteps == ReviewInv /\ [ServicesNext]_servicesVars => ReviewInv'
<1> SUFFICES ASSUME ReviewInv, [ServicesNext]_servicesVars, part' = "review" PROVE ReviewInv'
  BY DEF ReviewInv
<1> DEFINE Keys == ReviewStocks \X Daily!Dates
           Rows == [status: {"none", "pending", "ready"}, board: {-1} \union Nat]
           Base == /\ reviewLimit \subseteq Keys /\ reviewComplete \subseteq Daily!Dates
                   /\ reviewJob \in [left: SUBSET Daily!Dates, usable: SUBSET reviewComplete]
                   /\ reviewFresh \subseteq reviewComplete
           Proofs == /\ reviewEvidence \in [Keys -> Rows]
                     /\ \A x \in Keys : reviewEvidence[x].board # -1 => reviewEvidence[x].status = "ready"
           Summaries == /\ DOMAIN reviewSummary = Daily!Dates
                        /\ \A d \in Daily!Dates : SummaryShaped(reviewSummary[d])
           Current == \A d \in reviewFresh : EvidenceOf(d) /\ SummaryOf(d)
<1>1. part = "review" /\ [Daily!Next]_reviewVars
  BY DEF ServicesNext, servicesVars, reviewVars
<1>2. Base /\ Proofs /\ Summaries /\ Current
  BY <1>1 DEF ReviewInv
<1>3. (Base /\ Proofs /\ Summaries /\ Current)' => ReviewInv'
  BY DEF ReviewInv
<1>6. CASE Daily!Stop \/ UNCHANGED reviewVars
  <2>1. /\ UNCHANGED <<reviewLimit, reviewComplete, reviewEvidence, reviewSummary, reviewFresh>>
        /\ reviewJob' = [left |-> {}, usable |-> {}] \/ reviewJob' = reviewJob
    BY <1>6 DEF Daily!Stop, Daily!Idle, reviewVars
  <2>2. Base' /\ Proofs' /\ Summaries'
    BY <1>2, <2>1 DEF SummaryShaped
  <2>3. ASSUME NEW d \in reviewFresh' PROVE EvidenceOf(d)' /\ SummaryOf(d)'
    <3> HIDE DEF Proofs, Summaries
    <3> QED
      BY <1>2, <2>1, <2>3, BoardsKept
  <2> QED
    BY <1>3, <2>2, <2>3
<1>7. ASSUME NEW first \in Daily!Dates, NEW last \in Daily!Dates, NEW covered,
             Daily!Score(first, last, covered)
      PROVE  ReviewInv'
  <2>1. /\ UNCHANGED <<reviewLimit, reviewComplete, reviewEvidence, reviewSummary, reviewFresh>>
        /\ reviewJob' = [left |-> first .. last,
                         usable |-> (first .. last) \intersect covered \intersect reviewComplete]
    BY <1>7 DEF Daily!Score
  <2>2. first .. last \subseteq Daily!Dates
    BY DatesAssumption DEF Daily!Dates
  <2>3. Base' /\ Proofs' /\ Summaries'
    BY <1>2, <2>1, <2>2 DEF SummaryShaped
  <2>4. ASSUME NEW d \in reviewFresh' PROVE EvidenceOf(d)' /\ SummaryOf(d)'
    <3> HIDE DEF Proofs, Summaries
    <3> QED
      BY <1>2, <2>1, <2>4, BoardsKept
  <2> QED
    BY <1>3, <2>3, <2>4
<1>8. ASSUME NEW e \in Daily!Dates, NEW S \in SUBSET ReviewStocks, NEW rebuild \in BOOLEAN,
             Daily!StoreEvents(e, S, rebuild)
      PROVE  ReviewInv'
  <2>1. /\ UNCHANGED <<reviewEvidence, reviewSummary, reviewJob>>
        /\ reviewLimit' = {x \in reviewLimit : ~rebuild \/ x[2] # e} \union (S \X {e})
        /\ reviewComplete' = reviewComplete \union {e}
        /\ reviewFresh' = reviewFresh \ e .. ReviewDates
    BY <1>8 DEF Daily!StoreEvents
  <2>2. Base'
    BY <1>2, <2>1
  <2>3. Proofs' /\ Summaries'
    BY <1>2, <2>1 DEF SummaryShaped
  <2>4. ASSUME NEW d \in reviewFresh' PROVE EvidenceOf(d)' /\ SummaryOf(d)'
    <3>1. d \in reviewFresh /\ d \in Daily!Dates /\ d < e
      BY <1>2, <2>1, <2>4, DatesAssumption DEF Daily!Dates
    <3>2. ASSUME NEW n \in 0 .. d
          PROVE  /\ n \in reviewComplete' <=> n \in reviewComplete
                 /\ \A s : <<s, n>> \in reviewLimit' <=> <<s, n>> \in reviewLimit
      <4>1. n # e
        BY <3>1, DatesAssumption DEF Daily!Dates
      <4> QED
        BY <2>1, <4>1
    <3> HIDE DEF Base, Proofs, Summaries
    <3> QED
      BY <1>2, <2>1, <3>1, <3>2, BoardsKept
  <2> QED
    BY <1>3, <2>2, <2>3, <2>4
<1>9. ASSUME NEW e \in Daily!Dates, Daily!RebuildSummary(e)
      PROVE  ReviewInv'
  <2> DEFINE counted == [stored |-> TRUE, highest |-> Daily!Highest(reviewEvidence, e, ReviewStocks),
                         promoted |-> Daily!Cardinality(Daily!Above(reviewEvidence, e, Daily!Previous(e))),
                         previous |-> Daily!Cardinality(Daily!Previous(e))]
             none == [Daily!NoSummary EXCEPT !.stored = TRUE]
  <2>1. UNCHANGED <<reviewLimit, reviewComplete, reviewEvidence, reviewJob, reviewFresh>>
    BY <1>9 DEF Daily!RebuildSummary
  <2>2. reviewSummary' = [reviewSummary EXCEPT ![e] = IF e \notin reviewComplete THEN none ELSE counted]
    BY <1>9 DEF Daily!RebuildSummary
  <2>3. SummaryShaped(none) /\ SummaryShaped(counted)
    <3>1. PICK empty : empty = Daily!NoSummary
      OBVIOUS
    <3>2. SummaryShaped(empty)
      BY <3>1 DEF SummaryShaped, Daily!NoSummary
    <3>3. SummaryShaped(none)
      BY <3>1, <3>2, RowStored
    <3>4. SummaryShaped(counted)
      BY DEF SummaryShaped
    <3> QED
      BY <3>3, <3>4
  <2>4. Base' /\ Proofs'
    BY <1>2, <2>1
  <2>5. Summaries'
    <3> HIDE DEF none, counted
    <3>1. DOMAIN reviewSummary' = Daily!Dates
      BY <1>2, <2>2
    <3>2. ASSUME NEW d \in Daily!Dates PROVE SummaryShaped(reviewSummary'[d])
      <4>1. reviewSummary'[d] = IF d # e THEN reviewSummary[d]
                                ELSE IF e \notin reviewComplete THEN none ELSE counted
        BY <1>2, <2>2
      <4> QED
        BY <1>2, <2>3, <4>1
    <3>3. \A d \in Daily!Dates : SummaryShaped(reviewSummary[d])' <=> SummaryShaped(reviewSummary'[d])
      BY DEF SummaryShaped
    <3> QED
      BY <3>1, <3>2, <3>3
  <2>6. ASSUME NEW d \in reviewFresh' PROVE EvidenceOf(d)' /\ SummaryOf(d)'
    <3>1. d \in reviewFresh /\ d \in Daily!Dates /\ d \in reviewComplete
      BY <1>2, <2>1, <2>6
    <3>2. CASE d # e
      <4>1. reviewSummary'[d] = reviewSummary[d]
        <5> HIDE DEF none, counted
        <5> QED
          BY <1>2, <2>2, <3>1, <3>2
      <4> HIDE DEF Base, Proofs, Summaries
      <4> QED
        BY <1>2, <2>1, <3>1, <4>1, BoardsKept
    <3>3. CASE d = e
      <4>1. /\ \A s : Daily!Streak(s, d)' = Daily!Streak(s, d)
            /\ Daily!LimitUps(d)' = Daily!LimitUps(d)
            /\ Daily!Promoted(d)' = Daily!Promoted(d)
            /\ HighestStreak(d)' = HighestStreak(d)
        BY <2>1, <3>1, StreaksStay
      <4>2. EvidenceOf(d)' /\ (Daily!NoGhosts(d)' <=> Daily!NoGhosts(d))
        BY <1>2, <2>1, <3>1, <4>1 DEF EvidenceOf, Daily!NoGhosts, Daily!Ready
      <4>3. reviewSummary'[d] = counted
        <5> HIDE DEF none, counted
        <5> QED
          BY <1>2, <2>2, <3>1, <3>3
      <4>4. ASSUME Daily!NoGhosts(d), Daily!LimitUps(d) # {}
            PROVE  /\ Daily!Highest(reviewEvidence, d, ReviewStocks) = HighestStreak(d)
                   /\ Daily!Above(reviewEvidence, d, Daily!Previous(d)) = Daily!Promoted(d)
        <5>1. /\ Daily!LimitUps(d) \subseteq ReviewStocks /\ Daily!Previous(d) \subseteq ReviewStocks
              /\ Daily!Promoted(d) \subseteq Daily!Previous(d)
          BY DEF Daily!LimitUps, Daily!Previous, Daily!Promoted
        <5>2. \A s \in Daily!LimitUps(d) :
                reviewEvidence[<<s, d>>] = [status |-> "ready", board |-> Daily!Streak(s, d)]
          BY <1>2, <3>1 DEF EvidenceOf
        <5>3. \A s \in ReviewStocks :
                /\ reviewEvidence[<<s, d>>].board \in {-1} \union Nat
                /\ reviewEvidence[<<s, d>>].board # -1 => reviewEvidence[<<s, d>>].status = "ready"
                /\ reviewEvidence[<<s, d>>].status = "ready" => s \in Daily!LimitUps(d)
          <6> SUFFICES ASSUME NEW s \in ReviewStocks
                       PROVE  /\ reviewEvidence[<<s, d>>].board \in {-1} \union Nat
                              /\ reviewEvidence[<<s, d>>].board # -1
                                   => reviewEvidence[<<s, d>>].status = "ready"
                              /\ reviewEvidence[<<s, d>>].status = "ready" => s \in Daily!LimitUps(d)
            OBVIOUS
          <6>1. <<s, d>> \in Keys
            BY <3>1
          <6>2. reviewEvidence[<<s, d>>] \in Rows
            BY <1>2, <6>1
          <6> QED
            BY <1>2, <4>4, <6>1, <6>2 DEF Daily!NoGhosts, Daily!Ready
        <5> HIDE DEF Proofs, Summaries, Current
        <5>4. Daily!Highest(reviewEvidence, d, ReviewStocks) = HighestStreak(d)
          BY <1>2, <3>1, <4>4, <5>1, <5>2, <5>3, CountedBoards
        <5>5. Daily!Above(reviewEvidence, d, Daily!Previous(d)) = Daily!Promoted(d)
          BY <1>2, <3>1, <4>4, <5>1, <5>2, <5>3, CountedBoards
        <5> QED
          BY <5>4, <5>5
      <4>5. SummaryOf(d)'
        <5>1. /\ counted.highest = Daily!Highest(reviewEvidence, d, ReviewStocks)
              /\ counted.promoted
                   = Daily!Cardinality(Daily!Above(reviewEvidence, d, Daily!Previous(d)))
          BY <3>3
        <5> HIDE DEF counted
        <5> QED
          BY <4>1, <4>2, <4>3, <4>4, <5>1 DEF SummaryOf, Daily!Cardinality
      <4> QED
        BY <4>2, <4>5
    <3> QED
      BY <3>2, <3>3
  <2> QED
    BY <1>3, <2>4, <2>5, <2>6
<1>10. ASSUME NEW batch, Daily!Review(batch)
       PROVE  ReviewInv'
  <2> DEFINE usable == reviewJob.usable
             reviewed(x) == x[2] \in batch /\ x \in reviewLimit
             of(x) == Daily!Reviewed(x[1], x[2], x[2] \in usable)
             refreshes(d) == /\ d \in batch /\ reviewSummary[d].stored
                             /\ \E e \in batch : Daily!LimitUps(e) # {}
  <2>1. UNCHANGED <<reviewLimit, reviewComplete>>
    BY <1>10 DEF Daily!Review
  <2>2. /\ batch \subseteq reviewJob.left
        /\ reviewJob' = [reviewJob EXCEPT !.left = reviewJob.left \ batch]
        /\ reviewFresh' = (reviewFresh \ batch) \union (batch \intersect usable)
    BY <1>10 DEF Daily!Review
  <2>3. reviewEvidence' = [x \in Keys |-> IF reviewed(x) THEN of(x) ELSE reviewEvidence[x]]
    BY <1>10 DEF Daily!Review
  <2>4. reviewSummary' = [d \in Daily!Dates |->
          IF refreshes(d) THEN Daily!Refreshed(reviewEvidence', d) ELSE reviewSummary[d]]
    BY <1>10 DEF Daily!Review
  <2>5. usable \subseteq reviewComplete /\ batch \subseteq Daily!Dates
    BY <1>2, <2>2
  <2>6. Base'
    BY <1>2, <2>1, <2>2, <2>5
  <2>7. ASSUME NEW x \in Keys, reviewed(x)
        PROVE  of(x) \in Rows /\ (of(x).board # -1 => of(x).status = "ready")
    <3>1. PICK n : n = Daily!Streak(x[1], x[2])
      OBVIOUS
    <3>2. n \in Nat
      BY <2>7, <3>1, StreakCounts
    <3>3. of(x) = [status |-> IF x[2] \in usable THEN "ready" ELSE "pending",
                   board |-> IF x[2] \in usable /\ n > 0 THEN n ELSE -1]
      BY <3>1 DEF Daily!Reviewed, Daily!Null
    <3> HIDE DEF of, usable
    <3> QED
      BY <3>2, <3>3
  <2>8. Proofs'
    <3> HIDE DEF of, reviewed
    <3> QED
      BY <1>2, <2>3, <2>7
  <2>9. Summaries'
    <3> HIDE DEF refreshes
    <3>1. DOMAIN reviewSummary' = Daily!Dates
      BY <2>4
    <3>2. ASSUME NEW d \in Daily!Dates PROVE SummaryShaped(reviewSummary'[d])
      <4>1. \/ reviewSummary'[d] = Daily!Refreshed(reviewEvidence', d)
            \/ reviewSummary'[d] = reviewSummary[d]
        BY <2>4
      <4>2. SummaryShaped(reviewSummary[d])
        BY <1>2
      <4>3. SummaryShaped(Daily!Refreshed(reviewEvidence', d))
        BY <4>2, RowRefreshed
      <4> QED
        BY <4>1, <4>2, <4>3
    <3>3. \A d \in Daily!Dates : SummaryShaped(reviewSummary[d])' <=> SummaryShaped(reviewSummary'[d])
      BY DEF SummaryShaped
    <3> QED
      BY <3>1, <3>2, <3>3
  <2>10. ASSUME NEW d \in reviewFresh', d \notin batch
         PROVE  EvidenceOf(d)' /\ SummaryOf(d)'
    <3>1. d \in reviewFresh /\ d \in Daily!Dates
      BY <1>2, <2>2, <2>10
    <3>2. reviewSummary'[d] = reviewSummary[d]
      BY <2>4, <2>10, <3>1
    <3>3. ASSUME NEW s \in ReviewStocks
          PROVE  reviewEvidence'[<<s, d>>] = reviewEvidence[<<s, d>>]
      <4>1. <<s, d>> \in Keys /\ ~reviewed(<<s, d>>)
        BY <2>10, <3>1
      <4> HIDE DEF of, reviewed
      <4> QED
        BY <2>3, <4>1
    <3> HIDE DEF Base, Proofs, Summaries
    <3> QED
      BY <1>2, <2>1, <3>1, <3>2, <3>3, BoardsKept
  <2>11. ASSUME NEW d \in reviewFresh', d \in batch
         PROVE  EvidenceOf(d)' /\ SummaryOf(d)'
    <3>1. /\ d \in usable /\ d \in Daily!Dates /\ d \in reviewComplete
          /\ reviewComplete \subseteq Daily!Dates
      BY <1>2, <2>2, <2>5, <2>11
    <3>2. /\ \A s : Daily!Streak(s, d)' = Daily!Streak(s, d)
          /\ Daily!LimitUps(d)' = Daily!LimitUps(d)
          /\ Daily!Promoted(d)' = Daily!Promoted(d)
          /\ HighestStreak(d)' = HighestStreak(d)
      BY <2>1, <3>1, StreaksStay
    <3>3. ASSUME NEW s \in Daily!LimitUps(d)
          PROVE  reviewEvidence'[<<s, d>>] = [status |-> "ready", board |-> Daily!Streak(s, d)]
      <4>1. <<s, d>> \in Keys /\ <<s, d>> \in reviewLimit
        BY <3>1, <3>3 DEF Daily!LimitUps
      <4>2. reviewEvidence'[<<s, d>>] = Daily!Reviewed(s, d, d \in usable)
        <5>1. reviewed(<<s, d>>) /\ of(<<s, d>>) = Daily!Reviewed(s, d, d \in usable)
          BY <2>11, <4>1
        <5> HIDE DEF of, reviewed
        <5> QED
          BY <2>3, <4>1, <5>1
      <4>3. PICK n : n = Daily!Streak(s, d)
        OBVIOUS
      <4>4. n \in Nat /\ n >= 1
        BY <3>1, <3>3, <4>3, StreakCounts
      <4>5. Daily!Reviewed(s, d, d \in usable) = [status |-> "ready", board |-> n]
        BY <3>1, <4>3, <4>4 DEF Daily!Reviewed
      <4> QED
        BY <4>2, <4>3, <4>5
    <3>4. EvidenceOf(d)'
      BY <3>2, <3>3 DEF EvidenceOf
    <3>5. ASSUME Daily!NoGhosts(d)', reviewSummary'[d].stored, Daily!LimitUps(d) # {}
          PROVE  /\ reviewSummary'[d].highest = HighestStreak(d)
                 /\ reviewSummary'[d].promoted = Daily!Cardinality(Daily!Promoted(d))
      <4> DEFINE ready == Daily!Ready(reviewEvidence', d)
      <4>1. SummaryShaped(reviewSummary[d])
        BY <1>2, <3>1
      <4>2. reviewSummary[d].stored
        BY <2>4, <3>1, <3>5, <4>1, RowRefreshed
      <4>3. reviewSummary'[d] = Daily!Refreshed(reviewEvidence', d)
        <5>1. refreshes(d)
          BY <2>11, <3>5, <4>2
        <5> HIDE DEF refreshes
        <5> QED
          BY <2>4, <3>1, <5>1
      <4>4. Daily!LimitUps(d) \subseteq ReviewStocks /\ Daily!Promoted(d) \subseteq Daily!LimitUps(d)
        BY DEF Daily!LimitUps, Daily!Promoted
      <4>5. Daily!LimitUps(d) \subseteq ready /\ ready \subseteq ReviewStocks
        <5>1. ASSUME NEW s \in Daily!LimitUps(d)
              PROVE  reviewEvidence'[<<s, d>>].status = "ready" /\ s \in ReviewStocks
          <6>1. PICK n : n = Daily!Streak(s, d)
            OBVIOUS
          <6>2. reviewEvidence'[<<s, d>>] = [status |-> "ready", board |-> n]
            BY <3>3, <6>1
          <6> QED
            BY <4>4, <6>2
        <5> QED
          BY <5>1 DEF Daily!Ready
      <4>6. \A s \in ReviewStocks : reviewEvidence'[<<s, d>>].status = "ready" => s \in Daily!LimitUps(d)
        BY <3>2, <3>5 DEF Daily!NoGhosts, Daily!Ready
      <4>7. ASSUME NEW s \in ReviewStocks
            PROVE  /\ reviewEvidence'[<<s, d>>].board \in {-1} \union Nat
                   /\ reviewEvidence'[<<s, d>>].board # -1 => reviewEvidence'[<<s, d>>].status = "ready"
        <5>1. <<s, d>> \in Keys
          BY <3>1
        <5>2. reviewEvidence'[<<s, d>>] \in Rows
          BY <2>8, <5>1
        <5> QED
          BY <2>8, <5>1, <5>2
      <4> HIDE DEF ready, Base, Proofs, Summaries, Current, refreshes, usable
      <4>8. /\ Daily!Highest(reviewEvidence', d, ready) = HighestStreak(d)
            /\ Daily!Above(reviewEvidence', d, ready) = Daily!Promoted(d)
        BY <3>1, <3>3, <3>5, <4>4, <4>5, <4>6, <4>7, CountedBoards
      <4> QED
        BY <4>1, <4>3, <4>8, RowRefreshed DEF ready
    <3>6. SummaryOf(d)'
      BY <3>2, <3>5 DEF SummaryOf, Daily!Cardinality
    <3> QED
      BY <3>4, <3>6
  <2> HIDE DEF Base, Proofs, Summaries
  <2> QED
    BY <1>3, <2>6, <2>8, <2>9, <2>10, <2>11
<1>11. \/ UNCHANGED reviewVars \/ Daily!Stop
       \/ \E first \in Daily!Dates, last \in Daily!Dates, covered \in {{}, Daily!Dates} :
            Daily!Score(first, last, covered)
       \/ \E e \in Daily!Dates, S \in SUBSET ReviewStocks, rebuild \in BOOLEAN :
            Daily!StoreEvents(e, S, rebuild)
       \/ \E e \in Daily!Dates : Daily!RebuildSummary(e)
       \/ \E batch \in SUBSET Daily!Dates : Daily!Review(batch)
  BY <1>1 DEF Daily!Next
<1> HIDE DEF Base, Proofs, Summaries, Current
<1> QED
  BY <1>6, <1>7, <1>8, <1>9, <1>10, <1>11

LEMMA ReviewsSound == ReviewInv /\ part = "review" => Daily!BoardsSound
<1> SUFFICES ASSUME ReviewInv, part = "review", NEW d \in reviewFresh
             PROVE  /\ \A s \in Daily!LimitUps(d) :
                         /\ reviewEvidence[<<s, d>>].status = "ready"
                         /\ reviewEvidence[<<s, d>>].board >= 2 <=> s \in Daily!Promoted(d)
                    /\ Daily!NoGhosts(d) /\ reviewSummary[d].stored =>
                         /\ Daily!LimitUps(d) # {} => reviewSummary[d].highest = HighestStreak(d)
                         /\ Daily!LimitUps(d) # {} =>
                              reviewSummary[d].promoted = Daily!Cardinality(Daily!Promoted(d))
  BY DEF Daily!BoardsSound, HighestStreak
<1>1. /\ d \in reviewComplete /\ d \in Daily!Dates /\ reviewComplete \subseteq Daily!Dates
      /\ EvidenceOf(d) /\ SummaryOf(d)
  BY DEF ReviewInv
<1>2. ASSUME NEW s \in Daily!LimitUps(d)
      PROVE  /\ reviewEvidence[<<s, d>>].status = "ready"
             /\ reviewEvidence[<<s, d>>].board >= 2 <=> s \in Daily!Promoted(d)
  <2>1. reviewEvidence[<<s, d>>] = [status |-> "ready", board |-> Daily!Streak(s, d)]
    BY <1>1 DEF EvidenceOf
  <2>2. /\ reviewEvidence[<<s, d>>].status = "ready"
        /\ reviewEvidence[<<s, d>>].board = Daily!Streak(s, d)
    BY <2>1
  <2> QED
    BY <1>1, <2>2, StreakCounts
<1> QED
  BY <1>1, <1>2 DEF SummaryOf

-----------------------------------------------------------------------------
(* The rounds of the dashboard                                             *)

Kinds == {"breadth", "rank_up", "rank_down", "leader"}
RoundEvent == [round : Nat, kind : Kinds, concept : RoundConcepts \union {0}]
Breadths == {"broadly_up", "broadly_down", "mixed"}
History == [day : Nat, points : Seq([round : Nat, breadth : Breadths]), events : Seq(RoundEvent)]

\* No event of a history is of a round after the n-th.
Past(h, n) == \A i \in 1 .. Len(h.events) : h.events[i].round <= n

\* A process that has had an accepted round today has today's history in memory, and compares
\* with the quotes of that round.
RoundInv ==
  part = "board" =>
    /\ roundDay \in Nat \ {0} /\ roundCount \in Nat /\ quotesDay \in 0 .. roundDay
    /\ roundHistory \in History /\ roundKeys \in History
    /\ Past(roundHistory, roundCount) /\ Past(roundKeys, roundCount)
    /\ quotesDay = roundDay =>
         /\ roundHistory.day = roundDay /\ roundHistory.points # <<>>
         /\ roundQuotes \in Dashboard!Quotes
         /\ conceptRanks = Dashboard!RanksOf(roundQuotes)
         /\ conceptLeaders = Dashboard!LeadersOf(roundQuotes)
         /\ roundBreadth = Dashboard!BreadthOf(roundQuotes)

Place(S, less, a) == 1 + Cardinality({b \in S : <<b, a>> \in less})

\* In a finite set with a strict total order, one plus the number of smaller elements is a
\* place of its own for each element, and every place is taken.
LEMMA PlacesFill ==
  ASSUME NEW S, IsFiniteSet(S), NEW less \in SUBSET (S \X S),
         \A a \in S : <<a, a>> \notin less,
         \A a, b \in S : a = b \/ <<a, b>> \in less \/ <<b, a>> \in less,
         \A a, b, c \in S : <<a, b>> \in less /\ <<b, c>> \in less => <<a, c>> \in less
  PROVE  /\ \A a \in S : Place(S, less, a) \in 1 .. Cardinality(S)
         /\ \A a, b \in S : Place(S, less, a) = Place(S, less, b) => a = b
         /\ \A n \in 1 .. Cardinality(S) : \E a \in S : Place(S, less, a) = n
<1> DEFINE below(a) == {b \in S : <<b, a>> \in less}
           place == [a \in S |-> Place(S, less, a)]
<1>1. Cardinality(S) \in Nat
  BY FS_CardinalityType
<1>2. ASSUME NEW a \in S
      PROVE  /\ IsFiniteSet(below(a)) /\ Cardinality(below(a)) \in Nat
             /\ Cardinality(below(a)) < Cardinality(S)
  <2>1. below(a) \in SUBSET S /\ below(a) # S
    OBVIOUS
  <2>2. /\ IsFiniteSet(below(a)) /\ Cardinality(below(a)) <= Cardinality(S)
        /\ Cardinality(S) # Cardinality(below(a))
    <3> HIDE DEF below
    <3> QED
      BY <2>1, FS_Subset
  <2>3. Cardinality(below(a)) \in Nat
    <3> HIDE DEF below
    <3> QED
      BY <2>2, FS_CardinalityType
  <2> HIDE DEF below
  <2> QED
    BY <1>1, <2>2, <2>3
<1>3. \A a \in S : place[a] = 1 + Cardinality(below(a))
  BY DEF Place
<1> HIDE DEF place
<1>4. ASSUME NEW a \in S PROVE place[a] \in 1 .. Cardinality(S)
  <2> HIDE DEF below
  <2> QED
    BY <1>1, <1>2, <1>3
<1>5. ASSUME NEW a \in S, NEW b \in S, <<a, b>> \in less
      PROVE  place[a] < place[b]
  <2>1. below(a) \in SUBSET (below(b) \ {a}) /\ a \in below(b)
    BY <1>5
  <2>2. /\ IsFiniteSet(below(b) \ {a})
        /\ Cardinality(below(b) \ {a}) = Cardinality(below(b)) - 1
    <3> HIDE DEF below
    <3> QED
      BY <1>2, <2>1, FS_RemoveElement
  <2>3. Cardinality(below(a)) <= Cardinality(below(b) \ {a})
    <3> HIDE DEF below
    <3> QED
      BY <2>1, <2>2, FS_Subset
  <2> HIDE DEF below
  <2> QED
    BY <1>2, <1>3, <2>2, <2>3
<1>6. ASSUME NEW a \in S, NEW b \in S, place[a] = place[b]
      PROVE  a = b
  <2> HIDE DEF below
  <2>1. place[a] \in Int
    BY <1>4
  <2>2. ~(place[a] < place[b]) /\ ~(place[b] < place[a])
    BY <1>6, <2>1
  <2>3. <<a, b>> \notin less /\ <<b, a>> \notin less
    BY <1>5, <2>2
  <2> QED
    BY <2>3
<1>7. place \in Injection(S, 1 .. Cardinality(S))
  <2>1. place \in [S -> 1 .. Cardinality(S)]
    BY <1>4 DEF place
  <2> HIDE DEF below
  <2> QED
    BY <1>6, <2>1 DEF Injection, IsInjective
<1>8. place \in Surjection(S, 1 .. Cardinality(S))
  <2>1. IsFiniteSet(1 .. Cardinality(S)) /\ Cardinality(1 .. Cardinality(S)) = Cardinality(S)
    BY <1>1, FS_Interval
  <2> QED
    BY <1>7, <2>1, FS_Injection
<1>9. \A n \in 1 .. Cardinality(S) : \E a \in S : place[a] = n
  BY <1>8 DEF Surjection
<1> QED
  BY <1>4, <1>6, <1>9 DEF place

LEMMA QuotesAreNumbers ==
  ASSUME NEW q \in Dashboard!Quotes
  PROVE  /\ \A k \in RoundConcepts : q.heat[k] \in Int /\ k \in Int
         /\ \A s \in RoundStocks : q.change[s] \in Int /\ s \in Nat \ {0}
<1>1. q.change \in [RoundStocks -> RoundChanges] /\ q.heat \in [RoundConcepts -> RoundHeats]
  BY DEF Dashboard!Quotes
<1>2. /\ RoundHeats \subseteq Int /\ RoundChanges \subseteq Int
      /\ RoundConcepts \subseteq Nat \ {0} /\ RoundStocks \subseteq Nat \ {0}
  BY RoundAssumption
<1>3. ASSUME NEW k \in RoundConcepts PROVE q.heat[k] \in Int /\ k \in Int
  <2>1. q.heat[k] \in RoundHeats
    BY <1>1
  <2>2. k \in Nat
    BY <1>2
  <2>3. q.heat[k] \in Int
    BY <1>2, <2>1
  <2> QED
    BY <2>2, <2>3
<1>4. ASSUME NEW s \in RoundStocks PROVE q.change[s] \in Int /\ s \in Nat \ {0}
  <2>1. q.change[s] \in RoundChanges
    BY <1>1
  <2> QED
    BY <1>2, <2>1
<1> QED
  BY <1>3, <1>4

\* The places of the concepts are 1 up to their number, each taken by one of them.
LEMMA RanksApart ==
  ASSUME NEW q \in Dashboard!Quotes
  PROVE  /\ \A k \in RoundConcepts : Dashboard!RankOf(q, k) \in 1 .. Cardinality(RoundConcepts)
         /\ \A j, k \in RoundConcepts : Dashboard!RankOf(q, j) = Dashboard!RankOf(q, k) => j = k
         /\ \A r \in 1 .. Cardinality(RoundConcepts) :
              /\ Dashboard!Ranked(q, r) \in RoundConcepts
              /\ Dashboard!RankOf(q, Dashboard!Ranked(q, r)) = r
<1> DEFINE S == RoundConcepts
           hotter == {x \in S \X S : q.heat[x[1]] > q.heat[x[2]]
                                     \/ (q.heat[x[1]] = q.heat[x[2]] /\ x[1] < x[2])}
<1>1. \A k \in S : q.heat[k] \in Int /\ k \in Int
  BY QuotesAreNumbers
<1>2. \A j, k \in S : <<j, k>> \in hotter <=>
         q.heat[j] > q.heat[k] \/ (q.heat[j] = q.heat[k] /\ j < k)
  OBVIOUS
<1>3. \A k \in S : Place(S, hotter, k) = Dashboard!RankOf(q, k)
  <2>1. ASSUME NEW k \in S
        PROVE  {j \in S : <<j, k>> \in hotter}
                 = {j \in S : q.heat[j] > q.heat[k] \/ (q.heat[j] = q.heat[k] /\ j < k)}
    OBVIOUS
  <2> QED
    BY <2>1 DEF Place, Dashboard!RankOf, Dashboard!Cardinality, Cardinality
<1>4. hotter \in SUBSET (S \X S)
  OBVIOUS
<1>5. /\ \A a \in S : <<a, a>> \notin hotter
      /\ \A a, b \in S : a = b \/ <<a, b>> \in hotter \/ <<b, a>> \in hotter
      /\ \A a, b, c \in S : <<a, b>> \in hotter /\ <<b, c>> \in hotter => <<a, c>> \in hotter
  <2> HIDE DEF hotter, S
  <2> QED
    BY <1>1, <1>2
<1>6. IsFiniteSet(S)
  BY RoundAssumption
<1> HIDE DEF hotter, S
<1>7. /\ \A a \in S : Place(S, hotter, a) \in 1 .. Cardinality(S)
      /\ \A a, b \in S : Place(S, hotter, a) = Place(S, hotter, b) => a = b
      /\ \A n \in 1 .. Cardinality(S) : \E a \in S : Place(S, hotter, a) = n
  BY <1>4, <1>5, <1>6, PlacesFill
<1>8. ASSUME NEW r \in 1 .. Cardinality(S)
      PROVE  /\ Dashboard!Ranked(q, r) \in S
             /\ Dashboard!RankOf(q, Dashboard!Ranked(q, r)) = r
  <2>1. \E k \in S : Dashboard!RankOf(q, k) = r
    BY <1>3, <1>7
  <2> QED
    BY <2>1 DEF Dashboard!Ranked, S
<1> QED
  BY <1>3, <1>7, <1>8 DEF S

\* A concept's leader is one of its stocks.
LEMMA LeaderIsMember ==
  ASSUME NEW q \in Dashboard!Quotes, NEW k \in RoundConcepts
  PROVE  Dashboard!LeaderOf(q, k) \in ConceptStocks[k] /\ Dashboard!LeaderOf(q, k) # 0
<1> DEFINE S == ConceptStocks[k]
           leads == {x \in S \X S : q.change[x[1]] > q.change[x[2]]
                                    \/ (q.change[x[1]] = q.change[x[2]] /\ x[1] < x[2])}
<1>1. S \subseteq RoundStocks /\ S # {} /\ IsFiniteSet(S)
  BY RoundAssumption, FS_Subset
<1>2. \A s \in S : q.change[s] \in Int /\ s \in Nat \ {0}
  BY <1>1, QuotesAreNumbers
<1>3. \A s, t \in S : <<s, t>> \in leads <=>
         q.change[s] > q.change[t] \/ (q.change[s] = q.change[t] /\ s < t)
  OBVIOUS
<1>4. leads \in SUBSET (S \X S)
  OBVIOUS
<1>5. /\ \A a \in S : <<a, a>> \notin leads
      /\ \A a, b \in S : a = b \/ <<a, b>> \in leads \/ <<b, a>> \in leads
      /\ \A a, b, c \in S : <<a, b>> \in leads /\ <<b, c>> \in leads => <<a, c>> \in leads
  <2> HIDE DEF leads, S
  <2> QED
    BY <1>2, <1>3
<1>6. \A n \in 1 .. Cardinality(S) : \E a \in S : Place(S, leads, a) = n
  <2> HIDE DEF leads, S
  <2> QED
    BY <1>1, <1>4, <1>5, PlacesFill
<1>7. Cardinality(S) \in Nat \ {0}
  <2> HIDE DEF S
  <2> QED
    BY <1>1, FS_CardinalityType, FS_EmptySet
<1>8. PICK s \in S : Place(S, leads, s) = 1
  <2> HIDE DEF S, leads
  <2> QED
    BY <1>6, <1>7
<1>9. \A t \in S : <<t, s>> \notin leads
  <2> DEFINE ahead == {t \in S : <<t, s>> \in leads}
  <2>1. ahead \in SUBSET S /\ 1 + Cardinality(ahead) = 1
    BY <1>8 DEF Place
  <2>2. ahead = {}
    <3> HIDE DEF ahead, S
    <3>1. IsFiniteSet(ahead) /\ Cardinality(ahead) \in Nat
      BY <1>1, <2>1, FS_Subset, FS_CardinalityType
    <3> QED
      BY <2>1, <3>1, FS_EmptySet
  <2> QED
    BY <2>2
<1>10. \A t \in S : q.change[s] > q.change[t] \/ (q.change[s] = q.change[t] /\ s <= t)
  <2> HIDE DEF leads, S
  <2> TAKE t \in S
  <2>1. ~(q.change[t] > q.change[s] \/ (q.change[t] = q.change[s] /\ t < s))
    BY <1>3, <1>9
  <2>2. q.change[s] \in Int /\ q.change[t] \in Int /\ s \in Int /\ t \in Int
    BY <1>2
  <2> QED
    BY <2>1, <2>2
<1>11. Dashboard!LeaderOf(q, k) \in S
  <2> QED
    BY <1>10 DEF Dashboard!LeaderOf
<1> HIDE DEF S
<1> QED
  BY <1>2, <1>11 DEF S

\* What is in a sequence, and that nothing is in it twice.
Items(s) == {s[i] : i \in 1 .. Len(s)}
Once(s) == \A i, j \in 1 .. Len(s) : s[i] = s[j] => i = j

LEMMA OneItem ==
  ASSUME NEW X, NEW e \in X
  PROVE  /\ <<e>> \in Seq(X) /\ Items(<<e>>) = {e} /\ Once(<<e>>)
         /\ <<>> \in Seq(X) /\ Items(<<>>) = {} /\ Once(<<>>)
BY DEF Items, Once

LEMMA ItemsJoin ==
  ASSUME NEW X, NEW s \in Seq(X), NEW t \in Seq(X), Once(s), Once(t), Items(s) \cap Items(t) = {}
  PROVE  s \o t \in Seq(X) /\ Items(s \o t) = Items(s) \union Items(t) /\ Once(s \o t)
<1> DEFINE st == s \o t
<1>1. /\ st \in Seq(X) /\ Len(st) = Len(s) + Len(t)
      /\ \A i \in 1 .. Len(st) : st[i] = IF i <= Len(s) THEN s[i] ELSE t[i - Len(s)]
      /\ Len(s) \in Nat /\ Len(t) \in Nat
  OBVIOUS
<1> HIDE DEF st
<1>2. ASSUME NEW i \in 1 .. Len(st)
      PROVE  /\ i <= Len(s) => i \in 1 .. Len(s) /\ st[i] = s[i]
             /\ ~(i <= Len(s)) => i - Len(s) \in 1 .. Len(t) /\ st[i] = t[i - Len(s)]
  BY <1>1
<1>3. ASSUME NEW i \in 1 .. Len(s) PROVE i \in 1 .. Len(st) /\ st[i] = s[i]
  <2>1. i \in 1 .. Len(st) /\ i <= Len(s)
    BY <1>1
  <2> QED
    BY <1>1, <2>1
<1>4. ASSUME NEW i \in 1 .. Len(t) PROVE i + Len(s) \in 1 .. Len(st) /\ st[i + Len(s)] = t[i]
  <2>1. i + Len(s) \in 1 .. Len(st) /\ ~(i + Len(s) <= Len(s)) /\ (i + Len(s)) - Len(s) = i
    BY <1>1
  <2>2. st[i + Len(s)] = IF i + Len(s) <= Len(s) THEN s[i + Len(s)] ELSE t[(i + Len(s)) - Len(s)]
    BY <1>1, <2>1
  <2> QED
    BY <2>1, <2>2
<1>5. Items(st) = Items(s) \union Items(t)
  <2>1. ASSUME NEW x \in Items(st) PROVE x \in Items(s) \union Items(t)
    <3>1. PICK i \in 1 .. Len(st) : x = st[i]
      BY <2>1 DEF Items
    <3> QED
      BY <1>2, <3>1 DEF Items
  <2>2. ASSUME NEW x \in Items(s) PROVE x \in Items(st)
    BY <1>3, <2>2 DEF Items
  <2>3. ASSUME NEW x \in Items(t) PROVE x \in Items(st)
    <3>1. PICK i \in 1 .. Len(t) : x = t[i]
      BY <2>3 DEF Items
    <3> QED
      BY <1>4, <3>1 DEF Items
  <2> QED
    BY <2>1, <2>2, <2>3
<1>6. ASSUME NEW i \in 1 .. Len(st), NEW j \in 1 .. Len(st), st[i] = st[j]
      PROVE  i = j
  <2>1. CASE i <= Len(s) /\ j <= Len(s)
    BY <1>2, <1>6, <2>1 DEF Once
  <2>2. CASE ~(i <= Len(s)) /\ ~(j <= Len(s))
    <3>1. i - Len(s) = j - Len(s)
      BY <1>2, <1>6, <2>2 DEF Once
    <3> QED
      BY <1>1, <3>1
  <2>3. CASE i <= Len(s) /\ ~(j <= Len(s))
    <3>1. st[i] \in Items(s) /\ st[j] \in Items(t)
      BY <1>2, <2>3 DEF Items
    <3> QED
      BY <1>6, <3>1
  <2>4. CASE ~(i <= Len(s)) /\ j <= Len(s)
    <3>1. st[j] \in Items(s) /\ st[i] \in Items(t)
      BY <1>2, <2>4 DEF Items
    <3> QED
      BY <1>6, <3>1
  <2> QED
    BY <2>1, <2>2, <2>3, <2>4
<1>7. Once(st)
  BY <1>6 DEF Once
<1> QED
  BY <1>1, <1>5, <1>7 DEF st

\* The recursive function that joins sequences one by one exists.
LEMMA JoinsExist ==
  ASSUME NEW N \in Nat, NEW c
  PROVE  \E g : g = [r \in 0 .. N |-> IF r = 0 THEN c[0] ELSE g[r - 1] \o c[r]]
<1> DEFINE upTo(g, n) == g = [r \in 0 .. n |-> IF r = 0 THEN c[0] ELSE g[r - 1] \o c[r]]
           none == {n \in 0 .. N : \A g : ~upTo(g, n)}
<1>1. none = {}
  <2> SUFFICES ASSUME none # {} PROVE FALSE
    OBVIOUS
  <2>1. PICK n \in none : \A m \in none : n <= m
    <3>1. none \in SUBSET Nat
      <4> HIDE DEF upTo
      <4> QED
        OBVIOUS
    <3> HIDE DEF none
    <3> QED
      BY <3>1, LeastExists
  <2>2. n \in 0 .. N /\ \A g : ~upTo(g, n)
    BY <2>1
  <2>3. CASE n = 0
    <3> DEFINE g == [r \in 0 .. 0 |-> c[0]]
    <3>1. upTo(g, 0)
      OBVIOUS
    <3> HIDE DEF g, upTo
    <3> QED
      BY <2>2, <2>3, <3>1
  <2>4. CASE n # 0
    <3>1. n - 1 \in 0 .. N /\ n - 1 \notin none
      <4> HIDE DEF none, upTo
      <4> QED
        BY <2>1, <2>2, <2>4
    <3>2. PICK h : upTo(h, n - 1)
      BY <3>1
    <3> DEFINE g == [r \in 0 .. n |-> IF r = n THEN h[n - 1] \o c[n] ELSE h[r]]
    <3>3. ASSUME NEW r \in 0 .. n
          PROVE  g[r] = IF r = 0 THEN c[0] ELSE g[r - 1] \o c[r]
      <4>1. CASE r = n
        <5>1. n - 1 \in 0 .. n /\ n - 1 # n
          BY <2>2, <2>4
        <5> QED
          BY <2>4, <4>1, <5>1
      <4>2. CASE r # n
        <5>1. r \in 0 .. (n - 1)
          BY <2>2, <4>2
        <5>2. h[r] = IF r = 0 THEN c[0] ELSE h[r - 1] \o c[r]
          BY <3>2, <5>1
        <5>3. r # 0 => r - 1 \in 0 .. n /\ r - 1 # n
          BY <2>2
        <5> QED
          BY <4>2, <5>2, <5>3
      <4> QED
        BY <4>1, <4>2
    <3>4. upTo(g, n)
      <4>1. g = [r \in 0 .. n |-> g[r]]
        OBVIOUS
      <4> HIDE DEF g
      <4> QED
        BY <3>3, <4>1
    <3> HIDE DEF g, upTo
    <3> QED
      BY <2>2, <3>4
  <2> QED
    BY <2>3, <2>4
<1>2. \E g : upTo(g, N)
  <2> HIDE DEF upTo
  <2> QED
    BY <1>1
<1> QED
  BY <1>2

\* Sequences that have nothing twice and share nothing.
Parted(N, X, c) ==
  /\ \A r \in 0 .. N : c[r] \in Seq(X) /\ Once(c[r])
  /\ \A r, p \in 0 .. N : r # p => Items(c[r]) \cap Items(c[p]) = {}
Joins(N, c, f) == f[0] = c[0] /\ \A r \in 1 .. N : f[r] = f[r - 1] \o c[r]

\* Its last value holds all that the sequences hold, each once, when they share nothing.
LEMMA JoinedUp ==
  ASSUME NEW N \in Nat, NEW X, NEW c, Parted(N, X, c), NEW f, Joins(N, c, f)
  PROVE  /\ f[N] \in Seq(X) /\ Once(f[N])
         /\ \A x : x \in Items(f[N]) <=> \E r \in 0 .. N : x \in Items(c[r])
<1> USE DEF Parted, Joins
<1> DEFINE Right(n) == /\ f[n] \in Seq(X) /\ Once(f[n])
                       /\ \A x : x \in Items(f[n]) <=> \E r \in 0 .. n : x \in Items(c[r])
           wrong == {n \in 0 .. N : ~Right(n)}
<1>1. wrong = {}
  <2> SUFFICES ASSUME wrong # {} PROVE FALSE
    OBVIOUS
  <2>1. PICK n \in wrong : \A m \in wrong : n <= m
    <3>1. wrong \in SUBSET Nat
      <4> HIDE DEF Right
      <4> QED
        OBVIOUS
    <3> HIDE DEF wrong
    <3> QED
      BY <3>1, LeastExists
  <2>2. n \in 0 .. N /\ ~Right(n)
    BY <2>1
  <2>3. CASE n = 0
    <3>1. 0 .. 0 = {0}
      OBVIOUS
    <3>2. c[0] \in Seq(X) /\ Once(c[0]) /\ f[0] = c[0]
      <4>1. 0 \in 0 .. N
        OBVIOUS
      <4> HIDE DEF wrong, Right
      <4> QED
        BY <4>1
    <3>3. \A x : x \in Items(f[0]) <=> \E r \in 0 .. 0 : x \in Items(c[r])
      <4> HIDE DEF wrong, Right
      <4> QED
        BY <3>1, <3>2
    <3>4. Right(0)
      BY <3>2, <3>3
    <3> QED
      BY <2>2, <2>3, <3>4
  <2>4. CASE n # 0
    <3>1. n - 1 \in 0 .. N /\ n - 1 \notin wrong /\ n \in 1 .. N
      <4> HIDE DEF wrong
      <4> QED
        BY <2>1, <2>2, <2>4
    <3>2. Right(n - 1)
      BY <3>1
    <3>3. ASSUME NEW x \in Items(f[n - 1]), x \in Items(c[n])
          PROVE  FALSE
      <4>1. PICK r \in 0 .. (n - 1) : x \in Items(c[r])
        BY <3>2
      <4>2. r \in 0 .. N /\ r # n
        BY <2>2
      <4> QED
        BY <2>2, <3>3, <4>1, <4>2
    <3>4. Items(f[n - 1]) \cap Items(c[n]) = {}
      BY <3>3
    <3>5. c[n] \in Seq(X) /\ Once(c[n])
      BY <2>2
    <3>6. /\ f[n - 1] \o c[n] \in Seq(X) /\ Once(f[n - 1] \o c[n])
          /\ Items(f[n - 1] \o c[n]) = Items(f[n - 1]) \union Items(c[n])
      <4>1. f[n - 1] \in Seq(X) /\ Once(f[n - 1])
        BY <3>2
      <4>2. PICK a, b : a = f[n - 1] /\ b = c[n]
        OBVIOUS
      <4>3. a \in Seq(X) /\ b \in Seq(X) /\ Once(a) /\ Once(b) /\ Items(a) \cap Items(b) = {}
        BY <3>4, <3>5, <4>1, <4>2
      <4>4. a \o b \in Seq(X) /\ Once(a \o b) /\ Items(a \o b) = Items(a) \union Items(b)
        BY <4>3, ItemsJoin
      <4> HIDE DEF Right, wrong
      <4> QED
        BY <4>2, <4>4
    <3>7. f[n] = f[n - 1] \o c[n]
      BY <3>1
    <3>8. 0 .. n = 0 .. (n - 1) \union {n}
      BY <2>2, <2>4
    <3>9. Right(n)
      BY <3>2, <3>6, <3>7, <3>8
    <3> QED
      BY <2>2, <3>9
  <2> QED
    BY <2>3, <2>4
<1>2. Right(N)
  <2> HIDE DEF Right
  <2> QED
    BY <1>1
<1> QED
  BY <1>2

\* What a round of quotes q tells of a concept: it moved, or another stock leads it.
Told(q, id, k, e) ==
  \/ /\ e = Dashboard!Event(id, "rank_up", k)
     /\ conceptRanks[k] # 0 /\ conceptRanks[k] - Dashboard!RankOf(q, k) >= MinMove
  \/ /\ e = Dashboard!Event(id, "rank_down", k)
     /\ conceptRanks[k] # 0 /\ -(conceptRanks[k] - Dashboard!RankOf(q, k)) >= MinMove
  \/ /\ e = Dashboard!Event(id, "leader", k)
     /\ conceptLeaders[k] # 0 /\ conceptLeaders[k] # Dashboard!LeaderOf(q, k)
     /\ Dashboard!RankOf(q, k) <= LeaderConcepts

LEMMA EventTyped ==
  ASSUME NEW id \in Nat, NEW kind \in Kinds, NEW k \in RoundConcepts \union {0}
  PROVE  Dashboard!Event(id, kind, k) \in RoundEvent
BY DEF Dashboard!Event, RoundEvent, Kinds

LEMMA ConceptTold ==
  ASSUME NEW q, NEW id \in Nat, NEW k \in RoundConcepts
  PROVE  /\ Dashboard!ConceptEvents(q, id, k) \in Seq(RoundEvent)
         /\ Once(Dashboard!ConceptEvents(q, id, k))
         /\ \A e : e \in Items(Dashboard!ConceptEvents(q, id, k)) <=> Told(q, id, k, e)
<1> DEFINE event(kind) == Dashboard!Event(id, kind, k)
           some(holds, kind) == IF holds THEN <<event(kind)>> ELSE <<>>
           up == conceptRanks[k] # 0 /\ conceptRanks[k] - Dashboard!RankOf(q, k) >= MinMove
           down == conceptRanks[k] # 0 /\ -(conceptRanks[k] - Dashboard!RankOf(q, k)) >= MinMove
           other == /\ conceptLeaders[k] # 0 /\ conceptLeaders[k] # Dashboard!LeaderOf(q, k)
                    /\ Dashboard!RankOf(q, k) <= LeaderConcepts
<1>1. Dashboard!ConceptEvents(q, id, k)
        = some(up, "rank_up") \o some(down, "rank_down") \o some(other, "leader")
  BY DEF Dashboard!ConceptEvents
<1>2. /\ event("rank_up") # event("rank_down") /\ event("rank_up") # event("leader")
      /\ event("rank_down") # event("leader")
  BY DEF Dashboard!Event
<1>3. ASSUME NEW holds \in BOOLEAN, NEW kind \in Kinds
      PROVE  /\ some(holds, kind) \in Seq(RoundEvent) /\ Once(some(holds, kind))
             /\ \A e : e \in Items(some(holds, kind)) <=> holds /\ e = event(kind)
  <2>1. event(kind) \in RoundEvent
    BY EventTyped
  <2>2. PICK x : x = event(kind)
    OBVIOUS
  <2>3. /\ <<x>> \in Seq(RoundEvent) /\ Items(<<x>>) = {x} /\ Once(<<x>>)
        /\ <<>> \in Seq(RoundEvent) /\ Items(<<>>) = {} /\ Once(<<>>)
    BY <2>1, <2>2, OneItem
  <2> HIDE DEF event
  <2>4. CASE holds
    BY <2>2, <2>3, <2>4
  <2>5. CASE ~holds
    BY <2>3, <2>5
  <2> QED
    BY <2>4, <2>5
<1>4. PICK a, b, d : /\ a = some(up, "rank_up") /\ b = some(down, "rank_down")
                     /\ d = some(other, "leader")
  OBVIOUS
<1>5. up \in BOOLEAN /\ down \in BOOLEAN /\ other \in BOOLEAN
  OBVIOUS
<1> HIDE DEF some
<1>6. \A e : Told(q, id, k, e) <=> \/ up /\ e = event("rank_up")
                                   \/ down /\ e = event("rank_down")
                                   \/ other /\ e = event("leader")
  BY DEF Told
<1> HIDE DEF some, event, up, down, other
<1>7. /\ a \in Seq(RoundEvent) /\ Once(a)
      /\ \A e : e \in Items(a) <=> up /\ e = event("rank_up")
  <2>1. "rank_up" \in Kinds
    BY DEF Kinds
  <2>2. /\ some(up, "rank_up") \in Seq(RoundEvent) /\ Once(some(up, "rank_up"))
        /\ \A e : e \in Items(some(up, "rank_up")) <=> up /\ e = event("rank_up")
    BY <1>3, <1>5, <2>1, Zenon
  <2> QED
    BY <1>4, <2>2
<1>8. /\ b \in Seq(RoundEvent) /\ Once(b)
      /\ \A e : e \in Items(b) <=> down /\ e = event("rank_down")
  <2>1. "rank_down" \in Kinds
    BY DEF Kinds
  <2>2. /\ some(down, "rank_down") \in Seq(RoundEvent) /\ Once(some(down, "rank_down"))
        /\ \A e : e \in Items(some(down, "rank_down")) <=> down /\ e = event("rank_down")
    BY <1>3, <1>5, <2>1, Zenon
  <2> QED
    BY <1>4, <2>2
<1>9. /\ d \in Seq(RoundEvent) /\ Once(d)
      /\ \A e : e \in Items(d) <=> other /\ e = event("leader")
  <2>1. "leader" \in Kinds
    BY DEF Kinds
  <2>2. /\ some(other, "leader") \in Seq(RoundEvent) /\ Once(some(other, "leader"))
        /\ \A e : e \in Items(some(other, "leader")) <=> other /\ e = event("leader")
    BY <1>3, <1>5, <2>1, Zenon
  <2> QED
    BY <1>4, <2>2
<1>10. Items(a) \cap Items(b) = {}
  BY <1>2, <1>7, <1>8
<1>11. /\ a \o b \in Seq(RoundEvent) /\ Once(a \o b)
       /\ Items(a \o b) = Items(a) \union Items(b)
  BY <1>7, <1>8, <1>10, ItemsJoin
<1>12. PICK ab : ab = a \o b
  OBVIOUS
<1>13. Items(ab) \cap Items(d) = {}
  BY <1>2, <1>7, <1>8, <1>9, <1>11, <1>12
<1>14. /\ ab \o d \in Seq(RoundEvent) /\ Once(ab \o d)
       /\ Items(ab \o d) = Items(ab) \union Items(d)
  <2>1. d \in Seq(RoundEvent) /\ Once(d) /\ ab \in Seq(RoundEvent) /\ Once(ab)
    BY <1>9, <1>11, <1>12
  <2> QED
    BY <1>13, <2>1, ItemsJoin
<1>15. Dashboard!ConceptEvents(q, id, k) = ab \o d
  BY <1>1, <1>4, <1>12
<1>16. \A e : e \in Items(ab \o d) <=> \/ up /\ e = event("rank_up")
                                       \/ down /\ e = event("rank_down")
                                       \/ other /\ e = event("leader")
  BY <1>7, <1>8, <1>9, <1>11, <1>12, <1>14
<1> QED
  BY <1>6, <1>14, <1>15, <1>16

\* The events of a round are each told once: the breadth when it is another one, and what is
\* told of the concepts at the top.
LEMMA EventsTold ==
  ASSUME NEW q \in Dashboard!Quotes, NEW id \in Nat
  PROVE  /\ Dashboard!EventsOf(q, id) \in Seq(RoundEvent) /\ Once(Dashboard!EventsOf(q, id))
         /\ \A e : e \in Items(Dashboard!EventsOf(q, id)) <=>
              \/ e = Dashboard!Event(id, "breadth", 0) /\ Dashboard!BreadthOf(q) # roundBreadth
              \/ \E k \in RoundConcepts :
                   Dashboard!RankOf(q, k) <= TopConcepts /\ Told(q, id, k, e)
<1> DEFINE T == Dashboard!Tops
           base == IF Dashboard!BreadthOf(q) # roundBreadth
                   THEN <<Dashboard!Event(id, "breadth", 0)>> ELSE <<>>
           of(r) == Dashboard!ConceptEvents(q, id, Dashboard!Ranked(q, r))
           c == [r \in 0 .. T |-> IF r = 0 THEN base ELSE of(r)]
           Body(g) == [r \in 0 .. T |-> IF r = 0 THEN base ELSE g[r - 1] \o of(r)]
           upTo == CHOOSE g : g = Body(g)
<1>1. Dashboard!EventsOf(q, id) = upTo[T]
  BY DEF Dashboard!EventsOf
<1>2. /\ T \in Nat /\ Cardinality(RoundConcepts) \in Nat
      /\ \A r \in Int : r \in 1 .. T <=> r \in 1 .. Cardinality(RoundConcepts) /\ r <= TopConcepts
  <2>1. Cardinality(RoundConcepts) \in Nat /\ TopConcepts \in Nat
    BY RoundAssumption, FS_CardinalityType
  <2>2. T = IF TopConcepts < Cardinality(RoundConcepts) THEN TopConcepts
            ELSE Cardinality(RoundConcepts)
    BY DEF Dashboard!Tops, Dashboard!Cardinality, Cardinality
  <2> HIDE DEF T
  <2> QED
    BY <2>1, <2>2
<1>3. /\ \A k \in RoundConcepts : Dashboard!RankOf(q, k) \in 1 .. Cardinality(RoundConcepts)
      /\ \A j, k \in RoundConcepts : Dashboard!RankOf(q, j) = Dashboard!RankOf(q, k) => j = k
      /\ \A r \in 1 .. Cardinality(RoundConcepts) :
           /\ Dashboard!Ranked(q, r) \in RoundConcepts
           /\ Dashboard!RankOf(q, Dashboard!Ranked(q, r)) = r
  BY RanksApart
<1>4. /\ base \in Seq(RoundEvent) /\ Once(base)
      /\ \A e : e \in Items(base) <=> /\ Dashboard!BreadthOf(q) # roundBreadth
                                      /\ e = Dashboard!Event(id, "breadth", 0)
  <2>1. PICK x : x = Dashboard!Event(id, "breadth", 0)
    OBVIOUS
  <2>2. x \in RoundEvent
    <3>1. "breadth" \in Kinds /\ 0 \in RoundConcepts \union {0}
      BY DEF Kinds
    <3> HIDE DEF upTo, Body, c, of, T
    <3> QED
      BY <2>1, <3>1, EventTyped
  <2>3. /\ <<x>> \in Seq(RoundEvent) /\ Items(<<x>>) = {x} /\ Once(<<x>>)
        /\ <<>> \in Seq(RoundEvent) /\ Items(<<>>) = {} /\ Once(<<>>)
    BY <2>2, OneItem
  <2>4. CASE Dashboard!BreadthOf(q) # roundBreadth
    BY <2>1, <2>3, <2>4
  <2>5. CASE Dashboard!BreadthOf(q) = roundBreadth
    BY <2>3, <2>5
  <2> QED
    BY <2>4, <2>5
<1>5. c[0] = base /\ \A r \in 1 .. T : c[r] = of(r)
  <2> HIDE DEF base, of, T
  <2>1. 0 \in 0 .. T /\ \A r \in 1 .. T : r \in 0 .. T /\ r # 0
    BY <1>2
  <2> QED
    BY <2>1
<1>6. ASSUME NEW r \in 1 .. T
      PROVE  /\ Dashboard!Ranked(q, r) \in RoundConcepts
             /\ Dashboard!RankOf(q, Dashboard!Ranked(q, r)) = r
             /\ of(r) \in Seq(RoundEvent) /\ Once(of(r))
             /\ \A e : e \in Items(of(r)) <=> Told(q, id, Dashboard!Ranked(q, r), e)
  <2>1. r \in 1 .. Cardinality(RoundConcepts)
    <3> HIDE DEF T
    <3> QED
      BY <1>2
  <2>2. PICK k \in RoundConcepts : k = Dashboard!Ranked(q, r) /\ Dashboard!RankOf(q, k) = r
    BY <1>3, <2>1
  <2>3. /\ Dashboard!ConceptEvents(q, id, k) \in Seq(RoundEvent)
        /\ Once(Dashboard!ConceptEvents(q, id, k))
        /\ \A e : e \in Items(Dashboard!ConceptEvents(q, id, k)) <=> Told(q, id, k, e)
    BY ConceptTold
  <2> QED
    BY <2>2, <2>3
<1>7. ASSUME NEW k, NEW e, Told(q, id, k, e)
      PROVE  e.concept = k /\ e.kind # "breadth"
  BY <1>7 DEF Told, Dashboard!Event
<1>8. 0 \notin RoundConcepts
  BY RoundAssumption
<1>9. upTo[0] = c[0] /\ \A r \in 1 .. T : upTo[r] = upTo[r - 1] \o c[r]
  <2>1. PICK g : g = [r \in 0 .. T |-> IF r = 0 THEN c[0] ELSE g[r - 1] \o c[r]]
    <3> HIDE DEF c, T
    <3> QED
      BY <1>2, JoinsExist
  <2>2. g = Body(g)
    <3> HIDE DEF c, T, base, of
    <3>1. \A r \in 0 .. T : (IF r = 0 THEN c[0] ELSE g[r - 1] \o c[r])
                              = (IF r = 0 THEN base ELSE g[r - 1] \o of(r))
      BY <1>2, <1>5
    <3> QED
      BY <2>1, <3>1
  <2>3. upTo = Body(upTo)
    <3> HIDE DEF Body
    <3> QED
      BY <2>2
  <2> HIDE DEF upTo, T, of, base, c
  <2>4. \A r \in 0 .. T : upTo[r] = IF r = 0 THEN base ELSE upTo[r - 1] \o of(r)
    BY <2>3
  <2>5. 0 \in 0 .. T /\ \A r \in 1 .. T : r \in 0 .. T /\ r # 0
    BY <1>2
  <2> QED
    BY <1>5, <2>4, <2>5
<1> HIDE DEF upTo, T, of, base, c
<1>10. ASSUME NEW r \in 0 .. T
       PROVE  c[r] \in Seq(RoundEvent) /\ Once(c[r])
  <2>1. r = 0 \/ r \in 1 .. T
    BY <1>2
  <2> QED
    BY <1>4, <1>5, <1>6, <2>1
<1>11. ASSUME NEW r \in 0 .. T, NEW p \in 0 .. T, NEW e, e \in Items(c[r]), e \in Items(c[p])
       PROVE  r = p
  <2>1. (r = 0 \/ r \in 1 .. T) /\ (p = 0 \/ p \in 1 .. T)
    BY <1>2
  <2>2. ASSUME NEW x \in 1 .. T, e \in Items(c[x])
        PROVE  e.kind # "breadth" /\ e.concept = Dashboard!Ranked(q, x)
    BY <1>5, <1>6, <1>7, <2>2
  <2>3. ASSUME e \in Items(c[0])
        PROVE  e.kind = "breadth"
    BY <1>4, <1>5, <2>3 DEF Dashboard!Event
  <2>4. CASE r \in 1 .. T /\ p \in 1 .. T
    <3>1. Dashboard!Ranked(q, r) = Dashboard!Ranked(q, p)
      BY <1>11, <2>2, <2>4
    <3> QED
      BY <1>6, <2>4, <3>1
  <2>5. CASE r = 0 /\ p \in 1 .. T
    BY <1>11, <2>2, <2>3, <2>5
  <2>6. CASE r \in 1 .. T /\ p = 0
    BY <1>11, <2>2, <2>3, <2>6
  <2>7. CASE r = 0 /\ p = 0
    BY <2>7
  <2> QED
    BY <2>1, <2>4, <2>5, <2>6, <2>7, Zenon
<1>12. \A r, p \in 0 .. T : r # p => Items(c[r]) \cap Items(c[p]) = {}
  BY <1>11
<1>13. /\ upTo[T] \in Seq(RoundEvent) /\ Once(upTo[T])
       /\ \A x : x \in Items(upTo[T]) <=> \E r \in 0 .. T : x \in Items(c[r])
  <2>1. Parted(T, RoundEvent, c)
    BY <1>10, <1>12 DEF Parted
  <2>2. Joins(T, c, upTo)
    BY <1>9 DEF Joins
  <2> QED
    BY <1>2, <2>1, <2>2, JoinedUp
<1>14. ASSUME NEW e
       PROVE  (\E r \in 0 .. T : e \in Items(c[r])) <=>
                \/ e = Dashboard!Event(id, "breadth", 0) /\ Dashboard!BreadthOf(q) # roundBreadth
                \/ \E k \in RoundConcepts :
                     Dashboard!RankOf(q, k) <= TopConcepts /\ Told(q, id, k, e)
  <2>1. ASSUME NEW r \in 1 .. T, e \in Items(c[r])
        PROVE  \E k \in RoundConcepts : Dashboard!RankOf(q, k) <= TopConcepts /\ Told(q, id, k, e)
    <3>1. r <= TopConcepts
      BY <1>2
    <3>2. PICK k : k = Dashboard!Ranked(q, r)
      OBVIOUS
    <3> QED
      BY <1>5, <1>6, <2>1, <3>1, <3>2
  <2>2. ASSUME NEW k \in RoundConcepts, Dashboard!RankOf(q, k) <= TopConcepts, Told(q, id, k, e)
        PROVE  \E r \in 1 .. T : e \in Items(c[r])
    <3>1. PICK r \in 1 .. T : r = Dashboard!RankOf(q, k)
      BY <1>2, <1>3, <2>2
    <3>2. k = Dashboard!Ranked(q, r)
      BY <1>3, <1>6, <3>1
    <3> QED
      BY <1>5, <1>6, <2>2, <3>1, <3>2
  <2>3. \A r : r \in 0 .. T <=> r = 0 \/ r \in 1 .. T
    BY <1>2
  <2> QED
    BY <1>4, <1>5, <2>1, <2>2, <2>3
<1> QED
  BY <1>1, <1>13, <1>14

\* The first and the last n of a sequence.
LEMMA FirstKept ==
  ASSUME NEW X, NEW s \in Seq(X), NEW n \in Nat
  PROVE  /\ Dashboard!First(s, n) \in Seq(X)
         /\ Len(Dashboard!First(s, n)) = IF Len(s) > n THEN n ELSE Len(s)
         /\ Items(Dashboard!First(s, n)) \subseteq Items(s)
         /\ ~(Len(s) > n) => Items(Dashboard!First(s, n)) = Items(s)
         /\ Once(s) => Once(Dashboard!First(s, n))
<1> DEFINE m == IF Len(s) > n THEN n ELSE Len(s)
<1>1. Len(s) \in Nat /\ m \in 0 .. Len(s)
  OBVIOUS
<1>2. PICK f : f = Dashboard!First(s, n)
  OBVIOUS
<1>3. f = SubSeq(s, 1, m)
  BY <1>2 DEF Dashboard!First
<1>4. (~(Len(s) > n) => m = Len(s)) /\ m = IF Len(s) > n THEN n ELSE Len(s)
  OBVIOUS
<1> HIDE DEF m
<1>5. f \in Seq(X) /\ Len(f) = m /\ \A i \in 1 .. m : f[i] = s[i] /\ i \in 1 .. Len(s)
  BY <1>1, <1>3
<1>6. Items(f) \subseteq Items(s) /\ (m = Len(s) => Items(f) = Items(s))
  BY <1>1, <1>5 DEF Items
<1>7. Once(s) => Once(f)
  BY <1>5 DEF Once
<1> QED
  BY <1>2, <1>4, <1>5, <1>6, <1>7

LEMMA LastKept ==
  ASSUME NEW X, NEW s \in Seq(X), NEW n \in Nat
  PROVE  /\ Dashboard!Last(s, n) \in Seq(X)
         /\ Len(Dashboard!Last(s, n)) = IF Len(s) > n THEN n ELSE Len(s)
         /\ Items(Dashboard!Last(s, n)) \subseteq Items(s)
         /\ ~(Len(s) > n) => Items(Dashboard!Last(s, n)) = Items(s)
<1> DEFINE a == IF Len(s) > n THEN Len(s) - n + 1 ELSE 1
           m == IF Len(s) > n THEN n ELSE Len(s)
<1>1. Len(s) \in Nat /\ m \in 0 .. Len(s) /\ a \in 1 .. (Len(s) + 1) /\ m = Len(s) - a + 1
  OBVIOUS
<1>2. PICK f : f = Dashboard!Last(s, n)
  OBVIOUS
<1>3. f = SubSeq(s, a, Len(s))
  BY <1>2 DEF Dashboard!Last
<1>4. (~(Len(s) > n) => m = Len(s) /\ a = 1) /\ m = IF Len(s) > n THEN n ELSE Len(s)
  OBVIOUS
<1> HIDE DEF m, a
<1>5. /\ f \in Seq(X) /\ Len(f) = m
      /\ \A i \in 1 .. m : f[i] = s[a + i - 1] /\ a + i - 1 \in 1 .. Len(s)
  BY <1>1, <1>3
<1>6. Items(f) \subseteq Items(s)
  BY <1>5 DEF Items
<1>7. ASSUME m = Len(s), a = 1 PROVE Items(f) = Items(s)
  <2>1. \A i \in 1 .. Len(s) : f[i] = s[i]
    BY <1>1, <1>5, <1>7
  <2> QED
    BY <1>5, <1>7, <2>1 DEF Items
<1> QED
  BY <1>2, <1>4, <1>5, <1>6, <1>7

\* A sequence that has nothing twice has as many items as its length.
LEMMA OnceCounts ==
  ASSUME NEW X, NEW s \in Seq(X), Once(s)
  PROVE  Cardinality(Items(s)) = Len(s)
<1> DEFINE f == [i \in 1 .. Len(s) |-> s[i]]
<1>1. f \in Bijection(1 .. Len(s), Items(s))
  BY DEF Bijection, Injection, Surjection, IsInjective, Once, Items
<1>2. ExistsBijection(1 .. Len(s), Items(s))
  BY <1>1 DEF ExistsBijection
<1>3. Len(s) \in Nat
  OBVIOUS
<1> QED
  BY <1>2, <1>3, FS_CountingElements

LEMMA BreadthTyped == ASSUME NEW q PROVE Dashboard!BreadthOf(q) \in Breadths
BY DEF Dashboard!BreadthOf, Breadths

LEMMA EventOfRound ==
  ASSUME NEW q \in Dashboard!Quotes, NEW id \in Nat, NEW e \in Items(Dashboard!EventsOf(q, id))
  PROVE  e.round = id /\ e \in RoundEvent
<1>1. \/ e = Dashboard!Event(id, "breadth", 0)
      \/ \E k \in RoundConcepts : Told(q, id, k, e)
  BY EventsTold
<1>2. e.round = id
  BY <1>1 DEF Told, Dashboard!Event
<1>3. Dashboard!EventsOf(q, id) \in Seq(RoundEvent)
  BY EventsTold
<1> QED
  BY <1>2, <1>3 DEF Items

\* What is recorded is a history of the day that has a point.
LEMMA RecordedHistory ==
  ASSUME NEW h \in History, Past(h, roundCount), NEW q \in Dashboard!Quotes,
         roundDay \in Nat, roundCount \in Nat
  PROVE  LET r == Dashboard!Recorded(h, q, roundCount + 1)
         IN  /\ r \in History /\ Past(r, roundCount + 1)
             /\ r.day = roundDay /\ r.points # <<>>
<1> DEFINE id == roundCount + 1
           r == Dashboard!Recorded(h, q, id)
           point == [round |-> id, breadth |-> Dashboard!BreadthOf(q)]
           fresh == Dashboard!First(Dashboard!EventsOf(q, id), RoundEvents)
           longer == Append(h.points, point)
           all == h.events \o fresh
<1>1. /\ id \in Nat /\ KeptPoints \in Nat \ {0} /\ KeptEvents \in Nat /\ RoundEvents \in Nat
      /\ roundCount < id
  BY RoundAssumption
<1>2. /\ h.points \in Seq([round : Nat, breadth : Breadths])
      /\ h.events \in Seq(RoundEvent)
  BY DEF History
<1>3. r = [day |-> roundDay, points |-> Dashboard!Last(longer, KeptPoints),
           events |-> IF h.points = <<>> THEN h.events ELSE Dashboard!Last(all, KeptEvents)]
  BY DEF Dashboard!Recorded
<1>4. /\ longer \in Seq([round : Nat, breadth : Breadths]) /\ Len(longer) \in Nat \ {0}
  <2>1. point \in [round : Nat, breadth : Breadths]
    BY <1>1, BreadthTyped
  <2> HIDE DEF point
  <2> QED
    BY <1>2, <2>1
<1>5. /\ Dashboard!Last(longer, KeptPoints) \in Seq([round : Nat, breadth : Breadths])
      /\ Len(Dashboard!Last(longer, KeptPoints)) # 0
  <2> HIDE DEF longer
  <2>1. Len(Dashboard!Last(longer, KeptPoints))
          = IF Len(longer) > KeptPoints THEN KeptPoints ELSE Len(longer)
    BY <1>1, <1>4, LastKept
  <2> QED
    BY <1>1, <1>4, <2>1, LastKept
<1>6. fresh \in Seq(RoundEvent) /\ \A e \in Items(fresh) : e.round = id
  <2>1. PICK told : told = Dashboard!EventsOf(q, id)
    OBVIOUS
  <2>2. told \in Seq(RoundEvent) /\ \A e \in Items(told) : e.round = id
    BY <1>1, <2>1, EventsTold, EventOfRound
  <2> QED
    BY <1>1, <2>1, <2>2, FirstKept
<1> HIDE DEF fresh, longer, id
<1>7. \A i \in 1 .. Len(h.events) : h.events[i].round <= id
  <2> SUFFICES ASSUME NEW i \in 1 .. Len(h.events) PROVE h.events[i].round <= id
    OBVIOUS
  <2>1. h.events[i] \in RoundEvent
    BY <1>2
  <2>2. h.events[i].round \in Nat
    BY <2>1 DEF RoundEvent
  <2>3. h.events[i].round <= roundCount
    BY DEF Past
  <2> QED
    BY <1>1, <2>2, <2>3
<1>8. all \in Seq(RoundEvent) /\ \A e \in Items(all) : e.round <= id
  <2>1. all \in Seq(RoundEvent)
    BY <1>2, <1>6
  <2>2. ASSUME NEW i \in 1 .. Len(all)
        PROVE  all[i].round <= id
    <3>1. \/ i \in 1 .. Len(h.events) /\ all[i] = h.events[i]
          \/ i - Len(h.events) \in 1 .. Len(fresh) /\ all[i] = fresh[i - Len(h.events)]
      BY <1>2, <1>6
    <3>2. CASE i \in 1 .. Len(h.events) /\ all[i] = h.events[i]
      <4>1. h.events[i].round <= id
        BY <1>7, <3>2
      <4> QED
        BY <3>2, <4>1
    <3>3. CASE i - Len(h.events) \in 1 .. Len(fresh) /\ all[i] = fresh[i - Len(h.events)]
      <4>1. all[i] \in Items(fresh)
        BY <3>3 DEF Items
      <4> QED
        BY <1>1, <1>6, <4>1
    <3> QED
      BY <3>1, <3>2, <3>3
  <2> QED
    BY <2>1, <2>2 DEF Items
<1> HIDE DEF all
<1>9. /\ Dashboard!Last(all, KeptEvents) \in Seq(RoundEvent)
      /\ \A e \in Items(Dashboard!Last(all, KeptEvents)) : e.round <= id
  BY <1>1, <1>8, LastKept
<1>10. PICK points, events :
         /\ points = Dashboard!Last(longer, KeptPoints)
         /\ events = IF h.points = <<>> THEN h.events ELSE Dashboard!Last(all, KeptEvents)
  OBVIOUS
<1>11. /\ events \in Seq(RoundEvent) /\ \A i \in 1 .. Len(events) : events[i].round <= id
  BY <1>2, <1>7, <1>9, <1>10 DEF Items
<1>12. points \in Seq([round : Nat, breadth : Breadths]) /\ points # <<>>
  BY <1>5, <1>10
<1>13. r = [day |-> roundDay, points |-> points, events |-> events]
  BY <1>3, <1>10
<1> HIDE DEF r
<1>14. r \in History /\ Past(r, id) /\ r.day = roundDay /\ r.points # <<>>
  BY <1>11, <1>12, <1>13 DEF History, Past
<1> QED
  BY <1>14 DEF r, id

LEMMA NoHistoryYet == Dashboard!NoHistory \in History /\ \A n : Past(Dashboard!NoHistory, n)
BY DEF Dashboard!NoHistory, History, Past

LEMMA RoundStart == ServicesInit => RoundInv
<1> SUFFICES ASSUME ServicesInit, part = "board" PROVE RoundInv
  BY DEF RoundInv
<1>1. Dashboard!Init
  BY DEF ServicesInit
<1>2. /\ roundDay = 1 /\ roundCount = 0 /\ quotesDay = 0
      /\ roundHistory = Dashboard!NoHistory /\ roundKeys = Dashboard!NoHistory
  BY <1>1 DEF Dashboard!Init
<1> QED
  BY <1>2, NoHistoryYet DEF RoundInv

\* What is restored is a history, and the one in memory when it is of today.
LEMMA RestoredHistory ==
  ASSUME RoundInv, part = "board"
  PROVE  /\ Dashboard!Hydrated \in History /\ Past(Dashboard!Hydrated, roundCount)
         /\ quotesDay = roundDay => Dashboard!Hydrated = roundHistory
<1>1. Dashboard!Hydrated \in {roundHistory, roundKeys}
  BY DEF Dashboard!Hydrated
<1> QED
  BY <1>1 DEF RoundInv, Dashboard!Hydrated

\* What an accepted round leaves in memory.
LEMMA RoundLeaves ==
  ASSUME RoundInv, part = "board", NEW q \in Dashboard!Quotes,
         Dashboard!SameDayRound(q) \/ Dashboard!FirstRound(q)
  PROVE  /\ roundHistory' \in History /\ Past(roundHistory', roundCount + 1)
         /\ roundHistory'.day = roundDay /\ roundHistory'.points # <<>>
         /\ roundQuotes' = q /\ quotesDay' = roundDay
         /\ conceptRanks' = Dashboard!RanksOf(q) /\ conceptLeaders' = Dashboard!LeadersOf(q)
         /\ roundBreadth' = Dashboard!BreadthOf(q)
<1>1. roundDay \in Nat \ {0} /\ roundCount \in Nat
  BY DEF RoundInv
<1>2. CASE Dashboard!SameDayRound(q)
  <2>1. PICK r : r = Dashboard!Recorded(Dashboard!Hydrated, q, roundCount + 1)
    OBVIOUS
  <2>2. r \in History /\ Past(r, roundCount + 1) /\ r.day = roundDay /\ r.points # <<>>
    BY <1>1, <2>1, RestoredHistory, RecordedHistory
  <2>3. roundHistory' = r
    BY <1>2, <2>1 DEF Dashboard!SameDayRound
  <2> QED
    BY <1>2, <2>2, <2>3 DEF Dashboard!SameDayRound, Dashboard!Remembers
<1>3. CASE Dashboard!FirstRound(q)
  <2>1. PICK point : point = [round |-> roundCount + 1, breadth |-> Dashboard!BreadthOf(q)]
    OBVIOUS
  <2>2. point \in [round : Nat, breadth : Breadths]
    BY <1>1, <2>1, BreadthTyped
  <2>3. PICK points : points = <<point>>
    OBVIOUS
  <2>4. points \in Seq([round : Nat, breadth : Breadths]) /\ points # <<>>
    BY <2>2, <2>3
  <2>5. roundHistory' = [day |-> roundDay, events |-> <<>>, points |-> points]
    BY <1>3, <2>1, <2>3 DEF Dashboard!FirstRound
  <2>6. /\ roundHistory' \in History /\ Past(roundHistory', roundCount + 1)
        /\ roundHistory'.day = roundDay /\ roundHistory'.points # <<>>
    BY <1>1, <2>4, <2>5 DEF History, Past
  <2> QED
    BY <1>3, <2>6 DEF Dashboard!FirstRound, Dashboard!Remembers
<1> QED
  BY <1>2, <1>3

LEMMA PastLater ==
  ASSUME NEW h \in History, NEW n \in Nat, Past(h, n)
  PROVE  Past(h, n + 1)
<1> SUFFICES ASSUME NEW i \in 1 .. Len(h.events) PROVE h.events[i].round <= n + 1
  BY DEF Past
<1>1. h.events \in Seq(RoundEvent)
  BY DEF History
<1>2. h.events[i] \in RoundEvent
  BY <1>1
<1>3. h.events[i].round \in Nat
  BY <1>2 DEF RoundEvent
<1>4. h.events[i].round <= n
  BY DEF Past
<1> QED
  BY <1>3, <1>4

LEMMA RoundSteps == RoundInv /\ [ServicesNext]_servicesVars => RoundInv'
<1> SUFFICES ASSUME RoundInv, [ServicesNext]_servicesVars, part' = "board" PROVE RoundInv'
  BY DEF RoundInv
<1>1. part = "board" /\ [Dashboard!Next]_roundVars
  BY DEF ServicesNext, servicesVars, roundVars
<1>2. /\ roundDay \in Nat \ {0} /\ roundCount \in Nat /\ quotesDay \in 0 .. roundDay
      /\ roundHistory \in History /\ roundKeys \in History
      /\ Past(roundHistory, roundCount) /\ Past(roundKeys, roundCount)
      /\ Past(roundHistory, roundCount + 1) /\ Past(roundKeys, roundCount + 1)
  BY <1>1, PastLater DEF RoundInv
<1>3. CASE Dashboard!AcceptRound
  <2>1. PICK q \in Dashboard!Quotes : Dashboard!SameDayRound(q) \/ Dashboard!FirstRound(q)
    BY <1>3 DEF Dashboard!AcceptRound
  <2>2. /\ roundCount' = roundCount + 1 /\ roundDay' = roundDay
        /\ roundKeys' = roundHistory' \/ roundKeys' = roundKeys
    BY <1>3 DEF Dashboard!AcceptRound
  <2>3. /\ roundHistory' \in History /\ Past(roundHistory', roundCount + 1)
        /\ roundHistory'.day = roundDay /\ roundHistory'.points # <<>>
        /\ roundQuotes' = q /\ quotesDay' = roundDay
        /\ conceptRanks' = Dashboard!RanksOf(q) /\ conceptLeaders' = Dashboard!LeadersOf(q)
        /\ roundBreadth' = Dashboard!BreadthOf(q)
    BY <1>1, <2>1, RoundLeaves
  <2>4. roundKeys' \in History /\ Past(roundKeys', roundCount + 1)
    BY <1>2, <2>2, <2>3
  <2> QED
    BY <1>2, <2>2, <2>3, <2>4 DEF RoundInv
<1>4. CASE Dashboard!PageRequest
  <2>1. roundHistory' = Dashboard!Hydrated
        /\ UNCHANGED <<roundDay, roundQuotes, quotesDay, conceptRanks, conceptLeaders,
                       roundBreadth, roundKeys, roundCount>>
    BY <1>4 DEF Dashboard!PageRequest
  <2>2. /\ Dashboard!Hydrated \in History /\ Past(Dashboard!Hydrated, roundCount)
        /\ quotesDay = roundDay => Dashboard!Hydrated = roundHistory
    BY <1>1, RestoredHistory
  <2>3. roundHistory' \in History /\ Past(roundHistory', roundCount)
    BY <2>1, <2>2
  <2>4. quotesDay = roundDay => roundHistory' = roundHistory
    BY <2>1, <2>2
  <2> QED
    BY <1>1, <1>2, <2>1, <2>3, <2>4 DEF RoundInv
<1>5. CASE Dashboard!OtherLeads
  <2>1. PICK q \in Dashboard!Quotes :
          roundKeys' = [day |-> roundDay, events |-> <<>>,
            points |-> Dashboard!Last(Append(IF roundKeys.day = roundDay THEN roundKeys.points
                                             ELSE <<>>,
                         [round |-> roundCount + 1, breadth |-> Dashboard!BreadthOf(q)]),
                       KeptPoints)]
    BY <1>5 DEF Dashboard!OtherLeads
  <2>2. PICK point : point = [round |-> roundCount + 1, breadth |-> Dashboard!BreadthOf(q)]
    OBVIOUS
  <2>3. PICK before : before = IF roundKeys.day = roundDay THEN roundKeys.points ELSE <<>>
    OBVIOUS
  <2>4. /\ point \in [round : Nat, breadth : Breadths]
        /\ before \in Seq([round : Nat, breadth : Breadths])
    BY <1>2, <2>2, <2>3, BreadthTyped DEF History
  <2>5. PICK longer : longer = Append(before, point)
    OBVIOUS
  <2>6. longer \in Seq([round : Nat, breadth : Breadths])
    BY <2>4, <2>5
  <2>7. PICK points : points = Dashboard!Last(longer, KeptPoints)
    OBVIOUS
  <2>8. points \in Seq([round : Nat, breadth : Breadths])
    BY <2>6, <2>7, LastKept, RoundAssumption
  <2>9. roundKeys' = [day |-> roundDay, events |-> <<>>, points |-> points]
    BY <2>1, <2>2, <2>3, <2>5, <2>7
  <2>10. roundKeys' \in History /\ Past(roundKeys', roundCount + 1)
    BY <1>2, <2>8, <2>9 DEF History, Past
  <2>11. /\ roundCount' = roundCount + 1
         /\ UNCHANGED <<roundDay, roundQuotes, quotesDay, roundHistory, conceptRanks,
                        conceptLeaders, roundBreadth>>
    BY <1>5 DEF Dashboard!OtherLeads
  <2> QED
    BY <1>1, <1>2, <2>10, <2>11 DEF RoundInv
<1>6. CASE Dashboard!Restart
  <2>1. /\ roundHistory' = Dashboard!NoHistory /\ quotesDay' = 0
        /\ UNCHANGED <<roundDay, roundKeys, roundCount>>
    BY <1>6 DEF Dashboard!Restart
  <2>2. roundHistory' \in History /\ Past(roundHistory', roundCount)
    BY <2>1, NoHistoryYet
  <2> QED
    BY <1>2, <2>1, <2>2 DEF RoundInv
<1>7. CASE Dashboard!NextDay
  <2>1. /\ roundDay' = roundDay + 1
        /\ UNCHANGED <<quotesDay, roundHistory, roundKeys, roundCount>>
    BY <1>7 DEF Dashboard!NextDay
  <2>2. quotesDay # roundDay + 1 /\ quotesDay \in 0 .. (roundDay + 1) /\ roundDay + 1 \in Nat \ {0}
    BY <1>2
  <2> QED
    BY <1>2, <2>1, <2>2 DEF RoundInv
<1>8. CASE UNCHANGED roundVars
  BY <1>1, <1>8 DEF RoundInv, roundVars
<1> QED
  BY <1>1, <1>3, <1>4, <1>5, <1>6, <1>7, <1>8 DEF Dashboard!Next

\* What a round tells and what is different from the quotes of the last round of the process
\* are the same, once the events are taken without their round.
LEMMA ToldIsDifferent ==
  ASSUME NEW q \in Dashboard!Quotes, NEW r \in Dashboard!Quotes, NEW id \in Nat,
         conceptRanks = Dashboard!RanksOf(q), conceptLeaders = Dashboard!LeadersOf(q),
         roundBreadth = Dashboard!BreadthOf(q), NEW t
  PROVE  t \in Dashboard!Differences(q, r) <=>
           \E e \in Items(Dashboard!EventsOf(r, id)) : t = [kind |-> e.kind, concept |-> e.concept]
<1> DEFINE top(k) == Dashboard!RankOf(r, k) <= TopConcepts
           moved(k) == Dashboard!RankOf(q, k) - Dashboard!RankOf(r, k)
           up(k) == top(k) /\ moved(k) >= MinMove
           down(k) == top(k) /\ -moved(k) >= MinMove
           other(k) == /\ top(k) /\ Dashboard!RankOf(q, k) <= LeaderConcepts
                       /\ Dashboard!RankOf(r, k) <= LeaderConcepts
                       /\ Dashboard!LeaderOf(q, k) # Dashboard!LeaderOf(r, k)
           change(kind, k) == [kind |-> kind, concept |-> k]
           turned == Dashboard!BreadthOf(q) # Dashboard!BreadthOf(r)
<1>1. t \in Dashboard!Differences(q, r) <=>
        \/ turned /\ t = change("breadth", 0)
        \/ \E k \in RoundConcepts : \/ up(k) /\ t = change("rank_up", k)
                                    \/ down(k) /\ t = change("rank_down", k)
                                    \/ other(k) /\ t = change("leader", k)
  BY DEF Dashboard!Differences
<1>2. ASSUME NEW k \in RoundConcepts
      PROVE  /\ conceptRanks[k] = Dashboard!RankOf(q, k) /\ conceptRanks[k] # 0
             /\ conceptLeaders[k] = IF Dashboard!RankOf(q, k) <= LeaderConcepts
                                    THEN Dashboard!LeaderOf(q, k) ELSE 0
             /\ Dashboard!LeaderOf(q, k) # 0
  <2>1. conceptRanks[k] = Dashboard!RankOf(q, k)
    BY DEF Dashboard!RanksOf
  <2>2. Dashboard!RankOf(q, k) \in 1 .. Cardinality(RoundConcepts)
    BY RanksApart
  <2>3. conceptLeaders[k] = IF Dashboard!RankOf(q, k) <= LeaderConcepts
                            THEN Dashboard!LeaderOf(q, k) ELSE 0
    BY DEF Dashboard!LeadersOf
  <2>4. Dashboard!RankOf(q, k) # 0
    BY <2>2
  <2> QED
    BY <2>1, <2>3, <2>4, LeaderIsMember
<1> HIDE DEF moved
<1>3. ASSUME NEW k \in RoundConcepts, NEW e
      PROVE  top(k) /\ Told(r, id, k, e) <=>
               \/ up(k) /\ e = Dashboard!Event(id, "rank_up", k)
               \/ down(k) /\ e = Dashboard!Event(id, "rank_down", k)
               \/ other(k) /\ e = Dashboard!Event(id, "leader", k)
  <2>1. Told(r, id, k, e) <=>
          \/ moved(k) >= MinMove /\ e = Dashboard!Event(id, "rank_up", k)
          \/ -moved(k) >= MinMove /\ e = Dashboard!Event(id, "rank_down", k)
          \/ /\ Dashboard!RankOf(q, k) <= LeaderConcepts
             /\ Dashboard!LeaderOf(q, k) # Dashboard!LeaderOf(r, k)
             /\ Dashboard!RankOf(r, k) <= LeaderConcepts
             /\ e = Dashboard!Event(id, "leader", k)
    BY <1>2 DEF Told, moved
  <2> QED
    BY <2>1
<1>4. \A e : e \in Items(Dashboard!EventsOf(r, id)) <=>
         \/ turned /\ e = Dashboard!Event(id, "breadth", 0)
         \/ \E k \in RoundConcepts : top(k) /\ Told(r, id, k, e)
  <2>1. \A e : e \in Items(Dashboard!EventsOf(r, id)) <=>
              \/ e = Dashboard!Event(id, "breadth", 0) /\ Dashboard!BreadthOf(r) # roundBreadth
              \/ \E k \in RoundConcepts :
                   Dashboard!RankOf(r, k) <= TopConcepts /\ Told(r, id, k, e)
    BY EventsTold
  <2> QED
    BY <2>1
<1>5. ASSUME NEW kind, NEW k
      PROVE  /\ Dashboard!Event(id, kind, k).kind = kind
             /\ Dashboard!Event(id, kind, k).concept = k
  BY DEF Dashboard!Event
<1> HIDE DEF top, up, down, other, turned, change
<1>6. ASSUME NEW e \in Items(Dashboard!EventsOf(r, id)), t = [kind |-> e.kind, concept |-> e.concept]
      PROVE  \/ turned /\ t = change("breadth", 0)
             \/ \E k \in RoundConcepts : \/ up(k) /\ t = change("rank_up", k)
                                         \/ down(k) /\ t = change("rank_down", k)
                                         \/ other(k) /\ t = change("leader", k)
  <2>1. CASE turned /\ e = Dashboard!Event(id, "breadth", 0)
    BY <1>5, <1>6, <2>1 DEF change
  <2>2. ASSUME NEW k \in RoundConcepts, top(k), Told(r, id, k, e)
        PROVE  \/ up(k) /\ t = change("rank_up", k)
               \/ down(k) /\ t = change("rank_down", k)
               \/ other(k) /\ t = change("leader", k)
    BY <1>3, <1>5, <1>6, <2>2 DEF change
  <2> QED
    BY <1>4, <2>1, <2>2
<1>7. ASSUME turned, t = change("breadth", 0)
      PROVE  \E e \in Items(Dashboard!EventsOf(r, id)) : t = [kind |-> e.kind, concept |-> e.concept]
  <2>1. Dashboard!Event(id, "breadth", 0) \in Items(Dashboard!EventsOf(r, id))
    BY <1>4, <1>7
  <2> QED
    BY <1>5, <1>7, <2>1 DEF change
<1>8. ASSUME NEW k \in RoundConcepts, NEW kind, t = change(kind, k),
             \/ up(k) /\ kind = "rank_up"
             \/ down(k) /\ kind = "rank_down"
             \/ other(k) /\ kind = "leader"
      PROVE  \E e \in Items(Dashboard!EventsOf(r, id)) : t = [kind |-> e.kind, concept |-> e.concept]
  <2>1. top(k) /\ Told(r, id, k, Dashboard!Event(id, kind, k))
    BY <1>3, <1>8
  <2>2. Dashboard!Event(id, kind, k) \in Items(Dashboard!EventsOf(r, id))
    BY <1>4, <2>1
  <2> QED
    BY <1>5, <1>8, <2>2 DEF change
<1> QED
  BY <1>1, <1>6, <1>7, <1>8

\* Events of a round, and events without their round.
OfRound(events, id) == {x \in Items(events) : x.round = id}
Bare(events) == {[kind |-> e.kind, concept |-> e.concept] : e \in events}

LEMMA SameEvent ==
  ASSUME NEW x \in RoundEvent, NEW y \in RoundEvent,
         x.round = y.round, x.kind = y.kind, x.concept = y.concept
  PROVE  x = y
<1>1. \A e \in RoundEvent : e = [round |-> e.round, kind |-> e.kind, concept |-> e.concept]
  BY DEF RoundEvent
<1> QED
  BY <1>1

\* The events of a round in the history it leaves are what is different: all of it, or as much
\* as a round may tell or the history may keep.
LEMMA RoundTells ==
  ASSUME NEW old \in Seq(RoundEvent), NEW told \in Seq(RoundEvent), Once(told), NEW id \in Nat,
         \A e \in Items(old) : e.round # id, \A e \in Items(told) : e.round = id,
         NEW events, events = Dashboard!Last(old \o Dashboard!First(told, RoundEvents), KeptEvents),
         NEW new, new = Bare(OfRound(events, id)), NEW changes, changes = Bare(Items(told))
  PROVE  \/ new = changes
         \/ new \subseteq changes /\ Cardinality(new) = RoundEvents
         \/ new \subseteq changes /\ Len(events) = KeptEvents
<1> DEFINE bare(e) == [kind |-> e.kind, concept |-> e.concept]
<1>1. PICK fresh : fresh = Dashboard!First(told, RoundEvents)
  OBVIOUS
<1>2. KeptEvents \in Nat /\ RoundEvents \in Nat
  BY RoundAssumption
<1>3. /\ fresh \in Seq(RoundEvent) /\ Once(fresh) /\ Items(fresh) \subseteq Items(told)
      /\ Len(fresh) = RoundEvents \/ Items(fresh) = Items(told)
  BY <1>1, <1>2, FirstKept
<1>4. PICK all : all = old \o fresh
  OBVIOUS
<1>5. all \in Seq(RoundEvent) /\ Items(all) = Items(old) \union Items(fresh)
  <2>1. Items(old) \cap Items(fresh) = {}
    BY <1>3
  <2>2. all \in Seq(RoundEvent)
    BY <1>3, <1>4
  <2>3. /\ Len(all) = Len(old) + Len(fresh) /\ Len(old) \in Nat /\ Len(fresh) \in Nat
        /\ \A i \in 1 .. Len(all) : all[i] = IF i <= Len(old) THEN old[i] ELSE fresh[i - Len(old)]
    BY <1>3, <1>4
  <2>4. ASSUME NEW i \in 1 .. Len(old) PROVE old[i] \in Items(all)
    <3>1. i \in 1 .. Len(all) /\ i <= Len(old)
      BY <2>3
    <3> QED
      BY <2>3, <3>1 DEF Items
  <2>5. ASSUME NEW i \in 1 .. Len(fresh) PROVE fresh[i] \in Items(all)
    <3>1. i + Len(old) \in 1 .. Len(all) /\ ~(i + Len(old) <= Len(old)) /\ (i + Len(old)) - Len(old) = i
      BY <2>3
    <3>2. all[i + Len(old)] = fresh[i]
      BY <2>3, <3>1
    <3> QED
      BY <3>1, <3>2 DEF Items
  <2>6. ASSUME NEW i \in 1 .. Len(all) PROVE all[i] \in Items(old) \union Items(fresh)
    <3>1. \/ i \in 1 .. Len(old) /\ all[i] = old[i]
          \/ i - Len(old) \in 1 .. Len(fresh) /\ all[i] = fresh[i - Len(old)]
      BY <2>3
    <3> QED
      BY <3>1 DEF Items
  <2>7. \A x \in Items(all) : x \in Items(old) \union Items(fresh)
    BY <2>6 DEF Items
  <2>8. \A x \in Items(old) \union Items(fresh) : x \in Items(all)
    BY <2>4, <2>5 DEF Items
  <2> QED
    BY <2>2, <2>7, <2>8
<1>6. events = Dashboard!Last(all, KeptEvents)
  BY <1>1, <1>4
<1>7. /\ Items(events) \subseteq Items(all)
      /\ Len(events) = KeptEvents \/ Items(events) = Items(all)
  BY <1>2, <1>5, <1>6, LastKept
<1>8. ASSUME NEW x \in Items(events), x.round = id
      PROVE  x \in Items(fresh)
  BY <1>5, <1>7, <1>8
<1>9. \A t \in new : \E e \in Items(fresh) : t = bare(e)
  BY <1>8 DEF Bare, OfRound
<1>10. new \subseteq changes
  BY <1>3, <1>9 DEF Bare
<1>11. CASE Items(events) = Items(all)
  <2>1. new = {bare(e) : e \in Items(fresh)}
    <3>1. \A e \in Items(fresh) : e \in Items(events) /\ e.round = id
      BY <1>3, <1>5, <1>11
    <3>2. \A e \in Items(fresh) : bare(e) \in new
      BY <3>1 DEF Bare, OfRound
    <3> HIDE DEF bare
    <3> QED
      BY <1>9, <3>2
  <2>2. CASE Items(fresh) = Items(told)
    BY <2>1, <2>2 DEF Bare
  <2>3. CASE Len(fresh) = RoundEvents
    <3> DEFINE kinds == [i \in 1 .. Len(fresh) |-> bare(fresh[i])]
    <3>1. kinds \in Seq([kind : Kinds, concept : RoundConcepts \union {0}]) /\ Len(kinds) = Len(fresh)
      <4>1. Len(fresh) \in Nat
        BY <1>3
      <4>2. \A i \in 1 .. Len(fresh) : fresh[i] \in RoundEvent
        BY <1>3
      <4>3. \A i \in 1 .. Len(fresh) : bare(fresh[i]) \in [kind : Kinds, concept : RoundConcepts \union {0}]
        BY <4>2 DEF RoundEvent
      <4> HIDE DEF bare
      <4> QED
        BY <4>1, <4>3
    <3>2. Once(kinds)
      <4> SUFFICES ASSUME NEW i \in 1 .. Len(fresh), NEW j \in 1 .. Len(fresh),
                          bare(fresh[i]) = bare(fresh[j])
                   PROVE  i = j
        BY <3>1 DEF Once
      <4>1. fresh[i] \in RoundEvent /\ fresh[j] \in RoundEvent
        BY <1>3
      <4>2. fresh[i].round = id /\ fresh[j].round = id
        BY <1>3 DEF Items
      <4>3. fresh[i].kind = fresh[j].kind /\ fresh[i].concept = fresh[j].concept
        OBVIOUS
      <4>4. fresh[i] = fresh[j]
        BY <4>1, <4>2, <4>3, SameEvent
      <4> QED
        BY <1>3, <4>4 DEF Once
    <3>3. Items(kinds) = new
      <4>1. Items(kinds) = {bare(e) : e \in Items(fresh)}
        <5> HIDE DEF bare
        <5>1. Items(kinds) = {kinds[i] : i \in 1 .. Len(fresh)}
          BY <3>1 DEF Items
        <5> QED
          BY <5>1 DEF Items
      <4> QED
        BY <2>1, <4>1
    <3> HIDE DEF kinds
    <3>4. Cardinality(Items(kinds)) = Len(kinds)
      BY <3>1, <3>2, OnceCounts
    <3> QED
      BY <1>10, <2>3, <3>1, <3>3, <3>4
  <2> QED
    BY <1>3, <2>2, <2>3
<1> QED
  BY <1>7, <1>10, <1>11

\* The events of a round are what changed since the last round of the process.
LEMMA EventsHold ==
  ASSUME RoundInv, part = "board", [Dashboard!Next]_roundVars
  PROVE  Dashboard!EventsTrue
<1> SUFFICES ASSUME roundHistory'.points # roundHistory.points, roundCount' # roundCount,
                    quotesDay = roundDay
             PROVE  LET told == Dashboard!Differences(roundQuotes, roundQuotes') IN
                    \/ Dashboard!NewEvents = told
                    \/ Dashboard!NewEvents \subseteq told
                       /\ Cardinality(Dashboard!NewEvents) = RoundEvents
                    \/ Dashboard!NewEvents \subseteq told
                       /\ Len(roundHistory'.events) = KeptEvents
  BY DEF Dashboard!EventsTrue, Dashboard!Cardinality, Cardinality
<1>1. /\ roundDay \in Nat \ {0} /\ roundCount \in Nat /\ roundHistory \in History
      /\ Past(roundHistory, roundCount) /\ roundHistory.points # <<>>
      /\ roundHistory.day = roundDay /\ roundQuotes \in Dashboard!Quotes
      /\ conceptRanks = Dashboard!RanksOf(roundQuotes)
      /\ conceptLeaders = Dashboard!LeadersOf(roundQuotes)
      /\ roundBreadth = Dashboard!BreadthOf(roundQuotes)
      /\ Dashboard!Hydrated = roundHistory
  BY RestoredHistory DEF RoundInv
<1>2. Dashboard!AcceptRound
  BY DEF Dashboard!Next, Dashboard!PageRequest, Dashboard!OtherLeads, Dashboard!Restart,
         Dashboard!NextDay, roundVars
<1>3. PICK id : id = roundCount + 1
  OBVIOUS
<1>4. id \in Nat /\ roundCount' = id /\ roundCount < id
  BY <1>1, <1>2, <1>3 DEF Dashboard!AcceptRound
<1>5. PICK q \in Dashboard!Quotes : Dashboard!SameDayRound(q)
  BY <1>1, <1>2 DEF Dashboard!AcceptRound, Dashboard!FirstRound
<1>6. roundQuotes' = q /\ roundHistory' = Dashboard!Recorded(roundHistory, q, id)
  BY <1>1, <1>3, <1>5 DEF Dashboard!SameDayRound, Dashboard!Remembers
<1>7. PICK told : told = Dashboard!EventsOf(q, id)
  OBVIOUS
<1>8. PICK old, events : old = roundHistory.events /\ events = roundHistory'.events
  OBVIOUS
<1>9. events = Dashboard!Last(old \o Dashboard!First(told, RoundEvents), KeptEvents)
  BY <1>1, <1>6, <1>7, <1>8 DEF Dashboard!Recorded
<1>10. told \in Seq(RoundEvent) /\ Once(told) /\ \A e \in Items(told) : e.round = id
  BY <1>4, <1>7, EventsTold, EventOfRound
<1>11. old \in Seq(RoundEvent) /\ \A e \in Items(old) : e.round # id
  <2>1. old \in Seq(RoundEvent)
    BY <1>1, <1>8 DEF History
  <2>2. ASSUME NEW i \in 1 .. Len(old) PROVE old[i].round # id
    <3>1. old[i] \in RoundEvent
      BY <2>1
    <3>2. old[i].round \in Nat
      BY <3>1 DEF RoundEvent
    <3>3. old[i].round <= roundCount
      BY <1>1, <1>8 DEF Past
    <3> QED
      BY <1>1, <1>4, <3>2, <3>3
  <2> QED
    BY <2>1, <2>2 DEF Items
<1>12. PICK new, changes : new = Bare(OfRound(events, id)) /\ changes = Bare(Items(told))
  OBVIOUS
<1>13. \/ new = changes
       \/ new \subseteq changes /\ Cardinality(new) = RoundEvents
       \/ new \subseteq changes /\ Len(events) = KeptEvents
  BY <1>4, <1>9, <1>10, <1>11, <1>12, RoundTells
<1>14. changes = Dashboard!Differences(roundQuotes, roundQuotes')
  <2>1. \A t : t \in Dashboard!Differences(roundQuotes, q) <=>
           \E e \in Items(told) : t = [kind |-> e.kind, concept |-> e.concept]
    BY <1>1, <1>4, <1>7, ToldIsDifferent
  <2>2. \A t : t \in Dashboard!Differences(roundQuotes, q) <=> t \in changes
    BY <1>12, <2>1 DEF Bare
  <2> QED
    BY <1>6, <2>2
<1>15. new = Dashboard!NewEvents
  <2>1. events \in Seq(RoundEvent)
    <3>1. PICK fresh : fresh = Dashboard!First(told, RoundEvents)
      OBVIOUS
    <3>2. RoundEvents \in Nat /\ KeptEvents \in Nat
      BY RoundAssumption
    <3>3. fresh \in Seq(RoundEvent)
      BY <1>10, <3>1, <3>2, FirstKept
    <3>4. old \o fresh \in Seq(RoundEvent)
      BY <1>11, <3>3
    <3> QED
      BY <1>9, <3>1, <3>2, <3>4, LastKept
  <2>2. Items(events) = {events[i] : i \in DOMAIN events}
    BY <2>1 DEF Items
  <2> QED
    BY <1>4, <1>8, <1>12, <2>2 DEF Bare, OfRound, Dashboard!NewEvents
<1> QED
  BY <1>8, <1>13, <1>14, <1>15

-----------------------------------------------------------------------------
(* What each part promises                                                 *)

\* Through takeovers, restarts and writes at once an instance that takes over finds in Redis
\* every minute bar of the day that any instance shows, but for what is being written, what
\* a failed write carried and what came while it was still to be written as it was before
\* (_minute_cache_fields, _hydrate_stock_cache of the realtime service).
THEOREM BarsAreShared == ServicesSpec => [](part = "bars" => Shared!SharedWhole)
<1>1. ServicesInit => BarsInv
  BY BarsStart
<1>2. BarsInv /\ [ServicesNext]_servicesVars => BarsInv'
  BY BarsSteps
<1>3. BarsInv => (part = "bars" => Shared!SharedWhole)
  BY BarsWhole
<1> QED
  BY <1>1, <1>2, <1>3, PTL DEF ServicesSpec

\* The answer of a query tells where its rows come from, and which adapters were asked before
\* and failed, in every mode (query_model and the adapters' fallback).
THEOREM AnswersTellTheirSource == ServicesSpec => [](part = "query" => Market!EnvelopeTrue)
<1>1. ServicesInit => QueryInv
  BY QueryStart
<1>2. QueryInv /\ [ServicesNext]_servicesVars => QueryInv'
  BY QuerySteps
<1>3. QueryInv => (part = "query" => Market!EnvelopeTrue)
  BY QueriesTrue
<1> QED
  BY <1>1, <1>2, <1>3, PTL DEF ServicesSpec

\* A pool that is kept by a rule has no members, the whole market is no realtime target, and
\* a target is listed and shown unless a strategy bought the stock, whatever the clients do at
\* once (stock_pool, pool_reference of the realtime market).
THEOREM PoolsAreSound == ServicesSpec => [](part = "pool" => Pooled!PoolsSound)
<1>1. ServicesInit => PoolInv
  BY PoolStart
<1>2. PoolInv /\ [ServicesNext]_servicesVars => PoolInv'
  BY PoolSteps
<1>3. PoolInv => (part = "pool" => Pooled!PoolsSound)
  BY PoolsStaySound
<1> QED
  BY <1>1, <1>2, <1>3, PTL DEF ServicesSpec

\* A round asks TickFlow with one key, whatever is edited or tested while it runs.
THEOREM OneKeyPerRound == ServicesSpec => [](part = "config" => Centre!PoolOfOneKey)
<1>1. ServicesInit => KeyInv
  BY KeyStart
<1>2. KeyInv /\ [ServicesNext]_servicesVars => KeyInv'
  BY KeySteps
<1>3. KeyInv => (part = "config" => Centre!PoolOfOneKey)
  BY DEF KeyInv
<1> QED
  BY <1>1, <1>2, <1>3, PTL DEF ServicesSpec

\* A chain of skills runs one process at a time, and the rows it leaves tell what was tried
\* and how it ended (the skill runtime).
THEOREM ChainsAreSound == ServicesSpec => [](part = "skill" => Skill!SkillsSound)
<1>1. ServicesInit => SkillInv
  BY SkillStart
<1>2. SkillInv /\ [ServicesNext]_servicesVars => SkillInv'
  BY SkillSteps
<1>3. SkillInv => (part = "skill" => Skill!SkillsSound)
  BY SkillsStaySound
<1> QED
  BY <1>1, <1>2, <1>3, PTL DEF ServicesSpec

\* A board after the close has the day's limit-ups, and no stock stands higher on it than its
\* run of limit-ups reaches.
THEOREM LaddersAreTrue == ServicesSpec => [](part = "ladder" => Ladder!BoardTrue)
<1>1. ServicesInit => LadderInv
  BY LadderStart
<1>2. LadderInv /\ [ServicesNext]_servicesVars => LadderInv'
  BY LadderSteps
<1>3. LadderInv => (part = "ladder" => Ladder!BoardTrue)
  BY LadderTrue
<1> QED
  BY <1>1, <1>2, <1>3, PTL DEF ServicesSpec

\* The review of a date whose facts have not changed has the evidence and the boards of the
\* date's events, whichever run wrote the summary last.
THEOREM ReviewsAreSound == ServicesSpec => [](part = "review" => Daily!BoardsSound)
<1>1. ServicesInit => ReviewInv
  BY ReviewStart
<1>2. ReviewInv /\ [ServicesNext]_servicesVars => ReviewInv'
  BY ReviewSteps
<1>3. ReviewInv => (part = "review" => Daily!BoardsSound)
  BY ReviewsSound
<1> QED
  BY <1>1, <1>2, <1>3, PTL DEF ServicesSpec

\* A full calculation of a factor row overwrites no value of the provider, and leaves the
\* whole technical core when the bar and the factor are stored.
THEOREM RowsComplete ==
  ServicesSpec => [][part = "row" => Factor!CalculationCompletes]_servicesVars
<1> DEFINE Step == part = "row" => Factor!CalculationCompletes
<1>1. ServicesInit => RowInv
  BY RowStart
<1>2. RowInv /\ [ServicesNext]_servicesVars => RowInv'
  BY RowSteps
<1>3. RowInv /\ [ServicesNext]_servicesVars => Step
  <2> SUFFICES ASSUME RowInv, [ServicesNext]_servicesVars, part = "row"
               PROVE  Factor!CalculationCompletes
    OBVIOUS
  <2> QED
    BY RowCompletes DEF Factor!CalculationCompletes
<1> HIDE DEF Step
<1>4. RowInv /\ [ServicesNext]_servicesVars => [Step]_servicesVars
  BY <1>3
<1>5. [][Step]_servicesVars <=> [][part = "row" => Factor!CalculationCompletes]_servicesVars
  BY DEF Step
<1> QED
  BY <1>1, <1>2, <1>4, <1>5, PTL DEF ServicesSpec

\* A test that is recorded makes no key available that was not, and a round that takes a key of
\* TickFlow takes an available one whose test found every capability.
THEOREM KeysAreTaken ==
  ServicesSpec => [][part = "config" => Centre!KeysSound]_servicesVars
<1> DEFINE Step == part = "config" => Centre!KeysSound
<1>1. ServicesInit => KeyInv
  BY KeyStart
<1>2. KeyInv /\ [ServicesNext]_servicesVars => KeyInv'
  BY KeySteps
<1>3. KeyInv /\ [ServicesNext]_servicesVars => Step
  <2> SUFFICES ASSUME KeyInv, [ServicesNext]_servicesVars, part = "config"
               PROVE  Centre!KeysSound
    OBVIOUS
  <2>1. [Centre!Next]_keyVars
    BY DEF ServicesNext, servicesVars, keyVars
  <2> QED
    BY <2>1, KeysStaySound
<1> HIDE DEF Step
<1>4. KeyInv /\ [ServicesNext]_servicesVars => [Step]_servicesVars
  BY <1>3
<1>5. [][Step]_servicesVars <=> [][part = "config" => Centre!KeysSound]_servicesVars
  BY DEF Step
<1> QED
  BY <1>1, <1>2, <1>4, <1>5, PTL DEF ServicesSpec

\* A board read from rows of audited dates puts every stock on the rung it reached: the count
\* the query makes day by day is the length of the run.
THEOREM RungsAreReached ==
  ServicesSpec => [][part = "ladder" => Ladder!RungsExplained]_servicesVars
<1> DEFINE Step == part = "ladder" => Ladder!RungsExplained
<1>1. ServicesInit => LadderInv
  BY LadderStart
<1>2. LadderInv /\ [ServicesNext]_servicesVars => LadderInv'
  BY LadderSteps
<1>3. LadderInv /\ [ServicesNext]_servicesVars => Step
  <2> SUFFICES ASSUME LadderInv, [ServicesNext]_servicesVars, part = "ladder"
               PROVE  Ladder!RungsExplained
    OBVIOUS
  <2>1. [Ladder!Next]_ladderVars
    BY DEF ServicesNext, servicesVars, ladderVars
  <2> QED
    BY <2>1, RungsHold
<1> HIDE DEF Step
<1>4. LadderInv /\ [ServicesNext]_servicesVars => [Step]_servicesVars
  BY <1>3
<1>5. [][Step]_servicesVars <=> [][part = "ladder" => Ladder!RungsExplained]_servicesVars
  BY DEF Step
<1> QED
  BY <1>1, <1>2, <1>4, <1>5, PTL DEF ServicesSpec

\* A round of a process that has had an accepted round on this day tells every change since
\* that round and nothing else, as far as a round may tell and the history keeps: whoever led
\* in between, and whatever a page restored (_build_market_events).
THEOREM RoundsTellChanges ==
  ServicesSpec => [][part = "board" => Dashboard!EventsTrue]_servicesVars
<1> DEFINE Step == part = "board" => Dashboard!EventsTrue
<1>1. ServicesInit => RoundInv
  BY RoundStart
<1>2. RoundInv /\ [ServicesNext]_servicesVars => RoundInv'
  BY RoundSteps
<1>3. RoundInv /\ [ServicesNext]_servicesVars => Step
  <2> SUFFICES ASSUME RoundInv, [ServicesNext]_servicesVars, part = "board"
               PROVE  Dashboard!EventsTrue
    OBVIOUS
  <2>1. [Dashboard!Next]_roundVars
    BY DEF ServicesNext, servicesVars, roundVars
  <2> QED
    BY <2>1, EventsHold
<1> HIDE DEF Step
<1>4. RoundInv /\ [ServicesNext]_servicesVars => [Step]_servicesVars
  BY <1>3
<1>5. [][Step]_servicesVars <=> [][part = "board" => Dashboard!EventsTrue]_servicesVars
  BY DEF Step
<1> QED
  BY <1>1, <1>2, <1>4, <1>5, PTL DEF ServicesSpec

-----------------------------------------------------------------------------
(* The parts together                                                      *)

\* Whatever clients, tests, instances and strategies do at once, what the parts serve is sound:
\* the seven invariants above hold together.
THEOREM WhatIsServedIsSound == ServicesSpec => []ServedSound
<1>1. /\ part = "bars" => Shared!SharedWhole
      /\ part = "query" => Market!EnvelopeTrue
      /\ part = "pool" => Pooled!PoolsSound
      /\ part = "config" => Centre!PoolOfOneKey
      /\ part = "skill" => Skill!SkillsSound
      /\ part = "ladder" => Ladder!BoardTrue
      /\ part = "review" => Daily!BoardsSound
      => ServedSound
  BY DEF ServedSound
<1> QED
  BY <1>1, BarsAreShared, AnswersTellTheirSource, PoolsAreSound, OneKeyPerRound, ChainsAreSound,
     LaddersAreTrue, ReviewsAreSound, PTL

\* In every step, what is calculated, recorded or read is complete: the four action
\* properties above hold together.
THEOREM CalculationsComplete == ServicesSpec => CoreCompleted
<1> DEFINE RowStep == part = "row" => Factor!CalculationCompletes
           KeyStep == part = "config" => Centre!KeysSound
           LadderStep == part = "ladder" => Ladder!RungsExplained
           RoundStep == part = "board" => Dashboard!EventsTrue
           Step == /\ part = "row" => Factor!CalculationCompletes
                   /\ part = "config" => Centre!KeysSound
                   /\ part = "ladder" => Ladder!RungsExplained
                   /\ part = "board" => Dashboard!EventsTrue
<1>1. ServicesSpec => [][RowStep]_servicesVars
  BY RowsComplete DEF RowStep
<1>2. ServicesSpec => [][KeyStep]_servicesVars
  BY KeysAreTaken DEF KeyStep
<1>3. ServicesSpec => [][LadderStep]_servicesVars
  BY RungsAreReached DEF LadderStep
<1>4. ServicesSpec => [][RoundStep]_servicesVars
  BY RoundsTellChanges DEF RoundStep
<1>5. CoreCompleted <=> [][Step]_servicesVars
  BY DEF CoreCompleted, Step
<1>6. [RowStep]_servicesVars /\ [KeyStep]_servicesVars /\ [LadderStep]_servicesVars
      /\ [RoundStep]_servicesVars => [Step]_servicesVars
  BY DEF RowStep, KeyStep, LadderStep, RoundStep, Step
<1> HIDE DEF RowStep, KeyStep, LadderStep, RoundStep, Step
<1> QED
  BY <1>1, <1>2, <1>3, <1>4, <1>5, <1>6, PTL
=============================================================================
