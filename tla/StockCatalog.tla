---------------------------- MODULE StockCatalog ----------------------------
(***************************************************************************)
(* The master data of stocks and the universes of TickFlow                 *)
(* (market_data/sync_service.py, sync_stock_basic).  A run takes the list  *)
(* of the first provider that answers with enough stocks, merges it with   *)
(* the stored rows, and, when the list is AkShare's, adds details and      *)
(* marks the stocks of the lists of delisted ones.  The universes follow,  *)
(* with the history of their members.  Each part is a transaction of its   *)
(* own, and the process may end between any two.                           *)
(***************************************************************************)
EXTENDS Integers, FiniteSets

CONSTANTS Mainland,     \* stocks of Shanghai and Shenzhen
          Foreign,      \* stocks of Beijing, kept out of the daily universe
          MinExpected,  \* a list with fewer stocks is not taken
          Universes,
          LastDay,      \* bound: days
          MaxRuns       \* bound: runs

Stocks == Mainland \union Foreign
Sources == {"tushare", "akshare", "mootdx"}
Open == LastDay + 1             \* valid_to of a member that still is one

VARIABLES status,    \* stock -> its status; "none": no row
          members,   \* the rows of members: universe, stock, valid_from, valid_to
          hashes,    \* universe -> the stored hash of its entry; 0: no row
          answered,  \* universe -> the members it was last answered with
          run,
          today,
          runs

vars == <<status, members, hashes, answered, run, today, runs>>

Idle == [phase |-> "idle", source |-> "none", delisted |-> {}, targets |-> <<>>]

Init ==
  /\ status = [s \in Stocks |-> "none"]
  /\ members = {}
  /\ hashes = [u \in Universes |-> 0]
  /\ answered = [u \in Universes |-> {}]
  /\ run = Idle
  /\ today = 1
  /\ runs = 0

-----------------------------------------------------------------------------
(* The list of stocks.                                                     *)

\* What a provider says of a stock: nothing, its list status ("marked": the
\* name carries the marker of a delisted stock); only Tushare knows the paused
\* and the delisted ones.
Lists(source) ==
  [Stocks -> {"absent", "listed", "marked"} \union
             (IF source = "tushare" THEN {"paused", "delisted"} ELSE {})]

\* The lists AkShare has of delisted stocks; one that cannot be read adds none.
DelistLists(source) == IF source = "akshare" THEN SUBSET Mainland ELSE {{}}

\* The status a stock is normalized to: a stock of Beijing is kept only as an
\* excluded one, and the name outweighs the list status.
StatusOf(source, s, said) ==
  CASE said = "absent" -> "none"
    [] said # "absent" /\ s \in Foreign -> IF source = "tushare" THEN "excluded" ELSE "none"
    [] said \in {"marked", "delisted"} /\ s \in Mainland -> "delisted"
    [] said = "paused" /\ s \in Mainland -> "suspended"
    [] said = "listed" /\ s \in Mainland -> "active"

\* _normalize_stock_basic_rows
Normalized(source, list) == [s \in Stocks |-> StatusOf(source, s, list[s])]

Enough(source, rows) ==
  \/ source = "mootdx"
  \/ Cardinality({s \in Stocks : rows[s] \in {"active", "suspended", "delisted"}}) >= MinExpected

Held == {"excluded", "delisted", "suspended"}

\* _merge_stock_row: what only Tushare may end.
Merged(s, incoming, source) ==
  IF status[s] \in Held /\ source # "tushare" THEN status[s] ELSE incoming

\* upsert_stock_rows, of rows merged with the stored ones.
Upserted(rows, source) ==
  [s \in Stocks |-> IF rows[s] = "none" THEN status[s] ELSE Merged(s, rows[s], source)]

\* The providers are asked in turn, the one wanted first; any of them may be
\* the first whose list is taken.  When none is, the run raises.
StoreList(wanted, fallback) ==
  /\ run = Idle /\ runs < MaxRuns
  /\ runs' = runs + 1
  /\ \/ \E source \in {wanted} \union (IF fallback THEN Sources ELSE {}) :
        \E list \in Lists(source) :
          LET rows == Normalized(source, list)
          IN /\ Enough(source, rows)
             /\ status' = Upserted(rows, source)
             /\ \E delisted \in DelistLists(source) :
                  run' = [phase |-> IF source = "akshare" THEN "detail" ELSE "universes",
                          source |-> source, targets |-> <<>>,
                          delisted |-> delisted \union {s \in Stocks : rows[s] = "delisted"}]
     \/ UNCHANGED <<status, run>>
  /\ UNCHANGED <<members, hashes, answered, today>>

\* list_stocks_for_detail: some of the stocks that are traded, as they are now.
ReadTargets ==
  /\ run.phase = "detail" /\ run.targets = <<>>
  /\ \E targets \in SUBSET {s \in Mainland : status[s] \in {"active", "suspended"}} :
       run' = IF targets = {} THEN [run EXCEPT !.phase = "delist"]
              ELSE [run EXCEPT !.targets = [s \in targets |-> status[s]]]
  /\ UNCHANGED <<status, members, hashes, answered, today, runs>>

\* The details that could be fetched are merged with the rows as they are by
\* then; the status is the one that was read.
StoreDetails ==
  /\ run.phase = "detail" /\ run.targets # <<>>
  /\ \E fetched \in SUBSET DOMAIN run.targets :
       status' = Upserted([s \in Stocks |-> IF s \in fetched THEN run.targets[s] ELSE "none"],
                          run.source)
  /\ run' = [run EXCEPT !.phase = "delist"]
  /\ UNCHANGED <<members, hashes, answered, today, runs>>

\* update_stock_statuses
Marked(codes) ==
  [s \in Stocks |-> IF s \in codes /\ status[s] # "none" THEN "delisted" ELSE status[s]]

\* mark_delisted: the stored stocks of the lists of delisted ones.
MarkDelisted ==
  /\ run.phase = "delist"
  /\ status' = Marked(run.delisted)
  /\ run' = [run EXCEPT !.phase = "universes", !.targets = <<>>]
  /\ UNCHANGED <<members, hashes, answered, today, runs>>

-----------------------------------------------------------------------------
(* The universes.                                                          *)

Row(u, s) == [universe |-> u, stock |-> s, from |-> today, to |-> Open]
OpenRows(u) == {r \in members : r.universe = u /\ r.to = Open}
Active(u) == {r.stock : r \in OpenRows(u)}
HasRow(u, s) == \E r \in members : r.universe = u /\ r.stock = s /\ r.from = today

Leaving(u, incoming) == {r \in OpenRows(u) : r.stock \notin incoming}

\* A stock that was added and removed today has a row with this key already,
\* which stays closed.
Joining(u, incoming) ==
  {Row(u, s) : s \in {t \in incoming \ Active(u) : ~HasRow(u, t)}}

\* replace_market_universe_members
Replaced(u, incoming) ==
  ({r \in members : r.universe = u} \ Leaving(u, incoming))
    \union {[r EXCEPT !.to = today] : r \in Leaving(u, incoming)}
    \union Joining(u, incoming)

\* The entries whose hash is not the stored one.
Changed(entry) == {u \in Universes : hashes[u] # entry[u]}

\* Entries with another hash than the stored one have their members fetched;
\* one the answer leaves out has none.  One transaction: a failure leaves all
\* as it was, and is noted.
SyncUniverses ==
  /\ run.phase = "universes"
  /\ \/ \E entry \in [Universes -> 1 .. 2] :
          LET changed == Changed(entry)
          IN \E incoming \in [changed -> SUBSET Mainland] :
               /\ hashes' = entry
               /\ members' = {r \in members : r.universe \notin changed} \union
                             UNION {Replaced(u, incoming[u]) : u \in changed}
               /\ answered' = [u \in Universes |->
                                 IF u \in changed THEN incoming[u] ELSE answered[u]]
     \/ UNCHANGED <<hashes, members, answered>>
  /\ run' = Idle
  /\ UNCHANGED <<status, today, runs>>

Stop ==
  /\ run # Idle
  /\ run' = Idle
  /\ UNCHANGED <<status, members, hashes, answered, today, runs>>

NextDay ==
  /\ today < LastDay
  /\ today' = today + 1
  /\ UNCHANGED <<status, members, hashes, answered, run, runs>>

-----------------------------------------------------------------------------
Next ==
  \/ \E wanted \in Sources, fallback \in BOOLEAN : StoreList(wanted, fallback)
  \/ ReadTargets
  \/ StoreDetails
  \/ MarkDelisted
  \/ SyncUniverses
  \/ Stop
  \/ NextDay

Spec == Init /\ [][Next]_vars

-----------------------------------------------------------------------------
\* A stock that is delisted, suspended or out of the universe trades again only
\* by a list of Tushare, whichever list, detail or mark comes in between.
OnlyTushareRevives ==
  \A s \in Stocks : status[s] \in Held /\ status'[s] # status[s] =>
    status'[s] = "delisted" \/ run'.source = "tushare"

\* The history of a universe is one of its members: on no day does a stock
\* count twice, what is closed stays as it is, and no stock is a member that
\* the last answer left out.
HistoryKept ==
  /\ \A r \in members : r.to # Open => r \in members'
  /\ \A r, q \in members' :
       r.universe = q.universe /\ r.stock = q.stock /\ r # q =>
         r.to =< q.from \/ q.to =< r.from
  /\ \A r \in members' : r.to = Open => r.stock \in answered'[r.universe]

MasterStep == OnlyTushareRevives /\ HistoryKept
=============================================================================
