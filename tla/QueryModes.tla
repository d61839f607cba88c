----------------------------- MODULE QueryModes -----------------------------
(***************************************************************************)
(* The queries of market data (modules/market_data/service.py): a request  *)
(* reads the database, asks engines in turn or does both, as its mode      *)
(* says, and stores what an engine answered.  Requests overlap with each   *)
(* other and with the ingest.                                              *)
(*                                                                         *)
(* A behaviour is about one capability and one target of it.  Its rows are *)
(* told apart by a day (an item, where a capability has no dates), by the  *)
(* source that wrote them and by the code they are stored under: the one   *)
(* that was asked for, a prefixed form of it, or another.  Of an adapter   *)
(* (providers.py, tushare_mappers.py) a definition keeps those, and which  *)
(* days the adapter is told to return.                                     *)
(***************************************************************************)
EXTENDS Integers, FiniteSets, Sequences

CONSTANTS
  Clients,    \* the requests that may be under way at once
  LastDay,    \* bound: the days (or the items) there are
  Limit,      \* the rows a request asks for
  MaxTurns    \* bound: requests, stored days of the ingest, days that pass

VARIABLES
  cap,      \* the capability
  today,
  stored,   \* the rows of its table
  audits,   \* the engines whose answers were audited, in the order of the audit ids
  request,  \* request[q]: what a request has asked, read and answered
  turns

vars == <<cap, today, stored, audits, request, turns>>

Days == 1 .. LastDay
\* A refresh is treated as provider_first is.
Modes == {"db_first", "db_only", "provider_first", "provider_only"}
Known == {"tushare", "akshare", "mootdx"}
ReadsFirst == {"db_first", "db_only"}

(* ------------------------------- the adapters ----------------------------- *)

\* An adapter's answer: its source, the codes it may store rows under, and the days it
\* returns: of the range, the last ones up to the limit, today's, or any; "none" raises.
Gives(source, under, days) == [source |-> source, under |-> under, days |-> days]
Asked == {"asked"}

TushareStock == Gives("tushare:stock_basic", Asked, "any")
TushareDaily == Gives("tushare:daily", Asked, "range")
TushareSectors == Gives("tushare:ths_index", Asked, "any")
TushareThsMembers == Gives("tushare:ths_member", Asked, "any")
TushareSwMembers == Gives("tushare:index_member_all:SW2021", Asked, "any")
TushareIndexes == Gives("tushare:index_basic", {"asked", "other"}, "any")
TushareIndexMembers == Gives("tushare:index_weight", Asked, "any")
TushareIndexBars == Gives("tushare:index_daily", Asked, "range")
TushareFlow == Gives("tushare:moneyflow", Asked, "range")
TushareLhb == Gives("tushare:top_list", Asked, "range")
TushareNotices == Gives("tushare:anns_d", Asked, "range")
AkStock == Gives("akshare:stock_individual_info_em", Asked, "any")
AkDaily == Gives("akshare_qfq", Asked, "range")
AkMinutes == Gives("akshare", Asked, "range")
AkQuote == Gives("akshare", Asked, "today")
AkTicks == Gives("akshare:stock_zh_a_tick_tx_js", Asked, "today")
AkSectors == Gives("akshare:stock_board", Asked, "any")
AkMembers == Gives("akshare:stock_board_cons", Asked, "any")
AkSectorBars == Gives("akshare:stock_board_hist_em", Asked, "range")
AkIndexes == Gives("akshare:stock_zh_index_spot_em", {"asked", "other"}, "any")
AkIndexMembers == Gives("akshare:index_stock_cons", {"asked", "other"}, "any")
AkIndexBars == Gives("akshare:stock_zh_index_daily_em", {"asked", "prefixed"}, "range")
AkFlow == Gives("akshare:stock_individual_fund_flow", Asked, "range")
AkSectorFlow == Gives("akshare:stock_fund_flow", Asked, "today")
AkLhb == Gives("akshare:stock_lhb_detail_em", Asked, "range")
AkNotices == Gives("akshare:stock_zh_a_disclosure_report_cninfo", Asked, "range")
TdxStock == Gives("mootdx:stocks", Asked, "any")
TdxDaily == Gives("mootdx", Asked, "last")
TdxMinutes == Gives("mootdx", Asked, "today")
TdxQuote == Gives("mootdx", Asked, "today")
TdxTicks == Gives("mootdx:transaction", Asked, "any")
TdxSectors == Gives("mootdx:block", {"other"}, "any")
TdxMembers == Gives("mootdx:block", Asked, "any")
TdxIndexBars == Gives("mootdx:index", {"asked", "other"}, "last")
Nothing == Gives("none", {}, "none")

(* ----------------------------- the capabilities --------------------------- *)

\* A capability: its default engines and their adapters, whether its rows have dates, the
\* source is part of their key, an answer is cut to the limit, stored rows go stale, and
\* an empty answer counts as one.
Calls(t, a, m) == [tushare |-> t, akshare |-> a, mootdx |-> m]
Plain(engines, calls, dated) ==
  [engines |-> engines, calls |-> calls, dated |-> dated, bySource |-> FALSE,
   cut |-> FALSE, ages |-> FALSE, empty |-> FALSE]

StockBasic == Plain(<<"tushare", "akshare", "mootdx">>, Calls(TushareStock, AkStock, TdxStock), FALSE)
DailyBars ==
  [Plain(<<"tushare", "akshare", "mootdx">>, Calls(TushareDaily, AkDaily, TdxDaily), TRUE)
    EXCEPT !.cut = TRUE, !.ages = TRUE]
MinuteBars ==
  [Plain(<<"mootdx", "akshare">>, Calls(Nothing, AkMinutes, TdxMinutes), TRUE)
    EXCEPT !.cut = TRUE, !.bySource = TRUE]
Quote ==
  [Plain(<<"mootdx", "akshare">>, Calls(Nothing, AkQuote, TdxQuote), TRUE)
    EXCEPT !.ages = TRUE, !.bySource = TRUE]
Ticks ==
  [Plain(<<"mootdx", "akshare">>, Calls(Nothing, AkTicks, TdxTicks), TRUE) EXCEPT !.bySource = TRUE]
Sectors ==
  Plain(<<"tushare", "akshare", "mootdx">>, Calls(TushareSectors, AkSectors, TdxSectors), FALSE)
\* Tushare knows the members of its own sectors only.
SectorMembers(t) ==
  [Plain(<<"tushare", "akshare", "mootdx">>, Calls(t, AkMembers, TdxMembers), FALSE)
    EXCEPT !.bySource = TRUE]
SectorBars == Plain(<<"akshare">>, Calls(Nothing, AkSectorBars, Nothing), TRUE)
Indexes == Plain(<<"tushare", "akshare">>, Calls(TushareIndexes, AkIndexes, Nothing), FALSE)
IndexMembers ==
  Plain(<<"tushare", "akshare">>, Calls(TushareIndexMembers, AkIndexMembers, Nothing), FALSE)
IndexBars ==
  Plain(<<"tushare", "akshare", "mootdx">>, Calls(TushareIndexBars, AkIndexBars, TdxIndexBars), TRUE)
StockFlow == Plain(<<"tushare", "akshare">>, Calls(TushareFlow, AkFlow, Nothing), TRUE)
SectorFlow == Plain(<<"akshare">>, Calls(Nothing, AkSectorFlow, Nothing), TRUE)
Lhb == [Plain(<<"tushare", "akshare">>, Calls(TushareLhb, AkLhb, Nothing), TRUE) EXCEPT !.empty = TRUE]
Notices ==
  [Plain(<<"tushare", "akshare">>, Calls(TushareNotices, AkNotices, Nothing), TRUE)
    EXCEPT !.bySource = TRUE]
\* The sectors of a stock, and its indicators: whatever the mode, the database alone.
StockSectors == Plain(<<>>, Calls(Nothing, Nothing, Nothing), FALSE)
Indicators == [Plain(<<>>, Calls(Nothing, Nothing, Nothing), TRUE) EXCEPT !.empty = TRUE]

Capabilities ==
  {StockBasic, DailyBars, MinuteBars, Quote, Ticks, Sectors, SectorMembers(TushareThsMembers),
   SectorMembers(TushareSwMembers), SectorMembers(Nothing), SectorBars, Indexes, IndexMembers,
   IndexBars, StockFlow, SectorFlow, Lhb, Notices, StockSectors, Indicators}

(* -------------------------------- the store ------------------------------- *)

Row(day, source, under) == [day |-> day, source |-> source, under |-> under]
SameKey(r, s) ==
  r.day = s.day /\ r.under = s.under /\ (cap.bySource => r.source = s.source)

\* upsert: a row with the key of a new one is replaced, whichever source wrote it.
Upsert(rows) == {r \in stored : \A n \in rows : ~SameKey(r, n)} \union rows

\* The first rows of a set up to the limit, oldest or newest first.
Cut(rows, newest) ==
  {r \in rows : Cardinality({s \in rows : IF newest THEN s.day > r.day ELSE s.day < r.day}) < Limit}

\* What the filters of a request find: newest first, up to the limit.
Found(range) ==
  Cut({r \in stored : /\ r.day \in range
                      /\ r.under = "asked" \/ (cap = IndexBars /\ r.under = "prefixed")}, TRUE)

\* No row is as new as the last day that was asked for, or as today.
IsStale(rows, range) ==
  cap.ages /\ \A r \in rows : r.day < IF range = Days THEN today ELSE CHOOSE d \in range : TRUE

(* -------------------------------- requests -------------------------------- *)

Free == [pc |-> "free"]
Asking(mode, engines, range, old) ==
  [pc |-> "ask", mode |-> mode, engines |-> engines, range |-> range, old |-> old,
   at |-> 1, tried |-> <<>>, answer |-> {}, by |-> "none", ref |-> 0, persisted |-> FALSE,
   missing |-> FALSE]
Done(q, answer, by, missing) ==
  [q EXCEPT !.pc = "done", !.answer = answer, !.by = by, !.missing = missing]

Init ==
  /\ cap \in Capabilities
  /\ today = 1
  /\ stored = {}
  /\ audits = <<>>
  /\ request = [q \in Clients |-> Free]
  /\ turns = 0

Turn == turns < MaxTurns /\ turns' = turns + 1
Others == UNCHANGED <<cap, today>>

\* The engines of a request: the known ones it names, or the default.
Named == {cap.engines, <<"mootdx", "akshare">>}
Engines(named) == IF cap.engines = <<>> THEN <<>> ELSE named

\* A request starts: the database answers it, or it goes on to the engines.
Begin(q) ==
  /\ request[q].pc \in {"free", "done"}
  /\ Turn
  /\ \E mode \in Modes, named \in Named,
        range \in IF cap.dated THEN {Days} \union {{d} : d \in Days} ELSE {Days} :
       LET alone == mode = "db_only" \/ cap.engines = <<>>
           reads == mode \in ReadsFirst \/ alone
           rows  == IF reads THEN Found(range) ELSE {}
           new   == Asking(mode, Engines(named), range, rows)
           found == rows # {} /\ ~IsStale(rows, range)
       IN  request' = [request EXCEPT ![q] =
             IF alone \/ found
             THEN Done(new, rows, IF rows = {} /\ cap # Indicators THEN "none" ELSE "database",
                       rows = {} /\ ~cap.empty)
             ELSE new]
  /\ Others /\ UNCHANGED <<stored, audits>>

Doing(q, pc) == request[q].pc = pc
Engine(q) == request[q].engines[request[q].at]
Adapter(q) == cap.calls[Engine(q)]

\* No engine is left: stale rows of daily bars and of a quote are better than none.
Exhausted(q) ==
  IF cap.ages /\ q.mode = "db_first" /\ q.old # {}
  THEN Done(q, q.old, "database", TRUE)
  ELSE Done(q, {}, "none", TRUE)

GoOn(q, outcome) ==
  LET r == [request[q] EXCEPT !.tried = Append(@, outcome), !.at = @ + 1]
  IN  IF r.at > Len(r.engines) THEN Exhausted(r) ELSE r

\* The engine does not offer the capability, or its call or the audit of it raises.
AskFails(q) ==
  /\ Doing(q, "ask")
  /\ request' = [request EXCEPT ![q] =
       GoOn(q, IF Adapter(q) = Nothing THEN "unsupported" ELSE "raised")]
  /\ Others /\ UNCHANGED <<stored, audits, turns>>

\* The days an adapter may return to a request.
Offered(adapter, range) ==
  LET past == 1 .. (IF cap.dated THEN today ELSE LastDay) IN
  CASE adapter.days = "any" -> past
    [] adapter.days = "range" -> past \intersect range
    [] adapter.days = "today" -> {today}
    [] adapter.days = "last" -> {d \in past : d > today - Limit}

\* The answer is audited and the audit committed, rows or not.
AskAnswers(q) ==
  LET r == request[q]  a == Adapter(q) IN
  /\ Doing(q, "ask") /\ a # Nothing
  /\ audits' = Append(audits, Engine(q))
  /\ \E days \in SUBSET Offered(a, r.range), under \in a.under, newest \in BOOLEAN :
       LET rows == {Row(d, a.source, under) : d \in days}
           kept == IF cap.cut THEN Cut(rows, newest) ELSE rows
       IN  request' = [request EXCEPT ![q] =
             IF rows = {} /\ ~cap.empty
             THEN GoOn(q, "empty")
             ELSE [r EXCEPT !.pc = "store", !.tried = Append(@, "answered"), !.answer = kept,
                            !.by = Engine(q), !.ref = Len(audits) + 1]]
  /\ Others /\ UNCHANGED <<stored, turns>>

\* (mutant) what an engine answered is stored in every mode
KeepAlways(q) == request[q].answer # {}

\* What an engine answered is stored unless the mode forbids it.
Keep(q) == request[q].answer # {} /\ request[q].mode # "provider_only"

Store(q) ==
  /\ Doing(q, "store")
  /\ stored' = IF Keep(q) THEN Upsert(request[q].answer) ELSE stored
  /\ request' = [request EXCEPT ![q].pc = "done", ![q].persisted = Keep(q)]
  /\ Others /\ UNCHANGED <<audits, turns>>

\* The statement fails: the request raises, its audit stays.
StoreFails(q) ==
  /\ Doing(q, "store") /\ Keep(q)
  /\ request' = [request EXCEPT ![q] = Free]
  /\ Others /\ UNCHANGED <<stored, audits, turns>>

\* The ingest stores a day of its own source.
IngestStores ==
  /\ Turn
  /\ \E d \in 1 .. today : stored' = Upsert({Row(d, "ingest", "asked")})
  /\ Others /\ UNCHANGED <<audits, request>>

DayPasses ==
  /\ cap.dated /\ today < LastDay /\ Turn
  /\ today' = today + 1
  /\ UNCHANGED <<cap, stored, audits, request>>

Next ==
  \/ IngestStores \/ DayPasses
  \/ \E q \in Clients : Begin(q) \/ AskFails(q) \/ AskAnswers(q) \/ Store(q) \/ StoreFails(q)

Spec == Init /\ [][Next]_vars

(* ------------------------------- properties ------------------------------- *)

Answered == {request[q] : q \in {c \in Clients : request[c].pc = "done"}}

\* Whatever overlaps, the envelope of a result is true: the database is named only by a
\* mode that reads it; an engine only when those before it had nothing, and with the
\* audit of its own answer; rows said to be persisted are in the table, and nothing is
\* persisted where the mode forbids it; and no rows without a missing range, but for the
\* two capabilities whose empty answer is one.
EnvelopeTrue ==
  \A r \in Answered :
    /\ r.mode = "db_only" => r.tried = <<>>
    /\ r.by = "database" => r.mode \in ReadsFirst \/ cap.engines = <<>>
    /\ r.by \in Known =>
         /\ \A i \in 1 .. Len(r.tried) - 1 : r.tried[i] # "answered"
         /\ Len(r.tried) = r.at /\ r.engines[r.at] = r.by
         /\ audits[r.ref] = r.by
    /\ r.persisted => /\ r.mode \notin {"db_only", "provider_only"}
                      /\ \A n \in r.answer : \E s \in stored : SameKey(n, s)
    /\ r.answer = {} /\ ~r.missing => cap.empty

\* What a request stores never replaces a row of another source.
SourcesKept ==
  \A r \in stored : \E s \in stored' : s.day = r.day /\ s.under = r.under /\ s.source = r.source

\* A result has the rows of the range that was asked for.
InRange == \A r \in Answered : \A n \in r.answer : n.day \in r.range

\* Of the days up to today that an answer was cut to, none is older than one left out.
NewestKept ==
  \A q \in Clients : Doing(q, "ask") /\ request'[q].pc = "store" /\ request[q].range = Days =>
    \A n \in request'[q].answer : n.day > today - Limit

\* What was persisted answers the same request from the database.
ReadsBack ==
  \A r \in Answered : r.persisted => Found(r.range) # {}
=============================================================================
