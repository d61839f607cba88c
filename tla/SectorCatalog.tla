--------------------------- MODULE SectorCatalog ---------------------------
(***************************************************************************)
(* The catalogs of sectors and of indexes with the stocks they consist of  *)
(* (market_data/sync_service.py, sync_sector_catalog and                   *)
(* sync_index_catalog).  A run asks a provider for the sectors of each     *)
(* type, then for the stocks of every sector, all before the first of them *)
(* is stored, and stores them one sector after the other, each in a        *)
(* transaction of its own: what is missing from an answer is deleted.  The *)
(* indexes follow one by one, a fallback answering for a silent provider.  *)
(*                                                                         *)
(* Every snapshot of a sector the providers build is complete: the branch  *)
(* of the code for incomplete ones is never taken at this commit.          *)
(***************************************************************************)
EXTENDS Integers, FiniteSets, Sequences, SequencesExt

CONSTANTS Stocks,
          Listed,      \* type of sectors -> lister -> the sectors it lists
          Expected,    \* index with components -> the number of its stocks
          Pages,       \* pages of the html pages of a sector
          Dates,       \* the dates of the weights of an index
          MaxRuns      \* bound: runs of either catalog

Providers == {"tushare", "akshare"}
Types == DOMAIN Listed
Sectors == UNION {Listed[t][l] : t \in Types, l \in {"tushare", "eastmoney", "html"}}
Sources == {"ths_member", "cons_em", "ths_html"}
Indexes == DOMAIN Expected

VARIABLES catalog,    \* the stored sectors
          members,    \* sector -> source -> its stored stocks
          index,      \* index -> its stored stocks and their source
          run,        \* the run of the sector catalog
          irun,       \* the run of the index catalog
          runs

vars == <<catalog, members, index, run, irun, runs>>

NoRun == [phase |-> "idle", types |-> {}, source |-> "none", delete |-> FALSE,
          got |-> <<>>, errors |-> FALSE, listed |-> FALSE]
NoIndexRun == [phase |-> "idle", left |-> {}, source |-> "none"]

Init ==
  /\ catalog = {}
  /\ members = [s \in Sectors |-> [o \in Sources |-> {}]]
  /\ index = [i \in Indexes |-> [stocks |-> {}, source |-> "none"]]
  /\ run = NoRun
  /\ irun = NoIndexRun
  /\ runs = 0

-----------------------------------------------------------------------------
(* The answers of the providers.                                           *)

Answer(source, stocks) ==
  [source |-> source, stocks |-> stocks, rows |-> Cardinality(stocks)]
Failed == Answer("none", {})

\* The html pages of a sector: each is read, and tried again some times; one
\* that cannot be read, is another page than asked for or has no rows (given
\* as {}) fails the whole answer.
FromPages(page) ==
  IF \E k \in DOMAIN page : page[k] = {}
  THEN Failed
  ELSE Answer("ths_html", UNION {page[k] : k \in DOMAIN page})

\* What asking for the stocks of a sector may return, by who listed it.
\* AkShare asks Eastmoney, and the html pages when that raises.
FromHtml == {FromPages(page) : page \in [1 .. Pages -> SUBSET Stocks]}
Named(source) == {Answer(source, a) : a \in SUBSET Stocks}
Answers(lister) ==
  CASE lister = "tushare" -> Named("ths_member") \union {Failed}
    [] lister = "eastmoney" -> Named("cons_em") \union FromHtml
    [] lister = "html" -> FromHtml
    [] lister = "nobody" -> {}

\* Who may list the sectors of a type: Tushare, when it is asked first, AkShare
\* with Eastmoney's list or, when that raises, with the one of the html pages,
\* or nobody.
Listers(asked) ==
  {"eastmoney", "html", "nobody"} \union (IF asked = "tushare" THEN {"tushare"} ELSE {})

-----------------------------------------------------------------------------
(* The sector catalog.                                                     *)

Start(source, delete) ==
  /\ run.phase # "running" /\ runs < MaxRuns
  /\ run' = [NoRun EXCEPT !.phase = "running", !.types = Types,
                          !.source = source, !.delete = delete]
  /\ runs' = runs + 1
  /\ UNCHANGED <<catalog, members, index, irun>>

FellBack(lister) == run.source = "tushare" /\ lister # "tushare"

\* The sectors of the next type: stored, then each asked for its stocks; all
\* answers are there when the first of them is stored.
ListType(type) ==
  /\ run.phase = "running" /\ type \in run.types /\ run.got = <<>>
  /\ \E lister \in Listers(run.source) :
       LET sectors == IF lister = "nobody" THEN {} ELSE Listed[type][lister]
       IN /\ catalog' = catalog \union sectors
          /\ \E got \in [sectors -> Answers(lister)] :
               run' = [run EXCEPT !.types = @ \ {type}, !.got = got,
                                  !.errors = @ \/ lister = "nobody" \/ FellBack(lister),
                                  !.listed = @ \/ sectors # {}]
  /\ UNCHANGED <<members, index, irun, runs>>

\* (mutant) of this sector, whatever the source
WithoutUnnamed(sector, answer) ==
  [members EXCEPT ![sector] = [o \in Sources |-> @[o] \intersect answer.stocks]]

\* delete_missing_sector_components: of this sector and this source.
WithoutMissing(sector, answer) ==
  [members EXCEPT ![sector][answer.source] = @ \intersect answer.stocks]

\* What a sector keeps of its rows, and the rows of the answer: new ones are
\* inserted, those with another hash updated.
Synced(sector, answer) ==
  LET kept == IF run.delete THEN WithoutMissing(sector, answer) ELSE members
  IN [kept EXCEPT ![sector][answer.source] = @ \union answer.stocks]

\* The next answer is stored.  An error and an empty answer are passed over;
\* storing may raise, which rolls this sector back.
Store(sector) ==
  /\ run.phase = "running" /\ sector \in DOMAIN run.got
  /\ LET answer == run.got[sector]
     IN \E stored \in {answer.stocks # {}, FALSE} :
          /\ members' = IF stored THEN Synced(sector, answer) ELSE members
          /\ run' = [run EXCEPT !.got = [s \in DOMAIN @ \ {sector} |-> @[s]],
                                !.errors = @ \/ answer = Failed \/ (~stored /\ answer.stocks # {})]
  /\ UNCHANGED <<catalog, index, irun, runs>>

\* A run that met an error and was given no sector raises.
Finish ==
  /\ run.phase = "running" /\ run.types = {} /\ run.got = <<>>
  /\ run' = [NoRun EXCEPT !.phase = IF ~run.listed /\ run.errors THEN "failed" ELSE "done"]
  /\ UNCHANGED <<catalog, members, index, irun, runs>>

\* The process ends between two transactions.
Stop ==
  /\ run.phase = "running" \/ irun.phase = "running"
  /\ run' = NoRun /\ irun' = NoIndexRun
  /\ UNCHANGED <<catalog, members, index, runs>>

-----------------------------------------------------------------------------
(* The index catalog.  The rows of an answer are (stock, date) pairs.      *)

StartIndexes(source) ==
  /\ irun.phase # "running" /\ runs < MaxRuns
  /\ irun' = [phase |-> "running", left |-> Indexes, source |-> source]
  /\ runs' = runs + 1
  /\ UNCHANGED <<catalog, members, index, run>>

StocksOn(rows, date) == {row[1] : row \in {r \in rows : r[2] = date}}

\* _normalize_index_component_snapshot, of the weights Tushare has of some
\* months: those of the latest date that has all stocks, or of the latest.
LatestWhole(rows, expected) ==
  LET dates == {row[2] : row \in rows}
      whole == {d \in dates : Cardinality(StocksOn(rows, d)) >= expected}
      from == IF whole = {} THEN dates ELSE whole
  IN IF rows = {} THEN {}
     ELSE StocksOn(rows, CHOOSE d \in from : \A e \in from : e =< d)

\* The stocks of an index as an answer of Tushare gives them.
Weighed(i) ==
  {Answer("tushare", LatestWhole(rows, Expected[i])) : rows \in SUBSET (Stocks \X Dates)}

\* AkShare's current list is taken as it comes: a stock may be in it twice.
Current == {[Answer("akshare", a) EXCEPT !.rows = @ + repeated] :
              a \in SUBSET Stocks, repeated \in {0, 1}}

Enough(i, answer) == answer.stocks # {} /\ answer.rows >= Expected[i]

\* The next index: AkShare is asked when Tushare fails or has nothing.  No
\* answer, and one with too few rows, change nothing; another replaces the
\* stored stocks, in one transaction.
StoreIndex(i) ==
  /\ irun.phase = "running" /\ i \in irun.left
  /\ irun' = [irun EXCEPT !.left = @ \ {i}]
  /\ \E answer \in (IF irun.source = "tushare" THEN Weighed(i) ELSE {}) \union Current \union {Failed} :
       index' = IF Enough(i, answer)
                THEN [index EXCEPT ![i] = [stocks |-> answer.stocks, source |-> answer.source]]
                ELSE index
  /\ UNCHANGED <<catalog, members, run, runs>>

FinishIndexes ==
  /\ irun.phase = "running" /\ irun.left = {}
  /\ irun' = [NoIndexRun EXCEPT !.phase = "done"]
  /\ UNCHANGED <<catalog, members, index, run, runs>>

-----------------------------------------------------------------------------
Next ==
  \/ \E source \in Providers, delete \in BOOLEAN : Start(source, delete)
  \/ \E type \in Types : ListType(type)
  \/ \E sector \in Sectors : Store(sector)
  \/ Finish
  \/ Stop
  \/ \E source \in Providers : StartIndexes(source)
  \/ \E i \in Indexes : StoreIndex(i)
  \/ FinishIndexes

Spec == Init /\ [][Next]_vars

-----------------------------------------------------------------------------
\* A sector loses a stock only to an answer of the same source that names
\* stocks, and not this one, in a run asked to delete what is missing: not to
\* an error, to an empty answer or to another source.
SectorsKept ==
  \A s \in Sectors, o \in Sources : \A x \in members[s][o] \ members'[s][o] :
    /\ run.delete /\ s \in DOMAIN run.got
    /\ run.got[s].source = o /\ run.got[s].stocks # {} /\ x \notin run.got[s].stocks

\* An index changes as a whole: Tushare's answer leaves it with all its stocks,
\* and no answer leaves it without any.
IndexesKept ==
  \A i \in Indexes : index'[i] # index[i] =>
    /\ index'[i].stocks # {}
    /\ index'[i].source = "tushare" => Cardinality(index'[i].stocks) >= Expected[i]

CatalogStep == SectorsKept /\ IndexesKept
=============================================================================
