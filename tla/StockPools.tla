----------------------------- MODULE StockPools -----------------------------
(***************************************************************************)
(* Stock pools (modules/stock_pool/service.py, repository.py): requests    *)
(* that create, edit and delete pools, their realtime policies and their   *)
(* members, next to the strategies that own a pool each                    *)
(* (modules/strategy_center); and the four views there are of what a pool  *)
(* contains: its count, its list, its details and its realtime targets.    *)
(*                                                                         *)
(* A request reads the pool it is about, decides, and writes in the one    *)
(* transaction it commits.  A refused request, and one whose statement     *)
(* fails, writes nothing.  Ids of pools are not used twice.                *)
(***************************************************************************)
EXTENDS Integers, FiniteSets

CONSTANTS
  Clients,   \* the requests that may be under way at once
  Stocks,    \* the stocks
  Codes,     \* the codes a request may give a pool
  MaxIds,    \* bound: the pools there ever are
  MaxTurns   \* bound: requests, and changes of stocks, strategies and candidates

VARIABLES
  pools,    \* pools[c]: the row of the pool with code c
  members,  \* the rows of the member table: <<pool id, stock>>
  policy,   \* policy[i]: the realtime policy of pool i: on, off, or no row
  nextId,
  active,   \* the active stocks
  owner,    \* owner[i]: the strategy that owns pool i: status, version on paper (0: none)
  cands,    \* the candidates: [pool, version, day, stock, fate]
  request,  \* request[r]: what a request does, and the row it has read
  turns

vars == <<pools, members, policy, nextId, active, owner, cands, request, turns>>

Ids == 1 .. MaxIds
NoPool == [id |-> 0, system |-> FALSE, on |-> FALSE, rule |-> "none"]
Custom(i) == [id |-> i, system |-> FALSE, on |-> TRUE, rule |-> "none"]
Owned(i) == [id |-> i, system |-> TRUE, on |-> TRUE, rule |-> "strategy_candidates"]
Seeded == [id |-> 1, system |-> TRUE, on |-> TRUE, rule |-> "active_a_share"]
IsDynamic(pool) == pool.rule # "none"
AllCodes == Codes \union {"all"}
NoOwner == [status |-> "none", version |-> 0]
Versions == 1 .. 2
Free == [op |-> "none", code |-> "none", pool |-> NoPool]

Init ==
  /\ pools = [c \in AllCodes |-> IF c = "all" THEN Seeded ELSE NoPool]
  /\ members = {}
  /\ policy = [i \in Ids |-> IF i = 1 THEN "off" ELSE "none"]
  /\ nextId = 2
  /\ active = Stocks
  /\ owner = [i \in Ids |-> NoOwner]
  /\ cands = {}
  /\ request = [r \in Clients |-> Free]
  /\ turns = 0

Turn == turns < MaxTurns /\ turns' = turns + 1
Exists(i) == \E c \in AllCodes : pools[c].id = i /\ i # 0

(* -------------------------------- requests -------------------------------- *)

\* What a request may do with the row it reads: _require_pool, the protections of system
\* and dynamic pools, the code that must be free.
Allowed(op, pool) ==
  CASE op = "create" -> pool = NoPool
    [] op = "strategy" -> pool = NoPool
    [] op \in {"edit", "policy"} -> pool # NoPool
    [] op = "enable" -> pool # NoPool /\ pool.rule # "active_a_share"
    [] op = "delete" -> pool # NoPool /\ ~pool.system
    [] op \in {"add", "remove"} -> pool # NoPool /\ ~IsDynamic(pool)

Begin(r, op, code) ==
  /\ request[r] = Free
  /\ Turn
  /\ Allowed(op, pools[code])
  /\ request' = [request EXCEPT ![r] = [op |-> op, code |-> code, pool |-> pools[code]]]
  /\ UNCHANGED <<pools, members, policy, nextId, active, owner, cands>>

Doing(r, op) == request[r].op = op
Ends(r) == request' = [request EXCEPT ![r] = Free]

\* The statement finds no row, or a key is missing or taken: nothing is committed.
Fails(r) ==
  LET q == request[r] IN
  /\ \/ q.op \in {"create", "strategy"} /\ pools[q.code] # NoPool
     \/ q.op \in {"policy", "enable", "add", "remove"} /\ ~Exists(q.pool.id)
     \/ q.op \in {"edit", "delete"} /\ pools[q.code] = NoPool
  /\ Ends(r)
  /\ UNCHANGED <<pools, members, policy, nextId, active, owner, cands, turns>>

\* create_pool: the pool and its policy.
CreatePool(r) ==
  LET q == request[r] IN
  /\ Doing(r, "create") /\ pools[q.code] = NoPool /\ nextId \in Ids
  /\ pools' = [pools EXCEPT ![q.code] = Custom(nextId)]
  /\ \E given \in {"on", "off"} : policy' = [policy EXCEPT ![nextId] = given]
  /\ nextId' = nextId + 1
  /\ Ends(r)
  /\ UNCHANGED <<members, active, owner, cands, turns>>

\* create_definition: a strategy with a pool of its own.
CreateStrategy(r) ==
  LET q == request[r] IN
  /\ Doing(r, "strategy") /\ pools[q.code] = NoPool /\ nextId \in Ids
  /\ pools' = [pools EXCEPT ![q.code] = Owned(nextId)]
  /\ policy' = [policy EXCEPT ![nextId] = "off"]
  /\ owner' = [owner EXCEPT ![nextId].status = "draft"]
  /\ nextId' = nextId + 1
  /\ Ends(r)
  /\ UNCHANGED <<members, active, cands, turns>>

\* update_pool without a policy writes by code.
EditPool(r) ==
  LET q == request[r] IN
  /\ Doing(r, "edit") /\ pools[q.code] # NoPool
  /\ \E on \in BOOLEAN : pools' = [pools EXCEPT ![q.code].on = on]
  /\ Ends(r)
  /\ UNCHANGED <<members, policy, nextId, active, owner, cands, turns>>

\* update_realtime_policy, by the id that was read: the row is made if it is missing.
SetPolicy(r) ==
  LET q == request[r] IN
  /\ q.op \in {"policy", "enable"} /\ Exists(q.pool.id)
  /\ policy' = [policy EXCEPT ![q.pool.id] = IF q.op = "enable" THEN "on" ELSE "off"]
  /\ Ends(r)
  /\ UNCHANGED <<pools, members, nextId, active, owner, cands, turns>>

\* delete_pool writes by code; members and policy go with the row, a strategy keeps none.
DeletePool(r) ==
  LET q == request[r]  i == pools[q.code].id IN
  /\ Doing(r, "delete") /\ pools[q.code] # NoPool
  /\ pools' = [pools EXCEPT ![q.code] = NoPool]
  /\ members' = {m \in members : m[1] # i}
  /\ policy' = [policy EXCEPT ![i] = "none"]
  /\ owner' = [owner EXCEPT ![i] = NoOwner]
  /\ Ends(r)
  /\ UNCHANGED <<nextId, active, cands, turns>>

\* (mutant) the members are added to the pool that has the code now.
AddMembersByCode(r) ==
  LET q == request[r] IN
  /\ Doing(r, "add") /\ pools[q.code] # NoPool
  /\ \E some \in SUBSET Stocks \ {{}} :
       members' = members \union {<<pools[q.code].id, s>> : s \in some}
  /\ Ends(r)
  /\ UNCHANGED <<pools, policy, nextId, active, owner, cands, turns>>

\* add_members: known stocks only, active or not; all of them or none.
AddMembers(r) ==
  LET q == request[r] IN
  /\ Doing(r, "add") /\ Exists(q.pool.id)
  /\ \E some \in SUBSET Stocks \ {{}} :
       members' = members \union {<<q.pool.id, s>> : s \in some}
  /\ Ends(r)
  /\ UNCHANGED <<pools, policy, nextId, active, owner, cands, turns>>

DeleteMember(r) ==
  LET q == request[r] IN
  /\ Doing(r, "remove") /\ Exists(q.pool.id)
  /\ \E s \in Stocks : members' = members \ {<<q.pool.id, s>>}
  /\ Ends(r)
  /\ UNCHANGED <<pools, policy, nextId, active, owner, cands, turns>>

(* ---------------------------- the other writers --------------------------- *)

\* promote_version_to_paper retires the version before and turns the pool and its realtime
\* policy on; update_definition archives or restores, the version stays on paper.
Promoted(o) == {[status |-> "paper", version |-> v] : v \in {o.version + 1} \cap Versions}
Redefined(o) == {[o EXCEPT !.status = status] : status \in {"draft", "archived"}}

StrategyTurns(c) ==
  LET i == pools[c].id IN
  /\ pools[c] # NoPool /\ owner[i] # NoOwner
  /\ Turn
  /\ \E o \in (Promoted(owner[i]) \union Redefined(owner[i])) \ {owner[i]} :
       /\ owner' = [owner EXCEPT ![i] = o]
       /\ pools' = [pools EXCEPT ![c].on = (o.status # "archived")]
       /\ policy' = [policy EXCEPT ![i] = IF o.status = "paper" THEN "on" ELSE @]
  /\ UNCHANGED <<members, nextId, active, cands, request>>

\* What becomes of a candidate: it waits for its entry, before or after the deadline, is
\* dropped, or is bought; entry_triggered is its last status, whatever its trade does.
Waiting == {[status |-> "watching", due |-> d, trade |-> "none"] : d \in BOOLEAN}
Entered == {[status |-> "entry_triggered", due |-> FALSE, trade |-> t] : t \in {"open", "closed"}}
Fates == Waiting \union Entered \union
         {[status |-> "not_triggered", due |-> FALSE, trade |-> "none"]}

\* A candidate of a version that is or was on paper is stored or moves on.
CandidatesTurn(c) ==
  LET i == pools[c].id IN
  /\ pools[c] # NoPool /\ owner[i].status = "paper"
  /\ Turn
  /\ \E s \in Stocks, v \in 1 .. owner[i].version, d \in 1 .. 2, f \in Fates :
       cands' = {k \in cands : <<k.pool, k.stock, k.version, k.day>> # <<i, s, v, d>>}
                \union {[pool |-> i, version |-> v, day |-> d, stock |-> s, fate |-> f]}
  /\ UNCHANGED <<pools, members, policy, nextId, active, owner, request>>

StocksTurn ==
  /\ Turn
  /\ \E s \in Stocks : active' = IF s \in active THEN active \ {s} ELSE active \union {s}
  /\ UNCHANGED <<pools, members, policy, nextId, owner, cands, request>>

Next ==
  \/ StocksTurn
  \/ \E c \in AllCodes : StrategyTurns(c) \/ CandidatesTurn(c)
  \/ \E r \in Clients :
       \/ \E op \in {"edit", "policy", "enable", "delete", "add", "remove"}, c \in AllCodes :
            Begin(r, op, c)
       \/ \E op \in {"create", "strategy"}, c \in Codes : Begin(r, op, c)
       \/ Fails(r) \/ CreatePool(r) \/ CreateStrategy(r) \/ EditPool(r) \/ SetPolicy(r)
       \/ DeletePool(r) \/ AddMembers(r) \/ DeleteMember(r)

Spec == Init /\ [][Next]_vars

(* ---------------------------------- views --------------------------------- *)

Members(pool) == {s \in Stocks : <<pool.id, s>> \in members}
OpenCands(pool) ==
  {k \in cands : /\ k.pool = pool.id /\ owner[pool.id].status # "archived"
                /\ k.fate \in Waiting}

\* The rows of the list: a strategy's are the candidates of the last day a stock has an
\* open one, whatever their own status.
Rows(pool) ==
  CASE pool.rule = "active_a_share" -> {[stock |-> s, version |-> 0] : s \in active}
    [] pool.rule = "none" -> {[stock |-> s, version |-> 0] : s \in Members(pool)}
    [] OTHER ->
         LET lastDay(s) == CHOOSE d \in {k.day : k \in {x \in OpenCands(pool) : x.stock = s}} :
               \A k \in OpenCands(pool) : k.stock = s => k.day <= d
             last == {k \in cands : /\ k.pool = pool.id
                                    /\ \E o \in OpenCands(pool) : o.stock = k.stock
                                    /\ k.day = lastDay(k.stock)}
         IN  {[stock |-> k.stock, version |-> k.version] : k \in last}

\* member_count of a pool, and what its detail page answers for.
MemberCount(pool) ==
  CASE pool.rule = "active_a_share" -> Cardinality(active)
    [] pool.rule = "none" -> Cardinality(Members(pool))
    [] OTHER -> Cardinality({k.stock : k \in OpenCands(pool)})
Detailed(pool) ==
  CASE pool.rule = "active_a_share" -> active
    [] pool.rule = "none" -> Members(pool)
    [] OTHER -> {k.stock : k \in OpenCands(pool)} \cap active

\* pool_reference of the realtime runtime: of a strategy the candidates of its version on
\* paper that wait before their deadline, those bought, and those whose trade is open.
Followed(k) ==
  /\ owner[k.pool].status = "paper" /\ owner[k.pool].version = k.version
  /\ \/ k.fate \in Waiting /\ k.fate.due
     \/ k.fate.status = "entry_triggered"
     \/ k.fate.trade = "open"
Targeted(pool) ==
  IF ~pool.on \/ policy[pool.id] # "on" THEN {}
  ELSE CASE pool.rule = "active_a_share" -> active
         [] pool.rule = "none" -> Members(pool) \cap active
         [] OTHER -> {k.stock : k \in {x \in cands : x.pool = pool.id /\ Followed(x)}} \cap active

(* ------------------------------- properties ------------------------------- *)

Listed(p) == {x.stock : x \in Rows(p)}
Bought(p) == {k.stock : k \in {x \in cands : x.pool = p.id /\ x.fate \in Entered}}

Live == {pools[c] : c \in AllCodes} \ {NoPool}

\* However requests overlap, with pools deleted and made again under the code one of them
\* read: a pool kept by a rule never has members of its own, the whole market is never a
\* realtime target, and what the runtime targets the pool's pages list and show, but for
\* the stocks a strategy has bought.
PoolsSound ==
  /\ \A m \in members : \E p \in Live : p.id = m[1] /\ ~IsDynamic(p)
  /\ \A p \in Live :
       /\ p.rule = "active_a_share" => policy[p.id] # "on"
       /\ Targeted(p) \subseteq (Detailed(p) \cap Listed(p)) \union Bought(p)

\* What the runtime targets the pool's pages list and show.
TargetsShown == \A p \in Live : Targeted(p) \subseteq Detailed(p) \cap Listed(p)

\* The count of a pool is the length of its list.
CountsAgree == \A p \in Live : MemberCount(p) = Cardinality(Rows(p))

\* Every stock of a pool's list has a detail page.
ListedHaveDetail == \A p \in Live : Listed(p) \subseteq Detailed(p)

\* A request never removes a pool of the system.
SystemPoolsStay == \A c \in AllCodes : pools[c].system => pools'[c].id = pools[c].id
=============================================================================
