------------------------------- MODULE Paging -------------------------------
(***************************************************************************)
(* Listings that are read page by page while their rows change: the        *)
(* handlers featured_markets, content, blockchain_user_bets and audit_logs *)
(* of the API, and the queries of the contract (queries.rs and             *)
(* event_archive.rs).  A behaviour follows one listing and one walk over   *)
(* it; other readers fill the cached views before and during the walk.     *)
(*                                                                         *)
(* The table holds what the listing would show in full, in its order.  A   *)
(* page that fails (a query, or the chain data of one featured market) is  *)
(* answered with an error and asked for again, which changes nothing.      *)
(***************************************************************************)
EXTENDS Naturals, Sequences, FiniteSets, SequencesExt

CONSTANTS MaxRows,        \* bound: rows ever listed
          MAX_PAGE_LIMIT,
          FeaturedLimit   \* config.featured_limit

VARIABLES
  listing,  \* the listing that is followed
  table,    \* its rows, 0 for a slot whose row is gone
  views,    \* cached views by key, <<>> or <<view>>
  walk      \* limit: as asked; at: cursor or offset of the next page;
            \* used: the view each page came from; seen: its places that
            \* the page showed

vars == <<listing, table, views, walk>>

PagingAssumption == {MaxRows, MAX_PAGE_LIMIT, FeaturedLimit} \subseteq Nat \ {0} /\ MaxRows > 1

Rows == 1..MaxRows
Shown == {table} \cup {views[k][1] : k \in {j \in DOMAIN views : views[j] # <<>>}} \cup ToSet(walk.used)
Ever == UNION {ToSet(v) : v \in Shown}
End == MaxRows + 1    \* no next page: a position no page starts at

(* How the rows of each listing may change under a reader.  A new row      *)
(* comes last where the order is that of creation, first where the newest  *)
(* comes first.  A status lists its markets from the highest id down, so   *)
(* that one that enters it may come anywhere.  A pruned market leaves its  *)
(* number unused; a removed guardian, an unpublished item or a market that *)
(* leaves a status closes the gap.  Featured markets are ordered by        *)
(* volume, which moves.                                                    *)
Kinds ==
  [featured |-> {"append", "prepend", "remove", "swap"}, content |-> {"prepend", "remove"},
   bets |-> {"append"}, audit |-> {"prepend"}, markets |-> {"append", "hole"},
   status |-> {"insert", "remove"}, guardians |-> {"append", "remove"}, archive |-> {"append"}]

Init ==
  /\ listing \in DOMAIN Kinds
  /\ table = <<1, 2>>
  /\ views = [k \in 0..MaxRows |-> <<>>]
  /\ walk = [limit |-> 0, at |-> 0, seen |-> <<>>, used |-> <<>>, open |-> FALSE]
-----------------------------------------------------------------------------
(* The rows change. *)

(* archive_market, create_market, a new guardian, a new bet *)
Add(r)     == /\ "append" \in Kinds[listing] /\ table' = Append(table, r)
Insert(i, r) == /\ "insert" \in Kinds[listing] \/ ("prepend" \in Kinds[listing] /\ i = 1)
                /\ table' = InsertAt(table, i, r)
TakeOut(i) == /\ "remove" \in Kinds[listing] /\ table' = RemoveAt(table, i)
Hole(i)    == /\ "hole" \in Kinds[listing] /\ table[i] # 0 /\ table' = [table EXCEPT ![i] = 0]
Swap(i)    == /\ "swap" \in Kinds[listing] /\ i < Len(table)
              /\ table' = [table EXCEPT ![i] = table[i + 1], ![i + 1] = table[i]]

(* The walk is not followed past its end. *)
Followed == walk.limit = 0 \/ walk.open

Change ==
  /\ Followed
  /\ \/ \E r \in Rows \ Ever : Len(table) < MaxRows /\ (Add(r) \/ \E i \in 1..(Len(table) + 1) : Insert(i, r))
     \/ \E i \in DOMAIN table : TakeOut(i) \/ Hole(i) \/ Swap(i)
  /\ UNCHANGED <<listing, views, walk>>
-----------------------------------------------------------------------------
(* What a page shows.  A page is the places of its rows and the position   *)
(* of the next.                                                            *)

Least(a, b) == IF a < b THEN a ELSE b

(* audit_logs and the contract cap the limit that is asked for;            *)
(* PaginationQuery::limit also makes it at least 1.                        *)
Cap(limit) == Least(limit, MAX_PAGE_LIMIT)
Clamp(limit) == IF limit = 0 THEN 1 ELSE Cap(limit)

(* The rows that the query behind the handler selects: of content no more  *)
(* than a page, so its first page is its last.                             *)
FeaturedMarkets(t) == SubSeq(t, 1, Least(FeaturedLimit, Len(t)))
ContentItems(t, limit) == SubSeq(t, 1, Least(limit, Len(t)))

Segment(v, start, limit) ==
  {p \in DOMAIN v : start < p /\ p =< start + limit /\ v[p] # 0}

(* Deviation: the cursor of the next page skips a row. *)
Slice_SkipsOne(v, at, limit) ==
  [items |-> Segment(v, at, limit), next |-> IF at + limit < Len(v) THEN at + limit + 1 ELSE End]

(* featured_markets and content: the cursor is a position in the view. *)
Slice(v, at, limit) ==
  [items |-> Segment(v, at, limit), next |-> IF at + limit < Len(v) THEN at + limit ELSE End]

(* blockchain_user_bets: the cursor is a page number, and the contract's   *)
(* total tells whether there is another page.                              *)
UserBets(v, page, limit) ==
  [items |-> Segment(v, page * limit, limit),
   next |-> IF (page + 1) * limit < Len(v) THEN page + 1 ELSE End]

(* AuditLogger::query, get_markets, get_guardians_paginated and            *)
(* get_archived_market_ids: offset and limit, and no next position.  The   *)
(* reader (external) adds the limit until it is past the end.              *)
Offset(v, offset, limit) ==
  [items |-> Segment(v, offset, limit),
   next |-> IF offset + limit < Len(v) THEN offset + limit ELSE End]

(* get_markets_by_status looks at the limit after it has taken a row. *)
MarketsByStatus(v, offset, limit) == Offset(v, offset, IF limit = 0 THEN 1 ELSE limit)

AuditLogs(v, offset, limit) == Offset(v, offset, limit)
GetMarkets(v, offset, limit) == Offset(v, offset, limit)
Guardians(v, offset, limit) == Offset(v, offset, limit)
ArchivedMarketIds(v, offset, limit) == Offset(v, offset, limit)

PageOf(v, at, limit) ==
  CASE listing \in {"featured", "content"} -> Slice(v, at, limit)
    [] listing = "bets" -> UserBets(v, at, limit)
    [] listing = "audit" -> AuditLogs(v, at, limit)
    [] listing = "markets" -> GetMarkets(v, at, limit)
    [] listing = "status" -> MarketsByStatus(v, at, limit)
    [] listing = "guardians" -> Guardians(v, at, limit)
    [] listing = "archive" -> ArchivedMarketIds(v, at, limit)

(* What a read finds now: the view that is sliced, or all rows *)
Current(limit) ==
  CASE listing = "featured" -> FeaturedMarkets(table)
    [] listing = "content" -> ContentItems(table, limit)
    [] OTHER -> table

(* The one view of featured markets or of content under this limit; one    *)
(* view for every page of bets; the others are not cached.                 *)
CacheKeys == CASE listing \in {"featured", "content"} -> {0}
               [] listing = "bets" -> 0..MaxRows
               [] OTHER -> {}
KeyAt(at) == IF listing = "bets" THEN at ELSE 0
-----------------------------------------------------------------------------
(* A reader who walks by offset asks for at least one row, and knows the   *)
(* cap: its next offset is further on by the rows it can have been given.  *)
Begin ==
  /\ walk.limit = 0
  /\ \E limit \in 0..(MAX_PAGE_LIMIT + 1) :
       LET asked == IF listing \in {"featured", "content", "bets"} THEN Clamp(limit) ELSE Cap(limit) IN
       /\ asked > 0
       /\ walk' = [walk EXCEPT !.limit = asked, !.open = TRUE]
  /\ UNCHANGED <<listing, table, views>>

(* Another reader fills a view: cached pages may be older than the walk. *)
OtherReader ==
  /\ walk.open
  /\ \E k \in CacheKeys : views[k] = <<>> /\ views' = [views EXCEPT ![k] = <<Current(walk.limit)>>]
  /\ UNCHANGED <<listing, table, walk>>

Expire ==
  /\ walk.open
  /\ \E k \in CacheKeys : views[k] # <<>> /\ views' = [views EXCEPT ![k] = <<>>]
  /\ UNCHANGED <<listing, table, walk>>

(* The next page, from its cached view or from the rows; a new view is     *)
(* cached unless Redis cannot be written.                                  *)
NextPage ==
  LET k == KeyAt(walk.at)
      hit == k \in CacheKeys /\ views[k] # <<>>
      v == IF hit THEN views[k][1] ELSE Current(walk.limit)
      page == PageOf(v, walk.at, walk.limit)
  IN
  /\ walk.open
  /\ walk' = [walk EXCEPT !.at = page.next, !.open = page.next # End,
                          !.seen = Append(@, page.items), !.used = Append(@, v)]
  /\ views' \in {views} \cup (IF k \in CacheKeys THEN {[views EXCEPT ![k] = <<v>>]} ELSE {})
  /\ UNCHANGED <<listing, table>>

Next == Change \/ Begin \/ OtherReader \/ Expire \/ NextPage

Spec == Init /\ [][Next]_vars
-----------------------------------------------------------------------------
TypeOK ==
  /\ listing \in DOMAIN Kinds
  /\ table \in Seq(0..MaxRows) /\ Len(table) <= MaxRows
  /\ walk.limit \in 0..MAX_PAGE_LIMIT /\ walk.at \in 0..End /\ walk.open \in BOOLEAN

(* Two views agree on the rows both have a place for. *)
Compatible(v, w) ==
  \A i \in DOMAIN v \cap DOMAIN w : v[i] = w[i] \/ 0 \in {v[i], w[i]}

Unmoved == \A v, w \in ToSet(walk.used) : Compatible(v, w)

(* The rows in all views that were met, those received, and whether each   *)
(* of these was received once.                                             *)
Always == {r \in Rows : \A v \in ToSet(walk.used) : r \in ToSet(v)}
Seen == UNION {{walk.used[k][p] : p \in walk.seen[k]} : k \in DOMAIN walk.seen}
SeenOnce ==
  \A j, k \in DOMAIN walk.seen : \A p \in walk.seen[j], q \in walk.seen[k] :
    walk.used[j][p] = walk.used[k][q] => j = k /\ p = q

(* A walk that is at its end has received every row that all the views it  *)
(* met had, each once, whatever was added, pruned, cached or expired on    *)
(* the way, unless rows changed their places in between.  (A list that is  *)
(* ordered by volume or newest first does move under a reader.)            *)
WalkExact ==
  (walk.limit > 0 /\ ~walk.open /\ Unmoved) => SeenOnce /\ Always \subseteq Seen
=============================================================================
