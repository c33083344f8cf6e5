---------------------------- MODULE UsageQueries ----------------------------
(***************************************************************************)
(* QueryUsage of internal/metering/service.go and the AggregateUsage it    *)
(* runs: a client walks the pages of one query while transactions of       *)
(* UsageIngestion commit facts.  Every page is a call of its own, and a    *)
(* call reads the facts twice, in two statements outside any transaction:  *)
(* once for the totals, once for the rows of the page.                     *)
(*                                                                         *)
(* Time is counted in half hours from midnight of January 1 of a common    *)
(* year in Asia/Shanghai, which has no daylight saving.                    *)
(***************************************************************************)
EXTENDS Integers, FiniteSets, Sequences, SequencesExt, FiniteSetsExt

CONSTANTS
    Facts,          \* the facts that ingestion may commit
    Queries,        \* the queries a client may walk through
    Codes,          \* the codes of the meters that exist
    Granted,        \* the scopes the application-access service grants
    DimensionsText, \* the dimensions in the order of their JSON text
    ProcessZone     \* time zone of the process, in half hours ahead of Shanghai

Fact == [id : Nat, tenant : STRING, app : STRING, code : STRING,
         dims : Range(DimensionsText), quantity : Int, at : Nat]

\* "nobody" has no principal, "service" is a service account, other names are
\* users of that tenant.  A padded query has blanks around its tenant_id.
Query == [who : STRING, tenant : STRING, app : STRING, code : STRING,
          padded : BOOLEAN, from : Nat, to : Nat, filter : SUBSET STRING,
          granularity : STRING, page : Int, size : Int]

ASSUME QueryAssumption ==
    /\ Facts \subseteq Fact
    /\ Queries \subseteq Query
    /\ \A f, g \in Facts : f.id = g.id => f = g
    /\ DimensionsText \in Seq(SUBSET STRING)
    /\ ProcessZone \in Int

VARIABLES
    aggregation,   \* the aggregation of each meter, which UpdateMeter leaves alone
    facts,         \* committed rows of usage_facts
    query,         \* what the client asks
    wpc,           \* where the client and its current call are
    page,          \* the page it is at
    total,         \* COUNT(*) and SUM(quantity) over the groups, as read by
    totalQuantity, \*   the current call
    shown,         \* the points received, in the order of the pages
    since,         \* the facts committed when the walk began
    reply

queryVars == <<aggregation, facts, query, wpc, page, total, totalQuantity, shown, since, reply>>

-----------------------------------------------------------------------------
DefaultPageSize == 20
MaxPageSize == 100
MaxRange == 366 * 48

\* pagination
FirstPage(q) == IF q.page <= 0 THEN 1 ELSE q.page
PageSize(q) == IF q.size <= 0 THEN DefaultPageSize ELSE q.size

-----------------------------------------------------------------------------
\* The calendar of common years: months are counted from 0, the January the time
\* starts at.
DaysBefore == <<0, 31, 59, 90, 120, 151, 181, 212, 243, 273, 304, 334>>

FirstDay(month) == 365 * (month \div 12) + DaysBefore[(month % 12) + 1]
MonthOf(day) ==
    12 * (day \div 365) + (CHOOSE m \in 0..11 :
        FirstDay(m) <= day % 365 /\ day % 365 < FirstDay(m + 1))

\* date_trunc(granularity, occurred_at AT TIME ZONE 'Asia/Shanghai')
Bucket(at, granularity) ==
    CASE granularity = "hour" -> at - (at % 2)
      [] granularity = "day" -> at - (at % 48)
      [] granularity = "month" -> 48 * FirstDay(MonthOf(at \div 48))

\* AddDate(0, 1, 0): the same day and clock of the next month, in the location
\* of the value; a day the next month does not have runs over into the month
\* after it.
AddMonth(at) ==
    LET local == at + ProcessZone
        day == local \div 48
        month == MonthOf(day)
    IN  at + 48 * (FirstDay(month + 1) - FirstDay(month))

\* The database driver returns window_start in the location of the process, so
\* that is where nextWindow counts.
nextWindow(at, granularity) ==
    CASE granularity = "hour" -> at + 2
      [] granularity = "day" -> at + 48
      [] granularity = "month" -> AddMonth(at)

-----------------------------------------------------------------------------
\* The WHERE clause.  The scope is compared as it was sent, while the checks
\* before it trim the tenant; stored tenants are trimmed.
TenantOnly(f, q) ==
    /\ ~q.padded
    /\ f.tenant = q.tenant /\ f.code = q.code
    /\ q.from <= f.at /\ f.at < q.to
    /\ q.filter \subseteq f.dims

Matches(f, q) ==
    /\ ~q.padded
    /\ f.tenant = q.tenant /\ f.app = q.app /\ f.code = q.code
    /\ q.from <= f.at /\ f.at < q.to
    /\ q.filter \subseteq f.dims

Matching(rows, q) == {f \in rows : Matches(f, q)}

SumOf(rows) == MapThenSumSet(LAMBDA f : f.quantity, rows)

Earlier(f, g) == f.at < g.at \/ (f.at = g.at /\ f.id < g.id)

\* ORDER BY occurred_at DESC, id DESC
Later(f, g) == f.at > g.at \/ (f.at = g.at /\ f.id > g.id)

\* postgresAggregateExpressions, mysqlAggregateExpressions
Aggregate(rows, kind) ==
    CASE kind = "sum" -> SumOf(rows)
      [] kind = "count" -> Cardinality(rows)
      [] kind = "max" -> Max({f.quantity : f \in rows})
      [] kind = "last" ->
           (CHOOSE f \in rows : \A g \in rows \ {f} : Later(f, g)).quantity

\* GROUP BY window_start, dimensions_json
SameGroup(f, g, q) ==
    /\ Bucket(f.at, q.granularity) = Bucket(g.at, q.granularity)
    /\ f.dims = g.dims

Group(f, rows, q, kind) ==
    [start |-> Bucket(f.at, q.granularity), dims |-> f.dims,
     quantity |-> Aggregate({g \in rows : SameGroup(f, g, q)}, kind)]

Groups(rows, q, kind) ==
    LET matching == Matching(rows, q) IN {Group(f, matching, q, kind) : f \in matching}

TextRank(dims) == CHOOSE i \in DOMAIN DimensionsText : DimensionsText[i] = dims

LargestFirst(p, r) ==
    \/ p.quantity > r.quantity
    \/ p.quantity = r.quantity /\ p.start < r.start
    \/ p.quantity = r.quantity /\ p.start = r.start /\ TextRank(p.dims) < TextRank(r.dims)

\* ORDER BY window_start, dimensions_json
Precedes(p, r) ==
    \/ p.start < r.start
    \/ p.start = r.start /\ TextRank(p.dims) < TextRank(r.dims)

\* How many groups come before one.
Rank(group, groups) == Cardinality({g \in groups : Precedes(g, group)})

\* LIMIT and OFFSET, and the points built from the rows
OffsetByPage(q, n) == n * PageSize(q)

Offset(q, n) == (n - 1) * PageSize(q)

Point(row, q) ==
    [start |-> row.start, end |-> nextWindow(row.start, q.granularity),
     dims |-> row.dims, quantity |-> row.quantity]

PageOf(rows, q, n, kind) ==
    LET groups == Groups(rows, q, kind)
        rest == Cardinality(groups) - Offset(q, n)
        length == IF rest < 0 THEN 0 ELSE IF rest < PageSize(q) THEN rest ELSE PageSize(q)
        row(i) == CHOOSE g \in groups : Rank(g, groups) = Offset(q, n) + i - 1
    IN  [i \in 1..length |-> Point(row(i), q)]

-----------------------------------------------------------------------------
\* The checks of QueryUsage in their order, each with the answer it gives.  The
\* zero time, year 1, is not among the times of the model.
MalformedQuery(q) ==
    \/ PageSize(q) > MaxPageSize
    \/ q.tenant = "" \/ q.app = "" \/ q.code = ""
    \/ q.to <= q.from \/ q.to - q.from > MaxRange

TenantAnswer(q) ==
    CASE q.who = "nobody" -> "unauthorized"
      [] q.who \in {"service", q.tenant} -> "none"
      [] OTHER -> "forbidden"

ApplicationAnswers(q) ==
    IF [tenant |-> q.tenant, app |-> q.app] \in Granted THEN {"unavailable"}
                                                       ELSE {"unavailable", "forbidden"}

MustRefuse(q) ==
    \/ MalformedQuery(q) \/ TenantAnswer(q) # "none"
    \/ "forbidden" \in ApplicationAnswers(q)
    \/ q.code \notin Codes
    \/ q.granularity \notin {"hour", "day", "month"}

RefusalsOf(q) ==
    IF MalformedQuery(q) THEN {"invalid"}
    ELSE IF TenantAnswer(q) # "none" THEN {TenantAnswer(q)}
    ELSE IF "forbidden" \in ApplicationAnswers(q) THEN ApplicationAnswers(q)
    ELSE IF q.code \notin Codes
         THEN {"unavailable", "internal", "notfound"}
    ELSE IF q.granularity \notin {"hour", "day", "month"}
         THEN {"unavailable", "internal", "invalid"}
    ELSE {"unavailable", "internal"}

-----------------------------------------------------------------------------
Aggregations == {"sum", "count", "max", "last"}

QueryInit ==
    /\ aggregation \in [Codes -> Aggregations]
    /\ facts = {}
    /\ query \in Queries
    /\ wpc = "idle"
    /\ page = 0 /\ total = 0 /\ totalQuantity = 0
    /\ shown = <<>>
    /\ since = {}
    /\ reply = "none"

\* A transaction of RecordUsage commits; facts are never changed or deleted.
CommitFacts ==
    /\ \E batch \in SUBSET (Facts \ facts) :
          batch # {} /\ IsFiniteSet(batch) /\ facts' = facts \cup batch
    /\ UNCHANGED <<aggregation, query, wpc, page, total, totalQuantity, shown, since, reply>>

\* The client asks for its first page.
Begin ==
    /\ wpc = "idle"
    /\ wpc' = "check"
    /\ page' = FirstPage(query)
    /\ since' = facts
    /\ UNCHANGED <<aggregation, facts, query, total, totalQuantity, shown, reply>>

\* The checks of a call, repeated for every page.
Refused ==
    /\ wpc = "check"
    /\ reply' \in RefusalsOf(query)
    /\ wpc' = "done"
    /\ UNCHANGED <<aggregation, facts, query, page, total, totalQuantity, shown, since>>

Accepted ==
    /\ wpc = "check" /\ ~MustRefuse(query)
    /\ wpc' = "summary"
    /\ UNCHANGED <<aggregation, facts, query, page, total, totalQuantity, shown, since, reply>>

\* The first statement of AggregateUsage ...
Summarize ==
    /\ wpc = "summary"
    /\ LET groups == Groups(facts, query, aggregation[query.code])
       IN  /\ total' = Cardinality(groups)
           /\ totalQuantity' = SumOf(groups)
    /\ wpc' = "rows"
    /\ UNCHANGED <<aggregation, facts, query, page, shown, since, reply>>

\* ... and the second one, which ends the call.  The client goes on to the next
\* page until one is not full.
SelectRows ==
    /\ wpc = "rows"
    /\ LET rows == PageOf(facts, query, page, aggregation[query.code])
       IN  /\ shown' = shown \o rows
           /\ IF Len(rows) < PageSize(query)
              THEN wpc' = "done" /\ reply' = "ok" /\ UNCHANGED page
              ELSE wpc' = "check" /\ page' = page + 1 /\ UNCHANGED reply
    /\ UNCHANGED <<aggregation, facts, query, total, totalQuantity, since>>

StatementFails ==
    /\ wpc \in {"summary", "rows"}
    /\ wpc' = "done" /\ reply' = "internal"
    /\ UNCHANGED <<aggregation, facts, query, page, total, totalQuantity, shown, since>>

WalkStep == Begin \/ Refused \/ Accepted \/ Summarize \/ SelectRows \/ StatementFails

QueryNext == CommitFacts \/ WalkStep

QuerySpec == QueryInit /\ [][QueryNext]_queryVars

-----------------------------------------------------------------------------
Shown == Range(shown)
Complete == wpc = "done" /\ reply = "ok"

\* A complete walk from the first page shows every fact that was committed when
\* it began in exactly one window, the one its occurred_at lies in, although
\* facts committed meanwhile move groups from page to page.  This is what
\* aggregating before LIMIT and OFFSET in the order of the groups gives.
FactsInOneWindow ==
    Complete /\ query.page <= 1 =>
        \A f \in Matching(since, query) :
            Cardinality({<<p.start, p.end>> : p \in
                {s \in Shown : s.dims = f.dims /\ s.start <= f.at /\ f.at < s.end}}) = 1

\* A walk during which nothing is committed shows each group once, in as many
\* rows and with the same sum as the totals every page reports; for a sum or a
\* count that is the sum or count of the facts themselves.
QuietWalkExact ==
    Complete /\ query.page <= 1 /\ facts = since =>
        LET rows == Matching(facts, query)
        IN  /\ Len(shown) = total /\ IsInjective(shown)
            /\ SumOf(Shown) = totalQuantity
            /\ aggregation[query.code] = "sum" => totalQuantity = SumOf(rows)
            /\ aggregation[query.code] = "count" => totalQuantity = Cardinality(rows)

\* The point of a maximum or a last value is the quantity of a fact of its group,
\* and no fact committed before the walk exceeds it or is later: a page read late
\* in the walk is never older than its start.
PointsUpToDate ==
    \A p \in Shown :
        LET group(rows) == {f \in Matching(rows, query) :
                f.dims = p.dims /\ Bucket(f.at, query.granularity) = p.start}
            from == {f \in group(facts) : f.quantity = p.quantity}
        IN  /\ aggregation[query.code] = "max" =>
                 \E f \in from : \A g \in group(since) : g.quantity <= f.quantity
            /\ aggregation[query.code] = "last" =>
                 \E f \in from : \A g \in group(since) \ {f} :
                    f.at > g.at \/ (f.at = g.at /\ f.id > g.id)

\* Whatever a client is shown comes from facts of the tenant and application it
\* asked about, and only if it may act for the tenant and the tenant has the
\* application.
ShownAuthorized ==
    \A p \in Shown :
        /\ query.who \in {"service", query.tenant}
        /\ [tenant |-> query.tenant, app |-> query.app] \in Granted
        /\ \E f \in facts : /\ f.tenant = query.tenant /\ f.app = query.app
                            /\ f.dims = p.dims
                            /\ Bucket(f.at, query.granularity) = p.start
=============================================================================
