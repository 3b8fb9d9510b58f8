------------------------------- MODULE Queries -------------------------------
(***************************************************************************)
(* Search, export and statistics (internal/app/ledger.go,                  *)
(* internal/storage/sqlite/query.go).  A query is one or more SELECTs with *)
(* no transaction around them.  It runs inside a message turn, which holds *)
(* the orchestrator's mutex, so no other message changes the table         *)
(* meanwhile; the delete buttons do not take that mutex.                   *)
(*                                                                         *)
(* occurred_at is compared as text (formatTime: RFC 3339 in UTC, without   *)
(* trailing zeros of the fraction).  An instant is a number of half        *)
(* seconds: even a whole second, odd one with a fraction.                  *)
(***************************************************************************)
EXTENDS LedgerOps, SequencesExt

CONSTANTS
  CategoriesOf,   \* the categories of each type
  Questions,      \* what the tools ask
  Mutations,      \* what messages do to the table between questions
  Limit,          \* maxSearchRows
  DayLength,      \* seconds in a day
  Offset,         \* Asia/Ho_Chi_Minh ahead of UTC
  MaxRows         \* bound on the rows

Types == {"income", "expense"}

\* TransactionInput.Validate.
ValidInput(c) ==
  /\ c.type \in Types
  /\ c.amount > 0
  /\ c.category \in CategoriesOf[c.type]

\* An instant of None is the zero time.
Question == [kind : {"search", "export", "statistics"},
             start : Nat \cup {None}, end : Nat \cup {None},
             cstart : Nat \cup {None}, cend : Nat \cup {None},
             type : Types \cup {None},
             category : UNION {CategoriesOf[t] : t \in Types} \cup {None, "other"},
             note : {"word", None}, min : Nat, max : Nat,
             group : {"total", "day", "category", "type", "week"}]

ASSUME QueriesAssumption ==
  /\ \A c \in Contents :
       ValidInput(c) /\ c.amount \in Nat /\ c.at \in Nat /\ c.note \in SUBSET {"word"}
  /\ Questions \subseteq Question
  /\ \A q \in Questions :
       q.kind = "statistics" => q.note = None /\ q.min = 0 /\ q.max = 0
  /\ Mutations \subseteq Mutation
  /\ Limit \in Nat \ {0} /\ DayLength \in Nat \ {0} /\ Offset \in Nat /\ MaxRows \in Nat

VARIABLES
  rows,    \* the transactions table
  turn     \* the message turn with a query, if any

vars == <<rows, turn>>

Idle == [phase |-> "idle"]

\* found holds the answer of each SELECT so far; seen, the table each one read.
Running(scope, q) == [phase |-> "running", scope |-> scope, q |-> q,
                      found |-> <<>>, seen |-> <<>>]

Init == rows = <<>> /\ turn = Idle

----------------------------------------------------------------------------
(* The request, as the service and the store validate it. *)

Ordered(start, end) == start # None /\ end # None /\ start < end

ValidFilters(q) ==
  /\ q.category # None =>
       \E t \in Types : q.type \in {t, None} /\ q.category \in CategoriesOf[t]
  /\ q.max > 0 => q.min <= q.max

Absent(start, end) == start = None /\ end = None

\* A search may leave out its period, statistics may not; a comparison may.
Valid(q) ==
  /\ ValidFilters(q)
  /\ Ordered(q.start, q.end) \/ (q.kind # "statistics" /\ Absent(q.start, q.end))
  /\ q.kind = "statistics" => /\ Ordered(q.cstart, q.cend) \/ Absent(q.cstart, q.cend)
                              /\ q.group # "week"

----------------------------------------------------------------------------
(* transactionWhere, and what the SELECTs return. *)

\* The place of formatTime(t) in text order: "Z" sorts after ".", so a whole
\* second comes after its fractions.
TextKey(t) == 2 * (t \div 2) + 1 - (t % 2)

\* Faulty: the end of the period belongs to it.
Within_Closed(t, start, end) ==
  start # None => TextKey(start) <= TextKey(t) /\ TextKey(t) <= TextKey(end)

\* occurred_at >= start AND occurred_at < end.
Within(t, start, end) ==
  start # None => TextKey(start) <= TextKey(t) /\ TextKey(t) < TextKey(end)

\* Every condition but the period.
Matches(row, scope, q) ==
  LET c == row.content IN
  /\ row.scope = scope
  /\ ~row.deleted
  /\ q.type \in {c.type, None}
  /\ q.category \in {c.category, None}
  /\ q.note # None => q.note \in c.note
  /\ q.min > 0 => c.amount >= q.min
  /\ q.max > 0 => c.amount <= q.max

Where(table, scope, q, start, end) ==
  {i \in DOMAIN table : /\ Matches(table[i], scope, q)
                        /\ Within(table[i].content.at, start, end)}

Wanted(table, q, scope) == Where(table, scope, q, q.start, q.end)

\* ORDER BY occurred_at, id.
Earlier(table, i, j) ==
  LET a == TextKey(table[i].content.at) b == TextKey(table[j].content.at) IN
  a < b \/ (a = b /\ i < j)

\* The rows of ids in that order.
Listing(table, ids) ==
  CHOOSE list \in [1..Cardinality(ids) -> ids] :
    \A i, j \in DOMAIN list : i < j => Earlier(table, list[i], list[j])

First(list) == SubSeq(list, 1, IF Len(list) < Limit THEN Len(list) ELSE Limit)

\* Faulty: the oldest rows are listed.
Page_OldestFirst(table, q, scope) == First(Listing(table, Wanted(table, q, scope)))

\* ORDER BY occurred_at DESC, id DESC LIMIT.
Page(table, q, scope) == First(Reverse(Listing(table, Wanted(table, q, scope))))

Whole(table, q, scope) == Listing(table, Wanted(table, q, scope))

Amounts(table, ids, type) ==
  SumFunction([i \in {i \in ids : table[i].content.type = type} |-> table[i].content.amount])

\* COUNT, SUM of the income, SUM of the expense.
Sums(table, ids) ==
  [count |-> Cardinality(ids), income |-> Amounts(table, ids, "income"),
   expense |-> Amounts(table, ids, "expense")]

\* substr(occurred_at, 1, 10): the date in UTC.
TextDay(t) == (t \div 2) \div DayLength

Key(c, group) ==
  CASE group = "day"      -> TextDay(c.at)
    [] group = "category" -> c.category
    [] group = "type"     -> c.type

\* GROUP BY.
Groups(table, q, scope) ==
  LET ids == Wanted(table, q, scope)
      key(i) == Key(table[i].content, q.group)
  IN [k \in {key(i) : i \in ids} |-> Sums(table, {i \in ids : key(i) = k})]

----------------------------------------------------------------------------
(* Actions *)

\* The SELECTs of a question, in order.
Selects(q) ==
  CASE q.kind = "search"     -> <<"count", "list">>
    [] q.kind = "export"     -> <<"all">>
    [] q.kind = "statistics" -> <<"totals">>
                                \o (IF q.group = "total" THEN <<>> ELSE <<"groups">>)
                                \o (IF q.cstart = None THEN <<>> ELSE <<"compared">>)

\* A tool call of a message turn; a request that does not validate is refused
\* before any SELECT.
Ask(scope, q) ==
  /\ turn = Idle
  /\ turn' = IF Valid(q) THEN Running(scope, q) ELSE [phase |-> "refused"]
  /\ UNCHANGED rows

Select(kind, answer) ==
  /\ turn.phase = "running"
  /\ Selects(turn.q)[Len(turn.found) + 1] = kind
  /\ turn' = [turn EXCEPT !.found = Append(@, answer), !.seen = Append(@, rows),
                          !.phase = IF Len(turn.found) + 1 = Len(Selects(turn.q))
                                    THEN "answered" ELSE "running"]
  /\ UNCHANGED rows

Count == turn.phase = "running" /\ Select("count", Cardinality(Wanted(rows, turn.q, turn.scope)))

List == turn.phase = "running" /\ Select("list", Page(rows, turn.q, turn.scope))

ExportRows == turn.phase = "running" /\ Select("all", Whole(rows, turn.q, turn.scope))

Totals == turn.phase = "running" /\ Select("totals", Sums(rows, Wanted(rows, turn.q, turn.scope)))

GroupBy == turn.phase = "running" /\ Select("groups", Groups(rows, turn.q, turn.scope))

\* The same filters over the comparison period.
Compare ==
  /\ turn.phase = "running"
  /\ Select("compared", Sums(rows, Where(rows, turn.scope, turn.q, turn.q.cstart, turn.q.cend)))

\* A SELECT fails: the answers before it are dropped.
SelectFails ==
  /\ turn.phase = "running"
  /\ turn' = [phase |-> "failed"]
  /\ UNCHANGED rows

\* The turn is over and the mutex free.
End ==
  /\ turn.phase \in {"answered", "refused", "failed"}
  /\ turn' = Idle
  /\ UNCHANGED rows

\* A mutation of a committed batch.
Change(scope, source, m) ==
  /\ ValidMutation(m)
  /\ Applicable([rows |-> rows], scope, m)
  /\ m.kind = "create" => Len(rows) < MaxRows
  /\ rows' = RowsAfter([rows |-> rows], scope, source, m)
  /\ UNCHANGED turn

\* Faulty: messages are not handled one at a time.
MessageBatch_Unlocked(scope, source, m) == Change(scope, source, m)

\* The turn of another message needs the mutex.
MessageBatch(scope, source, m) == turn = Idle /\ Change(scope, source, m)

\* A confirmed delete button.
Press(scope, source, id) ==
  Change(scope, source, [kind |-> "delete", id |-> id, content |-> None])

Next ==
  \/ \E scope \in Scopes, q \in Questions : Ask(scope, q)
  \/ Count \/ List \/ ExportRows \/ Totals \/ GroupBy \/ Compare
  \/ SelectFails \/ End
  \/ \E scope \in Scopes, source \in Sources, m \in Mutations : MessageBatch(scope, source, m)
  \/ \E scope \in Scopes, source \in Sources, id \in 1..MaxRows : Press(scope, source, id)

Spec == Init /\ [][Next]_vars

----------------------------------------------------------------------------
(* Properties *)

TypeOK ==
  /\ rows \in Seq(Row)
  /\ turn.phase \in {"idle", "refused", "failed", "running", "answered"}
  /\ turn.phase \in {"running", "answered"} => /\ turn.scope \in Scopes /\ turn.q \in Questions
                                               /\ Len(turn.seen) = Len(turn.found)

Answered(kind) == turn.phase = "answered" /\ turn.q.kind = kind

Second(t) == t \div 2

\* A row in the second of a boundary: whether it is listed depends on its
\* fraction.
AtBoundary(t, q) == q.start # None /\ Second(t) \in {Second(q.start), Second(q.end)}

Inside(t, q) == q.start # None => q.start <= t /\ t < q.end

Surely(table) ==
  {i \in DOMAIN table : LET t == table[i].content.at IN
     Matches(table[i], turn.scope, turn.q) /\ Inside(t, turn.q) /\ ~AtBoundary(t, turn.q)}

Possibly(table) ==
  {i \in DOMAIN table : LET t == table[i].content.at IN
     Matches(table[i], turn.scope, turn.q) /\ (Inside(t, turn.q) \/ AtBoundary(t, turn.q))}

At(table, i) == Second(table[i].content.at)

\* A listing shows only live rows of its identity that match, latest first.
\* One that is not marked truncated shows every such row, also when a button
\* deleted one between the two SELECTs; a truncated one shows the latest.  An
\* export shows them all.  Rows in the very second of a boundary may fall
\* either side.
ListingsAreComplete ==
  /\ Answered("search") =>
       LET total == turn.found[1]
           page  == turn.found[2]
           table == turn.seen[2]
           left  == Surely(table) \ ToSet(page)
       IN /\ ToSet(page) \subseteq Possibly(table)
          /\ \A i, j \in DOMAIN page : i < j => At(table, page[i]) >= At(table, page[j])
          /\ total <= Len(page) => left = {}
          /\ \A id \in left, k \in DOMAIN page : At(table, id) <= At(table, page[k])
          /\ total > Len(page) => Len(page) = Limit \/ turn.seen[1] # table
  /\ Answered("export") =>
       LET list == turn.found[1] table == turn.seen[1]
       IN Surely(table) \subseteq ToSet(list) /\ ToSet(list) \subseteq Possibly(table)

Grouped == Answered("statistics") /\ turn.q.group # "total"

Added(groups) ==
  LET sum(field) == SumFunction([k \in DOMAIN groups |-> groups[k][field]])
  IN [count |-> sum("count"), income |-> sum("income"), expense |-> sum("expense")]

\* The groups of a statistics answer add up to its totals; a delete pressed
\* between the two SELECTs can only make them fall short, never exceed.
GroupsWithinTotals ==
  Grouped =>
    LET totals == turn.found[1] added == Added(turn.found[2]) IN
    /\ turn.seen[1] = turn.seen[2] => added = totals
    /\ \A field \in DOMAIN totals : added[field] <= totals[field]

\* Two periods that meet, such as this month and the last, count every row of
\* their union once, whatever fraction of a second it has, unless one lies
\* within a second: then the text order may turn its bounds round.
PeriodsAddUp ==
  LET q == turn.q
      n == Len(turn.found)
      both == Sums(turn.seen[1], Where(turn.seen[1], turn.scope, q, q.cstart, q.end))
      meet == /\ q.cstart # None /\ q.cend = q.start /\ turn.seen[1] = turn.seen[n]
              /\ Second(q.cstart) < Second(q.start) /\ Second(q.start) < Second(q.end)
  IN Answered("statistics") /\ meet =>
       \A field \in DOMAIN both : turn.found[1][field] + turn.found[n][field] = both[field]

----------------------------------------------------------------------------
(* What the documents say and the code does not do. *)

LocalDay(t) == (Second(t) + Offset) \div DayLength

\* A group by day holds the rows of that day in Asia/Ho_Chi_Minh.
DaysAreLocal ==
  Grouped /\ turn.q.group = "day" =>
    \A k \in DOMAIN turn.found[2] : turn.found[2][k].count =
      Cardinality({i \in Possibly(turn.seen[2]) : LocalDay(turn.seen[2][i].content.at) = k})

\* The start of a period belongs to it and its end does not.
RangeIsHalfOpen ==
  Answered("search") /\ turn.found[1] = Len(turn.found[2]) =>
    LET table == turn.seen[2] IN
    ToSet(turn.found[2]) = {i \in DOMAIN table : /\ Matches(table[i], turn.scope, turn.q)
                                                /\ Inside(table[i].content.at, turn.q)}
=============================================================================
