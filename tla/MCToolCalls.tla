----------------------------- MODULE MCToolCalls -----------------------------
(***************************************************************************)
(* A small instance of Arguments and Queries for TLC, side by side: every  *)
(* tool call is decoded, and beside the one that opens the queries every   *)
(* question is asked.                                                      *)
(***************************************************************************)
EXTENDS Queries, Arguments

----------------------------------------------------------------------------
(* Queries: two days of two seconds, the local day one second ahead. *)

Input(type, amount, category, note, at) ==
  [type |-> type, amount |-> amount, category |-> category, note |-> note, at |-> at]

MCCategories == [income |-> {"salary"}, expense |-> {"food", "transport"}]

Noodles == Input("expense", 2, "food", {"word"}, 2)
Snack   == Input("expense", 3, "food", {}, 3)
Salary  == Input("income", 5, "salary", {}, 4)
Taxi    == Input("expense", 1, "transport", {"word"}, 7)

MCContents == {Noodles, Snack, Salary, Taxi}

All == [kind |-> "search", start |-> None, end |-> None, cstart |-> None, cend |-> None,
        type |-> None, category |-> None, note |-> None, min |-> 0, max |-> 0, group |-> "total"]

Monthly == [All EXCEPT !.kind = "statistics", !.start = 4, !.end = 8, !.cstart = 0, !.cend = 4]

\* Filters of every sort, groupings of every sort, adjacent periods, a period
\* that begins and ends in the second of a row, and refused requests.
MCQuestions ==
  { All,
    [All EXCEPT !.start = 2, !.end = 4],
    [All EXCEPT !.type = "expense", !.category = "food", !.min = 1, !.max = 2],
    [All EXCEPT !.note = "word", !.min = 2],
    [All EXCEPT !.kind = "export"],
    [All EXCEPT !.kind = "export", !.start = 3, !.end = 6],
    Monthly,
    [Monthly EXCEPT !.group = "category", !.cstart = None, !.cend = None],
    [Monthly EXCEPT !.group = "day", !.start = 3, !.end = 7, !.cend = 3],
    [Monthly EXCEPT !.group = "type", !.start = 2, !.type = "expense", !.cend = 2],
    [Monthly EXCEPT !.group = "total", !.start = 2, !.end = 3, !.cend = 2],
    [Monthly EXCEPT !.start = None],
    [Monthly EXCEPT !.group = "week"],
    [All EXCEPT !.start = 4, !.end = 2],
    [All EXCEPT !.type = "income", !.category = "food"] }

Create(c) == [kind |-> "create", id |-> 0, content |-> c]

MCMutations ==
  {Create(c) : c \in MCContents}
  \cup { [kind |-> "update", id |-> 1, content |-> Taxi],
         [kind |-> "restore", id |-> 1, content |-> None],
         [kind |-> "restore", id |-> 2, content |-> None] }

----------------------------------------------------------------------------
(* Arguments: binary digits in groups of two, so that a thousand is 4, a      *)
(* million 16 and the largest integer 63; notes of at most two words.         *)

MCPartHour == [sang |-> 8, toi |-> 20]
MCPhrases == [food |-> "food", bun |-> "food", grab |-> "transport", luong |-> "salary", khac |-> "other"]

Text(words) == [is |-> "text", words |-> words]
Junk == [is |-> "junk"]
Money(n) == [is |-> "number", value |-> n]

DigitGroups(lens) == UNION {[len : {n}, value : 0..(2 ^ n - 1)] : n \in lens}

Digits == {<<g>> : g \in DigitGroups(1..3)}
          \cup {<<g, h>> : g \in DigitGroups(1..2), h \in DigitGroups(1..3)}
          \cup {<<g, h, i>> : g, h, i \in DigitGroups({2})}

Rest(is) == [is |-> is, len |-> 0, marks |-> 0, value |-> 0]
DigitsAfter(g, marks) == [is |-> "digits", len |-> g.len, marks |-> marks, value |-> g.value]

\* Every notation, with every tail the parser tells apart.
Notations ==
  {Money(n) : n \in {-1, 0, 5}} \cup {Junk, Text({})}
  \cup [is : {"amount"}, groups : Digits, unit : {"vnd", "k"}, tail : {Rest("none")}]
  \cup [is : {"amount"}, groups : Digits, unit : {"tr"},
        tail : {Rest("none"), Rest("letters"), Rest("thousands")}
               \cup {DigitsAfter(g, marks) : g \in DigitGroups(1..3), marks \in 0..1}]

Time(form, at, day, offset, part) ==
  [is |-> "time", form |-> form, at |-> at, day |-> day, offset |-> offset, part |-> part]

AnyPart == {"sang", "toi", "dem", NoTime}

\* 2026-..T..Z, 12/03, hom qua toi, hom kia, ngay 12/03 sang, sang, thang nay.
Times ==
  {Time("instant", 40, 0, NoTime, NoTime), Time("date", 0, 3, NoTime, NoTime),
   Time("month", 0, 0, NoTime, NoTime), Text({}), Junk}
  \cup {Time("relative", 0, 0, o, p) : o \in {-1, 0, 1, NoTime}, p \in AnyPart}
  \cup {Time("ngay", 0, 3, NoTime, p) : p \in AnyPart}
  \cup {Time("part", 0, 0, NoTime, p) : p \in {"sang", "toi"}}

\* 12:00 and 03:00 of the next day in Asia/Ho_Chi_Minh, in UTC.
Receipts == {29, 44}

Call(tool, args, message, received) ==
  [tool |-> tool, args |-> args, message |-> message, received |-> received]

Bun == [amount_vnd |-> Money(5), category |-> Text({"bun"})]

Texts == {Text(w) : w \in SUBSET {"bun", "grab", "luong", "gift"}} \cup {Text({"khac"}), Text({"lac"}), Junk}

MCCalls ==
  {Call("create_transaction", [amount_vnd |-> a, category |-> Text({"bun"})], {}, 29) : a \in Notations}
  \cup {Call("create_transaction", [occurred_at |-> t] @@ Bun, {}, r) : t \in Times, r \in Receipts}
  \cup {Call("create_transaction", [amount_vnd |-> Money(5), type |-> t, category |-> c], m, 29) :
          t \in {Text({}), Text({"income"}), Text({"expense"}), Text({"thu"}), Junk},
          c \in Texts, m \in {{}, {"bun", "toi"}, {"luong", "mua"}, {"toi"}}}
  \cup {Call("create_transaction", [note |-> n] @@ Bun, {}, 29) : n \in {Junk, Text({"grab"}), Text({"bun", "grab"}), Text({"bun", "grab", "mua"})}}
  \cup {Call("create_transaction", args, {"bun"}, 29) :
          args \in {[category |-> Text({"food"})], [owner |-> Text({"me"})] @@ Bun,
                    [time_zone |-> Text({"utc"})] @@ Bun,
                    [owner |-> Junk, time_zone |-> Junk] @@ Bun,
                    [amount_vnd |-> Money(5)]}}
  \cup {Call("update_transaction", args, {}, 29) :
          args \in {[transaction_id |-> Money(1), type |-> Text({"expense"})] @@ Bun, Bun}}
  \cup {Call("create_transaction", Bun, {"bun", "grab", "mua"}, 29)}
  \cup {Call(tool, [transaction_id |-> v], {}, 29) :
          tool \in {"delete_transaction", "restore_transaction"}, v \in {Money(1), Money(0), Junk}}
  \cup {Call("search_transactions", [start |-> s, end |-> e], {}, 29) : s, e \in Times}
  \cup {Call("search_transactions", [min_amount_vnd |-> Money(5), max_amount_vnd |-> v, category |-> c], {}, 29) :
          v \in {Money(4), Money(9), Junk}, c \in Texts}
  \cup {Call("get_statistics", [start |-> s, end |-> Time("relative", 0, 0, 1, NoTime), grouping |-> g], {}, 44) :
          s \in Times, g \in {Text({"day"}), Text({"week"}), Text({})}}
  \cup {Call("get_statistics", [grouping |-> Text({"day"})], {}, 29)}
  \cup {Call("export_transactions", args, {}, 29) : args \in {<<>>, [type |-> Text({"thu"})]}}

----------------------------------------------------------------------------
(* The two side by side. *)

Opening == Call("export_transactions", <<>>, {}, 29)

Decoding == UNCHANGED vars
Querying == call = Opening /\ outcome.is = "query" /\ UNCHANGED callVars

ToolNext ==
  \/ RejectFields /\ Decoding
  \/ DecodeInput /\ Decoding
  \/ DecodeId /\ Decoding
  \/ Apply /\ Decoding
  \/ DecodeQuery /\ Decoding
  \/ \E scope \in Scopes, q \in Questions : Querying /\ Ask(scope, q)
  \/ Querying /\ Count
  \/ Querying /\ List
  \/ Querying /\ ExportRows
  \/ Querying /\ Totals
  \/ Querying /\ GroupBy
  \/ Querying /\ Compare
  \/ Querying /\ SelectFails
  \/ Querying /\ End
  \/ \E scope \in Scopes, source \in Sources, m \in Mutations :
       Querying /\ MessageBatch(scope, source, m)
  \/ \E scope \in Scopes, source \in Sources, id \in 1..MaxRows :
       Querying /\ Press(scope, source, id)

ToolInit == Init /\ CallInit

ToolSpec == ToolInit /\ [][ToolNext]_<<vars, callVars>>
=============================================================================
