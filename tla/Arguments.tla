------------------------------ MODULE Arguments ------------------------------
(***************************************************************************)
(* From the arguments of a tool call to a mutation or a query              *)
(* (Orchestrator.dispatch and what it calls in                             *)
(* internal/app/orchestrator.go, LedgerService.ApplyMutations).  The model *)
(* writes the arguments, so every field may be missing, of a wrong type or *)
(* unreadable, and money and dates come in the words of the user.          *)
(*                                                                         *)
(* A text is the set of its words, and its length their number.  A written *)
(* amount is its groups of digits (what "." and "," separate), a unit and  *)
(* what follows the unit, with the separators beside its digits.           *)
(* Instants count hours in UTC.  The specification is CallSpec, as the     *)
(* proofs read this module beside Queries.                                 *)
(***************************************************************************)
EXTENDS Integers, SequencesExt, TLC

CONSTANTS
  Base, GroupLen, Bits,       \* digits, digits in a group, width of an integer: 10, 3, 64
  HoursInDay, HoursAhead,     \* Asia/Ho_Chi_Minh is ahead of UTC: 24, 7
  PartHour,                   \* the hour of sang, trua, chieu, toi
  IncomeCategories, ExpenseCategories,
  Phrases,                    \* the phrases that name a category
  NoteLimit,                  \* MaxNoteLength
  Lookalikes,                 \* undeclared names that contain "type", "time", "amount", "category"
  IncomeWords, ExpenseWords, SkippedWords,
  Calls,                      \* the tool calls, with the message and when it came
  NoTime                      \* the zero time; no offset, no part of the day

CategoriesFor == [income |-> IncomeCategories, expense |-> ExpenseCategories]

\* Digits between "." and ",".
Group == [len : Nat, value : Nat]

\* What an argument may be.
Value(v) ==
  /\ v.is \in {"text", "number", "amount", "time", "junk"}
  /\ v.is = "text" => IsFiniteSet(v.words)
  /\ v.is = "number" => v.value \in Int
  /\ v.is = "amount" => /\ v.unit \in {"vnd", "k", "tr"} /\ v.groups \in Seq(Group)
                        /\ v.tail.is \in {"none", "digits", "thousands", "letters"}
                        /\ v.tail.len \in Nat /\ v.tail.marks \in Nat /\ v.tail.value \in Nat
  /\ v.is = "time" => /\ v.form \in {"instant", "date", "relative", "ngay", "part", "month"}
                      /\ v.at \in Int /\ v.day \in Int /\ v.offset \in Int \cup {NoTime}

ASSUME ArgumentsAssumption ==
  /\ Base \in Nat \ {0, 1} /\ GroupLen \in Nat \ {0} /\ Bits \in Nat \ {0}
  /\ HoursInDay \in Nat \ {0} /\ HoursAhead \in 0..(HoursInDay - 1)
  /\ NoteLimit \in Nat
  /\ \A part \in DOMAIN PartHour : PartHour[part] \in 0..(HoursInDay - 1)
  /\ \A c \in Calls : c.received \in Int /\ \A f \in DOMAIN c.args : Value(c.args[f])

VARIABLES
  call,      \* [tool, args, message, received]; args has the fields present
  outcome    \* what became of it

callVars == <<call, outcome>>

CallInit == call \in Calls /\ outcome = [is |-> "called"]

----------------------------------------------------------------------------
(* Amounts: parseAmount, parseInteger, parseDigits. *)

\* b to the n, as a recursion that can be reasoned about.
Raised(b, n) ==
  LET p[k \in 0..n] == IF k = 0 THEN 1 ELSE b * p[k - 1] IN p[n]

Power(n) == Raised(Base, n)
Thousand == Power(GroupLen)
Million == Power(2 * GroupLen)
Largest == Raised(2, Bits - 1) - 1

\* Arithmetic of int64.
Wrap(n) == ((n + Largest + 1) % Raised(2, Bits)) - Largest - 1

Unread == [ok |-> FALSE, value |-> 0]
Read(n) == [ok |-> TRUE, value |-> n]

\* The digits of the groups, one after the other.
Joined(groups) ==
  LET n[k \in 0..Len(groups)] ==
        IF k = 0 THEN 0 ELSE n[k - 1] * Power(groups[k].len) + groups[k].value
  IN n[Len(groups)]

\* At most GroupLen digits, then groups of exactly GroupLen.
ParseDigits(groups) ==
  IF /\ groups # <<>> /\ groups[1].len <= GroupLen
     /\ \A i \in DOMAIN groups : i > 1 => groups[i].len = GroupLen
     /\ Joined(groups) <= Largest
  THEN Read(Joined(groups)) ELSE Unread

\* g as the decimals of a million, of which it is to fill so many places.
Decimals(g, places) == g.value * Power(2 * GroupLen - places)

Short(g) == g.len <= GroupLen

\* The length of what follows the unit: separators count as places, though
\* they are no digits ("1tr,2" is 1 020 000).
Width(tail) == tail.len + tail.marks

\* Faulty: what follows the unit counts thousands.
Millions_TailThousands(a) ==
  LET whole == ParseDigits(a.groups) IN
  IF a.tail.is = "digits" /\ whole.ok /\ Width(a.tail) <= GroupLen
  THEN Read(Wrap(whole.value * Million + a.tail.value * Thousand))
  ELSE IF whole.ok THEN Read(Wrap(whole.value * Million)) ELSE Unread

\* 1tr2, 1,2tr, 1tr: the first reading that fits; what follows the unit is
\* dropped when it is not digits (of an accented "trieu" it begins with
\* letters), or too long.
Millions(a) ==
  LET whole == ParseDigits(a.groups) IN
  IF a.tail.is = "digits" /\ whole.ok /\ Width(a.tail) <= GroupLen
  THEN Read(Wrap(whole.value * Million + Decimals(a.tail, Width(a.tail))))
  ELSE IF Len(a.groups) = 2 /\ \A i \in {1, 2} : Short(a.groups[i])
  THEN Read(Wrap(a.groups[1].value * Million + Decimals(a.groups[2], a.groups[2].len)))
  ELSE IF whole.ok THEN Read(Wrap(whole.value * Million)) ELSE Unread

\* A JSON number, or a text; "k" or "nghin" at the end is seen first, and what
\* is before it must be digits.
ParseAmount(v) ==
  IF v.is = "number" THEN Read(v.value)
  ELSE IF v.is # "amount" THEN Unread
  ELSE CASE v.unit = "vnd" -> ParseDigits(v.groups)
         [] v.unit = "k"   -> LET n == ParseDigits(v.groups) IN
                              [n EXCEPT !.value = Wrap(@ * Thousand)]
         [] v.unit = "tr"  -> IF v.tail.is = "thousands" THEN Unread ELSE Millions(v)

----------------------------------------------------------------------------
(* Dates: parseOccurredAt for a record, parseTime for a query. *)

DayOf(at) == (at + HoursAhead) \div HoursInDay
Clock(at) == (at + HoursAhead) % HoursInDay
AtClock(day, hour) == day * HoursInDay + hour - HoursAhead

Blank(v) == v.is = "text" /\ v.words = {}

\* validToolTime.  Everything that begins with "hom" or "ngay" passes.
ValidToolTime(v) ==
  v.is = "time" /\ v.form \in {"instant", "date", "relative", "ngay", "part"}

OnPart(day, part, received) ==
  AtClock(day, IF part \in DOMAIN PartHour THEN PartHour[part] ELSE Clock(received))

\* Faulty: a part of the day is taken of today.
OccurredAt_PartOfToday(v, received) ==
  IF Blank(v) THEN received
  ELSE CASE v.form = "instant"  -> v.at
         [] v.form = "part"     -> OnPart(DayOf(received), v.part, received)
         [] v.form \in {"date", "ngay"} -> AtClock(v.day, Clock(received))
         [] v.form = "relative" ->
              IF v.offset = NoTime THEN NoTime
              ELSE IF v.part \in DOMAIN PartHour THEN OnPart(DayOf(received), v.part, received)
              ELSE AtClock(DayOf(received) + v.offset, Clock(received))

\* parseOccurredAt.  Without a time of day the clock of the message is kept; a
\* part of the day counts after hom nay, hom qua, ngay mai, not after a date;
\* other relative days are errors.
OccurredAt(v, received) ==
  IF Blank(v) THEN received
  ELSE CASE v.form = "instant"  -> v.at
         [] v.form = "part"     -> OnPart(DayOf(received), v.part, received)
         [] v.form \in {"date", "ngay"} -> AtClock(v.day, Clock(received))
         [] v.form = "relative" ->
              IF v.offset = NoTime THEN NoTime
              ELSE OnPart(DayOf(received) + v.offset, v.part, received)

\* parseTime: the start of the day.  What it cannot read, and a part of the
\* day, is the zero time.
ParseTime(v, received) ==
  IF Blank(v) THEN NoTime
  ELSE CASE v.form = "instant"  -> v.at
         [] v.form = "part"     -> NoTime
         [] v.form \in {"date", "ngay"} -> AtClock(v.day, 0)
         [] v.form = "relative" ->
              IF v.offset = NoTime THEN NoTime ELSE AtClock(DayOf(received) + v.offset, 0)

----------------------------------------------------------------------------
(* Words: subjectFromMessage, normalizeCategory, inferTransactionType. *)

\* The note, or what is left of the message without amounts and words of time.
Subject(note, message) == IF note # {} THEN note ELSE message \ SkippedWords

\* The categories a text may get: its own name or phrase, or any phrase it
\* contains (the map is walked in no order); else it is taken as a category.
Categories(value, note) ==
  LET text  == IF value # {} THEN value ELSE note
      named == {Phrases[w] : w \in text \cap DOMAIN Phrases}
  IN IF named # {} THEN named
     ELSE IF text = {} THEN {""}
     ELSE IF Cardinality(text) = 1 THEN text ELSE {"unsupported"}

InferredType(category, note) ==
  IF category \in CategoriesFor["income"] \ {"other"} \/ note \cap IncomeWords # {} THEN "income"
  ELSE IF note \cap ExpenseWords # {} \/ category # "" THEN "expense"
  ELSE ""

TypeOf(value, category, note) ==
  IF value # {} THEN CHOOSE w \in value : TRUE ELSE InferredType(category, note)

----------------------------------------------------------------------------
(* validateToolFields *)

Needed(kind) == [kind |-> kind, required |-> TRUE]
Optional(kind) == [kind |-> kind, required |-> FALSE]

Period == [start |-> Optional("time"), end |-> Optional("time"),
           type |-> Optional("string"), category |-> Optional("string")]

Schema(tool) ==
  CASE tool = "create_transaction" ->
         [type |-> Optional("string"), amount_vnd |-> Needed("int"), category |-> Optional("string"),
          note |-> Optional("string"), occurred_at |-> Optional("time")]
    [] tool = "update_transaction" ->
         [transaction_id |-> Needed("int"), type |-> Needed("string"), amount_vnd |-> Needed("int"),
          category |-> Needed("string"), note |-> Optional("string"), occurred_at |-> Optional("time")]
    [] tool \in {"delete_transaction", "restore_transaction"} -> [transaction_id |-> Needed("int")]
    [] tool = "search_transactions" ->
         Period @@ [note |-> Optional("string"), min_amount_vnd |-> Optional("int"),
                    max_amount_vnd |-> Optional("int")]
    [] tool = "get_statistics" ->
         [start |-> Needed("time"), end |-> Needed("time"), grouping |-> Needed("string"),
          comparison_start |-> Optional("time"), comparison_end |-> Optional("time")] @@ Period
    [] tool = "export_transactions" -> Period

FieldOK(field, v) ==
  CASE field.kind = "string" -> v.is = "text" /\ (field.required => v.words # {})
    [] field.kind = "int"    -> ParseAmount(v).ok /\ ParseAmount(v).value > 0
    [] field.kind = "time"   -> ValidToolTime(v) \/ (Blank(v) /\ ~field.required)

Present == DOMAIN call.args
Fields == Schema(call.tool)

Unknown == Present \ DOMAIN Fields

Bad == {f \in DOMAIN Fields : IF f \in Present THEN ~FieldOK(Fields[f], call.args[f])
                              ELSE Fields[f].required}

\* Faulty: a date is not asked for.
AskedFor_NoDate ==
  {"amount_vnd", "min_amount_vnd", "max_amount_vnd", "category", "type"} \cup Lookalikes

\* clarificationForToolError: an error whose text names one of these is a
\* question to the user, any other fails the request.  The text is searched
\* for words, so an undeclared field with such a name is asked about too.
AskedFor ==
  {"amount_vnd", "min_amount_vnd", "max_amount_vnd", "category", "type", "occurred_at"}
  \cup Lookalikes

Asked == [is |-> "asked"]
Error == [is |-> "error"]

About(field) == IF field \in AskedFor THEN Asked ELSE Error

----------------------------------------------------------------------------
(* Actions *)

Words(field) == IF field \in Present THEN call.args[field].words ELSE {}
When(field) == IF field \in Present THEN call.args[field] ELSE [is |-> "text", words |-> {}]
Number(field) == IF field \in Present THEN ParseAmount(call.args[field]).value ELSE 0

\* The fields are walked in no order, so any bad one may be the one reported;
\* the undeclared ones come first.
RejectFields ==
  /\ outcome.is = "called"
  /\ \/ \E f \in Unknown : outcome' = About(f)
     \/ Unknown = {} /\ \E f \in Bad : outcome' = About(f)
  /\ UNCHANGED call

Accepted(tools) == outcome.is = "called" /\ Unknown = {} /\ Bad = {} /\ call.tool \in tools

\* create and update: transactionInput.
DecodeInput ==
  LET note == Subject(Words("note"), call.message)
      at   == OccurredAt(When("occurred_at"), call.received)
  IN
  /\ Accepted({"create_transaction", "update_transaction"})
  /\ \E category \in Categories(Words("category"), note) :
       outcome' =
         IF (category = "" /\ note = {}) \/ at = NoTime THEN Asked
         ELSE [is |-> "input", id |-> Number("transaction_id"), note |-> note,
               amount |-> Number("amount_vnd"), category |-> category, at |-> at,
               type |-> TypeOf(Words("type"), category, note)]
  /\ UNCHANGED call

\* restore and delete: the row is named by its id.
DecodeId ==
  /\ Accepted({"restore_transaction", "delete_transaction"})
  /\ outcome' = [is |-> "row", id |-> Number("transaction_id")]
  /\ UNCHANGED call

TooLong(note) == Cardinality(note) > NoteLimit

\* TransactionInput.Validate when the batch is applied: the errors about the
\* type and the category name them, the one about the note does not.
Apply ==
  /\ outcome.is = "input"
  /\ outcome' = IF \/ outcome.type \notin DOMAIN CategoriesFor
                   \/ outcome.category \notin CategoriesFor[outcome.type]
                THEN Asked
                ELSE IF TooLong(outcome.note) THEN Error
                ELSE [outcome EXCEPT !.is = "saved"]
  /\ UNCHANGED call

Starts(field) == ParseTime(When(field), call.received)

Sorted(a, b) == a # NoTime /\ b # NoTime /\ a < b
NotSaid(a, b) == a = NoTime /\ b = NoTime

\* validateFilters and the grouping: errors of their own, never questions.
FiltersOK ==
  LET types == IF Words("type") # {} THEN Words("type") ELSE DOMAIN CategoriesFor IN
  /\ types \subseteq DOMAIN CategoriesFor
  /\ Words("category") # {} =>
       \E t \in types : \E c \in Words("category") : c \in CategoriesFor[t]
  /\ Number("max_amount_vnd") > 0 => Number("min_amount_vnd") <= Number("max_amount_vnd")
  /\ Words("grouping") \subseteq {"total", "day", "category", "type"}

\* search, statistics and export: the period is checked first, then the rest.
DecodeQuery ==
  /\ Accepted({"search_transactions", "get_statistics", "export_transactions"})
  /\ outcome' =
       IF /\ \/ Sorted(Starts("start"), Starts("end"))
             \/ call.tool # "get_statistics" /\ NotSaid(Starts("start"), Starts("end"))
          /\ \/ Sorted(Starts("comparison_start"), Starts("comparison_end"))
             \/ NotSaid(Starts("comparison_start"), Starts("comparison_end"))
       THEN IF FiltersOK
            THEN [is |-> "query", start |-> Starts("start"), end |-> Starts("end")]
            ELSE Error
       ELSE Asked
  /\ UNCHANGED call

CallNext == RejectFields \/ DecodeInput \/ DecodeId \/ Apply \/ DecodeQuery

CallSpec == CallInit /\ [][CallNext]_callVars

----------------------------------------------------------------------------
(* Properties *)

CallTypeOK ==
  /\ call \in Calls
  /\ outcome.is \in {"called", "asked", "error", "input", "row", "saved", "query"}

Saved == outcome.is = "saved"

\* The amounts that need no guessing: a number; whole groups, alone or before
\* "k" or "nghin"; one group before "tr" or "trieu", with fewer decimals than
\* make a group before the unit, or at most a group of them right after it.
Plain(v) ==
  \/ v.is = "number"
  \/ /\ v.is = "amount"
     /\ v.unit # "tr" => ParseDigits(v.groups).ok
     /\ v.unit = "tr" => /\ Short(v.groups[1])
                         /\ \/ Len(v.groups) = 1 /\ v.tail.is = "none"
                            \/ Len(v.groups) = 1 /\ v.tail.is = "digits"
                               /\ v.tail.marks = 0 /\ Short(v.tail)
                            \/ /\ Len(v.groups) = 2 /\ v.groups[2].len < GroupLen
                               /\ v.tail.is = "none"

\* What it says, in unbounded integers.
Exact(v) ==
  IF v.is = "number" THEN v.value
  ELSE CASE v.unit = "vnd" -> Joined(v.groups)
         [] v.unit = "k"   -> Joined(v.groups) * Thousand
         [] v.unit = "tr"  ->
              LET parts == IF v.tail.is = "digits" THEN Append(v.groups, v.tail) ELSE v.groups
                  len   == IF Len(parts) = 2 THEN parts[2].len ELSE 0
              IN (Joined(parts) * Million) \div Power(len)

Amount == call.args["amount_vnd"]

\* An amount in one of the plain notations is saved to the dong, as long as it
\* fits an integer.  The claim stops at those: what the code makes of others
\* (separators after the unit, an accented unit) is not what they say.
PlainAmountsAreExact ==
  Saved /\ Plain(Amount) /\ Exact(Amount) <= Largest => outcome.amount = Exact(Amount)

Names(v) == IF v.is = "time" /\ v.form = "relative" THEN v.offset # NoTime
            ELSE v.is = "time" /\ v.form \in {"date", "ngay"}

\* What is said wins over what is guessed: the day named, counted on the local
\* calendar from when the message came; after a relative day, the part of that
\* day (after a date the code drops it); the type; the category when its words
\* name one.  The day is the one a query with the same words begins with, so
\* that the record is found by them.
RecordsKeepWhatIsSaid ==
  Saved =>
    LET when == When("occurred_at") IN
    /\ Names(when) => Starts("occurred_at") = AtClock(DayOf(outcome.at), 0)
    /\ when.is = "time" /\ when.form = "relative" /\ when.part \in DOMAIN PartHour =>
         Clock(outcome.at) = PartHour[when.part]
    /\ Blank(when) => outcome.at = call.received
    /\ Words("type") # {} => outcome.type \in Words("type")
    /\ \A w \in Words("category") \cap DOMAIN Phrases :
         Cardinality(Words("category")) = 1 => outcome.category = Phrases[w]

\* A record that lacks something, or says it in a way that cannot be read, is
\* asked about and the request goes on; it fails only for a field nobody
\* declared, a note that is not a text, or a note that is too long, which may be
\* the message itself where the call has none.
CreatesEndInAQuestion ==
  call.tool = "create_transaction" /\ outcome.is = "error" =>
    \/ Unknown \ AskedFor # {}
    \/ "note" \in Bad
    \/ TooLong(Subject(Words("note"), call.message))

----------------------------------------------------------------------------
(* What the documents say and the code does not do. *)

\* An amount with several readings, or none, is never resolved silently.
AmountsAreNotGuessed ==
  Saved => Plain(Amount) /\ outcome.amount = Exact(Amount)

\* A clock value said wins over the clock of the message.
ClockIsKept ==
  Saved /\ When("occurred_at").is = "time" /\ When("occurred_at").form = "ngay" =>
    \A p \in {When("occurred_at").part} \cap DOMAIN PartHour : Clock(outcome.at) = PartHour[p]

\* A period that cannot be read is asked about, not left out.
PeriodsAreRead ==
  outcome.is = "query" => \A f \in {"start", "end"} \cap Present :
    Blank(call.args[f]) \/ Starts(f) # NoTime

\* Statistics without a period are asked about.
MissingPeriodsAreAsked ==
  call.tool = "get_statistics" /\ {"start", "end"} \cap Present = {} => outcome.is # "error"
=============================================================================
