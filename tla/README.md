# nyan-go in TLA+

This directory specifies the two programs of the repository and says, for each
part, what was checked with TLC and what was proved with TLAPS.

* **nyan-go** (`cmd/nyan-go`, `internal/...`) is a personal Discord bot that
  keeps an expense ledger in SQLite. A message goes to an AI provider, whose tool
  calls become ledger reads and mutations.
* **Nyan Post** (`discord-webhook`) is a small web server: it posts uploads to a
  Discord webhook and keeps a shared notebook in a SQLite database of its own.

Run anything here with `tlc -config <run>.cfg <module>` (the table of runs names
the module of each) and `tlapm <X>Proofs.tla`.

## 1. Inventory

### The parts, their state and their operations

| Part | Source | State | Operations |
| --- | --- | --- | --- |
| Ledger store | `internal/storage/sqlite/store.go` | tables `transactions`, `audit_events`, `mutation_batches`; one pooled connection | `ApplyBatch` (and `CreateBatch`, which builds one) |
| Queries | `internal/storage/sqlite/query.go` | none | `Search`, `Statistics`, `GetTransaction`, export |
| Ledger service | `internal/app/ledger.go` | none | `ApplyMutations`, `DeleteTransactions`, `GetTransaction`, ... |
| Delete confirmation | `internal/app/confirmation.go` | `pending`: token → request, in memory, under its own mutex | `Prepare`, `Confirm` |
| Orchestrator | `internal/app/orchestrator.go` | `pending`: user → unanswered request; `export`; a mutex | `Handle`, `TakeExport`, `ConfirmDelete`, the `dispatch` closure |
| Provider client | `internal/provider/responses/client.go` | none between calls | `RespondWithDispatcher`: up to four rounds of tool calls |
| Discord adapter and wiring | `internal/discord/adapter.go`, `cmd/nyan-go/main.go` | temporary files | one goroutine per event; `messageHandler`, `interactionHandler` |
| Daily reminder | `internal/reminder/scheduler.go`, `internal/storage/sqlite/reminder.go` | `attempted` (memory), `reminder_state` (row) | `Run`, `Check`, `RecordReminderDelivery` |
| Migrations | `internal/storage/sqlite/migrations.go`, `internal/storage/notes/sqlite.go` | the tables and their version in the file (`schema_version`, `user_version`) | `Open`, `migrate`, at every start |
| Tool arguments | `internal/app/orchestrator.go`, `internal/ledger/model.go` | none | `validateToolFields`, `parseAmount`, `parseOccurredAt`, `parseTime`, `transactionInput`, `clarificationForToolError` |
| Notes store | `internal/storage/notes/sqlite.go` | table `notes` | `Create`, `List`, `Update`, `Delete` |
| Notes handlers and page script | `discord-webhook/server.go` | page: list, offset, editor, a load in progress | `GET/POST /notes`, `PUT/DELETE /notes/{id}`, `loadNotes`, save, delete |
| Post server | `discord-webhook/server.go` | `failures` (address → window) under a mutex, `active` (channel of slots) | `authorize`, `handleSend`, `send` |
| Configuration, tool schema, page layout | | none | parsing, formatting |

### How they interact

A Discord message starts a goroutine, which waits for `Orchestrator.mu`. Under
the mutex, `Handle` combines the message with the user's pending request, runs
the provider's loop, and the loop calls back into `dispatch`: reads are done at
once, creations, updates and restorations are queued, deletions become a token.
At the end one batch goes to the store. The mutex is released, and only then
does the message handler take the export and send the reply. A button press runs
in another goroutine without that mutex; it meets the message handlers only in
`DeleteConfirmer.mu` and in the database. The reminder is a third, independent
goroutine that reads the same tables. In Nyan Post every request has its own
goroutine, and every page any number of requests under way.

### What is hard

* **Atomicity and redelivery.** A batch is several statements on one connection.
  Any can fail, the process can die between two of them, and Discord may deliver
  the message a second time, also while the first is being handled.
* **Locks that do not cover everything.** The buttons and the delivery of the
  reply run outside the orchestrator's mutex; the check, the comparison and the
  count of a password are three critical sections.
* **State in memory against state elsewhere.** Tokens, pending requests and
  `attempted` die with the process; buttons, rows and the reminder state do not.
* **Answers that may be lost.** A request to Discord, the provider or the web
  server may fail after having had its effect.
* **Time.** Requests, tokens, windows and reminders expire, timers fire late or
  early, and timestamps are ordered, compared and cut into days by their text.
* **Reads of several statements.** A search is two SELECTs and a statistics
  answer up to three, with no transaction around them and buttons beside them.
* **Words.** The model writes the arguments: amounts with separators and units,
  phrases of dates read by two different parsers, fields missing or wrong. Some
  of it fails the request, some becomes a question, some is filled in.
* **Starting.** Two processes may open one file at once, and either may die
  half way through making the tables.

### What makes each part correct

* Ledger store: a source message takes effect once, whole or not at all; the
  audit trail explains every row; identities are isolated; answers are durable.
* Delete confirmation: a token deletes at most once, in time, only the row it
  names; the reply is true.
* Provider loop: it ends; reads come before mutations; its usage log is true.
* Orchestrator: the words of a delivery are carried out at most once, abandoned
  ones never, a question can be answered; a confirmation stands for a committed
  batch.
* Reminder: at most one a day, only on idle days (up to their first second), only
  in its minute.
* Notes: paging shows every note once; an outdated page never hits another note;
  what the page says is true.
* Post server: lockouts are earned; success means the message exists, a refusal by
  Discord that it does not; slots are neither lost nor invented.
* Queries: a listing that is not marked truncated is whole, an export always is;
  groups stay within their totals; adjacent periods neither lose nor double a row.
* Tool arguments: an amount in a plain notation is saved exactly; what is said wins
  over what is inferred; a record that lacks something ends in a question.
* Migrations: the schema appears as a whole and once, nothing stored is lost, a
  process serves only its own version, and it comes up in the end.

`PROJECT.json` lists the hazards line by line, with the properties aimed at each.

## 2. Modules

| Module | Models | Uses |
| --- | --- | --- |
| `LedgerOps` | what one mutation, and a whole batch, does to a database content: operators only | |
| `Ledger` | abstract: what the ledger promises | `LedgerOps` |
| `LedgerStore` | `ApplyBatch`, statement by statement | `LedgerOps`, `Ledger` as refinement target |
| `DeleteConfirm` | tokens, presses, and the message handler beside them | `LedgerOps` |
| `ProviderLoop` | the function-call loop | |
| `Orchestrator` | a conversation: goroutines, mutex, `Handle`, delivery | `LedgerOps`, `ProviderLoop` |
| `Reminder` | the scheduler and its state row | |
| `Notes` | notebook store, handlers and page script | |
| `PostServer` | authentication and sending | |
| `Queries` | search, export and statistics, SELECT by SELECT | `LedgerOps` |
| `Arguments` | from the arguments of a tool call to a mutation, a query, a question or an error | |
| `Upgrade` | abstract: what opening a file promises | |
| `Migration` | `Open` and `migrate` of both databases, statement by statement | `Upgrade` as refinement target |
| `LedgerOpsProofs` | lemmas about the operators of `LedgerOps`, for the ledger store, the buttons, the conversation and the queries | `LedgerOps` |
| `LedgerStoreProofs`, `OrchestratorProofs`, `DeleteConfirmProofs` | theorems about the module they are named after | that module, `LedgerOpsProofs` |
| `NotesProofs`, `PostServerProofs` | theorems about the module they are named after | that module |
| `ProcessProofs` | theorems about what the bot does with no message to it | `Reminder`, `Migration` |
| `ToolCallProofs` | theorems about what becomes of a tool call: how it is read, and what is answered | `Arguments`, `Queries`, `LedgerOpsProofs` |
| `MCToolCalls` | values for TLC, and the two components of a tool call side by side | `Arguments`, `Queries` |
| the other `MC...` | values for TLC | the module of the same name |

Where several modules need the ledger, they need it at different grain.
`LedgerStore` shows that an accepted `ApplyBatch` is one atomic step equal to the
operator `LedgerOps!ApplyBatch` (`AnswersAsIfAlone`); `DeleteConfirm` and
`Orchestrator` then use that operator as one step, and `Queries` the operator of
one mutation. `Orchestrator` contains the loop of `ProviderLoop` as it stands: an
action of the conversation is an action of the loop joined with what the
dispatcher does. A module that another one extends beside a second component
names its specification so that the two can stand together: `LoopInit` and
`LoopNext` in `ProviderLoop`, `OpenSpec` in `Migration`, `CallSpec` in
`Arguments`; in all others it is `Spec`.

Operators named `X_Y` with the comment "Faulty" are wrong variants of `X` with a
bug someone might plausibly write (a missing rollback, a forgotten reset, an id
reused). No specification uses them. Put in the place of `X`, each makes a run
fail, which shows that the run can fail. `PROJECT.json` names the pairs.

### LedgerOps, Ledger, LedgerStore

A database content is the record `[rows, audit, batches]`. The identity of a
`RequestContext` (user, guild, channel) is one value, a *scope*. The validated
columns of a transaction are one value, a *content*. The id of a row is its
position, since rows are only ever soft-deleted and ids are never reused.
`Applicable`, `RowsAfter`, `EventOf`, `Recorded` are `applyMutation` and the two
INSERTs that go with it.

`LedgerStore` has the committed content `db`, the transaction `tx` on the only
connection (with its working copy of the content) and what each caller is doing.

| Action | Code |
| --- | --- |
| `Submit` | validation at the entry of `ApplyBatch` |
| `Begin`, `BeginFails` | `BeginTx`, which waits for the connection (`SetMaxOpenConns(1)`) |
| `LookupNew`, `LookupReplay`, `LookupForeign` | the idempotency lookup and its three outcomes |
| `ApplyOne`, `ApplyRefused` | one turn of the loop over the mutations |
| `RecordBatch` | INSERT INTO `mutation_batches` |
| `Commit` | `getTransactionsByIDs` and `Commit` |
| `StatementFails` | any error return; the deferred `Rollback` |
| `Return`, `Crash` | the caller goes on; the process dies and is restarted |

`Ledger` says what is promised without transactions: each step makes one whole
batch of a new source message visible, with one audit event per id it returns,
touching rows of its own scope only. `ImplementsLedger` is the refinement
(`L == INSTANCE Ledger WITH db <- db`): the statements of an open transaction,
failures, restarts and replays are stutters of the abstract ledger.

### DeleteConfirm

The message handler reads the row (`Look`) and later makes a token for it
(`Prepare`); what happens to the row between the two is open. A press goes
through `Take` (under the confirmer's mutex), `Check`, and `Delete` or
`DeleteFails`, with everything else interleaved. The ledger's source id of a
press is the pair of the interaction and the token, as `Confirm` builds it.
`Edit` stands for the batches the message handler applies. Buttons, being on
Discord, survive `Crash`; `pending` does not.

### ProviderLoop

What the provider answers is any element of `Rounds`, with or without text and
usage. A request or a dispatched call may fail at any point. `asked` counts the
requests really made and is compared with what the usage recorder is told. The
module has no run of its own: every behaviour of the loop is a turn of
`Orchestrator`, and its properties are checked there.

### Orchestrator

A *delivery* is one message event with its goroutine; one message may be
delivered twice. Its phases are the places where it can be interrupted: waiting
for the mutex, in its turn, storing the export, delivering, having taken the
export. `Cancel`, `Expire` and `Enter` are the three ways through the start of
`Handle`; the actions in the middle are those of the loop; `EndFailed`,
`EndMutations` and `EndText` are its returns. The words of a request are the
sequence of deliveries they came from, so that it is visible which messages the
provider is shown. `CarriedOutOnce` and `AbandonedStaysAbandoned` are about
deliveries: a message that Discord delivers again is new to `Handle`, and only the
batch recorded under its own id is known of it. What the documents promise of
messages is `RetriesAreNoDuplicates`, which a run refutes (section 3). An answer
with calls may come with any text; the client keeps it (`Called`) only beside a
mutation. `export` is read and written without the lock; a read during
a write (a data race) may give nothing or a mixture (`Torn`).

### Reminder

Time is in ticks. Every read, send and write of `Check` is a step, and between any
two of them transactions are recorded, deleted or moved (`Activity`). Where a
transaction lies in time is one of two `Places` of a day: its first second, if not
at its very start, or the rest. `Busy` is the search of the local day as SQLite
does it, by text: a time with a fraction sorts before its whole second, so the
search misses the first place of the day and finds that of the next. `OnlyIdleDays`
speaks of the rest of the day, and of a day that held a transaction all the while
from `Check`'s look at the clock to its search: one that is deleted in between, or
recorded after the search, is no fault of `Check`. `SendFails` may have delivered
the message. `Early` lets the timer fire a little before its
time, as a wall clock adjusted under a monotonic timer does.

### Notes

`table` and the AUTOINCREMENT counter are the store. A page has at most one load
(`notesLoading`), one save (the disabled button) and, in the model, one deletion
under way; the answer of each is separate from its effect, and either may fail.
`Update` is two statements, so that a note may vanish between them. Times are
ordered as the text of RFC3339Nano orders them, with two fractional digits.
`Listing`, the table in the order of `ORDER BY updated_at DESC, id DESC`, is the
one sequence of all notes in which each stands before the later ones. One
page is followed in detail; the requests of all other pages are seen where they
meet it, in the store (`CreateElsewhere`, `UpdateElsewhere`, `DeleteElsewhere`).

### PostServer

A request passes `allowPasswordAttempt`, the comparison and
`recordPasswordFailure` or `clearPasswordFailures` in separate steps; the clock is
read before the mutex is had (`Arrive`, `Allow`). An upload then takes a slot.
Discord may create the message before its answer, or after the server gave up on
it (`Create`). Of the answers (`Answers`), `Possible` takes two at their word: a 2xx
with the id of a message is about a message that is there, and a status below 500,
429 among them, about one that was not created and will not be. A 2xx without an
id, a 5xx (which a gateway may give for a request that Discord carried out) and a
lost answer say nothing, and each POST creates at most one message. These are
assumptions about Discord's interface, which the code relies on and does not check.
`Verdict` is what `send` and `handleSend` make of an answer. The code tells a 5xx as
a refusal; `RepliesAreTrue` claims nothing of that case, and `RefusalsAreCertain`
states what the documents ask of it (section 3).

### Queries

`turn` is the message turn under way, with the answer of each SELECT so far and,
for the properties only, the table each SELECT read. `Ask` validates as the
service and the store do; `Count`, `List`, `ExportRows`, `Totals`, `GroupBy` and
`Compare` are the SELECTs; any may fail. `MessageBatch` (a batch of another
message) needs the turn to be over, `Press` (a confirmed delete button) does
not. An instant is a number of half seconds, odd ones with a fraction: `TextKey`
orders them as their RFC3339Nano text is ordered, in which a whole second comes
after its fractions, and `TextDay` is the date in the text, which is UTC.
`ListingsAreComplete` therefore leaves open only the rows in the very second of a
boundary, and `PeriodsAddUp` the periods that lie within one second, whose bounds
the text order may turn round. `Listing` is `ORDER BY occurred_at, id`: the one
sequence of the found rows in which each stands before the later ones. A page is
the front of its reverse.

### Arguments

One call of a tool, from the moment its arguments arrive. `RejectFields` is
`validateToolFields`; the schema is walked in no order, so with two bad fields
either may be the one reported, and only some errors are questions:
`clarificationForToolError` searches the text of the error for words, so the name
of an undeclared field may make it a question (`Lookalikes`), while a note that is
too long fails the request. `DecodeInput` is `transactionInput`, `Apply` the validation of the batch at the end of the turn,
`DecodeQuery` the conversion and validation of a query. A written amount is its
groups of digits, its unit and what follows the unit, of which the code takes the
length with its separators and the digits without them (`Width`); `Wrap` is the
arithmetic of `int64`. `Plain` lists the notations for which `PlainAmountsAreExact`
is claimed: a number; whole groups, alone or before `k` or `nghin`; one group before
an unaccented `tr` or `trieu`, with fewer decimals than make a group before the
unit or at most a group of them directly after it. Outside these the code guesses:
`AmountsAreNotGuessed` (section 3). The length of a note is its number of words. `Value` says what an argument may be. A date is what the parsers tell apart: an instant, a date, hôm or ngày
with a relative day or a date, a part of the day. A text is the set of its words.
The same words are given to both date parsers, and `RecordsKeepWhatIsSaid`
compares them.

### Migration, Upgrade

`store` says which of the two databases is opened. The first statement of the
migration takes the write lock, `work` is the file as the transaction sees it,
and it becomes the file at `Commit`; that the commit itself is refused
(SQLITE_BUSY, a reader of another process) is one of the failures of `Fault`, of
which there are `MaxFaults`. `Prepare` (the ledger's
`CREATE TABLE IF NOT EXISTS schema_version`) and `ReadVersion` are outside that
transaction, so a second process may have committed in between: the ledger's
statements then run again over the tables, and the notes' `CREATE TABLE` clashes
and `Open` fails. A process that fails is started again by its container.
`Upgrade` knows two things: whether the whole schema is there, and how many rows
are stored. `U == INSTANCE Upgrade WITH ready <- Ready, data <- file.data` is the
refinement mapping, and `ImplementsUpgrade` the refinement.

## 3. Runs

| Run | Module | Shows |
| --- | --- | --- |
| `LedgerStore_calls` | `MCLedgerStore` | `TypeOK`, `AuditIsAChain`, `AuditExplainsRows`, `ScopeIsolation`, `BatchesAreRuns`, `AnswersAreDurable`, `AnswersAsIfAlone`, `ImplementsLedger`, `EveryCallAnswered` |
| `DeleteConfirm_presses` | `MCDeleteConfirm` | `TokenIsOneUse`, `DeletesWhatWasPressed`, `StalePressesAreInert`, `RepliesAreTrue` |
| `Orchestrator_talk` | `MCOrchestrator` | `TypeOK`, `CarriedOutOnce`, `AbandonedStaysAbandoned`, `QuestionsStayOpen` |
| `Orchestrator_tools` | `MCOrchestrator` | `MutationsComeLast`, `UsageRecordsAreTrue`, `ConfirmationsAreTrue`, `EveryMessageAnswered` |
| `Reminder_days` | `MCReminder` | `OneReminderPerDay`, `OnlyIdleDays`, `NoCatchUp`, `CooldownKept` |
| `Notes_pages` | `MCNotes` | `PagesAddUp`, `AnswersAreTrue`, `StaleRequestsHitTheirNote` |
| `PostServer_requests` | `MCPostServer` | `LockoutsAreEarned`, `RepliesAreTrue`, `SlotsAreCounted` |
| `ToolCalls_answers` | `MCToolCalls` | `ListingsAreComplete`, `GroupsWithinTotals`, `PeriodsAddUp`, `PlainAmountsAreExact`, `RecordsKeepWhatIsSaid`, `CreatesEndInAQuestion` |
| `Migration_starts` | `MCMigration` | `ServesItsOwnSchema`, `ImplementsUpgrade`, `ComesUp` |
| `Orchestrator_retries` | `MCOrchestrator` | `RetriesAreNoDuplicates` is violated |
| `Orchestrator_exports` | `MCOrchestrator` | `ExportsReachTheirRequest` is violated |
| `Reminder_daily` | `MCReminder` | `DailyReminder` is violated |

### Bounds, and why they are enough

* `LedgerStore_calls`: two callers and two messages, so that they compete for the
  connection and for the same message; two identities, although the bot serves
  one user at a time: rows outlive a change of the configured user or channel,
  and the code checks the identity everywhere. Six batches: a creation; a
  deletion; a creation and a deletion; a restoration and an update; an update
  and a restoration of another row; one that does not validate.
  Between them every kind of mutation succeeds and is refused, as the first and
  as the second of a batch, and a row is touched twice.
* `DeleteConfirm_presses`: two presses, each delivered at most twice, two tokens,
  two identities, two message batches, one restart. The lifetime of a token is
  zero ticks and the clock has two instants: a press at the last instant, one
  that is too late, and one whose check is overtaken by the clock all occur.
  Messages, presses, tokens and identities are interchangeable.
* `Orchestrator_talk`: three deliveries (a request, an answer, a further
  message) of two message ids, with a clock of two instants around the lifetime of
  a request. `Orchestrator_retries` has the same bounds: a request, its answer and
  the request again. `Orchestrator_tools`: two deliveries and every tool, with a
  restart. Two rounds are enough there to have a read, then a mutation, or the
  limit; answers mix reads and mutations in either order, with and without usage
  and text.
* `Reminder_days`: three days of five ticks, a configured minute of two ticks,
  a timer one tick early, a cooldown longer than a day, one restart; every day has
  both its places, and one step may empty one and fill another.
  `Reminder_daily` has the default cooldown, exactly one day.
* `Notes_pages`: one note per load and three saves by all pages together, two
  instants; so there are listings of up to three loads, notes deleted and created
  anew, and edits that move a note.
* `PostServer_requests`: three requests, two addresses, two allowed failures,
  room for one window (so that windows push each other out), two slots, a window
  of two ticks in a clock of four instants.
* `ToolCalls_answers` decodes every call, and beside the one that opens the queries
  it asks every question; the two components share no state, so nothing is lost by
  not running every query beside every call. Queries: up to three rows of four contents (both types, three
  categories, with and without the note's word, whole seconds and fractions) of
  two identities, a page of two rows, days of two seconds. Fifteen questions:
  each filter and grouping, adjacent periods, periods that begin and end within
  the second of a row, and four that are refused. Three rows and a page of two
  are what truncation needs.
  Arguments: numbers are binary with two digits to a group, so a thousand
  is 4, a million 16 and the largest integer 63: overflow, one digit too many
  in a group and in the decimals, a separator after the unit, and every pair of
  notations occur, over all values. A note has at most two words, and there are
  notes and messages of three. The messages come at noon and at three in the morning of the local
  calendar, whose UTC dates differ. What is true of three decimal digits and 64
  bits is the same shape; the bounds are CONSTANTS.
* `Migration_starts`: two processes, three failures or deaths, two rows, and every
  kind of file: new, with some of the ledger's tables and no version, current, of
  a later release; enough for both to be anywhere in
  `Open` while the other commits, and for a process to fail again after a
  restart.

`CHECK_DEADLOCK FALSE` is set where the system of the model really stops: the
clock, the messages, the tokens, the saves or the requests of the instance are
used up, or when the one call of `Arguments` is decoded. `LedgerStore` never
stops, and deadlock is checked.

### Fairness

* `LedgerStore`: weak fairness of a started transaction (its statements end,
  well or with an error) and strong fairness of `Begin`. `database/sql` hands the
  free connection to one of the waiting requests, to any of them; a run has
  finitely many callers, each of which lets go of the connection, so that none is
  passed over for ever.
* `Migration`: weak fairness of a process that is opening the file or waiting to
  be restarted: statements return, and `compose.yaml` says
  `restart: unless-stopped`. A lock held by the other process fails the start;
  that it comes up in the end needs no stronger assumption, because the holder
  finishes or fails.
* `Orchestrator`: weak fairness of a goroutine that has its turn (the HTTP client
  has a timeout and a dispatched call returns), and strong
  fairness of taking the mutex: `sync.Mutex` becomes first-in-first-out for a
  waiter that has waited for a millisecond.

No fairness is assumed of messages, presses, the clock, failures or restarts.

### Disagreements with the documentation

Three runs show the code doing something other than the repository's own
specification says:

1. `Orchestrator_retries`. The answer to a question is handled together with the
   message that raised it, and the batch is recorded under the id of the answer
   (`orchestrator.go:83`). When Discord delivers the first message again, nothing is
   pending and nothing is recorded under its id: it is carried out a second time.
   `.scratch/discord-expense-bot-ai/spec.md` promises at lines 48 and 76 that a
   repeated delivery does not repeat writes.
2. `Orchestrator_exports`. `o.export` is one field, read and cleared outside the
   mutex after `Handle` returned (`orchestrator.go:172`). With two requests close
   together, the one that asked for the export may be answered with another's
   file or with none.
3. `Reminder_daily`. The default cooldown is 24 hours from the moment of the
   previous check. A check a few seconds earlier in its minute than yesterday's
   finds the cooldown running, settles the day and sends nothing
   (`scheduler.go:95`).

Further claims are stated in the modules and not kept as runs. Each shows as a
violated invariant (`WholeDayCounts`: a violated property) when it is added to the
configuration named:

| Claim | Add to | What the code does |
| --- | --- | --- |
| `NewNotesAppear` (a saved note appears without a reload) | `Notes_pages` with `Limit = 2`, `MaxTime = 0` | `loadNotes` returns at once while a load is under way, and the save handler does not notice (`server.go:637`, `:642`) |
| `NewestFirst` | `Notes_pages` with `Limit = 2` | RFC3339Nano drops trailing zeros, so notes of one second may be out of order |
| `SourceOrder` | `Orchestrator_talk` | goroutines reach the mutex in any order |
| `FailuresKeepTheRequest` | `Orchestrator_talk` | a provider failure while an answer is handled loses the pending request |
| `PromptsReachTheUser` | `Orchestrator_tools` | a turn with a mutation, a text or two deletions drops its delete prompts |
| `ReportedUsageIsRecorded` | `Orchestrator_tools` | the return at a read after a mutation records no usage |
| `RefusalsAreCertain` (`discord-webhook-web/spec.md`, story 23 and line 92: a warning when the outcome is uncertain) | `PostServer_requests` | any status outside 2xx is told as a refusal, also a 5xx after which the message exists (`server.go:416`, `:326`) |
| `WholeDayCounts` (a day with a transaction is not idle) | `Reminder_days` | the day is searched by text, so a transaction with a fraction in the day's first second is missed (`scheduler.go:99`) |
| `DaysAreLocal` (days of Asia/Ho_Chi_Minh) | `ToolCalls_answers` | `substr(occurred_at, 1, 10)` is the UTC date |
| `RangeIsHalfOpen` (inclusive start, exclusive end) | `ToolCalls_answers` | within the second of a boundary the text order differs from the order in time |
| `AmountsAreNotGuessed` (never silently resolve an ambiguous amount) | `ToolCalls_answers` | `1tr,2` is 1 020 000, since the separator counts as a decimal place (`orchestrator.go:471-476`); an accented `1 triệu 200` is 1 000 000, since what follows `tr` is then letters and is dropped; `1,234tr` is read as decimals; a product beyond 64 bits wraps |
| `ClockIsKept` (an explicit value overrides a default) | `ToolCalls_answers` | after `ngày 12/03` a part of the day is dropped |
| `PeriodsAreRead` | `ToolCalls_answers` | `hôm kia` passes the validation, cannot be read, and leaves the search without a period |
| `MissingPeriodsAreAsked` (statistics without a period end in a question) | `ToolCalls_answers` | the missing `start` or `end` is an error of the fields and fails the request |

## 4. Theorems

Every safety invariant and action property that a run checks is stated by a
theorem. The theorems hold for every value of the constants that meets the named assumptions:
any number of callers, messages, buttons, pages or processes, batches of any
length, tables of any size, numbers of any width, any bound on clock, restarts and
faults.

| Module | Theorem | Property |
| --- | --- | --- |
| `LedgerStoreProofs` | `TypeCorrect` | `TypeOK` |
| | `ExactlyOnce` | `BatchesAreRuns` |
| | `AuditChain`, `AuditComplete` | `AuditIsAChain`, `AuditExplainsRows` |
| | `Isolation` | `ScopeIsolation` |
| | `DurableAnswers` | `AnswersAreDurable` |
| | `Linearizable` | `AnswersAsIfAlone` (of every step) |
| | `Refinement` | `ImplementsLedger` (`Spec => L!Spec`) |
| `DeleteConfirmProofs` | `OneUse` | `TokenIsOneUse` |
| | `Pressed` | `DeletesWhatWasPressed` |
| | `TrueReplies` | `RepliesAreTrue` |
| | `StaleIsInert` | `StalePressesAreInert` (of every step) |
| `OrchestratorProofs` | `TypeCorrect` | `TypeOK` |
| | `MutationsLast`, `TrueUsage` | `MutationsComeLast`, `UsageRecordsAreTrue` of the loop |
| | `CarriedOut` | `CarriedOutOnce` |
| | `Abandoned` | `AbandonedStaysAbandoned` |
| | `TrueConfirmations` | `ConfirmationsAreTrue` |
| | `OpenQuestions` | `QuestionsStayOpen` |
| `ProcessProofs` | `OncePerDay` | `OneReminderPerDay` |
| | `IdleDaysOnly` | `OnlyIdleDays` |
| | `InTheMinute` | `NoCatchUp` |
| | `Cooldowns` | `CooldownKept` |
| | `ServingIsSound` | `ServesItsOwnSchema` |
| | `OpeningImplementsUpgrade` | `ImplementsUpgrade` (`OpenSpec => U!Spec`) |
| `PostServerProofs` | `TrueReplies` | `RepliesAreTrue` |
| | `CountedSlots` | `SlotsAreCounted` |
| | `EarnedLockouts` | `LockoutsAreEarned` (of every step) |
| `NotesProofs` | `WholeListing` | `PagesAddUp` |
| | `TrueAnswers` | `AnswersAreTrue` |
| | `RightNote` | `StaleRequestsHitTheirNote` (of every step) |
| `ToolCallProofs` | `CompleteListings` | `ListingsAreComplete` |
| | `GroupsAreWithin` | `GroupsWithinTotals` |
| | `PeriodsDoAddUp` | `PeriodsAddUp` |
| | `ExactAmounts` | `PlainAmountsAreExact` |
| | `WhatIsSaidIsKept` | `RecordsKeepWhatIsSaid` |
| | `CreatesAreAsked` | `CreatesEndInAQuestion` |

The type invariant of every component is a theorem too (`TypeCorrect`;
`FileTypeCorrect` for `Migration`, `CallTypeCorrect` for `Arguments`), from
`Invariance` (`Spec => []IInv`) like the rest: hardly any of the properties is
inductive as it stands. Each `IInv` was checked with TLC, on the configuration of its
component. `NextIInv` has one step or one lemma per action, and under
it one step per conjunct that the action disturbs.

### What each invariant adds

**LedgerStore.** What is committed next is what an open transaction has built, so
`IInv` says of the working copy what the properties say of the database:

* `Sound(d)`: a content is well typed, every audit event names an existing row of
  its own scope, the events of a row form a chain, and every row is the outcome
  of its last event. It holds of the committed content and of every working copy.
* `InRuns(db)`: the events of a source message are one run of the audit table.
* `CallsAccepted`: whoever waits or has a transaction passed validation.
* `TxProgress`: the transaction belongs to a caller inside the call. After *k*
  statements the working copy is stage *k* of the batch run alone on the
  committed content (`Stages`), and the source message has no batch row; at the
  commit it is what `LedgerOps!ApplyBatch` makes of the database.
* `AnswersAreDurable`.

`AppliedIsSound` (one applicable mutation takes a sound content to a sound one)
carries it. `Linearizable` reads the last part of `TxProgress` at the commit;
that the only connection is held, so that the committed content under a
transaction does not move, is what makes it true. A batch has any length: where
an induction over its mutations is needed (`Stages` is a recursive function), it
is an induction over the set of stages reached, done by the least
counterexample (`SetInduction`). `Refinement` maps a commit to `Ledger!Accept` and
every other step, a failed statement and a crash with an open transaction among
them, to a stutter.

**DeleteConfirm.** The right to delete that a token stands for is in one place:
with the confirmer (`pending`), with one handler that has taken it (`Holds`), or
spent on one deletion in the audit trail. That is `TokenInv`; each press has a
source id of its own, so the ledger's idempotency would not stop a second one.
`MadeWith` ties the request in `pending`, or in a handler's hand, to the prompt it
was made from (same row, scope, deadline, life of the process), from which
`DeletesWhatWasPressed` and `StaleIsInert` follow. `BatchInv` and `ReplyInv` tie
recorded batches and replies to deletions.

**Orchestrator.** `WordsInv` is the heart: the words of a request (the deliveries
they came from) wait in `pending`, or are worked on by the delivery that holds the
mutex, or were carried out in a confirmed batch, and are in only one of these
places; dropped words are neither waiting nor worked on. `HandInv` says that the
mutex belongs to the delivery at work. `BatchInv` ties batch rows to confirmed
deliveries; `TurnInv` ties the history of turns to the mutex, for
`QuestionsStayOpen`. `LoopInv` adds to the two properties of the loop where it is:
requests made equal rounds gone, and no mutation is among the calls done unless
`mutationInRound` says so.

**Reminder.** That nobody is reminded of a busy day is carried by `check.busy`: it is
given up as soon as the day's transactions are gone, and as long as it stands the
search finds the day busy. An armed timer is for a day after that of every reminder sent
(`TimerInv`), and so is a check until it sends (`CheckInv`): `attempted` is not
needed for it: `NextTarget` is strictly later than now, so that a timer armed
within the minute, after a check or a restart, is for another day. `CheckInv` also carries the cooldown from reading
the row to sending, and `OrderInv` says of any two reminders what the
properties say of neighbours.

**PostServer.** A window's count is at most the number of wrong passwords of its
address that were not older than a window at any time before it ends (`Counted`),
and it ends no later than a window from now (`WindowInv`), so a clock read before
the mutex was had does no harm: when a later password, a success, the
eviction of the window or the clock intervenes between check, comparison and
count, the count only falls behind. `SlotsAreCounted` is inductive with the
finiteness of `Uploads`; each path into and out of the upload is a cardinality
step.

**Notes.** `FormsInv`: whatever a page holds, shown, being edited, in a request or
in an answer on its way, was shown of an id that was given out and that since
belongs to the same note, or to none (`KnownNotes`). A known note stays one
whatever is saved or deleted, because ids are never reused (`StoreInv`). `RequestsInv` says what
a save or deletion under way knows of its text. `PagesInv` compares a page,
together with the answer that is on its way to it, with the present `Listing`
as long as nobody has written. That there is a listing at all is the lemma
`SortedListing`: a finite set has one in every strict total order, each element
standing at the number of those before it. The order is that of the dates as
text, shown strict and total for every number base.

**Migration.** `WorkIsPartial`: the transaction is of a process that migrates, the
tables it made so far are the first ones of its store, it has left the rows
alone, and it writes the version last. `VersionIsTrue`: a file with the current
version has every table; a process migrates only a file of no later version and
serves only the current one. `OpeningImplementsUpgrade` maps the commit of a migration to
`Upgrade!Migrate` and a row stored by a serving process to `Upgrade!Write`; a
second migration of a migrated file, a failure or a death is a stutter.

**Queries.** `TurnInv` says that each answer of a turn is the one its SELECT has on
the table it read (`AnswerTo`), and `Fewer` that a later SELECT read that table
with some rows deleted: messages wait for the turn, so only a button can come
between. `RowsInv` says the same of the table as it is now. The rest is about
the answers:

* A listing exists and is sorted whatever the rows are (`SortedListing`, the
  argument of the notes' lemma of that name); `SecondsInOrder` relates the order
  of the text to that of time, from which what `ListingsAreComplete` says
  of the boundaries follows.
* Sums are counted. What `SumFunction` computes is an induction over data; here
  the amount of a row is a set of that many units, and a sum is the cardinality
  of their union (`SumIsUnits`, by induction over finite sets; `Coins` for the
  rows of a type). Adding up groups and periods is then the union of disjoint
  sets (`SumOfParts`, `SumsOfUnion`), and falling short is a subset
  (`SumsOfFewer`).

The attempt to prove `PeriodsAddUp` without its last condition failed for a
good reason. Let the period end within the second in which it starts and the
comparison ends. The text order puts that end before the start: a row at the end
is counted by the comparison and is not in the union. The run asks that question
too, and without the condition TLC finds the invariant violated. It therefore asks
that the three bounds lie in different seconds, as those of days and months do.

**Arguments.** A call is decoded in at most two steps, so `CallInv` has little to
carry: `Decoded` says of a record which fields of the call it was computed from,
and that nothing was wrong with them. The work is in what the parsers compute.
`Raised` and `Joined` are recursive functions, described by the least
counterexample as the stages of a batch are (`Iterates`): `RaisedFacts` has the
laws of powers, `JoinedFacts` the value of one group with the next appended. An
amount in range is not changed by `Wrap` (`WrapIsExact`), a unit and its decimals
make a whole number (`MillionsAreWhole`), and so a plain amount is read as what
it says (`PlainIsExact`). `DayAndClock` takes an instant apart into a day and an
hour of the local calendar and puts it together again, for `NamedDays`: both
parsers of the same words arrive at the same day.

### Assumptions

The assumptions on the constants are named in the modules and evaluated by TLC
on every run.

* `NoneAssumption`, `NothingAssumption`, part of `MessagesAssumption`: the value
  that stands for NULL, nil or nothing is none of the records it is told apart
  from. TLA+ leaves open whether a model value equals a record; in Go they differ
  by type.
* `BatchesAssumption`, `EditsAssumption`, `CallsAssumption`, `RoundsAssumption`:
  callers submit sequences of mutations, message handlers of the button
  model submit no deletion (`dispatch` makes a token instead), tool calls carry a
  mutation's fields, and an answer with calls has at least one. Nothing is said of
  the length or sense of a batch.
* `SourcesAssumption`: the source id of a press is not one of a message. `Confirm`
  builds it of two ids with text between them; a Discord id is digits.
* `BoundsAssumption`, `NumbersAssumption`, `TimesAssumption`, `KindsAssumption`: limits
  are natural numbers of the ranges the configuration is validated to; the
  reminder's minute lies within the day and a timer is early by less than the time
  of day it is set to.
* `QueriesAssumption`: a stored content passed the validation it was stored with,
  amounts and instants are natural numbers, statistics have no filter by note
  or amount (their tool has no such argument), limits are positive.
* `AnswersAssumption`: no answer yet is none of the webhook's answers. What Discord
  is trusted with is the guard `Possible` and one message to a POST (section 2).
* `ArgumentsAssumption`: an argument is one of the shapes that `Value` lists (a text of
  finitely many words, a number, a written amount, a written time, or
  junk); a base of at least two; hours are within the day.

### Only model-checked

* Liveness (`EveryCallAnswered`, `EveryMessageAnswered`, `ComesUp`): TLAPS does not
  reason about fairness here.
* That the code disagrees with its documents (the three runs that expect a
  violation) is shown by counterexamples.

## 5. What is not modelled, and why

* Configuration, start-up and shutdown, tool schemas, the prompt, encoding and
  decoding of provider messages: no state, or pure data. What the provider answers
  is arbitrary.
* Within `Arguments`: the letters of a word and their folding, clock times (no
  parser reads one), month names (`tháng này`, which `parseTime` reads and
  `validToolTime` refuses).
* In the ledger service, the entry points that production does not call:
  `ExecuteCalls` with its own decoding, `ResolveUnique`, `CreateBatch`,
  `UpdateTransaction`, `RestoreTransaction`. The wording of confirmations and
  the columns of the CSV are layout.
* Security headers, file names, markup, login and tabs of the page.
* In `Notes`: content that does not validate; a request that takes effect after
  its page has given up on it (seen only as a write elsewhere); several
  deletions of one page at once.
* In `Orchestrator`: a provider text that itself begins with `delete:` or looks
  like a CSV file, and is taken for a prompt or an export by the message handler.
* In `DeleteConfirm`: the text of prompts; a prompt that never reaches Discord is
  one that is never pressed.

## 6. Plan

Modelled and checked, in this order: the ledger (operators, store, promise),
delete confirmation, provider loop, orchestrator, reminder, notes, post server,
queries, tool arguments, migrations. What remains unmodelled has no state or no
caller (section 5).

Proved: every safety invariant and action property that a run checks, and both
refinements (section 4).

Left: shorter proofs. `NotesProofs` and `OrchestratorProofs` repeat for several
actions what could be a lemma about one delivery or one page.
