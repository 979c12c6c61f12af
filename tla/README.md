# TLA+ verification of Lyxan AOS

Lyxan AOS is an operating system for a trading company: a ledger, an inventory
with production, payments, marketplace statements, and AI agents that run as
workflows of n8n. This directory holds TLA+ models of the parts of its backend
where overlapping requests, failures and long sequences of legal calls decide
whether the books stay right, TLC instances of them, and TLAPS proofs.

Paths below are relative to `src/backend/src/` unless they start with `docs/` or
`backend/`, which are relative to `src/`.

1. [The system](#1-the-system)
2. [Modules, and how they correspond to the code](#2-modules-and-how-they-correspond-to-the-code)
3. [Runs](#3-runs)
4. [Fairness](#4-fairness)
5. [Proofs](#5-proofs)
6. [Where the code and its documentation disagree](#6-where-the-code-and-its-documentation-disagree)
7. [What is not modelled](#7-what-is-not-modelled)
8. [Plan](#8-plan)
9. [How to run it](#9-how-to-run-it)

## 1. The system

### Execution

One backend process (NestJS, Node.js) serves the HTTP API and runs the BullMQ
worker. Its state is in PostgreSQL (through Prisma) and Redis. Requests
interleave at every `await`, so the unit of atomicity is one SQL statement or one
Redis command, and between them the process may end.

What the models assume of the stores, and state in their headers:

- **PostgreSQL, READ COMMITTED** (Prisma's default, nowhere changed). A statement
  sees what is committed when it starts and what its own transaction has
  written. An updated row stays locked to the end of the transaction. An INSERT
  of a unique key that an open transaction has inserted waits for that
  transaction's end; if it commits, the INSERT is a unique violation (Prisma's
  `P2002`).
- **A violation aborts the transaction.** After it PostgreSQL accepts nothing but
  ROLLBACK. The services often catch `P2002` and read the row again on the same
  `tx` (`docs/architecture/POSTING_RUNS.md:7` speaks of such a retry); in an
  interactive transaction that read fails as well, so the request as a whole
  fails. The models contain what happens: the rollback.
- **Redis**: a command is carried out or fails, and one that fails may have been
  carried out. Keys expire at any time after they were set.
- **BullMQ and n8n** are external. They are modelled from how the code uses them:
  attempts and the failed event of the queue, its recovery of a stalled job, and
  a webhook that may start a workflow and not be heard.

### Components

`PROJECT.json` lists all components with their files. These carry the logic:

| Component | State | Operations | What makes it hard |
| --- | --- | --- | --- |
| Posting runs and accounting entries (`modules/finance/posting-runs`, `accounting-entry`) | versioned runs of a business document, POSTED or VOIDED, with their reversal; entries keyed by document line | find the active run, create the first or the next run, void a run by a reversal run | concurrent post, void and repost of one document; unique keys as locks; stale reads |
| Sales documents (`sales-documents`) | status, the movements of the goods, returns with their lines | post, void, repost, return with restock | the caller of the protocol, which reads the active run before its transaction; returns that do not see each other |
| Idempotency (`common/idempotency`) | a cached response and a lock per Idempotency-Key, in Redis | look up, lock, wait, store, release | a lock without an owner token, expiries, swallowed Redis errors, retries |
| Statement fees (`finance/statements`) | status and mode of a line, links from cash to the ledger, the runs of a fee | confirm, post, void, repost | one fee, several lines and documents; no lock on a line; a repost in two transactions |
| Inventory (`modules/inventory`) | batches, movements, transactions, the balance | income, outcome; all lines of a document in one transaction | FIFO over rows another request changes; keys of retried lines; rows of one item held while another is waited for |
| Payments (`payment-requests`, `payment-plans`, `payment-executions`) | request, plans, executions, money transactions, runs | submit, approve, split, move, cancel, execute, void, repost | reads before the transaction; a repost in three transactions |
| Agent dispatch (`modules/agents`) | run row, job, dead letter queue, replay keys | run, dispatch, retry, call back | a lost answer, a stalled job, duplicate and early reports |
| Statement lines (`statements`) | imported lines, their match, status, parts | import, suggest, match, post, take a posting back, ignore, split, undo | every call updates a line by its id after a read without a lock |
| Transfers (`cash-transfers`, `internal-transfers`, `acquiring-events`) | payouts and their lines, legs, events, cash, runs | pair, post, void | pairs found and then created; legs read before the transaction |
| Supplies (`scm/supplies`) | the purchase, its items, receipts and their runs | receive in parts or all, change the status, edit items, void a receipt | overlapping deliveries; two sources of stock; a repeated void |
| Production (`scm/production-orders`) | the order, items, consumptions, batches, the completion | edit, provision, start, consume, complete, void, repost | completion without a transaction; quantities written from what was read |
| Financial documents and recurring journals (`documents`, `recurring-journals`) | the accrual and its runs, journals, reserved months, payments kept by hand | create, accrue, void, run a batch of months, add a payment | accrual without a transaction; two journals of one document; guards of three services that read each other's rows |
| OS events (`modules/os-events`) | an outbox table | record, poll, acknowledge | order of ids |

The rest is reference data, reads, and calls to other systems; see section 7.

### Interactions

- Nearly every service of finance calls **posting runs** inside its own
  transaction, and `AccountingEntryService.createEntry` for each line. Statement
  fees, payment executions, transfers, documents, supplies and production are its
  other callers: in their modules a run is a value, because the protocol beneath
  is checked in `PostingRuns`.
- **Sales, production and supplies** call the inventory orchestrator, in their own
  transaction or in one of the orchestrator's, and link movements to the ledger. A
  transaction of theirs calls it for one line after the other and keeps the rows of
  all of them locked.
- **Statement lines** point at money transactions, which payments and transfers
  write. A line that is posted to one keeps it from being voided, unless the line is
  a leg of the payout that is voided: `StatementLines` has both voids as actions,
  `Transfers` the lines.
- The **idempotency interceptor** is global (`main.ts`) and acts on mutating
  requests that carry an Idempotency-Key. It does not know what the handler does,
  nor does the handler know of it; the business keys below it (unique versions, line keys) are a second
  defence, and the models check each one without the other.
- **Agent runs** reach n8n by the queue and come back by a signed callback, which
  writes the same row as the worker.

### Properties that make the parts correct

- Ledger: versions without holes or duplicates, one reversal of an entry at most,
  reversal and VOIDED mark together, nothing revived.
- Idempotency: one handler at a time, once for a client that waits for its
  answers, two bodies compared at every replay, no request left hanging.
- Statement lines: posted until `voidFeePosting` takes the posting back, and by
  nothing else; explained by the line or by its parts; their cash voided only with
  the payout they are the lines of.
- Transfers: a payout, an internal transfer or an event is in the ledger once or
  not at all, as its status says, and a canceled payout has no cash.
- Supplies and production: what counts as received or consumed is what stock took
  in or gave out; a status says what the quantities say; a posting stands until
  it is marked void.
- Documents: an accrual that is asked for again books nothing twice, a month is
  recognised once by the journals of a type, what is paid is accrued, and an accrued or paid invoice holds its
  receipt.
- Sales: a return takes back no more of a movement than left by it, nor do returns
  that follow each other; the goods leave once however often the sale is posted.
- Fees: counted once among the lines and documents that report the fee; of a line
  that has booked it, not counted after a void; links that follow the line's status.
- Inventory: a line moves its quantity or nothing, once; the balance is the sum
  of the movements and, without overlap, what the batches hold; FIFO. Documents that
  list their items in one order do not wait for each other in a circle.
- Payments: paid once, never more than approved, status that follows the
  executions, cash and ledger that agree.
- Agents: bounded retries, failures reported, reports written once, an outcome
  that stays.

## 2. Modules, and how they correspond to the code

The level is that of control: every statement that reads or writes state another
request can see, every guard and early return. Consecutive statements of which
only the first reads what others change are one action. Names of documents,
amounts in money, accounts and scopes are left out unless a guard depends on
them. `PROJECT.json` maps each definition to its lines. Definitions introduced by
a comment "Fault:" are not part of a specification: they are the variants that
the mutation runs put in place of the definition below them.

### `PostingRuns` (`posting-runs.service.ts`, `accounting-entry.service.ts`, `sales-documents.service.ts`)

A request is one HTTP call of `postSalesDocument`, `voidSalesDocument` or
`repostSalesDocument`. The committed rows are `runs`, `entries`, `docStatus`;
what a request has written and not committed is in `newRuns`, `newEntries`,
`voiding`, `reversal`, and `RunView`/`EntryView` are what its statements see.
`ReadActive` is `getActivePostedRun`, `FindRun`, `ReadMax`, `InsertRun`,
`MirrorEntries` the statements of `voidRun` and `createNextRun`,
`CheckEntries` and `WriteEntries` those of `postWithRun`. `InsertConflict` is the
unique violation; an INSERT whose key is held (`KeyHeld`) is not enabled, which
is the wait. An entry's `docLineId` is a sequence of versions: `<<5>>` is a line
of run 5, `<<6, 5>>` its reversal. One line stands for all lines of a document.

### `Idempotency` (`idempotency.interceptor.ts`, `idempotency.service.ts`)

The requests with one key. `LookUp`, `Acquire`, `Poll`, `Handle`, `Store`,
`Unlock` are the awaited steps of the interceptor. `body` is the hash of the body, `None` for a
request without one; two of them are compared only if both are there (`SameBody`).
Each Redis command may fail, with or without effect; `LockExpires` and `CacheExpires` are the TTLs. `faults`
is a history variable that names what a property excludes.

### `StatementFees` (`statements-posting.service.ts`, `marketplace-fee-key.ts`)

One fee (one fee key), the lines that report it, and a sales document that may
have posted it. `Read...` actions are what a request decides on, `Write...` its
transaction. A request is one of a `Caller`; nothing locks a line, so two requests
may be at work on it (`was` and `seen` are what each has read of it). `RepostUnlink` is
the first transaction of a link-only repost, `Relink` and `WriteLink` or `WriteCreate`
the second. The posting runs of a document are a sequence: the protocol that keeps it
so is `PostingRuns`. `history` names of each line what a property excludes: `again` (it
was posted while POSTED), `beside` (requests for it have overlapped), `crossed` (one of
these was a void or a repost).

### `Inventory` (`inventory-orchestrator.service.ts`, `fifo.service.ts`)

One item in one warehouse. A request is `recordIncome` or `recordOutcome` for a
line, with what its transaction writes of this item; the lines of other items in the
same transaction are in `StockDocuments`. `put` and `took` are its uncommitted writes. A
batch is named by its place in the FIFO order. `Left` writes the absolute
quantity the code computes from what it read; `Delta` is the increment the
database applies to the balance. `Locked`, `MovementPending`, `KeyPending` are
the waits for rows and keys. A caller's later failure is `Rollback`.

### `StockDocuments` (the callers of the orchestrator, `sales-documents.service.ts:205-247` first)

The locks of transactions that post documents with lines of several items. A poster
takes its document's own row or run key (`OwnRow`), comes to the lines in the order the
document lists them (`ReachLine`), updates of each line's item some rows in their order
and the balance last (`Update`: the batches it takes from are read in FIFO order), and
keeps all of them (`held`) until `CommitSheet` or `FailSheet`. Which rows a line needs
depends on the stock and is left open; what is written to them is in `Inventory`.

### `Payments` (three services)

One request. Reads outside the transaction are `Read...` actions, after which the
call holds what it has read in `op`, `at`, `read`, `next`, `known`. `Execute` and
`Void` stand for the transaction up to its last statement, `CommitExecute` and
`CommitVoid` for its end; between them the rows are locked (`Locked`).
`repostExecution` goes on through `FindCopy`, `WriteCopy`, `ReadCopy`, each a
transaction of its own, with `Abort` possible between them. The runs of an
execution are a number: the posting stands while it is odd.

### `AgentDispatch` (`agents.service.ts`, `dispatch/`, `guards/agents-callback-hmac.guard.ts`)

One agent run. `status` is the row; `job`, `made`, `stalls` the queue's record;
`worker`, `handler`, `request` the process's place in `processJob`,
`handleFailed` and `runAgent`; `stage` and `of` the callbacks under way; `keys`
the replay keys. `ProcessEnds` loses what is in the process and keeps the rest;
`Stall` is BullMQ's recovery.

### `StatementLines` (`statement-import.service.ts`, `statement-matching.service.ts`, `statements-posting.service.ts`, `reconciliation-controls.service.ts`)

The lines of an account and their parts. `Read...` is what a call decides on,
`Write...` its update by id or its transaction. `Row` keeps of a line its status,
whether a suggestion is stored, its match, the cash it is posted to,
`isSplitParent`, and its external id. `Imported` is what `skipDuplicates` leaves of a
file under the two unique keys of a line, its content and its external id.
`ReadUnpost` and `WriteUnpost` are `voidFeePosting`, which takes back the posting of any
line that has no fee entry of its own; `ReadPostAnew` to `WritePostAnew` the two
transactions of `repostFeePosting`. `WriteVoid` voids cash no line is posted to,
`WritePayout` that of a payout's own lines.
`BatchIgnore` is one SQL statement and therefore one action.
`lap` names overlaps the code does not survive: a posting, or the taking back of one,
beside a call that changes the line, or a posting beside the void of its cash;
`excused` the lines whose status has been changed while they are split.

### `Transfers` (`cash-transfers.service.ts`, `internal-transfers.service.ts`, `acquiring-posting.service.ts`)

Payouts are rows of a sequence, the internal transfer is `Group`, the event
`Event`; all of them are documents with posting runs. A run is what a reader sums:
`lines`, `sum` (what it adds to the ledger, negative for a reversal), and `own`,
whether the line of the document is in it. `Held` is the difference between the
keys: that of a payout names the document, that of an internal transfer the run.
`step`, `doc`, `seen` and `want` are the locals of a call; `overlapped` records the
documents of which two posts, or two voids, were at work together.

### `Supplies` (`scm-supplies.service.ts`)

One purchase. `ReadConfirm` and `ReadPartial` read outside of the transaction,
`WriteLines`, `Refresh` and `CommitReceipt` are its parts; `ItemLocked` is the row
of an item. `booked` is the stock `changeStatus` takes in under the key of the item,
`receipts` what deliveries take in under keys of their own.

### `ProductionOrders` (`production-orders.service.ts`, `production-consumption.service.ts`, `provisioning-recalc.service.ts`)

One order with its components. An item is there while something of it is planned;
`BeginEdit` is the check of `createItem`, `updateItem`, `deleteItem` and
`updateComponentSource`, `Write...` their statement, `Recalc` what the last of them
starts after its answer. `CheckComplete` to `Finish` are the statements of
a completion, each committed by itself, with `Abort` between any two; `history`
records that one was cut short. A transaction of void or repost is one step.

### `Documents` (`financial-documents.service.ts`, `recurring-journals.service.ts`)

One document and its journals. `ReadAccrue` to `UpsertJournal` are the statements
of an accrual outside of a transaction, `AccrueAtOnce` the same inside one.
`Reserve` inserts the unique row of a period and looks the entry up, `CommitMonth`
ends the transaction of the month. `source` is the type of a journal of the document:
it is part of the key of its entries (`Alike`), and an accrual takes up a journal of its
own type only (`Open`).

### `Payables` (`financial-documents.service.ts`, and the guards of `payment-executions.service.ts`, `scm-supplies.service.ts`)

EXTENDS `Documents` and composes its document with what surrounds it: creation
(`ReadLink`, `CreateInvoice`: the invoice of a receipt is looked for, then made),
the payment (`ReadPay`, `CommitPay`, `PayAndAccrue` of `executePlan`, `CancelPay`
of `voidExecution`), the void of the receipt (`ReadUnreceive`, `CommitUnreceive`)
and payments kept by hand (`AddPayment`, `SumPayments`, `WritePaid`). Every action
of `Documents` is taken over (`DocumentStep` is its `Steps`); `BeginVoid` adds the
guard of `voidAccrual` to `ReadVoid`. A call of this module is in `step`, one of
`Documents` in `pc`.

### `SalesDocuments` (`sales-documents.service.ts`)

One sale of one line. `ReadPost`, `CommitPost` and their likes read the active run
and act on it in one transaction, whose statements are `PostingRuns`. A return is
a transaction of several steps: it inserts its operation under the key of the
request, reads what was returned of every movement, goes through the lines of the
request (`prev`, `took`) and commits. `moves` are the quantities the goods left
by, cut where a FIFO batch ends (`Cuts`).

### `Ledger`, the abstract specification

What posting runs promise: per document, versions that are appended one request
at a time, each request in one step (`Post`, `Void`, `Repost`; `PostUnder` is the
request that goes on with a version it has found empty). `PostingRuns` contains
`Book == INSTANCE Ledger WITH ...` with its committed rows as the abstract ones
and states `ImplementsLedger == Book!Spec`: each commit of a transaction is one
step of the ledger, everything else a stutter.

### `Stock`, the abstract specification

What the stock of an item promises to who writes it: a line of a document is carried
out at most once and as a whole (`CarryOut`), and the balance follows (`Receive`,
`Issue`). `Inventory` contains `Shelf == INSTANCE Stock WITH ...`, where what has been
moved for a line is the sum of its committed movements, and states `ImplementsStock ==
Shelf!Spec`. It promises nothing about there being enough, and it cannot: two outcomes
that overlap may both have read the last of a batch, and then take the balance below 0.

### The other modules

`MC...` modules instantiate a specification for TLC; `...Proofs` modules hold its
theorems. But for `Ledger` (implemented by `PostingRuns`), `Stock` (implemented by
`Inventory`) and `Documents` (extended by `Payables`) the specifications do not use each other: they meet in rows, and
each header says what it takes from the others (a run as a value, a retried line as
another request).

## 3. Runs

Every run that passes explores its state space completely, up to symmetry and to
the constraint it names. The constants that bound it:

| Run | Instance | Distinct states | What it checks |
| --- | --- | --- | --- |
| `posting_runs` | 2 documents, 3 requests | 118,587 | Whatever post, void and repost requests overlap: versions 1..n, an entry reversed once, the reversal present exactly with the VOIDED mark, nothing revived (`LedgerInOrder`), each commit a step of `Ledger`, every request answered. |
| `idempotency` | 3 requests, each with one of 2 bodies or none, 1 poll | 205,714 | Mutual exclusion unless a lock expires under its owner, one effect for a client that waits, no response replayed to another body than that it was made for (where both have one), every request answered. |
| `statement_fees` | 2 callers, 2 lines, 4 runs per line | 145,156 | Links follow the status through failures and through posts of one line that overlap, one fee counted once by lines posted one after the other, a reversal for each voided run, and of what a line that was posted once has booked nothing left after a void (`Reversible`), entries others link to held. |
| `statement_lines` | 2 calls, 1 line of 2 parts in 2 files, another line with its external id, 2 money transactions | 690,242 | Parts are whole, a line or its parts are posted and not both, an imported line is there or another one has its external id, the diagnostics that speak of matches, posts and parts do not arise (`LinesAddUp`); a posted line stays as it is until `voidFeePosting` takes back just that posting (`OnlyUnposted`); its cash is voided only with the payout whose line it is (`ReconciledStands`). |
| `inventory` | 3 requests over 1 income and 2 outcomes, 2 opening batches | 49,324 | A line moves its quantity or nothing and for one request only, balance = movements always, batches = balance without overlapping outcomes (`StockAddsUp`); each commit is a step of `Stock`, everything else a stutter; FIFO; every request ends. |
| `payments` | 2 calls, amounts 1..3, 4 plans | 1,120,712 | Paid once across moves, voids and reposts and covered by the request (`PaysNoMore`), status as the executions say, the approver saw the amount; cash, execution, plan and ledger agree (`RowsAgree`). |
| `agent_dispatch` | 2 attempts, 2 deliveries, 2 crashes | 499k | Posts bounded, failures in the dead letter queue, reports written once, an outcome kept, no run left QUEUED whose job is in the queue. |
| `supplies` | 2 calls, 2 items, 2 receipts, 2 of an item | 878,965 | Received = taken into stock, never twice and never more than ordered; RECEIVED only when everything is there; the posting of a receipt stands until it is voided. |
| `production_orders` | 2 calls, up to 2 components, 2 consumptions, 2 completions | 1,283,000 | Consumed = moved out; a completed order is backed by stock, with one line and one output however often the completion is sent (`OutputBacked`); postings stand until they are marked void. |
| `transfers` | 2 calls, 1 payout of 2 possible, 1 internal transfer, 1 event, 4 runs | 1,150,154 | A payout or an event is never counted twice, whatever overlaps; its status (of an event its void) says what the ledger counts, unless two posts or two voids of it have overlapped; a canceled payout has no cash (`CashAgrees`). |
| `payables` | 2 calls, 1 month, 3 runs, 2 journals of 2 types or none, 2 edits, 3 payments | 912,611 | An accrual or a batch that is asked for again books nothing twice (`RetriesAreSafe`), a month once for each type of journals; whatever batches overlap, a journal makes one entry for a month (`MonthOnce`); what was paid is accrued and in the ledger, amountPaid catches up with the payments, a receipt with an accrued or paid invoice is held (`GuardsHold`). |
| `sales` | 2 calls, 3 keys, 3 sold, 4 runs, 3 returns; and 3 transactions, 4 documents (2 items in order, against it, one of them alone, one of them twice), 2 rows and the balance of each | 2,363,347 | A return is booked once for each key, and takes back at most what left, by itself and after others (`ReturnsAddUp`); goods leave once, the status says what the ledger sums to, and no return is booked against a sale the ledger does not have (`SaleAddsUp`). Whatever documents are posted beside them, those that list their items in ascending order, none twice, do not wait for each other in a circle (`NoCircle`). |

The run `sales` holds two systems, `SalesDocuments` and `StockDocuments`. They share no
state, so one of them is looked at at a time: `EitherNext` leaves the other as it was at
the start, and the behaviours are those of `SaleSpec` and of `SheetSpec`.

Why the bounds are enough:

- *Requests.* The races of the code are between two transactions; the third
  request is the one that still holds what it read before both, or the retry
  after them. With two documents a request may wait on one while another goes on.
- *Bodies*: two that differ, and none; which is called the first does not matter
  (`BodiesUpToNames`).
- *Polls.* `waitForCachedResponse` repeats one step; one turn after any delay
  stands for several.
- *Runs of a line* (4): a line is posted, voided and reposted, or reposted and
  voided; each takes two versions. Two callers are enough for what two requests do to
  one line or to two.
- *Documents of goods*: the smallest circle has two transactions and two rows; a third
  one waits for either. With the premise of `NoCircle` dropped the same instance has
  circles, over the documents that contradict each other and over the one that lists an
  item twice.
- *Batches*: two to begin with, of 1 and 2, so that the outcome of 3 needs both,
  the outcome of 2 meets a remainder, and both together exceed the stock; each of
  three requests may add one.
- *Plans* (4): a request is split in two, one part moved and reposted. `Amount`
  1..3 gives a partial payment on either side.
- *Attempts* (2): a first, a retry, and by a stall a third post; two crashes reach
  the second stall.

- *Lines, payouts, items, months*: the races are about one row; a second wallet
  pair, item or part is there where rows are compared (two parts of a line, two
  bank lines for one payout, an item in and one out of stock). A month is only
  compared with itself, so one stands for all.
- *Runs in `Transfers`* (4, over all documents): post, void, post again, void
  again of one of them, or one such pair each of two.
- *Journals and edits in `Documents`*: the second journal of a document is made by
  hand or by accruals that overlap; pausing and resuming one takes two edits.
- *Payments kept by hand* (3): two that overlap, and one after them.
- *Sales*: three are sold as one movement or cut in two, so that a return may cross
  the cut, exceed what is left, or name the line twice; the third return meets what
  two have left.

Constraints leave out states whose future says nothing: in `supplies`,
`production_orders` and `statement_lines` those after an overlap that the
properties exclude; in `production_orders` more than one
irregularity, and begun orders whose items are not provided, as only a start looks
at that (`Provisioned`);
in `payments` (`Small`) overlapping calls with more than two plans, and four plans
for an amount above 2; in `statement_fees` more than four irregularities of both lines
together; in `statement_lines` calls on a line before all files are
there or when the line that competes for its external id is, calls on the latter, and
suggestions made to a part; in `payables` (`Relevant`) a client at a call of each
module at once, journals beside payments or hand-kept payments beside the rest,
which read nothing of each other (`Apart`), batches that overlapped together
with anything but journals made by hand, and more than one journal accruals would not
have made, or one beside accruals that overlapped (`OneOther`).

Properties state what excuses them in their premise (`"overlap" \notin history`,
`faults \subseteq {"lockExpired"}`): those are histories the code does not
survive, and the premise says which.

The bounds in guards are `MaxRuns` (`WriteCreate`, `WriteFeeVoid`, `WriteRepost` of `StatementFees`;
`CommitPost`, `CommitVoid` of `Transfers`; `MakeRun`, `AccrueAtOnce`, `CommitVoid` of
`Documents`; `PostWithRun`, `CommitVoid`, `CommitRepost` of `SalesDocuments`),
`MaxBatch` (`InsertIncome`), `MaxPlans` (`InsertPlan`, `WriteMove`, `WriteCopy`), `MaxCrashes` (`ProcessEnds`), `MaxReceipts` (`CommitReceipt`), `MaxQty` (what is
ordered or planned), `MaxOps` (`Consume`), `MaxBatches` (`MakeBatch`), `MaxTransfers`
(`WritePair`), `MaxJournals` (`CreateJournal`, `UpsertJournal`), `MaxEdits` (`Edit`, `UpdatePaid`),
`MaxPayments` (`AddPayment`) and `MaxReturns` (`CommitReturn`). A
request that reaches such a bound may still fail. The systems wait for more
requests when all have been answered; where nothing else is enabled then,
`Quiescent` (`Settled`) stutters, and deadlock is checked in every run.

## 4. Fairness

- `PostingRuns`, `Idempotency`, `Inventory`: weak fairness of the steps of each
  request. Node.js goes on with a request whose statement has returned; the
  database grants a key or a lock when its holder has ended. Nothing is assumed
  of arrivals, aborts or expiries; in particular `EveryRequestEnds` of
  `Idempotency` holds though a lock may outlive its TTL for ever, and no
  transaction has to be given up for another to go on. In `Inventory` the
  rollback of a failed request is fair too (Prisma issues it when the callback
  throws). A commit that is put off until the other lines of the document are through
  is still a commit or a rollback: what those wait for is in `StockDocuments`, and
  where documents do wait in a circle PostgreSQL or the transaction's timeout rolls one
  of them back. `NoCircle` assumes nothing of that kind.
- `AgentDispatch`: weak fairness of the process's own work and of the queue's
  recovery of stalled jobs, which runs on a timer. Crashes are bounded by
  `MaxCrashes`: `LeavesQueue` says nothing of a process that never stays up. n8n
  and the network owe nothing.
- `StockDocuments`, `StatementFees`, `StatementLines`, `Payments`, `Supplies`, `ProductionOrders`,
  `Transfers`, `Documents`, `Payables`, `SalesDocuments`: no liveness is claimed,
  none assumed. Their calls are sequences of awaited statements that end, and nothing
  in them waits for another call but a row lock, which `PostingRuns`, `Inventory` and
  `StockDocuments` look at.

## 5. Proofs

The theorems hold for every value of the constants that satisfies the
assumptions. The shape is always the same: an inductive invariant `IInv`, stated
in the specification; a lemma per action or per conjunct that shows the step
preserves it; `Invariance == Spec => []IInv`; and each property from it.

**`PostingRunsProofs`** (any documents, at least one; any requests).
`TypeCorrect`, `Mutex`, `VersionsAreGapless`, `ReversedOnce`, `VoidIsReversed`
(`ReversalFollows` and `MirrorImpliesVoided`), `AppendOnly`, and with them
`LedgerStaysInOrder`, the property the run checks. The safety
properties speak of committed rows only and are not inductive: a commit could
bring in anything. `IInv` adds what is true of the open transactions:
`ViewsGapless` (the view of a request has no hole, and its versions are not
committed ones), `TopIsRead` (a request that has written nothing may hold an old
version; one that has inserted a run cannot be overtaken), `TargetIsCommitted`,
`NewMirrors`, `CleanOutside`. The heart is `InsertRunInv`: an INSERT that is
neither taken nor held makes its request the only one with an uncommitted run of
the document, because any other request would have to hold the next version too. From
this follows `HolderGoesOn`: who is waited for waits for nobody (`NoChain`), although
a repost inserts two runs.

`Refinement` is `Spec => ImplementsLedger`: the protocol behaves as `Ledger`. What
is committed is what the ledger sees, so every step but a commit is a stutter, and
a commit has to be one `Post`, `PostUnder`, `Void` or `Repost`. `RInv` says what a
request has written by then: nothing, its run and line (`OnlyRun`), the reversal of
what it voids, or both (`BothRuns`); and that nobody else has replaced the run a
repost replaces (`FromIsFree`).

Second part: `SalesDocuments` (any calls, keys, requests; any cuts of one quantity
above 0). `SaleInvariance`, `ReturnsAlwaysAddUp`, `SaleAlwaysAddsUp`. What holds
whatever overlaps needs little: a key that is held or committed is nobody else's
(`KeysHeld`), and what a return has written lies within the movements it has read
(`LinesWithin`), because a slice is never more than its movement and two slices of
one return never meet. The goods leave with the first run, so they have left exactly
when there is one (`GoodsTell`). The rest is about calls that come one by one, and is
proved of every history up to the first that do not: a return alone knows of all that
has come back (`ReturnsTakeTurns`), hence what it adds is still within the movement
when it commits; a call on the sale alone finds in the last run the active one, which
tells what the ledger counts (`BooksStand`), so a void takes the sum to 0, a repost to
0 and back to 1, and the commit of a return finds 1.

**`DeliveryProofs`**, first part: `Idempotency` (any requests and bodies,
`MaxPolls` > 0). `TypeCorrect`, `MutualExclusion`, `ExactlyOnceIfSerial`,
`BodyIsChecked`. `IInv` needs `LockIsOwned` (until a lock expires early, who is in
the handler set it), `OneInFlight`, `EffectIsCached` (without a fault a committed
request is about to store its response or has done so, and nobody else has passed
the first look), `CachedHasEffect`, `LookLeft`.

Second part: `AgentDispatch` (`Attempts` > 0, any deliveries and crashes).
`DispatchTypeCorrect`, `PostsAreBounded`, `FailuresAreReported`,
`ReportsAreWrittenOnce`, `OutcomeIsKept`. `PostsCounted` relates posts to attempts
counted and stalls; `StatusFollowsJob` ties the status to the job as long as nothing
excuses a change.

Third part: `Transfers` (any calls, statement lines, cash, any number of payouts and
runs). `TransferInvariance`, `CashAlwaysAgrees`. What every call relies on is that the
last run of a document stands (`LastStands`), so `getActivePostedRun` returns it
(`ActiveIsTop`), and a void takes back the last run, be it a reversal. Of a payout or
an event the first run holds the line, and no other ever does, as the key names the
document; so the sum is 0 or 1, and still is when the last run is taken off, which is
all another void can do. As long as its posts take turns, and its voids
(`TakeTurns`), it has three stages and no other (`Stage`): no run, the run that books
it, that run and its reversal; and what a call has read still fits the stage it commits
in (`CallsFollow`): a post that found no run is the first, one that read the payout as
POSTED leaves a cancellation alone. The key of an internal
transfer names the run, so nothing of the kind holds there; `GroupStands` is its whole
history (booked, taken back once, booked again into the reversal), as its legs are
void after the first void and stay so, which refuses another.

The three are independent; one module holds the proofs of all, which is why the
names of each are not those of the others.

**`StatementsProofs`**, first part: `StatementFees` (any callers, any lines beside a
sales document, `MaxRuns` > 0). `FeeInvariance`, `AlwaysPostedIffLinked`,
`FeeIsCountedOnce`, `AlwaysReversible` and the action property `ForeignLinksHold`. What
`StatementFees` and `StatementLines` would both name alike begins with `Fee` in the
former, as this module extends both. `PostedIffLinked` and `ReversalChain` hold of a
line until a void or a repost of it crosses another request, because up to then what a
request has read of the line still holds when it writes (`OwnLineStands`), posts that
overlap included; `Recorded` is what ties the history of a line to the requests at
work on it, so that a second one cannot begin unnoticed. The others speak of narrower
histories: `OnlyVoids` and `OnlyReposts` say what the runs of a line that is posted
once can be after each, `PostedAlone` that nobody else has posted it, `OneEntry` that the
entry a line is about to make is still missing, `NobodyElseLinks` that no link has
been made since a void has looked for one.

**`InventoryProofs`**, first part: `Inventory` (any requests, disjoint lines, positive quantities, any
opening stock of at most `MaxBatch` batches). `TypeCorrect` (no batch becomes
negative), `OneWriterPerLine`, `FirstInFirstOut`, `StockAlwaysAddsUp`,
`StockIsImplemented`. `OneWriter`
rests on `OneTransaction`: past the insert of its transaction row a request is alone
with its line. FIFO rests on `OneAfterAnother`: what a request has not gone through
is as it read it (`GoneThrough`), so batches are emptied in order (`TakenInOrder`).
`StockAddsUp` needs `SumInv`: what a request has taken and what it still needs is
its quantity (`TakenSoFar`), and what its commit will change in the batches is what
it moves (`ChangesAreMovements`). The latter needs that a batch is as it was read
(`ReadIsCurrent`), for which other incomes are harmless (`BroughtInUnread`) and
another outcome is not: this is why the agreement of batches and balance is claimed
for outcomes that do not overlap, and that of balance and movements always.

`StockIsImplemented` is `Spec => ImplementsStock`. Movements become visible by commits
only; a commit finds that its line has no transaction (`OneTransaction`), hence no
movements (`WholeOrNothing`), and leaves all of them and the balance that goes with
them. So a line that is requested again, at any statement of the first request or
after it, is carried out once.

Second part: `Supplies` (any calls, items and receipts, `MaxQty` > 0).
`SupplyInvariance`, `SuppliesStockAgrees`, `ReceivedIsAlwaysComplete`,
`ReceiptsAlwaysStand`. `StockAgrees` says what has been committed and is not
inductive: a receipt adds what its call has read, outside of the transaction, to the
line. `TakesTurns` says that this still holds when it is written, as long as nothing
is noted as lost: deliveries of one item exclude each other, and a change of status
everybody. `StatusStands` keeps the two sources of stock apart: only a purchase that
is ORDERED and has no receipt is taken in by its status, and no status that can
follow a receipt leads back to ORDERED. `StatusTells` is `ReceivedIsComplete` of a
receipt about to commit, which others that commit first can only make more complete:
therefore RECEIVED is always right, and PARTIAL_RECEIVED only if deliveries come one
by one. `OneReversal` says that a void either has found the posting, which is then
still the last run, or its reversal.

Third part: `StockDocuments` (any transactions and documents, any number of items and of
rows of each). `NeverACircle`: of any set of posters whose documents list their items in
ascending order one waits for none of the set. A poster updates the rows of its line in
their order, and its lines in that of their items, so all rows it holds come before all
rows ahead of it (`InLine`; `RowsOfLines` says which rows those are). If all posters of
the set that are at work on their lines have a row ahead, the one whose next row comes
last waits for none of them: who held that row would have a later one ahead. Those that
still wait for their document's own row hold nothing, so nobody waits for them
(`HoldsNothing`). The order in which `recordOutcome` reads the batches is needed here: the
mutant that takes them in any order has a circle of documents of one line.

**`PaymentsProofs`** (any finite set of calls, any positive amounts, any number of
plans). `RowsAlwaysAgree`, `AmountIsApproved`, `StatusAlwaysFollows`,
`NoMoreIsPaid`. Whatever is interleaved, row locks keep two open transactions apart
(`RowsLocked`), and the posting of an execution stands until its first void
(`RunsFollow`; `RunsBounded` counts the voids that have read before the first
commits). The rest is about calls one after the other: `Alone` says nobody else is
at work, `StillHolds` that what was read is still so. `NoMoreIsPaid` has two
halves. A plan and all that was made of it have one row without a copy (`OneLeaf`),
and what is paid has no copy (`CopiesFollow`), so its money left once. What is paid
or planned is part of what claims money (`Claims`: rows without a copy that are not
canceled unpaid ones), which no step lets grow beyond the request
(`ClaimsCovered`): a voided plan keeps its claim, as it may be reposted.

**`StatementsProofs`**, second part: `StatementLines` (any calls, files, lines, parts
and cash, files that share lines included). `LinesAlwaysAddUp`, and the action properties
`PostedStaysPosted` and `ReconciledCashStands`. Parts, files and the meaning of a
status hold whatever overlaps, because the updates are by id and the undoing of a
split without parts meets only lines that can have none (`CallsAreTyped`). That an
imported line, or one with its external id, is there needs that nothing of the import
is ever removed and that no update changes an external id (`HeldWritten`). What is
said of posted lines rests on `Apart`: an overlap a posting, or the taking back of one,
does not survive is one with a call that changes the same line, its parts or its whole, or
with the void of the same cash, and it is noticed whichever of the two reads last. So
what a call has read still holds when it writes (`Undisturbed`); every step but those of
postings and their taking back is `Quiet` (it writes lines that are not posted only); and
these meet each other without harm, because whatever they write leaves the match as
it was, and a line is posted to the cash it was matched with (`PostedAsMatched`).
`SplitStands` keeps the status of a line that is split until something excuses it. The
only assumption is that `NoMoney` is no cash and that the lines of files are lines.

**`PayablesProofs`** (any calls and months, any bounds). `NothingIsBookedTwice`,
`MonthIsMadeOnce` and `GuardsAlwaysHold`; the first two are properties of
`Documents`, proved of the composition that contains it, `DocumentInv` being an
invariant of its own that every step of `Payables` preserves. It has three layers.

- *Months.* The unique row of a journal and month is what keeps entries single
  (`MonthsAreKept`): it is inserted before the entry is looked for, so only one
  transaction of the month is open (`at`), and what that one has not found is not
  there when it commits. Without overlapping batches the same is true of all journals
  of the document that have one type (`OneBatch`).
- *Runs.* Accruals and voids that do not overlap take turns (`RunsTakeTurns`): the
  last run stands, alone, and its lines tell whether the ledger has the document,
  because a run either books it, takes back exactly what stood, or is empty. The
  sums over runs come from `SumOfPut` and `SumOfAppended`, which `AddedPut` and `AddedAppended`
  of `SumLemmas` give. `CallStands` says that
  what a call has found is still the last run when it writes.
- *Guards.* `PaidStands` is what makes `PaidIsAccrued` inductive: it also speaks of a
  payment that has passed its guard and of a void that is under way, each of which
  would otherwise undo the other. `PassedStands` does the same for the void of a
  receipt, `SummedStands` for payments kept by hand; `FiledFirst` says that nothing
  happens to a document before there is one.

**`ProductionOrdersProofs`** (any calls, components and bounds, `MaxQty` > 0).
`StockAlwaysAgrees`, `OutputAlwaysBacked` and `PostingsAlwaysStand`. The code
survives many overlaps, each at the price of another promise, so `IInv` is a
conjunction of promises, every one under the irregularities that do not break it.

- *Quantities.* Without a lost quantity, what a consumption has read is still so when
  it writes (`ReadStands`), and what is consumed is what was moved. With one, the
  absolute quantity that is written may be too small and is never too large:
  what has been read is at most what was moved (`PlanStands`), and movements only
  grow (`MovedGrows`). So a completion, which looks at what was moved, is right
  however consumptions overlap.
- *Completion.* What it has checked stays so, because components change only while
  the order is a draft nothing is consumed of, unless the edit is late
  (`CompletionStands`); what it has written is there when it goes on (`Written`). A
  completion that is alone finds the line of one that was cut short (`LineStands`).
  There is one batch, as the status follows it, unless the completion is cut short
  between the two or the order opened again (`BatchStands`).
- *Postings.* Runs count 1, 2, 3 for posted, taken back and posted again; marks and sums
  follow from the count (`ConsumptionsTell`, `RunsTell`), and a line is there as soon as
  there is a second run.

**`SumLemmas`** holds what `Inventory`, `Supplies`, `Payments`, `Payables`,
`Transfers`, `SalesDocuments` and `ProductionOrders` need of sums over finite sets: the sum of a set with
an element more, of a union, of a function changed in one place, of natural numbers,
of the rows of a sequence to which one is added or in which one is written. The
library's induction rules take an operator, which the provers cannot instantiate; the
lemmas go around them by smallest counterexamples (`WFMin`, on subsets or on numbers), from the fixpoint
that `MapThenFoldSet` is defined by. `Origin` of `Payments`, a recursive function
along `movedFromPlanId`, is treated in the same way: `RootsAgree` and `RootsExtend`
say that a function that unfolds as `Origin` does is unique, and exists for one row
more, because a plan is made from an earlier one (`RowsInOrder`).

`TypeCorrect` is proved for `PostingRuns`, `Idempotency`, `Inventory` and
`AgentDispatch` (`DispatchTypeOK`); their runs therefore do not list it. The other
modules check theirs as a conjunct, which for `StatementFees`, `Payments`,
`StatementLines`, `Supplies`, `Documents`, `Payables`, `Transfers`,
`SalesDocuments` and `ProductionOrders` is proved with it.

The assumptions on constants are in the modules that declare them, and TLC
evaluates them: finitely many clients (`ClientAssumption`), positive amounts and
quantities, bounds that are natural numbers.

Only model-checked is liveness (`EveryRequestEnds`, `LeavesQueue`): fairness and
ENABLED are beyond the prover; what can be said of waiting without them,
`NeverACircle` of documents and `HolderGoesOn`, is proved. Every other property of every run is a
theorem.

## 6. Where the code and its documentation disagree

No run is devoted to a disagreement. Weaknesses met while reading, which the
modules contain and their properties name as exceptions:

- *Posting runs*: `repostSalesDocument` posts a new version whatever has become of
  the run it read as active. A repost that races another request, or follows a
  void (the active run is then the reversal), leaves two postings standing, where
  `backend/test/posting-void-repost.e2e-spec.ts:309` speaks of a repost "without
  duplicates".
- *Sales*: a post after a void finds the reversal, answers `alreadyPosted` and leaves
  the document DRAFT; two returns that overlap may together take back more than was
  sold; what is refunded for a return is not capped by what was paid.
- *Idempotency*: a request that looks into the cache before the first one has
  stored its response, and reaches the lock after that one has released it, runs
  the handler again, because the cache is not read again under the lock
  (`docs/runbooks/data-integrity.md:13`: repeated requests "must replay the same
  response"). A request without a body is answered with whatever response the key has,
  and its own response is replayed to any request.
- *Statement fees*: a void after a repost answers `alreadyVoided`, as it finds the
  run the repost has voided, and marks the line voided while the posting stands; a
  repost after a void takes the reversal back and posts once more, so that the fee
  counts twice. A line that has booked its fee and is posted once more finds its own
  entry and becomes `FEE_LINK_ONLY`; a void then removes the link, sets the line back to
  MATCHED and leaves the fee in the ledger. A post of a POSTED line beside a
  `voidFeePosting` of it links the fee to a line that is MATCHED. A link-only repost that
  fails between its transactions leaves the line MATCHED. Two lines that report one fee
  and are posted at the same time both book it.
- *Statement lines*: a posting is lost if a split, an ignoring or the undoing of a
  split has read the line before. A split with `forceSuggested` is always refused:
  the matcher looks for the parts outside the transaction that makes them. A line
  suggested without candidates, ignored and unignored is SUGGESTED without any,
  and one that was MATCHED keeps its match; `getDiagnosticsForLine` calls both
  issues. A line may be posted to cash that is void already. The
  import drops a line with new content whose external id the account has, although
  nothing holds that content. `voidFeePosting` and `repostFeePosting` take any POSTED
  line, with a fee or without, and set it back to MATCHED, the latter for good if it is
  cut short. A split line that is ignored, or restated by a call that had read it before the
  split, keeps its parts, and a part that is posted then has the issue
  `child_parent_not_split`. The void of a payout voids the cash of its own lines, which
  stay POSTED (`backend/test/cash-transfer-void.e2e-spec.ts:210` expects it).
- *Inventory*: documents that list items in contradictory orders, or one of them twice
  (a receipt of two supply items for one item, beside a receipt of the second: the one
  has the balance and waits for the supply item, the other the reverse), deadlock when
  they are posted together; PostgreSQL or the transaction's timeout ends one of them, and
  the request fails. Two outcomes that read one batch before either writes it both write
  an absolute quantity; the balance, changed by increments, no longer is what the
  batches hold (`docs/architecture/SCM_FINANCE_CANON.md:28` calls it derived).
- *Payments*: `executePlan` counts canceled executions and makes a request PAID
  before it is; two executions that overlap both leave it PARTIALLY_PAID.
- *Transfers*: two requests may make two payouts of one pair of lines, or pair a
  wallet line with two bank lines; an internal transfer posted after its void
  books into the reversal; two voids that overlap reverse the reversal;
  `voidInternalTransfer` voids its legs whatever has made them. Of two posts of a payout
  or an event that overlap the later one makes a second, empty run, and a void then
  takes back only that one: the payout is CANCELED and its cash void while the posting
  stands. A post that read PAIRED beside another post and a void writes POSTED over
  CANCELED.
- *Supplies*: two deliveries of one item overwrite each other's quantity; voids of
  a receipt that overlap reverse the reversal; goods marked RECEIVED by
  `transitionStatus` are not taken into stock.
- *Production*: of two starts that overlap the second finds no component to refuse
  it by, if none comes from own stock, and opens the order again even when it has
  been completed meanwhile; the product then comes into stock twice; consumptions
  of one component that overlap lose a quantity; components are made, changed and
  removed after a start that has overlapped the edit; a
  completion that is cut short takes the product in again when it is repeated;
  a void after the repost of a consumption marks it void while the repost stands;
  `generateProcurementForComponents` writes fields the schema does not have.
- *Documents*: an asset without a useful life is marked accrued, gets no journal,
  and is "already accrued" from then on; a second void reverses the reversal, and
  an accrual after a void finds the reversal's lines and books nothing; a void
  leaves the journals active. Two overlapping `createFromSupplyReceipt` make two
  invoices of one receipt; two journals of different types on one document, one of them
  made by hand, both recognise a month; the invoice of a voided receipt may be made and accrued
  afterwards; the guard of `voidAccrual` is read before its transaction, so that a
  payment may cross it; the removal of a document checks nothing and leaves its
  accrual in the ledger; `amountPaid` is wrong after a failure between the payment
  and its sum, until the next payment.
- *Agents*: the replay key is set before the handler writes, so a report whose
  write failed is refused when it is sent again; a row whose job was never added
  stays QUEUED.
- *OS events*: pollers read ids greater than the last one seen, and ids are random.

## 7. What is not modelled

Inside the components above: amounts in money and their rounding, accounts,
currencies, scopes and rates; the choice of an approval policy; the outcome
without a FIFO batch; in `Inventory`, a document that lists an item twice in one
warehouse; in `StockDocuments`, rows a transaction updates beside its own and those of its
items, as the components of a production order or the header of a supply; in
`StatementLines`, a payout with two legs, of which one stands for both; the refund of a return; the creation and removal of a supply;
the removal of a production order, its acts of work, and procurement; the removal of a financial
document and the lines of services; the scores by which matches are suggested; the expiry of agent replay
keys (a key lives as long as the signature it guards is accepted). Agent runs
whose row has no job have no recovery in the code, and `LeavesQueue` starts from
the job.

Whole components: master data, products, bills of material, brands, listings and
content are plain records with one write per request. Reports, ledger validation,
aggregates and explanations are reads. Reservations of stock are never created;
inventory links are upserts nothing decides by. Authentication, scope filters,
exception filters and logging keep no state between requests. The frontend, the
shared types, scripts and deployment have none either. The transfer service of
the warehouses is an empty file. The outbox is rows in the transaction of their
cause, and its order of reading keeps no promise that could be checked.

## 8. Plan

What is there was written from the bottom up: posting runs and idempotency, which
everything else calls, then the services, then the abstract ledger and stock. What is
left are operations: creation and removal of supplies, orders and documents, and what
forbids them; acts of work of a production order.

## 9. How to run it

    tlc -workers 2 -config MCPostingRuns.cfg MCPostingRuns
    tlapm PostingRunsProofs.tla

and likewise for the other `MC*.cfg` and `*Proofs.tla` files; `PROJECT.json`
pairs modules with configurations. A run takes a few seconds to about two
minutes.
