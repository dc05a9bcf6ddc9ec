# A verification of the 0xPay-ton gateway

TLA+ modules, TLC runs and TLAPS proofs for the payment gateway under `src/`.
Paths below are relative to the repository's own `src/gateway/` unless they say
otherwise; `README.md` alone means the repository's README.

## 1. Inventory

The gateway is one NestJS process over one Postgres database. Merchants create
*charges*, each with a unique numeric *memo*; customers transfer TON or a jetton
to the gateway's address with that memo as the comment; daemons read the
account's transactions from a TON API, credit payments to charges and queue a
*webhook* for each, which an outbox posts to the merchant.

| part | code | state | operations |
|---|---|---|---|
| charge ledger | `charge/charge.service.ts` | tables `charge`, `charge_transaction`, `processed_transaction`, `webhook`; per call one connection with a READ COMMITTED transaction | `create`, `process`, (`retrieve`, `list` read) |
| discovery | `ton/ton.daemon.ts`, `ton/ton-transaction.iterator.ts` | in memory, per pass: cursor, stack of cursors, `_canNext`, the page in hand | `process`, `handleBackward`, `checkPage`, `isProcessed`, `markAsProcessed`; `next`, `back` |
| Toncoin daemon | `ton/toncoin.daemon.ts` | none of its own | `handlePage` |
| Jetton daemon | `ton/jetton/jetton.daemon.ts` | none of its own | `handlePage` |
| webhook outbox | `webhook/webhook.service.ts` | table `webhook`; in memory, per pass: the rows it read | `create`, `process`, `sendMessage` (`retrieve` reads) |
| schema | `src/db/migrations`, the entities | unique indexes on `txid`, memo sequence, `createdAt` defaults, length of `payload` | – |
| token units | `utils/token.service.ts` | none | `format`, `parse` |
| HTTP API | controllers, DTOs, `src/app.middleware.ts`, `src/common/validation` | none | `charge/create`, `charge/list`, and requests that read one value |
| bootstrap | `src/main.ts`, `src/config/database.config.ts` | `NODE_ENV` | schema dropped or migrated, three `create` calls, `listen` at each start |
| jetton service, locator | `ton/jetton/jetton.service.ts`, ... | none | address look-ups |
| other configuration, database helpers, tests | `src/config`, `src/db`, `*/tests` | none | – |

**How they interact.** Each daemon's timer (every 30 s, `concatMap`: one pass at
a time) runs `TONDaemon.process`, which fetches pages from the API and calls the
daemon's `handlePage`; that calls `markAsProcessed` (one autocommitted insert) or
`ChargeService.process` (one database transaction), which calls
`WebhookService.create` on its own connection. The outbox's timer (every 5 s,
`concatMap`) reads unsent rows and posts them. The parts share nothing but the
tables.

**What is hard.** Statements of concurrent callers interleave, decided by unique
indexes and row locks (three daemons; an old and a new backend process around a
restart, when the server still serves the old one's connection). A statement, a
COMMIT, a post or an API call fails, before or after its effect. The process dies
between any two awaits. The account grows during a pass. `createdAt` is the time
a transaction began, visibility that of its commit. `PROJECT.json` lists the
places under `hazards`, each with the properties that watch it.

**What makes each part correct.**

* Ledger: each transaction is decided once and for good; credited exactly if its
  null note says so, to the right charge; announced exactly once if credited;
  no callers wait for one another in a circle; every call ends.
* Discovery: a pass skips nothing of the pages it fetched, goes from old to new,
  has less to do after each step, and ends; a transaction is left behind for good
  only in the places where the code does leave one (findings 1 and 3).
* Daemons: only payments are credited; a payment is not given up; each
  transaction gets its row.
* Outbox: nothing is lost, nothing is posted once marked, repeats only after
  failures, order of creation, every webhook is sent.
* Together: a payment is decided once, for good, and announced in that step,
  posts about one account never overtake each other, and each payment is told to
  the merchant some day.
* Process and API: a memo told to a client names the same charge for ever, the
  list skips nothing, a dead process comes back.
* Token units: the number in a webhook is the amount paid.

## 2. The modules

| module | models | runs | proofs |
|---|---|---|---|
| `PaymentLedger` | the abstract specification of the ledger: `Credit` and `Reject` of an open transaction, each one step | (as a PROPERTY of `ChargeService` and `Gateway`) | a theorem `Refinement` for each |
| `ChargeService` | `create`, `process`, `markAsProcessed`, one action per SQL statement | `charge_service` | `ChargeService_proofs` |
| `TONDaemon` | `process`, the iterator, the timer | `ton_daemon*` | `TONDaemon_proofs` |
| `WebhookService` | the outbox, and `process` of the ledger as the outbox sees it | `webhook_service*` | `WebhookService_proofs` |
| `TransactionRow` | `isProcessed`, `markAsProcessed` and `process` as one await each | (extended by the two below) | `TransactionRow_proofs` |
| `ToncoinDaemon` | `handlePage` for one transaction, await by await | `toncoin_daemon*` | `ToncoinDaemon_proofs` |
| `JettonDaemon` | the same for a jetton wallet | `jetton_daemon` | `JettonDaemon_proofs` |
| `TokenUnits` | `format` and `parse` as rounding | (extended by `ToncoinDaemon`) | in `ToncoinDaemon_proofs` |
| `Gateway` | `TONDaemon` and `WebhookService` composed, linked by the ledger's transactions | `gateway` | `Gateway_proofs` |
| `Backend` | `main.ts`, the database configuration, `charge/create`, `charge/list` | `backend` | `Backend_proofs` |
| `MCChargeService` | the memos and amounts of the TLC instance | | |

### ChargeService

A *worker* is a flow of control that calls `process` or `markAsProcessed` over its
own connection. The committed tables are `charges` (memos), `processed` (the note
of each transaction's row), `chargeTxs` (the charge credited) and `webhooks` (how
many rows announce it). What a worker has inserted and not committed is in
`inserted`, its FOR UPDATE locks in `locked`, the charge `findOne` returned in
`charge`. `pc` names the statement to run next:

| action | code |
|---|---|
| `Create` | `charge.service.ts:23-34`; may fail after the sequence was drawn from |
| `Process` | 67-76, the schema 161-166 |
| `CheckProcessed` | 79-90 |
| `FindCharge` | 92-98; a memo beyond bigint is an error |
| `InsertUnmatched` | 98-110 |
| `FindTx`, `InsertDuplicate` | 112-129 |
| `InsertTx`, `InsertProcessed`, `InsertWebhook` | 131-156 |
| `Commit`, `Fail`, `Rollback` | the end of `manager.transaction` |
| `Mark`, `MarkInsert`, `MarkFail` | `ton.daemon.ts:97-102` |
| `Crash` | the backend is killed and restarted |

Postgres is modelled by what the code relies on: a read sees committed rows only,
a second insert of a key of a unique index waits for the first one's transaction,
then fails if it committed (`MustWait`, `InsertProcessedRow`, `InsertTx`); FOR
UPDATE waits for another's lock of the same row (`RowLocked`). A committed
transaction whose acknowledgement is lost is the second disjunct of `Commit` and
`MarkInsert`. `WaitsFor` is what all these waits come to: whose commit or rollback a
worker's next statement has to wait for. `NoDeadlock` says that no set of workers
waits for itself.

### TONDaemon

An account's transactions are numbered in the order of the chain, so that a page is
an interval `lo..hi`, a cursor the number it ends at, and the undefined cursor of
the first page 0. `next`, `checkPage`, `back`, each round of `handlePage` and the
ends of loops are actions; `Arrive` may happen between any two. Lines 52-56 of
`ton.daemon.ts` cannot be reached (`txs` is null only if the loop above did not
run, and it always does) and have no action. `handlePage` is abstracted here to
what it does to the table: a transaction gets its row, or, for the members of
`Poison`, it throws (`HandlePoison`). `Abort` is any rejected await, or a crash: both
drop the pass. `seen` and `bottom` are history for the properties.

A pass stops at the first page that holds a handled transaction, and never looks
below it. So what matters across passes is whether a transaction is `Behind`: without a
row, and older than one that has one. `LeftBehindInHand` says when that can come about:
while the page that holds it is in hand and handled down to a newer one (a pass that
fails there may leave it for good), or when it is pushed off the first page. It is a
property of every step, whatever earlier passes left. `Blocked` says of one of the newest
`Limit` transactions that one which always throws keeps it from being handled: a
newer one does, on the same page, and an older one as long as passes still reach it,
for they go back from the oldest page; they no longer do once something at least a
page newer has a row.

`Rest` is what is
left of a pass, three numbers in lexicographic order: whether it still looks for
its first page to handle, how far that can be or how many pages are on the stack,
and what is left of the page in hand. `PassDescends` says that each step of a pass
lowers it, and that an arrival leaves it as it is.

### WebhookService

Webhooks are named by their place in the order of `createdAt`. `Begin`, `Commit`
and `RollBack` are the ledger's transactions, as many open at a time as there are
daemons; `Find`, `PostAnswered`, `PostFails`, `MarkSent` and `MarkFails` are the
pass. `posts`, `answered` and `overlap` are history. `Repeats` is the set of the
posts after the first of each webhook, `OneRepeatPerFailure` compares its size with
the number of failures.

### ToncoinDaemon, JettonDaemon

One transaction, with each field the code branches on as a Boolean or a member of
a small set (`Transactions`), is visited pass after pass until it has a row. Every
await is a step which may fail, before or after its effect (`TransactionRow`), and
`CreateCharge` may come between any two. Addresses are compared, never built, and
cells are read, so both are abstracted to the outcome.

A memo is a number a charge can have, a *huge* one, or no positive integer. The schema
accepts a huge one (`z.coerce.bigint().positive()`), but the query for its charge is an
error, since the column is a bigint: `process` throws every time, without anything having
failed, and the catch block notes "invalid memo" (`Findable`, an argument of
`ProcessReturns` and `ProcessThrows`). No charge can have such a memo, so the transaction
is no payment (`IsPayment`); `CreditOnlyPayments` says that it never gets a verdict of the
charges, `EventuallyNoted` that it does get its row.

### TokenUnits

An amount is an integer on the chain and a JavaScript number in the webhook.
`Format` is the rounding `+formatUnits(...)` does, to the nearest number of `Bits`
significant bits and to the even one of two; `Parse` is that of `toFixed`. A
number is kept as a multiple of `1/Grid`, fine enough for every number that
amounts round to, so no fraction is needed. Powers are a recursive function
(`Power`), and `LeastPower` chooses the least that is large enough.
`ToncoinDaemon` formats the amount of each credited transaction. From `ExactBelow` on numbers are farther apart than
coins; for 9 decimals and 53 bits that is 8388608 TON, a little less than the
9007199 TON that 2^53 units suggest.

### Gateway

The variables are those of `TONDaemon` and `WebhookService`, each module an
`INSTANCE`, and three that link them. `handlePage` at a payment is `Begin`
(`manager.transaction` begins: the daemon's instance stands still and the outbox's
gets an open row, `own`) and one of `Credit` (COMMIT), `GiveUp` (`process` throws and
the catch block notes something else) and `Abort` (both throw and the pass ends). A
COMMIT whose acknowledgement is lost is `Credit` followed by `Abort`. `origin` says
whose payment a webhook announces. The other daemons are `BeginElsewhere` and
`EndElsewhere`. `Crash` ends both passes at once and makes every open transaction
`lost`: only Postgres can end it, by rolling it back (`RollBackLost`), and until then
its uncommitted row makes a new insert of the same payment wait (`MustWait`). A
transaction whose COMMIT Postgres is already at when the process dies is not lost
in this sense; it is a `Credit` followed by `Crash`. That takes Postgres to be done
with it before the first pass of the next process, fifteen seconds after its start
(`ChargeService` and `Backend`, where no pass has to come in between, make no such
assumption).

`Verdict` and `Announced` read the tables as a ledger of the account's payments:
credited if a visible webhook announces the payment, rejected if it has only its
row, open otherwise. `ImplementsLedger` is `PaymentLedger` under this mapping, the same
specification that `ChargeService` implements for the statements of one transaction:
here it holds across passes, daemons, the outbox and deaths of the process.

### Backend

One action per await of `main.ts`: `Start` (TypeORM connects; `DropsSchema` decides
between dropping and migrating), `Seed` and `Return(Boot)` three times over, `Listen`.
A `create` is one INSERT that commits by itself: it draws its memo (`Draw`), becomes
visible (`Insert`), and returns (`Return`); it may fail before or after, or Postgres
may finish it after the client has its status 500 (`RequestFails`). `Admitted` is
the key check of `app.middleware.ts` and the schema of the body; `TooLong` is the
payload the schema accepts and the column does not. `Die` is a kill as well as a
rejected `bootstrap()`, which nobody catches; inserts Postgres was at become
`orphans`. A development start drops the tables, and DROP waits for them.

`OpenList`, `ReadItems`, `ReadTotal`, `TurnPage` and `CloseList` are a client that
reads `charge/list` page by page, in either order, and stops at a page that is not
full or at `meta.totalPages`; the two queries of a page run side by side. `Rank` is
the place of a row in the list. `id` and `createdAt` are not kept: with one INSERT
per charge they order rows as the memo does, while rows become visible in any order.

## 3. The runs

| run | bounds | shows |
|---|---|---|
| `charge_service` | 2 workers, 3 transactions (one payable, one with a memo beyond bigint, one with amount 0), 2 draws of the memo sequence, `MaxBigint` 2 | each transaction is decided once, announced once, nobody waits in a circle, every call ends |
| `ton_daemon` | pages of 2, 7 transactions, 2 faults, the third transaction unhandleable | what a pass skips, what it leaves behind, order of pages, the measure of a pass, termination, eventual handling |
| `ton_daemon_pushed_out` | pages of 2, 5 transactions, no fault | finding 1 |
| `ton_daemon_blocked` | pages of 2, 3 transactions, the oldest unhandleable | finding 2 |
| `ton_daemon_half_page` | pages of 2, 3 transactions, 1 fault | finding 3 |
| `webhook_service` | 4 webhooks, 3 open transactions, 2 failures | the outbox properties |
| `webhook_service_order` | 2 webhooks | finding 4 |
| `toncoin_daemon` | all 2952 transactions (72 shapes, 0 to 40 coins), with and without a charge, 3 faults, 2 decimals, 5 bits | branches, retries and catch blocks, memos out of range, the amount told |
| `toncoin_daemon_invalid_memo` | 1 fault | finding 5 |
| `jetton_daemon` | all 768 shapes, 3 faults | the same for the jetton daemon, without the amount |
| `gateway` | pages of 2, 3 transactions (first and third pay), 1 webhook of another daemon, 4 webhook names, 1 trouble | each payment is decided and announced in one step, for good, order of posts, every payment is told |
| `backend` | 2 clients, pages of 2, 2 requests (a payload that fits or not), 1 failure, 1 death, both values of `NODE_ENV` | memos last, seeds pile up, the list skips nothing, the process comes back |

Why the bounds are enough: two workers are what a race on one key takes, since a
third can only wait for the same index entry; transactions never interact but
through their own rows, so one of each kind suffices. `create` is bounded by its
two draws so that a charge exists before, during or after the payment's call.
With pages of two, seven transactions give four pages, hence a stack with a first,
a middle and a last page, an account that ends on and off a page boundary, and
arrivals that push one or both transactions of the first page out; two faults let
an aborted pass follow an aborted one. The third transaction is the one that throws, so
that every case of `Blocked` occurs: as long as the account has no handled transaction
above the fourth, a pass over two or three pages fails at it before it goes back to the
newer ones; once the fifth or a later one is handled, passes no longer come to it; and
the second is unreachable while the third is the newest, on one page with it. Four
webhooks over three open transactions give every overlap pattern of three and a batch that spans a failure. For one
transaction three faults let every write on its longest path fail once (`process`, then
the inner and the outer catch block of the Jetton daemon).
Five bits and two decimals are the real 53 and 9 on a small scale: at
first several numbers lie between two amounts, 40 coins are beyond `ExactBelow`,
which is 25 there, and there are ties for the rounding to break. In
`gateway` four names suffice for two payments, a repeated one after the trouble and one of another daemon, so no behaviour
stops for want of a name; three transactions on pages of two make a pass turn
round, push one off and leave two payments on one page or apart. In `backend` two
requests and the three charges of a start make three pages of two, and a death in
each phase leaves every subset of its inserts to Postgres. `charge_service`, `gateway`
and `backend` are small because their state spaces grow fast; what they check of
safety is also proved for every value of the constants (section 4), and so is
nearly all of what the others check.

`ReturnMeansDecided` and `OneWebhookPerPayment` are checked as conjuncts of `LedgerInv` and
`GatewayInv`.

**Fairness.** `ChargeService`: strong fairness of each worker's next statement, since
Postgres serves the waiters of a lock in turn; no worker is required to succeed,
to be called, or to survive. `TONDaemon`, the daemons and the outbox: weak fairness of
the pass as a whole, since the rxjs timers keep firing and every await settles
(the post has a timeout, `webhook.service.ts:102`); failures are bounded, which
stands for a merchant, an API and a database that answer in the end: a webhook
that is refused for ever, and holds up all others, is not among the behaviours. Nothing is
assumed of arrivals, new charges or transactions that begin. `Gateway`: the same of
its two passes, and that Postgres notices a dead connection in the end, without
which a payment would wait for it for ever. `Backend`: weak fairness of what a start
consists of, since docker restarts a dead process (`restart: always` in the
repository's compose file) and each await of `main.ts` settles; none of requests.

### Findings

1. **A payment pushed off the first page is never credited**
   (`ton-transaction.iterator.ts:55`). In a pass over more than one page, `back()`
   fetches the first page again without a cursor; whatever was pushed off it since
   `next()` is on no page the pass handles, and the next pass stops at the first page,
   which has handled transactions. `README.md:13` promises a request "for each
   payment".
2. **One transaction blocks the others** (`ton/jetton/jetton.daemon.ts:59`):
   `runMethod` of a sender without `get_wallet_data` throws out of every pass. The older
   transactions of its page are never reached, and neither is any newer page, since
   a pass goes back from the oldest one, until arrivals shift the page boundaries so that
   something handled lets the search stop at a page above it.
   `HandledUnlessPushedOutOrBlocked` shows that nothing else keeps a transaction that
   stays on the first page from being handled.
3. **A failed pass can leave payments behind for good** (`ton/ton.daemon.ts:46`).
   A page is handled newest first. If the pass fails halfway, and the page boundaries
   have shifted when the next one comes, a page above the other half may hold a handled
   transaction: the search stops there. With pages of two: of 1 and 2 the pass handles 2
   and fails, 3 arrives, the next pass finds 2 on the page 3-2, and 1 is lost. Again
   `README.md:13` promises a request "for each payment". `LeftBehindInHand` shows that
   only the page in hand is exposed to this, and that with finding 1 these are all the
   ways to fall behind a handled transaction.
4. **A webhook can overtake an older one** whose transaction overlapped its own
   (`webhook/webhook.service.ts:61`); `OvertakesOnlyOverlapping` shows no others can.
5. **A transient error turns a payment into an "invalid memo"**
   (`ton/toncoin.daemon.ts:76`). `PaymentLostOnlyByFault` shows that it takes a fault.

Within a page, transactions are handled newest first (`ton/toncoin.daemon.ts:25`), so the
webhooks of one page are not "from oldest to newest" (`README.md:13`). That is plain from the
loop and has no run; `OlderPagesFirst` and `HandledWithinPage` say how far the order holds,
`ChainOrderUpToPage` what is left of it in the webhooks.

## 4. The proofs

All theorems hold for every value of the constants that satisfies the assumptions
of the module (natural bounds, a positive page size, `NoTx` not a transaction).

**ChargeService_proofs.** `LedgerInv` is inductive. `AnnouncedExactlyOnce` and
`CreditAgreesWithNote` (a payment noted as one without a charge has a memo the charges
could be searched for, too) are not: they need `RowsFollowSteps` (what a worker has inserted
at each statement, so that a commit publishes all three rows or only a note) and
`PendingRowsAreUnique` (an uncommitted row of a unique index excludes another one, and a
committed one). `Safety` is `Spec => []LedgerInv`; `Announcement`,
`Agreement` and `Decision` follow from it. `DeadlockFreedom` does too: who has a
`processed_transaction` row pending or holds a row lock waits for nobody
(`HoldersWaitForNobody`), and who has a `charge_transaction` row pending waits only for
one of those (`ChargeTxHolders`), so a chain of waiting workers has three at most,
however many there are. `Finality` uses `LedgerInv` to show that no
commit touches a decided transaction. `Refinement` maps every step to a `Credit`, a
`Reject` or a stutter of `PaymentLedger`: the only steps that change the mapped
state are `Commit` and `MarkInsert`.

**TONDaemon_proofs.** `PassInv` is inductive: the cursors on the stack are those of
adjacent full pages from the head seen first (`StackIsContiguous`), and everything
between the oldest page fetched and the page in hand is done, except on the first
page, which is fetched at a later head (`Backward`, `HandlesOlderPage`,
`HandlesNewestPage`). `FetchedPagesDone` and `PagesInOrder` follow; the former speaks of the
pages the pass fetched and of nothing below. `WithinPage` needs
`NewerUntouched` too: the pages newer than the one in hand hold nothing handled.
`BehindOnlyInHand` is about all transactions, those below the pages fetched included:
handling a new one puts only those behind that stand between the handled ones and it,
and these lie on the pages fetched (`StartsWhereHandled`: the oldest page fetched begins
at or below the newest handled transaction, or at the account's first), where
`PagesInOrder` leaves the page in hand and what was pushed off.
`PassGetsShorter` proves `PassDescends` from `PassInv`, one lemma per step, and
`LessIsWellFounded` that `Less` has no infinite descent, for pages, accounts and
histories of any size: so no pass makes infinitely many steps. That each step is
taken in the end, which `EveryPassEnds` says as well, takes fairness.

**WebhookService_proofs.** `OutboxInv` is inductive: a batch holds every older
unsent row but those of overlapping transactions (`BatchIsComplete`, which needs
`BeginInOrder`), what is being marked has been answered, and each failure pays for
the repeat it has caused or is going to cause (`RepeatsAreOwed`: the webhooks posted,
not marked and not about to be, count like repeats; without them
`OneRepeatPerFailure` is not inductive, for the failure comes first and its repeat in a
later pass). No step changes the size of either set by more than one.
`MarkAfterAnswer`, `OrderOfPosts`, `NoRepeatAfterMark` and `RepeatsNeedFailures` follow.

**TransactionRow_proofs, ToncoinDaemon_proofs, JettonDaemon_proofs.** `DaemonInv` is
inductive, for any number of faults: at each await, what the checks before it found
(`PassedChecks`), and that a catch block is reached only through a failure, parameters
the schema refuses, a memo out of the range of bigint, an unreadable body, or with the
row written. `CreditOnlyPayments` (`OnlyPaymentsCredited`), `PaymentLostOnlyByFault` and
`WrongNoteOnlyByFault` (`NoPaymentLost`) follow: none of those but a failure happens to a
payment.
`MerchantToldAmount` is `ToldIsPaid` for any number of decimals and any significand.
It rests on what the operators of `TokenUnits` compute: `LeastPowerDef` (the power
chosen exists and is the least; `PowerAbove` gives one that is large enough),
`RoundsToNearest`, `FormatError` (half an `Ulp` at most, which is at most one part in
2^Bits of the amount) and `FormatThenParse` (below `ExactBelow` half an `Ulp` is less
than half a coin, ties included).

**Gateway_proofs.** `ImplementsComponents`: every step of the gateway is a step or a
stutter of each component. The theorems of `TONDaemon_proofs` and
`WebhookService_proofs` therefore hold of it; they are cited through an INSTANCE of
those modules, after lemmas that equate their actions with the gateway's
(`SameDaemon`, `SameOutbox`). `GatewayInv` adds what neither component knows: the open
transaction of the daemon is that of the payment it is at, every other open one of
the account is lost (`OwnIsOpen`), and those of the account begin one after the other
(`AccountIsSequential`). Preserving it uses `OutboxInv` (which webhooks a batch holds)
and `NewerUntouched` of the daemon (what the pass has not come to). `AnnouncedOnce`,
`OrderOfChain` and `OrderOfAccount` follow, for any number of payments, daemons,
failures and deaths. `Refinement` maps `Credit` to the ledger's, `GiveUp` to its
`Reject`, and every other step to a stutter: no other step commits a transaction of
the account (`NewsStay`, where `OwnIsOpen` excludes a lost one) or notes one of its
payments (`NotedAtTheEnd`), and the payment in hand is still open (`InHandIsOpen`, from
`OneWebhookPerPayment`).

**Backend_proofs.** `BackendInv` is inductive. A memo stays with its charge because
no two rows that are visible or may become so share one (`MemosApart`), those of dead
processes included. The list is complete because what a reader has not got stands on
later pages (`ListInStep`), which rests on four facts about places in a list, proved
from the theorems on finite sets: no two rows share a place (`RankApart`), rows that
appear only push others back (`RankGrows`), a page with anything behind it is full
(`SliceIsFull`), and few rows stand behind a given place (`FewStandBehind`).
`MemosLast`, `ThreePerStart` and `NoChargeMissed` follow, for any page size and any
number of requests and deaths.

**Only model-checked.** Liveness: `EveryCallReturns`, `EveryPassEnds`,
`HandledUnlessPushedOutOrBlocked`, `EveryWebhookSent`, `EventuallyNoted` of both daemons,
`PaymentTold` and `AlwaysListensAgain` need fairness and ENABLED, which are outside what
the prover can do. `DeadlockFreedom` and `PassGetsShorter` are the parts of two of
them that are not. Every invariant and action property of the passing runs is
proved.

**Induction.** The library's induction theorems take the statement to prove as an
operator, which the installed provers cannot instantiate. Where an argument over
data is needed (`Power`, `Less`) it is made by the least counterexample instead: the
set of those is a set, and `WFMin` gives its least member. The recursive function
itself is shown to exist in the same way (`TableExists`, `TablesAgree`).

## 5. Not modelled

* Requests that read one value: `charge/retrieve`, `charge/get-receiving-address`,
  the wallet address of a jetton. They change nothing and race with nothing but
  the visibility of one row. The filters of `charge/list` select rows; without them
  the list is the longest.
* Swagger, logging, the wiring of modules, `down()` of the migration, the payload index.
* Jetton look-ups and their locator, address utilities: an external client and a
  parsing library; the answers a payment depends on are inputs of the daemons.
* Configuration beyond `NODE_ENV`: strings read once at a start.
* `src/db/db-helpers.ts`, `src/db/db-error-code.enum.ts`: unused; the latter is most of
  the lines that no module covers.
* Contents of charges and signatures in webhooks: copied, never compared.
* The queue of ticks in `concatMap`: it has no bound, and only delays; a pass may
  start whenever none is under way.
* `Gateway` has one account of its own; the other daemons are what they do to the
  webhook table. Two accounts share nothing else, and `ChargeService` has callers race
  for one transaction.

## 6. Plan

Done, in the order of the first plan: the ledger, discovery, the outbox and the
daemons with their runs and proofs; `Gateway` and its proof from the components'
theorems; what falls behind a handled transaction; memos out of range; `TokenUnits`; `Backend`, for
what requests and starts give the core; the gateway as a refinement of
`PaymentLedger`; the measure of a pass, freedom from deadlock, and the proofs about
repeats and amounts. What could follow:

1. `Gateway` with `ChargeService` statement by statement in place of `Begin` and
   `Credit`; needs a refinement of the ledger's steps by `ChargeService` that keeps the
   open transactions visible, and a smaller instance than the two have today. Both
   implement `PaymentLedger` now, which is the abstraction the two would share.
2. A measure for the outbox's pass and for a start of `Backend`, as `Rest` is one for
   the daemon's pass.
3. An upper bound for the queue of ticks, from a bound on the time of a pass: real
   time is not in any module.
