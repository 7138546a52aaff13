# Truestock in TLA+

Truestock counts the stock of a bar: staff walk through the storeroom and the
bar with a phone, scan bottles, tap how full the open ones are, and a manager
reviews and closes the count. The application is a Next.js server over MariaDB
and a React client with an offline queue of writes.

The one thing it must not do is be silently wrong: a bottle counted twice, a
bottle lost, a count that still changes after it was closed, a figure taken from
the wrong count. This directory holds a TLA+ model of the code that decides
that, the TLC configurations that check it on small instances, and TLAPS proofs
of the main results for any number of devices, users, writes and retries.

## 1. Inventory

| Component | Code | State it keeps | Operations | Modules |
|---|---|---|---|---|
| Count ledger (server) | `lib/domain/counts.ts`, `lib/domain/db-errors.ts`, `lib/count-status.ts`, `lib/action-result.ts`, `app/actions/counts.ts` | tables `count`, `count_line`, `count_line_write` | open, increment/scan, set quantities, edit fills, submit, review, reopen, close | CountLine, CountBook, CountLedger |
| Valuation | `lib/domain/valuation.ts`, `lib/pack-level.ts` | none (pure) | units and value of a line, totals of a count | Valuation |
| Offline queue and count leg (client) | `lib/count-queue.ts`, `components/count/count-leg.tsx` | IndexedDB store `pending_writes`; the optimistic lines on screen | runWrite, flush, sendQueued, markAttempt | CountScreen, CountClient, WriteFate |
| Locations | `lib/domain/catalog.ts:918-1175` | table `location` | create, rename/re-mode, deactivate | Catalog, CountLedger |
| Catalog | `lib/domain/catalog.ts:1-916` | `product`, `product_barcode`, `product_par` | create, update, deactivate, link and resolve a barcode, set a par | Catalog |
| Vendors | `lib/domain/catalog.ts:1180-1357` | `vendor`, `product.vendor_id` | create, update, assign to products | Catalog, Office, RowForms |
| Users and owners | `lib/domain/users.ts`, `scripts/create-user.ts` | `user.role`, `user.active` | set role, activate/deactivate, create | Accounts |
| Sessions and authorization | `lib/auth.ts`, `lib/authz.ts`, `lib/current-user.ts`, `middleware.ts` | table `session` | sign in and out, check a request, redirect a page, revoke | Accounts |
| Session sweep | `lib/domain/sessions.ts` | table `session` | batched delete of expired rows | Accounts |
| On-hand and reports | `lib/domain/on-hand.ts`, `lib/domain/reports.ts` | none (reads) | on-hand, count summary, comparison, reorder list | Reports, Office |
| Barcodes | `lib/barcode.ts`, `lib/barcode-reader.ts` | none (pure) | normalise a code, choose a reader | Barcode |
| Scanner, rescan guard | `lib/rescan-guard.ts`, `components/count/barcode-scanner.tsx` | `armed`, `lastHitAt` | offerFrame, the camera loop | Scan |
| Count screens | `components/count/*` | phase, section, rapid mode, form state | scan, rapid scan, enter, correct, enrol | CountScreen, Scan |
| Product forms | `components/office/product-edit-form.tsx`, `CreateNew` in `components/count/enroll-form.tsx`, `lib/bottle-sizes.ts`, `lib/subcategories.ts` | the fields on screen, the call under way | change a category, unit, size, type, case size; save, deactivate | BottleSizes, ProductForms |
| Office screens | `components/office/*`, `app/(office)/**` | rows, filter, selection; the inline form of a list | search, filter, edit a cell, assign a vendor; add, edit, retire a row | Office, RowForms |
| Pool, seed, scripts | `db/*`, `scripts/*` | the pool | | (create-user, sweep) |

**How they interact.** The count leg sends each write through a server action
(`runAction`: every error but a broken connection comes back as a refusal) to
`counts.ts`, which runs one transaction and answers with the line. The queue
keeps the write, with the `client_line_id` minted for it, until an answer
arrives. The scanner's loop offers each frame to the rescan guard; a code it
lets through is resolved against the catalog, and the answer opens an entry
screen, counts a bottle at once, or opens the enrol form, which makes a product
with its barcode. The catalog contributes the product's price, which the first
write of a line copies; locations are refused at write time once retired, and
are not retired while an open count has lines there. Valuation turns lines into
the total `closeCount` stores. Reports and on-hand read closed counts. Users and
sessions decide who may call any of it, on every request anew.

**What is hard.** Several devices write one count at the same time; a write is
resent when its reply was lost, also while its first attempt is still running;
transactions wait for one another's row locks, time out, deadlock, are retried
or rolled back; the promotion of a draft runs outside the transaction it belongs
to; prices and locations change under an open count; guards read before they
write, without a lock; the answer of a call finds another screen than the one
that sent it; two flushes send one queue; times are stored in whole seconds.
`PROJECT.json` lists each of these hazards at its line with the properties that
cover it, or why none does.

**What correctness means**, component by component:

- *Count ledger*: a write takes effect at most once, atomically with its ledger
  row, on the line as it is at that moment, and only while the count is being
  counted; a success reported to the client is true; closed counts do not change;
  the stored total is the value of the lines; every write is answered.
- *Valuation*: a line of unknown cost or size is excluded, never worth zero.
- *Queue and leg*: no entry that reached the queue disappears; a refusal is told
  to the counter; a flush replays the writes to a line in order; what the screen
  shows at once is what the server makes of the write.
- *Locations*: one active location remains; no open lines in a retired one; the
  count mode of a location with open lines does not change.
- *Catalog*: a code finds only the article linked to it; a product made by a scan
  is found by that scan; nothing crosses organizations.
- *Users, sessions*: one active owner remains; a deactivated user has no session;
  redirects end.
- *Reports*: figures are those of the newest closed count; a summary compares with
  a count that was closed before it began.
- *Scanner*: one bottle held in view counts once; a bottle is counted in the
  section it was scanned in, however late the answer; one bottle makes one
  product; a disabled button comes back.
- *Forms*: what is submitted is what is on screen, and what somebody put there.

Several of these hold only as long as nothing overlaps or fails. The models keep
the overlap and the failure, and the properties say exactly which breaks them:
anything beyond it would be a violation. What is excepted is a request that
overlaps another (`LastOwnerLostOnlyByRace`, `InactiveHasOnlySlipped`,
`PlacesUnlessOverlap`, `PrimaryUnlessOverlap`), a leg that was left before it
could name a refusal (`ImplementsWriteFate`), a bottle that is enrolled before it
is counted (`CountedWhereMeant`; the run `elsewhere` shows why), a write the
browser's store made give up (`BusyIsSomebodys`), and a rapid scan beside an entry
screen's write (`EachGateHolds`). Section 4 lists what the code's comments say
beyond that.

## 2. Modules

```
Valuation             values and totals                 (pure)
  CountLine           writes, and what each does to its line and the ledger (pure)
    CountBook         the abstract specification of a count
    CountLedger       the server's handlers; implements CountBook
      MCCountLedger, CountLedgerProofs
    CountScreen       what the counting screen offers and shows (pure)
      CountClient     queue, flushes and screen over a CountBook; implements WriteFate
        MCCountClient, CountClientProofs
    Reports           figures of a count                (pure)
      Office          which count they are taken from, the catalog table, the forms
        MCOffice, OfficeProofs
BottleSizes           the sizes a form offers           (pure)
  ProductForms        the edit form and the form for a new product   (in Office)
RowForms              the lists of vendors and locations, their inline form (in Office)
WriteFate             the abstract fate of an entry
Barcode               normalisation and reader choice   (pure)
  BarcodeProofs
  Catalog             products, barcodes, pars, vendors, locations
    MCCatalog, CatalogProofs
Scan                  camera, guard, counting and enrolling on one phone
  MCScan, ScanProofs
Accounts              users, sessions, the sweep
  MCAccounts, AccountsProofs
Sums                  lemmas about sums over finite sets, for the proofs of
                      Barcode, CountLedger and Office
```

Operators whose name or comment says *mistake*, such as `RequireAnyUser`, are no
part of any `Next`: each is a plausible wrong version of the definition after
it, kept to show that a property can tell the two apart.

### Valuation, CountLine

The data half of the code. `computeLineUnits`, `computeLineValuation` and
`summarizeValuation` become `UnitTenths`, `Valued`, `ExtendedCents` and
`SummarizeValuation`. A fill level is a number of tenths, a cost a number of
ten-thousandths of a dollar (`DECIMAL(10,4)`), a value a number of cents, so
rounding half up to the cent is integer division; the noise of JavaScript's
binary floating point is left out.

A write (*intent*) is an increment (`incrementCountLine`, and `scanCountLine`
through `ScanIntent`), a correction of the sealed quantities (`"set"`) or a
replacement of the open bottles (`"fills"`). `NewRow` is what it makes of the
line and `EntryOf` the delta it leaves in `count_line_write`. A line is
identified by its count and its slot, the (product, location) pair of the
composite unique key.

### CountLedger: state

| Variable | Code |
|---|---|
| `status`, `total` | `count.status` (`"unopened"` before the row exists), `count.total_value` |
| `line` | `count_line` by count and slot, `NoLine` where there is none |
| `ledger` | `count_line_write` by `client_line_id`, `NoEntry` where there is none |
| `active`, `price` | `location.active`; `product.current_unit_cost`, `case_size` |
| `locked` | who holds the row lock on `count` (a request, or `Supervisor` = the `closeCount` transaction) |
| `tent` | the uncommitted line of a request's transaction |
| `stale` | requests whose read view is older than a row they are about to lock |
| `closing` | the total `closeCount` has computed and not yet committed |
| `retiring` | locations whose `deactivateLocation` has passed its two checks |
| `pc`, `wid`, `tries`, `result` | where a handler is, the write it serves, its attempt in `withLockRetry`, its answer |
| `intent`, `serving`, `outcome` | the client's payload of a write, the request it awaits, what it was told |
| `faults`, `dbErrors` | bounded counters |

### CountLedger: actions

A handler runs as a request through these steps; requests of several devices,
and several requests of one write, interleave between any two.

```
precheck --hit--> reply(ok)            findReplayedLine
   | miss
[discover]  corrections only           the unlocked lookup; opens the read view
   |
  lock      AssertCountWritable        SELECT ... FOR UPDATE on count, then its status
   |        RefuseUnwritable, SnapshotConflict
 upsert     Upsert                     upsertCountLineRow, or the SET of a correction
   |        RefuseRetiredLocation
 ledger     CommitWrite                the ledger row, then COMMIT
   |        DuplicateKey -> replay     ER_DUP_ENTRY: rollback, findReplayedLine
promote     Promote, PromoteTimeout    draft -> in_progress, outside the transaction
   |
 reply      Reply                      runAction
```

`LockRetry` and `LockGiveUp` are `withLockRetry`; `LockFailed` says when InnoDB
raises a lock error (a wait timeout on the count, or the victim of a gap-lock
deadlock of two first inserts into different counts). `DbError` rolls a
transaction back and is answered as a refusal, `DbErrorAfterCommit` is the same
error after the commit took effect. `LoseReply` breaks the client's connection
under a running handler, `Crash` kills the server process.

`OpenCount`, `SubmitCount`, `ReviewCount`, `ReopenCount` are one step each (one
transaction on the one row they lock); `closeCount` is two, `CloseTotals` and
`CloseCommit`, because it also reads the lines. `ChangePrice` is what a count can
see of `updateProduct`. `RetireCheck` and `RetireCommit` are
`deactivateLocation`: its checks use the transaction's read view and take no
lock.

Why some steps are one action: the reads of `upsertCountLineRow` (location, line,
product) and the write that follows happen under the count's row lock, so no
other write of the count can come between them; and its two plain reads, of the
location and of the product, share the read view the first of them opens, so a
retirement or a price change between them is not seen by either.

What the model takes from the database, as the code relies on it: transactions
are atomic; a locking read sees the latest committed row; a plain read keeps the
transaction's read view; `client_line_id` is unique in the whole ledger. With
`SnapshotIsolation` (MariaDB's `innodb_snapshot_isolation`) a locking read of a
row that changed since the read view fails with an error `withLockRetry` does
not recognise (`SnapshotConflict`); both settings are checked, and the proofs
hold for both.

Left out of this module: tenant and role checks (constant per request), the
`raced` branch of the insert (unreachable, since every writer of a line holds
its count's lock; a consequence of `LockDiscipline`), `openedAt`, `countedBy`
and timestamps, and the reads `getCount`, `listCounts`, `getActiveCount`,
`getCountTotals`.

### CountBook

What the component promises, without requests, locks, retries or failures: a
write takes effect in one step (`Apply`), at most once, on the line as it is
then, only while the count is being counted; the life of a count is `Open`,
`Begin`, `Submit`, `Review`, `Reopen`, `Close`; closing stores the value of the
lines. `CountLedger` implements it under the mapping that is the identity on the
committed rows and the intents (`ImplementsCountBook`): a request's commit is
`Apply`, its promotion `Begin`, `CloseCommit` is `Close`, everything else a
stutter.

### WriteFate, CountScreen, CountClient

`WriteFate` is the promise made to the counter: an entry is shown ("made"), is
soon in the durable queue ("kept"), and leaves it counted, or refused: then it is
dropped first ("dropped") and named to the counter after ("refused"). It goes
unsaid ("unheard") only if the leg that drops it was left or closed, and is lost
only if the tab goes away before the queue has it or the browser's store rejects
it. A refusal is not final: a copy of the request that was already under way may
still be counted (finding `refused`). The second variable, `astray`, is the set of
entries a leg that was left may still be sending.

`CountScreen` has the pure half of the leg: the optimistic line (`Optimistic`,
from `Shown`, `ApplyIncrement`, `ApplySet`, `ApplyFillCorrection`), its units
(`ComputeUnits`), what the entry and correction forms may submit (`Entered`,
`CanSubmit`) and the write each becomes (`QuantityWrite`, `FillsWrite`,
`CorrectionWrite`).

`CountClient` is one device. The server is a `CountBook` (justified by
`LedgerImplementsBook`): `Serve` applies the write it was sent, or finds it in
the ledger. A step of the tab goes from one `await` to the next.

| State | Code |
|---|---|
| `queued` | IndexedDB `pending_writes` |
| `stage`, `before` | where `runWrite` is, and the line it captured for its undo |
| `lines` | the lines on screen |
| `busy`, `rapid` | the flag that disables submits; `rapidInFlight` |
| `offline` | the browser has noticed that its network is gone |
| `orphans` | the calls of `runWrite` and the flushes whose leg is no longer on screen: they run on, with nobody to tell |
| `due`, `todo` | flushes started that have not read the queue yet; the rest of a flush's snapshot |
| `call` | where each `runWrite` and flush is with its server call: sent, answered, its write dropped from the queue and not yet reported, being marked after a throw |
| `late` | requests still under way whose caller is gone |
| `refused`, `named`, `applied` | ghosts: the writes dropped because they were refused; those of them the counter was told of; how often a write took effect |

`SubmitEntry` and `RapidScan` make a write (`RunWrite`); `Enqueue`, `Dequeue`,
`RunAccepted`, `RunRefused` are the rest of `runWrite`, one per `await`.
`Dequeue` takes an answered write from the queue, and only the next step says so
on screen: in between the leg may be left or the tab closed. `Flush`,
`SendQueued`, `Dequeue`, `FlushAnswered` are `flush` and `sendQueued`. A flush is
started by the mount of a leg (`LeaveAndReturn`, `Reload`) and by the browser's
`online` event (`Online`, after `GoOffline`), and by nothing else.
`MarkAttempt` is the put after a thrown call, which may bring a dequeued record
back; `Throw` loses a call, with its request lost or still to be served
(`ServeLate`). Each operation of the browser's store may be rejected
(`EnqueueRejected`, `DequeueRejected`, and the second disjuncts of `Enqueue`,
`Flush`, `MarkAttempt`, `RunAccepted`, `RunRefused`); `runWrite` catches no such
rejection and leaves `busy` up (`Abandon`). `LeaveAndReturn` is the Link back to the count:
what the leg started runs on, and its `setState` reaches nobody. `Reload` drops the
tab and keeps the queue; `CountStep` is the supervisor's submit, review, reopen or
close. Next.js sends the server actions of a page one after the other; the model
does not rely on it.

### Accounts

`account` (user and credential row), `orgActive`, `session`, `now`; `signing`
holds a sign-in between the hook that reads `user.active` and the insert of the
session; `req` an owner's request between its reads, its guard and its
transaction; `sweep` the cut-off of a running sweep; `creating` an account whose
script has inserted the user and not yet the password. `slipped` is a ghost.
`SignIn`/`InsertSession`, `Request` -> `RequireOwnUser` -> `CountActiveOwners`
-> `SetRole` or `SetActive`, `CreateUser`/`LinkAccount`, `StartSweep`/
`SweepBatch` are the steps of those operations; any step may be the last
(`EndRequest`, `StopCreating`). `CurrentUser`, `RequireRole` and `Redirect` are
read on every request. Password checking and cookies are Better Auth's.

### Barcode, Catalog

`Barcode` translates `normalizeBarcode`: digits and check digits
(`IsValidGs1`), padding to GTIN-14, UPC-E expansion, by the format the reader
reports; and the choice between the browser's detector and the polyfill.
Codes are sequences of digits, because which codes become equal is the point.
What the forms of a code are is stated beside it, independently of how the code
turns one into another: a GTIN (`IsGtin`), the short form of a UPC-A
(`ShortForm`), the ways a GTIN is written (`WrittenForm`), eight digits of an
unreported symbology (`Bare`), and a reading of what is marked on an article
(`ReadOff`).

`Catalog` runs each request as a transaction: `Ask`, then `Read` (all plain
reads of one snapshot and the checks on them), then `WriteProduct`,
`WritePlace`, `WriteProducts`, `WriteCode`, `WritePar` in the order of the code,
each waiting for the row or unique key it locks, then `Commit`; `Fail` rolls
back. `late` holds the requests whose snapshot is older than a commit that could
have changed what they checked (`Overtaken`). `CountInto`, `SubmitCount`, `CloseCount` are what
locations see of a count. A reading carries the *article* it is a reading of, a
ghost the code cannot see: `NothingMerged` is about it.

Left out: role gates and the removal of costs from returned rows by role, the
free fields of a product (brand, notes; sizes are in `ProductForms`), and the ranking of searches.

### Scan

One phone. `view`, `hits`, `blink` are the bottle and the frames that missed it;
`armed`, `since` the guard (`Offer`, `Accepts`); `phase`, `leg`, `open`,
`rapid`, `busy`, `inFlight` the state of the leg; `call` the server calls under
way, each with what its continuation closed over and with `meant`, a ghost: the
section the bottle was scanned or chosen in, which goes with it through the enrol
form although the form does not know it. `Present`, `Frame`, `FailedFrame`,
`OnBarcode` are the camera (frames without a barcode feed the guard in rapid mode
or out of it); `PickLeg`, `FinishSection`, `ToggleScanner`, `ToggleRapid`,
`PickProduct`, `Leave`, `Submit`, `SubmitForm`, `CountOwner` the counter; `Serve`,
`OtherPhone` the server; `LookupAnswered`, `RapidFound`, `RapidUnknown`,
`RapidEnd`, `Saved`, `Enrolled`, `EnrollRefused`, `OwnerFound` the continuations,
and `LookupThrew`, `WriteThrew`, `FormThrew` those after a throw. `EnrollRefused`
gives the button back and starts the call that asks who has the barcode;
`OwnerFound` is its answer, whenever it comes. `Abandon` is a write that the browser's store
made give up: its `busy` stays, and `stranded` remembers that. `made` counts the
products enrolled for a barcode. What a write does to its line is CountClient's
subject; here it is only under way.

### Reports, Office

`Reports` has the figures as functions of the lines of a count: `OnHand`,
`Indeterminate`, `ReorderItems`, `CountSummary`, `Comparison`, the reasons a
catalog row is incomplete, and what each role is shown.

`Office` has five screens, one per behaviour (`desk`), since they share no
state. On the first two, counts open and close (`BeginClose` takes `closed_at`,
`CommitClose` commits it) in half seconds, while the columns hold whole seconds,
cut off or rounded (`StartedAt`, `ClosedAt`); a page reads its caption and its
figures in either order (`ReadCaption`, `ReadFigures`), and the model remembers
how many counts were closed when it was opened (`since`); a summary picks the
count it compares with (`Summarize`). The third is the catalog table: `Load`,
`Loaded`, `SetCategory`, `ToggleProduct`, `SelectAllVisible`,
`SubmitAssignVendor`, `ServeAssign`, `AssignAnswered`, `SaveCell`, `CellSaved`,
and `Refile`, another user's edit.

`ProductForms` (the fourth screen) has one product form at a time, `productForm`:
the office's edit form, or the phone's form for a new product, blank or as
another size of a product; and its call under way, `submission`. `seed` is what
the form was opened on, `set` (a ghost) what was changed by hand since.
`ChangeCategory` is `changeCategory`: the type goes, the size stays and is shown
as "Other" when the new list does not have it. `Retarget` is `retarget`: a size
off the new list gives way to the default, or to none. `PickType`, `PickListed`,
`PickOther`, `TypeSize`, `TypeCaseSize`, `PickSize` are the controls;
`SaveSheet`, `Deactivate`, `SubmitNew` and their answers the calls. The fields
typed freely (name, brand, vendor, par, cost) are left out: nothing else moves
them. `BottleSizes` has the lists in millilitres as they stand in the code.

`RowForms` (the fifth) is a list of vendors or of locations with its inline form:
`stored` the rows, `listed` the page's copy, `form`, its call `save`, `late`, a
call that threw and may be served yet (`ServeLate`), and `retirement` (the row
armed by the first tap, the row pending, and its call, which may go on alone too). The form takes
its fields from the page when it appears (`Prefill`). It has no React key, so
`EditRow` on another row while it is open changes only the row it is for.
`ServeSave`, `ServeLate`, `ServeRetire` are the server's part (`Write`), `SaveAnswered`,
`RetireAnswered`, `Refreshed` the continuations, `SaveThrew`, `RetireThrew` the
calls nothing catches.

## 3. Runs

| Run | Bounds | Checks |
|---|---|---|
| `writes` | 1 count, 1 slot, 2 writes, each any of increment/set/fills; 3 requests; 2 attempts; 1 crash or lost reply; 1 database error | `TypeOK`, `LockDiscipline`, `NoLostUpdate`, `LedgerReconstructsLines`, `AcknowledgedIsRecorded`, `LinesFrozenUnlessCounting`, `ImplementsCountBook` |
| `close` | 2 counts, 2 locations, 2 prices (one unknown), 2 writes, 2 requests, no faults | `ClosedTotalMatches`, `ClosedIsForever`, `SnapshotsAndLedgerAreKept` |
| `live` | 1 count, 2 writes, 2 requests, 1 fault, 1 database error, snapshot isolation | `EveryWriteAnswered` |
| `refused` | 1 write, 2 requests, 1 lost reply | finding: `RefusedIsNotApplied` |
| `client` | two bottles, or a bottle and the correction of its line, as quantities or as readings; 2 flushes; 1 fault: a thrown call, a rejection of the store, a leg left, a reload, or a passing refusal; a count that is submitted and reopened | `TypeOK`, `ImplementsWriteFate`, `FlushReplaysInOrder` |
| `order` | two bottles, a correction, two more bottles; 1 flush, 1 fault | finding: `LineOrderKept` |
| `accounts` | 2 organizations, 3 users (one to be created, or a second owner), 2 sessions, 2 overlapping requests, sweep batches of 1 | `TypeOK`, `InactiveHasOnlySlipped`, `LastOwnerLostOnlyByRace`, `TenantIsolation`, `SweepIsComplete` |
| `catalog` | 2 organizations, 2 overlapping requests of any kind, 8 readings of 4 articles, an empty or a used catalog (a product with a primary and a second code) | `TypeOK`, `NothingMerged`, `OneArticleOneProduct`, `CreatedWithItsBarcode`, `TenantsApart`, `RefusalNamesHolder`, `PrimaryUnlessOverlap`, `PlacesUnlessOverlap` |
| `scan` | 2 sections, a known and an unknown barcode, 2 calls under way, cool-down of 1 frame | `TypeOK`, `CountedTwiceOnlyAfterBlink`, `CountedWhereMeant`, `EnrolledOnce`, `BusyIsSomebodys`, `EachGateHolds` |
| `rescan` | as `scan`, 1 call, cool-down of 3 frames | finding: `FlickerCountsOnce` |
| `elsewhere` | as `scan`, 1 call, no cool-down | finding: `ScanStaysInItsSection` |
| `office` | 3 counts, 2 seconds, 2 products, 2 categories, 3 searches; forms opened on 4 products, 3 changes; 3 rows, 4 deeds | `TypeOK`, `FiguresAreNewest`, `PreviousBeforeStart`, `BulkReachesOnlyShown`, `FormsAreHonest`, `SavesOnlyWhatWasTyped`; the assumptions of `MCOffice` on the figures of `Reports` |

**Why these bounds.** *Ledger.* Every interaction of the protocol is between two
transactions on one count, or between the attempts of one write and one other
write that lands between them: two writes and three requests give two
overlapping attempts of one write and one of another. One fault is enough to
make a retry; with it the first attempt may still be running (lost reply) or
gone (crash). Two attempts of `withLockRetry` reach both the retry and the
giving up. The count may be reopened any number of times. A second count matters
for the gap-lock deadlock and for writes that must not leak between counts;
prices, and a location to retire beside the one counted in, matter for what is
stored at close; that is the run `close`.

*Client.* The order of writes matters between two writes to one line, and a
resend races either its own first attempt or another flush: two writes, two
flushes, one fault. Only a bottle and the correction of its quantities meet two
flushes at once (`OneFlushForOtherPairs`, a constraint): they do not commute, so
what overlapping flushes can do to the order is found there. One fault of any kind
is enough for each exception `WriteFate` makes, and the proof has any number.

*Accounts, catalog.* A guard that reads before it writes is broken by one other
request between the two; two requests that overlap, and owners enough for each
to see another, reach every such case. The eight readings have a UPC-E, the
same code as UPC-A and EAN-13, its digits without a symbology, an EAN-8 with the
same digits, a UPC-E with its zeros elsewhere, and a house label.

*Scan.* Two calls under way are a late answer and the call it disturbs, and are
interchangeable (`AnyCall`). A cool-down of one frame tells a frame within it and
one after it apart; `rescan` has three.

*Office.* Five half-seconds let counts begin and end in the same second, in
adjacent ones, and further apart; a third count is what a page may wrongly pass
over. The promises at the end of `Reports` are evaluated in `MCOffice` on every
sheet of two products in two places, whose lines are priced, unsized, unpriced or
absent, and proved of every finite sheet: the groups of a summary add up to its
totals, on-hand adds up to the units of the
count, a product marked as incomplete has more than its figure, and ordering what
is suggested brings a product to its par. *Forms:* a wrong size needs one change that
drops it and one that brings it back, with a save or a refusal between; three
changes and every list of sizes reach that. A save of one row's fields into
another needs a form opened, moved and saved; four deeds leave one to type in
between, or for another desk to save the row.

**Fairness.** `live`: `SF(RequestStep(r))`: a handler that runs keeps running,
and InnoDB grants a row lock in order of arrival, so a request whose step is
enabled again and again is not passed over for ever; no fairness of timeouts or
errors is assumed. `WF(CloseCommit(c))`: a transaction that holds the lock of a
count commits. `SF(Resend(w))`: the count leg flushes the queue on mount and on
every `online` event (`count-leg.tsx:249-263`), so a write whose call threw is
sent again. This one is an assumption on the environment, not on the code: that a
counter mounts the leg again, or the browser reports `online`, as often as needed.

No liveness is claimed of the client. A flush starts when a leg mounts and on the
`online` event; a call that throws while the browser stays online starts none, and
that the queue drains would need the counter to open the leg again and again,
which nothing makes a counter do. The resend `live` assumes is such a counter's:
under it the server answers every write.

`CHECK_DEADLOCK FALSE` stands in the runs whose system may stop: a counter with
nothing left to enter, requests all answered, time at its bound.

## 4. Findings

1. **`refused`** (`counts.ts:498`). A write whose reply was lost can be refused on
   retry although it took effect: the retry passes the pre-check while the first
   attempt has not committed, the first attempt commits, the count is submitted,
   the retry finds the count not writable and never looks in the ledger again.
   The header of `counts.ts` (line 54) says a retry must never see an error. The
   client then drops the write and undoes the line on screen.
2. **`order`** (`count-leg.tsx:318`). "Writes to the same line must replay as they
   were made" (line 233). `flush` keeps that among queued writes, but `runWrite`
   sends a new write at once while an older one to its line waits in the queue: a
   correction made offline replays after the next bottle and wipes it out.
3. **`rescan`** (`rescan-guard.ts:100`). A frame without the bottle arms the guard,
   and a frame refused by the cool-down leaves it armed: after a detector blinked
   for one frame, a bottle that has not moved counts again when the cool-down is
   over, "exactly what the cooldown is for" (`tests/rescan-guard.test.ts:69`; the
   test stops within the cool-down).
4. **`elsewhere`** (`count-leg.tsx:437`). "Wrong active location fails silently.
   Every scan lands on a real, legitimate line in the wrong place" (line 111). A
   scan's section is kept for a product its lookup finds, and not for one it does
   not: scan an unknown bottle in the bar, finish the section, pick the cellar, let
   the answer arrive, enrol it, and it is counted in the cellar (lines 517 for a
   rapid scan, 613 where the section is taken).

Met while modelling, and without a run of their own, most of them as the stated
exception of a property that holds otherwise:

- *Writes overlap* (`count-leg.tsx:296`: "`busy` gates every entry screen's submit,
  so writes are serialized", and line 472). Back leaves an entry screen while its
  write is under way; a rapid scan looks at `rapidInFlight` alone and writes beside
  it, and the `finally` of `onBarcode` clears the `busy` flag of whoever set it.
  The undo of a refused write (line 298) is exact only without such overlaps.
- *`busy` can stick* (`count-leg.tsx:284-394`). `runWrite` awaits the browser's
  store with no `finally`, and `getDb` caches a rejected promise
  (`count-queue.ts:70`): every entry screen's submit stays disabled until another
  scan clears the flag, what line 424 describes as a bug removed elsewhere.
- *A refusal may go unsaid* (`count-leg.tsx:216`, `389`). "Dropping it silently
  would be its own bug, so the write is named" (line 213): the write is dropped
  first, and a leg left or a tab closed before `setError` says nothing.
- *A throw while online is not resent* (`count-leg.tsx:260`) until a leg is opened,
  although line 332 says "when the network returns".
- *The enrol form changes its barcode* (`count-leg.tsx:604`, no key) when a second
  unknown lookup is answered while the counter confirms a match: the link gives the
  product the other bottle's barcode ("confirm it is THIS bottle, then link",
  `enroll-form.tsx:334`).
- *No location may remain* (`catalog.ts:1148`). Two concurrent `deactivateLocation`
  of the last two active locations both succeed (write skew), although "the
  counting screen must always have at least one place to scan into" (line 1134).
  `PlacesUnlessOverlap` excepts requests that overlap.
- *The inline form moves between rows with its fields* (`vendors-list.tsx:60`,
  `locations-table.tsx:203`). Edit on row B while the form is open for row A
  changes the heading to B and keeps A's fields: saving writes A's fields over
  B's. The comment at `vendors-list.tsx:28` describes this damage, from another
  cause. `SavesOnlyWhatWasTyped` excepts a moved form, and without the
  exception TLC shows the sequence in five steps. A `key` on the form ends it.
- *A thrown call leaves the office's forms pending* (`product-edit-form.tsx:126`,
  `vendor-edit-form.tsx:76`, `locations-table.tsx:65` and `228`): nothing is
  caught there, so the button stays disabled until the form is left
  (`SheetThrew`, `SaveThrew`, `RetireThrew`). `enroll-form.tsx:620` catches.
- *The size that "cannot be picked"* (`enroll-form.tsx:541`) can: picked under
  another unit, it stays when the unit is changed back. `FormsAreHonest` excepts
  a form whose unit was changed.

## 5. Proofs

**Ledger.** `CountLedgerProofs` holds for every value of the constants that satisfies `RowsAssumption` (intents and prices have
their types) and `ConstantsAssumption` (the bounds are numbers; the lock owners
and null values are distinct from requests and rows): any number of counts,
slots, writes, requests, attempts and faults, with and without snapshot
isolation.

The inductive invariant is `IInv == TypeOK /\ LockDiscipline /\ NoLostUpdate`.
None of the three is inductive alone:

- the type of the uncommitted line needs that a correction still finds a line,
  a clause of `NoLostUpdate`;
- that what a transaction commits was computed from the row it replaces
  (`NoLostUpdate`) needs that no other transaction can commit to the line in
  between, which is `LockDiscipline`: a request past its status check owns the
  lock of its count;
- that the count is still writable when a transaction commits needs that status
  changes wait for the lock.

| Theorem | Property | From |
|---|---|---|
| `TypeCorrect`, `LockIsRespected`, `NoUpdateIsLost` | `[]TypeOK`, `[]LockDiscipline`, `[]NoLostUpdate` | `IInv` |
| `LinesAreFrozen` | `LinesFrozenUnlessCounting` | the only action that changes lines is the commit, whose request holds the lock of a writable count |
| `ClosedStaysClosed` | `ClosedIsForever` | `LinesAreFrozen`'s argument, and the guard of each transition |
| `ClosedTotalIsRight` | `[]ClosedTotalMatches` | the closing clause of `LockDiscipline`: while the closing transaction holds the lock its total is the value of the lines; afterwards they are frozen |
| `SnapshotsStay` | `SnapshotsAndLedgerAreKept` | `NoLostUpdate`: an existing line is updated from itself |
| `OnlyReopenDoes` | `OnlyReopenReopens` | the guard of `Promote`; no run of its own, `ImplementsCountBook` implies it |
| `AcknowledgedWritesStay` | `[]AcknowledgedIsRecorded` | a strengthening over requests about to answer "ok" or to promote (`Acknowledging`) |
| `LedgerAddsUp` | `[]LedgerReconstructsLines` | see *The ledger adds up* |
| `LedgerImplementsBook` | `ImplementsCountBook` | `IInv`; a commit is `Apply` because of `NoLostUpdate` |

The proof that a step preserves `IInv` has one lemma or step per action.

**Screen.** The last theorems of `CountClientProofs`, under `RowsAssumption` and
`ScreenAssumption`, are facts about every row, write and price, none about steps:
`OptimisticMirrorsServer` (what the screen shows at once for a line the server
has is what the server makes of it), `OptimisticFirstWrite` (the same for the
first write, but for the mark that the server has the line), `UnitsOnScreen`
(the units shown are the units valuation computes, unknown when it excludes the
line) and `ButtonKeepsItsPromise` (the total the submit button announces is what
the line then holds). They state in general what the
`client` run relies on with a few lines; a line changed by another device in
between is outside them.

**Accounts.** `AccountsProofs` holds for any number of organizations, users,
sessions and requests, under `AccountsAssumption`. The inductive invariant is
`TypeOK`, `InactiveHasOnlySlipped` and four facts they rest on: the target of a
request past its lookup is of the actor's organization (`TargetsAreOwn`), the
owners a request counted were others than its target (`OthersWereSeen`), a
session or sign-in belongs to an account that exists (`UsersExist`), and a
sign-in under way is of an active user or marked as slipped (`SigningIsActive`).

| Theorem | Property | From |
|---|---|---|
| `TypesHold` | `[]TypeOK` | the invariant |
| `OnlySlippedSessions` | `[]InactiveHasOnlySlipped` | `SigningIsActive`, and that deactivation deletes every session |
| `NoRedirectLoop` | `[]RedirectsEnd` | case analysis; holds of every typed state, so no run checks it |
| `TenantsAreIsolated` | `TenantIsolation` | `TargetsAreOwn` |
| `OwnersAreLostOnlyByRace` | `LastOwnerLostOnlyByRace` | `OthersWereSeen`: if an owner it counted remained, the set would not be empty |
| `SweepLeavesNothing` | `SweepIsComplete` | a sweep ends on an empty batch, and time only grows |

**Client.** `CountClientProofs` holds for any number of writes, products, places,
flushes and faults, under `ClientAssumption` (numbers are numbers, a write is no
flush, flushes are finitely many). The invariant `IInv` is `TypeOK` and seven
facts: nobody but the screen knows of a write before the queue has it
(`UnknownBeforeKept`); the queue gets the writes in the order they are made
(`KeptInOrder`); a call is made of a write the queue has or had
(`CallsHaveAWrite`); a flush reads the queue once, and one whose leg is gone has
work left (`FlushesHaveWork`); an answer under way says what the server did
(`AnswersAreTrue`); a write stays queued until it is settled
(`KeptUntilSettled`); and each write older than one a flush has still to send is
settled or comes before it in the flush's snapshot (`OlderFirst`). The last
needs the others: what the snapshot of a flush lacks must have been settled, or
be younger than all it has.

| Theorem | Property | From |
|---|---|---|
| `ClientTypes` | `[]TypeOK` | the invariant |
| `ReplaysInOrder` | `FlushReplaysInOrder` | `OlderFirst` at the head of the snapshot |
| `KeepsItsPromise` | `ImplementsWriteFate` | `IInv` before and after the step: each action moves the fate of at most one write, and by a step `WriteFate` has; leaving the leg and closing the tab are its `GoAway` |

The order is proved of the calls a flush makes; a new write sent directly past
the queue is finding `order`.

**Scan.** `ScanProofs` holds for any number of sections, barcodes, products,
calls under way, and any cool-down, under `ScanAssumption`. The invariant adds
what a call of each kind carries (`CallsMakeSense`), which screens can be shown
(`ScreensMakeSense`), that a bottle counted and seen ever since has disarmed the
guard (`DisarmedWhileSeen`), that one rapid scan at most is under way
(`OneRapid`), and that a write keeps busy up until somebody else clears it
(`BusyUnlessCleared`).

| Theorem | Property | From |
|---|---|---|
| `ScanTypes` | `[]TypeOK` | `CallsMakeSense`, `ScreensMakeSense`: an answer must find what it shows |
| `NoPhantomScan` | `[]CountedTwiceOnlyAfterBlink` | `DisarmedWhileSeen`: a second count needs a frame that missed the bottle, any such frame (finding `rescan`) |
| `KnownScansStay` | `[]CountedWhereMeant` | what calls and screens carry; a bottle that is enrolled first is excepted (finding `elsewhere`) |
| `OneBottleOneProduct` | `[]EnrolledOnce` | a creation under way carries the product its code would get |
| `BusyHasAReason` | `[]BusyIsSomebodys` | itself, with the types: a call under way, or one the store made give up |
| `GatesHold` | `EachGateHolds` | `BusyUnlessCleared`, `OneRapid` |

**Office.** `OfficeProofs` holds for any number of counts, products, articles,
rows, and any length of time, under `OfficeAssumption` and the assumptions of
`ProductForms` and `RowForms`. The screens share no variable, so the invariant
has a part for each (`SheetInv`, `RowInv`, `CountsInv`, `PageInv`, `SummaryInv`,
`TableInv`).

| Theorem | Property | From |
|---|---|---|
| `OfficeTypes` | `[]TypeOK` | the invariant |
| `NewestFigures` | `[]FiguresAreNewest` | `PageInv`: what a read found was closed, and is not before any count closed when the page was opened, in whole seconds |
| `PreviousComesBefore` | `[]PreviousBeforeStart` | itself, with `CountsInv` |
| `HonestForms` | `[]FormsAreHonest` | what is on screen differs from what was submitted only where it was changed since (`ChangedSinceSubmitted`): the answer of a save re-seeds the form |
| `SavesWhatWasTyped` | `SavesOnlyWhatWasTyped` | a form that was not moved differs from its seed only where somebody typed, also when its call threw and is served later; a moved form is excepted (section 4) |
| `BulkStaysOnScreen` | `BulkReachesOnlyShown` | the ids of a call are among those shown when it was made |

**Catalog.** `CatalogProofs` holds for any number of organizations, rows,
readings and requests, under `CatalogAssumption` and `FirstTables` (no id is
given out twice, and the first tables are lawful: references stay within the
organization, a product with codes has a primary one). The invariant is
`TypeOK`, the same of the tables at any time (`TablesInv`), and of each request
what it has found out by the step it is at (`Honest`): the rows it refers to are
its organization's; the code it is to insert is free, and is its product's first
if it is to be primary, or the request is in `late`; the place it is to change
has no open lines, or it is in `late`; and the rows it is to insert are not there
yet. What a request read stays true because it holds the key, or it becomes
`late`: that is where `Overtaken` must be complete.

| Theorem | Property | From |
|---|---|---|
| `CatalogTypes` | `[]TypeOK` | the invariant; no key is locked twice |
| `NeverWithoutItsBarcode` | `[]CreatedWithItsBarcode` | a commit installs product and code together |
| `TenantsStayApart` | `[]TenantsApart` | past its reads, a request names only rows of its own |
| `HolderIsNamed` | `[]RefusalNamesHolder` | `Honest` |
| `PrimaryKept` | `PrimaryUnlessOverlap` | a request not in `late` knows whether its product has a code |
| `PlacesKept` | `PlacesUnlessOverlap` | the same of lines and active places |
| `NothingIsMerged` | `[]NothingMerged` | every code was read off an article, and `MarksKeepApart` |
| `OneProductPerArticle` | `[]OneArticleOneProduct` | the readings of an article whose check digit proves them have one code, its mark |

The last two suppose of the readings what the code cannot see: each is of what is
marked on its article (`ReadTrue`), a GTIN in one of its written forms or a label
that is none. `NothingIsMerged` also supposes that articles can be told apart
(`ToldApart`): no two are marked alike, and no two come with the same eight
digits of a symbology nobody reported. The second is the one ambiguity the code
leaves, as its comment says: such digits are stored as read. `MCCatalog` names
the marks of its articles and evaluates both suppositions on the eight readings.

**Barcodes.** `BarcodeProofs` is about `Barcode` for every code, with no
assumption but those named:

| Theorem | What it says |
|---|---|
| `RewrittenIsGtin` | what `normalizeBarcode` rewrites becomes a valid GTIN; everything else stays as read |
| `StandardIsIdempotent` | a stored form is its own stored form, whatever symbology it is read back with: looking up what was stored finds it |
| `WrittenFormsMeet` | UPC-A, EAN-13, GTIN-14, EAN-8 and UPC-E of one GTIN are all stored as that GTIN: `ExpandUpcE` undoes zero suppression in each of its four forms |
| `OneMisreadDigitIsFound` | a valid code with one wrong digit is not valid, of any length |
| `MisreadIsNotMerged` | so a UPC-A, EAN-13 or GTIN-14 with one wrong digit is stored as read, and is not found under the right one |
| `RetailIsReadable` | whatever reader the browser gets reads every retail symbology |

Padding keeps a code valid (`PadKeepsCheckDigit`) because the weights count from
the check digit leftwards. That `RewrittenIsGtin` covers the decoder's output for
short codes nobody prints (a last digit of 3 after a third digit below 3) and
`WrittenFormsMeet` only those zero suppression makes is meant: the code expands
both. `MisreadIsNotMerged` says nothing of UPC-E, whose check digit is that of
another code: one wrong digit may move the zeros.

**Figures.** The figures of `Reports` are functions of a sheet, and the last
theorems of `OfficeProofs` hold of every sheet with finitely many lines of
`RowType` (`IsSheet`), which every count of `CountLedger` has by its `TypeOK`:

| Theorem | What it says |
|---|---|
| `SummaryAddsUp` | the groups of a summary, by category and by place, add up to its totals: units, value, lines, lines left out |
| `OnHandAddsUp` | what is on hand of the products adds up to the units of the count |
| `IncompleteHasMore` | a product marked as incomplete has more than its figure once the case size is known; another has exactly its figure |
| `ReorderingReachesPar` | the list names what is at or below its threshold and nothing else; an order brings it to its par and not past it |
| `UnpricedAreMarked` | the dashboard's unpriced products are those whose rows need a cost |

A group is added up line by line, a fold over records. `GroupIs` shows that it is
four sums, by giving the recursion a solution and proving there is no other;
the sums of the groups are then the sum of all lines (`SumOfGroups`), and the
totals, which run over the lines that have a value, are the same sums without
zeros (`SumWithoutZeros`). `IncompleteHasMore` needs that quantities are never
negative, which `CountLedger`'s `TypeOK` says of every line.

**The ledger adds up.** `LedgerAddsUp` proves `[]LedgerReconstructsLines`: the
recorded deltas of a line sum to its quantities, and to its open bottles while no
write replaces them. Its invariant adds that finitely many writes are recorded
for a line. A commit adds one term, `EntryOf` of the row that is replaced (by
`NoLostUpdate`), which is the difference between the new row and the old. The sum
is `SumFunction`, a recursion over sets; `Sums` shows that the
recursion has a solution (`SumsExist`), that the order of the terms does not
matter (`SumsInAnyOrder`), and how it behaves on one more term and on a
concatenation (`SumAfterInsert`, `SumOfConcat`).

Those lemmas, and the latest of a set of counts in `OfficeProofs`, are
inductions, and the library's induction theorems cannot be instantiated here.
They are done through least counterexamples instead: the relation `<` on the
naturals is well-founded, a theorem without an operator parameter, so a nonempty
set of naturals has a least member (`LeastOf`), and a nonempty set of finite sets
a minimal one (`MinimalSet`).

**What the proofs found in the models.** Each of these passed its run, on small
instances, and TLC confirmed the larger counterexample:

- `Overtaken` left out a change of a location's mode that lands between the reads
  and the write of another: the exception of `PlacesUnlessOverlap` did not name
  that overlap, and now does. (`updateLocation` checks the mode it read without
  a lock, `catalog.ts:1053`.)
- An edit of a row in `RowForms` reset the seed of the form it moved, so that
  `SavesOnlyWhatWasTyped` was false with six deeds.
- The fate of a write in `CountClient` was a CASE with overlapping arms, of which
  TLC takes the first and the semantics any; it is now a chain of conditions.
- `FiguresAreNewest` needed no memory of what had closed before the page was
  opened beyond its length, and is stated more strongly than before.

**Model-checked only.** `EveryWriteAnswered` is liveness under fairness, out of
the prover's reach. `NeedsParIsShownAtLoad` of `MCOffice` is
evaluated for every kind of product, of which there are few. Findings 1 to 4 are
counterexamples TLC found. Every invariant and action property of a passing run
is a theorem.

## 6. Not modelled

- *The pool (`db/index.ts`), the seed and its CSV parser, `verify-browser.mjs`*:
  set-up, and a script that drives a browser through the screens; they keep no
  state the application relies on.
- *Decoding*: the browser's detector and the WebAssembly polyfill; what they may
  report is a reading.
- *The users list and the reorder page*: each submits one action of `Accounts` or
  `Reports` and shows its answer.
- *Two desks on one product form*: every field is submitted, and the later save
  wins; `RowForms` has that for its lists.
- *Search as one types* (`count-leg.tsx:567`, `enroll-form.tsx:267`): answers are
  shown in the order they arrive; in `Scan` the counter may pick any product.
- *Removing costs from catalog rows by role*: a projection of a returned row;
  `Reports` has it for the reports.
- *Layout, wording, ranking of searches, formatting of bottle sizes*.
- *Several devices at one screen*: another device changes lines this screen does
  not show until it reloads; that writes of several devices do not disturb one
  another on the server is `CountLedger`'s subject.

Worth doing next: misread UPC-E codes, whose wrong digit may expand to another
valid code; the users list and the reorder page.

## 7. Running it

```
tlc -workers 2 -config CountLedger_writes.cfg MCCountLedger
tlapm CountLedgerProofs.tla
```

Each configuration is named after its module and run; `client`, `order` belong
to `MCCountClient`, the others to the `MC` module of their name. The proof
modules are `Sums`, `BarcodeProofs`, `CountLedgerProofs`, `CountClientProofs`,
`AccountsProofs`, `CatalogProofs`, `ScanProofs` and `OfficeProofs`; each takes
between some seconds and three minutes.
