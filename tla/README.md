# Formal specification of Financial

TLA+ modules, model-checking configurations and machine-checked proofs for the
parts of *Financial* (a household cash-flow and investment tracker: a .NET API
over JSON documents, a React front end) where the order of things matters. Every
definition is translated from the C# or TypeScript source; `PROJECT.json` maps it
to its lines.

## The system

One process hosts two bounded contexts, CashFlow and Investment, and a small
store of exchange rates. Each context is an object graph in memory, loaded from
one JSON document at start-up. A request (one HTTP call, several at a time)
reads the graph, validates, then asks the context's repository to apply its
changes and save; the whole graph is written every time.

| Component | State it keeps | Operations | What is hard | What makes it correct |
|---|---|---|---|---|
| Debounced background save (`DebouncedJsonStorage`, remote files) | the newest document, dirty and in-flight flags, a generation counter, background tasks, the status shown to users | WriteAsync, a debounce cycle, an upload with retries, FlushAsync at shutdown, GetStatus | cycles overlap; a write may come during a save; a failed upload may have taken effect; the host may stop at any moment | no write is forgotten, "all changes saved" is true whenever it is shown, the remote file never goes back |
| JSON repository (`CashFlowJsonRepository`, `InvestmentJsonRepository`) and `LocalJsonStorage` | the object graph, the JSON last persisted (for rollback), the write gate, the file and a staged file | ApplyAndSaveAsync, load at start-up | requests hold references looked up outside the gate; any step may throw; the process may die | memory and file agree when nobody saves; each answer stays true; the file always loads |
| Card statements, charges, credit refunds | expenses with a card, statements with their paid flag and payment link, transfers | add, update, delete, move a charge; pay and unmark a statement; add and delete a credit refund | validation is outside the gate, application inside; a ledger walks over the months and carries credit | nothing is paid twice or forgotten; a paid statement is frozen; what is due can be paid |
| Calendar synchronisation | one connection file: tokens, calendar id, event per card; a status per card | connect, disconnect, trigger, resync, refresh token | background tasks, awaits between load and save of the same file | one event per card; a disconnected calendar stays disconnected; each status settles |
| Cards and accounts administration | accounts, cards, banks, references to them | create, update, delete, adjust | reference checks outside the gate | no record refers to a deleted account |
| Pots, reserve, tithe | deposits and withdrawals per pot | deposit, withdraw, transfer | balance checks outside the gate | balances never go below zero |
| Investment positions, corporate actions | per asset: transactions, corporate actions, disposal records; the broker's cost basis method | add, update, delete any of them, at any past date; change the method; load | a change in the past replays everything after it; mergers and spin-offs touch two assets; lots and positions are two replays of one history | a disposal has one record, current and of the method; history changes only by what is dated before it; the halves of a merger agree; every sale is covered |
| Prices and exchange rates | recorded prices, cached rates | look up with fallback providers, record automatically | providers fail; caches outlive the day | a manual price is never overwritten; a cached rate is the day's rate |
| Income, recurring bills, the month's controls | records per month, bills with a status | create, update, delete, pay, reset | the check that a bill is unpaid is outside the gate | a payment has one expense |
| Investment detail panel (React) | the selected node, the mounted tab, its hook's reducer, an inline form | select, switch tab, retry, open, save and delete | no hook knows an answer from a late one; a fetch replaces the open form | what is shown is of the selection, and current; a form makes one record |
| Read-only pages and settings (React) | per panel: data, loading, error, the number of the last request | choose a key, retry, refresh, write a setting | answers come in any order and may be lost; a window regains the focus | only the latest answer counts; loading ends; the setting shown is the server's |
| Administration pages (React) | a list, a dialog, a question, one pending row | create, edit, deactivate, delete | a dialog can be dismissed while it saves; the list is read again in two ways | edits build on the latest record; a save goes to the record of its dialog |
| Cash flow pages (React) | a list of a month, account or date; the form in use; suggested values; bills | change month, open, save, confirm, delete, apply, pay | as above, with one `isSaving` per form and one `updatingStatusBillId` for all bills | the list is of its month; one save at a time; what is confirmed is what was asked |
| HTTP API, shell and navigation, integrations, tools | none of record | | | |

Components meet in four places. Services call a repository's
`ApplyAndSaveAsync`, one at a time inside its gate. A repository calls its
`IJsonStorage`, which is `LocalJsonStorage` (the answer comes when the file is
written) or `DebouncedJsonStorage` over a Google Drive file (the answer comes at
once, the upload later). A card service starts background tasks that update
the user's calendar from what the repository holds. And the pages of the front end
send requests whose answers arrive in any order, late or not at all, while the user
goes on: each page has hooks (`useReducer` or `useState`) that keep its list and
forms, and the only state two pages share is the selected node.

## Modules

| Module | Models |
|---|---|
| `DurableDocument` | abstract: what any storage of the document promises |
| `DebouncedJsonStorage` | `DebouncedJsonStorage.cs`, `RetryPolicy.cs`, the shutdown service |
| `JsonRepository` | the save of both JSON repositories, over `LocalJsonStorage.cs` |
| `Persistence_proofs` | theorems about the two |
| `CardStatements` | `CardStatementService`, `CardStatementCreation`, `ExpenseService` (charges of a card), `AccountTransferService` (credit refunds) and the domain rules they use |
| `MCCardStatements` | a small instance of it |
| `CardStatements_proofs` | theorems about it |
| `CalendarSync` | `CreditCardCalendarSyncService.cs`, `CalendarIntegrationService.cs`, the connection file and the status store |
| `CalendarSync_proofs` | theorems about it |
| `DetailRequests` | what the tabs of the detail panel share: the selected node, the server's records, the requests under way |
| `ListTabs` | transactions, credits, price history, corporate actions, each with its hook and form |
| `SummaryTabs` | the asset summary and the holdings of a portfolio |
| `DetailPanel`, `MCDetailPanel` | their composition: selection and tabs; an instance |
| `DetailPanel_proofs` | theorems about it |
| `ResourceState` | `useAsyncResource`: one read, as a record and the steps on it |
| `TaxPage` | `useTaxWorkbook` and its page |
| `WebPages`, `MCWebPages` | the pages made of such reads, the settings they write, with `TaxPage`; an instance |
| `WebPages_proofs` | theorems about them |
| `AdminPages`, `MCAdminPages` | `useCrudResource`, the twelve administration hooks, dialogs and pages; an instance |
| `AdminPages_proofs` | theorems about it |
| `HoldingReplay` | what a history comes to: `CorporateActionReplay`, `OpenLotTracker`, `SaleCoverageRule`, `DisposalRecordCalculator`, as operators |
| `Holdings`, `MCHoldings` | the holdings of a broker and the services that change them: `Asset`, `DisposalRecordRegenerator`, `TransactionService`, `CorporateActionService`; instances |
| `Holdings_proofs` | theorems about them |
| `BillsPage` | `useMensais`, its page and prompt, and `MensaisService` behind them |
| `MonthPages`, `MCMonthPages` | the cash flow pages, with `BillsPage`; instances |
| `MonthPages_proofs` | theorems about both |

### DebouncedJsonStorage

A document is its number in the order of the `WriteAsync` calls. The variables
are the class's fields under their own names, `cycles` (the tasks `Task.Run` has
started, each with its generation, place and captured document), the remote file
and the host. One action is one critical section of `_lock`, one attempt of the
inner `WriteAsync`, or one timer:

| Action | Code |
|---|---|
| `WriteAsync` | WriteAsync's lock block |
| `Elapse(c)` | the end of the debounce delay and the check of generation and in-flight flag |
| `StartSave(c)` | SaveNowAsync's lock block |
| `UploadSucceeds`, `UploadFails`, `Retry` | an attempt in TransientRetryPolicy and its backoff |
| `HandleSaveSuccess`, `HandleSaveFailure` | the two handlers |
| `FlushAsync`, `FlushReturns`, `Exit` | the hosted service's StopAsync, its timeout, the end of the process |

`UploadFails` leaves the remote file alone or not: the exception may be a lost
answer. Which exceptions are retryable is a choice. The web server stops before
the hosted services' `StopAsync`, so no write follows a flush; the process's end
stops the cycles wherever they are.

`GapOutlastsWindow` is an assumption about time. A cycle checks under the lock
that it may save, releases the lock and takes it again in `SaveNowAsync`. With
the constant FALSE no second cycle passes the same check meanwhile, because that
cycle's own window (10 s) would have to begin and end within that gap. The run,
and the theorems that need it, say so; a flush may still overtake a cycle in the
gap, which the model has and which is harmless because no write can follow.

### JsonRepository

A document is the set of requests whose change it contains. A request looks its
entities up (`LookUp`), waits for the gate (`Enter`), applies (`Apply`,
`ApplyNothing`, `ApplyThrows`), writes the staged file in two steps
(`BeginStage`, `EndStage`), renames it (`MoveStaged`) and commits (`Commit`); any step
of the storage may fail (`StorageFails`), and every failure ends in `Rollback`,
which deserializes a new graph. `identity` tells the graphs apart: a request in
`Capturing` changes an entity it looked up before the gate, and its change is
lost to the document if the graph has been replaced since. `Crash` keeps the
files, `Restart` loads them. Its state, next-state relation and specification
(`RepositoryInit`, `RepositoryNext`, `RepositorySpec`) have names of their own, so
that one module can prove theorems about both layers.

### CardStatements

One card, its charges, months and transfers. Each operation is two actions:
`Validate...`, everything the service reads and checks before
`ApplyAndSaveAsync`, which leaves the request in `open[client]`; and the apply
step, the body of its `applyChanges`. Other clients may act in between, as they
may in the code. `Refused` is an exception in `applyChanges` or a failed save.
`CardStatementLedger` is the recursive function `Walk` over the months. Two
history variables say when a request is applied on what another has changed
since it was validated: `stale` (pending requests overtaken by a change) and
`raced` (one of those was applied). Properties with "unless requests race" use
them.

### CalendarSync

The amount a card's event should show is `amount[c]`, or `NothingDue`; `store` is
the credentials file, with the mapping of cards to events; `calendars` and
`events` are the user's account. `sync` is the one background sync that holds
`_syncLock`, with the local variables of `SyncLockedAsync` (`copy` is the
connection it loaded) and, when it had to create the calendar again, the cards
its loops still have to visit (`todo`); `waiting` counts the syncs that wait for
the lock, those a save triggered (`told`) and those of a resync request
(`asked`). One action runs from one call of the provider to the next:

| Action | Code |
|---|---|
| `ChangeCard`, `PayCard`, `Resync` | the saves that trigger a sync, the payment that does not, the manual resync |
| `StartSync`, `NextCard` | `SyncCoreAsync` gets the lock; the next card of the loop in `RecreateCalendarAndResyncAllLockedAsync` |
| `SyncRefresh`, `Plan` | `GetValidAccessTokenAsync`; the second load and the choice of the call |
| `FindEvent`, `UpdateEvent`, `CreateEvent`, `DeleteEvent` | the call, then `SetEventMapping` or `RemoveEventMapping` and the status |
| `CallFails`, `NotFound`, `RecreateCalendar` | the catch blocks and self-healing |
| `PollLoads`, `PollRefreshes` | `GetStatusAsync` with an expired token |
| `Disconnect...`, `Connect...` | `DisconnectAsync`; `CompleteConnectionAsync` and the bulk resync after it |

A call of the provider takes effect or not, and is answered or not: an exception
may follow an event that was created. The status and connection requests do not
take `_syncLock`, so each may come between any two steps of a sync. Three history
variables say what a property must except: `unread` (cards changed, or moved to
a new calendar by an aborted resync, without a sync reading them since),
`clobbered` (a stale copy of the connection was saved) and `unhealed`.

### Holdings

`holdings` gives each asset of one broker its transactions and corporate actions, by
id, and its disposal records that are active, by the id of the disposal. A record
holds the lots it consumed, by their source. `costBasisMethod` is the broker's.
`HoldingReplay` has the arithmetic, with no state: a history is a set of steps,
`Merge` puts it in the order of the replay, and the position, the open lots, the
coverage of sales and the cost of a disposal are folds over it. Operations of
`Asset` (`TransactionRecorded`, `CorporateActionRetracted` ...) give the set of
holdings they may end in, which is empty when the code throws; an action is a
request of a service made of them.

| Action | Code |
|---|---|
| `AddTransaction`, `UpdateTransaction`, `DeleteTransaction` | `TransactionService`; `Asset.RecordTransaction`, `ReviseTransaction`, `RetractTransaction` |
| `AddSplit`, `UpdateSplit`, `DeleteSplit` | `CorporateActionService`; `Asset.RecordCorporateAction`, `ReviseCorporateAction`, `RetractCorporateAction` |
| `AddMerger`, `AddSpinOff`, `UpdateMerger`, `UpdateSpinOff`, `DeleteLinked` | the same, in two assets: retract both, compute anew, record both |
| `SetCostBasisMethod` | `BrokerService.SetCostBasisMethodAsync`, `DisposalRecordRegenerator.RegenerateBroker` |
| `Restart` | `InvestmentLoader.LoadSync`, `DisposalRecordBackfill` |

A request that throws is rolled back from the JSON saved last (`JsonRepository`), so
what is refused, and the compensations that come before it, leave no step. Superseded
records are dropped: nothing computes with them. Within a date and a rank the replay
keeps the order of the lists; here that is the order of the ids, and a new step takes
any id that comes last there. The two halves of a merger share an id, as they share a
correlation id in the code. A change of the method is one step, since the plans of all
assets are computed, under the gate, before the first is committed. The form's guards
are part of the actions: an allocation names lots the form shows, each once, and a
split's form updates splits only, which the service itself does not check. Two history variables say what the properties except:
`retyped`, the transactions revised into or out of a disposal, and `outOfOrder`, the
disposals entered after a step they precede, until a regeneration reaches them.

### The front end's modules

They are made alike. A request is a record in one of the `Slots`: what it is for,
and whether it is `"sent"`, `"ok"`, refused, or `"lost"` (carried out, with an
answer that never comes and a promise that is rejected). The server's work on it
(`AnswerRead`, `CarryOut`) and the arrival of its answer are two actions, so that
answers cross. Data is abstracted to what the properties tell apart: which key it
was read for and how many changes the server had made by then. A hook, a dialog
or a form is a record that says in which ways it differs from its siblings
(`UseBrokers`, `BrokerFormDialog`, `UseTransferForm`: which fetches it guards,
whether a save closes the form, whether `isSaving` survives a reopening), and one
set of actions serves all hooks of a kind; the record is what `PROJECT.json` maps
to that hook's lines. A history variable (`mishaps`, `troubles`, `apart`,
`tax.raced`) notes what the properties except: requests that overlapped, an
answer that was lost, a dialog dismissed while it was saving.

| Module | Actions | Code |
|---|---|---|
| `DetailPanel` | `SelectNode`, `ClickAgain`, `Deselect`, `SelectTab` | the context's reducer, and the effects of the tab that is mounted by it |
| `ListTabs` | `ShowNewForm`, `ShowEditForm`, `SaveCredit`, `SaveMerger` ..., `LoadAnswered`, `SaveAnswered`, `DeleteAnswered` | the reducers' cases and the `.then`, `.catch` of their requests |
| `SummaryTabs` | `AssetAnswered`, `WeightAnswered`, `PriceAnswered`, `RowPriceAnswered` ... | `useAssetSummary`, `usePortfolioAssetSummary`: the price fetches, and the second read after them |
| `WebPages` | `ChooseKey`, `Retry`, `Answer`, `Fail`, `SetCurrency`, `SetEnabled`, `Disconnect`, `Connect`, `Focus` ... | effects of `useAsyncResource`; the callbacks of the two settings hooks |
| `TaxPage` | `SelectYear`, `WorkbookAnswered` ... | `useTaxWorkbook`'s effects |
| `AdminPages` | `Submit`, `SaveAnswered`, `MethodFollows`, `SaveReread`, `ConfirmDelete`, `Deactivate`, `Dismiss` ... | `mutateAndRefresh`, `runPendingMutation`, `useDialogSubmit`, `BrokersPage`'s two requests |
| `MonthPages` | `ChooseKey`, `FetchAnswered`, `Submit`, `ConfirmOverdraft`, `SaveRefused`, `ChangeRow`, `Apply`, `RowApplied` ... | the hooks' fetches and submits, the 409 of a pot's overdraft, `useSuggestedValues` |
| `BillsPage` | `UpdateBillStatus`, `MarkBillPaid`, `CheckCall`, `ApplyCall`, `StatusAnswered` ... | the page; `MensaisService`'s check before and change inside the gate |

`MonthPages` opens one page with one of its forms and never leaves it: the forms of
a page share nothing but the list and its refresh, and opening a page mounts
everything anew. In `DetailPanel` a page change is the selection of a node, which
unmounts every tab but the summary. No effect of a tab cancels anything when it goes:
the `Orphaned` requests of an unmounted tab still take effect at the server, and its
rows, if they arrive late, still have a price fetched and recorded for each behind the
tab opened since. Which node has the ticker and exchange that a price fetch needs
(`resolvePriceFetchArgs`) is left open: `FetchAsset` may fetch the asset alone. Of an
orphan that can change nothing any more the slot is free (`DropOrphan`).

## Runs

| Run | Bounds | Shows |
|---|---|---|
| `DebouncedJsonStorage` | 3 writes, 1 retry | `IdleMeansSaved`, `EveryWriteSettles`, and `ImplementsDurableDocument` (refinement) |
| `JsonRepository` | 3 requests, 2 of them capturing, 1 crash | `QuietMeansSynced`, `AnswersStayTrue`, `EveryRequestAnswered` |
| `CardStatements` | 2 clients, 2 charges, 2 months, 2 transfers; values 2 and -1, refunds of 1; an empty card or a legacy-paid one | `DueHasStatement`, `PaymentsMatchStatements`, `PaidStatementIsFrozen`, `MoneyMovesItsAmountOnly` |
| `CalendarSync` | 1 card, 2 amounts, 1 change or resync, 2 connections, the token expires once, 1 request outside the lock at a time, 2 calendars, 2 events | `OneEventPerCard`, `RecordedEventIsCurrent`, `EverySyncAnswers` |
| `DetailPanel` | 2 assets and their portfolio, 2 requests under way, 2 changes of each asset, 2 filters | `TypeOK`, `ShownBelongsToSelection`, `ListIsCurrentWhenQuiet`, `OneFormOneRecord`, `HoldingsAreRevalued` |
| `WebPages` | the keys of each page, 2 requests per panel, 2 changes, 2 tax years | `ShownIsAsked`, `LoadingIsAnswered`, `SettingIsCurrent`, `WorkbookIsOfSelectionUnlessRaced` |
| `AdminPages` | 2 records, 2 requests, 2 changes, a page of each kind | `ListIsCurrentWhenQuiet`, `EditsBuildOnLatest`, `SaveKeepsToItsRecord`, `SavingIsAnswered` |
| `MonthPages` | every page with each of its forms, 2 keys, 2 requests, 1 change, 2 suggested rows; 1 bill, 2 writes of it | `TypeOK`, `ShownIsOfKey`, `OneSaveAtATime`, `ConfirmedIsWhatWasAsked`, `BillsAreCurrentWhenQuiet`, `ExpenseRecordedOnceUnlessRaced` |
| `Holdings` | 1 asset, 3 transactions (buys and sales), 1 split by 2, 3 dates, lots of 1 at 12 and of 2 at 24 | `RecordsAreCurrentUnlessOutOfOrder`, `LotsConsumedOnceUnderFIFO`, `UncoveredOnlyByCorporateAction`, `OnlyEarlierChangesRewriteHistory` |
| `LinkedHoldings` | 2 assets, 2 transactions (transfers out too), 1 split, merger by 2 or spin-off of 50 %, 2 dates, 1 retyped | `OneRecordPerDisposalUnlessRetyped`, `MethodDescribesHistory`, `LinkedHalvesAgree`, `OpenLotsAreThePosition` |
| `ExpenseRecordedOnce` | the bills' page, 2 UK bills, 2 requests, 2 changes | violated: see findings |
| `OneRecordPerDisposal` | 1 asset, 2 transactions, 1 retyped | violated: see findings |

The type invariants of the modules with theorems, and `NeverGoesBack` of `WebPages`,
are proved for every value of the constants; only the runs of `DetailPanel` and
`MonthPages` repeat theirs.

Why the bounds are enough to be interesting. Three writes give a write before, a
write during and a write after a save, with a cycle superseded, one overtaken by
the flush and a follow-up cycle at the same time. Three requests give one inside
the gate, one waiting whose lookup is stale and one that has not begun, with a
crash at each step of each. Two charges in two months give a credit that is
carried and a purchase it is taken from; two clients are what a race needs; two
transfers give a payment and a refund, two payments, or a payment reversed and
made again. `Clients` and `Charges` are symmetric (no definition orders them, and
that run checks no liveness). The card run stops when no transfer id is left and
nothing else may be done, so it does not check for deadlock; nor do the calendar
runs, which stop when the requests are used up. The two others do, with an
explicit step for the finished state.

A new connection asks for the sync of every card, so that one change already
gives a sync that reads the old amount, one that waits and one that reads the new;
two connections give a calendar that is used again or replaced; two calendars
give one that is created again, and a second loss of it inside the loop, where
creating another one fails. With two cards the safety invariants hold too, but
`EverySyncAnswers` takes longer to check than a run may; such a check is what
showed that it must except `clobbered`, since a stale copy saved by a request
outside the lock can take a card out of the loop.

On a page two requests are what crosses: an old read and a new one, a save and the
read after it, two payments. Two changes let a list be one or two behind and tell a
repeated save from a single one (`MonthPages` has one, since its properties compare a
list with the last change only, and two writes of a bill); two keys make the wrong one visible; two filters
tell the remembered from the default. Two records are the one a dialog is for and
the one it must leave alone. The slots are symmetric in every such run, and records,
keys, rows and years where no definition orders them. `AdminPages` checks a page of
each kind: the others have the same hook and dialog up to the names of required
fields. The pages' runs stop when the changes are used up and nothing is under way,
so they do not check for deadlock, except `DetailPanel`, where a click is always
possible.

For a holding three dates give a change before, at and after a disposal; three
transactions give two lots and a sale of them, or a lot and two sales; one split
is before, between or after them. Lots of one and two units give a sale that takes
part of a lot and a sale that takes of two. Two
transactions on two assets are what both halves of a merger can disturb, and a
third would be a case of the run with one asset; transfers out, which consume units
without a record, are there. Two assets also are what a change of the method may reach
in part, and the one retyped transaction is what a restart gives a record of another
method than the broker's, which `MethodDescribesHistory` excepts. There is one pair of linked
records: two mergers in a circle carry ever more units, so that their states have no
end. A price of 12 or 24 can be halved twice; where the model rounds, it rounds in
both of the computations that are compared. `Assets` are symmetric; the ids are not,
since they order a day. A correction is always possible, so these runs check for
deadlock.

Fairness. `DebouncedJsonStorage`: weak fairness of the cycles as a whole (the
thread pool runs tasks, timers fire), of the flush's return and of the process's
end once the host is stopping; nobody is obliged to write or to stop.
`JsonRepository`: weak fairness of each request's steps, which is enough for the
gate because requests are finite, and of the restart. `CalendarSync`: weak
fairness of the steps of the syncs (background tasks run, and every call of the
provider ends); nothing is assumed of users and of the requests outside the
lock. The number of requests is bounded, so no sync waits for the lock for ever.
The front end's modules state no fairness: a browser need not get an answer, and no
user need click. What "it ends" means there is said as safety: whatever is loading,
saving or disabled waits for a request that is under way, and each request has steps
for success and failure (`LoadingIsAnswered`, `SavingIsAnswered`). `Holdings` has
none either: its properties are of safety.

## Findings

Two runs end in a violation of something the documentation or the code says.

* `ExpenseRecordedOnce`: `MensaisService` checks that a bill is unpaid before the
  gate and not inside it; the page's one `updatingStatusBillId` is cleared by
  another bill's answer, which enables the prompt again. Two payments record two
  expenses.
* `OneRecordPerDisposal`: a buy revised into a sale after every disposal has no
  record, since the regeneration starts only for dates that a disposal has reached;
  a sale revised into a buy may keep its own (`Asset.cs:275`,
  `DisposalRecordRegenerator.cs:52`). The next start gives the first one a record at
  the average cost, whatever the method.

More was seen while modelling, in behaviours the models have; a property that says
so was checked once and is not kept as a run.

* The flush waits for the cycle started last, not for the follow-up that a save in
  flight will start: a graceful shutdown may leave the newest document unsaved
  without a timeout or an error (`DebouncedJsonStorage.cs:120`).
* A sync under way while the user disconnects saves the connection it loaded, and
  the credentials file is back (`CreditCardCalendarSyncService.cs:342`).
* `useMonthly.ts:190` takes answers in the order they arrive; the month before last
  may stand under the month selected (`ShownIsOfKey` excepts requests that overlap).
* A sale entered after a later buy is averaged over it (`Asset.cs:208` passes every
  transaction), until the next regeneration (`RecordsAreCurrentUnlessOutOfOrder`).
* The replay takes every sale out of the oldest lots, also those that named others: a
  lot that was sold is offered and accepted again while one that was not counts as
  gone (`OpenLotTracker.cs:120`; the property about lots is of FIFO only).
* Deleting or revising a split, a merger or a spin-off looks for no sale that needs
  it (`Asset.cs:411`); at the average cost it is left uncovered
  (`UncoveredOnlyByCorporateAction`).
* What a merger carries is computed once; a backdated change of the source leaves the
  target as it was (`CorporateActionService.cs:133`). A spin-off has the same with
  its cost.
* The form's lots are replayed without corporate actions (`NavigationService.cs:204`),
  the check of the sale with them. After a split it shows the old quantities and lets
  no more be named; carried lots are not shown.
* A request that looked its entity up before another request's rollback changes the
  old graph and is answered as saved (`CashFlowJsonRepository.cs:111`).
* Two simultaneous payments of a statement both succeed, and the first payment's
  transfer is linked by no statement (`CardStatementService.cs:74`;
  `PaymentsMatchStatements` excepts requests that race).
* Deleting the credit refund of a paid statement can leave a payment that the
  ledger's walk does not reach (`CardStatementLedger.cs:91`).
* A card that has nothing due any more and no recorded event reads as synced while
  the calendar still shows its event (`CreditCardCalendarSyncService.cs:231`).
* A sync that has to create the calendar again may end without an answer; the card
  reads as syncing until its next save (`CreditCardCalendarSyncService.cs:318`;
  `EverySyncAnswers` excepts it as `unhealed`).
* `BrokersPage.tsx:65`: after a rename is answered its dialog's target is set,
  whichever dialog is open by then; the next submit there goes to the other broker
  (`SaveKeepsToItsRecord` excepts dialogs dismissed while saving).
* `useTaxWorkbook.ts:109`: a workbook that arrives late stands under another year
  (`WorkbookIsOfSelectionUnlessRaced`).
* `useCredits.ts:107`: the filters are remembered in the mounted tab's state, and
  the next selection unmounts it (`DetailPanel.tsx:48`); a node's filter outlives a
  second click on it but not a visit to another node.
* `useAssetSummary.ts:111`: the first read of an asset and the one after its price
  are taken in the order they arrive, so that the valuation from before the price
  may be the one that stays.
* `CorporateActionService.cs:87`: an update of a split does not look at the type of
  the action that has the id; sent for half of a merger it would leave the other
  half alone. The form sends it for splits only.
* `Transactions.cs:99`: recomputing the position sets the realized gain to zero, and
  a change that no disposal is due for does not set it again.
* The retries after a concurrent edit that the document on corporate actions
  describes (P53, line 111) are not in the code.
* `DividendAttributionCalculator.cs:30` and `SharesForDividendBackfill.cs:45` replay
  without corporate actions, like the form's lots.
* `DashboardPage.tsx:19`: when the reporting currency cannot be read, the panels
  that depend on it load for ever (`LoadingIsAnswered` excepts it).

Two more were seen in the code and have no run, because one method shows them: the
error of a failed save stays in the sync status for ever after
(`DebouncedJsonStorage.cs:220`), and disconnecting with an expired token leaves
the credentials file when the refresh fails (`CalendarIntegrationService.cs:270`).

## Proofs

| Theorem | States |
|---|---|
| `Persistence_proofs!TypeCorrect` | `Spec => []TypeOK` |
| `...!SavesStayCoherent`, `StatusIsTrue` | `SavesCoherent`, `IdleMeansSaved` |
| `...!Implementation` | `Spec => Document!Spec`: the refinement of `DurableDocument` |
| `Persistence_proofs!RepositoryTypeCorrect`, `MutualExclusion`, `FileStaysWhole`, `MemoryFollowsFile`, `AnswersAreTrue` | `RepositoryTypeOK`, `OneInside`, `FileIsWhole`, `QuietMeansSynced`, `AnswersStayTrue` |
| `CardStatements_proofs!TypeCorrect`, `PaymentsAreLinked`, `PaidStatementsStayFrozen`, `DueIsStored`, `MoneyMovesOnlyItsAmount` | `TypeOK`, `PaymentsMatchStatements`, `PaidStatementIsFrozen`, `DueHasStatement`, `MoneyMovesItsAmountOnly` |
| `CalendarSync_proofs!TypeCorrect`, `EventsAreSingle`, `SyncedIsCurrent` | `TypeOK`, `OneEventPerCard`, `RecordedEventIsCurrent` |
| `DetailPanel_proofs!TypeCorrect`, `ListIsOfSelection`, `QuietListIsCurrent`, `OneFormOneSave`, `HoldingsRevalued` | `TypeOK`, `ShownBelongsToSelection`, `ListIsCurrentWhenQuiet`, `OneFormOneRecord`, `HoldingsAreRevalued` |
| `AdminPages_proofs!TypeCorrect`, `DialogsAreAnswered`, `SavesKeepToTheirRecord`, `ListFollowsServer`, `SavesTakeNothingBack` | `TypeOK`, `SavingIsAnswered`, `SaveKeepsToItsRecord`, `ListIsCurrentWhenQuiet`, `EditsBuildOnLatest` |
| `WebPages_proofs!TypeCorrect`, `OnlyTheLatestIsShown`, `PanelsAreAnswered`, `WorkbookIsOfSelection`, `VersionsOnlyGrow`, `SettingsFollowServer` | `TypeOK`, `ShownIsAsked`, `LoadingIsAnswered`, `WorkbookIsOfSelectionUnlessRaced`, `NeverGoesBack`, `SettingIsCurrent` |
| `MonthPages_proofs!TypeCorrect`, `ListOfItsKey`, `SavedOnceAtATime`, `ConfirmedWasAsked`, `OneExpense`, `BillsAreCurrent` | `TypeOK`, `ShownIsOfKey`, `OneSaveAtATime`, `ConfirmedIsWhatWasAsked`, `ExpenseRecordedOnceUnlessRaced`, `BillsAreCurrentWhenQuiet` |
| `Holdings_proofs!HoldingsTypeCorrect`, `EveryDisposalHasOneRecord`, `HistoryFollowsTheMethod`, `HalvesStayLinked`, `RecordsStayCurrent`, `HistoryIsKept`, `SalesStayCovered`, `LotsAndPositionAgree`, `NoLotIsConsumedTwice` | `TypeOK`, `OneRecordPerDisposalUnlessRetyped`, `MethodDescribesHistory`, `LinkedHalvesAgree`, `RecordsAreCurrentUnlessOutOfOrder`, `OnlyEarlierChangesRewriteHistory`, `UncoveredOnlyByCorporateAction`, `OpenLotsAreThePosition`, `LotsConsumedOnceUnderFIFO` |

They hold for every value of the constants: any number of writes and retries, of
requests and crashes, of clients, charges, months and transfers, of cards,
connections and calendars, of assets and requests of the detail panel, of
records and requests of any set of administration pages, of months, suggested rows,
bills and requests of the cash flow pages, of assets, ids, dates, amounts and ratios. Those of
`DebouncedJsonStorage` other than `TypeCorrect` assume `~GapOutlastsWindow`.

*DebouncedJsonStorage.* `IdleMeansSaved` is not inductive: that a save ends with
`dirty` clear says nothing unless what it carried was the newest document when
it began and no other save is running. `SavesCoherent` says so, and the proof
adds which cycles may be between their check and their save. The refinement
follows: only the end of an attempt changes the remote file, and a coherent save
carries a document no older than the file's.

*JsonRepository.* The inductive invariant says, for each place inside the gate,
how graph, serialized document, rollback copy, staged file and file are related;
outside it they agree. The answers follow because a saved request's change was in
the file when it was answered, and every later document is made from a graph
that contains it.

*CardStatements.* The invariant adds to the properties what a pending request
knows. Some of it survives every step of other clients (`Held`): charges are never
settled again and ids never used again, so that a pending unmarking names no
transfer but a payment of its month, and a pending refund deletion none that is a
payment. The rest is true until another request is carried out (`Fresh`). The
conjuncts of `PaymentsMatchStatements` that do not mention `raced` hold however the
requests race. `PaidStatementIsFrozen` needs a second invariant beside it: what a
request that nothing has overtaken has checked of the paid statements (`Checked`);
carrying one out makes every other stale, so that it is kept by validating alone.

`DueHasStatement` and `MoneyMovesItsAmountOnly` are about what the ledger computes: a
recursive function over the months (`Walk`) and sums over sets. Neither needs an
induction theorem with an operator parameter: a set of numbers that is not empty has a
least element (`LeastNatural`, from the library's well-founded induction), which gives
induction over the members of a set (`SetInduction`, `MonthInduction`), and with it that
the recursions have a solution (`WalkExists`, `SumExists`), what a row is (`WalkRows`)
and that a sum does not depend on the order it is taken in (`SumTakes`, `SumUnique`).
Charges need not be finite, only those that were made are (`FewMade`). A month without
records has nothing to pay (`DueNeedsRecords`), and one with records has its statement
(`Recorded`). A payment leaves its month's row with the credit it had, none, so that the
later rows stay (`PaidRow`). A refund counts in its month: from there on at least as much
is to pay and at most as much credit is carried (`LaterRefund`), so that the check that
no amount rises leaves them all as they are; one before the first month with records
would only add to the credit (`EarlyRefund`), which the check on the credit at the end
does not let pass. That a request which nothing has overtaken still has the amount it
was validated for is the invariant `FreshArePriced`.

*CalendarSync.* `OneEventPerCard` is not inductive: the step that creates an event
must know that the card has none. The invariant adds that a sync about to create
one holds a connection whose calendar has no event of its card, which stays true
because only the sync inside the lock creates events, while everybody else at
most removes them; and what the sync has in hand at each of its places.

`RecordedEventIsCurrent` speaks of the moment when all is quiet. Before it, the
invariant (`Accounted`) says that a card which reads "Synced" either has its event, or
is to be read (it waits for a sync, the loop is to visit it, its change triggered
none), or is in the hands of the sync. The last must survive a call that finds its
calendar or event gone and cannot create another: it may leave the card as it was
only since the connection's own calendar is gone by then. That needs to know that the
call is to the calendar of the connection (`Linked`), that the event of a "Synced"
card goes with its calendar only (`Kept`), and that no two cards are recorded with one
event (`Mapped`).

*DetailPanel.* No hook compares an answer with what is selected, so the invariant must
say why none arrives for another node: every request that somebody waits for (`Owned`)
was sent by the tab that is mounted, and a list tab's or the holdings' for the selected
node; what an unmounted tab has sent is waited for by nobody. With no overlap and no
lost answer at most one request is under way and its answer, once there, is what the
server has (`ListCurrent`, `HoldingsFit`); a request of a tab that is gone, which may still
change the asset, therefore counts as an overlap for the tab that is mounted next. Of a
form that was not abandoned it says that one save at most is under way, that the form is
saving as long as it is, and that the form has been recorded only when it has been
answered (`OneSave`); of the holdings, which rows a run that is not finished has settled
(`RowsFit`). An orphan may also change an asset while a form is open: then the form's
count still does not exceed the asset's, which is what keeps it typed. The bound on
changes is one per asset, so that no step needs the sum of a function.

*AdminPages.* That a dialog which is saving has a request under way says nothing of
the step that closes it: the invariant (`Awaited`) adds that the request is its own,
and that no two requests are a dialog's. `Deactivating` says the same of the question,
which has no such mark: at most one deactivation is under way, and no page has both
it and a form open. `SaveKeepsToItsRecord` needs to know what is under way when an
answer re-targets the dialog: as long as none was dismissed while saving, the one
save under way is the open form's, for the record the form was filled from
(`Targeted`).

`ListIsCurrentWhenQuiet` and `EditsBuildOnLatest` share a second invariant (`Current`).
Without an overlap or a lost answer at most one request is under way (`Alone`), so what
it read is what the server still has (`Fresh`), and as long as it has neither changed the
server nor is about to bring the list, the list is the server's (`Shown`). A dialog that
was not opened early is therefore filled from the last version, and stays so unless a
save was carried out whose answer is about to close it (`Filled`); that no other dialog
is open then is `Beside`. A fetch ends what an overlap or a loss has done, and the
invariant has to hold again from there: a dialog that was opened meanwhile counts as
opened early.

*WebPages.* The lemmas are about one resource: at most one of its requests is the
latest, a loading resource has one (`Tidy`), the latest request and the data that is
shown are about one key (`About`), and no data is newer than what the latest request
will bring (`Ordered`). The invariant says that the panels of the page are about the
page's key; a panel whose key does not change with the page's, such as the dashboard's
currency, needs that it never reads by it. `Ordered` holds only where nothing is
written past the resource, which is why `NeverGoesBack` excepts the settings. The tiles
of the dashboard are skeletons also when nothing is loading, so that
`LoadingIsAnswered` needs to know that they were read since there is a currency
(`TilesRead`). For the tax page a request that did not overlap another is of the
selected year, and below the bound there is always a number for the next one, by the
pigeonhole theorem of the library. `SettingIsCurrent` has an invariant of its own: a
panel whose requests did not overlap has at most one read or write under way, which will
bring, or has made, the server's version (`OneUnderWay`), and has that version itself
while the one under way has changed nothing yet (`UpToDate`). A write that fails before
it was carried out therefore leaves the panel right, and a retry with nothing else under
way makes it right again.

*MonthPages.* One invariant for the pages with a list, one for the bills. Of the list it
says what an answer will do to it: the latest request is of the key (`LatestOk`); a
request that has the page to itself is of the key and, once it has read, has every change
(`AloneOk`); and when nothing under way will have the list read again, the list is the
server's (`CurrentOk`). Of the form, that what is saved is what is open, unless the form
was dismissed while saving and its `isSaving` is not latched (`SavesOk`, `AskedOk`); of
the panel of suggested values, that it waits for its own run (`RunsOk`). For the bills
`ExpensesOk` adds to the property what a payment between its check and its application
relies on: a bill that is there and not paid has no expense, nor has one whose payment
was checked, and no two payments are of one bill. The attempt at this proof found an
error of the model: a bill that was added could take the name of a deleted one, and with
it that one's expense and the stale calls for it, while the code gives it a new Guid
(`NewBills`).

*Holdings.* A regeneration repairs what lies after its anchor and touches nothing
before it. The key lemma (`RegenerationRepairs`) says so: a holding in which every
disposal either has its record or is due, and nothing else has one unless it is due to
be retired (`IsRepairable`), comes out sound. One lemma per operation of `Asset` then
shows that what it hands on is repairable, or, where it skips the regeneration, that
nothing was due. The invariant adds that an id is in one asset only: a deletion ends
the exception for a retyped id, which must not lift it for another holding. For
these the replay's arithmetic is not opened, so they hold whatever a cost basis is;
they need only that a record carries its disposal's date and quantity and the method
(`CalculatedRecord`), and that a record which is computed again from what it says of its
lots comes out the same (`CalculatedAgain`).

`RecordsAreCurrentUnlessOutOfOrder` compares a record with a replay of today's steps
without saying what either is. Each operation has a lemma (`...Replays`) that relates a
record to the one it replaces (`IsReplayed`): it is current, or it is the same record,
which was stale already; and it asks for the same lots. A record that is computed is
current. One that is left alone is as current as it was, since its disposal lies before
the anchor, the steps before the anchor are the same (`SameBefore`), and what a disposal
is computed from is dated no later than it (`PrecedingBefore`). What a regeneration
skips has no record, so that only a disposal that is appended ahead of steps of its own
date is excepted (`RecordsFollow`). `OnlyEarlierChangesRewriteHistory` follows: where
nothing changed up to the date of a record, the old and the new one are both current
and computed from the same steps for the same lots, hence equal. The attempt at this
proof found that an id must differ from the `NoSeed` that stands for no id, or a
record is computed again without its lots; the assumption now says so, as a Guid is
never the code's `null`.

`OpenLotsAreThePosition` and `LotsConsumedOnceUnderFIFO` are about what the replays
compute. They need one invariant more (`AllCounted`): a holding has finitely many
steps, and the quantity of a corporate action, which for a merger is itself the result
of a replay, is a number. `FoldLeft` is opened once, as the recursive function over
places that it is (`FoldedIs`), and the merge once, as the order by date, rank within
the date and id; from then on a replay is the last step applied to the replay of the
others (`ReplayLast`), and what holds of no steps and with one more step behind holds
of all (`StepsInduction`). The library's induction theorems take an operator, which
the provers cannot instantiate; here the induction is over a set, the parts of a
history that have the property.

The lots hold what the position holds (`LotsHoldThePosition`): both add what is bought
or received, multiply by a split, lose all to a merger and keep all in a spin-off, and
a sale that is covered leaves both the same; a sale that is not leaves the lots empty
and the position negative, which is why the property excepts it. For first in, first
out the units of a lot are numbered, and a decrease takes those from what is left when
it comes down to what it leaves (`UnitsOf`). Decreases take units apart, all of them
among those bought (`TakenOnce`), and a record that is current consumed just the units
of its sale (`RecordTakes`). So together the records consume at most what was bought
(`ConsumedWithin`). That they are current is `RecordsStayCurrent`, on which the
theorem rests; it speaks of holdings that have no corporate action, since a split
rescales the units and the record keeps those of its day.

Every invariant and every safety property of a step that a run checks is thus the
statement of a theorem. Only model-checked: liveness (`EveryWriteSettles`,
`EveryRequestAnswered`, `EverySyncAnswers`), which is out of the provers' reach.

## Not modelled

Of holdings: tax classifications, credits, fees and withheld tax, moves and renames
of assets (a linked record keeps the old name), historic brokers, a merger of an asset
with itself, several entries of one lot in an allocation. Divisions round down to
whole units, where the code rounds in the last of 28 digits.

Kills of the remote variant (its file only changes by whole uploads); more than
one writer of the remote file; readers that see a graph that is rolled back
later; other cards and inactive accounts; dates inside a month; expenses paid
from a bank; the names of cards, by which lost events are found, and the cancellation
of a resync by its caller; a sync that reads a change whose save then fails. In the
front end: what the fields of a form hold beyond being valid, sorting, columns,
charts and themes; two browser windows other than as changes somebody else made; the
tree with its move dialog, the pots dialog and the two polling banners; leaving a
page while its requests are under way, other than in the detail panel. The rest of the system is listed in `PROJECT.json` with its status.

## Plan

1. `AccountReferences`: deletion and deactivation of accounts and cards against
   the records that refer to them; ordinary transfers.
2. `Pots`: balances of pots and reserve under concurrent requests; income and the
   month's controls.
3. Prices and exchange rates: fallback providers, caches that outlive the day.
4. `InvestmentTree` with `MoveAssetDialog`: a selection whose node is moved or
   deleted, composed with `DetailPanel`; the banners that poll.
5. A composition of `CardStatements` with `JsonRepository`'s rollback, and of a
   calendar sync with a change that is rolled back.
6. Theorems about these components; the replays of prices and pots can use the
   induction over a fold of `Holdings_proofs`.
