# rise-router in TLA+

rise-router is a gateway that resells model APIs: a Rust/Axum backend (`src/backend`, one crate per
domain, one process) over PostgreSQL, Redis and an S3 store, and a React console
(`src/frontend`). This directory holds TLA+ modules that model its backend, the TLC configurations
that check them, and theorems about them that TLAPS checks.

Contents: [the system](#the-system) · [plan](#plan) · [how to read the runs](#how-to-read-the-runs) ·
[task runtime](#the-task-runtime) · [settlement](#settlement) · [gateway](#the-gateway) ·
[pricing, conversions and streams](#pricing-routes-conversions-and-streams) ·
[catalogue and price book](#catalogue-and-price-book) · [month end](#month-end) · [invoices](#invoices) ·
[identity, customers, reports](#identity-customers-reports) ·
[what is only model-checked](#what-is-only-model-checked) · [findings](#findings) ·
[not modelled](#not-modelled) · [running it](#running-it)

## The system

Paths are relative to `src/backend/crates`. "Hard" names what makes a part difficult to test; the
hazards themselves, each at its line, are in `PROJECT.json`.

| Part | State it keeps | Operations | Hard | What makes it correct |
|---|---|---|---|---|
| **Task runtime** `task/` | `tasks`, `artifacts` rows; Redis lists `rise:tasks:queue` and `:processing`; in memory: the poller's batch and in-flight set | `POST/GET /v1/tasks`, cancel; recovery sweep, workers (BRPOPLPUSH, submit, LREM), poller, finalisers | restart at any await, cancel against submit against poll, rows that are stale when used, lost replies | an accepted task is not lost; charged at most once, and before it is Succeeded; a final status stays; every queued task ends |
| **Settlement and wallet** `billing/{settle,wallet,charge}.rs` | `usage_logs`, `wallets`, `transactions`, `api_keys.budget_used/status` | `ensure_funds`, `settle_chat`, `recharge` | concurrent transactions on one wallet and one key, pre-check before work and charge after, rollback | the balance is the sum of its transactions; each charged log is debited once; a key over its limit is Exhausted; overdraft is bounded by what is in flight |
| **Orders** `billing/order.rs`, `crm/recharge.rs` | `orders` | create, confirm, recharge for a customer | two confirmations at once | Paid exactly when credited exactly once |
| **Invoices, reconciliation** `billing/{invoice,reconcile}.rs` | `invoices`, `reconciliations` | create/issue/void, generate/lock | sum-then-insert; totals and detail read by two statements; Draft/Locked | invoiced ≤ paid; a Locked statement never changes |
| **Monthly report** `billing/email_cron.rs` | `cron_state` | tick, send | crash between sending and recording it | one report a month |
| **Relay** `gateway/relay.rs`, `route.rs` | none of its own; spawns settlements | route, retry, failover, stream, settle on drop | client disconnects, failover after a failure, streams cut short | a request is served by one channel and settled at most once |
| **Channel health** `gateway/health.rs`, `channel.rs` | `channels.status` | probe loop, automatic disabling from the relay, CRUD | probe results applied to a row changed meanwhile | a manual Disabled is not overridden |
| **Adapters** `gateway/adapter/` | stream transcoder state | OpenAI, Anthropic, Gemini conversions | events split over chunks | role first, one `[DONE]`, contiguous tool indices |
| **Catalogue** `gateway/{model,model_channel}.rs`, **pricing** `pricing/` | `models`, `model_channels`, `prices`, `discounts`, `groups` | CRUD, price resolution | check-then-act, ties and boundaries, versions | resolution is a function of the rows; versions are distinct |
| **Identity** `identity/` | `users`, `organizations`, `api_keys`, `phone_codes` | send code, login, keys, organisations, roles | one code used twice, key states | a code admits once; only an administrator re-enables a key |
| **RBAC** `rbac/`, **CRM** `crm/` | roles and grants; `customer_assignments`, notes | grant, revoke; assign, onboard | concurrent reassignment | one active assignment per customer, equal to its owner |
| **Reports** `report/`, **margin, export, admin reads** | saved definitions | queries | – | read-only |
| **Core, server** `core/`, `server/` | configuration, pools | start-up wiring | – | – |
| **Support** `support/`, **console** | – | stub; views over the API | – | – |

How they interact: the relay and the task runtime authenticate with `identity::verify_key`, check
`billing::ensure_funds`, route with `gateway::resolve_route`, and charge through
`billing::settle_chat`, which prices with `pricing`. Orders and CRM recharge credit the wallet through
`wallet::recharge` inside their own transaction. Everything else meets only in the database. The server
(`server/src/main.rs:58-72`) starts the report cron, the health loop and the task runtime in the same
process, so they all restart together; the code is written for one instance and the models assume
one.

## Plan

1. **TaskRuntime** with **TaskLifecycle** (abstract) and the proofs of both. *Done.*
2. **Settlement** with **Ledger** (abstract) and its proofs. *Done.*
3. **ChannelHealth**, **Relay**; **Routing**, **Pricing** as functions over bounded inputs. *Done.*
4. **Invoicing**, **Closing** (reconciliation), **ReportCron**, **Sessions**, **Crm**. *Done.*
5. **Transcoder**, **Conversion**, **Catalog**, **PriceBook**, **Rbac** with **Reports**. *Done.*
6. Proofs of every safety property of TaskRuntime, Settlement, Relay, ChannelHealth, Catalog, PriceBook, Invoicing, Closing,
   ReportCron, Sessions, Crm and Reports; of prices, routes and conversions as functions. *Done.*
7. *Left:* delivery of webhooks and `webhook_state`; currencies.

## How to read the runs

Components that share no modelled state are checked side by side in one run: the variable `part` is chosen at the
start and says which of them the behaviour is of, and the others keep their initial state. A part may also be a second
instance of one module with other constants (`INSTANCE … WITH`), where one shape of instance would be too large for
every question at once: many requests on one row, or few requests on many rows. Such instances are
bounded by a condition on the next state (`OneTaskOrSmall`, `AboutModels`, `Races`, `Guesses`, …, all defined and
commented in the MC module); a condition bounds only what clients, administrators and failures do.

A run names few properties; most of them are conjunctions of named parts (`TablesHold`, `BooksAreTrue`, …), defined at the end of the
component's module, or of the MC module where they are about an instance, with the code each is about. The parts are defined and explained in the component's module.

Each property of a passing run comes with a *mutant* in `PROJECT.json`: a *slip*, an operator that stands before the
definition it alters, changes one thing the way a plausible edit of the code would. With the slip in place of the
definition TLC reports the property violated. No action uses a slip.

## The task runtime

### Modules

- `TaskLifecycle.tla` – what `/v1/tasks` promises: Absent → Queued → Running → one final status, one
  charge at most, no charge before the start, no Succeeded without a charge.
- `TaskRuntime.tla` – `crates/task`: `api.rs` (submit, cancel), `worker.rs` (everything), the vendor.
- `MCTaskRuntime.tla` – symmetry sets for TLC.
- `TaskRuntimeProofs.tla` – theorems.

### State and actions

| Variables | Code |
|---|---|
| `status, vendorTaskId, pollCount` | columns of `tasks`; `"Absent"` before the insert |
| `billed` | how many `usage_logs` rows carry `rr-task-{id}` |
| `artifacts` | rows of `artifacts` for the task |
| `queued, processing` | the two Redis lists; LPUSH/BRPOPLPUSH make the first a FIFO sequence, the second is only appended to, read whole and removed from by value, so it is a bag |
| `upstream, jobTask` | the vendor: external, modelled from `TaskAdapter` (`adapter.rs:53-64`) |
| `enqueue` | how far the submit handler of a task got |
| `sweep, sweepTodo, sweepTask` | `recovery_sweep`, started by `spawn_task_runtime` before the workers |
| `wpc, wtask, wjob` | `worker_loop` / `process_submit`, position and locals |
| `batch, batchCount` | the rows `poller_loop` read, copied |
| `active`, `ppc, ptask, pcount` | the in-flight set and the `process_poll` routines with their copied row |
| `cancels` | spawned upstream cancellations that have not run |
| `okHooks, failHooks`, `crashes, faults` | history: webhooks spawned, restarts and failed calls |

An action is what one routine does between two awaits that other routines can notice. A statement
on the database that is conditional (`UPDATE … WHERE status = …`) is one action with its outcome; the
code after it up to the next await belongs to the same action (spawning a webhook, returning from a poll
routine and so leaving the in-flight set). Submission is `Insert`, `Enqueue`; a worker runs `Pop`,
`Check`, `Submit`, `Commit`, `Ack`, with `SetFailed` for any error; the poller `PollerRead`, `PollerSpawn`;
a routine `Poll`, then `Bump`, `FinalizeFailed`, or `Store`, `Lookup`, `Settle`, `Flip`.

Failure. Every call to the database, Redis, the store or the network may fail (`Fault`), and a call
that writes may fail after its write was applied. A client that disconnects drops its handler: the
LPUSH or the spawned cancellation is then lost. `Crash` clears everything that lives in the process, at
any point, and restarts with the sweep. The vendor may refuse, lose a reply, finish, fail or never finish.

Abstracted. Every task has a webhook URL, so a spawned webhook is counted; the delivery (URL and DNS
checks, retries, `webhook_state`), the download and upload inside `store_artifact`, request validation and
`compute_usage` are data. A channel deleted under a Running task can make any poll fail (`"fail"` in
`Poll`). Price resolution and settlement are the one step `Settle`, a transaction that commits or not.
`Slot` bounds the poll routines the model has room for; the code has no bound but BatchLimit rows per read.

### Runs

| Run | Instance | Shows |
|---|---|---|
| `runtime_races` | either 1 task with 2 workers, 2 routines, 3 jobs, 2 crashes, 1 fault, or 2 tasks with 1 worker, 2 routines, 2 jobs, 1 crash, 1 fault and no poll that only counts; PollMax 2, BatchLimit 1 | no id lost, single charge, webhooks that agree with the status, poll budget, cancelled jobs reach the vendor, single submission without restarts, and `TaskLifecycle` (with it: types of the rows, final statuses, Succeeded ⇒ charged) |
| `runtime_ends` | 1 task, 2 workers, 2 routines, 2 crashes; or (`Narrow`) 2 tasks, 1 worker, 1 routine, no crash; BatchLimit 1, PollMax 2, fair | a queued task ends, whenever the process is restarted, and although an older task fills the batch |
| `runtime_lost_enqueue` | 1 task, 1 crash, 1 fault, fair | finding 1 |

Why the bounds are enough. Rows interact only through the two lists, the batch and the in-flight set:
one task shows every race on a row, two tasks every race on the lists and the batch. Two workers and two routines
are the most that can hold one id (an id is queued twice after a restart; a routine and its successor). Two
crashes let a restart happen during the recovery from one; one fault is enough to enter each error path,
and the faults of different calls meet in `runtime_races` across crashes. PollMax 2 has a poll before and
one at the limit; the third job is a second resubmission. Where more is wanted, the
theorems below hold for every instance.

Deadlock is checked in every `runtime_` run: the poller always has a next read.

Properties worth a note. `WebhooksAgree` allows the "succeeded" webhook twice and for a Cancelled task:
that is what `finalize_succeeded` does (it sends however many rows its update changed), and the bound of
two is the point – a batch is read once and each task in it is spawned once, so a routine's finished work
can be repeated from the copied row once, not for ever. `PollBudget` uses the same fact: `poll_count`
is compared in the copied row but incremented in the table. `CancelReachesVendor` holds while nothing fails; after a crash or a
failed call the job may leak, as `api.rs:188` says ("best-effort").

### Fairness

`FairSpec` assumes weak fairness of each routine of the process: the handler after its insert, the sweep,
every worker, the poller, every poll routine. Tokio runs a routine that can run, each loop
(`worker_loop`, `poller_loop`) goes on after an error, and the steps of one routine are sequential, so
weak fairness of their disjunction is what the runtime gives. Not assumed: that clients call, that the
vendor ever finishes, that anything crashes, that a spawned cancellation is performed. Crashes and faults are bounded by
MaxCrashes and MaxFaults: a vendor whose poll errors for ever is outside, and there the code does keep the task Running
for ever (`worker.rs:338-342` leaves `poll_count` alone).

### Theorems

All hold for every value of the constants that `RuntimeAssumption` admits (task ids are natural numbers,
finitely many; `None` is neither a task nor a job; PollMax and BatchLimit are positive).

- `TypeCorrect`: `Spec => []TypeOK`, by its own induction.
- `NothingLost`: `Spec => []NoLostTask`. Not inductive alone: between LPUSH and LREM the sweep relies on the id
  being in the queue (`SweepKnows`), a worker that removes an id relies on the row being no longer Queued
  (`WorkersKnow`), and an id in a list must belong to a row (`EveryIdHasRow`, or a fresh insert could find
  an older LREM waiting for it). Their conjunction is `DeliveryInv`.
- `NoDoubleCharge`, `SucceededWasBilled`, `OneFlightPerTask`: from `BillingInv`. `Settle` charges
  unconditionally; that it finds the task uncharged is known since `Lookup` (`FlightsKnow`), and stays true
  because no other routine works on the task (`SingleFlight`), because a routine is in the
  in-flight set until it returns (`FlightsActive`). `StartedHasJob`, `FlightsStarted` give the second half of
  `SucceededIsBilled`.
- `FinalStaysFinal`: `Spec => FinalIsFinal`, and `RefinesLifecycle`: `Spec => LifecycleSpec`. Both go
  through `RowStep`: with `BillingInv`, each of the runtime's steps does one of five things to
  one row, or nothing.
- `HooksTellTheTruth`: `Spec => []WebhooksAgree`. The bound of two is not inductive: `OkChances` adds to the webhooks sent one
  for a routine at work and one for a row still in the batch. Once a status is final no row is copied again, so the sum never grows.
- `PollsStayInBudget`: `Spec => []PollBudget`. A copied `poll_count` is at most one poll behind, and exact while the routine that may
  still count that poll is at work (`CopiesFresh`, `FlightsFresh`).
- `CancelsReachTheVendor`: `Spec => []CancelReachesVendor`. While nothing fails, a job that runs is known to a cancellation on its way, to
  the worker about to commit it, or to its row, which is then not Cancelled (`JobsKnown`).
- `TasksSubmittedOnce`: `Spec => []SubmittedOnce`. Without a restart an id is in one place (`InOnePlace`), the list has no id twice
  (`QueuedOnce`), and the sweep, which has run on empty lists, pushes nothing (`NothingToSweep`).

## Settlement

### Modules

- `Ledger.tla` – what a wallet promises: entries are only appended, each carries the balance it
  leaves, and no order or usage log is entered twice.
- `Settlement.tla` – `billing/{settle,wallet,order}.rs`, the admission of calls (`identity::verify_key`,
  `ensure_funds`), the recharges (`billing/lib.rs`, `crm/recharge.rs`) and the edits of keys
  (`identity/api_key.rs`).
- `MCSettlement.tla` – one organisation and one key for TLC, and symmetry.
- `SettlementProofs.tla` – theorems.

### State and actions

| Variables | Code |
|---|---|
| `balance`, `entries` | `wallets.balance`; the `transactions` rows of an organisation in the order of their ids, with what they refer to, their amount and `balance_after` |
| `logged`, `charge` | which calls have a `usage_logs` row; its `charged_amount` |
| `live`, `used`, `limit`, `keyStatus` | `api_keys`: which rows exist, `budget_used`, `budget_limit` (0 for NULL), `status` |
| `order`, `orderAmount` | `orders`; `"none"` before the insert |
| `holder` | the lock of each wallet, key and order row |
| `after`, `usedAfter`, `statusAfter` | what an UPDATE computed and its transaction has not committed |
| `pc`, `inHand`, `credit` | where a call or a clerk's request is, the order and the amount it works on |
| `manuals`, `edits`, `faults` | counters of the bounds |

An action is one SQL statement. The code runs under PostgreSQL's READ COMMITTED: an UPDATE waits until nobody
holds the row and then computes from the committed row (`wallet.rs:3-4` relies on it), so `Lock` is a guard and
a computed value is kept with its transaction until `Commit` or `Post` writes all of it at once and gives the locks
back. A settlement is `Begin` (resolve the price, insert the log), `Debit` when the charge is positive,
`SpendBudget`, `Commit`; a confirmation `ReadOrder`, `Claim`, `CreditWallet`, `Post`; the other two recharges join at
`CreditWallet`, as they all call `wallet::recharge`. Edits of keys are single statements, which wait for the row too.

Failure. `RollBack` and `Abandon` stand for an error, a lost connection, a crash, a dropped handler or an overflow of
`numeric(18,8)`: the transaction writes nothing. A commit's reply may be lost. A chat call whose settlement fails is
never settled (`do_settle` logs the error); a task is tried again, after looking for its log (`Settled`).

Abstracted. Amounts are integers, multiples of 0.00000001. A wallet's row is created by whoever needs it with ON CONFLICT DO
NOTHING, which waits for a concurrent insert like an UPDATE, so an absent wallet is one of balance 0. `credit_limit` and
`frozen` are columns no code writes: their difference is the constant `Credit`. How `charge.rs` and `pricing` arrive at an
amount is data; that they may fail is `RollBack`, and a price missing for ever is outside `SettlementEnds`, as
every failure is bounded by MaxFaults. Organisations are Active and keys have not expired. A chat stream cut before its usage
arrives is `Serve` to `"unbilled"`. Two task routines never settle one task at once: that is `SingleFlight` of `TaskRuntime`.

### Runs

| Run | Instance | Shows |
|---|---|---|
| `settlement_money` | 2 chat calls and 1 task on one key, 2 of them in flight, charges 0 and 2, limit none or 2, 1 order, 2 clerks, 1 manual recharge, 1 key edit, 1 failure | orders credited once, logs debited once, budgets, the bound on overdraft, and `Ledger` (with it: running sums) |
| `settlement_ends` | 1 chat call, 1 task, 1 order, 2 clerks, 1 failure, fair | lock queues drain and a finished task is billed |

Why the bounds are enough. All of the code's conflicts are over one wallet, one key or one order, so one of each is the worst
case and another only separates the actors. Two transactions on a row are a conflict; the third call makes
`OverdraftBounded` see a call admitted after one has settled and with MaxInFlight reached. A charge of 2 against recharges of 1 takes a wallet below zero and a key
to its limit in one step; charge 0 takes the branch without a debit. The theorems below need none of these bounds.

Deadlock in TLC's sense is not checked: calls are made once, orders, recharges and edits run out, and the instance then
stops. That transactions do not wait for each other in a circle is `SettlementEnds`. `OverdraftBounded` is about what the
code allows, not what it prevents: `settle.rs:4-5` accepts an overdraft, and the property gives it its size, the charges of the calls
that were in flight together. The code itself has no limit on calls in flight; MaxInFlight is a bound of the model.

### Fairness

Weak fairness of the statements of a settlement and of a confirmation, each request by itself: a handler runs to its end, and
PostgreSQL serves the queue of a row. A lock is only waited for with the row held by a transaction that
itself goes on, so weak fairness is enough unless a row is taken again and again, which the finite number of calls excludes.
Nothing is assumed of clients, clerks, administrators or the upstream.

### Theorems

All hold for every value of the constants that `SettlementAssumption` admits: any sets of organisations, keys, calls, orders and
clerks (disjoint where a row or a reference must tell them apart), any charges in Nat with a largest one, which is positive (the column is
numeric(18,8)), positive recharges, at least one call in flight at a time.

- `TypeCorrect`: `Spec => []TypeOK`.
- `LocksHeld`: `Spec => []Locks`. The invariant the rest stands on: a call past its debit (`CallLocks`) or a clerk past its credit
  (`ClerkLocks`) holds the wallet's row and has computed the balance from the value that is still there; a locked key is locked by
  the call about to commit, which computed from the row as it still is (`KeyLocks`). `Others` says what a step leaves to
  the other transactions, `CallBalance` and `ClerkBalance` that only a holder writes a wallet.
- `BalanceAlwaysRunningSum`: from `Locks`, every entry is made with the right balance (`Entering`), and such an entry keeps the
  running sum (`SumEntered`).
- `AlwaysPaidIffCredited`: a claimed order is its clerk's alone and not yet Paid (`OrderLocks`), so what it enters is entered for
  the first time (`FirstEntered`, `OtherEntered`).
- `AlwaysLogIffDebited`: only a call that is through, or a task that does not know it is, has a log (`LoggedCalls`).
- `LimitAlwaysExhausts`: `Spec => LimitExhausts`, from `KeyLocks`.
- `ImplementsLedger`: `Spec => LedgerSpec`; that an entry is new comes from the two theorems before.
- `OverdraftAlwaysBounded`: `Spec => []OverdraftBounded`. Not more than MaxInFlight calls fly (`FewFlying`); a wallet is above
  −(MaxInFlight − s)·Most, where s are its calls that are past their check and not yet logged and Most is the largest charge: a call that
  passes the check finds the wallet positive, and a debit takes at most Most while one call leaves s (`WalletsBounded`, `KeysBounded`).
- `BudgetAlwaysSumOfLogs`: `Spec => []BudgetIsSumOfLogs`. The sum over a key's logs is the number of `Units` – pairs of a call and a
  unit of its charge – so that adding a log adds a disjoint block of known size; that the value the call computed is still right when it commits comes
  from `Locks` (`KeyHeld`).

## The gateway

### Modules

- `ChannelHealth.tla` – everybody who writes `channels.status`: administrators (`channel.rs`), the probe loop
  (`health.rs`), the automatic disabling that a request spawns (`relay.rs:260-300`), restarts.
- `Relay.tla` – one `POST /v1/chat/completions` from its routes to its settlement (`relay.rs`), with channels edited
  meanwhile, upstreams that fail in each way the code tells apart, a client that hangs up anywhere, and restarts.
- `Routing.tla` – the order in which candidates are tried (`route.rs`), used by Relay.
- `MCGateway.tla` – both side by side.
- `GatewayProofs.tla` – theorems about both, and about conversions (see the next chapter).

### State and actions

| Variables | Code |
|---|---|
| `status, autoBan, testModel, reason` | columns of `channels` the health code decides on |
| `phase, todo, probed, answer` | where `run_health_check_once` is: first the Enabled rows, then the CircuitBroken ones; the copied rows left, the row in hand and what its upstream answered |
| `rpc, rchan, rstatus, rban` | a request: its two reads of a channel, the copied `auto_ban`, the spawned update |
| `condition` | how the upstream of a channel answers now: what fails each layer of the probe, `slow`, `fine` (external) |
| Relay: `pc, order, rows, attempt` | the handler: candidates left of `weighted_failover_order`, rows of the second query, attempts of `send_with_retry` |
| `chunks, shown, scanned, shared, source` | the streaming body: `UsageScanner.usage`, `ScanShared.usage`, and whether the upstream is open |
| `settling, log` | `do_settle`, within the handler or spawned by the guard's drop; `usage_logs` rows |
| `received, worked, tried, reported, loopEdits, requestEdits` | history |

The loop and the relay decide on a copy and update by id. `UPDATE … WHERE id` that meets no row is an error and ends the
whole round (`RoundFails`); the next begins from the list again. A look-up of a test model that fails only skips its row (`Probe`). In Relay an error before the body is sent is retried
once (`ConnectError`), every other failure goes to the next candidate (`LostAnswer`, `ServerError`, `BodyLost`); a 4xx is the
answer. A streamed answer is settled by the guard from what the scanner saw. Admission is one refusal (`Refuse`):
its checks are those of `Settlement`. The candidates' priorities and weights are those of `Routing`.

### Run

`gateway`: one request over three channels (two usable, the second preferred by its route, the third for tasks only), two
pieces of output, two usages, one edit, one failed settlement or restart; and two channels with one request and one edit, or one channel
with two requests and two edits, one turn of the upstream, three conditions (an error that any layer reports, slow, fine).

| Property | Says |
|---|---|
| `BilledAsAnswered` | one `usage_logs` row at most, for the channel whose answer the client got, with the last usage it carried |
| `AnsweredIsSettled` | an answer is settled before it goes out; reported usage is settled however a stream ends (only a failed settlement or a restart loses it) |
| `InTurn` | no upstream gets a body twice; no candidate of lower priority before a higher one; no channel after the client has an answer |
| `Ends` | a routed request ends, and so does its settlement |
| `OperatorsWin` | a channel switched off is only changed by a writer whose copy is older than the switch; `auto_ban = false` vetoes automatic disabling, on the same condition |
| `HealthFollows` | a channel fine for good is not CircuitBroken for ever; one failing or slow for good ends up out of service and stays there |

Enough, because a request never looks at another and a channel's row is only written by id: two writers of one row are
each conflict, a third is another of the same kind; two usable candidates have a first and a next. The `Outdated` clause
of `OperatorsWin` is what the code gives: see finding 5.

Fairness. `ChannelHealth`: the loop (`LoopStep`), the error that ends a round (`RoundFails`, where it is not a
failure of the database), the spawned update (`Disable`): tokio runs a routine that can run, and the loop sleeps and goes on after an
error (`health.rs:78-95`). `Relay`: a handler once begun – every call to an upstream has the client's timeout of 120 s – the drop of
a stream at its end, and a spawned settlement. Not assumed: that clients stay, that administrators act, that upstreams
recover (`HealthFollows` is conditional on that).

### Theorems

`GatewayProofs.tla`. Of Relay, for any requests, channels, routes and usages that `RelayAssumption` admits: finitely many channels, routes to channels that
are rows, priorities and weights in Int, those of a route possibly NULL. `BilledOnceAsAnswered`, `AnsweredIsAlwaysSettled` (with the types) and
`AlwaysInTurn` are the three safety properties of the run. Requests share only the channel rows, which an order once drawn does not
look at again, so the invariant `RelayInv` is one of each request by itself (`RequestInv`), and `OneActs` reduces a step to the request that
makes it. Its parts: `Ordered`, the candidates left are different channels by falling priority – from
`OrderIsTiered`, what `weighted_failover_order` can return, for any weights and any draws; `Untouched`, none of them has seen the request but the one that is
answering, and none that has seen it ranks behind one that has not; `Answering`, what is known of the answer where the handler is; `Metered`, scanner, shared state and
the frames given agree; `Billed`, the row comes after the end, from what the answer reported. The step lemmas follow the life of a request:
`EntryKeeps`, `FailoverKeeps`, `DeliveredKeeps` and `UpstreamKeeps`, `StreamKeeps`, `AnswerKeeps`, then `SetStatusKeeps` and `RestartKeeps`.

Of ChannelHealth, as MCGateway runs it beside Relay, for any channels, requests, conditions and bounds: `HealthTyped` and `OperatorsAlwaysWin`, from
`HealthInv`. An automatic writer knows a copy of the row, so the invariant says what every copy in somebody's hand still means: it agrees with the row – the channel is not
Disabled, and `auto_ban` is set where the copy says so – or the row was edited since the copy was taken (`LoopKnows` for the rows of a round and the one
being probed, `RequestKnows` for a request between its reads and its spawned update). `StatusWrites` then reads the two promises off the only steps that
write a status automatically, the turn of the loop and `Disable`.

## Pricing, routes, conversions and streams

These are functions: a behaviour chooses an input and runs the code on it once, so TLC goes through all inputs of a bounded shape
and compares with a reference definition. Run `functions` (`MCFunctions.tla`) holds six instances.

| Module | Code | Inputs | Property |
|---|---|---|---|
| `Pricing`, `PricingCases` | `pricing/{resolve,lib,discount}.rs`, `billing/charge.rs` | 2 prices of two groups, a deleted one or the default, three windows, two versions; 1 price with 2 discounts of any scope, both kinds, stackable or not, two priorities; usages with missing and negative counts | `PricesAreRight`: the newest valid price of the caller's tier, never none while a default stands, the same in any order of rows that do not tie; the SQL conditions and the filters in memory agree; the discounts logged explain the factor; no discount raises a bill |
| `Routing`, `RoutingCases` | `gateway/route.rs` | 3 channels, Enabled or not, priorities and weights of channel and route, missing and negative ones | `ChannelsInTiers`: tiers by priority, everyone once, drawn in proportion to the weight, `pick_weighted` agrees with the shuffle |
| `Conversion`, `ConversionCases` | request and answer conversion in `adapter/{anthropic,gemini}.rs` | conversations of up to 4 messages, answers of up to 4 blocks | `ConversionIsFaithful`: nothing lost or reordered, results of a round of calls together and under the right names, the stream of an answer says what the answer says |
| `Sse`, `Protocols`, `Transcoder` | `adapter/sse.rs`, the three `SseTranscoder`s, `UsageScanner` (`relay.rs:480`) | 4 events cut anywhere by chunks; 2 events of which one is longer than MAX_BUF | `StreamIsFaithful`: the cut does not show, one end, arguments follow their call, billed usage is reported usage |

Why these are enough. A pick among rows compares two at a time, with the default as the third in reach; discounts
interact in pairs (two stackable ones multiply, of two others the higher priority stands). Three channels have a tier of two and another.
Four messages hold a round of two calls with both results, or two rounds of one. Two events on both sides of a cut show every
state of the buffer; four are a start, two blocks and an end.

Amounts. A percentage is in tenths and a factor a fraction of a power of ten, prices in thousandths of a yuan for a million tokens,
so that TLC computes exactly what `rust_decimal` does and `round_dp` is banker's rounding at eight places. Texts, images, arguments and ids
are references: the code copies them.

Theorems (prices and routes in `CatalogueProofs.tla`, conversions in `GatewayProofs.tla`; all of the specification of the run). The constants of
`MCFunctions` name what tables and conversations are made of; `PricesAssumption`, `RoutesAssumption` and `ConversionsAssumption` say of them only that
numbers are numbers, amounts are not negative, contents are sequences of parts, and None is no row and no usage. `Missing.tla` declares None once, for the modules
whose theorems need it to be one value.

`PricesAlwaysRight` is the whole of `PricesAreRight`, for tables of any length. `PricesInv` says that a bill is what the code makes of the
tables (`BillOf`); the rest is about one call. The code's filters are tables again, as functions of the places that stay, so nothing is
shifted: `BestOfTier` finds the newest price of the tier, of which `BestLastUnique` says that `max_by` has no other when rows do not tie;
`SqlAgreesOnPrice` and `SqlAgreesOnDiscounts` compare what the queries let through with what the filters keep; `ResolvedReordered` takes a
permutation of the rows. The factor is a product and an amount a sum over the places of a table, a fold that takes them in some order:
`ProductTakesAny` and `ProductReordered` say that the order does not matter, `ProductShrinks` that no discount makes a product larger, each by a smallest
set of places for which it fails. A discounted amount is then the smaller one before rounding, and `RoundOrder` says that rounding to even keeps
the order. The code rounds a discounted unit price to twelve places before it is charged; that is left out, prices having fewer.

`ChannelsAlwaysInTiers` is the whole of `ChannelsInTiers`, for any channels, priorities and weights. A place of a tier owns a stretch of the total as long as
its weight (`Shares`), and the walk over the cumulated weights ends at the owner of its target (`DrawnIs`): so exactly those with a weight can be drawn
(`DrawnHasWeight`), each for as many numbers as its weight (`DrawnByShare`), or the lowest id when there is none (`DrawsAre`). Who can be drawn is who
comes before all that are left (`DrawsLeads`), which makes the orders of the shuffle the enumerations in that order (`OrdersTiered`); that both orders
are total on candidates known by their channels gives `rank_routes` a result and every first draw an order (`SortedExists`, `DrawsStart`).

`ConversionAlwaysFaithful` is the whole of `ConversionIsFaithful`, for conversations and answers of any length. The code goes through messages, parts and events
one after the other: a fold, which the library defines by recursion over sets of places. `RunExists` and `GoesAlike` give such a recursion its one
value, and `RunStep` turns it into what the proofs use: with one element more, the function is applied once more. `SequencesAll` is then the induction, with a
set for the property instead of an operator: a set of sequences with the empty one in it that is closed under appending has all of them. Two lists are built in
step. For requests `AnthropicRight` and `GeminiRight` relate what has been said to what has been made of it, with two facts that a tool result needs:
that a message ends in results exactly when the last one said was a result (`Gathers`), and that a name looked up by call id is the one of the
turn being answered although ids come again (`NamesWell`, `TurnsNamed`). For answers `AnthropicSoFar` and `GeminiSoFar` say after each block how many texts and
calls the transcoder has sent, and that the indices of the arguments run along with the calls (`Sends`). `ConversionsInv` is these of the variables.

## Catalogue and price book

- `Catalog.tla` – deleting what other rows refer to: `gateway/{model,channel,model_channel}.rs`, `pricing/{group,price}.rs`,
  `identity/{organization,api_key}.rs`, with the foreign keys of `migration/`. A delete finds its row, counts the referring tables one statement at a
  time and deletes by id; a create looks up what it refers to and inserts. Between any two statements others run. `since`
  remembers what was inserted after a table had been counted.
- `PriceBook.tla` – the versions of one model's prices: `create` reads the newest version and inserts, `update` moves a
  validity, `delete` takes a row out; `models.billing_unit` may change; which price is billed is `Pricing!select_price`,
  of the rows in any order (`Current`: the query has no ORDER BY).

Run `catalogue`: three requests and two rows about a model, a channel and a group, or two requests and three rows about an
organisation and two groups; and, as the other part, two requests for prices of one group or the default, three prices, a correction and a change of
unit. A delete and two creates are the smallest case in which a delete has passed one count when a row of each table
comes in; the tables counted by one kind of delete never matter to another.

`TablesHold`: every reference has its target, and a table counted without a hit holds only later rows. `SweepsOnlyUncounted`: what a delete takes
along was inserted after it had counted that table (that it can take rows along at all is finding 6). `PricesTakeOver`: a version is
above all the creator could have seen; a price created alone and in the same unit takes over when it becomes valid; a group without its price falls back to the default.

Theorems (the first part of `CatalogueProofs.tla`, for any sets of models, channels, groups, organisations and requests): `ReferencesAlwaysExist`,
`CountsAlwaysHold`, `DeletesSweepOnlyUncounted`, `TablesAlwaysHold`. The invariant is `CatalogInv`: the state's functions have their domains, an idle
request holds nothing (`Clear`), counts left are sequences of tables, references exist, and `CountsHold`, which is the inductive form of the third
theorem: rows enter a counted table only through an insert, which every delete on its way records. `TablesHold` adds the types; for them a
delete counts the tables of its kind in their order (the counts left are always one of the suffixes of that list, `SuffixesShrink`), and a request that inserts
has drafted a row of its kind (`Drafted`).

`PricesAlwaysTakeOver` is the whole of `PricesTakeOver`, for any groups, requests, rows and times, from `BookInv`: the types, that a row's version is not above its
id, and `InsertKnows` – a request about to insert holds a version above every row of its tier that it has seen, which a correction in place and a deletion leave
alone and a row inserted meanwhile is not one of. What a group pays is a fact about one state: `SelectedIsBest`, what `select_price` returns
of any sequence of rows (that `max_by` has a result is `LastBestExists`), and `NewestIsSelected`, for every order of them (`OrdersAre`).

## Month end

- `Periods.tla` – months as pairs and instants as ticks; the bounds of a month, the month before, China Standard Time.
- `Closing.tla` – `billing/{reconcile,margin,admin_read}.rs`: `generate` (look for the row, totals, detail, then INSERT or an UPDATE
  conditioned on Draft, then a second read), `lock`, `get_one`, while calls are settled: a `usage_logs` row is stamped before its
  transaction and seen when it commits, possibly in the next month. A query selects rows by their place in the log (`Rows`); a sum is the number
  of units of the selected amounts (`SumOf`). The months asked for are those `parse_period` lets through.
- `ReportCron.tla` – `billing/email_cron.rs`, `email.rs`: the loop that wakes every minute, `should_send`, sending and then recording in
  `cron_state`; failing reads and writes, a mail server that takes a mail and reports an error, crashes, reports sent by hand.

Run `month_end`, at the turn of the year: two clerks with one month and two calls, or four calls and no clerk (for the sums), from
the last tick of December to the first of January; as the other part the loop from December into February, a month being four ticks, the
report due in the middle, two failures or crashes, one report by hand. Two clerks are every conflict on a row that is
unique by its period; two failures are a lost mail and a lost record of one month; three months have one whose predecessor was
sent, missed or sent twice.

`BooksAreTrue`: a total was true at some instant since it was asked for; the detail covers the total (it is read after it); the margin adds up to
the same figure by model, by channel, overall and by customer; who was answered with a locked row has the row that stands. `LockedFrozen`: a locked
row never changes. `MailsAreRecorded`: recorded means delivered, and a month is mailed again only for a record that was lost.
`DueIsSent`: a due report goes out while its month lasts.

Fairness: the loop's steps and the clock. A tick of the model is longer than the loop's minute, so time passes only when the loop has looked at it
without an error; failures are bounded.

Theorems (`MonthEndProofs.tla`): `MonthsDivideTime`: an instant lies in the bounds of exactly the month it falls in, for all
tick lengths – no call is in two months or in none. `LockedStaysFrozen` and `AnswersStaySealed` for any calls, clerks and months, from
`SealingInv`: the functions' domains, a request that locks or reads again is about a row that exists (`AboutMonths`), and `SealedAnswers`;
the step lemma is `StepFrozen` (every UPDATE carries its status condition).
`BooksAlwaysTrue` is the whole of `BooksAreTrue`, from `BooksInv`: the log is a sequence of settled calls, a request knows at each step what it
has read so far (`Knows`), and what is said of the log is said of all logs grown from it (`TotalStays`). The total a request or a row carries is the
sum over some prefix of the log (`TotalOf`), the detail is read of a longer one and so covers it (`DetailIsFull`). The sums themselves are not
inductive, they hold of any log: a sum counts the pairs of a row and a unit of its amount (`SumOf`), and pairs counted by the group of their row
are all the pairs (`CountedByGroups`, `SummedByGroups`, by a bijection built from those of the groups), which makes `MarginConsistent` a fact
about one state (`MarginIsOne`). That groups agree on whether every cost is known is `CoveredByGroups`.
`MailsAlwaysRecorded` is the whole of `MailsAreRecorded`, for any schedule, span of months and number of failures, from `CronInv`. The bound on a
month's mails is not inductive alone: it is one less for a month that is still unsent, one after the recorded month of which no mail waits to be
recorded (`Counts`, `Unsent`), so that a mail uses up the difference and a loss restores it; that the loop only sends in an unsent month
comes from `should_send` and from the tick's clock never being behind the recorded one (`Ahead`, `MonthsInOrder`). A loss is counted once because it carries the
number of its fault (`LossTaken`).

## Invoices

`Invoicing.tla` – `billing/invoice.rs`: `create` (order, sum of the order's invoices, insert: three statements and no transaction),
`issue` and `void` (one conditional UPDATE, a second read when it found nothing), the paged list; orders become Paid meanwhile.

Run `invoices`: two requests at once about one order or the balance, with amounts of two against an order of three; or one request at a
time over two customers, with a customer that reads its list page by page (a page is one row; the code's default is 50, `invoice.rs:184`, and
one row leaves a turn of the page between any two rows). Two requests are what the sum-then-insert race needs, the bound
of `OverrunBounded` grows with their number. A sum over invoices is the number of pairs of an invoice and a unit of its amount (`Invoiced`).

`OverrunBounded`: the order's live invoices, with those about to be inserted, come to at most its amount for each request that can be
between check and insert at once – so one request at a time never overruns (the code admits the race, `invoice.rs:130-131`). `BackedByPaidOrder`: an invoice
names a paid order of its own organisation. `InvoicesHold`: voided stays voided and issued keeps its date, the second read finds what its comment relies on, the
list shows each invoice once.

Theorems (`InvoicingProofs.tla`): `TypeCorrect`; `AlwaysBackedByPaidOrder` by `BackingInv` (an order that passed the check stays paid and
its customer's, `CheckedOrders`); `VoidAlwaysFinal` by `RowOnward`, what any update does to a row; `RereadsAlwaysAsExpected` by
`RereadInv` (a request at its second read knows that the row has gone on, `MissedRows`, and rows only go on). `OverrunAlwaysBounded` by `OverrunInv`: what a request
brings past the check fits the order by itself (`PassedFit`), so a request that joins those in flight adds at most the order's amount to what they
may come to, and an insert moves its units from one side of the sum to the other. `InvoicesAlwaysHold` has the list besides: `PageInv` says
that what was due and lies before the cursor is what has been seen, in falling order; ids only grow, so what is created meanwhile lies behind the cursor.

## Identity, customers, reports

- `Sessions.tla` – `identity/session.rs`: `send_code` (cooldown, store), `login` (newest code, mistyped or not, the increment
  that also consumes at the limit, look-up, consume, registration in one transaction, first administrator, session); users disabled meanwhile.
- `Crm.tla` – `crm/{onboard,assignment,note,recharge,customer}.rs` and POST, PUT and DELETE of `identity/organization.rs` on the same
  rows: a reassignment locks the organisation, closes the active rows, inserts and writes the owner in one transaction; onboarding and
  registration meet in the unique index on `users.phone`; the list is read a page at a time. POST and PUT (`CreateOrg`, `UpdateOrg`) write an
  owner without an assignment and POST makes no account; sales may call both, as they hold `identity.manage` (`rbac/lib.rs:83-86`). A delete counts
  orders in one step and deletes in another, where every foreign key cascades. Three variables no handler reads are history: `founded`
  (organisations of POST), `granted` (owners that POST and PUT wrote) and `apart` (organisations whose owner was last written by one of them).
- `Rbac.tla` – `rbac/lib.rs` and the guards of `identity/guard.rs`: roles, permissions, `effective_role`, scoped access. The code's tables are the source, so
  they are definitions.
- `Reports.tla` – `report/{dataset,engine,source,report_def}.rs` with the granting and revoking of roles (`identity/role_admin.rs`): a
  request reads permissions and role in two statements and then queries a dataset, lists, opens, saves or deletes.

Run `identity` has five parts: one phone and two logins, with two codes that are mistyped or not, three codes that are only sent, or
two codes typed correctly; one customer, two salespeople and an administrator with two requests and one owner that POST or PUT wrote, the list unread; three organisations that come and go, two of them written by `organization.rs`, while
the list is read a row at a time; one user with any two roles that change twice, querying; two users and one saved definition, a role of one of them changing once.
Conflicts are about one phone, one customer, one principal; two requests are each race between
them, and the second code, the third customer and the second user make the newest, the next page and somebody else's row.

| Property | Says |
|---|---|
| `MissesBounded` | a code takes at most MaxAttempts wrong guesses plus one for each other request that coincides, and is consumed at the limit |
| `NoHalfRegistration` | organisation and user come together; a session is of its user's organisation |
| `LoginsHold` | a cooldown's window holds no more codes than requests coincide; a disabled user has only sessions of logins begun before |
| `HistoryIsOwnership` | one assignment of a customer is active, the newest, and names the owner unless POST or PUT /organizations wrote the owner since (finding 13) |
| `CustomersHold` | no half customer but what POST /organizations makes; who wrote a note or a recharge may read all, or was the owner of then by the history or because POST or PUT /organizations said so without one (finding 13); a list read to its end misses nobody who stayed |
| `ReportsObeyRoles` | nobody is served a row beyond the roles held while the request read them; the list shows exactly what opens; a definition is deleted by its owner or an administrator |

Run `sessions_single_use` is finding 17.

Theorems (`IdentityProofs.tla`, any phones and any number of requests): `RegistrationsAreWhole`, `DisabledMeansOut`, `GuessesAreBounded` and `LoginsAlwaysHold`. `SessionsInv` is
the types of tables and requests, `OwnAccounts` (an organisation is made with its user) and `Begun` (a request past the check of a
disabled user began before). `GuessInv` counts, for each code, the misses and the requests that may still add one (`Guessers`): the sum
stays below the limit because a request joins only while the code is neither consumed nor at its limit, and leaves by its own miss.
`SendsInv` counts, for each span of a cooldown, the codes made in it and the requests about to store one (`SendsFit`): who passes the check found the span before
empty, and storing moves a request from the second count to the first.

Theorems (`CrmProofs.tla`, any staff, telephones, requests and page size): `CustomersTyped`, `CustomersAlwaysWhole`, `ListsAlwaysComplete`,
`OwnershipIsHistory` and `AttributionAlwaysBacked`, of all endpoints at once. The lemma `Effects` reduces a step to what
it does to the tables: somebody joins, a customer is reassigned, sales write, an organisation is created, updated or deleted, or nothing. `HistoryInv` is `Histories` (the rows of a
customer are a history, and end with its owner, `Ends`, where that does not stand `apart`), `Granted` (where it does, `organization.rs` wrote it), `ClosingAll` (a reassignment about to commit closes exactly what is active, which holds because `Locks` says that no other
reassignment of the customer is past its lock) and `Sited` (a request is about an organisation there was; ids are not used again). `AttributionInv` says of a write
what it says of the rows: its author was the owner at the look-up, so has an assignment by `Histories` or is among `granted` by `Granted`, and both go only with their customer. `PageInv` says that
what stayed the reader's and lies before the cursor has been seen; `LeastRows` is what a page of the smallest rows contains. The assumption is the
definition `CrmAssumption`, which `MCIdentity` assumes of both its instances. `HistoryAlwaysOwnership` and `CustomersAlwaysHold` (`IdentityProofs.tla`)
carry them to `MCIdentity`: its two instances of Crm are those of `CrmProofs` (`AssignedAsSpecified`, `ShownAsSpecified`), and a behaviour stays in its part.

Theorem `ReportsAlwaysObeyRoles` (`IdentityProofs.tla`, any users, requests, definitions and changes of roles). `DeskInv` says of a request where its
principal is from: permissions and role each from some set of roles its user had meanwhile (`ReadFrom`), and between the two reads that the roles
of now are among those sets (`HalfRead`, which `ChangeRoles` must not break); of an answered query, that it was run for that principal. The rest is about the
catalogue: a role seen is a role held or the customer's of nobody (`HighestRole`), `report.define` comes with three roles only (`PrincipalsBacked`), and each dataset
restricts each role to what it is entitled to (`RoleIsEntitled`, by cases over datasets and roles). Assumed: None is no user, role or restriction.

## What is only model-checked

Liveness (`QueuedTaskEnds`, `SettlementEnds`, `Ends`, `HealthFollows`, `DueIsSent`): out of the prover's reach. Of the runs'
safety properties:

- `StreamIsFaithful`: it compares the frames of a cut stream with those of the whole one through `SelectSeq`, whose definition recurs in a LET that the
  prover cannot expand, over bytes that are themselves records of a payload.

Proved beyond what the runs name: `TypeOK`, `SingleFlight`, `SucceededIsBilled`, `FinalIsFinal` of TaskRuntime; `TypeOK`,
`BalanceIsRunningSum`, `LimitExhausts` of Settlement; `VoidIsFinal` and `RereadsAsExpected` of Invoicing by themselves; `SealedAnswers` of
Closing.

## Findings

Each is a place where the code does not do what a comment or document of the repository says. 1 and 17 are runs; the others were met while
modelling, and the properties that hold are stated so as to leave them out (with `Outdated`, `since`, `lost`, the conditions of the instances).

1. **A task whose LPUSH failed is never queued again.** `api.rs:230` and the warning at `api.rs:244` say
   the recovery sweep will queue it; `recovery_sweep` (`worker.rs:769-812`) reads only the processing list, where such
   an id never was. Run `runtime_lost_enqueue`, property `SweepRequeues`.
2. **Succeeded without an artifact.** `worker.rs:366` states "succeeded ⇒ 产物已就绪"; `worker.rs:370`
   logs a failed upload and carries on to charge and flip the status.
3. **Tasks overdraw like chat calls.** `task/src/api.rs:102` says an exhausted balance refuses a task because "chat 的后扣透支" is not
   for tasks; the check (`wallet.rs:128`) reserves nothing, and the task is charged after its work.
4. **Tied discounts.** `resolve.rs:48` promises one definite price; `max_by_key` at `resolve.rs:119` keeps the last of equal priorities
   (the API's default) and no query has an ORDER BY, so the price depends on the order of rows.
5. **A manual Disabled is touched.** `health.rs:3-4` and `:100` say never; the probe copies the rows and updates each by id (`health.rs:143`), so a channel
   switched off during the round becomes CircuitBroken, and a later round may enable it.
6. **Silent cascade.** `model.rs:203`, `channel.rs:290`, `group.rs:181` and `organization.rs:6` say a referenced row is refused "防静默连带删"; count and
   delete are separate statements (`model.rs:228`), and a row inserted between is deleted by the foreign key.
7. **Twin versions.** `price.rs:9` says `version = max+1`; two concurrent creations get the same (`price.rs:147`; no unique index).
8. **A new price that does not take over.** `price.rs:9-10`; versions are numbered per billing unit (`price.rs:96`) but compared
   across units, so after a change of unit a new price starts at 1 and the old one is still billed.
9. **A timeout is retried after all, elsewhere.** `implementation.md:235` says a timeout is not retried lest it be charged twice; the relay gives it to the
   next channel (`relay.rs:205`).
10. **Free output.** `implementation.md:234` says a disconnecting client is not missed; the guard only knows usage that has
    already arrived (`relay.rs:374`), which comes last.
11. **A blocked prompt ends as `stop` when streamed.** `gemini.rs:119` calls that wrong; `GeminiTranscoder::push` (`gemini.rs:520`) never looks
    at `promptFeedback`.
12. **Roles do not alternate.** `anthropic.rs:218` and `gemini.rs:274` merge tool results because they must; a user message after a
    result is a second user message in a row.
13. **Ownership without history.** `implementation.md:371` says every reassignment is a closed and a new row; `PUT /organizations/{id}`
    (`organization.rs:185`) and `POST /organizations` (`organization.rs:85`) write the owner alone, and sales may call both (`rbac/lib.rs:83-86`); the POST
    makes no account either. `apart`, `granted` and `founded` of `Crm` say where.
14. **Deleting an organisation takes users, notes, assignments and invoices along.** `implementation.md:345` rules silent cascades out;
    `organization.rs:211` counts keys, wallets and orders only.
15. **A report twice.** `email_cron.rs:9` and `:73` say exactly once; sending and recording are two steps (`email_cron.rs:60`).
16. **A report too early.** `email_cron.rs:3`: the margin of the past month; with RR_BILLING_EMAIL_HOUR below 8 the month is not yet over in
    UTC, by which it is summed (`email_cron.rs:100`).
17. **One code, two sessions.** `session.rs:5` and `:222` say a code is consumed once; the update at `session.rs:223` has no condition on `consumed_at`.
    Run `sessions_single_use`, property `CodeUsedOnce`.
18. **A list of datasets that do not answer.** `dataset.rs:16`: those the caller has access to; `usage` and `billing` are listed for
    sales (`dataset.rs:30`), whose queries are refused.
19. **"Organisation" visibility is everybody's.** `report_definitions.rs:4` says within the organisation; `report_def.rs:83` does not look at it
    (`report_def.rs:3-4` calls it a simplification).

Smaller observations, none of them a property: Gemini answers with `stop` even with tool calls, ignores `tool_choice`, and
`max_tokens: null` hides `max_completion_tokens`; Anthropic drops the tool choice `none`; the client's 120 s timeout also cuts
streams; an answer whose client hangs up while it is settled, and a stream that ends in an Anthropic or Gemini error event, is not billed; `margin.rs:148`
documents `billing.manage` where the code asks `billing.read`; `reconcile.rs:6` describes columns as `data-model.md:275-276` no longer does; a
month may be locked before it is over; of two concurrent regenerations the older totals may be written last; a user with the roles customer and sales loses the datasets
of a customer; a request whose user loses the last role between the two reads is served as a customer.

## Not modelled

- Delivery of webhooks (retries, `webhook_state`, URL and DNS checks) and of reports (`report/deliver.rs` is called by nobody).
- The content of data: texts, names, HTML and spreadsheets, sampling parameters, tool declarations, authentication headers, signatures of sessions.
- Currencies, the creation of API keys and their expiry, seeding of roles, lists that only read.
- A vendor, a mail server or a database that fails for ever: failures are bounded.
- More than one instance of the process: the code assumes one.
- `core`, `server` (wiring; a restart is `Crash` in the modules it matters to), `entity` and `migration` (columns and constraints enter the modules that use
  them), `support` (one ping route), the console (views over the API).

## Running it

`tlc -config gateway.cfg MCGateway` and so on: `PROJECT.json` names the module of each configuration; a passing run takes up to
three minutes with two workers. `tlapm GatewayProofs.tla` and so on for the eight `…Proofs` modules. `PROJECT.json` also lists, for each module, the
source lines each definition models, the mutants, the hazards with the properties about them, and the theorems.
