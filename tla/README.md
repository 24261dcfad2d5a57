# Food Manager: TLA+ models, checks and proofs

Food Manager (`src/`) is a household pantry bot: receipts are scanned into pantry
items, digests remind of what expires, corrections go through a language model,
and the whole is sold in tiers. It is one Python process, one asyncio event loop
and one SQLite file (WAL, `busy_timeout` 5 s). What makes it hard is not
parallelism but **awaits**: between two of them nothing interleaves, and at each
of them everything can. Every module here uses that grain: *an action is what a
handler does between two awaits*, with all the state it changes.

Paths below are relative to `src/app/`. `PROJECT.json` maps each definition to
the lines it stands for.

## 1. The system

| Component | State | Operations | Interacts with |
|---|---|---|---|
| Outbox and sender (`messaging/runtime.py`, `messaging/queue_service.py`, `messaging/adapters/`) | `messagingoutbox`, `digestrun`; the row the sender task holds | enqueue, edit, claim, deliver in chunks, retry, receipt, suppress, recover | members and connections (authorization), providers |
| Inbox and worker (`messaging/runtime.py`, `messaging/identity_service.py`, `application/messaging_commands.py`) | `messaginginbox`, identities, destinations; the event in hand | admit, claim, authorize, run a workflow, settle, recover | providers; every domain service; outbox for replies |
| Pantry items and proposals (`pantry_service.py`, `storage_state.py`, `correction_service.py`, `pending_service.py`) | `pantryitem`, `pantryoutcome`, `pendingcorrection`, shelf-life cache | eat, toss, remove, snooze, nudge, move, propose, apply, sweep | model and search calls between read and write |
| Receipts (`ingest_service.py`, `refine_service.py`, `handlers/meta.py`) | `receipt`, its items, a refinement task | scan, refine, undo | pantry; search calls |
| Billing (`billing/`, `handlers/billing.py`, `operator/`, `webapp.py`) | `subscription`, `quotausage`, `paymentevent` | pre-checkout, payment, renewal, top-up, refund, grant, tier, cancel, admit, charge | Telegram Stars; every metered handler |
| Batch selection (`batch_service.py`) | `pantrybatch` with a version | open, toggle, page, confirm, apply | pantry items |
| Cook sessions (`cook/`) | `cooksession`; a background search | three answers, search, more, adjust, expire | models, recipe sources, pantry |
| Cooked sheets (`cook/cooked_service.py`) | `cookedmeal` | open, toggle, confirm item by item | pantry, plan entries |
| Meal plans (`plan_service.py`, `week_composer.py`) | `mealplan`, entries | build over minutes, swap a day, cancel | models, recipe sources, pantry |
| Shopping list, favourites (`shopping_service.py`) | `shoppinglist`, `favoriterecipe` | add, check off | cards, plans, receipts |
| Membership, invites, groups, links (`invite_service.py`, `group_service.py`, `messaging/identity_service.py`, `messaging/bootstrap.py`) | `user`, `householdinvite`, `groupbinding`, `conversationbinding`, `externalidentity`, `identitylink`, `notificationdestination` | start, invite, join, leave, remove, ban, bind, link, remind, import at start | seats in billing; revocation of inbox, outbox |
| Digests (`scheduler.py`, `prepare_digests` in `messaging/runtime.py`) | `last_digest_date`, `digestrun`, jobs | compose, send, retry, catch up | outbox, translation |
| Connection administration (`connection_admin.py`, `messaging/connection_service.py`) | `messagingconnection` with a revision, OAuth states | edit, check, OAuth, enable, degrade | sender and pollers, which it overtakes |
| Provider modes (`provider_mode_service.py`) | override rows, SDK clients | change both or neither | model clients |
| Model clients (`llm.py`, `cook/llm.py`, `deepseek_llm.py`, ...) | one request | try, repair, search, give up | providers of models |
| Recipe search (`cook/recipe_source.py`) | one search | ask the next source, filter, stop at the ceiling | recipe services, model clients |
| Mini App workspace (`miniapp_workspace.py`, `webapp.py`) | cards, one running action, request ids | poll, submit, run, expire | all services |
| Translation and caches, rendering and localisation, database and start-up | caches; none; schema | | |

Who runs at the same time: aiogram gives every Telegram update a task of its own;
the messaging worker runs one event at a time and the sender one row at a time;
each Mini App workspace runs one action at a time; the scheduler and receipt
refinements have their own tasks; an operator has a bot of his own. External
parties, the messaging providers, Telegram Stars and the models, answer late, twice or
not at all. The process may die anywhere.

### What makes each component correct, and where it is hard

* **Outbox.** A message is cut into chunks, retried after rate limits and
  timeouts, receipted out of order, revoked while in flight and interrupted by a
  crash between the claim and the outcome. No chunk may be accepted twice, a row
  reported confirmed must have been taken whole, one reported suppressed must have
  left no trace, nothing may be started for a member who has gone, and every row
  must settle.
* **Inbox.** At-least-once delivery meets a worker that must work an event at
  most once: nothing acknowledged may be lost, nothing replayed after a crash, and
  a workflow that was authorized before its awaits must stop when the membership
  ends, even if the member is back by then.
* **Pantry.** A handler reads an item, waits seconds for a model and writes it.
  Meanwhile buttons, other handlers, the sweep and a refinement act on the same
  row. An item must live one life with one outcome, a proposal must be decided
  for good (but for the failed send of its own card, which may still call it
  cancelled) and never survive an edit of what it was computed from, and a user's
  duration must survive the automatic ones.
* **Billing.** Two ledgers, the rail's and the program's, change in different
  transactions on either side of an await. A purchase must be granted once, a
  refund taken back at most once, Family served only while it is paid for, and
  limits exceeded only by work that was already running.
* **Batch selection.** Several fingers press buttons of screens that may be old:
  what is applied must be what the tapped screen showed, and an item that ended at
  another door keeps that ending.
* **Cook sessions.** Two members answer, adjust and ask for more while searches of a
  minute run: one search per session, never without its answers, and no card lost. A
  session whose handler dies between its claim and its work is only ever closed.
* **Meal plans.** Day by day against what the earlier days leave: nothing planned
  twice, nothing searched over the ceiling, nothing cancelled brought back.
* **Cooked sheets.** Confirmed one commit at a time: a crash must leave a sheet open
  rather than a record untrue, and an item counts as eaten once.
* **Shopping list.** Many doors add to it and take from it: a food is listed once,
  and leaves only when it was bought.
* **Membership.** Two doors with code of their own read the same tables, and each start
  of the process writes them too: seats hold at redemption, whoever leaves takes his keys
  along, an identity never moves, and a second reminder can only be the one that the
  environment's bot is given at a start.
* **Digests.** Four senders that never look at each other, each with a commit after its
  send: a second digest of a day needs a cause (a failure, a change, an overlap, or two
  destinations that are on), and a recorded day was served.
* **Connections.** Checks, edits and deliveries await with the row in hand: an account
  that a row was verified for is never replaced, an answer is only for the credentials it
  was asked with, and, as long as no edit was written over another, what is enabled has an
  account and was heard of by its owner.
* **Provider modes.** A switch fails at any point, its rollback too: the clients in
  service are those of the rows, or the operator has been told to restart.
* **Model clients, recipe search.** Bounded effort, costs that are whole or unknown (but
  for the search fee that Gemini's recipe client leaves out), answers only on evidence,
  nothing excluded, nothing paid for over the ceiling.
* **Workspace.** A request is begun once however often it is repeated, and no card
  outlives the household it was shown in.

## 2. Modules

| Module | What it is | Theorems |
|---|---|---|
| `Outbox` | the durable outbox, its sender, the provider's side of the calls, revocation, crash and recovery | |
| `DeliveryPromise` | what the outbox promises about one delivery | |
| `OutboxProofs` | the inductive invariant, the safety theorems, and that `Outbox` implements `DeliveryPromise` | 10 |
| `Inbox` | admission, the worker, identity commands, revocation, crash and recovery | |
| `InboxProofs` | the inductive invariant and the safety theorems | 5 |
| `ItemLifecycle` | what the pantry promises about an item | |
| `Pantry` | items, proposals, receipts and requests that straddle an await | |
| `PantryProofs` | the inductive invariant, the safety theorems, and that `Pantry` implements `ItemLifecycle` | 7 |
| `CookSessions`, `MealPlans`, `CookedSheets`, `BatchSelection`, `Shopping` | what a household does with its food | |
| `Workspace` | the Mini App's workspace of a user | |
| `Kitchen` | composes `Pantry` and the six above | |
| `KitchenProofs` | safety of each of the six, and of the composition | 16 |
| `Billing` | subscription, quota, ledger, and the rail | |
| `BillingProofs` | the inductive invariant and the safety theorems | 5 |
| `Membership` | who belongs where | |
| `Digests` | jobs, retries, catch-up and relay of the daily digest | |
| `MembershipProofs` | safety of both | 5 |
| `ConnectionAdmin`, `ProviderModes` | what the owner administers | |
| `Messages` | a workflow's messages, edited and removed while the sender delivers them | |
| `ConsoleProofs` | safety of the three | 6 |
| `ModelCalls`, `RecipeSearch` | one request to a model, one search along the sources | |
| `Operations` | composes `Billing`, `Membership`, `Digests`, `ConnectionAdmin`, `ProviderModes`, `Messages`, `ModelCalls` and `RecipeSearch` | |
| `OperationsProofs` | safety of the last two, and of the composition | 8 |

`Kitchen` and `Operations` hold every component's variables. No commit of the code
spans two of these components except where a module says so and has the other's part
as its environment (`PantryMoves` and `CardsChange` in `Shopping`, the endings
elsewhere in `BatchSelection` and `CookedSheets`, `Moves` in `Workspace`, membership in
`Digests`). So a behaviour picks a *scene* and interleaves everything inside that
component; running them against each other as well would multiply states and add no
step. Where components do meet in one commit, the module has both sides: pantry,
proposals and receipts in `Pantry`; quota and ledger in `Billing`; members, invites,
bindings and links in `Membership`; revocation in `Inbox` and `Outbox`.

`Outbox` and `Pantry` refine their abstract specifications through `INSTANCE ...
WITH`: `KeepsPromise` maps a row's status to a phase and the provider's accepted
requests to `taken`; `KeepsLifecycle` maps the item rows to their status and the
outcome table to itself.

Several definitions come in two forms, the one that models the code and one
marked *Mutant*, a plausible mistake in that code. A mutant is used by no action;
putting it in the place of its original must break the property named in
`PROJECT.json`, which shows that the property depends on the code.

### Outbox

The durable tables are `member`, `optedIn`, `connection`, `job`, `status`,
`attempts`, `backoff` and `run`; `sender` and `draft` live in the process; `wire`
and `accepted` are the provider's. The sender's program counter follows
`send_one`: claim (`ClaimOldest`, or `SuppressOldest` when the checks fail), await
the adapter, check again (`StillAllowed`), deliver chunk by chunk (`CallProvider`,
`NextPart`), commit the outcome (`Complete`, `DeliverFails`) or lose that commit to
a locked database (`OutcomeLost`). What `verify_commit` and `stamped_user` compare
is the stamp a row was queued with, `(user, generation, household)`.

### Inbox

`wire` is what the provider will still deliver, `inbox` the table, `worker` the
task with the stamp it authorized. A workflow is any number of commits
and a last one, each of which `verify_commit` re-authorizes. What the workflow
writes is only counted (`writes`), since it is the business of the other modules.
`Recovered` is `recover_interrupted`.

### Pantry

A request that waits is an `actor` record holding what the handler read before
the await (`MoveStart`, `ProposeStart`, `ScanStart`); its end writes what the
handler writes. A proposal is committed (`Create`), then its card is sent, and only then
is the send over or compensated (`ReplySent`, `ReplyFails`): `mark_cancelled` looks at the
status of the copy that was loaded before the send, so it may write "cancelled" over what
an edit, a tap or the sweep has made of the proposal meanwhile. SQLAlchemy updates only the
columns that differ from what was loaded, so `Written(row, loaded, new)` merges column by
column: this is how two overlapping requests can each keep half of a row. `SetTerminal` is
the conditional `UPDATE ... WHERE status = 'active'` through which every ending goes.

### Billing

`sub` is the row, `usage` the quota rows by the first day of their period, `ledger`
the payment events; `rail` is what Telegram knows and `heard` the updates that will
not come again. `refund` and `cancel` are the two requests that await the rail;
`work` holds metered requests between `admit` and `commit`. Time is in days;
`Rolled` is `roll_period_if_due`, including the catch-up over skipped periods.
`comped` is a history variable for one property.

### Batch selection, cook sessions, plans, sheets, shopping list

`BatchSelection`: a tap (`press`) holds the version and the selection its screen
showed; `Claimed` is the `UPDATE ... WHERE version = ?` of `change_selection`, and the
claim, the row and the items are one step. `CookSessions`: `cookTask` are the handlers
and background searches that wait, with the session they wait for; `TapPurpose` and
`TapMore` are the conditional updates that claim a session. Each then awaits the
acknowledgement of the tap, outside any `try`: it arrives (`Spawn`, `MoreStarts`) or raises
(`AckFails`), as the legacy adapter's may. `RunStart` to `SearchEnds` are the commits of
`run_cook`; it may also end before its `try`, where the model clients are chosen.
`MealPlans`: `planTask` holds a plan's days so far, what is left of the pantry and whether
the ceiling is exceeded; `Searched` is one search, activation the step that ends it.
`CookedSheets`: `Confirm` eats one item per step and commits the record last. `Shopping`:
every operation is synchronous, so one step each.

### Membership

One record per account and two lookups: `TelegramUser` (the bot's handlers) and
`identity` (the messaging commands). `AtBot` and `AtMessaging` are the two doors'
authorizations; each command is one step because none awaits before its commit.
`ImportLegacy` is what every start of the process does to the tables: identities and
destinations of the environment's bot for whoever has a Telegram chat.

### Connections, provider modes, models, searches

`ConnectionAdmin`: `ask` holds the row a request or delivery read before its await;
`Updated` merges the changed attributes as an `UPDATE` does. A rotation may bring a Slack
bot token that was typed in (`Rotated`), a refused delivery leaves the row degraded and
enabled (`DeliveryEnds`). `lapped`, an edit written over one it had not read, is a history
variable. `ProviderModes`: `Interrupted` is a switch that fails between its row and its
clients. `ModelCalls`: a client is a record of policy (tries, turns, repair, search,
evidence, degrade or raise, and whether the provider's own searches are charged, left out of
the cost, or not made), nineteen of them; `RecipeSearch`: one record `search` walks along
`Chain`.

### Messages

`message` is the workflow's row of a message with the outbox row that holds its latest
text and the reference a delivery left; `queue` is the outbox of one conversation,
`held` what `send_one` read before its await, `shown` what the people in it see.
`UpdateText` rewrites a row that nobody holds and queues another one otherwise.

### Digests

`sending[u][s]` is the attempt of sender `s` for member `u`; `line.catchup` keeps the
date and the hour that were read at start-up, as the code does. A conversation has no
destination before somebody writes in it (`ObserveDestination`), asks for reminders or
confirms a link there (`Reminders`, `Link`); the import at a restart gives a Telegram chat
that has none one that is on. `excuse` is a history variable: who had something happen
today that may repeat a digest; `Doubled` says that both destinations are on.

### Workspace

`space` is the process's record of a user, `action` its task, `screen` what the client
last received. A POST is two steps: `Post` identifies the user and calls `get`,
`Submit` acts when the body has been read.

## 3. Runs

| Run | Instance | Properties | Distinct states |
|---|---|---|---|
| `outbox_delivery` | 2 rows of 2 chunks, 2 attempts, 1 crash, 1 lost outcome commit | `TypeOK`, `NoPartSentTwice`, `ConfirmedMeansComplete`, `RunMirrorsConfirmation`, `SettledOnlyAdvances`, `KeepsPromise` | 0.97 M |
| `outbox_revocation` | 1 row, 2 users, 2 households, 1 revocation of each, 1 edit of the connection | `WithheldMeansUnsent`, `NothingStartsUnauthorized`, `RevokedReplyNeverRevives` | 1.45 M |
| `outbox_liveness` | 2 rows of 1 chunk, 2 attempts, 1 crash, fair | `EveryDeliverySettles` | 0.31 M |
| `inbox` | 2 events of 1 account, 2 commits each, 2 crashes, 2 moves, database errors, fair | `TypeOK`, `NothingLost`, `WorkedOnce`, `RevokedStops`, `EventsSettle` | 0.65 M |
| `pantry_receipts` | 2 items, 1 receipt, 1 actor, 2 days | `ReceiptsWhole`, `UserDurationKept`, `KeepsLifecycle` | 1.65 M |
| `pantry_proposals` | 1 item, 2 proposals, 1 duration, 1 actor, fair sweep | `DecisionsStand`, `ProposalsEnd` | 0.17 M |
| `billing_subscriptions` | 2 subscriptions, 2 open invoices, 1 operator, 1 grant or tier, 1 refund at a time | `FamilyIsPaidFor`, `CancelledKeepsBenefits` | 2.39 M |
| `kitchen` | seven scenes, below | `KitchenTypeOK` and seven | 1.00 M |
| `operations` | eight scenes, below | `OperationsTypeOK` and nine | 0.81 M |
| `pantry_forward` | 1 item, 2 actors | `ForwardOnly`, **violated** | |
| `billing_one_subscription` | 2 subscriptions, 2 open invoices | `OneSubscription`, **violated** | |
| `billing_row_names` | 2 subscriptions, 1 metered request | `RowNamesSubscription`, **violated** | |

| Scene of `kitchen` | Instance | Properties |
|---|---|---|
| pantry | 1 item, 1 proposal, 1 receipt, 2 actors | `PantrySound` |
| cook | 2 sessions, 2 tasks, 2 recipes | `SearchesSound` |
| plans | 2 plans of 2 days, 2 tasks, 2 recipes of 2 ingredients | `PlansSound` |
| sheets | 2 sheets, 2 items, 2 recipes, 1 day, crashes | `SheetsSound` |
| batches | 2 items on pages of 1, a selection of at most 1, 2 fingers, 5 versions | `BatchesSound` |
| shopping | 2 foods and the empty name, 2 recipes, 3 rows | `ShoppingSound` |
| workspace | 2 households, 2 request ids, 2 workspaces, 2 cards of which 1 is kept | `WorkspaceSound` |

| Scene of `operations` | Instance | Properties |
|---|---|---|
| quota | 1 top-up, 2 operators, 2 metered requests, 2 periods | `GrantsAddUp`, `OvershootIsRunningWork` |
| members | 1 Telegram user at 2 bots, 1 user elsewhere, 1 invite, link and group, seats 1 or 3 | `MembershipSound`, `DoorsSound` |
| connections | 1 row of each kind, 2 accounts, 2 requests or deliveries, 1 arrival, 2 revisions | `ConnectionsSound` |
| modes | 3 providers, each with its own API, the gateway, both or neither | `ModesSound` |
| calls | nineteen clients, 3 tries, 3 searches | `RequestsSound` |
| searches | ceilings of 0, 2 and none, calls of unknown cost | `RequestsSound` |
| digests | 1 member, 2 hours, 2 days, 2 destinations, links, restarts at any moment | `DigestsHold` |
| messages | 2 messages, 3 versions, 3 rows, 2 attempts, late answers | `MessagesSound` |

Each of the composed properties is a conjunction of named ones, each stated with its
comment in the component's module (`PlansSound == NoRecipeTwice /\ PantrySpentOnce
/\ CancelledStays /\ []CeilingEndsSearch`). `kitchen` and `operations` use symmetry: two
actors, tasks, fingers, requests or messages differ in nothing but their name, no definition
chooses among them, and no property of these runs is about liveness.

Deadlock is not checked: every run has bounds, and a bounded system stops when
they are used up (and, in the code, a process with nothing queued just waits).

**Why the bounds are enough.** Each hazard needs few participants and is reached
well inside the bounds; the mutants, which the same instances catch, are the
evidence. For everything but liveness the theorems of section 5 remove them.
*Outbox*: two chunks distinguish first from later, two attempts the
retry from the last one, two rows make the sender's order matter and let a receipt
of one meet the claim of the other. *Inbox*: two
events give the worker something to go on with, two commits a workflow that is
revoked between them, two crashes one during and one after recovery, two moves a
member who leaves and comes back. *Pantry*: two actors overlap two
awaits on one item, and every one-step handler interleaves with both at no cost; two
items are the least for an undo that is only partly possible. *Billing*: `Period = 2` and
three days cross a period end with a payment on either side, two operators are the
least for two refunds of one charge, two subscriptions the least for a lapse and a
return, and one open invoice or two decides between a careful and a racing pair
of buyers. *Cook sessions*: two sessions are one that is superseded and its
successor, two tasks two taps at once, two recipes the least for a card that is
shown twice. *Plans*: two days are the least for what one leaves the other; two
plans replace each other. *Sheets*: two items put a crash between two commits.
*Batches*: two items on two pages with one selectable reach every limit, five
versions hold a selection, its confirmation and taps that are late for both.
*Membership*: one person known to both bots is the least for the two doors to
disagree, another for an owner and a member; seats of one are full at once.
*Connections*: one edit, which two requests may make at once, so that one is written over
the other; checks, refusals and arrivals go on at the last revision. The run has one row,
since the actions touch no other.
*Modes*: one provider of the default, one that shares the gateway and one that reads
no receipts. *Messages*: three rows and three versions are the least for an edit that
overtakes a retried one, two messages for an edit in the wrong place.
*Digests*: two hours put the job before and after the member's, two days a record of
the day before. *Workspace*: two workspaces are the one a request was made in and its
successor, two households a move and a return.

### What the violated runs show

1. `pantry_forward`: storage only moves forward, says `storage_state.py:5`. Two
   overlapping moves each check it before their search; the one to the fridge may
   land after the one to the freezer (`pantry_service.py:291`). Nothing else does it:
   with no two moves of one item at once the rule is proved (`ForwardsAlone`).
2. `billing_one_subscription`: one active Family subscription per household, says
   `docs/telegram-subscriptions.md:24`. Pre-checkout reserves nothing, so two
   members who confirm at once both pay, and both subscriptions renew.
3. `billing_row_names`: cancelling stops the next charge, says the same document
   at line 57. `apply_subscription` keeps the first charge id the row ever had
   (`billing/entitlement.py:96`); after a lapse and a new subscription Cancel
   renewal names the dead one.

### Disagreements without a run

Seen while modelling, by giving TLC the statement as an invariant or an action
property once; no property of this project depends on them.

* A top-up bought before subscribing is lost: `apply_subscription` moves
  `period_start`, which keys the quota rows (`docs/telegram-subscriptions.md:46`).
* `revoke_topup` takes the grant from today's period, not from the one the top-up
  was for (`billing/entitlement.py:137`).
* A crash between the rail's refund and the ledger commit is never repaired: asked
  again, the rail refuses and `handle_refund` changes nothing (`operator/bot.py:205`).
* A comped household that subscribes loses the rest of the comp
  (`operator/tiers.py:60`, `billing/entitlement.py:99`).
* A move that awaits its search beside a correction leaves an item whose expiry is
  not its origin plus its duration (`storage_state.py:7`, `pantry_service.py:297`).
* "Raised when a terminal transition is attempted on a non-pending row", says the
  exception of `_set_terminal` (`pending_service.py:13`). When the send of a card fails,
  `mark_cancelled` makes that check on the copy loaded before the send
  (`pending_service.py:74`, `handlers/pantry.py:200-207`, `:521-528`) and writes
  "cancelled" over a proposal that is stale, applied or expired by now. What it applied
  stays; `DecisionsStand` is the rule with this one exception.
* `reminders off` that lands while the sender awaits its adapter does not stop the
  digest: the opt-in is read once (`messaging/runtime.py:1020`, `docs/messaging-connections.md:126`).

Of the kitchen:

* "A partial unique index enforces one active plan per household"
  (`docs/superpowers/specs/2026-07-09-v5.2-meal-planning-design.md:21-22`): `build_plan` cancels the others
  before its searches and activates after them (`plan_service.py:297`), and no such
  index exists; two that are built at once are both active.
* `swap_day` computes the shopping gap against the whole pantry, not against what
  the other days leave (`plan_service.py:376`), may pick the same recipe for two days
  that are swapped at once, and does not charge a search that finds nothing.
* `run_cook` commits a session's cumulative cost (`handlers/cook.py:302`), so an
  adjusted session is charged for its first search twice; its ceiling is not
  compared before the second (`README.md:265`).
* Adjusting, or asking for more of, an older session beside a newer open one leaves
  two open; an empty search after an adjustment keeps the old cards; feedback after
  "more" goes to the new first card.
* The acknowledgement of a tap is awaited after the session was claimed and outside any
  `try` (`callbacks/cook.py:177`, `:455`); Telegram's may raise (`legacy.py:127-133` in
  `messaging/adapters/`). The same holds of the model clients, which are chosen before the
  `try` of `run_cook_and_render` (`handlers/cook.py:254`). The session then shows
  "thinking" with nobody at work, and takes no tap but those that close it, until it expires.
* A recipe whose source lists no ingredients passes the exclusion filter
  (`cook/recipe_source.py:162`, `:295`).
* A recipe model that raises after its first call loses that call's cost
  (`cook/recipe_source.py:446`); so does every model call that fails for good.
* In the workspace, a request that was accepted and then cancelled by a change of
  household keeps its id, so that its repetition is silently ignored; a workspace that
  has seen 2000 ids refuses everything until it has been idle for an hour. A request
  whose body is read while its user leaves still acts in the workspace it was identified
  for (`webapp.py:176-191`): cards are compared with the workspace's household.

Of the operations:

* `reminders on` "replaces the previous destination", says
  `docs/messaging-connections.md:125`. An account of another platform that turns reminders
  on and then links Telegram has a chat without a destination; at the next start
  `import_legacy` (`messaging/bootstrap.py:64`) makes one that is on and leaves the other as
  it is. `OneReminder` allows this one pair.
* The same restart gives that account two digests of a date (lines 127-128 say one), the
  cron job's in the Telegram chat and the relay's (`messaging/bootstrap.py:66`), though
  `messaging/runtime.py:1124` says the cron only goes on "until the user explicitly selects
  a connection-managed destination". `SecondDigestHasACause` names it as a cause.
* A rotation "disables the connection until it is validated and its bootstrap account sends
  another message" (line 31). The message makes the connection ready by itself
  (`messaging/runtime.py:384`), since a rotation keeps the account, so that it can be enabled
  with credentials nobody checked, of Slack with the bot token of another workspace.
* "Google Search grounding is a tool charge on top of token costs" (`gemini_llm.py:87`), and
  every client with a provider's search adds it but `GeminiRecipeLLM`, which reports the
  tokens (`gemini_llm.py:347`): neither the ceiling of a session nor the cost breaker sees
  the fee. `ReportedCostIsWhole` excepts this client and says that no more than the fee is
  missing.
* Digests run at most once a day, says
  `docs/superpowers/specs/2026-10-29-messaging-provider-abstraction-design.md:327-332`;
  `send_digest_once` (`scheduler.py:57`) never looks at `last_digest_date`. After a
  restart in the member's hour the job and the catch-up both send.
* "A crash therefore delays the morning digest instead of losing it" (`scheduler.py`)
  does not hold if the bot's account was not verified at start or the hour was moved
  to an earlier one; `unschedule_user_digest` (`scheduler.py:224`) misses the job of an
  account whose id is not its Telegram id; `confirm_link` gives an account a chat and
  no job; the first managed message of a Telegram user makes a destination that is
  off and so stops the digest until the next start.
* Two edits of a connection that carry the same revision are both
  written (`connection_admin.py:283`), and the same number then names two states.
* A connection whose deliveries are refused is "degraded" and stays enabled
  (`messaging/runtime.py:1092`), though "Enabling requires successful credential and
  inbound checks" (same document, line 454); only a check makes it ready again.
* When the messaging worker meets a locked database outside its `try` blocks, its task
  ends (`messaging/runtime.py:640`): what is queued stays queued until the next start.
* The catch-up goes by the rows that were read at start-up (`scheduler.py:171`): an hour,
  a time zone or a destination that changes while it waits its turn is not seen.
* The search of a refinement prices its tokens by two flat rates
  (`refine_service.py:193-198`), where `llm.py` also knows caches and tiers; requests that
  raise report no cost at all.
* A message that is edited while an earlier edit of it waits for its retry is queued
  once more (`messaging/runtime.py:164`), and the older text may be the last to arrive.
* A stored provider whose credentials are gone raises in `composer.for_provider`
  (`handlers/plan.py:124`).
* A repeated `bind` of a conversation adds a second row with the same key and fails
  (`application/messaging_commands.py:299`).

### Hazards without a property

`PROJECT.json` lists what is hard to test in this code. Four entries have no property,
since the code does not keep them (above): a crash between a refund and its record, two
plans built at once, a rotation that is never checked, and the worker whose task ends.
Left off the list is the writer lock that is held over an await (`billing/meter.py:96`,
likewise `correction_service.py:384`, `ingest_service.py:174`, and the digest run that
is added before its translation awaits, `messaging/runtime.py:1148`), which needs a
model of its own (section 8), and, for want of a statement the code makes: receipt ids
that are reused after an undo (`models.py:96`), a payment whose payer has left
(`handlers/billing.py:204`), and quota rows left behind when `period_start` moves
(`billing/entitlement.py:100`).

## 4. Fairness

* `Outbox!FairSpec`: weak fairness of the sender's steps (its task polls four
  times a second while the process is up, and a provider call ends by timeout), of
  `Start` (`compose.yaml:17`, `restart: unless-stopped`) and of each backoff's
  elapsing (time passes). Providers, receipts, administrators and members are not
  fair.
* `Inbox!FairSpec`: weak fairness of the worker's steps, of the delivery of each
  offered event (providers repeat until acknowledged) and of `Restart`. The
  worker's own commits are outside every `try`: a locked database ends its task
  until the next start, so `EventsSettle` promises nothing once the task has ended
  for good (`<>[](worker = Dead)`).
* `Pantry!FairSpec`: weak fairness of the scheduler's sweep and of each
  proposal's ten minutes passing. Nobody has to answer anything.
* The other modules state safety only: whether a payer pays, a rail or a model
  answers, or a member taps, is theirs, and the code guarantees no more than that
  each handler's steps happen in order.

## 5. Proofs

What a run checks on a small instance, a theorem says for every value of the constants.

### Messages in and out

`OutboxProofs` proves for every number of users, households, connections, rows,
chunks, attempts, revocations, edits and crashes:

* `Inductive`: `Spec => []IInv`, with `IInv == TypeOK /\ Core /\ DownMeansIdle`;
* `TypeCorrect`, `SentOnce`, `WithheldUnsent`, `ConfirmedComplete`, `RunsMirror`:
  the type invariant and the four safety invariants of the runs;
* `SettledAdvances`, `AuthorizedStart`, `RevokedStaysRevoked`: the action properties.

`Refines`: `Spec => Promise!Spec`.

The assumptions are those the module names: the sets of households and connections
are not empty, `None` is no user or household, the bounds are naturals, and a
message has at least one chunk and one attempt.

**The argument.** `NoPartSentTwice` is not inductive: nothing in it stops a row
that is claimed again from offering chunks a forgotten attempt already placed. What
the code relies on is that a row is claimed again only after a *definite* refusal
of its first chunk, so a new attempt starts from nothing. The strengthening says so:

* `LastAttemptOnly`: everything the provider ever saw of a row carries the row's
  current attempt number;
* `OfferedOnce` and `InOrder`: a request is on the wire or accepted, not both, and
  a chunk is offered only after those before it were accepted;
* `SenderHolds`: what the sender's program counter knows of the row in its hands:
  in `adapter` nothing has been offered, in `wait` nothing beyond the current chunk,
  an answer `ok` means accepted, and any other answer means neither accepted nor on
  the wire;
* `Rows`: rows not inserted are blank and a queued row has an attempt left;
* `DownMeansIdle`: recovery never finds a sender in mid-flight.

The step that matters is `RaisedRateLimit`: an error that leads to `retry` is
raised only for the first chunk, so with `SenderHolds` the retried row left no
trace, and `LastAttemptOnly` holds for the next attempt vacuously. `Verdict` lets
every other error end in `unknown` or `failed`, which are never claimed again, and
`recover_interrupted` turns `sending` into `unknown`. The proof has one lemma per
type component and one step per action, and under it the conjuncts the action can
disturb. The refinement then maps each action to a step of `DeliveryPromise` or a
stutter, using `IInv` in the pre-state.

`InboxProofs` proves for every finite set of events and every number of users,
commits, crashes and moves `Inductive`, `TypeCorrect`, `AcknowledgedIsStored`
(`NothingLost`), `EventsWorkedOnce` (`WorkedOnce`) and `OvertakenStops`
(`RevokedStops`). The events are assumed finite because a row's rank counts the
rows before it. The invariant adds three facts to the types and `NothingLost`:

* `TakenOnce`: a row that is not there or pending has no attempt, and no row has
  more than one. Taking a row is then its first attempt, and nothing makes a row
  pending that has had one: redelivery meets the unique key, and recovery writes
  `unknown`;
* `InHand`: what the worker holds is `processing`, so that an ending never meets
  a settled row, and neither does a commit of a workflow;
* `StampAges`: a running workflow's stamp is at most its member's generation, and
  less once a revocation has overtaken it. Generations only grow, so joining again
  does not bring the stamp back to life.

### The pantry

`PantryProofs` proves for every number of items, proposals, receipts, photographs and
waiting requests `TypeCorrect`, `ReceiptsStayWhole` (`ReceiptsWhole`),
`DecidedForGood` (`DecisionsStand`), `DurationKept` (`UserDurationKept`) and `LivesOnce`:
`Pantry` implements `ItemLifecycle`. Its invariant adds to the types:

* `MovesForward`: a request that waits for the search of a move was let through
  forwards from what it *read*, so what it writes is a storage and a duration that
  belong together, whatever the row has become;
* `UnbornUntouched`: a row that is not there yet has no duration of a user, so a
  scan or an applied proposal overwrites none;
* `LiveHasContent`: a proposal that has a status has something to apply;
* `SentIsStored`: a card that is being sent is that of a proposal which was committed, so
  that a send that fails can only cancel, never bring to life.

The steps that matter are those that write after an await. `Written` merges by
column, so an ending is never undone by a late write: the status column is changed
only through `SetTerminal` and the undos, which look at the row as it is *now*.

`EditsEnd` (`EditsEndProposals`, a part of `PantrySound`) rests on that invariant. Edits of
a row close the proposals about it by calling `expire_for_item`; what needs an argument are
the steps that do not: rows that enter. `Born` says that a proposal, and a request that
computes one, is about an item that was in the pantry when it was read, and `StaysInPantry`,
which rests on the refinement of `ItemLifecycle`, that such an item never becomes a row
that can enter again.

`ForwardsAlone` says when the claim that `pantry_forward` refutes does hold:
`Spec /\ []OneMover => ForwardOnly`, where `OneMover` says that no two requests wait to move
the same item. Under it `FoundThere` is inductive: the item that a request waits to move is
kept where the request found it, because nothing but a move changes where an item of the
pantry is kept (`OnlyMovesStore`). So two moves of one item are the only overlap that takes
an item backwards; edits, undos, scans, refinements and restarts never do.

### Money

`BillingProofs` proves all five properties of `Billing` from `BInv`, for any length of a
period, any limits and any numbers of payers, operators and requests (the requests that
may overlap are finite):

* `ChargesAgree` ties the rail to the ledger: what is recorded was taken, what is refunded
  in the ledger is refunded at the rail, and a refund the rail has accepted waits for
  *one* operator, who has still to record it. That is why two operators at one charge
  take one grant back: the rail accepts the first only, and nothing else records a refund
  of that charge.
* `SubPaid` is `FamilyIsPaidFor` of the row as stored. It has to be compared with the
  row's *end*, not with today: an end that a payment moved is no later than what the rail
  sold, and a paid row that is past its end is not rolled on (`roll_period_if_due`).
* `Counted`: the quota is a finite set of units, so that a step adds or takes one unit and
  payments and units are counted together, without induction over sums. `Granted` is
  therefore defined as the number of these units.
* `Metered`: periods ahead of the row are untouched, and the current one has room for
  every request that runs (`Running`), which is what `admit` checks and `commit` forgets.

Trying to prove the overshoot showed that its bound was too low, and TLC then found the
counterexample (two subscriptions paid on one day, two requests): work that runs while a
subscription is paid is charged to the period it begins, which was charged before when
another was paid on that day. Since then the bound has one more round of running requests
for every subscription on the ledger.

`CancelledKeepsBenefits` is an action property over `BInv`: of a Family row that has time
left no step but a refund or the operator's takes the tier away, and only a payment that is
recorded moves the end, to a day after today (`Kept`).

### The kitchen

`KitchenProofs` proves each component for every number of rows, tasks and recipes and all
bounds, and then the composition: `KitchenHolds` says that a behaviour of `Kitchen` is one
of each component (a step is a step of the scene's and leaves the variables of the others
alone), from which `KitchenTypeCorrect`, `PantryIsSound` and `KitchenKeepsItsWord` follow.

*Cook sessions*, `OneAnsweredSearch`. One task per session is not inductive; `WorkedOn`
says that a session somebody works on, from the claim on, is ready, cancelled or expired,
so that the conditional `UPDATE`s of `TapPurpose` and `TapMore`, which ask for collecting
and done, find nobody at work, and neither does `Adjust`, the only step that takes answers
back. What ends is told apart: whoever has begun to search leaves the session concluded
(`SearchIsConcluded`), whoever only claimed it may not, and then nothing but a closing
happens to it (`AbandonedIsClosed`).
`ShownOnce` is what `CardsKept` needs: no card is shown twice, so what is put in front is new.

*Meal plans*, `PlansAreSound`. `Drafts`: a plan that is searched for is a draft of one task
only, so that nothing else writes its week. `SearchSound`: what the days so far use is no
longer in the pool the next day is planned against, no two of them cook the same, and a
search goes on only below the ceiling. Activation copies such a week.

*Cooked sheets*, `SheetsAreSound`. `EatenOnce` is inductive only with `OneSheetPerMeal` (one
open sheet of an entry, whatever its dish, and one of a recipe cooked otherwise) and
`ConsumedIsConfirmed`: `Confirm` eats an item if it is still there in the same commit, and
marks the record last.

*Batches*, `BatchesAreSound`. A tap cannot be judged by what it carries, only by what its
screen showed; `Seen` says that a tap whose version is still the row's was made on the row
as it is, which every change preserves by giving the row a version that it never had.
`BatchRowSound` keeps the page below the number of pages: the step that matters leaves a
confirmation, whose list is the selection, for the longer list of all items.

*Shopping*, `ShoppingIsSound`: `ListedOnce` and `FavoriteOnce` are inductive; the lemmas are
about `add_missing`, which appends the foods that were not listed, each once.

*Workspace*, `WorkspaceIsSound`. `BegunIsKnown` and `IdsGrow`: a request that was begun is
among the ids of the workspace it names, and ids of workspaces are never used again, so
that a repetition meets either its own workspace, which knows it, or another one, which
refuses it. `BusyAtHome`: the action belongs to the workspace's household or was cancelled
when the household changed, and then the cards are empty and nothing shows more.
`ReadInSpace`: there is a workspace while a body is read.

### The operations

`MembershipProofs`, `ConsoleProofs` and `OperationsProofs` do the same for the eight scenes
of `Operations` (`OperationsHold`, `OperationsTypeCorrect`, `OperationsKeepTheirWord`).

*Membership*, `TablesAgree` and `DoorsHold`. `Founders`: a household bears its founder's
name, and he is its active owner for ever, since an owner can neither leave nor be removed;
with `Identified` (an identity of Telegram and the account with that Telegram id are one)
the two doors meet the same account. `KeysHeld`: invites, groups and conversations are
given by somebody who is a member of that household *now*; leaving and removal each take
away what he gave (a ban does not, and leaves him a member), and a conversation is bound
by the founder only, who does not go. `OneReminder` allows one exception, a destination of
the environment's bot beside another: every way to a destination that is on ends what
there was, but `ImportLegacy`, which adds destinations of that bot only. Counting
seats needs that accounts are finite, as a database's are (`FewAccounts`).

*Digests*, `DigestsAreSound`. Nothing in the code makes four senders exclude each other;
hours, destinations and `digestRun` do. `Orderly` is that argument: of somebody who is
`Calm` (nothing happened today that may repeat a digest, and his destinations are not both
on) at most one sender is at work, the job rings in his own hour only, and after his digest
it is recorded or about to be, and the hour past (`Served`). `Steady` holds without that
proviso: no digest is recorded ahead of the clock.

*Connections*, `ConnectionsAreSound`. `AskSound` is about a request after its await: unless
an edit was written over another (`lapped`), the row differs from what it read by edits,
which raise the revision and make `Updated` leave it alone, or by what was learnt since
(`Became`), which includes that a delivery was refused. So a check or an installation never
answers for other credentials than it was made with (`AnswersAreForTheirKeys`), and an
account is only ever set where there was none. That what is enabled was checked cannot be
proved, for it does not hold (section 3).

*Provider modes*, `ModesAreSound`. `OneBundle`: the clients in service were built at once from
one set of rows and from credentials that were accepted at start.

*Messages*, `MessagesAreSound`. `ShownIsCurrent` needs to know why the last row was not
overtaken: `LastRows` (a message points to its last row), `InFlight` (the row under way is
what the sender holds, and what may still be taken late has been given up), `TriesBounded`
(rows are tried in order, except those that failed before) and `Places`.

*Model calls*, `CallsAreSound`. `Measured` bounds the requests by the turns before this one
and the tries of this one; `CallsCounted` says that a known cost is what was paid, or, of
a client that omits the fee, lacks no more than the fee of its one reply.
*Searches*, `SearchKeepsItsWord`: `Accounted`, nothing was spent above the ceiling by a
source that is still at work, and only the model spends.

### Assumptions

Each is named in its module, and the runs evaluate them. The values for "none" (`None`,
`Absent`, `Nobody`, `Missing`, `Void`, `Never`, ...) are none of the rows, names or numbers they
stand beside, bounds are naturals, and what is counted is finite: foods, events, the
requests that overlap. `CallersAreClients`: the clients are those `Policies` describes.
`KitchenProofs` and `OperationsProofs` add none.

**Only model-checked.** Liveness (`EveryDeliverySettles`, `EventsSettle`, `ProposalsEnd`) is
out of the prover's reach, as is anything about `ENABLED` and induction over data. Every
invariant and every action property of the passing runs is proved. No module uses a
RECURSIVE operator.

## 6. Abstractions

* Texts, names, languages, keyboards and layout are left out everywhere; a message
  is its chunks, an item its status, storage, dates and duration.
* Model and search answers are chosen freely from small sets; the shelf-life cache
  only chooses an answer and is left out.
* The database is taken to be serializable between awaits. Writers that hold the
  SQLite lock across an await (section 8) can make another writer's commit fail:
  in `Outbox` that is `OutcomeLost`, in `Inbox` `WorkerDies`, in `Billing` the
  payment that is only logged.
* `Outbox`: what a row says does not change; `Messages` edits rows, and leaves out who
  may be written to and the chunks of a message.
* `Inbox`: identity links and shared conversations are in `Membership`.
* `Pantry`: names, categories, quantities and prices are left out; each photograph
  is one receipt, so that the reuse of receipt ids after an undo does not occur.
* `Billing`: receipts and actions are one counter; the cost breaker and
  the wording are left out; the rail charges and refunds in whole units.
* `CookSessions`, `MealPlans`: what a search returns is a free choice, scores and
  nutrition are left out, and of the cost only whether it exceeds the ceiling is kept.
* `CookedSheets`, `MealPlans`, `Shopping`: a recipe is the set of its ingredients.
* `Membership`: an invite or link that is used up is the same as none; the deployment
  is hosted and open for registration.
* `ConnectionAdmin`: the sign-in of the console, its audit log and a webhook's
  transport settings are left out; credentials are the account they belong to and a
  number, and a bot token is the workspace it is for.
* `ProviderModes`: the start of the setup console without credentials
  (`bin/run.py:477-479`), which serves no model client, is left out.
* `Digests`: one time zone; other members are the delay until one's turn.
* `ModelCalls`, `RecipeSearch`: prompts, schemas and fields are left out; a call costs
  one unit, a few, or an unknown amount, and the fee of a provider's own searches is one
  unit or none. Price lists are left out: which model costs how much per token.
* `Workspace`: texts, notices and files are left out; fewer workspaces than the 1000
  the process holds.

**Not modelled.** Rendering, localisation and commands (`renderer.py`, `i18n.py`,
`views.py`, `commands.py`) are functions from rows to text and back. Translations
and shelf-life caches are keyed by content, so that a row that is there is right and
one that is missing is computed again. The database's schema history and the wiring at
start (`db.py`, `bin/run.py`) keep no state of their own; what they fix (the busy timeout,
one task per update, recovery at start) is in the other modules. The writer lock is
taken into account only by its effect (first item above).

## 7. Running

    tlasany M.tla
    tlc -workers 2 -config X.cfg M
    tlapm OutboxProofs.tla
    tlapm InboxProofs.tla
    tlapm PantryProofs.tla
    tlapm KitchenProofs.tla
    tlapm BillingProofs.tla
    tlapm MembershipProofs.tla
    tlapm ConsoleProofs.tla
    tlapm OperationsProofs.tla

`PROJECT.json` names the module of each configuration. The longest runs take about four
minutes on two cores.

## 8. Plan

Every component with state of its own has a module. What is left, in this order:

1. The composition of `Inbox` and `Outbox`: a reply is an outbox row in the commit that
   says it.
2. A second generation of receipt ids.
3. `WriterLock`: transactions as intervals over awaits; which handler can starve
   which.
