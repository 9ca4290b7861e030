# A verification of loklflow

loklflow is a point of sale for restaurants: a NestJS API over PostgreSQL, and a
Next.js client that keeps working on a tablet without network. This directory holds
TLA+ models of its core, what TLC checks of them on small instances, and what TLAPS
proves of them for all. Paths are relative to the root of the repository; API stands
for `src/apps/api/src`, WEB for `src/apps/web/src`.

What is hard in this program is not in any one function. The handlers of the API
take no lock and, outside the inventory and the merge of accounts, no transaction:
each reads an entity, changes it in memory and saves it with TypeORM several awaits
later, while other devices do the same to the same account. The client sends
everything at least once: it retries what got no answer, and queues what could not
be sent. So the questions are what a save of a stale copy may destroy, what a second
delivery repeats, and what a restart leaves half done.

## 1. Inventory

### 1.1 API

| Component | State | Operations | Interacts with | Hard behaviour | Correct when |
| --- | --- | --- | --- | --- | --- |
| Accounts (`orders/orders.service.ts`, `order-totals.ts`) | `orders`, `order_items`, `order_status_history` | create, addItem, updateItem, removeItem, updateItemStatus, updateStatus, setTip, setDiscount, closeFromPayment | frees and occupies tables, writes stock off, is called by payments, discounts, quick sale, QR orders, the offline queue | saves of stale copies (TypeORM detaches children the copy does not know), repeated creation, two ways to close, restarts between steps | nothing acknowledged disappears; each status has its history row; one creation; the table is freed by whoever ends last; a closed account has its stock written off |
| Payments (`payments/payments.service.ts`) | `payments` | addPayment, summary | accounts (close), shifts | twins of one `clientRequestId`, two payments at once, restart before the close | charged once; what settles an account closes it |
| Quick sale (`payments/quick-sale.service.ts`) | none of its own | execute = create, addPayment, closeFromPayment | accounts, payments, shifts | a retry of each prefix, with another key | one sale, one charge, closed |
| Merge of accounts (`orders/orders-merge.service.ts`, `order-merge.ts`) | `merged_into_order_id`, `original_order_id` | merge, unmerge, each in a transaction | reads and saves accounts others are editing; frees tables | merges in a chain; payment or close of an account between check and save | lines are conserved; totals are those of the lines; undoing a merge gives back what it brought |
| Inventory (`inventory/*.service.ts`) | `ingredients`, `stock_movements`, `recipes` | record, adjust, setStock, addEntry, setMinimum, untrack, setForProduct, update, deactivate, consumeForOrder | called at the close of accounts; notifies | counts against sales, plain saves beside the row lock, a write-off that dies half way | the movements explain the stock; written off once; an alert per fall |
| Tables (`tables/tables.service.ts`) | `tables.status`, `status_changed_at`, `qr_code` | updateStatus, update, rotateQrCode, createMany, saveLayout | set by accounts, merge, people, the offline queue | replayed facts with `occurredAt`, saves of a table read earlier | an older fact never overrides a newer one; a replaced code orders nothing |
| QR orders (`public/public.service.ts`) | none of its own | createOrder | tables, accounts | the limit of open orders is counted, then the order inserted | never more than the limit |
| Reservations (`tables/reservations.service.ts`) | `reservations` | create, update, remove | none | overlap is checked, then the row inserted | no two live reservations of a table in one slot |
| Shifts (`shifts/shifts.service.ts`, `arqueo.ts`) | `shifts` | openShift, closeShift | payments name the shift they were made in | double click, payment between sum and close | one open shift per cashier; the stored total misses no payment but one under way |
| Discounts (`discounts/discounts.service.ts`) | `discounts` | request, approve, reject | sets the discount of an account, notifies | approved and rejected at once, the account changes between check and application | an approved discount is applied and stays |
| Sessions (`auth/auth.service.ts`, `token-version/token-version.cache.ts`, `auth/login-attempts.service.ts`) | `refresh_tokens`, `users.token_version` with a cache, attempts in memory | login, refresh, logout, bump | guards of every request | two refreshes with one token, logout against refresh, cache filled after a bump | a revoked session ends |
| Users, roles | `users`, `roles` | edits, which bump token versions | sessions | as above | as above |
| Notifications, realtime, audit | rows, socket events, log | notifyRole, emit, createLog; none of them throws | told by the others | an event says that something changed, never what | best effort |
| Menu and import (`menu/products-import.service.ts`, `menu/products.service.ts`, WEB/`lib/csv`, WEB/`components/admin/menu/import`) | catalogue, an advisory lock of PostgreSQL, the page's progress | import of a batch, edits of rows, reading and cutting a file | stock of products; prices are copied into the lines of an account | two imports at once, a lock taken and given back through a pool, a file sent again after a lost answer, a row half done | what is reported saved is in; a repetition changes nothing; no product twice |
| Business configuration, reports | one row, none | edits of a row, read-only SQL | none | none | none |

### 1.2 Client

| Component | State | Operations | Interacts with | Hard behaviour | Correct when |
| --- | --- | --- | --- | --- | --- |
| Offline queue (WEB/`lib/offline/outbox.ts`, `mutate.ts`) | IndexedDB table `outbox`, shared by the tabs | mutate, enqueue, drain, requeue, discard | replays to the API | lost answers, order per account, backoff, an expired session, two tabs, reloads, people at the tray meanwhile | nothing stated is lost; replays keep their order; the tray shows real failures; each operation is decided in the end |
| Offline cache (`lib/offline/cache.ts`, `apply-pending.ts`) | IndexedDB table `cache` | putMany, replaceCollection, views with the pending operations applied | filled by reads after socket events | an answer that left the server before an operation was queued, a seeding before the queue is known | what was opened here stays on the screen; the copy catches up with the server |
| API client (`lib/api/client.ts`) | cookie | apiFetch with one refresh | sessions | classification of failures | as far as the queue relies on it |
| Tray, provider, screens | React state | ask, confirm, retry; probe every 15 s | the queue | a dialog open over a row that changes | as above |

Service worker, shared types, migrations, deployment: no behaviour of their own that
another part depends on beyond the constraints modelled where they bite.

`PROJECT.json` lists each hazard at its line, with the properties that cover it, or
why none does.

## 2. The modules

```
OrderStore <- Checkout <- CheckoutProofs      Ledger <- LedgerProofs
                       <- Merge <- MCMerge      ^ (INSTANCE, refinement)
                                <- MergeProofs
                       <- Till  <- MCTill     StockLedger <- MCStock
                                <- TillProofs             <- StockLedgerProofs
Floor  <- MCFloor                             Sessions <- MCSessions
       <- FloorProofs                                  <- SessionsProofs
Outbox <- MCOutbox                            Screen <- MCScreen
       <- OutboxProofs
Import <- MCImport                            Csv <- MCCsv
```

An arrow is EXTENDS. Merge and Till compose what they model with every handler of
Checkout, and MCTill also has the scenarios in which there is nothing but Checkout; Floor,
Outbox, Screen, Import, Csv, Sessions and StockLedger stand alone, and each takes from
its neighbours only what its comments say.

### 2.1 OrderStore: one account and what a save does to it

An account is a record: its row with the children `findOne` loads (lines, history,
payments). The module holds the pure operations on it: the life cycle
(`ALLOWED_TRANSITIONS`), `assertOpen`, `computeTotals`, and `repository.save`.

`save` is modelled from how the entities declare their relations, as external code:
it *reloads* the row, *writes* the columns in which the copy in memory differs from
what the reload found, inserts the children that only the copy has, and detaches
those that only the row has. `order_id` is NOT NULL and no relation declares
`orphanedRowAction`, so a detachment is an error and the save fails
(`DetachesChild`). This is what protects the children from stale copies, and it is a
side effect of the schema: nobody wrote it down as a guard. A child whose row was
deleted between the two steps is updated in vain (`LineQty`).

A history row is told by its request and its status. A sale may close its account twice, in its
payment and once more after it, when somebody has opened it in between: `again` tells the second of
these rows from the first.

Prices are a constant function `Subtotal` of the quantities; texts, taxes and
modifiers do not matter to any property.

### 2.2 Checkout: the handlers of accounts and payments

A request is a process. `pc[r]` is its next database call or its answer, `mem[r]`
the entity it holds, `base[r]` what the reload of its save found. Each action is one
database call with the code up to the next one; a save is `Reload` and `Write`,
because READ COMMITTED lets others commit in between.

| Variable | Code |
| --- | --- |
| `db` | `orders` with `order_items`, `order_status_history`, `payments` |
| `tables` | `tables.status` |
| `consumed` | what `consumeForOrder` has written off for an account |
| `pc`, `op`, `mem`, `base`, `closing` | a request in flight: its position, its DTO, its entity, its save, whether it is inside `closeFromPayment` |
| `crashes` | restarts of the API: `Crash` ends every request in flight |

A device that retries is another request with the same operation: `op` maps several
requests to one. `rejected` is a 4xx, `error` a 5xx, `dead` no answer.

Left out: the shift of a payment (its cashier has one), audit and socket events
(they never throw), the notes, and merges (`mergedInto` is read, never set, here).
`consumeForOrder` is one step here; its own steps are in StockLedger.

### 2.3 Ledger and StockLedger: the inventory

`Ledger` is the abstract promise of the inventory: the stock of an ingredient moves
only by appending a movement that starts at the stock there was, and an account is
written off once per ingredient. `StockLedger` is the code, request by request: the
catalogue, the mirrors that give a product a stock of its own, recipes, counts,
deliveries, the write-off of an account in one transaction per ingredient, alerts
after the commit, and the saves of an ingredient outside any transaction.

The refinement mapping is `stock[i] = rows[i].stock` (`Books`), checked as
`KeepsTheBooks` and proved.

Amounts have the bound of their column, `MaxAmount`, beyond which an insert fails.
Left out: suppliers and the weighted cost. The mirrors and the recipes of a
write-off are read in one step; the code reads them with two queries at once. A lost
race on `product_id` and the read that follows are one step (`InsertMirror` says
why). The minimum of a new ingredient is 0.

### 2.4 Outbox: the offline queue

Facts are numbered in the order the operator states them. `ui` is what the screen
knows, `box` the IndexedDB table, `drains[t]` the drain of a tab: the copy it took at
its beginning, where it is in each partition, and the verdict that came back. A drain
sends the first operation of every partition before any answer comes; `Reply` is the
server and the way back, `Settle` the write of the outcome from the copy of the
drain, whatever the queue holds by then.

What the server does with a request that got no answer the queue cannot tell and the
module does not say: it may have been done, and be sent again. A late arrival after a
timeout is not modelled. `MaxAttempts` is the code's `MAX_ATTEMPTS` (8 there). The backoff is a flag that time clears, the probe of
`net.ts` the choice when to begin. Mutations that cannot be deferred never enter the
queue and are left out. `history` variables (`acked`, `refused`, `tries`,
`discarded`) are only read by properties.

A 403 is treated by the code like a 401. So an operation whose role forbids it never
reaches the tray and stops each drain: `EventuallyDecided` shows that the other
accounts progress all the same, because every drain sends one operation of each.

`HasLocks` stands for `navigator.locks`, absent on plain http; the runs have it.

### 2.5 Merge: merging accounts and undoing it, among the handlers

A job is a merge or an undoing, one READ COMMITTED transaction: `Load` reads and checks
the accounts, `Move` moves the lines and works out the totals from the lines it finds
*then*, `CommitJob` makes everything visible, and the tables are set afterwards, one
statement each (`SetTables`). From `Move` to the commit the transaction holds the rows
it has written. The handlers of Checkout that write one of them wait (`Waits`), those
that read do not; two transactions that wait for each other are a deadlock, of which
PostgreSQL ends one (`Deadlock`).

Once lines move, a handler may hold a copy of an account that no longer has the line.
TypeORM finds a line by its id, so the save of such a copy updates the line where it is
now (`EditsElsewhere`), or writes `order_id` back and takes the line with it
(`TakesBack`); `save(item)` always does the latter (`SaveLineBack`), and a deletion
reaches the line wherever it is. These are in `WriteAcross` and its neighbours.

Variables beyond Checkout's: `job`, `work` (the accounts as the transaction knows them),
`moved`, `freeing` (tables still to set), `origin` (`original_order_id`). `took`,
`chained`, `strayed` and `noisy` are history: what the last merge of an account took,
accounts whose main account was merged in turn, those of them whose merge was undone all
the same, and tables whose accounts two requests worked on at
once. `noisy` states the condition of two properties: the code promises that the
accounts add up when requests at a table come one after another, in any order and with
restarts, and it does not promise it when they overlap (section 5).

### 2.6 Till: the counter, the shifts and the discounts

A sale at the counter is one request that runs three handlers of Checkout in turn; here
`op[r]` becomes the creation, then the payment, and `stage` says in which part the
request is, so that Checkout's answer `ok` is a step of the sale rather than its end.
Opening and closing a shift, asking for a discount, approving and rejecting it are
requests of their own (`job`). A payment reads the open shift before it is inserted
(`ReadShift`). A discount that the threshold grants, or somebody approves, goes on as
`setDiscount`.

There is one cashier, whose role grants `Threshold` percent. `shifts` and `discounts`
are the tables, `counted` what `closeShift` has summed up, `granted` (the amounts somebody
approved) and `met` (pairs of requests, one of them of the counter, that were under way at
once) are history. A scenario says which operations of Checkout and which jobs
there may be (`ops`, `casts`), and whether a shift is open at the beginning (`shifts`). The rest of the report of a shift,
the people and the notifications are left out.

### 2.7 Floor: tables, reservations, guests

Tables have a status, the time the server last *stored* one, a code and a flag;
reservations a table, a time and a status. Requests are processes as in Checkout, and
saves reload and write as in OrderStore, except that a row that has gone is inserted
again (`Merged`). A reservation is loaded with its relation `table`, and TypeORM takes
`table_id` from the relation and not from the `tableId` that `update` assigns: a
reservation is checked at the table asked for and stays at its own (`Rebook`, `Edited`). `now` is the server's clock; `SaneOccurredAt` drops times too old
(`MaxAge`) or too far ahead (`Ahead`), and the clock of a device may say anything. A
guest's order is found by its code, counted against the bound and inserted; `OrderEnds`
is the staff closing it, for which Checkout has the details. `Formed` is what the forms
let in; a behaviour starts with a code per table, no status stored in the future and no
table booked twice (`ScenariosAssumption`), which creation and the unique index give.

History: `fact` (when and by whom the last applied change of status was), `retired`
(which rotation replaced which code), `revived` (reservations brought back from
`cancelled`), `diverted` (reservations given a time or brought back by a request that
had another table checked), `placed` and `met`. Left out: creation of tables and sectors, positions,
names, party sizes.

### 2.8 Screen: the list of accounts on a device

`copy` is the collection `orders` of the IndexedDB store, `server` what the API has,
`queue` the pending operations (Outbox has the rest of the queue; here one tab drains).
A mutation that gets no answer is queued, and then the screen writes its effect into
the copy, for a new line by reading the row and putting it back with one line more
(`ReadLocally`, `AddLocally`). Nobody looks whether the row has the line already
(`Appended`), so a row is the set of its lines and the set of those that stand twice; `late`
is history, the accounts with a row written here for what the server had done. The copy is replaced by two: the reload 150 ms after an event of the
socket (`Timer`, `Answer`, `ReadCopy`, `Put`), which asks the queue what to protect once
its answer is there, and the seeding with what the server component brought (`seed`),
which protects the ids the view was last rendered with. Each await is a step.

Assumed: answers to reloads arrive in the order of their requests; the 150 ms timer is
longer than a write to IndexedDB; the operator states one thing at a time and sees it on
the screen before saying more about it. The network fails for everything at once;
events sent meanwhile are lost, and the reconnection of the socket reads the list again.

### 2.9 Import: a file of products

The client side is `desk[c]`: the page of `import-products.tsx` sends the batches of its
file in order, adds up what it is told and stops when an answer is lost; the person may
begin again. An import at work on the server is a slot, `imp[s]`: its next query, the rows
left, and the index by name that it read at the start and keeps itself.

The lock needs the pool, because `dataSource.query` runs each statement on whatever
connection the pool hands out: `idle` is the pool's stack (the connection given back last
is handed out first), `busy` the ones other requests hold in a transaction, `depth[n]` how
often the session of connection `n` has the advisory lock, which a session may take again.
A statement takes a connection and gives it back in one step; the transaction of a row
keeps its own from `ReadRow` to `SaveRow`, and so does a save of a mirror from the reload
to the write. `CloseIdle` is `idleTimeoutMillis`.

The catalogue is `products` (with the mirror that keeps a product's stock) and
`categories`. A minimum is set on the mirror that `ensureMirror` read or made, which is
then saved without a lock: `FindMirror` or `CreateMirror`, `ReloadMirror`, `SaveMirror`. A
mirror that is no longer kept is first saved as kept, in the same way. Between these steps
another import, a sale or `untrack` may change the row, and the save writes back every
column in which its copy differs. The staff create, edit, delete and untrack products and sell them (`Staff`);
an edit reads the product, or `untrack` the mirror, and saves it whole in two steps. History: `overlap` (two imports
were at work at once), `handmade` (the staff created a product), `quiet[c]` and `settled`
(nobody else has changed the catalogue since the client began; what it was when a file had
gone in whole), and `putBack` (products whose mirror got an older column back from a plain
save). Left out: texts, costs and modifiers of a product, and the accents a name
is compared without.

### 2.10 Csv: from the file to the batches

The text is read one character at a time, with the automaton of `parse.ts`; a cell is a
sequence of the characters that mean something to a CSV, the digit `1` and `x` for all
others. Before that stand the writers: the export of the API (`Mark`, `sep=`, quoting) and
what a spreadsheet would save with any separator, end of line and last line. After it the
preview (`BuildPreview`), reduced to what makes a row an error, and `chunkByBytes`. A
price is right if it has a digit; the decoding of the file's bytes is left out.

### 2.11 Sessions: tokens, their renewal and their version

One person, several devices. `rows` are the renewable tokens in the order in which they
were stored, `jar[d]` the two cookies of a device, `cache` the entry of
`TokenVersionCache`, `version` and `role` the person's row, `granted` the permissions of
each role. A token carries the version, the role and the permissions that `issueTokens`
read one after the other.

A request of a device is `Send`, the guard (`AskVersion`, `ReadVersion`, `KeepVersion`:
the entry is written when the query comes back), and the answer; a refusal is followed by
one renewal with what the jar holds *then* (`Refused`), which finds the token, uses it up,
reads, inserts the next one and prunes, each a query of its own; then the request is sent
again. A logout revokes every token of the person. The edits that make a token out of date
are `assignPermissions` (delete, store, `bumpByRole`) and `users.update`, whose save
reloads and writes as in OrderStore. A query may fail, an answer may be lost, the API may
restart: `troubles` in all, while at most `MaxSent` requests have been sent.

A page that is opened is a request of its own (`OpenPage`): the proxy of the web, and the
layouts after it, let it pass with an access cookie that has not lapsed and otherwise send
it to the login, without a look at what could be renewed. `redirected` is this answer, and
`bounced` the one of a request whose renewal was refused.

History: `marks[r]` says whether an edit, or another renewal of the same device, was under
way at the same time as `r`; `wasted` are the tokens used up for an answer that never
came; `rows[i].of` is the token that token `i` was given for, so that those for which none
was given (`Tips`) stand for the sessions, however often each was renewed; `rows[i].near`
counts the requests that were about to prune when it was stored; `torn` says that two edits
met or one was cut short. Left out: what is typed to log
in and the lock after failed attempts, the expiry of renewable tokens (an access cookie may
lapse at any time), deactivation, the socket and the replay of the queue, which does not go
to the login.

## 3. The runs

Requests are symmetric, and in `import_file` the slots and the connections; nothing else is
declared so. Deadlock is not checked: every process here may be done, and then the system
rests.

| Run | What it asks | Bounds |
| --- | --- | --- |
| `till` | of accounts and payments: one charge per key, one creation, acknowledged lines stay, each status with its history row, no child detached, the table freed by whoever ends last, closed accounts written off, no debt but by an edit; of the counter: a sale answered with success is closed and paid, a sale sent again resumes, the drawer misses only overlapping payments, approvals stand | three requests, three accounts of which two at one table, two lines, two keys, one restart; nine scenarios: ending one account, editing one meanwhile, ending two at one table, opening one; a sale sent again among shifts and a payment; a sale sent again while its account is cancelled, or tipped and taken by the kitchen; a discount waiting among payments and an edit; two discounts of an account paid in part, with a tip; threshold 50 % |
| `merge` | every line stays in one place; accounts and tables at which requests come one by one add up; undoing gives back what the merge took | three requests, of which at least one merges or undoes, three accounts at three tables, five lines, merges onto either neighbour and of two at once, eight operations of Checkout, one restart |
| `floor` | kept facts never go back; no double booking; replaced codes order nothing; guests' orders are bounded | three requests, two tables, two reservations, clock to 3, facts of time 0 and 2 believed to age 2 and 1 ahead, slots of 1, one order per table |
| `stock_moves` | StockLedger implements Ledger (`KeepsTheBooks`); exact counts; a write-off that died half way is completed by the next; one alert per fall to the minimum (`EachDipIsAnnounced`) | three requests, one fault, amounts to 3 |
| `stock_mirrors` | nothing written off twice for an account while products begin and cease to be tracked and recipes change | three requests, one fault |
| `stock_stale` | a violation: `LedgerExplainsStock`, which a comment promises (section 5) | two requests: a minimum set and a delivery entered |
| `outbox_drain` | replays in line, an honest tray, nothing acknowledged sent again, and every operation that may be decided is decided | three facts, the last of another account and always forbidden, two tabs, two attempts; the operator waits for an outcome before the next fact |
| `outbox_tray` | nothing queued is lost while tabs are reloaded, taps overlap and people retry and discard | two facts, one tab, one reload, one attempt |
| `screen` | what was opened here stays on the screen; the copy catches up with the server | one account known to both sides, edited and closed elsewhere, one opened here with a line added and one made ready; one outage, one reload at a time; no seeding |
| `sessions` | requests are served with the rights of the moment; a renewal sends nobody to the login but for a logout, an overlap, a lost answer or as many newer sessions as may live, and what was renewed is not refused again | one person, two devices, two live tokens, three requests: calls of both devices and a grant, or two calls of one device and a page, a login or a logout anywhere or a move to another role; one trouble while one request has been sent |
| `import_file` | what is reported saved is in the catalogue; a repetition changes nothing; no second product of a name while imports do not overlap; nobody waits for ever at the pool (`NobodyStarves`) | one file of two batches of one row, one with a stock and a minimum and one with a stock, sent twice over three catalogues: empty, with both products and their stock no longer kept, or with a recipe and a doubled name; two troubles among lost answers, restarts, other transactions, edits and sales, two connections |
| `csv` | a written table is read back as it was; a repeated name is sent in no row; batches keep to their limits and lose no row | every pair of cells of at most two characters out of seven; tables of four to six rows of the cells that are hard to get right; names of one character or more, batches of nine bytes and two rows |

Why the bounds are enough to be interesting. Each race of two handlers needs a third
request only as the one that made the state, and the scenarios start from such
states; three requests allow the third to change what the other two have both read, and
in `merge` to merge what the second has merged, or to undo it. Quantities up to 2 tell
"the same", "changed" and "gone" apart. One restart is enough since a restart leaves
nothing in memory; two attempts tell "again" from "for the last time". Two facts of one
account are what order is about, the third, of another account, shares only the lock and
the session. A clock of four values has a fact before, at and after a stored one and one
too old to be believed. One reload at a time leaves out that an older answer overtakes a
newer one, about which section 5 has a note. Two connections are the least with which a
lock can be taken on one and given back on another; every transaction of an import needs
one and nothing it holds needs a second, so fewer would only wait more. A cell of two
characters has every character beside every other, inside a cell and across the separator,
and the automaton looks one character ahead.

Many properties have the form "unless two requests overlapped". That is not a
weakening for the sake of a run: these handlers do lose such races, section 5 says
which, and what the properties state is the claim that every *order* of requests, retries
and restarts keeps. The overlapping behaviours are in the same runs,
so what is claimed of them without exception (`LinesConserved`, `AddedLineStays`) is
checked against them.

Fairness is assumed in two runs, `outbox_drain` and `screen`. In `outbox_drain` on `Begin` (the provider drains every
fifteen seconds while the probe answers), on `Reply` and `Settle` (`fetch` ends in an
answer or an error, a write of IndexedDB completes) and on `Elapse` (the clock runs).
Nothing is assumed of the operator or of the server's goodwill: it may answer with 5xx
until the attempts run out. `EventuallyDecided` is about behaviours where somebody stays
logged in from some point on. In `screen` weakly on writes of IndexedDB, the timer, the
rendering, the end of a request (in an answer or a failure) and the reconnection of the
socket, and strongly on the drain being answered: it repeats every fifteen seconds, and a
network that always loses the answer is not one that is there. `CatchesUp` is about
behaviours where the network stays from some point on and nothing is refused: a refused
operation is a decision of people, in the tray. It leaves out accounts that are `late`: once the server has done an
operation whose answer was lost, sending it again brings no event, and the row that was
written here in the meantime is corrected by the next reload only, if there is one. Elsewhere the API has no
fairness: nothing there is promised to end, a restart may end it.

Type correctness is a theorem for Checkout, Till, StockLedger, Floor, Outbox and Sessions and
is not checked again by the runs. `TypeOK` of Import describes its state; it holds in
`import_file` when added to it.

## 4. What is proved

TLAPS checks these for every value of the constants under the named assumptions of
the modules.

**CheckoutProofs.** `TypeCorrect`: types, for any requests, accounts, scenarios. The
inductive invariant is `TypeInv`, which adds which handler can be at which step
(`StepsOfKinds`): a write-off has an account to write off, and only a payment or a
discount is ever inside `closeFromPayment`.

`StatusHistory` and `NothingDetached`: a status changes only with its history row, and
no save loses a payment or a history row, although every save is of a copy that may
be stale. The invariant is `HistoryInv`: a row of history that names request `r` does
not exist before `r` saves (`Unwritten`); at `reload`, if the copy knows the same
history as the row, it has the same status, unless it brings the change with its own
row (`Known`); after the reload, the copy contains every child the reload found
(`Merged`). The last is `DetachesChild` at work: a save of a copy that misses a
history row is an error, so a copy with an older status never gets past the reload.
Without it neither theorem holds, as the mutants of `DetachesChild` show.

`ExactlyOnce`: a `clientRequestId` is charged at most once, and a payment answered
with success is in the table. `ChargeInv` adds that every request past its insertion
has its row, which needs `NothingDetached`: a charge, once there, stays.

`CreatedOnce`: one creation per account. An account is absent exactly while it has no
history, and one row of it opens the account (`Accounted`); whoever has got past finding or
inserting its account has one (`Present`); only a creation saves a copy that opens an account,
and it gets past its reload only where that found none (`Saving`). That the loser of two
creations at once opens nothing a second time is again `DetachesChild`.

`AddedLinesStay`: a line whose addition was answered with success stays until a deletion.
No save takes a line away, because its copy knows every line that the reload found or it would
have failed (`KeepsLines`); and from the write on, the line is in the row or somebody asked to
remove it (`Added`).

`TableIsFreed`: `SomebodyFrees` says that a table without open accounts is available or some
request that ended one of them is still on its way to count and free it; `Bringing`, that an
account is only ended by a request that goes on to do so. The last of two that end at once
counts zero, since both counts come after both writes or one of them sees the other. The
exceptions are in the property: restarts, and a table at which a creation arrived (section 5).

`ClosedAccountIsConsumed`: an account that nobody edited has the lines it was closed with in
every copy (`CopiesAlike`), and once closed it is written off or somebody is about to
(`SomebodyConsumes`).

`ClosedOwesNothing`: a closed account is paid unless somebody asked to edit it, whatever is charged,
sent again and closed at once (`DebtNeedsAnEdit`). In an account without edits every copy has the
total of the row (`CopiesPriced`), payments only come (`NothingDetached`) and are money (`Cashed`),
so whoever closes it, by a payment or by hand, judged a sum that can only have grown since
(`ClosedSettled`). That a larger set of payments is worth no less is `WorthGrows`. The library's sum
(`Worth`) is a function chosen by a recursive equation on the subsets of a set. Induction theorems
are out of reach, so the lemmas that such a function exists, that any two agree and that they add
up go by a least counterexample: among the numbers of elements at which one fails there is a
smallest.

**LedgerProofs.** In the abstract ledger the movements explain the stock
(`LedgerExplains`) and an account is written off once (`LedgerWritesOffOnce`), by one
inductive invariant, `BooksInv`.

**StockLedgerProofs.** `TypeCorrect`; `WritesOffOnce`, with every operation, whatever
fails; and, under `NoPlainSaves` (no setMinimum, untrack, update or deactivate, no
ingredient out of use at first), `ImplementsLedger`: the code's specification implies
the abstract one under the mapping, by a step-by-step argument with `LedgerInv`.
`ExplainsStock` then follows from `LedgerExplains`. The condition is needed: the run
`stock_stale` shows what one plain save does.

`CountsExactly`: right after a count was written its movement ends at the amount counted,
whatever was sold between the reading of the person and the lock (`CountInv`). `WritesOffInFull`:
a write-off answered with success has left out no ingredient of its plan: what it has not
written it found written, by an earlier attempt or by another request (`WriteOffInv`).
`AnnouncesEachDip`, under `NoPlainSaves`: without a fault, a movement from above the minimum
to it or below is announced or its request is about to (`DipsAreHeard`), and nothing
else is announced (`OnlyDips`); so between two announcements the stock was brought back, as the
movements start where the last one ended. It needs that a request knows the minimum there is
(`MinimumIsKnown`), hence the condition.

**FloorProofs.** All four properties of Floor, for any requests, tables, reservations,
bounds and clocks, by one inductive invariant, `IInv`. Its core is `MeetInv`: two
requests under way have met. So a handler that met nobody ran alone from its first read
to its write, and what it read still holds (`NobodyElse`); everything else says what
that is. `FreeToInsert` and `FreeToWrite`: the place it found free is free, and the
reservation it moves is as it read it, so that the place it is given was found free
unless another table was asked for (`NeverDoubleBooked`). `RoomForOne`: besides the
orders it did not meet there is room for one (`GuestsBounded`; of cardinalities the
proof only takes one element away). `TimesHavePassed`, `FactsAreOlder`,
`AppliedIsNewer`: what was stored about a table is never older than its last fact, in
the row and in every copy somebody will save (`FactsInOrder`). `CodesAreOwned`,
`CodesAreFresh`, `TablesAreRead`, `CodesAreGone`: a code belongs to one table, nobody
has it before its rotation writes it, and once replaced by a rotation that met nobody
it is in no row, no copy and no order under way (`OldCodesAreDead`). The exceptions of the
properties are exactly where the argument needs them: `MetSomebody` wherever `NobodyElse`
is used, `revived` where `Rebook` does not check, `diverted` where it checks another table
than the one that is kept.

**OutboxProofs.** `TypesHold`. `NothingIsLost`: what the screen called queued is in the queue, in the
tray, taken by the server or thrown away by a person, for any facts (finitely many, as
`FactsAreFinite` says), tabs and partitions, with locks or without, with the tray in use
and tabs reloaded. A drain writes its copy over whatever the queue holds, so the
invariant `IInv` is about the copies: what is about to be written is an operation that
was pending when the drain began, and it is removed only when the server took it
(`SendInv`); an entry that waits has an attempt left, in the row and in every copy
(`BoxInv`, `CopyInv`). `TrayIsHonest`: while nobody puts anything back from the tray
(`~Tray`), what is in it was refused or sent as often as agreed. No row and no copy counts
more attempts than there were sends without a decision (`Counted`), and a verdict that is
not written yet is already counted (`Judged`); a person who retries counts anew, hence
the condition.

Under `HasLocks` and `~Tray`: `ReplaysInLine`, nothing is sent while
an older operation of its account waits, and `AcknowledgedOnce`, nothing is sent again
after a drain has read a favourable answer for it, while no tab is reloaded (an answer that is
lost is no answer: then it is sent again). With the locks one tab drains at a time
(`OneDrain`), so a copy differs from the queue only by what was queued since, with larger
keys (`KeysInv`, `Latecomers`); hence what the drain is at, the first of its copy, is also
the first of the queue (`Foremost`). What was acknowledged is out of the queue or about to
be taken out, and the drain has passed it (`AckInv`). Both conditions are needed: a retry
brings back an old key behind a drain, and two drains send one row twice.

**SessionsProofs.** `TypesHold`; `ServedAsOfNow`: whoever is let pass and met no edit is served
with the role and the permissions of the moment; `KeptIn`: nobody is sent to the login but for
one of the reasons `StaysIn` lists. For the first, a request that has noted no edit runs beside
none and what it read is as it was, and a cache entry made so has the version of the moment
or is about to be dropped (`ReadInv`); while edits come one at a time, a token that tells
another role or other permissions is refused by its version, or will be when the edit that made
it wrong raises it (`TokenInv`). For the second, one device holds a renewable token, so two
renewals with it overlap and both note it (`HandInv`). What is pruned is older than as many
sessions as may live (`PruneInv`): a token for which another was given is never live again
(`GivenUp`), so the live ones that `Stale` counts are tokens without a successor
(`LiveAreTips`), and of these a renewal makes no more, since the one it adds takes the place of
the one it was given for (`CrowdedStays`). So the renewals of one device, however many, push
out no other. The redirect of a page is not part of this claim (section 5). And what has just been
renewed is current, unless an edit was met (`RenewedIsCurrent`).

**MergeProofs.** `LinesStay`: while accounts are merged, undone, edited and saved from stale
copies, at once and with restarts, each line is in one account until somebody deletes it.
The invariant `LineInv` needs little of an account (`Shapes`). `OnePlace`: a line has one account.
`CopiesAreWhole`: at the write of a save, every line that the row had at the reload is in the
copy, which is `DetachesChild`. `MovedAreThere`: what a transaction is about to move at its
commit is still somewhere, which rests on the row locks (`Waits`): from `Move` on nobody saves
an account it has written. A deletion is the only way out.

`MergesAreUndone`: undoing a merge gives back what it brought (`UndoRestores`). While requests
stay apart (`Calm`, `Apart`), a copy is the account but for what its own request edits
(`CopyIsCurrent`), so no save takes a line back or edits it elsewhere (`CalmHandles`), and what a
job has checked and worked out still holds at its commit (`Checked`, `WorkedOut`). What an undoing
moves is found by origin, so the invariant says what origins mean (`LinesAreKnown`): a line with
an origin is in the account its origin was merged into (`OriginsHold`), so merged accounts are
empty; for an account that is not chained, the lines with its origin are those its merge took
(`TookHold`). The last is broken by a line that comes into being anew with the id of one that was
taken and deleted, so it has to say whose line that id is, and where an id can turn up at all
(`HomesHold`). Each step of a handler adds at most a line of its own (`Touches`); a commit moves
lines between the accounts of its job and no others (`CommitLeavesOthers`).

`TablesMatch`: a table is occupied just when it has an open account of its own, however many
accounts share it (`QuietTablesMatch`). Here nothing is asked of other tables, so the invariant,
`MatchInv`, goes table by table: a table is `Clean` while no two requests met there, none died
there and no ended account was brought back, and then at most one request is at work at it
(`AloneThere`). `Fits` says how far the table may be from its accounts at each step of that
request: a handler (`HandlerFits`) leaves them apart only from its save to its last look at
the table, a job (`JobFits`) only from its commit until it has set that table. So every step has to
be judged only at the tables of its own request (`OwnTablesDecide`), and a request that arrives
where another works ends the claim, as `noisy` notes it.

`QuietAddUp`: once nobody works at a table where no two requests ever met, each account there asks
for what its lines come to, and a merged one has no lines, no payments and nothing to pay
(`QuietAccountsAddUp`). The danger is a request of another table that saves a line which lives
here by now. `CountInv` rules it out in three parts. Noise spreads over all the tables of a
request (`NoiseSpreads`), so at a quiet table at most one is at work. A line has one site, the
account that has it or whose request knows it, unless its sites are noisy (`OneSite`); it is away
from the account it was added to only if that one is merged, in every copy that may be saved
(`SitesHold`, `StaysMerged`), and a merge takes lines of its sources only (`MovedHere`). What
remains is sequential: the row adds up but for a removal that has not counted yet (`BooksFit`), the
copy of a request is the row with its edit (`HandFits`), and a transaction has worked out just
what follows from what is there (`TransactionFits`). An undoing may reach into every table, so it
is quiet only if nothing is noisy, and then the origins of `RestoreInv` say what it moves (`UndoAlone`).

**TillProofs.** `DiscountsStand`: the discount of an account is one somebody approved, and once
an approval was answered with success there is one, unless a request about the account's
discounts met another that was not about discounts (`Undisturbed`). Two requests of which one
belongs to the counter, both under way, have met (`HaveMet`); so an undisturbed account is saved
only by requests about discounts, each of which brings an amount that was granted
(`OpsAreGranted`, `StoredAreGranted`). Once the amount is in the row, no copy about to be saved
takes it away (`AppliedStay`), because a copy read before it loses at the columns only if it
differs from what its reload found, and what the reload found with a discount still has one
at the write (`FoundStay`). `Control` says which handler of Checkout a job can be in.

`TillTypes`: the types of the counter's state, with the steps each kind of job can be at
(`TillInv`), which every further argument starts from.

`DrawersCount`: a shift is closed with every payment of it but those of requests that were under
way while it was being closed, and with nothing that was not paid in it. What a request that
closes has counted (`CountsFit`) is at most the payments of the shift, and at least those of
requests it did not meet: a payment that comes after the count is of a request still under way,
so the two have met (`LateHaveMet`). Two may close one shift at once; what is stored is what
the later one has counted, to which the same applies (`CloserFits`, `ClosedAreCounted`).

`SalesSettle`: a sale answered with success has left its account over, and paid if it is closed,
whichever of its retries, its twins or other terminals created, charged or closed it and wherever
a restart cut them off. `SaleInv` is about accounts that nobody asked to edit (`Quiet`).
Their total never changes, so every copy that may be saved carries it (`CopyFits`), a sale that
charges charges all of it (`ChargesOwn`, `StageFits`), and who closes such an account found it
settled. The danger is the creation sent again, which would write an account of before over the one
that was paid: it cannot, because the row of history that opens the account is not in
its copy and the save fails (`CreationFits`). `AfterTheSale` says that a sale past its payment
leaves the account over, unless somebody asked for another status.

`SalesResume`: a sale sent again while nothing else goes on ends charged once and closed, from
wherever the sale before it stopped. A request that moves beside a sale has met it
(`NobodyElseMoves`), so what a sale that met nobody read still holds when it writes: its copies
are of the row as it is (`CreatesAlone`, `PaysAlone`), no save of it fails and no guard refuses
it. What it finds is either an account with no payment, which it charges in full (`StageFits`),
or one with the payment of its own key, which is that of an earlier attempt and covers the total.
`AloneInv` adds what a reload needs not to detach anything, that an account nobody opened has
neither lines nor history, and that a key was charged once.

**Only model-checked**, and why.

- Import needs lemmas about sequences of batches, Screen about `SelectSeq`, for which the
  library has none.
- Csv is recursion over text and RECURSIVE where TLC needs it: what the automaton computes for
  every input is an induction over data.
- Liveness (`EventuallyDecided`, `CatchesUp`, `NobodyStarves`) stays with TLC for good: TLAPS has
  neither ENABLED nor fairness.

Assumptions on constants. They say that names are distinct from `None`, that sets which must
be finite are (`FactsAreFinite`, `FiniteAssumption`), that bounds are numbers and operations
records of their kind, and with what a behaviour starts: accounts that are absent exactly if they
have no history, and then no lines, with one row of it that opens them, none written by a request, finitely many
payments, no key charged twice, and no debt where they are closed (`InitialAccountsAssumption`);
operations that the DTOs let in (`OpsAssumption`); a line in one account, since its id is a primary key
(`LinesAssumption`), totals that are those of the lines at first, where a sum over no lines is 0
(`TotalsAssumption`, `NothingCostsNothing`), and a device that makes the id of a line for one account, with nothing merged
at first (`HomesAssumption`); merges of at least one source whose main account is none of the
sources (`MergesAssumption`), discounts above zero, and sales of some quantity of a line, with a
key (`CastsAssumption`), which the handlers and DTOs check before anything else. A mark for
"not read yet" is no shift (`UnreadIsNoShift`), and a threshold is a percentage. TLC evaluates all of them in the runs.

## 5. Where the code and its documents part

One has a run that ends in a counterexample and an entry under "findings":

- The plain save of a minimum puts back an older stock without a movement (`stock_stale`;
  `product-stock.service.ts:195`, where `stock.service.ts:93` says there is no such way).

The rest was met while modelling. The modules contain the steps, and the properties name
the exception where they need one; no run states it by itself. Five stand out, since each
contradicts a comment. Without the exception that is named, TLC finds the first three as
counterexamples in the runs of section 3, within a minute.

- The same save makes a repeated import lose: an import that was given up goes on and
  writes the stock it had read over the one the repetition has set and reported
  (`products-import.service.ts:240` says that passing the file again recovers the stock).
  `ReportedRowsAreIn` leaves out the products this happened to, `putBack`.
- A reservation that is moved to another table keeps its table. `update` assigns `tableId`,
  but the entity was loaded with its relation `table`, from which TypeORM takes the column
  (`reservations.service.ts:40`, `:83`, `:91`). If the time changes as well, the new table was
  checked and the old one gets the reservation at that time: two reservations of one table,
  with nobody overlapping (the comment at `:68` means to leave no back door).
  `NoDoubleBooking` leaves out what was `diverted`.
- A line whose addition was done without its answer coming back, and that a reload has
  brought, is appended a second time, and sending the addition again brings no event that
  would correct the row (`optimistic.ts:53`, where `:14` says the one from the server replaces
  it). `CatchesUp` leaves out what was written `late`.
- A page mounted over a queue with an account opened offline deletes that account from the
  screen: the first seeding runs before the queue has been read (`use-cache.ts:57`, whose comment
  at `:51` calls seeding again harmless; also `docs/OFFLINE.md:187`). `screen` mounts its pages
  with no list to seed; given one (`Initial`) and a queue from before (`Leftover`),
  `OpenedHereStays` is violated.
- A page opened after the access cookie has lapsed goes to the login although the device
  could renew (`proxy.ts:43` and the layouts, through `getServerUser`), where
  `auth.service.ts:251` explains that nobody should end up there in the middle of a shift.
  `StaysIn` is about requests, not about pages (`redirected`).

*Accounts and payments.* An edit that commits between the judgement of a payment and its
close leaves an account closed with debt (`orders.service.ts:289`; the exception in
`DebtNeedsAnEdit`, and likewise what `ClosedIsConsumed` leaves out). Two partial
payments at once settle an account that neither closes (`README.md:164` of the
repository). A restart between payment and close leaves a paid account open, and the
payment sent again does not close it (`payments.service.ts:38`); QuickSaleService
repairs this for its own sales. A restart between close and write-off leaves stock that
nobody writes off. An account created between the count of a table's accounts and the
update leaves its table `available`. The other way round, a creation reads the status of the
table (`orders.service.ts:185`) and occupies it after its save: an account cancelled in between
frees the table first and leaves it occupied with nobody at it (`EmptyTableIsFreed` leaves
out tables at which a creation arrived). A line that is cancelled, or served after all, is
saved alone (`orders.service.ts:463`), so the account goes on asking for the total of before until
its next edit; so does one whose removal of a line a restart cut off before the totals
(`QuietAccountsAddUp` leaves both out, `Recounts`).

*Merge.* After A is merged into B and B into C, undoing A restores nothing, because the
second merge overwrote the origin (`orders-merge.service.ts:156` calls the way back
exact; `UndoRestores` leaves out `chained` accounts). A is then open without its lines, so
an `addItem` of A that the queue sends again does not find its line there and inserts it by id:
the save takes it from C, and undoing B gives back less than B brought (`orders.service.ts:237`
looks in the account only; `UndoRestores` leaves out what follows, `strayed`; the attempt to
prove it without found this). Nobody counts C anew, so its total goes on asking for the line it
lost (`QuietAccountsAddUp` leaves `strayed` out too: it takes four requests, two merges, an
undoing and the addition, one more than the run has). The save of a line, or of a copy
read before the merge, takes lines back to the merged account. A payment inserted after
the transaction has read the payments lands on the merged account. An account can be
cancelled while it is merged, and undoing the merge then occupies its table although nobody is
at it (`QuietTablesMatch` leaves out what was `Revived`). Undoing the
merge of a main account that was paid in part leaves more paid than its total.

*Counter and discounts.* An edit saved between the payment of a sale and its answer leaves the
sale closed with a debt, or open, and the sale is answered with success all the same; a change of
status by the kitchen that read the account before it was closed and is saved after that opens it
again (`SaleIsSettled` leaves out both; `quick-sale.service.ts:133`). The save of an edit that read the account before an approval
writes the old discount back (`discounts.service.ts:116`). It can happen long after that
edit: a second approval that pays the account off closes it from the copy it reads then, which
may be the one such an edit was about to leave. `ApprovalsStand` states the approval only
for accounts `Undisturbed` by requests that are not about discounts. Approve and reject at once both answer with success. An approval
beside a payment can leave the total below what is paid (`README.md:167`). A role
without `max_discount_percentage` is "sin límite" in `docs/DATA_MODEL.md:30` and
`:34`, and 0 in `discounts.service.ts:246`. A payment that overlaps the close of a shift is missing
from its total (`docs/OFFLINE.md:36` speaks of the late ones).

*Floor.* A newer fact about a table can be dropped, because it is compared with the time
the last one was stored and not with when that one happened (`docs/OFFLINE.md:136`,
`tables.service.ts:126`): two facts replayed in a row by one tablet suffice. A
reservation brought back from `cancelled` is not checked for overlap
(`reservations.service.ts:68`). A stale save brings back a status or a code, and
re-inserts a table that was removed. `update` with a status leaves
`status_changed_at` alone. More orders of guests than the bound, if sent at once.

*Import.* The advisory lock is taken on one connection of the pool and given back on
another. A second import whose query happens on the same connection obtains it too, and
both create the same product (`products-import.service.ts:69`; the comment at `:64` says
they are taken one at a time; `NoTwinAlone` leaves out imports that overlap). The same lock
stays held by an idle connection after its import is done, and the next import is refused
although none is at work (`:75`). A row whose stock fails is reported as not saved with its
price already in the catalogue (`:53`).

*Sessions.* Two renewals of one device at once send the second to the login, where
`auth.controller.ts:69` expects several renewals when a token lapses under several open
screens; a renewal whose answer is lost does the same to its device. `issueTokens` reads
the permissions before the version: an edit in between is signed with the version it
has just raised, and the token is not refused. A version whose query an edit met is
remembered after the edit for up to thirty seconds, where `token-version.cache.ts:15` calls
the effect immediate. `users.update` saves a copy that holds `token_version`, and can write
an older version back over one raised meanwhile (`users.service.ts:185`). The exceptions
in `ServedIsCurrent` and `StaysIn` are these. A token also carries the discount its person may
grant, which `roles.update` changes without raising the version (`roles.service.ts:86`): the
screens go on with the old one, while `discounts.service.ts:246` asks the role. `ServedIsCurrent`
is about the role and the permissions only.

*Client.* A direct request overtakes older ones of its account in the queue
(`mutate.ts:40`; `docs/OFFLINE.md:70` calls the order inside an account sacred). A fact retried from the tray is applied after younger ones (`outbox.ts:190`).
An operation discarded in one tab while it is in flight from another is written back
(`outbox.ts:344`). No caller of `putMany` passes the time that would make it respect
what is newer. Whenever the protected ids change, the view seeds again with the answer
it was mounted with. A reload overwrites a queued line of an account the server knows
(it comes back when the queue is through). An account whose creation failed is not
protected any more. A protected account that was closed elsewhere may stay on the
screen until the next reload. Two reloads under way whose answers overtake each other
leave the older one. A page loaded during an outage does not read again on the first
connection of its socket.

## 6. Plan

Done: accounts, payments, inventory, queue; merge, counter, shifts, discounts, tables,
reservations, guests, the screen's copy, the import of products and its files, sessions.
What is left, in this order:

1. An abstract queue (each operation once, in order, or in the tray) that Outbox
   implements: `IInv`, `Foremost` and `AckInv` of OutboxProofs are what its mapping needs.
2. `NoTwinAlone`, `ReportedRowsAreIn` and `SecondTimeChangesNothing` of Import, with lemmas
   about the batches of a file.
3. An abstract sale that happens once, implemented by Till for sales that overlap nothing;
   `SalesResume` is most of its argument.
4. Larger instances of Screen: two reloads under way, the pages of tables and of one
   account; of Sessions: troubles while several requests are under way.

## 7. Not modelled

Of sessions: passwords and PINs, the lock after failed attempts, throttling, the expiry of
renewable tokens and the deactivation of a person, which belong to a review of access
control. Users and roles are edits of single rows beyond the two that Sessions has. Of the menu, categories, modifiers
and combos are edits of single rows; configuration and reports change one row or none. The audit log and the socket events are told and
never asked. Migrations run offline; their unique indexes and NOT NULLs are in the
models. The service worker caches files. Shared packages are types; deployment is
configuration.

The map covers a small share of the repository's lines. Most of them are React
components, DTOs, tests, seeds and entity declarations, which hold no control that a
property could be about; of the services that change state while others do, what is left
out is named above, part by part.
