# Grocea backend: TLA+ models, checks and proofs

Grocea's backend is a FastAPI service over PostgreSQL: accounts and sessions, a
shared and a personal catalog of Ingredients and Recipes, a Pantry with an
activity history, a Basket and Grocery Lists, and a protocol for offline clients
that retry their mutations.  This directory models its state-changing logic in
TLA+, model-checks it with TLC and proves the central invariants with TLAPS.
Paths below are relative to `src/src/grocea/`.

## 1. The system

| component | code | state | operations |
|---|---|---|---|
| Accounts and sessions | `auth.py`, `auth_api.py`, `account_api.py`, `dependencies.py` | `users`, `auth_sessions` | register, login, logout, change password, delete account; every authenticated request looks its session up, locks the account row, looks again |
| Password recovery | `account.py`, `auth_api.py` | `password_reset_tokens`, mails of background tasks | `issue_reset`, `deliver_reset`, `reset_password` |
| Recovery throttle | `account.py:84` | `recovery_throttles` | `throttle`, called by both recovery handlers |
| Mutation protocol | `api.py:120` | `users.state_revision`, `processed_mutations` | `apply_mutation` around every domain operation; `GET /state` |
| Pantry and activity | `services.py:308-350`, `full_services.py:977-1169` | `pantry_stocks`, `activity_events`, `stock_changes` | tracking, preferences, manual and bulk changes, cooking, undoing |
| Basket and Grocery Lists | `full_services.py:233-851` | `basket_items`, `grocery_lists` and their recipes, items and sources | Basket, list from Basket, manual list, items, complete, reuse, delete |
| Catalog | `services.py`, `full_services.py:881-974` | `categories`, `ingredients`, `recipes` and parts | create, update, archive, restore; draft, update, delete, publish |
| Seed command | `seeding.py` | the global rows of the catalog | `seed_database` |
| Local import | `full_services.py:1172` | all of the owned tables | `import_local_state` |
| Legacy profile claim | `auth.py:163` | the legacy `users` row | `claim_legacy_profile`, from the command line |
| Developer log feed | `devlogs.py`, `developer.py`, `web/logs.js` | the process's ring buffer, the page's state | append, snapshot, clear; poll, merge, pause |
| The rest | `main.py`, `errors.py`, `config.py`, `cli.py`, `normalization.py`, `migrations/`, `tools/` | none that outlives a request | middleware, error rendering, settings, scripts |

How they meet.  Every domain operation runs inside `apply_mutation`, which runs
inside a transaction that `get_current_auth` has given the account's row lock.
Pantry, lists and catalog of one account are therefore changed by one
transaction at a time, and each is atomic.  What is *not* under that lock is
where the interesting interleavings are: the first lookup of a session or token,
registration, the pruning of expired sessions, mail delivery, the throttle, the
seed command and the log feed.

What is hard, and what makes each part correct:

- **Concurrency of requests** (READ COMMITTED, one row lock): what was read
  before the lock must not be used after it; revoking a session and using it
  must not overlap; a password change must not miss a credential that is being
  issued.
- **Retries**: a client repeats a mutation with its key when the answer was
  lost.  It is applied once and answered with its own revision.
- **Failure in the middle**: an operation that raises, a crash or a disconnect
  leaves nothing behind, not even the lock.
- **History**: balances, events and changes written by five different handlers
  agree; an undone cooking is undone once, by exactly what it took; completed
  lists and published Recipes stay as they are.
- **Stale views**: a list made from totals that a client reviewed is the list it
  reviewed or none.
- **Time**: windows of the throttle end between reading the clock and counting;
  tokens and sessions expire between two reads.
- **Bounded state**: columns of fifteen digits, a log buffer of fixed capacity.
- **Foreign data**: an import takes what a device has made of its own ids and
  names, merges it into whatever the account holds by now, and must neither
  overwrite nor silently drop; a teardown has to get past every foreign key
  that any such data can set.

`PROJECT.json` lists these as hazards, each at the line where it bites, with the
properties that watch it.

## 2. The modules

| module | models | uses |
|---|---|---|
| `Accounts` | requests, locks, sessions, tokens, the mutation protocol | |
| `IdempotentLog` | what the mutation protocol promises: an atomic log of keys | |
| `AccountsProofs` | theorems about `Accounts` | `Accounts` |
| `AccountsLogProofs` | theorems about its answers, and the refinement of `IdempotentLog` | `AccountsProofs` |
| `Pantry` | balances and their history | |
| `PantryProofs` | theorems about `Pantry` | `Pantry` |
| `Grocery` | Basket, lists and items, with the Pantry they add to | `Pantry` |
| `GroceryProofs` | theorems about `Grocery` | `Grocery`, `PantryProofs` |
| `Catalog` | Categories, Ingredients, Recipes and the seed command | |
| `CatalogProofs` | theorems about `Catalog` | `Catalog` |
| `Import` | the import of a device's state and the teardown of an account | |
| `ImportProofs` | theorems about `Import` | `Import` |
| `Throttle` | the counters of password recovery | |
| `ThrottleProofs` | theorems about `Throttle` | `Throttle` |
| `LogFeed` | the log buffer and the page that polls it | |
| `LogFeedProofs` | theorems about `LogFeed` | `LogFeed` |
| `MCAccounts`, `MCPantry`, `MCGrocery`, `MCCatalog`, `MCImport`, `MCThrottle`, `MCLogFeed` | the small instances | |

A definition called "Faulty" is in no behaviour of its module.  It is a plausible
bug of the definition that follows it; exchanging the two must break a property,
which shows that the property says something about the code.

### Accounts

A request is a slot that goes through `pc`: *begun* (sent), *resolved* (session
or token found, without a lock), *locked* (row lock granted), *ready*
(revalidated), *applied* (a mutation or a read has read the tables), and back to *idle*
with its answer in `reply`.  The steps are those between which the code lets
another transaction commit:

| action | code |
|---|---|
| `Resolve`, `LookUpToken` | the unlocked lookups of `resolve_session` and `reset_password` |
| `LockUser`, `LockByEmail` | `SELECT ... FOR UPDATE` on the User row, by id or by email.  A waiter sees the row as the holder left it, or no row |
| `Revalidate` | the second read of the session in `get_current_auth`, and `X-Account-ID` |
| `ReadMutation`, `CommitMutation`, `FailMutation` | the replay lookup, the revision check and the operation; its commit; its error |
| `ReadTables`, `ReadState` | `GET /state`: its statements on the tables; its answer, labelled with the revision of the locked row |
| `Register`, `Login`, `Logout`, `ChangePassword`, `DeleteAccount`, `IssueReset`, `ConfirmReset` | the handlers, each up to its commit |
| `Deliver`, `MailLost` | the background task, run or lost with the process |
| `SessionExpires`, `TokenExpires` | the clock |
| `Abort` | a crash, a disconnect, a deadlock or any other error before the commit |

Abstractions: the kitchen data of an account is its *journal*, the mutations
whose effect it holds; a password is its number; expiry is a step that may come
at any time.  Ids, cookies and tokens are never reused.  CSRF and origin checks
only refuse, and are covered by `Abort`.  What `delete_account` does to the tables
of an account is in `Import`.

### Pantry and Grocery

An action is one committed mutation: an invalid one is rolled back and is no step.
Quantities are integers of 0.001 base units in the range of `NUMERIC(15,3)`,
whose limit is `MaxQuantity`; `Scaled` rounds as `ROUND_HALF_UP` does.  `Move` is
the part that `adjust_stock`, `bulk_adjust_stock`, `cook_recipe`,
`reverse_activity` and `complete_grocery_list` share: a row per Ingredient moved,
added at zero if it is missing, and a change recorded with the balance before and
after.  `ledger[i]` are the `stock_changes` of Ingredient `i` in commit order.  That
a refused or overflowing move leaves nothing behind is the rollback of the
transaction (`db.py:45`), so `Move` is one step with the refusal in its guard.

`Pantry` and `Grocery` have the rows that their own operations write.  An import
writes balances and events directly (`full_services.py:1313-1317`,
`full_services.py:1468-1504`), balances without a change and changes without a
move: after one, `HistoryExplainsStock` and `UndoneOnceAndExactly` say nothing of
the imported rows.  `Import` models that, with other properties.

`Grocery` extends `Pantry`: making a list from the Basket reads its balances, and
completing one posts an event in it.  `CreateListFromBasket` takes the two bases
a client may send (`recipe_basis`, `pantry_basis`) as arbitrary values, since the
client may have computed them long ago.  `additions` of a list is a history field:
what completing it added to the Pantry and under which event, which the code
does not store.

### Catalog

Rows of both kinds of owner, global and of one account; names are normalized
names.  `BeginSeed` and `CommitSeed` are the check and the commit of the seed
command, which takes no account's lock.  Two next-state relations differ in what
happens between them: nothing (`QuietSpec`, a deployment that seeds before it
serves) or anything (`ServingSpec`).

### Import

`import_local_state` is one transaction over all tables of an account, and so is
`delete_account`.  `tx` is the open one: its copy of the tables (`tx.db`), the
turns of its loops that are left (`tx.todo`), the map from the device's ids to
rows, and the conflicts it will report.  A step is one turn of a loop or one
`DELETE`; `Commit` publishes the copy and `Abort`, possible anywhere, discards it.

| action | code |
|---|---|
| `ImportCategory`, `ImportIngredient` | match by normalized name or alias among the account's and the global rows, else create, else report |
| `ImportProfile`, `ImportBalance` | replace a default profile, a zero balance, unset preferences; else report |
| `ImportRecipe`, `ImportEvent`, `LinkReversal` | Recipes with their parts, events with their changes, then the links between events |
| `ImportBasket`, `ImportList` | into an empty Basket, and where there was no list before |
| `DeleteStep` | one statement of the teardown, in `TeardownOrder` |
| `ArchiveCategory`, `ArchiveIngredient`, `SetStock`, `ClearBasket`, `DeleteList` | what the account does between two imports, as far as an import can tell |

A statement that violates a constraint of the schema is not a step, so that only
`Abort` is left: that is the answer of the code, which does not expect the error.
`Intact` says which foreign keys restrict, from `models.py`.  Transactions of two
accounts meet only in an id that both want, and the second to commit is the one
that is refused; so one transaction is open at a time.  An id of a device is
either a UUID, which events and lists keep, or a legacy string.  `last` is a
history variable: what the account imported last, if nothing has changed since.

### Throttle

A handler makes its calls one after another; `Read` is the clock's reading,
`Count` the transaction that prunes expired rows and upserts the counter.  They
are apart because any delay may lie between them and the wait for the row.
`tries` is a history variable.  `MaxDelay`, which bounds that delay, is at most
the shortest window: with a longer one a row can be pruned that is still counted
on, which is the reason `expires_at` is two windows after the start.

### LogFeed

Every call of `LogBuffer` holds its lock, so it is one step; the poll, the answer
and the merge in the page are steps of their own, and each can be lost.
`Restart` is a new process: a new stream whose ids start at 1 again.

## 3. What is checked

| run | specification | size | what it shows |
|---|---|---|---|
| `kitchen` | `Spec` | 1 account, 2 requests, 2 sessions, 2 keys, 2 types | types; `ExactlyOnce`, `RepliesAreTrue`, `AppliedAtExpectedRevision`; `Accounts` implements `IdempotentLog` |
| `access` | `Spec` | 2 accounts with one email in turn, 3 sessions, 1 link, 2 requests | `CredentialsMatchPassword`, `RevokedStaysOut` |
| `answered` | `FairSpec` | 1 account, 2 sessions, 1 link, 2 requests | `EveryRequestEnds` |
| `pantry` | `PantrySpec` | 2 Ingredients, 2 Recipes, 3 events, balances -3..3 | types; `HistoryExplainsStock`, `UndoneOnceAndExactly`, `HistoryIsKept` |
| `undo_assert` | `PantrySpec` | the same | a counterexample, see 5 |
| `grocery` | `GrocerySpec` | 2 lists, 2 items, 2 Recipes that share an Ingredient, 2 events, balances -2..2 | types; `OneShopping`, `PurchasesAreTheItems`, `UneditedIsOriginal`, `CompletedIsKept`, `ListMatchesReview`, `ShoppingCoversCooking` |
| `catalog` | `QuietSpec` | 3 Ingredients, 2 Categories, 2 Recipes, 3 names, 3 releases | types; `ActiveInActiveCategory`, `NamesAreUnique`, `PublishedIsCookable`, `PublishedIsKept` |
| `serving` | `ServingSpec` | 2 Ingredients, 2 releases | a counterexample, see 5 |
| `units` | `QuietSpec` | 2 Ingredients, 2 Recipes, 2 families | a counterexample, see 5 |
| `import` | `ImportSpec` | 2 accounts, 3 devices, 3 imports, 3 ids a table (4 events) | types; `ReferencesStayInside`, `NoSecondOfAName`, `BasketIsPublished`, `NothingIsDropped`, `TeardownNeverBlocked`, `ServerDataIsKept`, `ReimportIsHarmless` |
| `throttle` | `ThrottleSpec` | 3 requests, 1 host, 1 address, 5 ticks | types; `WithinLimits` |
| `log_feed` | `FairFeedSpec` | buffer of 2, 4 entries a stream, 3 streams | types; `PageIsWindow`, `CatchesUp` |

Why these bounds.  The races of `Accounts` are between two transactions: one
holds the lock, the other has read something or waits; a third would wait
behind the second.  Three sessions are what a login, a password change and
the session they meet need; a second account with the same email is what a
deleted and registered address needs.  One revision to expect is enough to be
right or stale.  In `Pantry`, three events are a cooking, its undoing, and a
change between them or a second undoing; balances of ±3 are small enough to leave
the column.  A Recipe whose half portion has to be rounded and another that
shares its Ingredient are what rounding in the wrong place needs.  Two lists and
two items are what "one active list" and a selection of items need; their product
with every Pantry is too large, so that the constraint `Bounded` cuts it to two
scenes that share their beginning: two lists and all edits of one item, with the
Recipe of one Ingredient, or one list at a time of both Recipes with two items as
they were made.  There is one event of any kind in them, or two that lists have
added (`FewEvents`), which is what completing a list again or two lists under one
id takes; the longer histories of one Pantry are those of the run `pantry`.

The three devices of `import` are a full phone, with a cooking
and its reversal, a tablet with two ids for one Ingredient, a draft and a
published Recipe in its Basket and a bad number, and a laptop whose rows mostly
meet a conflict and whose events and lists have UUIDs; three imports are one
device twice with another one, or the account's own changes, in between.  Three
requests over two hours of two minutes fill a limit, exceed it and come after a
boundary; the limits 30, 60 and 5 are 2 here.  A buffer of two with four entries
overflows between two polls.  Where a run uses symmetry, it is over ids that
nothing else in its configuration tells apart, and the run has no liveness
property.

Deadlock is checked for `Accounts` and `LogFeed`.  The other instances may stop:
event ids, lists, imports and ticks are used up.

Fairness.  `FairSpec` assumes that the server goes on with a request it has begun
(`WF` on the unlocked lookups and on the handlers) and that PostgreSQL's queue of
waiters gives the row lock, in the end, to a request that keeps finding it free
(`SF` on taking it).  Nothing is assumed of clients, the clock, mail or crashes.
`FairFeedSpec` assumes that the page's timer goes on (`WF` on `Refresh`), and that
not every fetch fails (`SF` on serving and receiving): without it no page could
catch up.

## 4. What is proved

With TLAPS, for every value of the constants:

| theorem | says |
|---|---|
| `AccountsProofs!TypeCorrect` | `Spec => []TypeOK` |
| `AccountsProofs!SnapshotsHold` | what a transaction has read under the lock stays what the row holds until it ends |
| `AccountsProofs!CredentialsSafe` | `Spec => []CredentialsMatchPassword` |
| `AccountsProofs!MutationsOnce` | `Spec => []ExactlyOnce` |
| `AccountsProofs!AppliedWhereExpected` | `Spec => AppliedAtExpectedRevision` |
| `AccountsProofs!RevocationIsFinal` | `Spec => []RevokedStaysOut` |
| `AccountsLogProofs!AnswersAreTrue` | `Spec => []RepliesAreTrue` |
| `AccountsLogProofs!LogImplemented` | `Spec => ImplementsLog`: `Accounts` refines `IdempotentLog` |
| `PantryProofs!PantryTyped` | `PantrySpec => []PantryTypeOK` |
| `PantryProofs!HistoryComplete` | `PantrySpec => []HistoryExplainsStock` |
| `PantryProofs!UndoneOnce` | `PantrySpec => []UndoneOnceAndExactly` |
| `PantryProofs!HistoryStays` | `PantrySpec => HistoryIsKept` |
| `GroceryProofs!HistoryInKitchen` | `GrocerySpec => []HistoryExplainsStock` |
| `GroceryProofs!UndoneOnceInKitchen` | `GrocerySpec => []UndoneOnceAndExactly` |
| `GroceryProofs!GroceryTyped` | `GrocerySpec => []GroceryTypeOK` |
| `GroceryProofs!ShoppingIsOne` | `GrocerySpec => []OneShopping` |
| `GroceryProofs!ListIsReviewed` | `GrocerySpec => ListMatchesReview` |
| `GroceryProofs!ShoppingCovers` | `GrocerySpec => ShoppingCoversCooking` |
| `GroceryProofs!UneditedShown` | `GrocerySpec => []UneditedIsOriginal` |
| `GroceryProofs!CompletedStays` | `GrocerySpec => CompletedIsKept` |
| `GroceryProofs!PurchasesExact` | `GrocerySpec => []PurchasesAreTheItems` |
| `CatalogProofs!CatalogTyped` | `ServingSpec => []CatalogTypeOK` |
| `CatalogProofs!NoneInArchivedCategory` | `ServingSpec => []ActiveInActiveCategory` |
| `CatalogProofs!PublishedCookable` | `ServingSpec => []PublishedIsCookable` |
| `CatalogProofs!PublishedStays` | `ServingSpec => PublishedIsKept` |
| `CatalogProofs!NamesUnique` | `QuietSpec => []NamesAreUnique` |
| `ImportProofs!ImportTyped` | `ImportSpec => []ImportTypeOK` |
| `ImportProofs!ReferencesInside` | `ImportSpec => []ReferencesStayInside` |
| `ImportProofs!OneOfAName` | `ImportSpec => []NoSecondOfAName` |
| `ImportProofs!BasketsArePublished` | `ImportSpec => []BasketIsPublished` |
| `ImportProofs!NothingDropped` | `ImportSpec => []NothingIsDropped` |
| `ImportProofs!TeardownIsFree` | `ImportSpec => []TeardownNeverBlocked` |
| `ImportProofs!ServerDataStays` | `ImportSpec => ServerDataIsKept` |
| `ThrottleProofs!ThrottleTyped` | `ThrottleSpec => []ThrottleTypeOK` |
| `ThrottleProofs!LimitsHold` | `ThrottleSpec => []WithinLimits` |
| `LogFeedProofs!FeedTyped` | `FeedSpec => []FeedTypeOK` |
| `LogFeedProofs!PageShowsWindow` | `FeedSpec => []PageIsWindow` |

*Accounts.*  `TypeOK` needs strengthening twice: a request past its lookup names
a real user (`UsersKnown`), and one in flight has a call, which is a mutation or a
read once it has read the tables (`CallsKnown`).
`CredentialsMatchPassword` and `ExactlyOnce` are not inductive: `Login`
issues a session under the password that its *transaction* has read, and
`CommitMutation` writes the journal that it has read.  `SnapshotsHold` closes the
gap: whoever is past `Take` holds the lock, no other action changes the password,
revision or journal of an account whose lock another request holds, and so the
transaction's copy is the row.  With it each of the properties is preserved by
each action.  `RevocationIsFinal` needs that a session id is handed out once, so
that the session a request has checked is the one it began with.  The argument
does not count requests, sessions or tokens: the races of two and three that TLC
tries are all there are.

*Answers.*  A journal only grows while its account lives, and an answer names a
position in it, so what was true when it was given stays true (`AnswersAreTrue`).
For `LogImplemented` each step is shown to be a step of the abstract log or to
change nothing that the refinement mapping shows: a commit appends to the log and
answers at once, a replay answers from it, and lookups, locks, logins, mails and
aborts stutter.

*Pantry.*  `PantryTypeOK /\ HistoryExplainsStock` is inductive.  Every action that
moves a balance goes through `Move`, so the arithmetic is in two lemmas, one on
types and one on the history; `Track` and `Untrack` add and drop a row at zero,
which is what an untracked Ingredient counts as.  `UndoneOnce` is strengthened by
three facts: a recorded change has its event (`ChangesHaveEvents`), a reversal's
original exists (`ReversedExist`), and the changes of the two are each other's
negatives.  Since an event's changes are written with its row and never after,
the proof of `MoveRecords` carries all of them through every later step.

*Grocery.*  Only completing a list touches the Pantry, by the `Post` that a manual
change uses, so the Pantry's invariant is reused as it stands.  For items the
invariant is on the row alone: it is not edited only if it shows its original.
A completed list can be neither started, completed nor edited again because each
of these actions asks for a list that is active or that does not exist.
`OneShopping` is about what is left when some Recipes are taken out of a Basket or
a list, a recursive function over positions; that it repeats nothing and has only
members of the sequence is proved by induction on the length.  The library's
induction rule takes an operator, which the provers cannot instantiate;
`AllNaturals` states the one instance needed, for a set of numbers, and follows
from the well-foundedness of `<` on the naturals.

A list made of the Basket has one item for each Ingredient that is short and none
for the others (`BoughtItem`): the new ids are apart, and no older item is on a
list that did not exist.  `ListMatchesReview` follows, since the reviewed balances
are the current ones.  `ShoppingCoversCooking` compares a sum over the items of
the list, which is thus a sum of at most one, and two over the portions of the
Basket, of what is needed and of what cooking takes.  A sum over a set is a
function on its subsets that picks a member with `CHOOSE` at each step.  That
there is such a function, and that two whose terms are opposite have opposite
totals, is proved by induction on the size of the subset (`TotalExists`,
`TotalOpposite`).  The terms are opposite because the list rounds each portion by
itself, as cooking does; rounding the total would break the proof at that step.

`PurchasesAreTheItems` joins the two halves.  Its invariant, `AdditionsInv`, says of
each addition that its list is completed, that its event is in the history with
exactly the Ingredients of its items, by their sums, and that no two share an
event or an item.  It stays: an event that exists is not written again
(`EventsStay`, from `KeepsRecords`), and neither is an item of a completed list.
It begins with the list still active, so without additions of its own
(`NewAddition`), and under an event that did not exist.

*Catalog.*  An operation writes one row; three lemmas say when the write of a
Category, an Ingredient or a Recipe keeps the invariant.  `PublishedIsCookable` is
inductive only with `PartsExist`: the parts of drafts have their Ingredients too,
since a draft is published later.  The theorems hold for `ServingSpec`, where
anything may happen while the seed command runs, but for `NamesUnique`: it needs
that what the command has checked (`Seedable`) still holds when it commits, which
is false without quiet, as the run `serving` shows.

*Import.*  `ImportInv` is about three sets of tables: the committed ones, the copy
of an open transaction, and the relation of the two.  `Sound` says what tables
are like: references exist and are the owner's or global, names are apart, Baskets
hold published Recipes.  `Kept` and `MapOK` relate an import's copy to what was
there when it began: nothing is gone, rows of others and of the seeds are the
same, a balance or setting differs only where it was zero or unset, and every
mapped id is a row that the account sees.  `Left` and `Cleared` do so for a
teardown: what is not the account's is the same but for references of its own
rows, and each statement that has run has left nothing in its table.  That no
foreign key refuses a statement needs `ReferencesStayInside` of the copy and that
the statements are in `TeardownOrder`: when a table is emptied, every table that
restricts it has been.  `ServerDataIsKept` reads the relation off at the commit.
A row that is added keeps `Sound` because its references went through the map; a
row that is matched is seen, and a name that is created was matched by none.

`NothingIsDropped` has its own invariant `AnswerInv`: each item of the device is
still to be done, or its id is mapped or reported.  For a balance more is needed.
It has to be true of the row that its id is mapped to *in the end*, but a later
Ingredient under the same id would map it elsewhere, and a later balance of
another id may be for the same row.  The first cannot be, since all catalog rows
come before the first balance (`CatalogFirst`); the second changes only what was
zero or unset, which `Settled` allows for.

*Throttle.*  While a call that falls in a window may still come, its row counts at
least what was allowed in it.  A row is pruned two windows after its window
starts, and no call comes later than that, because its delay is at most a window:
`DelayAssumption`, which is where the argument leaves the code and trusts that a
transaction does not wait for longer than a minute.

*Log feed.*  Every sequence of entries is a run of consecutive ids, `Ids(a, n)` from
`a + 1` to `n`, and the retained ones of a stream that has logged `n` are
`Window(n)`, the last of them up to the capacity.  `FeedInv` says that the buffer
is `Window(nextId - 1)`, that the page is the `Window` of its latest id, that a poll
carries the page's cursor for as long as it is under way, and that an answer is
either a whole window, or of the page's stream and what continues the page's
entries.  The last holds whatever becomes of the buffer after the answer was made,
which is why a restart or an overflow on the way does no harm.  Merging then gives
a window again (`IdsConcat`, `IdsNewest`), and the selection of what is new since
the cursor, a recursive function, is computed by induction (`IdsAmong`).

The assumptions are those that the modules name: `None` is no id, Recipes have
positive quantities and servings of visible Ingredients, seed releases are
consistent in themselves, sessions are not reset tokens, the calls of clients
are calls, an absent review is no review (`BasisAssumption`).  `Import` has three
of its own.  `GlobalAssumption`: the seeded tables refer to themselves, names in
them are apart, which two unique indexes enforce.  `ApartAssumption`: two tables
share no id; a UUID is random, and a collision would make `id_map` ambiguous.
`DeviceAssumption`: what a device sends has the fields that the handler insists
on, and it uses no id of a tracked Ingredient for a Recipe, an event or a list.
The code does not check the last part, and keeps one map for all of them: a
device that broke it would have later references to the Ingredient taken for
references to the other row.  `LogFeed` has one, that an absent message is no
message (`MessageAssumption`).  TLC evaluates each assumption in every run.

Only model-checked:

- liveness (`EveryRequestEnds`, `CatchesUp`), which with fairness and `ENABLED` is
  beyond the prover;
- `ReimportIsHarmless`: it compares two imports of one state, and so needs an
  invariant about the history between them that no other property shares.

## 5. Disagreements found

Each run below finds its property violated by what the code does.

- **`undo_assert`**.  `reverse_activity` asserts that each Ingredient of the
  cooking has a stock row (`full_services.py:1154`), but an Ingredient at balance
  zero can be untracked, which deletes the row (`services.py:345-348`).  Cook, bring
  the balance to zero, untrack, undo: an internal error.  Tracking the
  Ingredient again makes the cooking reversible again.
- **`units`**.  An untracked Ingredient may change its measurement family
  (`services.py:397`) although Recipes use it, and `_replace_recipe_parts` never
  lets a Recipe have a unit of another family (`full_services.py:912`).
- **`serving`**.  The seed command refuses a release whose Ingredient has the name
  of a custom one (`seeding.py:119`), but an account can create one between that
  check and the commit; the two unique indexes of `ingredients` are apart and do
  not notice.

Other differences between text and code, or between two parts of the code, are no
property of a run:

- Login deletes expired sessions of *all* accounts (`auth.py:70`), while
  `account.py:1` has "All owned writes serialize on the User row"; since such
  sessions sign nobody in, nothing follows but that two logins can deadlock.
- The "60-second address cooldown" of `README.md:126` is an aligned minute
  (`account.py:90`): two links for one address are issued seconds apart when a
  minute ends between them.
- An import puts a new Ingredient into the Category its id is mapped to, an
  archived one too (`full_services.py:1248`), which creating an Ingredient refuses
  (`services.py:190`).  It stores a published Recipe without a quantity, which
  cooking asserts (`full_services.py:1092`).
- An imported event or list keeps an id that is a UUID.  If any account has a row
  of that id, the same device's earlier import included, the primary key refuses
  the whole import with an error that no handler expects (`full_services.py:1465`).
  `ReimportIsHarmless` speaks only of imports that commit.
- An event whose id is a legacy string gets a new one at each import
  (`full_services.py:1467`), so a device that imports again, under another key, after
  a lost answer doubles it in the history.  `ReimportIsHarmless` therefore leaves
  events out; of every other table it says that nothing changes.
- When a device has two ids for one Ingredient and one of them counts zero, which
  balance stays, and whether a conflict is reported, depends on the order of a set
  (`full_services.py:1283`).
- Two overlapping `claim_legacy_profile` both pass the check of `password_hash`,
  which takes no lock (`auth.py:163-178`), where `CONTEXT.md:9` has "claimed once".
  The later commit wins, and sessions opened under the first password outlive it.

## 6. Not modelled, and the plan

Not modelled: how responses, mails and exports are rendered; password hashing,
cookies, CSRF and origin checks; the legacy row that keeps registration from
reusing its email, and the command that claims it; names that are swapped within
one seed release (which fail on the unique index); list titles, item labels and
units; the sources of an item; deadlocks between row locks other than the
account's; the limit of 100 rows of a prune; `update_profile`, three independent
assignments in a mutation; migrations and scripts.  Of an import: records that
lack a field the handler insists on (it skips them), texts, times, Recipe steps,
the amounts and the sources of list items, their ids and how those are mapped
(`full_services.py:1671-1738`); a Recipe whose units or numbers cannot be read
(`full_services.py:1391-1402`) is answered as one of an unmapped Ingredient is.

What comes next, in this order:

1. `ReimportIsHarmless`, from the map of the import before.
2. A composition of `Pantry` and `Catalog`, in which the archive guards read real
   balances and Recipes come from drafts.
3. `LegacyClaim`: two claims and a registration at once.
