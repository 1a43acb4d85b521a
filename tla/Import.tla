------------------------------- MODULE Import -------------------------------
(***************************************************************************)
(* The import of a device's local state into an account, and the teardown  *)
(* of an account, which must cope with whatever was imported.              *)
(*                                                                         *)
(* Each is one transaction over all tables of the account.  It works on a  *)
(* copy of the tables, tx.db, a step for each turn of a loop or each       *)
(* DELETE; others see nothing before the commit.  A statement that         *)
(* violates a constraint of the schema is no step: what is left is to      *)
(* abort, which a crash may do anywhere.  The transactions of two accounts *)
(* meet in no row but a taken id, so one is open at a time.                *)
(*                                                                         *)
(* Names are normalized ones.  A device's ids are UUIDs, which events and  *)
(* lists keep, or legacy strings.  Records without the fields that the     *)
(* handler insists on are skipped by it and are left out, as are texts,    *)
(* times, steps, and the units and quantities of list items.  Sessions,    *)
(* links and processed mutations, deleted too, are in module Accounts.     *)
(* "Faulty" definitions are part of no behaviour (see Accounts).           *)
(***************************************************************************)
EXTENDS Integers, SequencesExt

CONSTANTS
    User,
    CategoryId, IngredientId, RecipeId, EventId, ListId,    \* ids of rows
    GlobalCategories, GlobalIngredients, GlobalRecipes,     \* the seeded tables
    Name, Alias,        \* normalized names, and the one some of them stand for
    Family, Threshold,
    Quantity,           \* what a quantity column holds
    DefaultProfile, Profile,
    LocalId,            \* ids that devices use
    DeviceState,        \* the local states that devices send
    MaxServings,        \* of a Basket item (12)
    MaxImports,         \* bound: the number of imports begun
    None

Owner == User \cup {None}       \* None: a global row
Setting == {"low", "refill"}    \* low_stock_threshold and refill_quantity
Partial(S, T) == UNION {[D -> T] : D \in SUBSET S}
Table(t, ids, rows) == DOMAIN t \subseteq ids /\ \A id \in DOMAIN t : t[id] \in rows

CategoryRow == [owner: Owner, name: Name, archived: BOOLEAN]
IngredientRow == [owner: Owner, name: Name, category: CategoryId,
                  family: Family, archived: BOOLEAN]
StockRow == [quantity: Quantity, preference: [Setting -> Threshold \cup {None}]]
RecipeRow == [owner: Owner, name: Name, published: BOOLEAN,
              parts: Partial(IngredientId, Quantity \cup {None})]
EventRow == [owner: User, type: {"manual", "cooking", "reversal"},
             recipe: RecipeId \cup {None}, changes: Partial(IngredientId, Quantity),
             reversalOf: EventId \cup {None}, reversed: BOOLEAN]
Portion == [recipe: RecipeId, servings: 1 .. MaxServings]
ListRow == [owner: User, status: {"active", "completed"},    \* what its rows refer to
            recipes: SUBSET (RecipeId \cup {None}), items: SUBSET (IngredientId \cup {None})]

ASSUME ImportAssumption ==
    /\ \A n \in DOMAIN Alias : n \in Name /\ Alias[n] \in Name
    /\ DefaultProfile \in Profile /\ {0, 1} \subseteq Quantity /\ Quantity \subseteq Int
    /\ MaxServings \in Nat /\ MaxImports \in Nat
    /\ None \notin User \cup CategoryId \cup IngredientId \cup RecipeId \cup EventId
                     \cup ListId \cup LocalId \cup Threshold \cup Quantity

\* Global rows refer to global rows, and a unique index keeps their names apart.
ASSUME GlobalAssumption ==
    /\ \A c \in DOMAIN GlobalCategories :
         /\ c \in CategoryId /\ GlobalCategories[c] \in CategoryRow
         /\ GlobalCategories[c].owner = None
         /\ \A d \in DOMAIN GlobalCategories :
              GlobalCategories[c].name = GlobalCategories[d].name => c = d
    /\ \A i \in DOMAIN GlobalIngredients :
         /\ i \in IngredientId /\ GlobalIngredients[i] \in IngredientRow
         /\ GlobalIngredients[i].owner = None
         /\ GlobalIngredients[i].category \in DOMAIN GlobalCategories
         /\ \A j \in DOMAIN GlobalIngredients :
              GlobalIngredients[i].name = GlobalIngredients[j].name => i = j
    /\ \A rc \in DOMAIN GlobalRecipes :
         /\ rc \in RecipeId /\ GlobalRecipes[rc] \in RecipeRow
         /\ GlobalRecipes[rc].owner = None
         /\ DOMAIN GlobalRecipes[rc].parts \subseteq DOMAIN GlobalIngredients

\* Ids are random: rows of two tables have none in common.
ASSUME ApartAssumption ==
    /\ CategoryId \cap (IngredientId \cup RecipeId \cup EventId \cup ListId) = {}
    /\ IngredientId \cap (RecipeId \cup EventId \cup ListId) = {}
    /\ RecipeId \cap (EventId \cup ListId) = {}
    /\ EventId \cap ListId = {}

\* What a device sends.  It uses no id of an Ingredient that it tracks for a
\* Recipe, an event or a list: the handler keeps one map for all of them.
ASSUME DeviceAssumption ==
    \A s \in DeviceState :
      /\ s.categories \in Seq([id: LocalId, name: Name, global: BOOLEAN])
      /\ s.ingredients \in Seq([id: LocalId, name: Name, category: LocalId, family: Family,
                               global: BOOLEAN])
      /\ s.profile \in Seq(Profile)
      /\ s.tracked \subseteq LocalId /\ IsFiniteSet(s.tracked)
      /\ Table(s.balances, LocalId, Quantity \cup {None})
      /\ Table(s.preferences, LocalId, [Setting -> Threshold \cup {None}] \cup {None})
      /\ s.recipes \in Seq([id: LocalId, name: Name, global: BOOLEAN, published: BOOLEAN,
                           parts: Seq([ingredient: LocalId, quantity: Quantity \cup {None}])])
      /\ s.activity \in Seq([id: LocalId, type: {"manual", "cooking", "reversal"},
                            recipe: LocalId \cup {None},
                            changes: Seq([ingredient: LocalId, delta: Quantity]),
                            reversalOf: LocalId \cup {None}, reversed: BOOLEAN])
      /\ s.basket \in Seq([recipe: LocalId, servings: Int])
      /\ s.lists \in Seq([id: LocalId, status: STRING, recipes: Seq(LocalId),
                         items: Seq(LocalId \cup {None})])
      /\ \A raw \in ToSet(s.recipes) \cup ToSet(s.activity) \cup ToSet(s.lists) :
           raw.id \notin s.tracked

VARIABLES
    db,         \* the committed tables
    tx,         \* the open import or teardown, or None
    last,       \* what each account imported last, if nothing has changed since
    imports     \* imports begun

importVars == <<db, tx, last, imports>>

Tables(d) ==
    /\ d.users \subseteq User
    /\ d.profile \in [User -> Profile]
    /\ Table(d.categories, CategoryId, CategoryRow)
    /\ Table(d.ingredients, IngredientId, IngredientRow)
    /\ Table(d.stock, User \X IngredientId, StockRow)
    /\ Table(d.recipes, RecipeId, RecipeRow)
    /\ Table(d.events, EventId, EventRow)
    /\ d.basket \in [User -> Seq(Portion)]
    /\ Table(d.lists, ListId, ListRow)

ImportTypeOK ==
    /\ Tables(db)
    /\ tx # None => /\ tx.op \in {"import", "delete"} /\ tx.user \in db.users
                    /\ Table(tx.map, LocalId, CategoryId \cup IngredientId \cup RecipeId
                                                \cup EventId \cup ListId)
                    /\ Tables(tx.db)
    /\ last \in [User -> DeviceState \cup {None}]
    /\ imports \in 0 .. MaxImports

ImportInit ==
    /\ db = [users |-> User, profile |-> [u \in User |-> DefaultProfile],
             categories |-> GlobalCategories, ingredients |-> GlobalIngredients,
             stock |-> <<>>, recipes |-> GlobalRecipes, events |-> <<>>,
             basket |-> [u \in User |-> <<>>], lists |-> <<>>]
    /\ tx = None
    /\ last = [u \in User |-> None]
    /\ imports = 0

-----------------------------------------------------------------------------
(* Transactions.                                                           *)

RecipesIn(portions) == {portions[k].recipe : k \in DOMAIN portions}
Own(table, u) == {id \in DOMAIN table : table[id].owner = u}

Tagged(kind, raws) == [k \in DOMAIN raws |-> [kind |-> kind, raw |-> raws[k]]]

\* What import_local_state goes through, in its order.  The tracked ids are a
\* set in the code: they come in any order.
Work(s, trackedOrder) ==
    Tagged("category", s.categories) \o Tagged("ingredient", s.ingredients)
      \o Tagged("profile", s.profile) \o Tagged("balance", trackedOrder)
      \o Tagged("recipe", s.recipes) \o Tagged("event", s.activity)
      \o Tagged("reversal", s.activity)
      \o Tagged("basket", s.basket) \o Tagged("list", s.lists)

Transaction(op, u, s, todo) ==
    [op |-> op, user |-> u, state |-> s, todo |-> todo, map |-> <<>>,
     conflicts |-> {}, db |-> db]

BeginImport(u, s) ==
    /\ tx = None
    /\ u \in db.users
    /\ imports < MaxImports
    /\ \E order \in SetToSeqs(s.tracked) :
         tx' = Transaction("import", u, s, Work(s, order))
    /\ imports' = imports + 1
    /\ UNCHANGED <<db, last>>

\* Recorded with the mutation in one transaction (module Accounts).
Commit ==
    /\ tx # None
    /\ tx.todo = <<>>
    /\ db' = tx.db
    /\ last' = [last EXCEPT ![tx.user] = IF tx.op = "import" THEN tx.state ELSE None]
    /\ tx' = None
    /\ UNCHANGED imports

\* A crash, a violated constraint, or a value no column holds.
Abort ==
    /\ tx # None
    /\ tx' = None
    /\ UNCHANGED <<db, last, imports>>

Doing(kind) == tx # None /\ tx.todo # <<>> /\ Head(tx.todo).kind = kind
Raw == Head(tx.todo).raw

\* A table with one row more, or another one.
With(table, id, row) ==
    [x \in DOMAIN table \cup {id} |-> IF x = id THEN row ELSE table[x]]

\* The ways a turn of a loop ends: nothing done, a conflict reported, a local
\* id mapped to a row that exists, or a row written (and mapped).
Turn(map, newDb, conflicts) ==
    /\ tx' = [tx EXCEPT !.todo = Tail(@), !.map = map, !.db = newDb,
                        !.conflicts = @ \cup conflicts]
    /\ UNCHANGED <<db, last, imports>>
Done(newDb) == Turn(tx.map, newDb, {})
Conflict(kind, local) == Turn(tx.map, tx.db, {<<kind, local>>})
Mapped(local, id) == Turn(With(tx.map, local, id), tx.db, {})
Written(local, id, newDb) == Turn(With(tx.map, local, id), newDb, {})

IsMapped(local) == local \in DOMAIN tx.map

\* A new row's id: the device's if it is a UUID, which then must not be taken
\* by any account, or a fresh one.
NewId(local, ids, table) ==
    IF local \in ids THEN {local} \ DOMAIN table
    ELSE LET free == ids \ (DOMAIN table \cup LocalId)
         IN  IF free = {} THEN {} ELSE {CHOOSE id \in free : TRUE}

-----------------------------------------------------------------------------
(* Catalog rows.                                                           *)

Named(table, u, n) ==
    {id \in DOMAIN table : table[id].owner \in {None, u} /\ table[id].name = n}

\* Faulty Matches: the rows of every account are looked through.
MatchesOfAnyone(table, u, n) == {id \in DOMAIN table : table[id].name = n}

\* Faulty Matches: global rows are matched by their ids only.
MatchesOwn(table, u, n) == {id \in Own(table, u) : table[id].name = n}

\* The rows a device's row of name n stands for, archived ones among them: one
\* of that name, or else of the name it is an alias of.
Matches(table, u, n) ==
    IF Named(table, u, n) = {} /\ n \in DOMAIN Alias
    THEN Named(table, u, Alias[n])
    ELSE Named(table, u, n)

ImportCategory ==
    /\ Doing("category")
    /\ LET found == Matches(tx.db.categories, tx.user, Raw.name)
       IN  \/ \E c \in found : Mapped(Raw.id, c)
           \/ found = {} /\ Raw.global /\ Conflict("category", Raw.id)
           \/ /\ found = {} /\ ~Raw.global
              /\ \E c \in NewId(None, CategoryId, tx.db.categories) :
                   Written(Raw.id, c, [tx.db EXCEPT !.categories = With(@, c,
                     [owner |-> tx.user, name |-> Raw.name, archived |-> FALSE])])

\* A new Ingredient goes into the Category its id is mapped to, archived or
\* not; the foreign key wants it to be a Category.
ImportIngredient ==
    /\ Doing("ingredient")
    /\ LET found == Matches(tx.db.ingredients, tx.user, Raw.name)
           placed == ~Raw.global /\ IsMapped(Raw.category)
       IN  \/ \E i \in found :
                IF tx.db.ingredients[i].family = Raw.family
                THEN Mapped(Raw.id, i) ELSE Conflict("ingredient", Raw.id)
           \/ found = {} /\ ~placed /\ Conflict("ingredient", Raw.id)
           \/ /\ found = {} /\ placed
              /\ tx.map[Raw.category] \in DOMAIN tx.db.categories
              /\ \E i \in NewId(None, IngredientId, tx.db.ingredients) :
                   Written(Raw.id, i, [tx.db EXCEPT !.ingredients = With(@, i,
                     [owner |-> tx.user, name |-> Raw.name,
                      category |-> tx.map[Raw.category],
                      family |-> Raw.family, archived |-> FALSE])])

\* Only a profile that is still the default one is replaced.
ImportProfile ==
    /\ Doing("profile")
    /\ LET kept == tx.db.profile[tx.user]
       IN  \/ kept = DefaultProfile /\ Done([tx.db EXCEPT !.profile[tx.user] = Raw])
           \/ kept \notin {DefaultProfile, Raw} /\ Conflict("profile", tx.user)
           \/ kept # DefaultProfile /\ kept = Raw /\ Done(tx.db)

-----------------------------------------------------------------------------
(* The Pantry.                                                             *)

Unset == [a \in Setting |-> None]

\* The balance of a tracked id; None: not a number.
Counted(s, local) == IF local \in DOMAIN s.balances THEN s.balances[local] ELSE 0

\* Faulty Replaceable: the device knows better.
ReplaceableAlways(row, q) == TRUE

Replaceable(row, q) == row.quantity \in {0, q}

\* Faulty Compatible: None counts as nothing said.
CompatibleOrUnsaid(row, p) ==
    p # None /\ \A a \in Setting : row.preference[a] = None
                                    \/ p[a] \in {None, row.preference[a]}

\* Settings p are valid ones (None: they are not) and change none that is set.
Compatible(row, p) ==
    p # None /\ \A a \in Setting : row.preference[a] \in {None, p[a]}

\* Two local ids may be mapped to one Ingredient: what the first wrote, the
\* second finds.
ImportBalance ==
    /\ Doing("balance")
    /\ \/ ~IsMapped(Raw) /\ Done(tx.db)
       \/ IsMapped(Raw) /\ Counted(tx.state, Raw) = None /\ Conflict("balance", Raw)
       \/ /\ IsMapped(Raw) /\ Counted(tx.state, Raw) # None
          /\ tx.map[Raw] \in DOMAIN tx.db.ingredients
          /\ LET key == <<tx.user, tx.map[Raw]>>
                 q == Counted(tx.state, Raw)
                 row == IF key \in DOMAIN tx.db.stock THEN tx.db.stock[key]
                        ELSE [quantity |-> q, preference |-> Unset]
                 p == IF Raw \in DOMAIN tx.state.preferences
                      THEN tx.state.preferences[Raw] ELSE row.preference
             IN  Turn(tx.map,
                      [tx.db EXCEPT !.stock = With(@, key,
                         [quantity |-> IF Replaceable(row, q) THEN q ELSE row.quantity,
                          preference |-> IF Compatible(row, p) THEN p ELSE row.preference])],
                      (IF Replaceable(row, q) THEN {} ELSE {<<"balance", Raw>>})
                        \cup (IF Compatible(row, p) THEN {} ELSE {<<"pantryPreferences", Raw>>}))

-----------------------------------------------------------------------------
(* Recipes and history.                                                    *)

\* A device's published quantity is taken as it is, a draft's if it is
\* positive; None: there is none.
StoredQuantity(published, q) ==
    IF q # None /\ (published \/ q > 0) THEN q ELSE None

Ingredients(parts) == {parts[k].ingredient : k \in DOMAIN parts}
AllMapped(parts) == \A l \in Ingredients(parts) : IsMapped(l)

\* The unique constraints refuse two parts of one Ingredient, the foreign keys
\* one of no Ingredient.
OneRowEach(parts) ==
    /\ \A j, k \in DOMAIN parts :
         tx.map[parts[j].ingredient] = tx.map[parts[k].ingredient] => j = k
    /\ \A l \in Ingredients(parts) : tx.map[l] \in DOMAIN tx.db.ingredients

\* The Ingredients that parts are mapped to, and the part of each.
RowsOf(parts) == {tx.map[l] : l \in Ingredients(parts)}
PartFor(parts, i) == parts[CHOOSE k \in DOMAIN parts : tx.map[parts[k].ingredient] = i]

\* A part whose unit or number cannot be read ends in the same conflict as one
\* of an unknown Ingredient, which stands for all three.
\* A Recipe whose name is in use is the one that uses it, if it is a global
\* one to the device.  Recipe names need not be unique: any of them is found.
ImportRecipe ==
    /\ Doing("recipe")
    /\ LET found == Named(tx.db.recipes, tx.user, Raw.name)
       IN  \/ Raw.global /\ \E rc \in found : Mapped(Raw.id, rc)
           \/ ~Raw.global /\ found # {} /\ Conflict("recipe", Raw.id)
           \/ found = {} /\ ~AllMapped(Raw.parts) /\ Conflict("recipe", Raw.id)
           \/ /\ found = {} /\ AllMapped(Raw.parts) /\ OneRowEach(Raw.parts)
              /\ \E rc \in NewId(None, RecipeId, tx.db.recipes) :
                   Written(Raw.id, rc, [tx.db EXCEPT !.recipes = With(@, rc,
                     [owner |-> tx.user, name |-> Raw.name, published |-> Raw.published,
                      parts |-> [i \in RowsOf(Raw.parts) |->
                        StoredQuantity(Raw.published, PartFor(Raw.parts, i).quantity)]])])

\* The balances are not touched.
ImportEvent ==
    /\ Doing("event")
    /\ \/ ~AllMapped(Raw.changes) /\ Conflict("activity", Raw.id)
       \/ /\ AllMapped(Raw.changes) /\ OneRowEach(Raw.changes)
          /\ LET rc == IF IsMapped(Raw.recipe) THEN tx.map[Raw.recipe] ELSE None
             IN  /\ rc \in DOMAIN tx.db.recipes \cup {None}
                 /\ \E e \in NewId(Raw.id, EventId, tx.db.events) :
                      Written(Raw.id, e, [tx.db EXCEPT !.events = With(@, e,
                        [owner |-> tx.user, type |-> Raw.type, recipe |-> rc,
                         changes |-> [i \in RowsOf(Raw.changes) |->
                                        PartFor(Raw.changes, i).delta],
                         reversalOf |-> None, reversed |-> Raw.reversed])])

ImportedEvent(local) == IsMapped(local) /\ tx.map[local] \in DOMAIN tx.db.events

\* The second loop over the events.  Most of them reverse nothing.
LinkReversal ==
    /\ Doing("reversal")
    /\ \/ ~(ImportedEvent(Raw.id) /\ ImportedEvent(Raw.reversalOf)) /\ Done(tx.db)
       \/ /\ ImportedEvent(Raw.id) /\ ImportedEvent(Raw.reversalOf)
          /\ \A e \in DOMAIN tx.db.events :
               tx.db.events[e].reversalOf = tx.map[Raw.reversalOf] => e = tx.map[Raw.id]
          /\ Done([tx.db EXCEPT !.events[tx.map[Raw.id]].reversalOf =
                                  tx.map[Raw.reversalOf]])

-----------------------------------------------------------------------------
(* Basket and Grocery Lists.                                               *)

\* Faulty Cookable: any Recipe that the id is mapped to.
CookableOrDraft(local, n) ==
    IsMapped(local) /\ tx.map[local] \in DOMAIN tx.db.recipes /\ n \in 1 .. MaxServings

\* Faulty Cookable: the limit is for the app to keep.
CookableInAnyAmount(local, n) ==
    /\ IsMapped(local) /\ tx.map[local] \in DOMAIN tx.db.recipes
    /\ tx.db.recipes[tx.map[local]].published

Cookable(local, n) ==
    /\ IsMapped(local) /\ tx.map[local] \in DOMAIN tx.db.recipes
    /\ tx.db.recipes[tx.map[local]].published
    /\ n \in 1 .. MaxServings

\* Into an empty Basket only.
ImportBasket ==
    /\ Doing("basket")
    /\ LET b == tx.db.basket[tx.user]
       IN  \/ db.basket[tx.user] # <<>> /\ Conflict("basket", tx.user)
           \/ db.basket[tx.user] = <<>> /\ ~Cookable(Raw.recipe, Raw.servings)
                /\ Conflict("basket", Raw.recipe)
           \/ /\ db.basket[tx.user] = <<>> /\ Cookable(Raw.recipe, Raw.servings)
              /\ \A k \in DOMAIN b : b[k].recipe # tx.map[Raw.recipe]
              /\ Done([tx.db EXCEPT !.basket[tx.user] =
                   Append(b, [recipe |-> tx.map[Raw.recipe], servings |-> Raw.servings])])

\* Faulty HasLists: only an active list is looked for.
HasActiveList(u) == \E l \in Own(db.lists, u) : db.lists[l].status = "active"

\* GroceryLists were there before the import.
HasLists(u) == Own(db.lists, u) # {}

Acceptable(s) ==
    /\ s \in {"active", "completed"}
    /\ s = "active" => \A l \in Own(tx.db.lists, tx.user) : tx.db.lists[l].status # s

\* Sources that are not mapped are left out, and reported; an item without a
\* mapped Ingredient becomes one that names none.
ImportList ==
    /\ Doing("list")
    /\ \/ HasLists(tx.user) /\ Conflict("grocery-list", tx.user)
       \/ ~HasLists(tx.user) /\ ~Acceptable(Raw.status) /\ Conflict("grocery-list", Raw.id)
       \/ /\ ~HasLists(tx.user) /\ Acceptable(Raw.status)
          /\ LET sources == {k \in DOMAIN Raw.recipes : IsMapped(Raw.recipes[k])}
                 rcs == {tx.map[Raw.recipes[k]] : k \in sources}
                 items == {IF IsMapped(r) THEN tx.map[r] ELSE None : r \in ToSet(Raw.items)}
             IN  /\ rcs \subseteq DOMAIN tx.db.recipes
                 /\ \A j, k \in sources :
                      tx.map[Raw.recipes[j]] = tx.map[Raw.recipes[k]] => j = k
                 /\ items \subseteq DOMAIN tx.db.ingredients \cup {None}
                 /\ \E l \in NewId(Raw.id, ListId, tx.db.lists) :
                      Turn(With(tx.map, Raw.id, l),
                           [tx.db EXCEPT !.lists = With(@, l,
                              [owner |-> tx.user, status |-> Raw.status,
                               recipes |-> rcs, items |-> items])],
                           {<<"grocery-list-recipe", Raw.recipes[k]>> :
                              k \in DOMAIN Raw.recipes \ sources})

ImportStep ==
    \/ ImportCategory \/ ImportIngredient \/ ImportProfile \/ ImportBalance
    \/ ImportRecipe \/ ImportEvent \/ LinkReversal \/ ImportBasket \/ ImportList

-----------------------------------------------------------------------------
(* What else the account does between its imports, where it makes a        *)
(* difference to them: mutations of modules Catalog, Pantry and Grocery.   *)

\* A mutation of u commits d.
Mutation(u, d) ==
    /\ tx = None
    /\ u \in db.users
    /\ db' = d
    /\ last' = [last EXCEPT ![u] = None]
    /\ UNCHANGED <<tx, imports>>

ArchiveCategory(u, c) ==
    /\ c \in Own(db.categories, u)
    /\ ~db.categories[c].archived
    /\ \A i \in DOMAIN db.ingredients :
         db.ingredients[i].category = c => db.ingredients[i].archived
    /\ Mutation(u, [db EXCEPT !.categories[c].archived = TRUE])

ArchiveIngredient(u, i) ==
    /\ i \in Own(db.ingredients, u)
    /\ ~db.ingredients[i].archived
    /\ <<u, i>> \in DOMAIN db.stock => db.stock[<<u, i>>].quantity = 0
    /\ Mutation(u, [db EXCEPT !.ingredients[i].archived = TRUE])

\* PUT stock to an amount, with the event that says so, under a new id.
SetStock(u, i, q) ==
    /\ i \in DOMAIN db.ingredients
    /\ db.ingredients[i].owner \in {None, u}
    /\ ~db.ingredients[i].archived
    /\ LET row == IF <<u, i>> \in DOMAIN db.stock THEN db.stock[<<u, i>>]
                  ELSE [quantity |-> 0, preference |-> Unset]
       IN  /\ q - row.quantity \in Quantity
           /\ \E e \in NewId(None, EventId, db.events) :
                Mutation(u, [db EXCEPT
                  !.stock = With(@, <<u, i>>, [row EXCEPT !.quantity = q]),
                  !.events = With(@, e,
                    [owner |-> u, type |-> "manual", recipe |-> None,
                     changes |-> [j \in {i} |-> q - row.quantity],
                     reversalOf |-> None, reversed |-> FALSE])])

ClearBasket(u) ==
    /\ db.basket[u] # <<>>
    /\ Mutation(u, [db EXCEPT !.basket[u] = <<>>])

DeleteList(u, l) ==
    /\ l \in Own(db.lists, u)
    /\ Mutation(u, [db EXCEPT !.lists = [m \in DOMAIN @ \ {l} |-> @[m]]])

-----------------------------------------------------------------------------
(* Deleting the account.                                                   *)

\* Rows of others that refer to a row of u: the handler refuses then.
ForeignDependants(u) ==
    LET cs == Own(db.categories, u)
        is == Own(db.ingredients, u)
        rcs == Own(db.recipes, u)
        es == Own(db.events, u)
    IN  \/ \E i \in DOMAIN db.ingredients \ is : db.ingredients[i].category \in cs
        \/ \E rc \in DOMAIN db.recipes \ rcs : DOMAIN db.recipes[rc].parts \cap is # {}
        \/ \E key \in DOMAIN db.stock : key[1] # u /\ key[2] \in is
        \/ \E e \in DOMAIN db.events \ es :
             \/ DOMAIN db.events[e].changes \cap is # {}
             \/ db.events[e].recipe \in rcs
             \/ db.events[e].reversalOf \in es
        \/ \E v \in User \ {u} : \E k \in DOMAIN db.basket[v] : db.basket[v][k].recipe \in rcs
        \/ \E l \in DOMAIN db.lists \ Own(db.lists, u) :
             \/ db.lists[l].recipes \cap rcs # {}
             \/ db.lists[l].items \cap is # {}

\* Faulty TeardownOrder: Ingredients before the Recipes they are parts of.
TeardownIngredientsFirst ==
    <<"lists", "basket", "changes", "reversals", "events", "stock", "ingredients",
      "recipes", "categories", "users">>

TeardownOrder ==
    <<"lists", "basket", "changes", "reversals", "events", "stock", "recipes",
      "ingredients", "categories", "users">>

BeginDelete(u) ==
    /\ tx = None
    /\ u \in db.users
    /\ ~ForeignDependants(u)
    /\ tx' = Transaction("delete", u, None, Tagged("delete", TeardownOrder))
    /\ UNCHANGED <<db, last, imports>>

Restricted(table, ids) == [id \in DOMAIN table \ ids |-> table[id]]

\* References to rows that go, where the schema sets them to null.
Nulled(ids, gone) == {IF id \in gone THEN None ELSE id : id \in ids}

\* The tables after one statement of the teardown of u.
After(statement, u, d) ==
    LET es == Own(d.events, u)
        rcs == Own(d.recipes, u)
        is == Own(d.ingredients, u)
    IN  CASE statement = "lists"   -> [d EXCEPT !.lists = Restricted(@, Own(@, u))]
          [] statement = "basket"  -> [d EXCEPT !.basket[u] = <<>>]
          [] statement = "changes" ->
               [d EXCEPT !.events = [e \in DOMAIN @ |->
                  IF e \in es THEN [@[e] EXCEPT !.changes = <<>>] ELSE @[e]]]
          [] statement = "reversals" ->
               [d EXCEPT !.events = [e \in DOMAIN @ |->
                  IF e \in es THEN [@[e] EXCEPT !.reversalOf = None] ELSE @[e]]]
          [] statement = "events"  -> [d EXCEPT !.events = Restricted(@, es)]
          [] statement = "stock"   -> [d EXCEPT !.stock = Restricted(@, {u} \X IngredientId)]
          [] statement = "recipes" ->
               [d EXCEPT !.recipes = Restricted(d.recipes, rcs),
                         !.lists = [l \in DOMAIN d.lists |->
                                      [d.lists[l] EXCEPT !.recipes = Nulled(@, rcs)]]]
          [] statement = "ingredients" ->
               [d EXCEPT !.ingredients = Restricted(d.ingredients, is),
                         !.lists = [l \in DOMAIN d.lists |->
                                      [d.lists[l] EXCEPT !.items = Nulled(@, is)]]]
          [] statement = "categories" ->
               [d EXCEPT !.categories = Restricted(@, Own(@, u))]
          [] statement = "users" ->
               [d EXCEPT !.users = @ \ {u}, !.profile[u] = DefaultProfile]

\* No row that is left refers to a missing one by a key that restricts.
Intact(d) ==
    /\ \A c \in DOMAIN d.categories : d.categories[c].owner \in d.users \cup {None}
    /\ \A i \in DOMAIN d.ingredients : /\ d.ingredients[i].owner \in d.users \cup {None}
                                       /\ d.ingredients[i].category \in DOMAIN d.categories
    /\ \A key \in DOMAIN d.stock : key[1] \in d.users /\ key[2] \in DOMAIN d.ingredients
    /\ \A rc \in DOMAIN d.recipes :
         /\ d.recipes[rc].owner \in d.users \cup {None}
         /\ DOMAIN d.recipes[rc].parts \subseteq DOMAIN d.ingredients
    /\ \A e \in DOMAIN d.events :
         /\ d.events[e].owner \in d.users
         /\ DOMAIN d.events[e].changes \subseteq DOMAIN d.ingredients
         /\ d.events[e].recipe \in DOMAIN d.recipes \cup {None}
         /\ d.events[e].reversalOf \in DOMAIN d.events \cup {None}
    /\ \A u \in User : \A k \in DOMAIN d.basket[u] :
         u \in d.users /\ d.basket[u][k].recipe \in DOMAIN d.recipes

\* No key restricts the statement; stock_changes refer to their event.
Permitted(statement, u, d) ==
    /\ statement = "events" => \A e \in Own(d.events, u) : DOMAIN d.events[e].changes = {}
    /\ Intact(After(statement, u, d))

DeleteStep ==
    /\ Doing("delete")
    /\ Permitted(Raw, tx.user, tx.db)
    /\ Done(After(Raw, tx.user, tx.db))

-----------------------------------------------------------------------------

AccountStep(u) ==
    \/ \E c \in CategoryId : ArchiveCategory(u, c)
    \/ \E i \in IngredientId :
         \/ ArchiveIngredient(u, i)
         \/ \E q \in {0, 1} : SetStock(u, i, q)
    \/ ClearBasket(u)
    \/ \E l \in ListId : DeleteList(u, l)

ImportNext ==
    \/ \E u \in User : \/ \E s \in DeviceState : BeginImport(u, s)
                       \/ AccountStep(u)
                       \/ BeginDelete(u)
    \/ ImportStep \/ DeleteStep
    \/ Commit \/ Abort

ImportSpec == ImportInit /\ [][ImportNext]_importVars

-----------------------------------------------------------------------------
(* Properties.                                                             *)

\* Each account's data refer to its own rows and to global ones, whatever
\* devices of other accounts have imported under the same names and ids; so
\* none is refused its deletion (full_services.py:1186-1264,
\* full_services.py:1359-1436, account.py:321-346).
ReferencesStayInside ==
    LET inside(u, table, ids) == \A id \in ids : table[id].owner \in {None, u}
    IN  /\ \A i \in DOMAIN db.ingredients :
             inside(db.ingredients[i].owner, db.categories, {db.ingredients[i].category})
        /\ \A key \in DOMAIN db.stock : inside(key[1], db.ingredients, {key[2]})
        /\ \A rc \in DOMAIN db.recipes :
             inside(db.recipes[rc].owner, db.ingredients, DOMAIN db.recipes[rc].parts)
        /\ \A e \in DOMAIN db.events :
             LET row == db.events[e]
             IN  /\ inside(row.owner, db.ingredients, DOMAIN row.changes)
                 /\ inside(row.owner, db.recipes, {row.recipe} \ {None})
                 /\ row.reversalOf # None => db.events[row.reversalOf].owner = row.owner
        /\ \A u \in User : inside(u, db.recipes, RecipesIn(db.basket[u]))
        /\ \A l \in DOMAIN db.lists :
             /\ inside(db.lists[l].owner, db.recipes, db.lists[l].recipes \ {None})
             /\ inside(db.lists[l].owner, db.ingredients, db.lists[l].items \ {None})
        /\ \A u \in db.users : ~ForeignDependants(u)

\* An import makes no second Category or Ingredient of a name the account can
\* see: the unique indexes would let one beside a global row pass
\* (full_services.py:1195-1198, full_services.py:1230-1239).
NoSecondOfAName ==
    \A u \in User, n \in Name : /\ Cardinality(Named(db.categories, u, n)) <= 1
                                /\ Cardinality(Named(db.ingredients, u, n)) <= 1

\* What is in a Basket can be cooked: an import puts no draft there, though it
\* maps the Recipes of a device to drafts too (full_services.py:1521-1540).
BasketIsPublished ==
    \A u \in User : \A rc \in RecipesIn(db.basket[u]) : db.recipes[rc].published

\* When an import is over, everything the device sent is the server's or is
\* reported: each catalog row, Recipe, event and list is mapped or named in a
\* conflict, and each balance that is not zero and each setting of a tracked
\* Ingredient is the device's or named in one, in whatever order they came and
\* whichever ids were mapped to one Ingredient (full_services.py:1283-1357).
NothingIsDropped ==
    tx # None /\ tx.op = "import" /\ tx.todo = <<>> =>
      LET s == tx.state
          reported(local) == \E c \in tx.conflicts : c[2] = local
      IN  /\ \A raw \in ToSet(s.categories) \cup ToSet(s.ingredients) \cup ToSet(s.recipes)
                          \cup ToSet(s.activity) :
               IsMapped(raw.id) \/ reported(raw.id)
          /\ \A raw \in ToSet(s.lists) :
               IsMapped(raw.id) \/ reported(raw.id) \/ reported(tx.user)
          /\ \A local \in s.tracked : IsMapped(local) =>
               LET key == <<tx.user, tx.map[local]>>
               IN  \/ <<"balance", local>> \in tx.conflicts /\ Counted(s, local) = None
                   \/ /\ key \in DOMAIN tx.db.stock
                      /\ \/ Counted(s, local) \in {0, tx.db.stock[key].quantity}
                         \/ <<"balance", local>> \in tx.conflicts
                      /\ \/ local \notin DOMAIN s.preferences
                         \/ <<"pantryPreferences", local>> \in tx.conflicts
                         \/ \A a \in Setting :
                              s.preferences[local][a] \in {None, tx.db.stock[key].preference[a]}

\* The teardown's statements, in their order, meet no foreign key that
\* restricts them, whatever history and lists were imported, reversals of
\* each other included (account.py:345-354 and models.py).
TeardownNeverBlocked ==
    tx # None /\ tx.op = "delete" /\ tx.todo # <<>> =>
      Permitted(Raw, tx.user, tx.db)

\* "Conservative mapping avoids overwriting server-owned data."
\* (full_services.py:1173), and a teardown "preserves global/other-account
\* data" (README.md:130).  An import leaves each row there was as it was, but
\* that a balance of zero and settings that are unset may be replaced, and it
\* adds to no Basket and to no lists that hold something.  A teardown leaves
\* nothing of its account.  Neither touches what is not the account's.
ServerDataIsKept ==
    [][tx # None /\ db' # db =>
         LET u == tx.user
             tables == {"categories", "ingredients", "recipes", "events", "lists"}
             others(t) == [id \in DOMAIN t \ Own(t, u) |-> t[id]]
         IN  /\ \A t \in tables : others(db'[t]) = others(db[t])
             /\ \A key \in DOMAIN db.stock \cup DOMAIN db'.stock : key[1] # u =>
                  /\ key \in DOMAIN db.stock \cap DOMAIN db'.stock
                  /\ db'.stock[key] = db.stock[key]
             /\ \A v \in User \ {u} : /\ db'.basket[v] = db.basket[v]
                                      /\ db'.profile[v] = db.profile[v]
             /\ db'.users = IF tx.op = "delete" THEN db.users \ {u} ELSE db.users
             /\ tx.op = "delete" => \A t \in tables : Own(db'[t], u) = {}
             /\ tx.op = "import" =>
                  /\ \A t \in tables : \A id \in DOMAIN db[t] : db'[t][id] = db[t][id]
                  /\ \A key \in DOMAIN db.stock :
                       /\ db.stock[key].quantity \in {0, db'.stock[key].quantity}
                       /\ \A a \in Setting : db.stock[key].preference[a]
                                               \in {None, db'.stock[key].preference[a]}
                  /\ db.basket[u] \in {<<>>, db'.basket[u]}
                  /\ db.profile[u] \in {DefaultProfile, db'.profile[u]}
                  /\ HasLists(u) => db'.lists = db.lists]_importVars

\* What a device has imported, and nothing has changed since, it can import
\* again, as after a lost answer under another key: nothing but history is
\* added (full_services.py:1196, full_services.py:1363, full_services.py:1516,
\* full_services.py:1553).  A state with an event whose id is a UUID is refused
\* as a whole then (full_services.py:1465): of that this says nothing.
ReimportIsHarmless ==
    [][tx # None /\ tx.op = "import" /\ last[tx.user] = tx.state =>
         \A t \in DOMAIN db \ {"events"} : db'[t] = db[t]]_importVars

=============================================================================
