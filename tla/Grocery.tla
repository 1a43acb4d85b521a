------------------------------ MODULE Grocery -------------------------------
(***************************************************************************)
(* The shopping of one account: the Basket of Recipes to cook, the Grocery *)
(* Lists made from it or by hand, their items, and the purchases that a    *)
(* completed list adds to the Pantry.                                      *)
(*                                                                         *)
(* As in Pantry, an action is one committed mutation.  A client that made  *)
(* a list of its own from what it once read may send what it computed from *)
(* along; it may be stale, so any such basis is possible here.             *)
(* Names, labels, titles and units are left out.                           *)
(***************************************************************************)
EXTENDS Pantry, FiniteSetsExt

CONSTANTS
    List,           \* GroceryList ids that clients choose
    Item,           \* GroceryListItem ids that clients choose
    BasketServings, \* servings of a Basket item
    ItemAmount      \* quantities that clients give an item

ASSUME GroceryAssumption ==
    BasketServings \subseteq Nat \ {0} /\ ItemAmount \subseteq 1 .. MaxQuantity

VARIABLES
    basket,     \* the basket_items rows, by position
    lists,      \* the grocery_lists row of each id, or None
    items       \* the grocery_list_items row of each id, or None

groceryVars == <<basket, lists, items>>
kitchenVars == <<pantryVars, groceryVars>>

Portion == [recipe: Recipe, servings: BasketServings]

\* What a completion added to the Pantry, and under which event.
Addition == [event: Event, items: SUBSET Item]

\* recipes: the grocery_list_recipes rows, by position.  additions is history:
\* the code does not say which event came from which list.
ListRow == [status: {"active", "completed"}, recipes: Seq(Portion),
            additions: SUBSET Addition]

\* original: original_required and original_pantry, for a generated item
ItemRow == [list: List,
            ingredient: Ingredient \cup {None},
            quantity: Quantity \cup {None},
            checked: BOOLEAN,
            edited: BOOLEAN,
            original: [ingredient: Ingredient, required: Quantity,
                       pantry: Quantity] \cup {None}]

ASSUME GroceryNoneAssumption ==
    None \notin List \cup Item \cup ItemAmount \cup ListRow \cup ItemRow
ASSUME BasisAssumption == \A used \in SUBSET Ingredient : None \notin [used -> Quantity]

GroceryTypeOK ==
    /\ basket \in Seq(Portion)
    /\ lists \in [List -> ListRow \cup {None}]
    /\ items \in [Item -> ItemRow \cup {None}]
    /\ \A it \in Item : items[it] # None =>
         /\ lists[items[it].list] # None
         /\ items[it].quantity # None => items[it].quantity > 0

GroceryInit ==
    /\ PantryInit
    /\ basket = <<>>
    /\ lists = [l \in List |-> None]
    /\ items = [it \in Item |-> None]

-----------------------------------------------------------------------------
(* The Basket.                                                             *)

RecipesOf(portions) == {portions[k].recipe : k \in DOMAIN portions}

\* The portions whose Recipe is none of rcs, in their order.
Without(portions, rcs) ==
    LET kept[n \in 0 .. Len(portions)] ==
          IF n = 0 THEN <<>>
          ELSE IF portions[n].recipe \in rcs THEN kept[n - 1]
          ELSE Append(kept[n - 1], portions[n])
    IN  kept[Len(portions)]

\* A Recipe in the Basket keeps its place; a new one goes to the end.
UpsertBasketItem(rc, n) ==
    LET p == [recipe |-> rc, servings |-> n]
    IN  /\ basket' = IF rc \in RecipesOf(basket)
                     THEN [k \in DOMAIN basket |->
                             IF basket[k].recipe = rc THEN p ELSE basket[k]]
                     ELSE Append(basket, p)
        /\ UNCHANGED <<pantryVars, lists, items>>

RemoveBasketItem(rc) ==
    /\ basket' = Without(basket, {rc})
    /\ UNCHANGED <<pantryVars, lists, items>>

ClearBasket ==
    /\ basket' = <<>>
    /\ UNCHANGED <<pantryVars, lists, items>>

\* The Basket with the Recipes of list l that it lacks.
Restored(l) == basket \o Without(lists[l].recipes, RecipesOf(basket))

-----------------------------------------------------------------------------
(* Making a list.                                                          *)

Active(l) == lists[l] # None /\ lists[l].status = "active"
NoneActive == \A l \in List : ~Active(l)

\* Faulty Startable: only the id is looked at.
StartableBeside(l) == lists[l] = None

Startable(l) == lists[l] = None /\ NoneActive

NewList(status, recipes) ==
    [status |-> status, recipes |-> recipes, additions |-> {}]

CreateManualList(l) ==
    /\ Startable(l)
    /\ lists' = [lists EXCEPT ![l] = NewList("active", <<>>)]
    /\ UNCHANGED <<pantryVars, basket, items>>

UsedBy(portions) == UNION {DOMAIN Needs[rc] : rc \in RecipesOf(portions)}

Using(portions, i) == {k \in DOMAIN portions : i \in DOMAIN Needs[portions[k].recipe]}

\* Faulty Required: rounded once, after the sum (for equal base servings).
RequiredRoundedOnce(portions, i) ==
    LET base == BaseServings[CHOOSE rc \in RecipesOf(portions) :
                               i \in DOMAIN Needs[rc]]
    IN  Scaled(1, MapThenSumSet(LAMBDA k : Needs[portions[k].recipe][i]
                                             * portions[k].servings,
                                Using(portions, i)), base)

\* What the portions need of Ingredient i, each Recipe's share rounded.
Required(portions, i) ==
    MapThenSumSet(LAMBDA k : LET p == portions[k]
                             IN  Scaled(Needs[p.recipe][i], p.servings,
                                        BaseServings[p.recipe]),
                  Using(portions, i))

\* What must be bought, beyond what the Pantry has.
Purchase(i) == Required(basket, i) - Balance(i)

Shortage == {i \in UsedBy(basket) : Purchase(i) > 0}

Generated(l, i) ==
    [list |-> l, ingredient |-> i, quantity |-> Purchase(i),
     checked |-> FALSE, edited |-> FALSE,
     original |-> [ingredient |-> i, required |-> Required(basket, i),
                   pantry |-> Balance(i)]]

\* recipe_basis: the Recipes are still those, with what they need.
RecipesHold(recipes) == recipes # None => recipes = RecipesOf(basket)

\* Faulty BalancesHold: the balances are not compared.
BalancesHoldAlways(balances) == TRUE

\* pantry_basis: the balances of what the Basket needs, as they still are.
BalancesHold(balances) ==
    balances # None => balances = [i \in UsedBy(basket) |-> Balance(i)]

\* recipes and balances: the basis of the totals the client has shown, or
\* None.  ids gives each item to buy an id, the client's or a new one.  With
\* nothing to buy the list is completed at once.
CreateListFromBasket(l, recipes, balances) ==
    /\ Startable(l)
    /\ basket # <<>>
    /\ RecipesHold(recipes)
    /\ BalancesHold(balances)
    /\ \A i \in Shortage : Fits(Purchase(i)) /\ Fits(Required(basket, i))
    /\ lists' = [lists EXCEPT ![l] =
                   NewList(IF Shortage = {} THEN "completed" ELSE "active",
                           basket)]
    /\ \E ids \in Injection(Shortage, {it \in Item : items[it] = None}) :
         items' = [it \in Item |-> IF \E i \in Shortage : ids[i] = it
                                   THEN Generated(l, CHOOSE i \in Shortage : ids[i] = it)
                                   ELSE items[it]]
    /\ basket' = <<>>
    /\ UNCHANGED pantryVars

-----------------------------------------------------------------------------
(* Working with a list.                                                    *)

ItemsOf(l) == {it \in Item : items[it] # None /\ items[it].list = l}

\* An item may name a catalog Ingredient, unless it is archived.
Nameable(i) == i \in Ingredient => ~archived[i]

CreateItem(l, it, i, q, preventDuplicate) ==
    /\ Active(l)
    /\ Nameable(i)
    /\ preventDuplicate /\ i # None =>
         \A other \in ItemsOf(l) : items[other].ingredient # i
    /\ items[it] = None
    /\ items' = [items EXCEPT ![it] =
                   [list |-> l, ingredient |-> i, quantity |-> q,
                    checked |-> FALSE, edited |-> FALSE, original |-> None]]
    /\ UNCHANGED <<pantryVars, basket, lists>>

\* Faulty Editable: the status of the list is not looked at.
EditableEver(it) == items[it] # None

Editable(it) == items[it] # None /\ Active(items[it].list)

\* Faulty EditedBy: compares with the last save, and forgets.
EditedByLast(it, i, q, relabelled) ==
    items[it].ingredient # i \/ items[it].quantity # q \/ relabelled

\* Whether saving i and q, and another label or unit if relabelled, makes or
\* leaves the item an edited one.
EditedBy(it, i, q, relabelled) ==
    items[it].edited \/ items[it].ingredient # i \/ items[it].quantity # q \/ relabelled

UpdateItem(it, i, q, checked, relabelled) ==
    /\ Editable(it)
    /\ Nameable(i)
    /\ items' = [items EXCEPT ![it].ingredient = i, ![it].quantity = q,
                              ![it].checked = checked,
                              ![it].edited = EditedBy(it, i, q, relabelled)]
    /\ UNCHANGED <<pantryVars, basket, lists>>

RemoveItem(it) ==
    /\ Editable(it)
    /\ items' = [items EXCEPT ![it] = None]
    /\ UNCHANGED <<pantryVars, basket, lists>>

\* Faulty Purchased: of two items of one Ingredient, one counts.
PurchasedOfOne(selected) ==
    [i \in {items[it].ingredient : it \in selected} |->
       items[CHOOSE it \in selected : items[it].ingredient = i].quantity]

\* What the selected items add to each Ingredient: one change for each.
Purchased(selected) ==
    [i \in {items[it].ingredient : it \in selected} |->
       MapThenSumSet(LAMBDA it : items[it].quantity,
                     {it \in selected : items[it].ingredient = i})]

\* Event e adds the selected items to the Pantry.
Purchases(selected, e) ==
    /\ Post(e, Manual, Purchased(selected))
    /\ UNCHANGED archived

\* The row of a list completed with these items.
Completed(row, selected, e) ==
    [row EXCEPT !.status = "completed",
                !.additions = IF selected = {} THEN @
                              ELSE @ \cup {[event |-> e, items |-> selected]}]

\* Faulty Completable: a list can be completed again.
CompletableEver(l) == lists[l] # None

Completable(l) == Active(l)

\* Only checked catalog items with a quantity can be selected; with none
\* selected nothing is added and no event recorded.
CompleteList(l, selected, e) ==
    /\ Completable(l)
    /\ \A it \in selected : items[it].checked /\ items[it].ingredient # None
                              /\ items[it].quantity # None
    /\ IF selected = {} THEN UNCHANGED pantryVars ELSE Purchases(selected, e)
    /\ lists' = [lists EXCEPT ![l] = Completed(lists[l], selected, e)]
    /\ UNCHANGED <<basket, items>>

\* A completed list's Recipes go back to the Basket.
ReuseList(l) ==
    /\ lists[l] # None
    /\ lists[l].status = "completed"
    /\ basket' = Restored(l)
    /\ UNCHANGED <<pantryVars, lists, items>>

\* Faulty DeleteList: the items stay.
DeleteListOnly(l, restore) ==
    /\ lists[l] # None
    /\ basket' = IF restore THEN Restored(l) ELSE basket
    /\ lists' = [lists EXCEPT ![l] = None]
    /\ UNCHANGED <<pantryVars, items>>

\* Active or completed; its items go with it.
DeleteList(l, restore) ==
    /\ lists[l] # None
    /\ basket' = IF restore THEN Restored(l) ELSE basket
    /\ lists' = [lists EXCEPT ![l] = None]
    /\ items' = [it \in Item |-> IF it \in ItemsOf(l) THEN None ELSE items[it]]
    /\ UNCHANGED pantryVars

-----------------------------------------------------------------------------

BasketStep ==
    \/ \E rc \in Recipe : \/ \E n \in BasketServings : UpsertBasketItem(rc, n)
                          \/ RemoveBasketItem(rc)
    \/ ClearBasket

ListStep(l) ==
    \/ CreateManualList(l)
    \/ \E recipes \in SUBSET Recipe \cup {None},
          balances \in [UsedBy(basket) -> Quantity] \cup {None} :
         CreateListFromBasket(l, recipes, balances)
    \/ \E selected \in SUBSET ItemsOf(l), e \in Event : CompleteList(l, selected, e)
    \/ ReuseList(l)
    \/ \E restore \in BOOLEAN : DeleteList(l, restore)

ItemStep(it) ==
    \/ \E i \in Ingredient \cup {None}, q \in ItemAmount \cup {None} :
         \/ \E l \in List, prevent \in BOOLEAN : CreateItem(l, it, i, q, prevent)
         \/ \E checked, relabelled \in BOOLEAN : UpdateItem(it, i, q, checked, relabelled)
    \/ RemoveItem(it)

GroceryNext ==
    \/ PantryNext /\ UNCHANGED groceryVars
    \/ BasketStep
    \/ \E l \in List : ListStep(l)
    \/ \E it \in Item : ItemStep(it)

GrocerySpec == GroceryInit /\ [][GroceryNext]_kitchenVars

-----------------------------------------------------------------------------
(* Properties.                                                             *)

\* An account shops from one list at a time, and neither its Basket nor a list
\* names a Recipe twice, however Recipes are added, reused and restored
\* (full_services.py:233-256, full_services.py:354-378,
\* full_services.py:777-824).
OneShopping ==
    /\ \A l, m \in List : Active(l) /\ Active(m) => l = m
    /\ \A portions \in {basket} \cup {lists[l].recipes : l \in {m \in List : lists[m] # None}} :
         \A j, k \in DOMAIN portions : portions[j].recipe = portions[k].recipe => j = k

\* A list adds to the Pantry once, by an event of its own, and what the history
\* says of that event is the sum of the list's own items for each Ingredient,
\* as they are shown ever after: an edit or another completion later, or a
\* manual change under the same id, would part the two
\* (full_services.py:680-740).
PurchasesAreTheItems ==
    \A l \in {m \in List : lists[m] # None} : \A p \in lists[l].additions :
      /\ lists[l].status = "completed"
      /\ \A m \in {n \in List : lists[n] # None} : \A q \in lists[m].additions :
           m # l \/ q # p => q.event # p.event /\ q.items \cap p.items = {}
      /\ p.items \subseteq ItemsOf(l)
      /\ ChangedBy(p.event) = {items[it].ingredient : it \in p.items}
      /\ \A i \in ChangedBy(p.event) :
           ChangeOf(p.event, i).delta =
             MapThenSumSet(LAMBDA it : items[it].quantity,
                           {it \in p.items : items[it].ingredient = i})

\* An item that says it was not edited still shows what was computed for it
\* (full_services.py:659-669).
UneditedIsOriginal ==
    \A it \in Item :
      LET row == items[it]
      IN  row # None /\ ~row.edited /\ row.original # None =>
            /\ row.ingredient = row.original.ingredient
            /\ row.quantity = row.original.required - row.original.pantry

\* A list made with a pantry_basis is the list the client computed from it, at
\* the Basket's servings: it buys what was short of the balances the client
\* saw, and nothing else, however stale that view may be (full_services.py:398-415,
\* full_services.py:459-470).
ListMatchesReview ==
    [][\A l \in List : lists[l] = None /\ lists'[l] # None =>
         \A balances \in [UsedBy(basket) -> Quantity] :
           CreateListFromBasket(l, None, balances) =>
             \A i \in UsedBy(basket) :
               LET short == Required(basket, i) - balances[i]
               IN  IF short > 0
                   THEN \E it \in ItemsOf(l)' : /\ items'[it].ingredient = i
                                                /\ items'[it].quantity = short
                   ELSE \A it \in ItemsOf(l)' : items'[it].ingredient # i]_kitchenVars

\* Who buys a new list and cooks its Recipes runs out of nothing, and has
\* bought no more than that takes: the list rounds as cooking does
\* (full_services.py:441-500 and full_services.py:1098-1106).
ShoppingCoversCooking ==
    [][\A l \in List :
         lists[l] = None /\ lists'[l] # None =>
           \A i \in Ingredient :
             LET bought == MapThenSumSet(LAMBDA it : items'[it].quantity,
                             {it \in ItemsOf(l)' : items'[it].ingredient = i})
                 cooked(k) == Consumed(basket[k].recipe, basket[k].servings)
                 taken == MapThenSumSet(LAMBDA k : cooked(k)[i],
                             {k \in DOMAIN lists'[l].recipes : i \in DOMAIN cooked(k)})
                 left == Balance(i) + bought + taken
             IN  /\ DOMAIN lists'[l].recipes # {} /\ i \in UsedBy(basket) => left >= 0
                 /\ bought > 0 => left = 0]_kitchenVars

\* A completed list is history: neither it nor its items change again, they
\* can only be deleted together (full_services.py:538-542).
CompletedIsKept ==
    [][\A l \in List :
         lists[l] # None /\ lists[l].status = "completed" =>
           \/ lists'[l] = lists[l] /\ ItemsOf(l)' = ItemsOf(l)
                /\ \A it \in ItemsOf(l) : items'[it] = items[it]
           \/ lists'[l] = None /\ ItemsOf(l)' = {}]_kitchenVars

=============================================================================
