---------------------------- MODULE GroceryProofs ---------------------------
(***************************************************************************)
(* Proofs about Grocery, for any Recipes, lists, items and amounts: the    *)
(* Pantry keeps its promises among the steps of shopping, an item that was *)
(* not edited shows what was computed for it, a completed list stays, one  *)
(* list is shopped from at a time, no Recipe is listed twice, a list is    *)
(* the one that was reviewed, it buys what cooking its Recipes takes, and  *)
(* what it adds to the Pantry, once, is the sum of its items.              *)
(***************************************************************************)
EXTENDS Grocery, PantryProofs, FiniteSetTheorems, WellFoundedInduction

-----------------------------------------------------------------------------
(* The Pantry among the steps of shopping.                                 *)

\* A completed list posts a manual change or nothing; no other step of
\* shopping touches the Pantry.
LEMMA KitchenStep == UndoInv /\ [GroceryNext]_kitchenVars => UndoInv'
<1> SUFFICES ASSUME UndoInv, [GroceryNext]_kitchenVars PROVE UndoInv'
  OBVIOUS
<1>1. CASE UNCHANGED pantryVars
  BY <1>1, UndoStep
<1>2. CASE PantryNext
  BY <1>2, UndoStep
<1>3. ASSUME NEW selected, NEW e \in Event, Purchases(selected, e)
      PROVE  UndoInv'
  <2>1. Manual.reversalOf = None /\ Manual.reversed = FALSE
    BY DEF Manual
  <2> QED BY <1>3, <2>1, PostUndo, EventTypes DEF Purchases
<1>4. CASE BasketStep
  BY <1>1, <1>4 DEF BasketStep, UpsertBasketItem, RemoveBasketItem, ClearBasket
<1>5. ASSUME NEW l \in List, ListStep(l)
      PROVE  UndoInv'
  BY <1>1, <1>3, <1>5 DEF ListStep, CreateManualList, CreateListFromBasket, CompleteList,
                          ReuseList, DeleteList
<1>6. ASSUME NEW it \in Item, ItemStep(it)
      PROVE  UndoInv'
  BY <1>1, <1>6 DEF ItemStep, CreateItem, UpdateItem, RemoveItem
<1>7. CASE UNCHANGED kitchenVars
  BY <1>1, <1>7 DEF kitchenVars
<1> QED BY <1>2, <1>4, <1>5, <1>6, <1>7 DEF GroceryNext

\* Balances are explained by their history among shopping and completed lists
\* too (full_services.py:674-776).
THEOREM HistoryInKitchen == GrocerySpec => []HistoryExplainsStock
<1>1. GroceryInit => UndoInv
  BY UndoStart DEF GroceryInit
<1>2. UndoInv => HistoryExplainsStock
  BY DEF UndoInv, PantryInv
<1> QED BY <1>1, <1>2, KitchenStep, PTL DEF GrocerySpec

\* A cooking is undone once and exactly among shopping too
\* (full_services.py:1120-1169).
THEOREM UndoneOnceInKitchen == GrocerySpec => []UndoneOnceAndExactly
<1>1. GroceryInit => UndoInv
  BY UndoStart DEF GroceryInit
<1> QED BY <1>1, UndoneOfInv, KitchenStep, PTL DEF GrocerySpec

-----------------------------------------------------------------------------
(* Items.                                                                  *)

\* A row of an item.
IsItem(row) ==
    /\ DOMAIN row = {"list", "ingredient", "quantity", "checked", "edited", "original"}
    /\ row = [field \in DOMAIN row |-> row[field]]
    /\ row.edited \in BOOLEAN

\* What an item shows of what was computed for it.
ShowsOriginal(row) ==
    ~row.edited /\ row.original # None =>
      /\ row.ingredient = row.original.ingredient
      /\ row.quantity = row.original.required - row.original.pantry

GoodItem(row) == IsItem(row) /\ ShowsOriginal(row)

\* The rows of items, and the ids of lists.
ItemsInv ==
    /\ DOMAIN lists = List
    /\ items = [it \in Item |-> items[it]]
    /\ \A it \in Item : items[it] = None \/ GoodItem(items[it])

\* A generated item shows what was computed.
LEMMA GeneratedGood ==
  ASSUME NEW l, NEW i
  PROVE  GoodItem(Generated(l, i))
<1> DEFINE required == Required(basket, i)
<1>1. Generated(l, i) = [list |-> l, ingredient |-> i, quantity |-> required - Balance(i),
                         checked |-> FALSE, edited |-> FALSE,
                         original |-> [ingredient |-> i, required |-> required,
                                       pantry |-> Balance(i)]]
  BY DEF Generated, Purchase
<1> HIDE DEF required
<1>2. IsItem(Generated(l, i))
  BY <1>1 DEF IsItem
<1>3. ShowsOriginal(Generated(l, i))
  BY <1>1 DEF ShowsOriginal
<1> QED BY <1>2, <1>3 DEF GoodItem

\* An item made by hand has nothing to show.
LEMMA CreatedGood ==
  ASSUME NEW l, NEW i, NEW q
  PROVE  GoodItem([list |-> l, ingredient |-> i, quantity |-> q,
                   checked |-> FALSE, edited |-> FALSE, original |-> None])
  BY DEF GoodItem, IsItem, ShowsOriginal

\* A row that is saved and left unmarked shows what it showed.
LEMMA UpdatedGood ==
  ASSUME NEW it \in Item, GoodItem(items[it]), NEW i, NEW q, NEW relabelled \in BOOLEAN,
         NEW new, IsItem(new), new.list = items[it].list, new.original = items[it].original,
         new.ingredient = i, new.quantity = q, new.edited = EditedBy(it, i, q, relabelled)
  PROVE  GoodItem(new)
  BY DEF GoodItem, IsItem, ShowsOriginal, EditedBy

\* What the steps of shopping do to the items: write one good row, clear those
\* of a list, or give the new ones of a list good rows.
LEMMA ListItems ==
  ASSUME ItemsInv, NEW l \in List, ListStep(l)
  PROVE  /\ DOMAIN lists' = List /\ items' = [it \in Item |-> items'[it]]
         /\ \A m \in List \ {l} : lists'[m] = lists[m]
         /\ \A it \in Item :
              \/ items'[it] = items[it]
              \/ items'[it] = None /\ it \in ItemsOf(l) /\ lists'[l] = None
              \/ /\ items[it] = None /\ lists[l] = None
                 /\ GoodItem(items'[it]) /\ items'[it].list = l
<1>1. /\ DOMAIN lists = List
      /\ items = [it \in Item |-> items[it]]
  BY DEF ItemsInv
<1>2. CASE CreateManualList(l) \/ ReuseList(l)
           \/ \E selected \in SUBSET ItemsOf(l), e \in Event : CompleteList(l, selected, e)
  BY <1>1, <1>2 DEF CreateManualList, ReuseList, CompleteList
<1>3. ASSUME NEW recipes, NEW balances, CreateListFromBasket(l, recipes, balances)
      PROVE  /\ lists[l] = None
             /\ DOMAIN lists' = List /\ items' = [it \in Item |-> items'[it]]
             /\ \A m \in List \ {l} : lists'[m] = lists[m]
             /\ \A it \in Item : \/ items'[it] = items[it]
                                 \/ /\ items[it] = None
                                    /\ GoodItem(items'[it]) /\ items'[it].list = l
  <2>1. PICK ids \in Injection(Shortage, {it \in Item : items[it] = None}) :
          items' = [it \in Item |-> IF \E i \in Shortage : ids[i] = it
                                    THEN Generated(l, CHOOSE i \in Shortage : ids[i] = it)
                                    ELSE items[it]]
    BY <1>3 DEF CreateListFromBasket
  <2>2. \A i \in Shortage : items[ids[i]] = None
    BY <2>1 DEF Injection
  <2>3. ASSUME NEW it \in Item, items'[it] # items[it]
        PROVE  items[it] = None /\ GoodItem(items'[it]) /\ items'[it].list = l
    <3>1. PICK i \in Shortage : ids[i] = it
      BY <2>1, <2>3
    <3>2. PICK j : items'[it] = Generated(l, j)
      BY <2>1, <3>1
    <3>3. Generated(l, j).list = l
      BY DEF Generated
    <3> QED BY <2>2, <3>1, <3>2, <3>3, GeneratedGood
  <2>4. /\ lists[l] = None /\ DOMAIN lists' = List
        /\ \A m \in List \ {l} : lists'[m] = lists[m]
    BY <1>1, <1>3 DEF CreateListFromBasket, Startable
  <2> QED BY <2>1, <2>3, <2>4
<1>4. CASE \E restore \in BOOLEAN : DeleteList(l, restore)
  <2>1. /\ items' = [it \in Item |-> IF it \in ItemsOf(l) THEN None ELSE items[it]]
        /\ lists' = [lists EXCEPT ![l] = None]
    BY <1>4 DEF DeleteList
  <2> QED BY <1>1, <2>1
<1> QED BY <1>2, <1>3, <1>4 DEF ListStep

LEMMA OneItem ==
  ASSUME ItemsInv, NEW it \in Item, ItemStep(it)
  PROVE  /\ lists' = lists
         /\ \E row : items' = [items EXCEPT ![it] = row] /\ (row = None \/ GoodItem(row))
         /\ \/ items[it] = None /\ GoodItem(items'[it]) /\ Active(items'[it].list)
            \/ /\ items[it] # None /\ Active(items[it].list)
               /\ items'[it] # None => items'[it].list = items[it].list
<1>1. /\ items = [other \in Item |-> items[other]]
      /\ items[it] = None \/ GoodItem(items[it])
  BY DEF ItemsInv
<1>2. ASSUME NEW i, NEW q, NEW l, NEW prevent, CreateItem(l, it, i, q, prevent)
      PROVE  /\ \E row : items' = [items EXCEPT ![it] = row] /\ (row = None \/ GoodItem(row))
             /\ items[it] = None /\ GoodItem(items'[it]) /\ Active(items'[it].list)
  <2> DEFINE row == [list |-> l, ingredient |-> i, quantity |-> q,
                     checked |-> FALSE, edited |-> FALSE, original |-> None]
  <2>1. GoodItem(row) /\ row.list = l
    BY CreatedGood
  <2>2. items[it] = None /\ items' = [items EXCEPT ![it] = row] /\ Active(l)
    BY <1>2 DEF CreateItem
  <2> HIDE DEF row
  <2> QED BY <1>1, <2>1, <2>2
<1>3. ASSUME NEW i, NEW q, NEW checked \in BOOLEAN, NEW relabelled \in BOOLEAN,
             UpdateItem(it, i, q, checked, relabelled)
      PROVE  /\ \E row : items' = [items EXCEPT ![it] = row] /\ (row = None \/ GoodItem(row))
             /\ items[it] # None /\ Active(items[it].list)
             /\ items'[it].list = items[it].list
  <2>1. items[it] # None /\ Active(items[it].list) /\ GoodItem(items[it])
    BY <1>1, <1>3 DEF UpdateItem, Editable
  <2>2. EditedBy(it, i, q, relabelled) \in BOOLEAN
    BY <2>1 DEF EditedBy, GoodItem, IsItem
  <2>3. PICK edited \in BOOLEAN : edited = EditedBy(it, i, q, relabelled)
    BY <2>2
  <2>4. PICK row : row = [items[it] EXCEPT !.ingredient = i, !.quantity = q,
                                           !.checked = checked, !.edited = edited]
    OBVIOUS
  <2>5. items' = [items EXCEPT ![it] = row]
    BY <1>1, <1>3, <2>3, <2>4 DEF UpdateItem
  <2>6. /\ IsItem(row) /\ row.list = items[it].list /\ row.original = items[it].original
        /\ row.ingredient = i /\ row.quantity = q /\ row.edited = edited
    BY <2>1, <2>4 DEF GoodItem, IsItem
  <2>7. GoodItem(row)
    BY <2>1, <2>3, <2>6, UpdatedGood
  <2> QED BY <1>1, <2>1, <2>5, <2>6, <2>7
<1>4. CASE RemoveItem(it)
  BY <1>1, <1>4 DEF RemoveItem, Editable
<1>5. lists' = lists
  BY DEF ItemStep, CreateItem, UpdateItem, RemoveItem
<1> QED BY <1>2, <1>3, <1>4, <1>5 DEF ItemStep

\* Steps of the Pantry and of the Basket leave lists and items.
LEMMA OtherSteps ==
  ASSUME [GroceryNext]_kitchenVars
  PROVE  \/ lists' = lists /\ items' = items
         \/ \E l \in List : ListStep(l)
         \/ \E it \in Item : ItemStep(it)
  BY DEF GroceryNext, BasketStep, UpsertBasketItem, RemoveBasketItem, ClearBasket,
         groceryVars, kitchenVars

LEMMA ItemsStep == ItemsInv /\ [GroceryNext]_kitchenVars => ItemsInv'
<1> SUFFICES ASSUME ItemsInv, [GroceryNext]_kitchenVars PROVE ItemsInv'
  OBVIOUS
<1>1. CASE lists' = lists /\ items' = items
  BY <1>1 DEF ItemsInv
<1>2. ASSUME NEW l \in List, ListStep(l) PROVE ItemsInv'
  BY <1>2, ListItems DEF ItemsInv
<1>3. ASSUME NEW it \in Item, ItemStep(it) PROVE ItemsInv'
  <2>1. PICK row : items' = [items EXCEPT ![it] = row] /\ (row = None \/ GoodItem(row))
    BY <1>3, OneItem
  <2>2. lists' = lists
    BY <1>3, OneItem
  <2> QED BY <2>1, <2>2 DEF ItemsInv
<1> QED BY <1>1, <1>2, <1>3, OtherSteps

LEMMA ItemsStart == GroceryInit => ItemsInv
  BY DEF GroceryInit, ItemsInv

\* Whatever is created, saved back and forth, completed or deleted, an item
\* that says it was not edited shows what was computed for it
\* (full_services.py:635-671).
THEOREM UneditedShown == GrocerySpec => []UneditedIsOriginal
<1>1. ItemsInv => UneditedIsOriginal
  BY DEF ItemsInv, UneditedIsOriginal, GoodItem, ShowsOriginal
<1> QED BY <1>1, ItemsStart, ItemsStep, PTL DEF GrocerySpec

-----------------------------------------------------------------------------
(* Completed lists.                                                        *)

\* A completed list that stays as it is, or goes with its items.
StaysOrGoes(l) ==
    \/ lists'[l] = lists[l] /\ ItemsOf(l)' = ItemsOf(l)
         /\ \A it \in ItemsOf(l) : items'[it] = items[it]
    \/ lists'[l] = None /\ ItemsOf(l)' = {}

LEMMA CompletedStep ==
  ASSUME ItemsInv, [GroceryNext]_kitchenVars,
         NEW l \in List, lists[l] # None, lists[l].status = "completed"
  PROVE  StaysOrGoes(l)
<1>1. CASE lists' = lists /\ items' = items
  BY <1>1 DEF StaysOrGoes, ItemsOf
<1>2. ASSUME NEW m \in List \ {l}, ListStep(m)
      PROVE  StaysOrGoes(l)
  <2>1. lists'[l] = lists[l]
    BY <1>2, ListItems
  <2>2. ASSUME NEW it \in Item
        PROVE  /\ it \in ItemsOf(l) => items'[it] = items[it]
               /\ items'[it] # None /\ items'[it].list = l => it \in ItemsOf(l)
    <3>1. \/ items'[it] = items[it]
          \/ items'[it] = None /\ it \in ItemsOf(m)
          \/ items[it] = None /\ items'[it].list = m
      BY <1>2, ListItems
    <3> QED BY <3>1 DEF ItemsOf
  <2> QED BY <2>1, <2>2 DEF StaysOrGoes, ItemsOf
<1>3. CASE ListStep(l)
  <2>1. CASE ReuseList(l)
    BY <2>1 DEF ReuseList, StaysOrGoes, ItemsOf
  <2>2. ASSUME NEW restore, DeleteList(l, restore)
        PROVE  StaysOrGoes(l)
    <3>1. lists'[l] = None
      BY <2>2 DEF DeleteList, ItemsInv
    <3>2. \A it \in Item : items'[it] = IF it \in ItemsOf(l) THEN None ELSE items[it]
      BY <2>2 DEF DeleteList
    <3> QED BY <3>1, <3>2 DEF StaysOrGoes, ItemsOf
  <2> QED BY <1>3, <2>1, <2>2
          DEF ListStep, CreateManualList, CreateListFromBasket, CompleteList,
              Startable, Completable, Active
<1>4. ASSUME NEW it \in Item, ItemStep(it)
      PROVE  StaysOrGoes(l)
  <2>1. lists' = lists /\ \A other \in Item \ {it} : items'[other] = items[other]
    BY <1>4, OneItem DEF ItemsInv
  <2>2. \/ items[it] = None /\ items'[it].list # l
        \/ items[it].list # l /\ (items'[it] # None => items'[it].list # l)
    BY <1>4, OneItem DEF Active
  <2> QED BY <2>1, <2>2 DEF StaysOrGoes, ItemsOf
<1> QED BY <1>1, <1>2, <1>3, <1>4, OtherSteps

\* No sequence of calls changes a completed list or its items: it stays, or it
\* is deleted with them (full_services.py:538-542, full_services.py:839-851).
THEOREM CompletedStays == GrocerySpec => CompletedIsKept
<1>1. ItemsInv /\ [GroceryNext]_kitchenVars =>
        [\A l \in List :
           lists[l] # None /\ lists[l].status = "completed" =>
             \/ lists'[l] = lists[l] /\ ItemsOf(l)' = ItemsOf(l)
                  /\ \A it \in ItemsOf(l) : items'[it] = items[it]
             \/ lists'[l] = None /\ ItemsOf(l)' = {}]_kitchenVars
  BY CompletedStep DEF StaysOrGoes
<1> QED BY <1>1, ItemsStart, ItemsStep, PTL DEF GrocerySpec, CompletedIsKept

-----------------------------------------------------------------------------
(* Portions.                                                               *)

\* Induction: a set of numbers with 0 and every successor has all numbers.
LEMMA AllNaturals ==
  ASSUME NEW T \in SUBSET Nat, 0 \in T, \A n \in T : n + 1 \in T
  PROVE  T = Nat
<1>1. SUFFICES ASSUME Nat \ T # {} PROVE FALSE
  OBVIOUS
<1>2. \E x \in Nat \ T : \A y \in Nat \ T : ~ (<<y, x>> \in OpToRel(<, Nat))
  <2>1. Nat \ T \subseteq Nat
    OBVIOUS
  <2> QED BY ONLY <1>1, <2>1, WFMin, NatLessThanWellFounded
<1>3. PICK x \in Nat \ T : \A y \in Nat \ T : ~(y < x)
  BY <1>2 DEF OpToRel
<1>4. x # 0
  BY <1>3
<1>5. x - 1 \in T
  BY <1>3, <1>4
<1> QED BY <1>3, <1>5

\* f goes through S on 0 .. len, from x on as g says.
Chain(f, S, x, g, len) ==
    /\ f \in [0 .. len -> S] /\ f[0] = x
    /\ \A n \in 1 .. len : f[n] = g[<<n, f[n - 1]>>]

Steps(g, S) == g \in [Nat \X S -> S]

\* There is such a function.
LEMMA Recursion ==
  ASSUME NEW S, NEW x \in S, NEW g, Steps(g, S), NEW len \in Nat
  PROVE  \E f : Chain(f, S, x, g, len)
<1> DEFINE T == {m \in Nat : \E f : Chain(f, S, x, g, m)}
<1>0. g \in [Nat \X S -> S]
  BY DEF Steps
<1>1. 0 \in T
  <2>1. Chain([n \in 0 .. 0 |-> x], S, x, g, 0)
    BY DEF Chain
  <2> QED BY <2>1
<1>2. ASSUME NEW m \in T
      PROVE  m + 1 \in T
  <2>0. m \in Nat /\ \E f : Chain(f, S, x, g, m)
    OBVIOUS
  <2>1. PICK f : Chain(f, S, x, g, m)
    BY <2>0
  <2> DEFINE h == [n \in 0 .. m + 1 |-> IF n = m + 1 THEN g[<<m + 1, f[m]>>] ELSE f[n]]
  <2>2. h \in [0 .. m + 1 -> S]
    BY <1>0, <2>0, <2>1 DEF Chain
  <2>3. h[0] = x
    BY <2>0, <2>1 DEF Chain
  <2>4. ASSUME NEW n \in 1 .. m + 1
        PROVE  h[n] = g[<<n, h[n - 1]>>]
    <3>1. CASE n = m + 1
      <4>1. n - 1 = m /\ m \in 0 .. m + 1 /\ m # m + 1 /\ n \in 0 .. m + 1
        BY <2>0, <3>1
      <4>2. h[n - 1] = f[m]
        BY <4>1
      <4> QED BY <3>1, <4>1, <4>2
    <3>2. CASE n # m + 1
      <4>1. n \in 1 .. m /\ n - 1 \in 0 .. m
        BY <3>2
      <4> QED BY <2>1, <4>1 DEF Chain
    <3> QED BY <3>1, <3>2
  <2>5. Chain(h, S, x, g, m + 1)
    BY <2>2, <2>3, <2>4 DEF Chain
  <2>6. m + 1 \in Nat
    BY <2>0
  <2> HIDE DEF h
  <2> QED BY <2>5, <2>6
<1>3. T = Nat
  <2> HIDE DEF T
  <2>1. T \in SUBSET Nat
    BY DEF T
  <2> QED BY <1>1, <1>2, <2>1, AllNaturals
<1> QED BY <1>3

\* What Without keeps of the first n portions is kept[n].
KeptBy(kept, S, portions, rcs) ==
    /\ kept \in [0 .. Len(portions) -> Seq(S)]
    /\ Without(portions, rcs) = kept[Len(portions)]
    /\ kept[0] = <<>>
    /\ \A n \in 1 .. Len(portions) :
         kept[n] = IF portions[n].recipe \in rcs THEN kept[n - 1]
                   ELSE Append(kept[n - 1], portions[n])

LEMMA KeptDef ==
  ASSUME NEW S, NEW portions \in Seq(S), NEW rcs
  PROVE  \E kept : KeptBy(kept, S, portions, rcs)
<1> DEFINE len == Len(portions)
           kept[n \in 0 .. len] ==
             IF n = 0 THEN <<>>
             ELSE IF portions[n].recipe \in rcs THEN kept[n - 1]
             ELSE Append(kept[n - 1], portions[n])
           body(f) == [n \in 0 .. len |->
             IF n = 0 THEN <<>>
             ELSE IF portions[n].recipe \in rcs THEN f[n - 1]
             ELSE Append(f[n - 1], portions[n])]
           g == [p \in Nat \X Seq(S) |->
                   IF p[1] \in 1 .. len /\ portions[p[1]].recipe \notin rcs
                   THEN Append(p[2], portions[p[1]]) ELSE p[2]]
<1>0. len \in Nat
  OBVIOUS
<1>1. g \in [Nat \X Seq(S) -> Seq(S)]
  OBVIOUS
<1>2. <<>> \in Seq(S)
  OBVIOUS
<1>3. PICK f \in [0 .. len -> Seq(S)] :
        f[0] = <<>> /\ \A n \in 1 .. len : f[n] = g[<<n, f[n - 1]>>]
  <2>1. Steps(g, Seq(S))
    BY <1>1 DEF Steps
  <2> HIDE DEF g, len
  <2>2. PICK f : Chain(f, Seq(S), <<>>, g, len)
    BY <1>0, <1>2, <2>1, Recursion
  <2> QED BY <2>2 DEF Chain
<1>4. \A n \in 1 .. len : f[n] = IF portions[n].recipe \in rcs THEN f[n - 1]
                                 ELSE Append(f[n - 1], portions[n])
  <2> TAKE n \in 1 .. len
  <2>1. n - 1 \in 0 .. len /\ n \in Nat /\ f[n - 1] \in Seq(S)
    OBVIOUS
  <2> QED BY <1>3, <2>1
<1>5. f = body(f)
  <2>1. f[0] = <<>> /\ f = [n \in 0 .. len |-> f[n]]
    BY <1>3
  <2>2. ASSUME NEW n \in 0 .. len, n # 0
        PROVE  n \in 1 .. len
    BY <2>2
  <2> QED BY <1>4, <2>1, <2>2
<1>6. kept = body(kept)
  BY <1>5
<1>7. Without(portions, rcs) = kept[len]
  BY DEF Without
<1> HIDE DEF kept
<1>8. DOMAIN kept = 0 .. len /\ kept[0] = <<>>
  BY <1>0, <1>6
<1>9. \A n \in 1 .. len : kept[n] = IF portions[n].recipe \in rcs THEN kept[n - 1]
                                    ELSE Append(kept[n - 1], portions[n])
  <2> TAKE n \in 1 .. len
  <2>1. n \in 0 .. len /\ n # 0
    BY <1>0
  <2>2. kept[n] = body(kept)[n]
    BY <1>6
  <2> HIDE DEF len
  <2> QED BY <2>1, <2>2
<1>10. \A n \in Nat : n <= len => kept[n] \in Seq(S)
  <2> DEFINE T == {n \in Nat : n <= len => kept[n] \in Seq(S)}
  <2>1. 0 \in T
    BY <1>8
  <2>2. ASSUME NEW n \in T
        PROVE  n + 1 \in T
    <3>1. SUFFICES ASSUME n + 1 <= len PROVE kept[n + 1] \in Seq(S)
      OBVIOUS
    <3>2. n + 1 \in 1 .. len /\ kept[n] \in Seq(S) /\ (n + 1) - 1 = n /\ portions[n + 1] \in S
      BY <3>1
    <3> HIDE DEF len
    <3>3. kept[n + 1] = IF portions[n + 1].recipe \in rcs THEN kept[n]
                        ELSE Append(kept[n], portions[n + 1])
      BY <1>9, <3>2
    <3> QED BY <3>2, <3>3
  <2>3. T \in SUBSET Nat
    OBVIOUS
  <2> HIDE DEF T
  <2>4. T = Nat
    BY <2>1, <2>2, <2>3, AllNaturals
  <2> QED BY <2>4 DEF T
<1>11. kept = [n \in 0 .. len |-> kept[n]]
  BY <1>6
<1>12. kept \in [0 .. len -> Seq(S)]
  BY <1>0, <1>10, <1>11
<1>13. KeptBy(kept, S, portions, rcs)
  BY <1>7, <1>8, <1>9, <1>12 DEF KeptBy
<1> QED BY <1>13

\* No Recipe twice.
NoneTwice(portions) ==
    \A j, k \in DOMAIN portions : portions[j].recipe = portions[k].recipe => j = k

\* kept has portions of the first n, none of rcs, and none twice if those had
\* none.
KeptOf(kept, portions, rcs, n) ==
    /\ \A j \in DOMAIN kept : \E k \in 1 .. n : /\ kept[j] = portions[k]
                                              /\ portions[k].recipe \notin rcs
    /\ NoneTwice(portions) => NoneTwice(kept)

LEMMA KeepOne ==
  ASSUME NEW S, NEW portions \in Seq(S), NEW rcs, NEW kept \in Seq(S),
         NEW n \in Nat, n + 1 \in 1 .. Len(portions), KeptOf(kept, portions, rcs, n),
         portions[n + 1].recipe \notin rcs
  PROVE  KeptOf(Append(kept, portions[n + 1]), portions, rcs, n + 1)
<1> DEFINE p == portions[n + 1]
           new == Append(kept, p)
<1>1. /\ DOMAIN kept = 1 .. Len(kept) /\ Len(kept) \in Nat /\ DOMAIN portions = 1 .. Len(portions)
      /\ DOMAIN new = 1 .. Len(kept) + 1
      /\ \A j \in DOMAIN kept : new[j] = kept[j]
      /\ new[Len(kept) + 1] = p
  OBVIOUS
<1>2. \A j \in DOMAIN new : j \in DOMAIN kept \/ j = Len(kept) + 1
  BY <1>1
<1>3. \A k \in 1 .. n : k \in 1 .. n + 1 /\ k # n + 1
  OBVIOUS
<1> HIDE DEF new
<1>4. \A j \in DOMAIN new : \E k \in 1 .. n + 1 : new[j] = portions[k] /\ portions[k].recipe \notin rcs
  BY <1>1, <1>2, <1>3 DEF KeptOf
<1>5. ASSUME NoneTwice(portions), NEW j \in DOMAIN kept
      PROVE  kept[j].recipe # p.recipe
  <2>1. PICK k \in 1 .. n : kept[j] = portions[k]
    BY DEF KeptOf
  <2>2. k \in DOMAIN portions /\ n + 1 \in DOMAIN portions /\ k # n + 1
    BY <1>1
  <2> QED BY <1>5, <2>1, <2>2 DEF NoneTwice
<1>6. NoneTwice(portions) => NoneTwice(new)
  BY <1>1, <1>2, <1>5 DEF NoneTwice, KeptOf
<1>7. KeptOf(new, portions, rcs, n + 1)
  BY <1>4, <1>6 DEF KeptOf
<1> QED BY <1>7 DEF new

\* Without takes portions away and does nothing else.
LEMMA WithoutFacts ==
  ASSUME NEW S, NEW portions \in Seq(S), NEW rcs
  PROVE  /\ Without(portions, rcs) \in Seq(S)
         /\ KeptOf(Without(portions, rcs), portions, rcs, Len(portions))
<1> DEFINE len == Len(portions)
<1>0. PICK kept : KeptBy(kept, S, portions, rcs)
  BY KeptDef
<1>1. /\ kept \in [0 .. len -> Seq(S)]
      /\ Without(portions, rcs) = kept[len]
      /\ kept[0] = <<>>
      /\ \A n \in 1 .. len :
           kept[n] = IF portions[n].recipe \in rcs THEN kept[n - 1]
                     ELSE Append(kept[n - 1], portions[n])
  BY <1>0 DEF KeptBy
<1>2. len \in Nat
  OBVIOUS
<1> DEFINE T == {n \in Nat : n <= len => KeptOf(kept[n], portions, rcs, n)}
<1>3. 0 \in T
  BY <1>1 DEF KeptOf, NoneTwice
<1>4. ASSUME NEW n \in T
      PROVE  n + 1 \in T
  <2>1. SUFFICES ASSUME n + 1 <= len PROVE KeptOf(kept[n + 1], portions, rcs, n + 1)
    OBVIOUS
  <2>2. n \in Nat /\ n + 1 \in 1 .. len /\ n \in 0 .. len /\ (n + 1) - 1 = n
    BY <1>2, <2>1
  <2>3. KeptOf(kept[n], portions, rcs, n)
    BY <2>2
  <2>4. kept[n + 1] = IF portions[n + 1].recipe \in rcs THEN kept[n]
                      ELSE Append(kept[n], portions[n + 1])
    BY <1>1, <2>2
  <2>5. CASE portions[n + 1].recipe \in rcs
    <3>1. \A k \in 1 .. n : k \in 1 .. n + 1
      BY <2>2
    <3>2. kept[n + 1] = kept[n]
      BY <2>4, <2>5
    <3>3. KeptOf(kept[n], portions, rcs, n + 1)
      <4>1. ASSUME NEW j \in DOMAIN kept[n]
            PROVE  \E k \in 1 .. n + 1 : kept[n][j] = portions[k] /\ portions[k].recipe \notin rcs
        <5>1. PICK k \in 1 .. n : kept[n][j] = portions[k] /\ portions[k].recipe \notin rcs
          BY <2>3 DEF KeptOf
        <5> QED BY <3>1, <5>1
      <4>2. NoneTwice(portions) => NoneTwice(kept[n])
        BY <2>3 DEF KeptOf
      <4> QED BY <4>1, <4>2 DEF KeptOf
    <3> QED BY <3>2, <3>3
  <2>6. CASE portions[n + 1].recipe \notin rcs
    <3>1. kept[n] \in Seq(S)
      BY <1>1, <2>2
    <3> QED BY <2>2, <2>3, <2>4, <2>6, <3>1, KeepOne
  <2> QED BY <2>5, <2>6
<1>5. T \in SUBSET Nat
  OBVIOUS
<1> HIDE DEF T
<1>6. T = Nat
  BY <1>3, <1>4, <1>5, AllNaturals
<1>7. KeptOf(kept[len], portions, rcs, len)
  BY <1>2, <1>6 DEF T
<1>8. kept[len] \in Seq(S)
  BY <1>1, <1>2
<1> QED BY <1>1, <1>7, <1>8

\* The portions that a list gives back to the Basket.
LEMMA RestoredFacts ==
  ASSUME GroceryTypeOK, NEW l \in List, lists[l] # None
  PROVE  /\ Restored(l) \in Seq(Portion)
         /\ NoneTwice(basket) /\ NoneTwice(lists[l].recipes) => NoneTwice(Restored(l))
<1>1. basket \in Seq(Portion) /\ lists[l].recipes \in Seq(Portion)
  BY DEF GroceryTypeOK, ListRow
<1> DEFINE own == lists[l].recipes
           added == Without(own, RecipesOf(basket))
<1>2. added \in Seq(Portion) /\ KeptOf(added, own, RecipesOf(basket), Len(own))
  BY <1>1, WithoutFacts
<1>3. Restored(l) = basket \o added
  BY DEF Restored
<1>4. ASSUME NEW j \in DOMAIN added
      PROVE  added[j].recipe \notin RecipesOf(basket)
  BY <1>2 DEF KeptOf
<1> HIDE DEF added
<1>5. /\ Len(basket) \in Nat /\ Len(added) \in Nat
      /\ DOMAIN basket = 1 .. Len(basket) /\ DOMAIN added = 1 .. Len(added)
      /\ DOMAIN Restored(l) = 1 .. Len(basket) + Len(added)
      /\ \A j \in 1 .. Len(basket) : Restored(l)[j] = basket[j]
      /\ \A j \in 1 .. Len(basket) + Len(added) : j \notin 1 .. Len(basket) =>
           j - Len(basket) \in DOMAIN added /\ Restored(l)[j] = added[j - Len(basket)]
  BY <1>1, <1>2, <1>3
<1>6. ASSUME NoneTwice(basket), NoneTwice(own),
             NEW j \in DOMAIN Restored(l), NEW k \in DOMAIN Restored(l),
             Restored(l)[j].recipe = Restored(l)[k].recipe
      PROVE  j = k
  <2>1. CASE j \in DOMAIN basket /\ k \in DOMAIN basket
    BY <1>5, <1>6, <2>1 DEF NoneTwice
  <2>2. CASE j \in DOMAIN basket /\ k \notin DOMAIN basket
    BY <1>4, <1>5, <1>6, <2>2 DEF RecipesOf
  <2>3. CASE j \notin DOMAIN basket /\ k \in DOMAIN basket
    BY <1>4, <1>5, <1>6, <2>3 DEF RecipesOf
  <2>4. CASE j \notin DOMAIN basket /\ k \notin DOMAIN basket
    <3>1. /\ j - Len(basket) \in DOMAIN added /\ Restored(l)[j] = added[j - Len(basket)]
          /\ k - Len(basket) \in DOMAIN added /\ Restored(l)[k] = added[k - Len(basket)]
      BY <1>5, <2>4
    <3>2. j - Len(basket) = k - Len(basket)
      BY <1>2, <1>6, <3>1 DEF KeptOf, NoneTwice
    <3> QED BY <1>5, <3>2
  <2> QED BY <2>1, <2>2, <2>3, <2>4
<1>7. Restored(l) \in Seq(Portion)
  BY <1>1, <1>2, <1>3
<1> QED BY <1>6, <1>7 DEF NoneTwice

-----------------------------------------------------------------------------
(* What rows hold.                                                         *)

\* The Ingredients that the Basket uses are some the account can see.
LEMMA UsedAreIngredients == GroceryTypeOK => UsedBy(basket) \subseteq Ingredient
<1> SUFFICES ASSUME GroceryTypeOK, NEW k \in DOMAIN basket
             PROVE  DOMAIN Needs[basket[k].recipe] \subseteq Ingredient
  BY DEF UsedBy, RecipesOf
<1>1. basket[k] \in Portion
  BY DEF GroceryTypeOK
<1> QED BY <1>1, RecipeAssumption DEF Portion

\* A generated item is a row, and buys something.
LEMMA GeneratedRow ==
  ASSUME GroceryTypeOK, PantryTypeOK, NEW l \in List, NEW i \in Shortage,
         Fits(Purchase(i)), Fits(Required(basket, i))
  PROVE  Generated(l, i) \in ItemRow /\ Generated(l, i).quantity > 0
<1>1. i \in Ingredient /\ Purchase(i) > 0
  BY UsedAreIngredients DEF Shortage
<1> DEFINE required == Required(basket, i)
           purchase == Purchase(i)
<1>2. Balance(i) \in Quantity /\ required \in Quantity /\ purchase \in Quantity
  BY <1>1, BalanceType DEF Fits
<1>3. Generated(l, i) = [list |-> l, ingredient |-> i, quantity |-> purchase,
                         checked |-> FALSE, edited |-> FALSE,
                         original |-> [ingredient |-> i, required |-> required,
                                       pantry |-> Balance(i)]]
  BY DEF Generated
<1> HIDE DEF required, purchase
<1>4. Generated(l, i) \in ItemRow
  BY <1>1, <1>2, <1>3 DEF ItemRow
<1>5. Generated(l, i).quantity = purchase
  BY <1>3
<1> QED BY <1>1, <1>4, <1>5 DEF purchase

\* A row an item may have: its list exists, its quantity buys something.
HeldItem(row, ls) ==
    /\ row \in ItemRow
    /\ ls[row.list] # None
    /\ row.quantity # None => row.quantity > 0

LEMMA TypeParts ==
  /\ GroceryTypeOK <=> /\ basket \in Seq(Portion)
                       /\ lists \in [List -> ListRow \cup {None}]
                       /\ items \in [Item -> ItemRow \cup {None}]
                       /\ \A it \in Item : items[it] # None => HeldItem(items[it], lists)
  /\ GroceryTypeOK' <=> /\ basket' \in Seq(Portion)
                        /\ lists' \in [List -> ListRow \cup {None}]
                        /\ items' \in [Item -> ItemRow \cup {None}]
                        /\ \A it \in Item : items'[it] # None => HeldItem(items'[it], lists')
  BY DEF GroceryTypeOK, HeldItem

\* An item keeps its row while its list stays.
LEMMA HeldStays ==
  ASSUME NEW row, HeldItem(row, lists), lists'[row.list] # None
  PROVE  HeldItem(row, lists')
  BY DEF HeldItem

LEMMA BasketKeepsType ==
  ASSUME GroceryTypeOK, BasketStep
  PROVE  basket' \in Seq(Portion) /\ lists' = lists /\ items' = items
<1>1. basket \in Seq(Portion)
  BY DEF GroceryTypeOK
<1>2. ASSUME NEW rc \in Recipe, NEW n \in BasketServings, UpsertBasketItem(rc, n)
      PROVE  basket' \in Seq(Portion)
  <2>1. [recipe |-> rc, servings |-> n] \in Portion
    BY DEF Portion
  <2> QED BY <1>1, <1>2, <2>1 DEF UpsertBasketItem
<1>3. ASSUME NEW rc \in Recipe, RemoveBasketItem(rc)
      PROVE  basket' \in Seq(Portion)
  BY <1>1, <1>3, WithoutFacts DEF RemoveBasketItem
<1>4. CASE ClearBasket
  BY <1>4 DEF ClearBasket
<1> QED BY <1>2, <1>3, <1>4
        DEF BasketStep, UpsertBasketItem, RemoveBasketItem, ClearBasket

\* Completing a list changes its status and notes what was added.
LEMMA CompletedRow ==
  ASSUME NEW row \in ListRow, NEW selected \in SUBSET Item, NEW e \in Event
  PROVE  /\ Completed(row, selected, e) \in ListRow
         /\ Completed(row, selected, e).status = "completed"
         /\ Completed(row, selected, e).recipes = row.recipes
         /\ Completed(row, selected, e).additions =
              IF selected = {} THEN row.additions
              ELSE row.additions \cup {[event |-> e, items |-> selected]}
<1>1. [event |-> e, items |-> selected] \in Addition
  BY DEF Addition
<1> DEFINE more == IF selected = {} THEN row.additions
                   ELSE row.additions \cup {[event |-> e, items |-> selected]}
<1>2. more \in SUBSET Addition
  BY <1>1 DEF ListRow
<1>3. Completed(row, selected, e) =
        [row EXCEPT !.status = "completed", !.additions = more]
  BY DEF Completed, ListRow
<1> HIDE DEF more
<1>4. /\ Completed(row, selected, e) \in ListRow
      /\ Completed(row, selected, e).status = "completed"
      /\ Completed(row, selected, e).recipes = row.recipes
      /\ Completed(row, selected, e).additions = more
  BY <1>2, <1>3 DEF ListRow
<1> QED BY <1>4 DEF more

LEMMA ListKeepsType ==
  ASSUME GroceryTypeOK, PantryTypeOK, NEW l \in List, ListStep(l)
  PROVE  GroceryTypeOK'
<1>1. /\ basket \in Seq(Portion)
      /\ lists \in [List -> ListRow \cup {None}]
      /\ items \in [Item -> ItemRow \cup {None}]
      /\ \A it \in Item : items[it] # None => HeldItem(items[it], lists)
  BY TypeParts
<1>2. \A status \in {"active", "completed"}, recipes \in Seq(Portion) :
        NewList(status, recipes) \in ListRow
  BY DEF NewList, ListRow
<1>3. \A row \in ListRow : row # None
  BY GroceryNoneAssumption
<1>4. \A row \in ItemRow : row # None /\ row.list \in List
  BY GroceryNoneAssumption DEF ItemRow
<1>0. ASSUME NEW it \in Item, items[it] # None,
             \A m \in List : lists[m] # None => lists'[m] # None
      PROVE  HeldItem(items[it], lists')
  <2>1. HeldItem(items[it], lists) /\ items[it].list \in List /\ lists[items[it].list] # None
    BY <1>0, <1>1, <1>4 DEF HeldItem
  <2> QED BY <1>0, <2>1, HeldStays
<1>5. CASE CreateManualList(l)
  <2>1. lists' = [lists EXCEPT ![l] = NewList("active", <<>>)] /\ basket' = basket /\ items' = items
    BY <1>5 DEF CreateManualList
  <2>2. NewList("active", <<>>) \in ListRow
    BY DEF NewList, ListRow
  <2>3. lists' \in [List -> ListRow \cup {None}]
    BY <1>1, <2>1, <2>2
  <2>4. \A m \in List : lists[m] # None => lists'[m] # None
    BY <1>1, <1>3, <2>1, <2>2
  <2> QED BY <1>0, <1>1, <2>1, <2>3, <2>4, TypeParts
<1>6. ASSUME NEW recipes, NEW balances, CreateListFromBasket(l, recipes, balances)
      PROVE  GroceryTypeOK'
  <2>1. PICK status \in {"active", "completed"} :
          lists' = [lists EXCEPT ![l] = NewList(status, basket)]
    BY <1>6 DEF CreateListFromBasket
  <2>2. NewList(status, basket) \in ListRow
    BY <1>1, <1>2
  <2>3. lists' \in [List -> ListRow \cup {None}] /\ lists'[l] # None
        /\ \A m \in List : lists[m] # None => lists'[m] # None
    BY <1>1, <1>3, <2>1, <2>2
  <2>4. PICK ids \in Injection(Shortage, {it \in Item : items[it] = None}) :
          items' = [it \in Item |-> IF \E i \in Shortage : ids[i] = it
                                    THEN Generated(l, CHOOSE i \in Shortage : ids[i] = it)
                                    ELSE items[it]]
    BY <1>6 DEF CreateListFromBasket
  <2>5. \A i \in Shortage : Fits(Purchase(i)) /\ Fits(Required(basket, i))
    BY <1>6 DEF CreateListFromBasket
  <2>6. ASSUME NEW it \in Item
        PROVE  items'[it] = None \/ (items'[it] \in ItemRow /\ HeldItem(items'[it], lists'))
    <3>1. CASE \E i \in Shortage : ids[i] = it
      <4>1. PICK i \in Shortage : items'[it] = Generated(l, i)
        BY <2>4, <3>1
      <4>2. Generated(l, i) \in ItemRow /\ Generated(l, i).quantity > 0
        BY <2>5, GeneratedRow
      <4>3. Generated(l, i).list = l
        BY DEF Generated
      <4> QED BY <2>3, <4>1, <4>2, <4>3 DEF HeldItem
    <3>2. CASE ~ \E i \in Shortage : ids[i] = it
      <4>1. items'[it] = items[it]
        BY <2>4, <3>2
      <4> QED BY <1>0, <1>1, <2>3, <4>1
    <3> QED BY <3>1, <3>2
  <2>7. items' \in [Item -> ItemRow \cup {None}]
    BY <2>4, <2>6
  <2>8. basket' = <<>>
    BY <1>6 DEF CreateListFromBasket
  <2> QED BY <2>3, <2>6, <2>7, <2>8, TypeParts
<1>7. ASSUME NEW selected \in SUBSET ItemsOf(l), NEW e \in Event,
             CompleteList(l, selected, e)
      PROVE  GroceryTypeOK'
  <2> DEFINE row == Completed(lists[l], selected, e)
  <2>1. /\ lists' = [lists EXCEPT ![l] = row] /\ basket' = basket /\ items' = items
        /\ lists[l] \in ListRow
    BY <1>1, <1>7 DEF CompleteList, Completable, Active
  <2>2. row \in ListRow
    BY <2>1, CompletedRow DEF ItemsOf
  <2> HIDE DEF row
  <2>3. lists' \in [List -> ListRow \cup {None}]
        /\ \A m \in List : lists[m] # None => lists'[m] # None
    BY <1>1, <1>3, <2>1, <2>2
  <2> QED BY <1>0, <1>1, <2>1, <2>3, TypeParts
<1>8. CASE ReuseList(l)
  <2>1. lists[l] # None /\ basket' = Restored(l) /\ lists' = lists /\ items' = items
    BY <1>8 DEF ReuseList
  <2>2. basket' \in Seq(Portion)
    BY <2>1, RestoredFacts
  <2> QED BY <1>1, <2>1, <2>2, TypeParts DEF HeldItem
<1>9. ASSUME NEW restore, DeleteList(l, restore)
      PROVE  GroceryTypeOK'
  <2>1. /\ lists' = [lists EXCEPT ![l] = None]
        /\ items' = [it \in Item |-> IF it \in ItemsOf(l) THEN None ELSE items[it]]
    BY <1>9 DEF DeleteList
  <2>2. basket' \in Seq(Portion)
    BY <1>1, <1>9, RestoredFacts DEF DeleteList
  <2>3. ASSUME NEW it \in Item, items'[it] # None
        PROVE  items'[it] = items[it] /\ HeldItem(items'[it], lists')
    <3>1. items'[it] = items[it] /\ items[it].list # l
      BY <2>1, <2>3 DEF ItemsOf
    <3>2. lists'[items[it].list] # None
      BY <1>1, <1>4, <2>1, <2>3, <3>1 DEF HeldItem
    <3> QED BY <1>1, <2>3, <3>1, <3>2, HeldStays
  <2>4. lists' \in [List -> ListRow \cup {None}] /\ items' \in [Item -> ItemRow \cup {None}]
    BY <1>1, <2>1
  <2> QED BY <2>2, <2>3, <2>4, TypeParts
<1> QED BY <1>5, <1>6, <1>7, <1>8, <1>9 DEF ListStep

LEMMA ItemKeepsType ==
  ASSUME GroceryTypeOK, NEW it \in Item, ItemStep(it)
  PROVE  GroceryTypeOK'
<1>1. /\ items \in [Item -> ItemRow \cup {None}]
      /\ \A other \in Item : items[other] # None => HeldItem(items[other], lists)
  BY TypeParts
<1>2. /\ basket' = basket /\ lists' = lists
  BY DEF ItemStep, CreateItem, UpdateItem, RemoveItem
<1>3. \A row : HeldItem(row, lists') <=> HeldItem(row, lists)
  BY <1>2 DEF HeldItem
<1>4. \A q \in ItemAmount : q \in Quantity /\ q > 0
  BY GroceryAssumption, QuantityAssumption DEF Quantity
<1> DEFINE Saved == \E row : items' = [items EXCEPT ![it] = row]
                               /\ (row = None \/ HeldItem(row, lists))
<1>5. ASSUME NEW l \in List, NEW i \in Ingredient \cup {None}, NEW q \in ItemAmount \cup {None},
             NEW prevent, CreateItem(l, it, i, q, prevent)
      PROVE  Saved
  <2> DEFINE row == [list |-> l, ingredient |-> i, quantity |-> q,
                     checked |-> FALSE, edited |-> FALSE, original |-> None]
  <2>1. row \in ItemRow /\ row.list = l /\ row.quantity = q
    BY <1>4 DEF ItemRow
  <2>2. lists[l] # None /\ items' = [items EXCEPT ![it] = row]
    BY <1>5 DEF CreateItem, Active
  <2> HIDE DEF row
  <2> QED BY <1>4, <2>1, <2>2 DEF HeldItem
<1>6. ASSUME NEW i \in Ingredient \cup {None}, NEW q \in ItemAmount \cup {None},
             NEW checked \in BOOLEAN, NEW relabelled \in BOOLEAN,
             UpdateItem(it, i, q, checked, relabelled)
      PROVE  Saved
  <2>1. items[it] # None /\ HeldItem(items[it], lists) /\ items[it] \in ItemRow
    BY <1>1, <1>6 DEF UpdateItem, Editable
  <2>2. EditedBy(it, i, q, relabelled) \in BOOLEAN
    BY <2>1 DEF EditedBy, ItemRow
  <2>3. PICK edited \in BOOLEAN : edited = EditedBy(it, i, q, relabelled)
    BY <2>2
  <2>4. PICK row : row = [items[it] EXCEPT !.ingredient = i, !.quantity = q,
                                           !.checked = checked, !.edited = edited]
    OBVIOUS
  <2>5. items' = [items EXCEPT ![it] = row]
    BY <1>1, <1>6, <2>3, <2>4 DEF UpdateItem
  <2>6. row \in ItemRow /\ row.list = items[it].list /\ row.quantity = q
    BY <1>4, <2>1, <2>4 DEF ItemRow
  <2> QED BY <1>4, <2>1, <2>5, <2>6 DEF HeldItem
<1>7. ASSUME RemoveItem(it)
      PROVE  Saved
  <2>1. items' = [items EXCEPT ![it] = None]
    BY <1>7 DEF RemoveItem
  <2> QED BY <2>1, Zenon
<1>8. PICK row : items' = [items EXCEPT ![it] = row] /\ (row = None \/ HeldItem(row, lists))
  <2> HIDE DEF Saved
  <2>1. Saved
    BY <1>5, <1>6, <1>7 DEF ItemStep
  <2> QED BY <2>1 DEF Saved
<1>9. /\ items' \in [Item -> ItemRow \cup {None}]
      /\ \A other \in Item : items'[other] # None => HeldItem(items'[other], lists)
  BY <1>1, <1>8 DEF HeldItem
<1> QED BY <1>2, <1>3, <1>9, TypeParts

\* The rows of the kitchen and of the Pantry.
KitchenInv == UndoInv /\ GroceryTypeOK

LEMMA KitchenStart == GroceryInit => KitchenInv
<1> SUFFICES ASSUME GroceryInit PROVE GroceryTypeOK
  BY UndoStart DEF GroceryInit, KitchenInv
<1> QED BY DEF GroceryInit, GroceryTypeOK

LEMMA KitchenTyped == KitchenInv /\ [GroceryNext]_kitchenVars => KitchenInv'
<1> SUFFICES ASSUME KitchenInv, [GroceryNext]_kitchenVars PROVE KitchenInv'
  OBVIOUS
<1>1. UndoInv /\ UndoInv' /\ GroceryTypeOK /\ PantryTypeOK
  BY KitchenStep DEF KitchenInv, UndoInv, PantryInv
<1>2. CASE UNCHANGED groceryVars
  BY <1>1, <1>2 DEF KitchenInv, groceryVars, GroceryTypeOK
<1>3. CASE BasketStep
  BY <1>1, <1>3, BasketKeepsType DEF KitchenInv, GroceryTypeOK
<1>4. ASSUME NEW l \in List, ListStep(l) PROVE KitchenInv'
  BY <1>1, <1>4, ListKeepsType DEF KitchenInv
<1>5. ASSUME NEW it \in Item, ItemStep(it) PROVE KitchenInv'
  BY <1>1, <1>5, ItemKeepsType DEF KitchenInv
<1> QED BY <1>2, <1>3, <1>4, <1>5 DEF GroceryNext, kitchenVars

\* Every row of the shopping is one the schema admits, every item's list is
\* there, and what an item buys is more than nothing (models.py:256-349).
THEOREM GroceryTyped == GrocerySpec => []GroceryTypeOK
<1>1. KitchenInv => GroceryTypeOK
  BY DEF KitchenInv
<1> QED BY <1>1, KitchenStart, KitchenTyped, PTL DEF GrocerySpec

-----------------------------------------------------------------------------
(* One list at a time, and no Recipe twice.                                *)

OneActive == \A l, m \in List : Active(l) /\ Active(m) => l = m
NoRecipeTwice ==
    /\ NoneTwice(basket)
    /\ \A l \in List : lists[l] # None => NoneTwice(lists[l].recipes)

ShoppingInv == KitchenInv /\ OneActive /\ NoRecipeTwice

LEMMA BasketKeepsShopping ==
  ASSUME ShoppingInv, BasketStep
  PROVE  OneActive' /\ NoRecipeTwice'
<1>1. /\ basket \in Seq(Portion) /\ OneActive /\ NoneTwice(basket)
      /\ lists' = lists
  BY BasketKeepsType DEF ShoppingInv, KitchenInv, GroceryTypeOK, NoRecipeTwice
<1>2. OneActive' /\ (NoneTwice(basket') => NoRecipeTwice')
  BY <1>1 DEF OneActive, Active, NoRecipeTwice, ShoppingInv
<1>3. ASSUME NEW rc \in Recipe, NEW n \in BasketServings, UpsertBasketItem(rc, n)
      PROVE  NoneTwice(basket')
  <2> DEFINE p == [recipe |-> rc, servings |-> n]
  <2>1. CASE rc \in RecipesOf(basket)
    <3>1. basket' = [k \in DOMAIN basket |-> IF basket[k].recipe = rc THEN p ELSE basket[k]]
      BY <1>3, <2>1 DEF UpsertBasketItem
    <3>2. \A k \in DOMAIN basket : basket'[k].recipe = basket[k].recipe
      BY <3>1
    <3>3. DOMAIN basket' = DOMAIN basket
      BY <3>1
    <3> QED BY <1>1, <3>2, <3>3 DEF NoneTwice
  <2>2. CASE rc \notin RecipesOf(basket)
    <3>1. basket' = Append(basket, p)
      BY <1>3, <2>2 DEF UpsertBasketItem
    <3>2. /\ Len(basket) \in Nat /\ DOMAIN basket = 1 .. Len(basket)
          /\ DOMAIN basket' = 1 .. Len(basket) + 1
          /\ \A k \in DOMAIN basket : basket'[k] = basket[k]
          /\ basket'[Len(basket) + 1].recipe = rc
      BY <1>1, <3>1
    <3>3. \A k \in DOMAIN basket' : k \in DOMAIN basket \/ k = Len(basket) + 1
      BY <3>2
    <3>4. \A k \in DOMAIN basket : basket[k].recipe # rc
      BY <2>2 DEF RecipesOf
    <3> QED BY <1>1, <3>2, <3>3, <3>4 DEF NoneTwice
  <2> QED BY <2>1, <2>2
<1>4. ASSUME NEW rc \in Recipe, RemoveBasketItem(rc)
      PROVE  NoneTwice(basket')
  <2>1. basket' = Without(basket, {rc})
    BY <1>4 DEF RemoveBasketItem
  <2>2. KeptOf(Without(basket, {rc}), basket, {rc}, Len(basket))
    BY <1>1, WithoutFacts
  <2> QED BY <1>1, <2>1, <2>2 DEF KeptOf
<1>5. ASSUME ClearBasket
      PROVE  NoneTwice(basket')
  <2>1. basket' = <<>> /\ NoneTwice(<<>>)
    BY <1>5 DEF ClearBasket, NoneTwice
  <2> QED BY <2>1
<1> QED BY <1>2, <1>3, <1>4, <1>5 DEF BasketStep

LEMMA ListKeepsShopping ==
  ASSUME ShoppingInv, NEW l \in List, ListStep(l)
  PROVE  OneActive' /\ NoRecipeTwice'
<1>1. /\ GroceryTypeOK /\ OneActive /\ NoneTwice(basket)
      /\ \A m \in List : lists[m] # None => NoneTwice(lists[m].recipes)
      /\ lists \in [List -> ListRow \cup {None}]
  BY DEF ShoppingInv, KitchenInv, GroceryTypeOK, NoRecipeTwice
<1>2. NoneTwice(<<>>)
  BY DEF NoneTwice
<1>3. ASSUME NEW status, NEW recipes, NoneActive, NoneTwice(recipes), NoneTwice(basket'),
             lists' = [lists EXCEPT ![l] = NewList(status, recipes)]
      PROVE  OneActive' /\ NoRecipeTwice'
  <2>1. /\ \A m \in List \ {l} : lists'[m] = lists[m]
        /\ lists'[l].recipes = recipes
    BY <1>1, <1>3 DEF NewList
  <2>2. NoRecipeTwice'
    BY <1>1, <1>3, <2>1 DEF NoRecipeTwice
  <2>3. OneActive'
    BY <1>3, <2>1 DEF OneActive, NoneActive, Active
  <2> QED BY <2>2, <2>3
<1>4. ASSUME CreateManualList(l)
      PROVE  OneActive' /\ NoRecipeTwice'
  BY <1>1, <1>2, <1>3, <1>4 DEF CreateManualList, Startable
<1>5. ASSUME NEW recipes, NEW balances, CreateListFromBasket(l, recipes, balances)
      PROVE  OneActive' /\ NoRecipeTwice'
  BY <1>1, <1>2, <1>3, <1>5 DEF CreateListFromBasket, Startable
<1>6. ASSUME NEW selected \in SUBSET ItemsOf(l), NEW e \in Event,
             CompleteList(l, selected, e)
      PROVE  OneActive' /\ NoRecipeTwice'
  <2>1. selected \in SUBSET Item /\ lists[l] \in ListRow
    BY <1>1, <1>6 DEF CompleteList, Completable, Active, ItemsOf
  <2>2. /\ Completed(lists[l], selected, e).status = "completed"
        /\ Completed(lists[l], selected, e).recipes = lists[l].recipes
    BY <2>1 DEF Completed, ListRow
  <2> DEFINE row == Completed(lists[l], selected, e)
  <2>3. lists[l] # None /\ basket' = basket /\ lists' = [lists EXCEPT ![l] = row]
    BY <1>6 DEF CompleteList, Completable, Active
  <2>4. row.status = "completed" /\ row.recipes = lists[l].recipes
    BY <2>2
  <2> HIDE DEF row
  <2>5. lists'[l] = row /\ \A m \in List \ {l} : lists'[m] = lists[m]
    BY <1>1, <2>3
  <2>6. NoRecipeTwice'
    BY <1>1, <2>1, <2>3, <2>4, <2>5 DEF NoRecipeTwice
  <2>7. OneActive'
    BY <1>1, <2>4, <2>5 DEF OneActive, Active
  <2> QED BY <2>6, <2>7
<1>7. ASSUME ReuseList(l)
      PROVE  OneActive' /\ NoRecipeTwice'
  <2>1. lists[l] # None /\ basket' = Restored(l) /\ lists' = lists
    BY <1>7 DEF ReuseList
  <2>2. NoneTwice(basket')
    BY <1>1, <2>1, RestoredFacts
  <2> QED BY <1>1, <2>1, <2>2 DEF NoRecipeTwice, OneActive, Active
<1>8. ASSUME NEW restore, DeleteList(l, restore)
      PROVE  OneActive' /\ NoRecipeTwice'
  <2>1. lists[l] # None /\ (basket' = Restored(l) \/ basket' = basket)
        /\ lists' = [lists EXCEPT ![l] = None]
    BY <1>8 DEF DeleteList
  <2>2. NoneTwice(basket')
    BY <1>1, <2>1, RestoredFacts
  <2>3. lists'[l] = None /\ \A m \in List \ {l} : lists'[m] = lists[m]
    BY <1>1, <2>1
  <2> QED BY <1>1, <2>2, <2>3 DEF NoRecipeTwice, OneActive, Active
<1> QED BY <1>4, <1>5, <1>6, <1>7, <1>8 DEF ListStep

LEMMA ShoppingStart == GroceryInit => ShoppingInv
<1> SUFFICES ASSUME GroceryInit PROVE OneActive /\ NoRecipeTwice
  BY KitchenStart DEF ShoppingInv
<1> QED BY DEF GroceryInit, OneActive, Active, NoRecipeTwice, NoneTwice

LEMMA ShoppingStep == ShoppingInv /\ [GroceryNext]_kitchenVars => ShoppingInv'
<1> SUFFICES ASSUME ShoppingInv, [GroceryNext]_kitchenVars
             PROVE  OneActive' /\ NoRecipeTwice'
  BY KitchenTyped DEF ShoppingInv
<1>1. CASE UNCHANGED groceryVars
  BY <1>1 DEF ShoppingInv, OneActive, NoRecipeTwice, Active, groceryVars
<1>2. ASSUME NEW it \in Item, ItemStep(it)
      PROVE  OneActive' /\ NoRecipeTwice'
  <2>1. basket' = basket /\ lists' = lists
    BY <1>2 DEF ItemStep, CreateItem, UpdateItem, RemoveItem
  <2> QED BY <2>1 DEF ShoppingInv, OneActive, NoRecipeTwice, Active
<1> QED BY <1>1, <1>2, BasketKeepsShopping, ListKeepsShopping DEF GroceryNext, kitchenVars

\* However lists are made, completed, reused and deleted, and Recipes put back
\* into the Basket, an account shops from one list at a time and no Recipe is
\* twice in its Basket or on a list (full_services.py:233-256,
\* full_services.py:354-378, full_services.py:777-851).
THEOREM ShoppingIsOne == GrocerySpec => []OneShopping
<1>1. ShoppingInv => OneShopping
  <2> SUFFICES ASSUME ShoppingInv PROVE OneShopping
    OBVIOUS
  <2>1. OneActive /\ NoRecipeTwice
    BY DEF ShoppingInv
  <2>2. ASSUME NEW portions \in {basket} \cup {lists[l].recipes : l \in {m \in List : lists[m] # None}}
        PROVE  NoneTwice(portions)
    BY <2>1 DEF NoRecipeTwice
  <2> QED BY <2>1, <2>2 DEF OneShopping, OneActive, NoneTwice
<1> QED BY <1>1, ShoppingStart, ShoppingStep, PTL DEF GrocerySpec

-----------------------------------------------------------------------------
(* A list and the view of the Pantry it was made from.                     *)

\* Of a new list of the Basket, the one item of each Ingredient that is short.
LEMMA BoughtItem ==
  ASSUME GroceryTypeOK, PantryTypeOK, NEW l \in List, NEW recipes, NEW balances,
         CreateListFromBasket(l, recipes, balances), NEW i
  PROVE  LET bought == {it \in ItemsOf(l)' : items'[it].ingredient = i}
         IN  /\ i \in Shortage => \E it : bought = {it} /\ items'[it].quantity = Purchase(i)
             /\ i \notin Shortage => bought = {}
<1> DEFINE bought == {it \in ItemsOf(l)' : items'[it].ingredient = i}
<1>1. /\ lists[l] = None
      /\ \A it \in Item : items[it] # None => lists[items[it].list] # None
  BY DEF GroceryTypeOK, CreateListFromBasket, Startable
<1>2. PICK ids \in Injection(Shortage, {it \in Item : items[it] = None}) :
        items' = [it \in Item |-> IF \E j \in Shortage : ids[j] = it
                                  THEN Generated(l, CHOOSE j \in Shortage : ids[j] = it)
                                  ELSE items[it]]
  BY DEF CreateListFromBasket
<1>3. /\ \A j \in Shortage : ids[j] \in Item
      /\ \A j, k \in Shortage : ids[j] = ids[k] => j = k
  BY <1>2 DEF Injection, IsInjective
<1>4. ASSUME NEW j \in Shortage
      PROVE  items'[ids[j]] = Generated(l, j) /\ ids[j] \in ItemsOf(l)'
  <2>1. (CHOOSE k \in Shortage : ids[k] = ids[j]) = j
    BY <1>3
  <2>2. items'[ids[j]] = Generated(l, j)
    BY <1>2, <1>3, <2>1
  <2>3. Generated(l, j) # None
    <3>1. Fits(Purchase(j)) /\ Fits(Required(basket, j))
      BY DEF CreateListFromBasket
    <3>2. Generated(l, j) \in ItemRow
      BY <3>1, GeneratedRow
    <3> QED BY <3>2, GroceryNoneAssumption
  <2>4. Generated(l, j).list = l
    BY DEF Generated
  <2> QED BY <1>3, <2>2, <2>3, <2>4 DEF ItemsOf
<1>5. ASSUME NEW it \in ItemsOf(l)'
      PROVE  \E j \in Shortage : it = ids[j]
  <2>1. it \in Item /\ items'[it] # None /\ items'[it].list = l
    BY DEF ItemsOf
  <2>2. CASE ~ \E j \in Shortage : ids[j] = it
    <3>1. items'[it] = items[it]
      BY <1>2, <2>1, <2>2
    <3> QED BY <1>1, <2>1, <3>1
  <2> QED BY <2>2
<1>6. \A j : Generated(l, j).ingredient = j /\ Generated(l, j).quantity = Purchase(j)
  BY DEF Generated
<1>7. CASE i \in Shortage
  <2>1. \A it \in bought : it = ids[i]
    BY <1>4, <1>5, <1>6
  <2>2. ids[i] \in bought /\ items'[ids[i]].quantity = Purchase(i)
    BY <1>4, <1>6, <1>7
  <2> HIDE DEF bought
  <2>3. bought = {ids[i]}
    BY <2>1, <2>2
  <2> QED BY <1>7, <2>2, <2>3 DEF bought
<1>8. CASE i \notin Shortage
  <2>1. bought = {}
    BY <1>4, <1>5, <1>6, <1>8
  <2> QED BY <1>8, <2>1
<1> QED BY <1>7, <1>8

\* What a new list buys, for each Ingredient the Basket uses.
LEMMA NewListBuys ==
  ASSUME KitchenInv, NEW l \in List, NEW balances, balances # None,
         CreateListFromBasket(l, None, balances),
         NEW i \in UsedBy(basket)
  PROVE  LET short == Required(basket, i) - balances[i]
         IN  IF short > 0
             THEN \E it \in ItemsOf(l)' : /\ items'[it].ingredient = i
                                          /\ items'[it].quantity = short
             ELSE \A it \in ItemsOf(l)' : items'[it].ingredient # i
<1> DEFINE bought == {it \in ItemsOf(l)' : items'[it].ingredient = i}
<1>1. /\ i \in Shortage => \E it : bought = {it} /\ items'[it].quantity = Purchase(i)
      /\ i \notin Shortage => bought = {}
  <2>1. GroceryTypeOK /\ PantryTypeOK
    BY DEF KitchenInv, UndoInv, PantryInv
  <2> QED BY <2>1, BoughtItem
<1>2. balances[i] = Balance(i)
  <2>1. balances = [j \in UsedBy(basket) |-> Balance(j)]
    BY DEF CreateListFromBasket, BalancesHold
  <2> QED BY <2>1
<1>3. /\ Purchase(i) = Required(basket, i) - balances[i]
      /\ i \in Shortage <=> Purchase(i) > 0
  BY <1>2 DEF Purchase, Shortage
<1>4. i \in Shortage => \E it \in bought : items'[it].quantity = Purchase(i)
  BY <1>1
<1> QED BY <1>1, <1>3, <1>4

\* A list made with a pantry_basis buys what is short of the balances that the
\* client saw and nothing else, however stale its view: a basis that no longer
\* holds makes no list (full_services.py:398-415, full_services.py:459-500).
THEOREM ListIsReviewed == GrocerySpec => ListMatchesReview
<1>1. KitchenInv /\ [GroceryNext]_kitchenVars =>
        [\A l \in List : lists[l] = None /\ lists'[l] # None =>
           \A balances \in [UsedBy(basket) -> Quantity] :
             CreateListFromBasket(l, None, balances) =>
               \A i \in UsedBy(basket) :
                 LET short == Required(basket, i) - balances[i]
                 IN  IF short > 0
                     THEN \E it \in ItemsOf(l)' : /\ items'[it].ingredient = i
                                                  /\ items'[it].quantity = short
                     ELSE \A it \in ItemsOf(l)' : items'[it].ingredient # i]_kitchenVars
  <2>1. ASSUME KitchenInv, NEW balances \in [UsedBy(basket) -> Quantity]
        PROVE  balances # None
    <3>1. UsedBy(basket) \in SUBSET Ingredient
      BY <2>1, UsedAreIngredients DEF KitchenInv
    <3> QED BY <3>1, BasisAssumption
  <2> QED BY <2>1, NewListBuys
<1> QED BY <1>1, KitchenStart, KitchenTyped, PTL DEF GrocerySpec, ListMatchesReview

-----------------------------------------------------------------------------
(* Sums.                                                                   *)

\* h is the sum of f over each subset of S, taken in the order of CHOOSE.
Any(s) == CHOOSE x \in s : TRUE
Sum1(h, f, s) == IF s = {} THEN 0 ELSE f[Any(s)] + h[s \ {Any(s)}]
Total(h, S, f) == h = [s \in SUBSET S |-> Sum1(h, f, s)]

\* A subset without one of its members is a smaller one.
LEMMA SmallerSet ==
  ASSUME NEW S, IsFiniteSet(S), NEW s \in SUBSET S, s # {}
  PROVE  /\ Any(s) \in S /\ s \ {Any(s)} \in SUBSET S
         /\ Cardinality(s) \in Nat \ {0}
         /\ Cardinality(s \ {Any(s)}) = Cardinality(s) - 1
<1>1. IsFiniteSet(s)
  BY FS_Subset
<1>2. Any(s) \in s
  BY DEF Any
<1>3. Cardinality(s) \in Nat /\ Cardinality(s) # 0
  BY <1>1, FS_CardinalityType, FS_EmptySet
<1>4. Cardinality(s \ {Any(s)}) = Cardinality(s) - 1
  BY <1>1, <1>2, FS_RemoveElement
<1> QED BY <1>2, <1>3, <1>4

\* There is such an h, by induction on the size of the subset.
LEMMA TotalExists ==
  ASSUME NEW S, IsFiniteSet(S), NEW f \in [S -> Int]
  PROVE  \E h : Total(h, S, f)
<1> DEFINE Upto(n, h) == \A s \in SUBSET S : Cardinality(s) <= n => h[s] = Sum1(h, f, s)
           T == {n \in Nat : \E h \in [SUBSET S -> Int] : Upto(n, h)}
<1>0. \A s \in SUBSET S : Cardinality(s) \in Nat /\ (Cardinality(s) = 0 <=> s = {})
  BY FS_Subset, FS_CardinalityType, FS_EmptySet
<1>1. 0 \in T
  <2> DEFINE h == [s \in SUBSET S |-> 0]
  <2>1. h \in [SUBSET S -> Int] /\ Upto(0, h)
    BY <1>0 DEF Sum1
  <2> HIDE DEF h
  <2> QED BY <2>1
<1>2. ASSUME NEW n \in T
      PROVE  n + 1 \in T
  <2>1. PICK h \in [SUBSET S -> Int] : Upto(n, h)
    OBVIOUS
  <2> DEFINE k == [s \in SUBSET S |-> IF Cardinality(s) <= n THEN h[s] ELSE Sum1(h, f, s)]
  <2>2. ASSUME NEW s \in SUBSET S, s # {}
        PROVE  Sum1(h, f, s) \in Int
    <3>1. Any(s) \in S /\ s \ {Any(s)} \in SUBSET S
      BY <2>2, SmallerSet
    <3> QED BY <2>2, <3>1 DEF Sum1
  <2>3. k \in [SUBSET S -> Int]
    <3>1. \A s \in SUBSET S : Sum1(h, f, s) \in Int
      BY <2>2 DEF Sum1
    <3> HIDE DEF Sum1
    <3> QED BY <3>1
  <2>4. ASSUME NEW s \in SUBSET S, Cardinality(s) <= n + 1
        PROVE  k[s] = Sum1(k, f, s)
    <3>1. CASE s = {}
      <4>1. Cardinality(s) <= n
        BY <1>0, <3>1
      <4> QED BY <2>1, <3>1, <4>1 DEF Sum1
    <3>2. CASE s # {}
      <4> DEFINE r == s \ {Any(s)}
      <4>1. /\ r \in SUBSET S /\ Cardinality(r) = Cardinality(s) - 1
            /\ Cardinality(s) \in Nat
        BY <3>2, SmallerSet
      <4>2. Cardinality(r) <= n
        BY <2>4, <4>1
      <4>3. k[r] = h[r]
        BY <4>1, <4>2
      <4>4. Sum1(k, f, s) = Sum1(h, f, s)
        BY <3>2, <4>3 DEF Sum1
      <4>5. k[s] = Sum1(h, f, s)
        <5> HIDE DEF Sum1
        <5> QED BY <2>1
      <4> QED BY <4>4, <4>5
    <3> QED BY <3>1, <3>2
  <2> HIDE DEF k
  <2>5. Upto(n + 1, k)
    BY <2>4
  <2> QED BY <2>3, <2>5
<1>3. T = Nat
  <2>1. T \in SUBSET Nat
    OBVIOUS
  <2> HIDE DEF T
  <2> QED BY <1>1, <1>2, <2>1, AllNaturals
<1>4. Cardinality(S) \in T
  <2> HIDE DEF T
  <2> QED BY <1>0, <1>3
<1>5. PICK h \in [SUBSET S -> Int] : Upto(Cardinality(S), h)
  BY <1>4
<1>6. \A s \in SUBSET S : h[s] = Sum1(h, f, s)
  BY <1>5, FS_Subset
<1>7. Total(h, S, f)
  <2> HIDE DEF Sum1
  <2> QED BY <1>6 DEF Total
<1> QED BY <1>7

\* The sum of what is taken is the opposite of the sum of what is needed.
LEMMA TotalOpposite ==
  ASSUME NEW S, IsFiniteSet(S), NEW f \in [S -> Int], NEW g \in [S -> Int],
         \A x \in S : g[x] = -f[x],
         NEW h, Total(h, S, f), NEW k, Total(k, S, g)
  PROVE  h[S] \in Int /\ k[S] = -h[S]
<1> DEFINE Holds(s) == h[s] \in Int /\ k[s] = -h[s]
           T == {n \in Nat : \A s \in SUBSET S : Cardinality(s) = n => Holds(s)}
<1>0. \A s \in SUBSET S : h[s] = Sum1(h, f, s) /\ k[s] = Sum1(k, g, s)
  <2> HIDE DEF Sum1
  <2> QED BY DEF Total
<1>1. 0 \in T
  <2>1. \A s \in SUBSET S : Cardinality(s) = 0 => s = {}
    BY FS_Subset, FS_EmptySet
  <2>2. h[{}] = 0 /\ k[{}] = 0
    BY <1>0 DEF Sum1
  <2> QED BY <2>1, <2>2
<1>2. ASSUME NEW n \in T
      PROVE  n + 1 \in T
  <2>1. ASSUME NEW s \in SUBSET S, Cardinality(s) = n + 1
        PROVE  Holds(s)
    <3> DEFINE r == s \ {Any(s)}
    <3>1. s # {}
      <4>1. Cardinality(s) # 0
        BY <2>1
      <4> QED BY <4>1, FS_EmptySet
    <3>2. Any(s) \in S /\ r \in SUBSET S /\ Cardinality(r) = n
      BY <2>1, <3>1, SmallerSet
    <3>3. Holds(r)
      BY <3>2
    <3>4. h[s] = f[Any(s)] + h[r] /\ k[s] = g[Any(s)] + k[r]
      BY <1>0, <3>1 DEF Sum1
    <3> HIDE DEF r
    <3> QED BY <3>2, <3>3, <3>4
  <2> HIDE DEF Holds
  <2> QED BY <2>1
<1>3. T = Nat
  <2>1. T \in SUBSET Nat
    OBVIOUS
  <2> HIDE DEF T
  <2> QED BY <1>1, <1>2, <2>1, AllNaturals
<1>4. Cardinality(S) \in T
  <2> HIDE DEF T
  <2> QED BY <1>3, FS_CardinalityType
<1> QED BY <1>4

\* The amount of a portion is a whole number.
LEMMA ScaledType ==
  ASSUME NEW q \in Nat, NEW n \in Nat, NEW base \in Nat \ {0}
  PROVE  Scaled(q, n, base) \in Int
<1> DEFINE num == 2 * q * n + base
           den == 2 * base
<1>1. num \in Int /\ den \in Nat \ {0}
  OBVIOUS
<1> HIDE DEF num, den
<1>2. num \div den \in Int
  BY <1>1
<1> QED BY <1>2 DEF Scaled, num, den

\* What each portion needs of Ingredient i, and what cooking it takes.
Share(i) ==
    [k \in Using(basket, i) |->
       Scaled(Needs[basket[k].recipe][i], basket[k].servings, BaseServings[basket[k].recipe])]
Cooked(k) == Consumed(basket[k].recipe, basket[k].servings)
Taken(i) == MapThenSumSet(LAMBDA k : Cooked(k)[i],
                          {k \in DOMAIN basket : i \in DOMAIN Cooked(k)})

\* A Basket has finitely many portions of an Ingredient, each a whole number.
LEMMA ShareType ==
  ASSUME GroceryTypeOK, NEW i
  PROVE  IsFiniteSet(Using(basket, i)) /\ Share(i) \in [Using(basket, i) -> Int]
<1>1. basket \in Seq(Portion) /\ Len(basket) \in Nat /\ DOMAIN basket = 1 .. Len(basket)
  BY DEF GroceryTypeOK
<1>2. IsFiniteSet(DOMAIN basket)
  BY <1>1, FS_Interval
<1>3. IsFiniteSet(Using(basket, i))
  <2>1. Using(basket, i) \in SUBSET DOMAIN basket
    BY DEF Using
  <2> QED BY <1>2, <2>1, FS_Subset
<1>4. ASSUME NEW k \in Using(basket, i)
      PROVE  Share(i)[k] \in Int
  <2>1. basket[k] \in Portion /\ i \in DOMAIN Needs[basket[k].recipe]
    BY <1>1 DEF Using
  <2>2. /\ Needs[basket[k].recipe][i] \in Nat /\ BaseServings[basket[k].recipe] \in Nat \ {0}
        /\ basket[k].servings \in Nat
    BY <2>1, RecipeAssumption, GroceryAssumption DEF Portion
  <2> QED BY <2>2, ScaledType DEF Share
<1>5. Share(i) = [k \in Using(basket, i) |-> Share(i)[k]]
  BY DEF Share
<1> HIDE DEF Share
<1> QED BY <1>3, <1>4, <1>5

\* What cooking the Basket takes is the opposite of what it needs.
LEMMA TakenIsRequired ==
  ASSUME GroceryTypeOK, NEW i
  PROVE  Required(basket, i) \in Int /\ Taken(i) = -Required(basket, i)
<1> DEFINE S == Using(basket, i)
           f == Share(i)
           g == [k \in S |-> -f[k]]
           needed(k) == LET p == basket[k]
                        IN  Scaled(Needs[p.recipe][i], p.servings, BaseServings[p.recipe])
           Need(h) == h = [s \in SUBSET S |-> IF s = {} THEN 0
                                              ELSE needed(Any(s)) + h[s \ {Any(s)}]]
           Take(h) == h = [s \in SUBSET S |-> IF s = {} THEN 0
                                              ELSE Cooked(Any(s))[i] + h[s \ {Any(s)}]]
<1>1. IsFiniteSet(S) /\ f \in [S -> Int] /\ g \in [S -> Int]
  BY ShareType
<1>2. \A s \in SUBSET S : s # {} => Any(s) \in S
  BY DEF Any
<1>3. \A k \in S : f[k] = needed(k) /\ g[k] = Cooked(k)[i]
  BY DEF Share, Cooked, Consumed, Using
<1>4. \A h : Need(h) <=> Total(h, S, f)
  <2> HIDE DEF S, f, needed
  <2> QED BY <1>2, <1>3 DEF Total, Sum1
<1>5. \A h : Take(h) <=> Total(h, S, g)
  <2> HIDE DEF S, g
  <2> QED BY <1>2, <1>3 DEF Total, Sum1
<1>6. Required(basket, i) = (CHOOSE h : Need(h))[S]
  BY DEF Required, MapThenSumSet, MapThenFoldSet, Any
<1>7. Taken(i) = (CHOOSE h : Take(h))[S]
  <2>1. {k \in DOMAIN basket : i \in DOMAIN Cooked(k)} = S
    BY DEF Cooked, Consumed, Using
  <2>2. Taken(i) = MapThenSumSet(LAMBDA k : Cooked(k)[i], S)
    BY <2>1 DEF Taken
  <2> QED BY <2>2 DEF MapThenSumSet, MapThenFoldSet, Any
<1>8. /\ Total(CHOOSE h : Need(h), S, f) /\ Total(CHOOSE h : Take(h), S, g)
  <2> HIDE DEF S, f, g, Need, Take
  <2>1. (\E h : Need(h)) /\ (\E h : Take(h))
    BY <1>1, <1>4, <1>5, TotalExists
  <2> QED BY <1>4, <1>5, <2>1
<1>9. \A k \in S : g[k] = -f[k]
  OBVIOUS
<1> HIDE DEF S, f, g, Need, Take
<1> QED BY <1>1, <1>6, <1>7, <1>8, <1>9, TotalOpposite

\* The quantities of no item come to nothing, those of one to its own.
LEMMA SumOfFew ==
  ASSUME NEW rows, NEW S, IsFiniteSet(S), \A x \in S : rows[x].quantity \in Int
  PROVE  \E sum : /\ MapThenSumSet(LAMBDA x : rows[x].quantity, S) = sum
                  /\ S = {} => sum = 0
                  /\ \A y : S = {y} => sum = rows[y].quantity
<1> DEFINE f == [x \in S |-> rows[x].quantity]
           Sum(h) == h = [s \in SUBSET S |-> IF s = {} THEN 0
                                             ELSE rows[Any(s)].quantity + h[s \ {Any(s)}]]
           h0 == CHOOSE h : Sum(h)
           sum == MapThenSumSet(LAMBDA x : rows[x].quantity, S)
<1>1. sum = h0[S]
  BY DEF MapThenSumSet, MapThenFoldSet, Any
<1>2. \A s \in SUBSET S : s # {} => Any(s) \in S
  BY DEF Any
<1>3. \A h : Sum(h) <=> Total(h, S, f)
  BY <1>2 DEF Total, Sum1
<1>4. f \in [S -> Int]
  OBVIOUS
<1>5. Total(h0, S, f)
  <2> HIDE DEF Sum, f
  <2>1. \E h : Sum(h)
    BY <1>3, <1>4, TotalExists
  <2> QED BY <1>3, <2>1
<1>6. \A s \in SUBSET S : h0[s] = Sum1(h0, f, s)
  <2> HIDE DEF Sum1, h0, f
  <2> QED BY <1>5 DEF Total
<1> HIDE DEF h0, sum
<1>7. h0[{}] = 0
  BY <1>6 DEF Sum1
<1>8. ASSUME NEW x, S = {x}
      PROVE  h0[S] = rows[x].quantity
  <2>1. Any(S) = x /\ S \ {Any(S)} = {} /\ S # {} /\ f[x] \in Int /\ f[x] = rows[x].quantity
    BY <1>2, <1>4, <1>8
  <2>2. h0[S] = f[x] + h0[{}]
    <3>1. h0[S] = f[Any(S)] + h0[S \ {Any(S)}]
      BY <1>6, <2>1 DEF Sum1
    <3> HIDE DEF f
    <3> QED BY <2>1, <3>1
  <2> HIDE DEF f
  <2> QED BY <1>7, <2>1, <2>2
<1>9. (S = {} => h0[S] = 0) /\ \A y : S = {y} => h0[S] = rows[y].quantity
  BY <1>7, <1>8
<1> QED BY <1>1, <1>9 DEF sum

\* A list is new when it is made, by hand or of the Basket.
LEMMA MakesList ==
  ASSUME GroceryTypeOK, GroceryNext, NEW l \in List, lists[l] = None, lists'[l] # None
  PROVE  \/ CreateManualList(l)
         \/ \E recipes, balances : CreateListFromBasket(l, recipes, balances)
<1>1. PICK m \in List : ListStep(m)
  <2>1. CASE UNCHANGED groceryVars
    BY <2>1 DEF groceryVars
  <2>2. CASE BasketStep
    BY <2>2, BasketKeepsType
  <2>3. ASSUME NEW it \in Item, ItemStep(it)
        PROVE  FALSE
    BY <2>3 DEF ItemStep, CreateItem, UpdateItem, RemoveItem
  <2> QED BY <2>1, <2>2, <2>3 DEF GroceryNext
<1>2. lists \in [List -> ListRow \cup {None}]
  BY DEF GroceryTypeOK
<1>3. CASE CreateManualList(m)
  BY <1>2, <1>3 DEF CreateManualList
<1>4. ASSUME NEW recipes, NEW balances, CreateListFromBasket(m, recipes, balances)
      PROVE  l = m
  BY <1>2, <1>4 DEF CreateListFromBasket
<1>5. ASSUME NEW selected, NEW e, CompleteList(m, selected, e)
      PROVE  FALSE
  BY <1>2, <1>5 DEF CompleteList, Completable, Active
<1>6. CASE ReuseList(m)
  BY <1>6 DEF ReuseList
<1>7. ASSUME NEW restore, DeleteList(m, restore)
      PROVE  FALSE
  BY <1>2, <1>7 DEF DeleteList
<1> QED BY <1>1, <1>3, <1>4, <1>5, <1>6, <1>7 DEF ListStep

\* What cooking the portions of a list takes of Ingredient i.
TakenBy(portions, i) == MapThenSumSet(LAMBDA k : Cooked(k)[i],
                                      {k \in DOMAIN portions : i \in DOMAIN Cooked(k)})

\* What is left of Ingredient i after buying list l and cooking its Recipes.
LEMMA ListCovers ==
  ASSUME KitchenInv, GroceryNext, NEW l \in List, lists[l] = None, lists'[l] # None,
         NEW i \in Ingredient
  PROVE  LET bought == MapThenSumSet(LAMBDA it : items'[it].quantity,
                         {it \in ItemsOf(l)' : items'[it].ingredient = i})
             left == Balance(i) + bought + TakenBy(lists'[l].recipes, i)
         IN  /\ DOMAIN lists'[l].recipes # {} /\ i \in UsedBy(basket) => left >= 0
             /\ bought > 0 => left = 0
<1> DEFINE S == {it \in ItemsOf(l)' : items'[it].ingredient = i}
           bought == MapThenSumSet(LAMBDA it : items'[it].quantity, S)
           taken == TakenBy(lists'[l].recipes, i)
<1>1. GroceryTypeOK /\ PantryTypeOK
  BY DEF KitchenInv, UndoInv, PantryInv
<1>2. Balance(i) \in Int /\ Required(basket, i) \in Int
  BY <1>1, BalanceType, TakenIsRequired DEF Quantity
<1>3. ASSUME IsFiniteSet(S), \A x \in S : items'[x].quantity \in Int
      PROVE  /\ S = {} => bought = 0
             /\ \A it : S = {it} => bought = items'[it].quantity
  <2> HIDE DEF S
  <2>1. \E sum : /\ bought = sum
                 /\ S = {} => sum = 0
                 /\ \A it : S = {it} => sum = items'[it].quantity
    BY <1>3, SumOfFew
  <2> HIDE DEF bought
  <2> QED BY <2>1
<1>4. /\ S = {} => bought = 0
      /\ \A it : S = {it} /\ items'[it].quantity \in Int => bought = items'[it].quantity
  <2> HIDE DEF S, bought
  <2>1. ASSUME S = {}
        PROVE  bought = 0
    <3>1. IsFiniteSet(S) /\ \A x \in S : items'[x].quantity \in Int
      BY <2>1, FS_EmptySet
    <3> QED BY <1>3, <2>1, <3>1
  <2>2. ASSUME NEW it, S = {it}, items'[it].quantity \in Int
        PROVE  bought = items'[it].quantity
    <3>1. IsFiniteSet(S) /\ \A x \in S : items'[x].quantity \in Int
      BY <2>2, FS_Singleton
    <3> QED BY <1>3, <2>2, <3>1
  <2> QED BY <2>1, <2>2
<1> HIDE DEF bought
<1>5. CASE CreateManualList(l)
  <2>1. lists'[l] = NewList("active", <<>>) /\ items' = items
    BY <1>1, <1>5 DEF CreateManualList, GroceryTypeOK
  <2>2. S = {}
    BY <1>1, <2>1 DEF ItemsOf, GroceryTypeOK
  <2>3. bought = 0
    BY <1>4, <2>2
  <2>4. DOMAIN lists'[l].recipes = {}
    BY <2>1 DEF NewList
  <2> QED BY <2>3, <2>4 DEF bought
<1>6. ASSUME NEW recipes, NEW balances, CreateListFromBasket(l, recipes, balances)
      PROVE  /\ i \in UsedBy(basket) => Balance(i) + bought + taken >= 0
             /\ bought > 0 => Balance(i) + bought + taken = 0
  <2>1. lists'[l].recipes = basket
    BY <1>1, <1>6 DEF CreateListFromBasket, GroceryTypeOK, NewList
  <2>2. taken = -Required(basket, i)
    <3>1. TakenBy(basket, i) = -Required(basket, i)
      BY <1>1, TakenIsRequired DEF Taken, TakenBy
    <3> QED BY <2>1, <3>1
  <2>3. Purchase(i) = Required(basket, i) - Balance(i)
    BY DEF Purchase
  <2>4. CASE i \in Shortage
    <3>1. \E it : S = {it} /\ items'[it].quantity = Purchase(i)
      BY <1>1, <1>6, <2>4, BoughtItem
    <3>2. bought = Purchase(i)
      BY <1>2, <1>4, <2>3, <3>1
    <3> HIDE DEF taken
    <3> QED BY <1>2, <2>2, <2>3, <3>2
  <2>5. CASE i \notin Shortage
    <3>1. bought = 0
      BY <1>1, <1>4, <1>6, <2>5, BoughtItem
    <3>2. i \in UsedBy(basket) => ~(Purchase(i) > 0)
      BY <2>5 DEF Shortage
    <3> HIDE DEF taken
    <3> QED BY <1>2, <2>2, <2>3, <3>1, <3>2
  <2> QED BY <2>4, <2>5
<1>7. \/ CreateManualList(l)
      \/ \E recipes, balances : CreateListFromBasket(l, recipes, balances)
  BY <1>1, MakesList
<1> QED BY <1>5, <1>6, <1>7 DEF bought

\* The list buys what cooking its Recipes will take beyond the Pantry, to the
\* last rounded unit, however many Recipes share an Ingredient
\* (full_services.py:441-500, full_services.py:1098-1106).
THEOREM ShoppingCovers == GrocerySpec => ShoppingCoversCooking
<1>1. KitchenInv /\ [GroceryNext]_kitchenVars =>
        [\A l \in List :
           lists[l] = None /\ lists'[l] # None =>
             \A i \in Ingredient :
               LET bought == MapThenSumSet(LAMBDA it : items'[it].quantity,
                               {it \in ItemsOf(l)' : items'[it].ingredient = i})
                   left == Balance(i) + bought + TakenBy(lists'[l].recipes, i)
               IN  /\ DOMAIN lists'[l].recipes # {} /\ i \in UsedBy(basket) => left >= 0
                   /\ bought > 0 => left = 0]_kitchenVars
  BY ListCovers
<1> QED BY <1>1, KitchenStart, KitchenTyped, PTL
        DEF GrocerySpec, ShoppingCoversCooking, TakenBy, Cooked
-----------------------------------------------------------------------------
(* What completed lists have added to the Pantry.                          *)

SumOf(rows, S) == MapThenSumSet(LAMBDA x : rows[x].quantity, S)

\* The sum is one of the quantities of its own items.
LEMMA SumSame ==
  ASSUME NEW rows, NEW others, NEW S, \A x \in S : rows[x].quantity = others[x].quantity
  PROVE  SumOf(rows, S) = SumOf(others, S)
<1> DEFINE Sum(r, h) == h = [s \in SUBSET S |-> IF s = {} THEN 0
                                                ELSE r[Any(s)].quantity + h[s \ {Any(s)}]]
<1>1. \A s \in SUBSET S : s # {} => Any(s) \in S
  BY DEF Any
<1>2. \A h : Sum(rows, h) <=> Sum(others, h)
  BY <1>1
<1>3. /\ SumOf(rows, S) = (CHOOSE h : Sum(rows, h))[S]
      /\ SumOf(others, S) = (CHOOSE h : Sum(others, h))[S]
  BY DEF SumOf, MapThenSumSet, MapThenFoldSet, Any
<1>4. (CHOOSE h : Sum(rows, h)) = (CHOOSE h : Sum(others, h))
  <2> HIDE DEF Sum
  <2> QED BY <1>2, Zenon
<1> QED BY <1>3, <1>4

\* The items of an addition that are of Ingredient i.
Bought(p, i) == {it \in p.items : items[it].ingredient = i}

\* The history says of p's event what p's items say.
GoodAddition(l, p) ==
    /\ lists[l].status = "completed"
    /\ p.event \in Event /\ events[p.event] # None
    /\ p.items \in SUBSET ItemsOf(l)
    /\ \A it \in p.items : items[it].ingredient \in Ingredient
    /\ \A i \in Ingredient :
         /\ Occurs(ledger[i], p.event) <=> Bought(p, i) # {}
         /\ Occurs(ledger[i], p.event) =>
              TheChange(ledger[i], p.event).delta = SumOf(items, Bought(p, i))

Apart(p, q) == q.event # p.event /\ q.items \cap p.items = {}

AdditionsInv ==
    /\ \A l \in List : lists[l] # None =>
         \A p \in lists[l].additions : GoodAddition(l, p)
    /\ \A l, m \in List : lists[l] # None /\ lists[m] # None =>
         \A p \in lists[l].additions, q \in lists[m].additions :
           m # l \/ q # p => Apart(p, q)

\* A step keeps the events there are, and what the history says of them.
LEMMA EventsStay ==
  ASSUME UndoInv, [GroceryNext]_kitchenVars, NEW f \in Event, events[f] # None
  PROVE  KeepsHistoryOf(f) /\ events'[f] # None
<1>1. ASSUME ledger' = ledger, events' = events
      PROVE  KeepsHistoryOf(f) /\ events'[f] # None
  BY <1>1 DEF KeepsHistoryOf
<1>2. ASSUME NEW e \in Event, NEW delta, Move(e, delta), events'[f] = events[f]
      PROVE  KeepsHistoryOf(f) /\ events'[f] # None
  <2>1. f # e
    BY <1>2 DEF Move
  <2> QED BY <1>2, <2>1, MoveKeepsOthers DEF UndoInv, PantryInv
<1>3. ASSUME NEW e \in Event, NEW row, NEW delta, Post(e, row, delta)
      PROVE  KeepsHistoryOf(f) /\ events'[f] # None
  <2>1. f # e /\ Move(e, delta) /\ events' = [events EXCEPT ![e] = row]
    BY <1>3 DEF Post, Move
  <2> QED BY <1>2, <2>1 DEF UndoInv, PantryInv, PantryTypeOK
<1>4. ASSUME NEW i \in Ingredient, Catalogue(i)
      PROVE  KeepsHistoryOf(f) /\ events'[f] # None
  BY <1>1, <1>4 DEF Catalogue, Track, Untrack, SetPreferences,
                    ArchiveIngredient, RestoreIngredient
<1>5. ASSUME NEW e \in Event, ManualChange(e)
      PROVE  KeepsHistoryOf(f) /\ events'[f] # None
  BY <1>3, <1>5 DEF ManualChange, AdjustStock, BulkAdjustStock
<1>6. ASSUME NEW e \in Event, NEW rc \in Recipe, NEW n, CookRecipe(rc, n, e)
      PROVE  KeepsHistoryOf(f) /\ events'[f] # None
  BY <1>3, <1>6 DEF CookRecipe
<1>7. ASSUME NEW e \in Event, NEW o \in Event, ReverseActivity(o, e)
      PROVE  KeepsHistoryOf(f) /\ events'[f] # None
  <2>1. /\ Move(e, Undone(o)) /\ f # e
        /\ events \in [Event -> EventRow \cup {None}]
        /\ events' = [events EXCEPT ![e] = Reversal(o), ![o].reversed = TRUE]
    BY <1>7 DEF ReverseActivity, Move, UndoInv, PantryInv, PantryTypeOK
  <2>2. KeepsHistoryOf(f)
    BY <2>1, MoveKeepsOthers DEF UndoInv, PantryInv
  <2>3. events'[f] # None
    <3>1. KeepsRecords
      BY <1>7, ReverseKeepsRecords DEF UndoInv, PantryInv
    <3>2. events'[f] \in {events[f], [events[f] EXCEPT !.reversed = TRUE]}
      BY <3>1 DEF KeepsRecords
    <3>3. [events[f] EXCEPT !.reversed = TRUE] \in EventRow
      BY <2>1 DEF EventRow
    <3> QED BY <3>2, <3>3, RowIsNotNone
  <2> QED BY <2>2, <2>3
<1>8. ASSUME NEW selected, NEW e \in Event, Purchases(selected, e)
      PROVE  KeepsHistoryOf(f) /\ events'[f] # None
  BY <1>3, <1>8 DEF Purchases
<1>9. CASE PantryNext
  BY <1>4, <1>5, <1>6, <1>7, <1>9 DEF PantryNext
<1>10. CASE BasketStep
  BY <1>1, <1>10 DEF BasketStep, UpsertBasketItem, RemoveBasketItem, ClearBasket, pantryVars
<1>11. ASSUME NEW l \in List, ListStep(l)
       PROVE  KeepsHistoryOf(f) /\ events'[f] # None
  BY <1>1, <1>8, <1>11 DEF ListStep, CreateManualList, CreateListFromBasket,
                           CompleteList, ReuseList, DeleteList, pantryVars
<1>12. ASSUME NEW it \in Item, ItemStep(it)
       PROVE  KeepsHistoryOf(f) /\ events'[f] # None
  BY <1>1, <1>12 DEF ItemStep, CreateItem, UpdateItem, RemoveItem, pantryVars
<1>13. CASE UNCHANGED kitchenVars
  BY <1>1, <1>13 DEF kitchenVars, pantryVars
<1> QED BY <1>9, <1>10, <1>11, <1>12, <1>13 DEF GroceryNext

\* An addition of a list that is still there stays good.
LEMMA AdditionStays ==
  ASSUME UndoInv, ItemsInv, [GroceryNext]_kitchenVars,
         NEW l \in List, lists[l] # None, lists'[l] # None,
         NEW p, GoodAddition(l, p)
  PROVE  lists'[l] = lists[l] /\ GoodAddition(l, p)'
<1>1. /\ lists'[l] = lists[l] /\ ItemsOf(l)' = ItemsOf(l)
      /\ \A it \in ItemsOf(l) : items'[it] = items[it]
  BY CompletedStep DEF StaysOrGoes, GoodAddition
<1>2. KeepsHistoryOf(p.event) /\ events'[p.event] # None
  BY EventsStay DEF GoodAddition
<1>3. \A it \in p.items : items'[it] = items[it]
  BY <1>1 DEF GoodAddition
<1>4. ASSUME NEW i \in Ingredient
      PROVE  Bought(p, i)' = Bought(p, i) /\ SumOf(items', Bought(p, i)) = SumOf(items, Bought(p, i))
  <2>1. Bought(p, i)' = Bought(p, i)
    BY <1>3 DEF Bought
  <2>2. \A x \in Bought(p, i) : items'[x].quantity = items[x].quantity
    BY <1>3 DEF Bought
  <2>3. SumOf(items', Bought(p, i)) = SumOf(items, Bought(p, i))
    BY <2>2, SumSame
  <2> QED BY <2>1, <2>3
<1>5. ASSUME NEW i \in Ingredient
      PROVE  /\ Occurs(ledger'[i], p.event) <=> Bought(p, i)' # {}
             /\ Occurs(ledger'[i], p.event) =>
                  TheChange(ledger'[i], p.event).delta = SumOf(items', Bought(p, i)')
  <2>1. /\ Occurs(ledger[i], p.event) <=> Bought(p, i) # {}
        /\ Occurs(ledger[i], p.event) =>
             TheChange(ledger[i], p.event).delta = SumOf(items, Bought(p, i))
    BY DEF GoodAddition
  <2>2. /\ Occurs(ledger'[i], p.event) <=> Occurs(ledger[i], p.event)
        /\ Occurs(ledger[i], p.event) =>
             TheChange(ledger'[i], p.event) = TheChange(ledger[i], p.event)
    BY <1>2 DEF KeepsHistoryOf
  <2>3. Bought(p, i)' = Bought(p, i) /\ SumOf(items', Bought(p, i)) = SumOf(items, Bought(p, i))
    BY <1>4
  <2> QED BY <2>1, <2>2, <2>3
<1>6. /\ lists'[l].status = "completed" /\ p.event \in Event
      /\ p.items \in SUBSET ItemsOf(l)'
      /\ \A it \in p.items : items'[it].ingredient \in Ingredient
  BY <1>1, <1>3 DEF GoodAddition
<1> QED BY <1>1, <1>2, <1>5, <1>6 DEF GoodAddition

\* An addition is an old one, or that of the list being completed.
LEMMA WhereAdded ==
  ASSUME GroceryTypeOK, ItemsInv, [GroceryNext]_kitchenVars,
         NEW l \in List, lists'[l] # None, NEW p \in lists'[l].additions
  PROVE  \/ lists[l] # None /\ p \in lists[l].additions
         \/ \E selected \in SUBSET ItemsOf(l), e \in Event :
              /\ CompleteList(l, selected, e) /\ selected # {}
              /\ p = [event |-> e, items |-> selected]
<1> DEFINE Old == lists[l] # None /\ p \in lists[l].additions
           New == \E selected \in SUBSET ItemsOf(l), e \in Event :
                    /\ CompleteList(l, selected, e) /\ selected # {}
                    /\ p = [event |-> e, items |-> selected]
<1>0. lists \in [List -> ListRow \cup {None}]
  BY DEF GroceryTypeOK
<1>1. CASE lists'[l] = lists[l]
  BY <1>1
<1>2. ASSUME NEW m \in List \ {l}, ListStep(m) PROVE Old
  BY <1>2, ListItems
<1>3. ASSUME NEW status, NEW recipes, lists' = [lists EXCEPT ![l] = NewList(status, recipes)]
      PROVE  FALSE
  <2>1. lists'[l] = NewList(status, recipes)
    BY <1>0, <1>3
  <2> QED BY <2>1 DEF NewList
<1>4. ASSUME NEW selected \in SUBSET ItemsOf(l), NEW e \in Event,
             CompleteList(l, selected, e)
      PROVE  Old \/ New
  <2>1. /\ lists[l] # None /\ lists[l] \in ListRow /\ selected \in SUBSET Item
        /\ lists'[l] = Completed(lists[l], selected, e)
    BY <1>0, <1>4 DEF CompleteList, Completable, Active, ItemsOf
  <2>2. p \in IF selected = {} THEN lists[l].additions
              ELSE lists[l].additions \cup {[event |-> e, items |-> selected]}
    <3>1. Completed(lists[l], selected, e).additions =
            IF selected = {} THEN lists[l].additions
            ELSE lists[l].additions \cup {[event |-> e, items |-> selected]}
      BY <2>1, CompletedRow
    <3> QED BY <2>1, <3>1
  <2> QED BY <1>4, <2>1, <2>2
<1>5. CASE ListStep(l)
  <2>1. CASE CreateManualList(l)
    BY <1>3, <2>1 DEF CreateManualList
  <2>2. ASSUME NEW recipes, NEW balances, CreateListFromBasket(l, recipes, balances)
        PROVE  FALSE
    BY <1>3, <2>2 DEF CreateListFromBasket
  <2>3. CASE ReuseList(l)
    BY <1>1, <2>3 DEF ReuseList
  <2>4. ASSUME NEW restore, DeleteList(l, restore)
        PROVE  FALSE
    BY <1>0, <2>4 DEF DeleteList
  <2>5. Old \/ New
    <3> HIDE DEF Old, New
    <3>1. CASE \E selected \in SUBSET ItemsOf(l), e \in Event : CompleteList(l, selected, e)
      BY <1>4, <3>1
    <3>2. CASE CreateManualList(l) \/ ReuseList(l)
      BY <2>1, <2>3, <3>2 DEF Old, New
    <3> QED BY <1>5, <2>2, <2>4, <3>1, <3>2 DEF ListStep
  <2> QED BY <2>5
<1>6. ASSUME NEW it \in Item, ItemStep(it) PROVE Old
  BY <1>1, <1>6, OneItem
<1> QED BY <1>1, <1>2, <1>5, <1>6, OtherSteps

\* What completing a list adds is good, and all that the list has added.
LEMMA NewAddition ==
  ASSUME KitchenInv, AdditionsInv, NEW l \in List,
         NEW selected \in SUBSET ItemsOf(l), NEW e \in Event,
         CompleteList(l, selected, e), selected # {},
         NEW p, p = [event |-> e, items |-> selected]
  PROVE  /\ GoodAddition(l, p)' /\ events[e] = None
         /\ lists'[l].additions = {p}
         /\ \A m \in List \ {l} : lists'[m] = lists[m]
<1>1. /\ lists \in [List -> ListRow \cup {None}] /\ items \in [Item -> ItemRow \cup {None}]
      /\ PantryTypeOK /\ ChangesHaveEvents
  BY DEF KitchenInv, UndoInv, PantryInv, GroceryTypeOK
<1>2. /\ lists[l] # None /\ lists[l] \in ListRow /\ lists[l].status = "active"
      /\ selected \in SUBSET Item
  BY <1>1 DEF CompleteList, Completable, Active, ItemsOf
<1>3. lists[l].additions = {}
  BY <1>2 DEF AdditionsInv, GoodAddition
<1>4. /\ lists'[l] = Completed(lists[l], selected, e)
      /\ \A m \in List \ {l} : lists'[m] = lists[m]
  BY <1>1 DEF CompleteList
<1>5. lists'[l].status = "completed" /\ lists'[l].additions = {p}
  <2>1. /\ Completed(lists[l], selected, e).status = "completed"
        /\ Completed(lists[l], selected, e).additions = {p}
    <3>1. /\ Completed(lists[l], selected, e).status = "completed"
          /\ Completed(lists[l], selected, e).additions =
               IF selected = {} THEN lists[l].additions
               ELSE lists[l].additions \cup {[event |-> e, items |-> selected]}
      BY <1>2, CompletedRow
    <3> HIDE DEF KitchenInv
    <3>2. Completed(lists[l], selected, e).additions = {} \cup {p}
      BY <1>3, <3>1
    <3> QED BY <3>1, <3>2
  <2> QED BY <1>4, <2>1
<1>6. /\ Post(e, Manual, Purchased(selected)) /\ items' = items
      /\ Move(e, Purchased(selected)) /\ events[e] = None
  BY DEF CompleteList, Purchases, Post, Move
<1>7. events'[e] = Manual /\ Manual # None
  BY <1>1, <1>6, EventTypes, RowIsNotNone DEF Post, PantryTypeOK
<1>8. \A it \in selected : items[it].ingredient \in Ingredient
  <2>1. \A it \in selected : items[it] \in ItemRow /\ items[it].ingredient # None
    BY <1>1 DEF CompleteList, ItemsOf
  <2> QED BY <2>1 DEF ItemRow
<1>9. ASSUME NEW i \in Ingredient
      PROVE  /\ Occurs(ledger'[i], e) <=> Bought(p, i) # {}
             /\ Occurs(ledger'[i], e) =>
                  TheChange(ledger'[i], e).delta = SumOf(items, Bought(p, i))
  <2>1. Bought(p, i) = {it \in selected : items[it].ingredient = i}
    BY DEF Bought
  <2>2. i \in DOMAIN Purchased(selected) <=> Bought(p, i) # {}
    BY <2>1 DEF Purchased
  <2>3. i \in DOMAIN Purchased(selected) =>
          Purchased(selected)[i] = SumOf(items, Bought(p, i))
    BY <2>1 DEF Purchased, SumOf
  <2>4. /\ Occurs(ledger'[i], e) <=> i \in DOMAIN Purchased(selected)
        /\ i \in DOMAIN Purchased(selected) =>
             TheChange(ledger'[i], e).delta = Purchased(selected)[i]
    BY <1>1, <1>6, MoveRecords
  <2> QED BY <2>2, <2>3, <2>4
<1>10. \A i \in Ingredient : Bought(p, i)' = Bought(p, i)
  BY <1>6 DEF Bought
<1>11. GoodAddition(l, p)'
  <2>1. p.event = e /\ p.items = selected /\ ItemsOf(l)' = ItemsOf(l)
    BY <1>6 DEF ItemsOf
  <2> QED BY <1>5, <1>6, <1>7, <1>8, <1>9, <1>10, <2>1 DEF GoodAddition
<1> QED BY <1>4, <1>5, <1>6, <1>11

LEMMA AdditionsStep ==
  KitchenInv /\ ItemsInv /\ AdditionsInv /\ [GroceryNext]_kitchenVars => AdditionsInv'
<1> SUFFICES ASSUME KitchenInv, ItemsInv, AdditionsInv, [GroceryNext]_kitchenVars
             PROVE  AdditionsInv'
  OBVIOUS
<1>0. UndoInv /\ GroceryTypeOK
  BY DEF KitchenInv
<1>1. ASSUME NEW l \in List, lists'[l] # None, NEW p \in lists'[l].additions
      PROVE  \/ /\ lists[l] # None /\ p \in lists[l].additions
                /\ GoodAddition(l, p) /\ GoodAddition(l, p)'
             \/ /\ GoodAddition(l, p)' /\ events[p.event] = None
                /\ Active(l) /\ p.items \in SUBSET ItemsOf(l)
                /\ lists'[l].additions = {p}
                /\ \A m \in List \ {l} : lists'[m] = lists[m]
  <2>1. CASE lists[l] # None /\ p \in lists[l].additions
    <3>1. GoodAddition(l, p)
      BY <2>1 DEF AdditionsInv
    <3> QED BY <1>0, <1>1, <2>1, <3>1, AdditionStays
  <2>2. ASSUME NEW selected \in SUBSET ItemsOf(l), NEW e \in Event,
               CompleteList(l, selected, e), selected # {},
               p = [event |-> e, items |-> selected]
        PROVE  /\ GoodAddition(l, p)' /\ events[p.event] = None
               /\ Active(l) /\ p.items \in SUBSET ItemsOf(l)
               /\ lists'[l].additions = {p}
               /\ \A m \in List \ {l} : lists'[m] = lists[m]
    <3>1. p.event = e /\ p.items = selected /\ Active(l)
      BY <2>2 DEF CompleteList, Completable
    <3> QED BY <2>2, <3>1, NewAddition
  <2> QED BY <1>0, <1>1, <2>1, <2>2, WhereAdded
<1>2. ASSUME NEW l \in List, NEW m \in List, lists'[l] # None, lists'[m] # None,
             NEW p \in lists'[l].additions, NEW q \in lists'[m].additions,
             m # l \/ q # p, events[p.event] = None,
             Active(l), p.items \in SUBSET ItemsOf(l), lists'[l].additions = {p},
             \A n \in List \ {l} : lists'[n] = lists[n]
      PROVE  Apart(p, q)
  <2>1. m # l
    BY <1>2
  <2>2. lists[m] # None /\ q \in lists[m].additions
    BY <1>2, <2>1
  <2>3. events[q.event] # None /\ q.items \in SUBSET ItemsOf(m)
    BY <2>2 DEF AdditionsInv, GoodAddition
  <2>4. ItemsOf(l) \cap ItemsOf(m) = {}
    BY <2>1 DEF ItemsOf
  <2> QED BY <1>2, <2>3, <2>4 DEF Apart
<1>3. ASSUME NEW l \in List, NEW m \in List, lists'[l] # None, lists'[m] # None,
             NEW p \in lists'[l].additions, NEW q \in lists'[m].additions,
             m # l \/ q # p
      PROVE  Apart(p, q)
  <2>1. CASE /\ lists[l] # None /\ p \in lists[l].additions
             /\ lists[m] # None /\ q \in lists[m].additions
    BY <1>3, <2>1 DEF AdditionsInv
  <2>2. CASE ~(lists[l] # None /\ p \in lists[l].additions)
    BY <1>1, <1>2, <1>3, <2>2
  <2>3. CASE ~(lists[m] # None /\ q \in lists[m].additions)
    <3>1. Apart(q, p)
      BY <1>1, <1>2, <1>3, <2>3
    <3> QED BY <3>1 DEF Apart
  <2> QED BY <2>1, <2>2, <2>3
<1>4. \A l \in List : lists'[l] # None =>
        \A p \in lists'[l].additions : GoodAddition(l, p)'
  BY <1>1
<1> QED BY <1>3, <1>4 DEF AdditionsInv, Apart

\* A list adds its checked items to the Pantry once, under an event of its own,
\* and history and list agree ever after: neither another completion nor an
\* edit, a deletion, an undoing or a manual change parts them
\* (full_services.py:674-742).
THEOREM PurchasesExact == GrocerySpec => []PurchasesAreTheItems
<1>1. GroceryInit => AdditionsInv
  BY DEF GroceryInit, AdditionsInv
<1>2. AdditionsInv => PurchasesAreTheItems
  <2> SUFFICES ASSUME AdditionsInv,
                      NEW l \in List, lists[l] # None, NEW p \in lists[l].additions
               PROVE  /\ lists[l].status = "completed"
                      /\ \A m \in {n \in List : lists[n] # None} :
                           \A q \in lists[m].additions :
                             m # l \/ q # p => q.event # p.event /\ q.items \cap p.items = {}
                      /\ p.items \subseteq ItemsOf(l)
                      /\ ChangedBy(p.event) = {items[it].ingredient : it \in p.items}
                      /\ \A i \in ChangedBy(p.event) :
                           ChangeOf(p.event, i).delta =
                             MapThenSumSet(LAMBDA it : items[it].quantity,
                                           {it \in p.items : items[it].ingredient = i})
    BY DEF PurchasesAreTheItems
  <2>1. GoodAddition(l, p)
    BY DEF AdditionsInv
  <2>2. \A m \in {n \in List : lists[n] # None} : \A q \in lists[m].additions :
          m # l \/ q # p => q.event # p.event /\ q.items \cap p.items = {}
    BY DEF AdditionsInv, Apart
  <2>3. ChangedBy(p.event) = {items[it].ingredient : it \in p.items}
    <3>1. \A i \in Ingredient : i \in ChangedBy(p.event) <=> Bought(p, i) # {}
      BY <2>1 DEF GoodAddition, ChangedBy, Occurs
    <3>2. /\ ChangedBy(p.event) \subseteq Ingredient
          /\ \A it \in p.items : items[it].ingredient \in Ingredient
      BY <2>1 DEF GoodAddition, ChangedBy
    <3> QED BY <3>1, <3>2 DEF Bought
  <2>4. ASSUME NEW i \in ChangedBy(p.event)
        PROVE  ChangeOf(p.event, i).delta =
                 MapThenSumSet(LAMBDA it : items[it].quantity,
                               {it \in p.items : items[it].ingredient = i})
    <3>1. i \in Ingredient /\ Occurs(ledger[i], p.event)
      BY DEF ChangedBy, Occurs
    <3>2. ChangeOf(p.event, i) = TheChange(ledger[i], p.event)
      BY DEF ChangeOf, TheChange
    <3>3. TheChange(ledger[i], p.event).delta = SumOf(items, Bought(p, i))
      BY <2>1, <3>1 DEF GoodAddition
    <3> QED BY <3>2, <3>3 DEF SumOf, Bought
  <2> QED BY <2>1, <2>2, <2>3, <2>4 DEF GoodAddition
<1> QED BY <1>1, <1>2, KitchenStart, KitchenTyped, ItemsStart, ItemsStep, AdditionsStep,
           PTL DEF GrocerySpec

=============================================================================
