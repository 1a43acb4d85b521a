---------------------------- MODULE ImportProofs ----------------------------
(***************************************************************************)
(* Proofs about Import, for any ids, names, global tables and device       *)
(* states.  Sound says what every table of a consistent database is like;  *)
(* Kept and MapOK relate what an open import has written to what was there *)
(* when it began, Left and Cleared do so for a teardown.  Together they    *)
(* are inductive, and the properties follow; AnswerInv, at the end,        *)
(* follows an import's items to their answers.                             *)
(***************************************************************************)
EXTENDS Import, FiniteSetTheorems, TLAPS

-----------------------------------------------------------------------------
(* What the tables are like.                                               *)

Fields == {"users", "profile", "categories", "ingredients", "stock", "recipes",
           "events", "basket", "lists"}

\* The rows of a table that u can refer to.
Sees(table, u) == {id \in DOMAIN table : table[id].owner \in {None, u}}

\* u sees no name twice.
OneOfEach(table) ==
    \A u \in User : \A a, b \in Sees(table, u) : table[a].name = table[b].name => a = b

OwnersIn(table, users) == \A id \in DOMAIN table : table[id].owner \in users \cup {None}

CategoriesOK(cats) == Table(cats, CategoryId, CategoryRow) /\ OneOfEach(cats)

IngredientsOK(ings, cats) ==
    /\ Table(ings, IngredientId, IngredientRow)
    /\ OneOfEach(ings)
    /\ \A i \in DOMAIN ings : ings[i].category \in Sees(cats, ings[i].owner)

StockOK(stock, ings, users) ==
    /\ Table(stock, User \X IngredientId, StockRow)
    /\ \A key \in DOMAIN stock : key[1] \in users /\ key[2] \in Sees(ings, key[1])

RecipesOK(rs, ings) ==
    /\ Table(rs, RecipeId, RecipeRow)
    /\ \A rc \in DOMAIN rs : DOMAIN rs[rc].parts \subseteq Sees(ings, rs[rc].owner)

\* What an event and a list refer to is their owner's or global.
EventRefers(row, evs, ings, rs) ==
    /\ DOMAIN row.changes \subseteq Sees(ings, row.owner)
    /\ row.recipe \in Sees(rs, row.owner) \cup {None}
    /\ row.reversalOf \in Own(evs, row.owner) \cup {None}

EventsOK(evs, ings, rs) ==
    /\ Table(evs, EventId, EventRow)
    /\ \A e \in DOMAIN evs : EventRefers(evs[e], evs, ings, rs)

ListRefers(row, ings, rs) ==
    /\ row.recipes \subseteq Sees(rs, row.owner) \cup {None}
    /\ row.items \subseteq Sees(ings, row.owner) \cup {None}

ListsOK(ls, ings, rs) ==
    /\ Table(ls, ListId, ListRow)
    /\ \A l \in DOMAIN ls : ListRefers(ls[l], ings, rs)

\* What is in a Basket can be cooked by its owner.
BasketOK(basket, rs, users) ==
    /\ basket \in [User -> Seq(Portion)]
    /\ \A u \in User : \A rc \in RecipesIn(basket[u]) :
         u \in users /\ rc \in Sees(rs, u) /\ rs[rc].published

Sound(d) ==
    /\ d = [f \in Fields |-> d[f]]
    /\ d.users \subseteq User
    /\ d.profile \in [User -> Profile]
    /\ CategoriesOK(d.categories) /\ OwnersIn(d.categories, d.users)
    /\ IngredientsOK(d.ingredients, d.categories) /\ OwnersIn(d.ingredients, d.users)
    /\ StockOK(d.stock, d.ingredients, d.users)
    /\ RecipesOK(d.recipes, d.ingredients) /\ OwnersIn(d.recipes, d.users)
    /\ EventsOK(d.events, d.ingredients, d.recipes) /\ OwnersIn(d.events, d.users)
    /\ BasketOK(d.basket, d.recipes, d.users)
    /\ ListsOK(d.lists, d.ingredients, d.recipes) /\ OwnersIn(d.lists, d.users)

-----------------------------------------------------------------------------
(* What an import has done so far.                                         *)

\* Rows of u have been added to old, and nothing else.
Adds(old, new, u) ==
    /\ \A id \in DOMAIN old : id \in DOMAIN new /\ new[id] = old[id]
    /\ \A id \in DOMAIN new : id \in DOMAIN old \/ new[id].owner = u

\* A row of stock that held nothing got a quantity, one without a setting got it.
Fills(old, new) ==
    /\ old.quantity \in {0, new.quantity}
    /\ \A a \in Setting : old.preference[a] \in {None, new.preference[a]}

StockKept(old, new, u) ==
    /\ \A key \in DOMAIN old :
         /\ key \in DOMAIN new
         /\ key[1] # u => new[key] = old[key]
         /\ key[1] = u => Fills(old[key], new[key])
    /\ \A key \in DOMAIN new : key[1] # u => key \in DOMAIN old

\* An import of u made d of the tables o.
Kept(o, d, u) ==
    /\ d.users = o.users
    /\ \A v \in User \ {u} : d.basket[v] = o.basket[v] /\ d.profile[v] = o.profile[v]
    /\ Adds(o.categories, d.categories, u) /\ Adds(o.ingredients, d.ingredients, u)
    /\ Adds(o.recipes, d.recipes, u) /\ Adds(o.events, d.events, u)
    /\ Adds(o.lists, d.lists, u)
    /\ StockKept(o.stock, d.stock, u)
    /\ o.basket[u] \in {<<>>, d.basket[u]}
    /\ o.profile[u] \in {DefaultProfile, d.profile[u]}
    /\ Own(o.lists, u) # {} => d.lists = o.lists

\* What a local id can be mapped to: events and lists are new ones.
Known(o, d, u) ==
    Sees(d.categories, u) \cup Sees(d.ingredients, u) \cup Sees(d.recipes, u)
      \cup (Own(d.events, u) \ DOMAIN o.events) \cup Own(d.lists, u)

MapOK(map, o, d, u) ==
    DOMAIN map \subseteq LocalId /\ \A l \in DOMAIN map : map[l] \in Known(o, d, u)

\* What is left to do of the state s.
WorkItem(s) ==
    [kind: {"category"}, raw: ToSet(s.categories)]
      \cup [kind: {"ingredient"}, raw: ToSet(s.ingredients)]
      \cup [kind: {"profile"}, raw: ToSet(s.profile)]
      \cup [kind: {"balance"}, raw: s.tracked]
      \cup [kind: {"recipe"}, raw: ToSet(s.recipes)]
      \cup [kind: {"event"}, raw: ToSet(s.activity)]
      \cup [kind: {"reversal"}, raw: ToSet(s.activity)]
      \cup [kind: {"basket"}, raw: ToSet(s.basket)]
      \cup [kind: {"list"}, raw: ToSet(s.lists)]

TxFields == {"op", "user", "state", "todo", "map", "conflicts", "db"}

ImportOK(t, o) ==
    /\ t.state \in DeviceState
    /\ t.todo \in Seq(WorkItem(t.state))
    /\ Kept(o, t.db, t.user)
    /\ MapOK(t.map, o, t.db, t.user)

-----------------------------------------------------------------------------
(* What a teardown has done so far.                                        *)

\* Rows of u are gone from old, or changed, and no others.
Loses(old, new, u) ==
    /\ \A id \in DOMAIN old : old[id].owner # u => id \in DOMAIN new /\ new[id] = old[id]
    /\ \A id \in DOMAIN new : id \in DOMAIN old /\ new[id].owner = old[id].owner

\* A teardown of u made d of the tables o.
Left(o, d, u) ==
    /\ d.users \in {o.users, o.users \ {u}}
    /\ \A v \in User \ {u} : d.basket[v] = o.basket[v] /\ d.profile[v] = o.profile[v]
    /\ Loses(o.categories, d.categories, u) /\ Loses(o.ingredients, d.ingredients, u)
    /\ Loses(o.recipes, d.recipes, u) /\ Loses(o.events, d.events, u)
    /\ Loses(o.lists, d.lists, u)
    /\ \A key \in DOMAIN o.stock \cup DOMAIN d.stock : key[1] # u =>
         key \in DOMAIN o.stock \cap DOMAIN d.stock /\ d.stock[key] = o.stock[key]

\* What the first n statements have cleared.
Cleared(n, o, d, u) ==
    /\ n >= 1 => Own(d.lists, u) = {}
    /\ n >= 2 => d.basket[u] = <<>>
    /\ n >= 3 => \A e \in Own(d.events, u) : DOMAIN d.events[e].changes = {}
    /\ n >= 4 => \A e \in Own(d.events, u) : d.events[e].reversalOf = None
    /\ n >= 5 => Own(d.events, u) = {}
    /\ n >= 6 => \A key \in DOMAIN d.stock : key[1] # u
    /\ n >= 7 => Own(d.recipes, u) = {}
    /\ n >= 8 => Own(d.ingredients, u) = {}
    /\ n >= 9 => Own(d.categories, u) = {}
    /\ d.users = IF n >= 10 THEN o.users \ {u} ELSE o.users

DeleteOK(t, o) ==
    /\ t.map = <<>>
    /\ Left(o, t.db, t.user)
    /\ \E n \in 0 .. 10 :
         /\ t.todo = [k \in 1 .. 10 - n |-> [kind |-> "delete", raw |-> TeardownOrder[k + n]]]
         /\ Cleared(n, o, t.db, t.user)

ImportInv ==
    /\ Sound(db)
    /\ tx # None => /\ tx = [f \in TxFields |-> tx[f]]
                    /\ tx.user \in db.users
                    /\ Sound(tx.db)
                    /\ \/ tx.op = "import" /\ ImportOK(tx, db)
                       \/ tx.op = "delete" /\ DeleteOK(tx, db)
    /\ last \in [User -> DeviceState \cup {None}]
    /\ imports \in 0 .. MaxImports

-----------------------------------------------------------------------------
(* Tables.                                                                 *)

\* The row of a table has its type, and so has a table with one more.
LEMMA WithTyped ==
  ASSUME NEW t, NEW ids, NEW rows, Table(t, ids, rows), NEW id \in ids, NEW row \in rows
  PROVE  Table(With(t, id, row), ids, rows)
  BY DEF With, Table

\* n has the rows of t, for whoever may see them.
Grown(t, n) == \A x \in DOMAIN t : x \in DOMAIN n /\ n[x] = t[x]

LEMMA WithGrown ==
  ASSUME NEW t, NEW id, NEW row, id \notin DOMAIN t
  PROVE  Grown(t, With(t, id, row))
  BY DEF With, Grown

LEMMA GrownSeen ==
  ASSUME NEW t, NEW n, Grown(t, n), NEW u
  PROVE  Sees(t, u) \subseteq Sees(n, u) /\ Own(t, u) \subseteq Own(n, u)
  BY DEF Grown, Sees, Own

LEMMA WithAdds ==
  ASSUME NEW o, NEW t, NEW u, Adds(o, t, u), NEW id, id \notin DOMAIN t,
         NEW row, row.owner = u
  PROVE  Adds(o, With(t, id, row), u)
  BY DEF With, Adds

\* u sees the row it adds, and nobody else does; u in User, thus no global one.
LEMMA WithSees ==
  ASSUME NEW t, NEW id, id \notin DOMAIN t, NEW row, NEW u \in User, row.owner = u
  PROVE  /\ Sees(With(t, id, row), u) = Sees(t, u) \cup {id}
         /\ Own(With(t, id, row), u) = Own(t, u) \cup {id}
         /\ \A v \in Owner \ {u} : /\ Sees(With(t, id, row), v) = Sees(t, v)
                                   /\ Own(With(t, id, row), v) = Own(t, v)
  <1>1. u # None
    BY ImportAssumption
  <1> QED BY <1>1 DEF With, Sees, Own, Owner

LEMMA WithOwners ==
  ASSUME NEW t, NEW users, OwnersIn(t, users), NEW id, NEW row, row.owner \in users
  PROVE  OwnersIn(With(t, id, row), users)
  BY DEF With, OwnersIn

\* A name that u does not see yet is no second one to anybody.
LEMMA WithOneOfEach ==
  ASSUME NEW t, OneOfEach(t), NEW id, id \notin DOMAIN t, NEW u \in User,
         NEW row, row.owner = u, Named(t, u, row.name) = {}
  PROVE  OneOfEach(With(t, id, row))
  <1> DEFINE n == With(t, id, row)
  <1>1. \A a \in Sees(t, u) : t[a].name # row.name
    BY DEF Sees, Named
  <1>2. /\ n[id] = row
        /\ \A v \in User : \A a \in Sees(t, v) : n[a] = t[a]
    BY DEF With, Sees
  <1>3. /\ Sees(n, u) = Sees(t, u) \cup {id}
        /\ \A v \in User \ {u} : Sees(n, v) = Sees(t, v)
    BY WithSees DEF Owner
  <1> HIDE DEF n
  <1> SUFFICES ASSUME NEW v \in User, NEW a \in Sees(n, v), NEW b \in Sees(n, v),
                      n[a].name = n[b].name
               PROVE  a = b
    BY DEF OneOfEach, n
  <1>4. CASE v = u
    BY <1>1, <1>2, <1>3, <1>4 DEF OneOfEach
  <1>5. CASE v # u
    BY <1>2, <1>3, <1>5 DEF OneOfEach
  <1> QED BY <1>4, <1>5

\* A name without a match is one that u does not see.
LEMMA NoMatch ==
  ASSUME NEW t, NEW u, NEW n, Matches(t, u, n) = {}
  PROVE  Named(t, u, n) = {}
  BY DEF Matches

LEMMA MatchSeen ==
  ASSUME NEW t, NEW u, NEW n, NEW id \in Matches(t, u, n)
  PROVE  id \in Sees(t, u)
  BY DEF Matches, Named, Sees

LEMMA NewIdFacts ==
  ASSUME NEW local, NEW ids, NEW t, NEW id \in NewId(local, ids, t)
  PROVE  id \in ids /\ id \notin DOMAIN t
  <1>1. CASE local \in ids
    BY <1>1 DEF NewId
  <1>2. CASE local \notin ids
    <2> DEFINE free == ids \ (DOMAIN t \cup LocalId)
    <2>1. free # {} /\ id = CHOOSE x \in free : TRUE
      BY <1>2 DEF NewId
    <2>2. id \in free
      BY <2>1
    <2> QED BY <2>2
  <1> QED BY <1>1, <1>2

-----------------------------------------------------------------------------
(* What a table refers to may grow, and may lose what it does not refer to. *)

LEMMA IngredientsOver ==
  ASSUME NEW ings, NEW cats, NEW cats2, IngredientsOK(ings, cats),
         \A i \in DOMAIN ings : Sees(cats, ings[i].owner) \subseteq Sees(cats2, ings[i].owner)
  PROVE  IngredientsOK(ings, cats2)
  BY DEF IngredientsOK

LEMMA StockOver ==
  ASSUME NEW stock, NEW ings, NEW ings2, NEW users, StockOK(stock, ings, users),
         \A key \in DOMAIN stock : Sees(ings, key[1]) \subseteq Sees(ings2, key[1])
  PROVE  StockOK(stock, ings2, users)
  BY DEF StockOK

LEMMA RecipesOver ==
  ASSUME NEW rs, NEW ings, NEW ings2, RecipesOK(rs, ings),
         \A rc \in DOMAIN rs : Sees(ings, rs[rc].owner) \subseteq Sees(ings2, rs[rc].owner)
  PROVE  RecipesOK(rs, ings2)
  BY DEF RecipesOK

LEMMA EventsOver ==
  ASSUME NEW evs, NEW ings, NEW ings2, NEW rs, NEW rs2, EventsOK(evs, ings, rs),
         \A e \in DOMAIN evs : /\ Sees(ings, evs[e].owner) \subseteq Sees(ings2, evs[e].owner)
                               /\ Sees(rs, evs[e].owner) \subseteq Sees(rs2, evs[e].owner)
  PROVE  EventsOK(evs, ings2, rs2)
  BY DEF EventsOK, EventRefers

LEMMA ListsOver ==
  ASSUME NEW ls, NEW ings, NEW ings2, NEW rs, NEW rs2, ListsOK(ls, ings, rs),
         \A l \in DOMAIN ls : /\ Sees(ings, ls[l].owner) \subseteq Sees(ings2, ls[l].owner)
                              /\ Sees(rs, ls[l].owner) \subseteq Sees(rs2, ls[l].owner)
  PROVE  ListsOK(ls, ings2, rs2)
  BY DEF ListsOK, ListRefers

LEMMA BasketOver ==
  ASSUME NEW basket, NEW rs, NEW rs2, NEW users, BasketOK(basket, rs, users),
         Grown(rs, rs2)
  PROVE  BasketOK(basket, rs2, users)
  <1> SUFFICES ASSUME NEW u \in User, NEW rc \in RecipesIn(basket[u])
               PROVE  u \in users /\ rc \in Sees(rs2, u) /\ rs2[rc].published
    BY DEF BasketOK
  <1>1. u \in users /\ rc \in Sees(rs, u) /\ rs[rc].published
    BY DEF BasketOK
  <1>2. rc \in Sees(rs2, u) /\ rs2[rc] = rs[rc]
    BY <1>1, GrownSeen DEF Grown, Sees
  <1> QED BY <1>1, <1>2

-----------------------------------------------------------------------------
(* An open import.                                                         *)

Shaped(d) == d = [f \in Fields |-> d[f]]

Importing ==
    /\ Sound(db)
    /\ tx # None /\ tx = [f \in TxFields |-> tx[f]]
    /\ tx.user \in db.users
    /\ Sound(tx.db)
    /\ tx.op = "import" /\ ImportOK(tx, db)

\* The map m and the tables d are such as an import may go on with.
Imported(m, d) ==
    Sound(d) /\ Kept(db, d, tx.user) /\ MapOK(m, db, d, tx.user)

LEMMA UserFacts ==
  ASSUME Importing
  PROVE  /\ tx.user \in User /\ tx.user \in Owner /\ tx.user # None
         /\ tx.db.users = db.users /\ tx.user \in tx.db.users
  BY ImportAssumption DEF Importing, Sound, Owner, ImportOK, Kept

LEMMA ToSetIn ==
  ASSUME NEW R, NEW s \in Seq(R), NEW x \in ToSet(s)
  PROVE  x \in R
  BY DEF ToSet

\* The item at the head of what is left to do is one of its kind.
LEMMA HeadItem ==
  ASSUME Importing, NEW kind, Doing(kind)
  PROVE  LET s == tx.state
         IN  /\ Head(tx.todo).kind = kind /\ Head(tx.todo) \in WorkItem(s)
             /\ s \in DeviceState
             /\ Tail(tx.todo) \in Seq(WorkItem(s))
  <1>1. tx.todo \in Seq(WorkItem(tx.state)) /\ tx.todo # <<>>
    BY DEF Importing, ImportOK, Doing
  <1> DEFINE W == WorkItem(tx.state)
  <1>2. /\ Head(tx.todo).kind = kind /\ tx.state \in DeviceState
    BY DEF Doing, Importing, ImportOK
  <1>3. Head(tx.todo) \in W /\ Tail(tx.todo) \in Seq(W)
    <2> HIDE DEF W
    <2>1. tx.todo \in Seq(W) /\ tx.todo # <<>>
      BY <1>1 DEF W
    <2> QED BY <2>1
  <1> QED BY <1>2, <1>3

LEMMA RawCategory ==
  ASSUME Importing, Doing("category")
  PROVE  Raw.id \in LocalId /\ Raw.name \in Name
  <1> DEFINE R == [id: LocalId, name: Name, global: BOOLEAN]
  <1>1. Raw \in ToSet(tx.state.categories)
    BY HeadItem DEF WorkItem, Raw
  <1>2. tx.state.categories \in Seq(R)
    BY HeadItem, DeviceAssumption
  <1>3. Raw \in R
    BY <1>1, <1>2, ToSetIn
  <1> QED BY <1>3

LEMMA RawIngredient ==
  ASSUME Importing, Doing("ingredient")
  PROVE  Raw.id \in LocalId /\ Raw.name \in Name /\ Raw.family \in Family
  <1> DEFINE R == [id: LocalId, name: Name, category: LocalId, family: Family,
                                         global: BOOLEAN]
  <1>1. Raw \in ToSet(tx.state.ingredients)
    BY HeadItem DEF WorkItem, Raw
  <1>2. tx.state.ingredients \in Seq(R)
    BY HeadItem, DeviceAssumption
  <1>3. Raw \in R
    BY <1>1, <1>2, ToSetIn
  <1> QED BY <1>3

LEMMA RawProfile ==
  ASSUME Importing, Doing("profile")
  PROVE  Raw \in Profile
  <1>1. Raw \in ToSet(tx.state.profile)
    BY HeadItem DEF WorkItem, Raw
  <1> QED BY <1>1, HeadItem, ToSetIn, DeviceAssumption

LEMMA RawRecipe ==
  ASSUME Importing, Doing("recipe")
  PROVE  /\ Raw.id \in LocalId /\ Raw.name \in Name /\ Raw.published \in BOOLEAN
         /\ Raw.parts \in Seq([ingredient: LocalId, quantity: Quantity \cup {None}])
  <1> DEFINE R == [id: LocalId, name: Name, global: BOOLEAN, published: BOOLEAN,
                    parts: Seq([ingredient: LocalId, quantity: Quantity \cup {None}])]
  <1>1. Raw \in ToSet(tx.state.recipes)
    BY HeadItem DEF WorkItem, Raw
  <1>2. tx.state.recipes \in Seq(R)
    BY HeadItem, DeviceAssumption
  <1>3. Raw \in R
    BY <1>1, <1>2, ToSetIn
  <1> QED BY <1>3

LEMMA RawEvent ==
  ASSUME Importing, Doing("event") \/ Doing("reversal")
  PROVE  /\ Raw.id \in LocalId /\ Raw.type \in {"manual", "cooking", "reversal"}
         /\ Raw.reversed \in BOOLEAN
         /\ Raw.changes \in Seq([ingredient: LocalId, delta: Quantity])
  <1> DEFINE R == [id: LocalId, type: {"manual", "cooking", "reversal"},
                    recipe: LocalId \cup {None},
                    changes: Seq([ingredient: LocalId, delta: Quantity]),
                    reversalOf: LocalId \cup {None}, reversed: BOOLEAN]
  <1>1. Raw \in ToSet(tx.state.activity)
    BY HeadItem DEF WorkItem, Raw
  <1>2. tx.state.activity \in Seq(R)
    BY HeadItem, DeviceAssumption
  <1>3. Raw \in R
    BY <1>1, <1>2, ToSetIn
  <1> QED BY <1>3

LEMMA RawList ==
  ASSUME Importing, Doing("list")
  PROVE  Raw.id \in LocalId
  <1> DEFINE R == [id: LocalId, status: STRING, recipes: Seq(LocalId),
                    items: Seq(LocalId \cup {None})]
  <1>1. Raw \in ToSet(tx.state.lists)
    BY HeadItem DEF WorkItem, Raw
  <1>2. tx.state.lists \in Seq(R)
    BY HeadItem, DeviceAssumption
  <1>3. Raw \in R
    BY <1>1, <1>2, ToSetIn
  <1> QED BY <1>3

\* The import goes on, or is ready for its commit.
GoesOn ==
    /\ db' = db /\ last' = last /\ imports' = imports
    /\ tx' = [f \in TxFields |-> tx'[f]] /\ tx'.user = tx.user /\ Sound(tx'.db)
    /\ tx'.op = "import" /\ ImportOK(tx', db)

\* It does after a turn with such a map and such tables.
LEMMA TurnTaken ==
  ASSUME Importing, NEW kind, Doing(kind), NEW m, NEW d, NEW cs, Turn(m, d, cs),
         Imported(m, d)
  PROVE  GoesOn
  <1>1. /\ tx' = [f \in TxFields |-> tx'[f]]
        /\ tx'.op = tx.op /\ tx'.user = tx.user /\ tx'.state = tx.state
        /\ tx'.todo = Tail(tx.todo) /\ tx'.map = m /\ tx'.db = d
    BY DEF TxFields, Turn, Importing
  <1> QED BY <1>1, HeadItem DEF Imported, Importing, ImportOK, Turn, GoesOn

\* Ids of rows of different tables differ, so a mapped id that names a row of
\* a table is one that the account sees there.
LEMMA MappedSeen ==
  ASSUME Importing, NEW l, IsMapped(l)
  PROVE  LET d == tx.db u == tx.user id == tx.map[l]
         IN  /\ id \in DOMAIN d.categories => id \in Sees(d.categories, u)
             /\ id \in DOMAIN d.ingredients => id \in Sees(d.ingredients, u)
             /\ id \in DOMAIN d.recipes => id \in Sees(d.recipes, u)
             /\ id \in DOMAIN d.events => id \in Own(d.events, u) \ DOMAIN db.events
  <1> DEFINE d == tx.db
             id == tx.map[l]
  <1>1. id \in Known(db, d, tx.user)
    BY DEF Importing, ImportOK, MapOK, IsMapped
  <1>2. /\ DOMAIN d.categories \subseteq CategoryId /\ DOMAIN d.ingredients \subseteq IngredientId
        /\ DOMAIN d.recipes \subseteq RecipeId /\ DOMAIN d.events \subseteq EventId
        /\ DOMAIN d.lists \subseteq ListId
    BY DEF Importing, Sound, CategoriesOK, IngredientsOK, RecipesOK, EventsOK, ListsOK, Table
  <1> HIDE DEF d, id
  <1>3. \/ id \in Sees(d.categories, tx.user) /\ id \in CategoryId
        \/ id \in Sees(d.ingredients, tx.user) /\ id \in IngredientId
        \/ id \in Sees(d.recipes, tx.user) /\ id \in RecipeId
        \/ id \in Own(d.events, tx.user) \ DOMAIN db.events /\ id \in EventId
        \/ id \in Own(d.lists, tx.user) /\ id \in ListId
    BY <1>1, <1>2 DEF Known, Sees, Own
  <1>4. /\ id \in DOMAIN d.categories => id \in Sees(d.categories, tx.user)
        /\ id \in DOMAIN d.ingredients => id \in Sees(d.ingredients, tx.user)
        /\ id \in DOMAIN d.recipes => id \in Sees(d.recipes, tx.user)
        /\ id \in DOMAIN d.events => id \in Own(d.events, tx.user) \ DOMAIN db.events
    BY <1>2, <1>3, ApartAssumption
  <1> QED BY <1>4 DEF d, id

\* Nothing that a local id may be mapped to goes.
KnownGrows(d, d2, u) ==
    /\ Sees(d.categories, u) \subseteq Sees(d2.categories, u)
    /\ Sees(d.ingredients, u) \subseteq Sees(d2.ingredients, u)
    /\ Sees(d.recipes, u) \subseteq Sees(d2.recipes, u)
    /\ Own(d.events, u) \subseteq Own(d2.events, u)
    /\ Own(d.lists, u) \subseteq Own(d2.lists, u)

LEMMA MapKept ==
  ASSUME NEW m, NEW o, NEW d, NEW d2, NEW u, MapOK(m, o, d, u), KnownGrows(d, d2, u)
  PROVE  MapOK(m, o, d2, u)
  BY DEF MapOK, Known, KnownGrows

LEMMA MapMore ==
  ASSUME NEW m, NEW o, NEW d, NEW u, MapOK(m, o, d, u), NEW l \in LocalId,
         NEW id \in Known(o, d, u)
  PROVE  MapOK(With(m, l, id), o, d, u)
  BY DEF MapOK, With

-----------------------------------------------------------------------------
(* Rows that an import adds.                                               *)

\* d is as good as tx.db to go on with, and id a row of it that may be mapped.
Better(d) ==
    Sound(d) /\ Kept(db, d, tx.user) /\ KnownGrows(tx.db, d, tx.user)

LEMMA BetterKept ==
  ASSUME Importing, NEW d, Better(d)
  PROVE  Imported(tx.map, d)
  BY MapKept DEF Importing, ImportOK, Better, Imported

LEMMA BetterMapped ==
  ASSUME Importing, NEW d, Better(d), NEW l \in LocalId, NEW id \in Known(db, d, tx.user)
  PROVE  Imported(With(tx.map, l, id), d)
  BY BetterKept, MapMore DEF Imported

LEMMA BetterThanNothing ==
  ASSUME Importing
  PROVE  Better(tx.db)
  BY DEF Importing, ImportOK, Better, KnownGrows

\* The four ways in which a turn ends.
LEMMA MappedGoesOn ==
  ASSUME Importing, NEW kind, Doing(kind), NEW l \in LocalId,
         NEW id \in Known(db, tx.db, tx.user), Mapped(l, id)
  PROVE  GoesOn
  <1>1. Imported(With(tx.map, l, id), tx.db)
    BY BetterThanNothing, BetterMapped
  <1>2. Turn(With(tx.map, l, id), tx.db, {})
    BY DEF Mapped
  <1> QED BY <1>1, <1>2, TurnTaken

LEMMA ConflictGoesOn ==
  ASSUME Importing, NEW kind, Doing(kind), NEW what, NEW l, Conflict(what, l)
  PROVE  GoesOn
  <1>1. Imported(tx.map, tx.db)
    BY BetterThanNothing, BetterKept
  <1>2. Turn(tx.map, tx.db, {<<what, l>>})
    BY DEF Conflict
  <1> QED BY <1>1, <1>2, TurnTaken

LEMMA WrittenGoesOn ==
  ASSUME Importing, NEW kind, Doing(kind), NEW l \in LocalId, NEW d, Better(d),
         NEW id \in Known(db, d, tx.user), Written(l, id, d)
  PROVE  GoesOn
  <1>1. Imported(With(tx.map, l, id), d)
    BY BetterMapped
  <1>2. Turn(With(tx.map, l, id), d, {})
    BY DEF Written
  <1> QED BY <1>1, <1>2, TurnTaken

LEMMA DoneGoesOn ==
  ASSUME Importing, NEW kind, Doing(kind), NEW d, Better(d), Done(d)
  PROVE  GoesOn
  <1>1. Imported(tx.map, d)
    BY BetterKept
  <1>2. Turn(tx.map, d, {})
    BY DEF Done
  <1> QED BY <1>1, <1>2, TurnTaken

LEMMA CategoryAdded ==
  ASSUME Importing, NEW id \in CategoryId, id \notin DOMAIN tx.db.categories,
         NEW row \in CategoryRow, row.owner = tx.user,
         Named(tx.db.categories, tx.user, row.name) = {},
         NEW d, d = [tx.db EXCEPT !.categories = With(@, id, row)]
  PROVE  Better(d) /\ id \in Known(db, d, tx.user)
  <1> DEFINE old == tx.db
             u == tx.user
             cats == With(old.categories, id, row)
  <1>1. /\ Shaped(d) /\ d.categories = cats
        /\ d.users = old.users /\ d.profile = old.profile /\ d.ingredients = old.ingredients
        /\ d.stock = old.stock /\ d.recipes = old.recipes /\ d.events = old.events
        /\ d.basket = old.basket /\ d.lists = old.lists
    <2>1. old = [f \in Fields |-> old[f]]
      BY DEF Importing, Sound
    <2> QED BY <2>1 DEF Shaped, Fields
  <1>2. Sound(old) /\ Kept(db, old, u)
    BY DEF Importing, ImportOK
  <1>3. u \in User /\ u \in old.users
    BY UserFacts
  <1>4. Grown(old.categories, cats)
    BY WithGrown
  <1>5. Sees(cats, u) = Sees(old.categories, u) \cup {id}
    BY <1>3 DEF With, Sees
  <1>6. CategoriesOK(cats) /\ OwnersIn(cats, old.users)
    BY <1>2, <1>3, WithTyped, WithOneOfEach, WithOwners DEF Sound, CategoriesOK
  <1>7. IngredientsOK(old.ingredients, cats)
    BY <1>2, <1>4, GrownSeen, IngredientsOver DEF Sound
  <1>8. Adds(db.categories, cats, u)
    BY <1>2, WithAdds DEF Kept
  <1> HIDE DEF old, u, cats
  <1>9. Sound(d)
    BY <1>1, <1>2, <1>6, <1>7 DEF Sound, Shaped
  <1>10. Kept(db, d, u)
    BY <1>1, <1>2, <1>8 DEF Kept
  <1>11. KnownGrows(old, d, u) /\ id \in Known(db, d, u)
    BY <1>1, <1>5 DEF KnownGrows, Known
  <1> QED BY <1>9, <1>10, <1>11 DEF Better, old, u

LEMMA IngredientAdded ==
  ASSUME Importing, NEW id \in IngredientId, id \notin DOMAIN tx.db.ingredients,
         NEW row \in IngredientRow, row.owner = tx.user,
         row.category \in Sees(tx.db.categories, tx.user),
         Named(tx.db.ingredients, tx.user, row.name) = {},
         NEW d, d = [tx.db EXCEPT !.ingredients = With(@, id, row)]
  PROVE  Better(d) /\ id \in Known(db, d, tx.user)
  <1> DEFINE old == tx.db
             u == tx.user
             ings == With(old.ingredients, id, row)
  <1>1. /\ Shaped(d) /\ d.ingredients = ings
        /\ d.users = old.users /\ d.profile = old.profile /\ d.categories = old.categories
        /\ d.stock = old.stock /\ d.recipes = old.recipes /\ d.events = old.events
        /\ d.basket = old.basket /\ d.lists = old.lists
    <2>1. old = [f \in Fields |-> old[f]]
      BY DEF Importing, Sound
    <2> QED BY <2>1 DEF Shaped, Fields
  <1>2. Sound(old) /\ Kept(db, old, u)
    BY DEF Importing, ImportOK
  <1>3. u \in User /\ u \in old.users
    BY UserFacts
  <1>4. \A v : Sees(old.ingredients, v) \subseteq Sees(ings, v)
    BY WithGrown, GrownSeen
  <1>5. Sees(ings, u) = Sees(old.ingredients, u) \cup {id}
    BY <1>3 DEF With, Sees
  <1>6. IngredientsOK(ings, old.categories) /\ OwnersIn(ings, old.users)
    <2>1. Table(ings, IngredientId, IngredientRow) /\ OneOfEach(ings)
      BY <1>2, <1>3, WithTyped, WithOneOfEach DEF Sound, IngredientsOK
    <2>2. \A i \in DOMAIN ings : ings[i].category \in Sees(old.categories, ings[i].owner)
      BY <1>2 DEF Sound, IngredientsOK, With
    <2> QED BY <1>2, <1>3, <2>1, <2>2, WithOwners DEF Sound, IngredientsOK
  <1>7. /\ StockOK(old.stock, ings, old.users) /\ RecipesOK(old.recipes, ings)
        /\ EventsOK(old.events, ings, old.recipes) /\ ListsOK(old.lists, ings, old.recipes)
    <2> HIDE DEF ings
    <2> QED BY <1>2, <1>4, StockOver, RecipesOver, EventsOver, ListsOver DEF Sound
  <1>8. Adds(db.ingredients, ings, u)
    BY <1>2, WithAdds DEF Kept
  <1> HIDE DEF old, u, ings
  <1>9. Sound(d)
    BY <1>1, <1>2, <1>6, <1>7 DEF Sound, Shaped
  <1>10. Kept(db, d, u)
    BY <1>1, <1>2, <1>8 DEF Kept
  <1>11. KnownGrows(old, d, u) /\ id \in Known(db, d, u)
    BY <1>1, <1>5 DEF KnownGrows, Known
  <1> QED BY <1>9, <1>10, <1>11 DEF Better, old, u

LEMMA RecipeAdded ==
  ASSUME Importing, NEW id \in RecipeId, id \notin DOMAIN tx.db.recipes,
         NEW row \in RecipeRow, row.owner = tx.user,
         DOMAIN row.parts \subseteq Sees(tx.db.ingredients, tx.user),
         NEW d, d = [tx.db EXCEPT !.recipes = With(@, id, row)]
  PROVE  Better(d) /\ id \in Known(db, d, tx.user)
  <1> DEFINE old == tx.db
             u == tx.user
             rs == With(old.recipes, id, row)
  <1>1. /\ Shaped(d) /\ d.recipes = rs
        /\ d.users = old.users /\ d.profile = old.profile /\ d.categories = old.categories
        /\ d.ingredients = old.ingredients /\ d.stock = old.stock /\ d.events = old.events
        /\ d.basket = old.basket /\ d.lists = old.lists
    <2>1. old = [f \in Fields |-> old[f]]
      BY DEF Importing, Sound
    <2> QED BY <2>1 DEF Shaped, Fields
  <1>2. Sound(old) /\ Kept(db, old, u)
    BY DEF Importing, ImportOK
  <1>3. u \in User /\ u \in old.users
    BY UserFacts
  <1>4. Grown(old.recipes, rs) /\ \A v : Sees(old.recipes, v) \subseteq Sees(rs, v)
    BY WithGrown, GrownSeen
  <1>5. Sees(rs, u) = Sees(old.recipes, u) \cup {id}
    BY <1>3 DEF With, Sees
  <1>6. RecipesOK(rs, old.ingredients) /\ OwnersIn(rs, old.users)
    <2>1. Table(rs, RecipeId, RecipeRow)
      BY <1>2, WithTyped DEF Sound, RecipesOK
    <2>2. \A rc \in DOMAIN rs : DOMAIN rs[rc].parts \subseteq Sees(old.ingredients, rs[rc].owner)
      BY <1>2 DEF Sound, RecipesOK, With
    <2> QED BY <1>2, <1>3, <2>1, <2>2, WithOwners DEF Sound, RecipesOK
  <1>7. /\ EventsOK(old.events, old.ingredients, rs) /\ ListsOK(old.lists, old.ingredients, rs)
        /\ BasketOK(old.basket, rs, old.users)
    <2> HIDE DEF rs
    <2> QED BY <1>2, <1>4, EventsOver, ListsOver, BasketOver DEF Sound
  <1>8. Adds(db.recipes, rs, u)
    BY <1>2, WithAdds DEF Kept
  <1> HIDE DEF old, u, rs
  <1>9. Sound(d)
    BY <1>1, <1>2, <1>6, <1>7 DEF Sound, Shaped
  <1>10. Kept(db, d, u)
    BY <1>1, <1>2, <1>8 DEF Kept
  <1>11. KnownGrows(old, d, u) /\ id \in Known(db, d, u)
    BY <1>1, <1>5 DEF KnownGrows, Known
  <1> QED BY <1>9, <1>10, <1>11 DEF Better, old, u

\* An event that reverses nothing joins the others.
LEMMA EventsWith ==
  ASSUME NEW evs, NEW ings, NEW rs, EventsOK(evs, ings, rs),
         NEW id \in EventId, id \notin DOMAIN evs,
         NEW row \in EventRow, row.reversalOf = None,
         DOMAIN row.changes \subseteq Sees(ings, row.owner),
         row.recipe \in Sees(rs, row.owner) \cup {None}
  PROVE  EventsOK(With(evs, id, row), ings, rs)
  <1> DEFINE new == With(evs, id, row)
  <1>1. Table(new, EventId, EventRow)
    BY WithTyped DEF EventsOK
  <1>2. EventRefers(row, new, ings, rs)
    BY DEF EventRefers
  <1>3. \A v : Own(evs, v) \subseteq Own(new, v)
    BY WithGrown, GrownSeen
  <1>4. \A e \in DOMAIN evs : EventRefers(evs[e], new, ings, rs)
    <2> HIDE DEF new
    <2> QED BY <1>3 DEF EventsOK, EventRefers
  <1>5. \A e \in DOMAIN new : EventRefers(new[e], new, ings, rs)
    BY <1>2, <1>4 DEF With
  <1> QED BY <1>1, <1>5 DEF EventsOK

LEMMA EventAdded ==
  ASSUME Importing, NEW id \in EventId, id \notin DOMAIN tx.db.events,
         NEW row \in EventRow, row.owner = tx.user, row.reversalOf = None,
         DOMAIN row.changes \subseteq Sees(tx.db.ingredients, tx.user),
         row.recipe \in Sees(tx.db.recipes, tx.user) \cup {None},
         NEW d, d = [tx.db EXCEPT !.events = With(@, id, row)]
  PROVE  Better(d) /\ id \in Known(db, d, tx.user)
  <1> DEFINE old == tx.db
             u == tx.user
             evs == With(old.events, id, row)
  <1>1. /\ Shaped(d) /\ d.events = evs
        /\ d.users = old.users /\ d.profile = old.profile /\ d.categories = old.categories
        /\ d.ingredients = old.ingredients /\ d.stock = old.stock /\ d.recipes = old.recipes
        /\ d.basket = old.basket /\ d.lists = old.lists
    <2>1. old = [f \in Fields |-> old[f]]
      BY DEF Importing, Sound
    <2> QED BY <2>1 DEF Shaped, Fields
  <1>2. Sound(old) /\ Kept(db, old, u)
    BY DEF Importing, ImportOK
  <1>3. u \in User /\ u \in old.users
    BY UserFacts
  <1>5. Own(evs, u) = Own(old.events, u) \cup {id}
    BY <1>3 DEF With, Own
  <1>6. EventsOK(evs, old.ingredients, old.recipes) /\ OwnersIn(evs, old.users)
    BY <1>2, <1>3, EventsWith, WithOwners DEF Sound
  <1>8. Adds(db.events, evs, u)
    BY <1>2, WithAdds DEF Kept
  <1>9. id \notin DOMAIN db.events
    BY <1>2 DEF Kept, Adds
  <1> HIDE DEF old, u, evs
  <1>10. Sound(d)
    BY <1>1, <1>2, <1>6 DEF Sound, Shaped
  <1>11. Kept(db, d, u)
    BY <1>1, <1>2, <1>8 DEF Kept
  <1>12. KnownGrows(old, d, u) /\ id \in Known(db, d, u)
    BY <1>1, <1>5, <1>9 DEF KnownGrows, Known
  <1> QED BY <1>10, <1>11, <1>12 DEF Better, old, u

LEMMA ListAdded ==
  ASSUME Importing, Own(db.lists, tx.user) = {},
         NEW id \in ListId, id \notin DOMAIN tx.db.lists,
         NEW row \in ListRow, row.owner = tx.user,
         ListRefers(row, tx.db.ingredients, tx.db.recipes),
         NEW d, d = [tx.db EXCEPT !.lists = With(@, id, row)]
  PROVE  Better(d) /\ id \in Known(db, d, tx.user)
  <1> DEFINE old == tx.db
             u == tx.user
             ls == With(old.lists, id, row)
  <1>1. /\ Shaped(d) /\ d.lists = ls
        /\ d.users = old.users /\ d.profile = old.profile /\ d.categories = old.categories
        /\ d.ingredients = old.ingredients /\ d.stock = old.stock /\ d.recipes = old.recipes
        /\ d.basket = old.basket /\ d.events = old.events
    <2>1. old = [f \in Fields |-> old[f]]
      BY DEF Importing, Sound
    <2> QED BY <2>1 DEF Shaped, Fields
  <1>2. Sound(old) /\ Kept(db, old, u)
    BY DEF Importing, ImportOK
  <1>3. u \in User /\ u \in old.users
    BY UserFacts
  <1>5. Own(ls, u) = Own(old.lists, u) \cup {id}
    BY <1>3 DEF With, Own
  <1>6. ListsOK(ls, old.ingredients, old.recipes) /\ OwnersIn(ls, old.users)
    <2>1. Table(ls, ListId, ListRow)
      BY <1>2, WithTyped DEF Sound, ListsOK
    <2>2. \A l \in DOMAIN ls : ListRefers(ls[l], old.ingredients, old.recipes)
      BY <1>2 DEF Sound, ListsOK, With
    <2> QED BY <1>2, <1>3, <2>1, <2>2, WithOwners DEF Sound, ListsOK
  <1>8. Adds(db.lists, ls, u)
    BY <1>2, WithAdds DEF Kept
  <1> HIDE DEF old, u, ls
  <1>10. Sound(d)
    BY <1>1, <1>2, <1>6 DEF Sound, Shaped
  <1>11. Kept(db, d, u)
    BY <1>1, <1>2, <1>8 DEF Kept, u
  <1>12. KnownGrows(old, d, u) /\ id \in Known(db, d, u)
    BY <1>1, <1>5 DEF KnownGrows, Known
  <1> QED BY <1>10, <1>11, <1>12 DEF Better, old, u

-----------------------------------------------------------------------------
(* Rows that an import changes.                                            *)

LEMMA FillsTwice ==
  ASSUME NEW a, NEW b, NEW c, Fills(a, b), Fills(b, c)
  PROVE  Fills(a, c)
  BY DEF Fills

LEMMA StockWith ==
  ASSUME NEW stock, NEW ings, NEW users, StockOK(stock, ings, users), NEW u \in User,
         u \in users, NEW i \in IngredientId, i \in Sees(ings, u), NEW row \in StockRow
  PROVE  StockOK(With(stock, <<u, i>>, row), ings, users)
  <1> DEFINE key == <<u, i>>
             new == With(stock, key, row)
  <1>1. key \in User \X IngredientId /\ key[1] = u /\ key[2] = i
    OBVIOUS
  <1>2. Table(new, User \X IngredientId, StockRow)
    BY <1>1, WithTyped DEF StockOK
  <1>3. \A k \in DOMAIN new : k[1] \in users /\ k[2] \in Sees(ings, k[1])
    BY <1>1 DEF StockOK, With
  <1> QED BY <1>2, <1>3 DEF StockOK

LEMMA StockFilled ==
  ASSUME Importing, NEW i \in Sees(tx.db.ingredients, tx.user), NEW row \in StockRow,
         NEW key, key = <<tx.user, i>>,
         key \in DOMAIN tx.db.stock => Fills(tx.db.stock[key], row),
         NEW d, d = [tx.db EXCEPT !.stock = With(@, key, row)]
  PROVE  Better(d)
  <1> DEFINE old == tx.db
             u == tx.user
             stock == With(old.stock, key, row)
  <1>1. /\ Shaped(d) /\ d.stock = stock
        /\ d.users = old.users /\ d.profile = old.profile /\ d.categories = old.categories
        /\ d.ingredients = old.ingredients /\ d.recipes = old.recipes
        /\ d.events = old.events /\ d.basket = old.basket /\ d.lists = old.lists
    <2>1. old = [f \in Fields |-> old[f]]
      BY DEF Importing, Sound
    <2> QED BY <2>1 DEF Shaped, Fields
  <1>2. Sound(old) /\ Kept(db, old, u)
    BY DEF Importing, ImportOK
  <1>3. u \in User /\ u \in old.users
    BY UserFacts
  <1>4. i \in IngredientId
    BY <1>2 DEF Sound, IngredientsOK, Table, Sees
  <1>5. key \in User \X IngredientId /\ key[1] = u /\ key[2] = i
    BY <1>3, <1>4
  <1>6. StockOK(stock, old.ingredients, old.users)
    <2>1. StockOK(With(old.stock, <<u, i>>, row), old.ingredients, old.users)
      <3>1. StockOK(old.stock, old.ingredients, old.users) /\ i \in Sees(old.ingredients, u)
        BY <1>2 DEF Sound
      <3> HIDE DEF old, u
      <3> QED BY <1>3, <1>4, <3>1, StockWith
    <2> QED BY <2>1
  <1>7. StockKept(db.stock, stock, u)
    <2>1. StockKept(db.stock, old.stock, u)
      BY <1>2 DEF Kept
    <2>2. DOMAIN stock = DOMAIN old.stock \cup {key} /\ stock[key] = row
          /\ \A k \in DOMAIN old.stock \ {key} : stock[k] = old.stock[k]
      BY DEF With
    <2> HIDE DEF stock
    <2>3. ASSUME NEW k \in DOMAIN db.stock
          PROVE  /\ k \in DOMAIN stock
                 /\ k[1] # u => stock[k] = db.stock[k]
                 /\ k[1] = u => Fills(db.stock[k], stock[k])
      <3>1. k \in DOMAIN old.stock
        BY <2>1 DEF StockKept
      <3>2. CASE k = key
        BY <1>5, <2>1, <2>2, <3>1, <3>2, FillsTwice DEF StockKept
      <3>3. CASE k # key
        BY <2>1, <2>2, <3>1, <3>3 DEF StockKept
      <3> QED BY <3>2, <3>3
    <2>4. \A k \in DOMAIN stock : k[1] # u => k \in DOMAIN db.stock
      BY <1>5, <2>1, <2>2 DEF StockKept
    <2> QED BY <2>3, <2>4 DEF StockKept
  <1> HIDE DEF old, u, stock
  <1>8. Sound(d)
    BY <1>1, <1>2, <1>6 DEF Sound, Shaped
  <1>9. Kept(db, d, u)
    BY <1>1, <1>2, <1>7 DEF Kept
  <1>10. KnownGrows(old, d, u)
    BY <1>1 DEF KnownGrows
  <1> QED BY <1>8, <1>9, <1>10 DEF Better, old, u

LEMMA ProfileReplaced ==
  ASSUME Importing, tx.db.profile[tx.user] = DefaultProfile, NEW p \in Profile,
         NEW d, d = [tx.db EXCEPT !.profile[tx.user] = p]
  PROVE  Better(d)
  <1> DEFINE old == tx.db
             u == tx.user
  <1>1. /\ Shaped(d) /\ d.profile = [old.profile EXCEPT ![u] = p]
        /\ d.users = old.users /\ d.stock = old.stock /\ d.categories = old.categories
        /\ d.ingredients = old.ingredients /\ d.recipes = old.recipes
        /\ d.events = old.events /\ d.basket = old.basket /\ d.lists = old.lists
    <2>1. old = [f \in Fields |-> old[f]]
      BY DEF Importing, Sound
    <2> QED BY <2>1 DEF Shaped, Fields
  <1>2. Sound(old) /\ Kept(db, old, u)
    BY DEF Importing, ImportOK
  <1>3. u \in User /\ old.profile[u] = DefaultProfile
    BY UserFacts
  <1> HIDE DEF old, u
  <1>4. d.profile \in [User -> Profile] /\ \A v \in User \ {u} : d.profile[v] = old.profile[v]
    <2>1. old.profile \in [User -> Profile]
      BY <1>2 DEF Sound
    <2> DEFINE f == old.profile
               g == [f EXCEPT ![u] = p]
    <2>2. g \in [User -> Profile] /\ \A v \in User \ {u} : g[v] = f[v]
      <3>1. f \in [User -> Profile] /\ p \in Profile /\ u \in User
        BY <1>3, <2>1
      <3> HIDE DEF f
      <3> QED BY <3>1
    <2> QED BY <1>1, <2>2
  <1>5. Sound(d)
    BY <1>1, <1>2, <1>4 DEF Sound, Shaped
  <1>6. db.profile[u] = DefaultProfile
    BY <1>2, <1>3 DEF Kept
  <1>7. Kept(db, d, u)
    BY <1>1, <1>2, <1>4, <1>6 DEF Kept
  <1>8. KnownGrows(old, d, u)
    BY <1>1 DEF KnownGrows
  <1> QED BY <1>5, <1>7, <1>8 DEF Better, old, u

LEMMA PortionAdded ==
  ASSUME Importing, db.basket[tx.user] = <<>>,
         NEW p \in Portion, p.recipe \in Sees(tx.db.recipes, tx.user),
         tx.db.recipes[p.recipe].published,
         NEW d, d = [tx.db EXCEPT !.basket[tx.user] = Append(tx.db.basket[tx.user], p)]
  PROVE  Better(d)
  <1> DEFINE old == tx.db
             u == tx.user
             b == Append(old.basket[u], p)
  <1>1. /\ Shaped(d) /\ d.basket = [old.basket EXCEPT ![u] = b]
        /\ d.users = old.users /\ d.stock = old.stock /\ d.categories = old.categories
        /\ d.ingredients = old.ingredients /\ d.recipes = old.recipes
        /\ d.events = old.events /\ d.profile = old.profile /\ d.lists = old.lists
    <2>1. old = [f \in Fields |-> old[f]]
      BY DEF Importing, Sound
    <2> QED BY <2>1 DEF Shaped, Fields
  <1>2. Sound(old) /\ Kept(db, old, u)
    BY DEF Importing, ImportOK
  <1>3. u \in User /\ u \in old.users /\ old.basket \in [User -> Seq(Portion)]
    BY <1>2, UserFacts DEF Sound, BasketOK
  <1>4. b \in Seq(Portion) /\ RecipesIn(b) = RecipesIn(old.basket[u]) \cup {p.recipe}
    <2>1. old.basket[u] \in Seq(Portion)
      BY <1>3
    <2> DEFINE s == old.basket[u]
    <2> HIDE DEF s
    <2>2. Append(s, p) \in Seq(Portion)
      BY <2>1 DEF s
    <2>3. /\ DOMAIN s = 1 .. Len(s) /\ DOMAIN Append(s, p) = 1 .. Len(s) + 1
          /\ Len(s) \in Nat /\ Append(s, p)[Len(s) + 1] = p
          /\ \A k \in 1 .. Len(s) : Append(s, p)[k] = s[k]
      <3>1. s \in Seq(Portion)
        BY <2>1 DEF s
      <3> QED BY <3>1
    <2> DEFINE t == Append(s, p)
    <2> HIDE DEF t
    <2>4. RecipesIn(t) \subseteq RecipesIn(s) \cup {p.recipe}
      BY <2>3 DEF RecipesIn, t
    <2>5. RecipesIn(s) \subseteq RecipesIn(t)
      BY <2>3 DEF RecipesIn, t
    <2>6. p.recipe \in RecipesIn(t)
      BY <2>3 DEF RecipesIn, t
    <2> QED BY <2>2, <2>4, <2>5, <2>6 DEF s, t
  <1>5. d.basket \in [User -> Seq(Portion)] /\ d.basket[u] = b
        /\ \A v \in User \ {u} : d.basket[v] = old.basket[v]
    BY <1>1, <1>3, <1>4
  <1>6. p.recipe \in Sees(old.recipes, u) /\ old.recipes[p.recipe].published
    OBVIOUS
  <1> HIDE DEF old, u, b
  <1>7. BasketOK(d.basket, old.recipes, old.users)
    BY <1>2, <1>3, <1>4, <1>5, <1>6 DEF Sound, BasketOK
  <1>8. Sound(d)
    BY <1>1, <1>2, <1>7 DEF Sound, Shaped
  <1>9. Kept(db, d, u)
    BY <1>1, <1>2, <1>5 DEF Kept, u
  <1>10. KnownGrows(old, d, u)
    BY <1>1 DEF KnownGrows
  <1> QED BY <1>8, <1>9, <1>10 DEF Better, old, u

\* Both events are the account's, and the one that changes is a new one.
LEMMA ReversalLinked ==
  ASSUME Importing, NEW e \in Own(tx.db.events, tx.user), e \notin DOMAIN db.events,
         NEW r \in Own(tx.db.events, tx.user),
         NEW d, d = [tx.db EXCEPT !.events[e].reversalOf = r]
  PROVE  Better(d)
  <1> DEFINE old == tx.db
             u == tx.user
             row == [old.events[e] EXCEPT !.reversalOf = r]
  <1>1. /\ Shaped(d) /\ d.events = [old.events EXCEPT ![e] = row]
        /\ d.users = old.users /\ d.stock = old.stock /\ d.categories = old.categories
        /\ d.ingredients = old.ingredients /\ d.recipes = old.recipes
        /\ d.basket = old.basket /\ d.profile = old.profile /\ d.lists = old.lists
    <2>1. old = [f \in Fields |-> old[f]]
      BY DEF Importing, Sound
    <2> QED BY <2>1 DEF Shaped, Fields
  <1>2. Sound(old) /\ Kept(db, old, u)
    BY DEF Importing, ImportOK
  <1>3. /\ e \in EventId /\ r \in EventId /\ e \in DOMAIN old.events
        /\ old.events[e] \in EventRow /\ old.events[e].owner = u
    BY <1>2 DEF Sound, EventsOK, Table, Own
  <1>4. /\ row \in EventRow /\ row.owner = u /\ row.reversalOf = r
        /\ row.changes = old.events[e].changes /\ row.recipe = old.events[e].recipe
    BY <1>3 DEF EventRow
  <1>5. /\ DOMAIN d.events = DOMAIN old.events /\ d.events[e] = row
        /\ \A x \in DOMAIN old.events \ {e} : d.events[x] = old.events[x]
    BY <1>1, <1>3
  <1>a. \A x \in DOMAIN old.events : d.events[x].owner = old.events[x].owner
    BY <1>3, <1>4, <1>5
  <1>6. r \in Own(old.events, u)
    OBVIOUS
  <1> HIDE DEF old, u, row
  <1>7. \A v : Own(d.events, v) = Own(old.events, v)
    BY <1>5, <1>a DEF Own
  <1>8. EventsOK(d.events, old.ingredients, old.recipes) /\ OwnersIn(d.events, old.users)
    <2>1. Table(d.events, EventId, EventRow)
      BY <1>2, <1>4, <1>5 DEF Sound, EventsOK, Table
    <2>2. ASSUME NEW x \in DOMAIN d.events
          PROVE  EventRefers(d.events[x], d.events, old.ingredients, old.recipes)
      <3>1. EventRefers(old.events[x], old.events, old.ingredients, old.recipes)
        BY <1>2, <1>5 DEF Sound, EventsOK
      <3>2. CASE x = e
        BY <1>3, <1>4, <1>5, <1>6, <1>7, <3>1, <3>2 DEF EventRefers
      <3>3. CASE x # e
        BY <1>5, <1>7, <3>1, <3>3 DEF EventRefers
      <3> QED BY <3>2, <3>3
    <2>3. OwnersIn(d.events, old.users)
      BY <1>2, <1>5, <1>a DEF Sound, OwnersIn
    <2> QED BY <2>1, <2>2, <2>3 DEF EventsOK
  <1>9. Adds(db.events, d.events, u)
    <2>1. Adds(db.events, old.events, u) /\ e \notin DOMAIN db.events
      BY <1>2 DEF Kept
    <2> QED BY <1>4, <1>5, <2>1 DEF Adds
  <1>10. Sound(d)
    BY <1>1, <1>2, <1>8 DEF Sound, Shaped
  <1>11. Kept(db, d, u)
    BY <1>1, <1>2, <1>9 DEF Kept
  <1>12. KnownGrows(old, d, u)
    BY <1>1, <1>7 DEF KnownGrows
  <1> QED BY <1>10, <1>11, <1>12 DEF Better, old, u

-----------------------------------------------------------------------------
(* The steps of an import.                                                 *)

LEMMA CategoryStep ==
  ASSUME Importing, ImportCategory
  PROVE  GoesOn
  <1> DEFINE u == tx.user
             old == tx.db
             found == Matches(old.categories, u, Raw.name)
  <1>1. Doing("category") /\ Raw.id \in LocalId /\ Raw.name \in Name
    BY RawCategory DEF ImportCategory
  <1>2. ASSUME NEW c \in found, Mapped(Raw.id, c)
        PROVE  GoesOn
    <2>1. c \in Known(db, old, u)
      BY MatchSeen DEF Known
    <2> QED BY <1>1, <1>2, <2>1, MappedGoesOn
  <1>3. ASSUME Conflict("category", Raw.id)
        PROVE  GoesOn
    BY <1>1, <1>3, ConflictGoesOn
  <1> DEFINE row == [owner |-> u, name |-> Raw.name, archived |-> FALSE]
             new(c) == [old EXCEPT !.categories = With(@, c, row)]
  <1>4. ASSUME found = {}, NEW c \in NewId(None, CategoryId, old.categories),
               Written(Raw.id, c, new(c))
        PROVE  GoesOn
    <2>1. c \in CategoryId /\ c \notin DOMAIN old.categories
      BY NewIdFacts
    <2>2. row \in CategoryRow /\ row.owner = u /\ row.name = Raw.name
      BY <1>1, UserFacts DEF CategoryRow
    <2>3. Named(old.categories, u, Raw.name) = {}
      BY <1>4, NoMatch
    <2> HIDE DEF row
    <2>4. Better(new(c)) /\ c \in Known(db, new(c), u)
      BY <2>1, <2>2, <2>3, CategoryAdded
    <2> QED BY <1>1, <1>4, <2>4, WrittenGoesOn
  <1> QED BY <1>2, <1>3, <1>4 DEF ImportCategory

LEMMA IngredientStep ==
  ASSUME Importing, ImportIngredient
  PROVE  GoesOn
  <1> DEFINE u == tx.user
             old == tx.db
             found == Matches(old.ingredients, u, Raw.name)
             place == tx.map[Raw.category]
  <1>1. /\ Doing("ingredient") /\ Raw.id \in LocalId /\ Raw.name \in Name
        /\ Raw.family \in Family
    BY RawIngredient DEF ImportIngredient
  <1>2. ASSUME NEW i \in found, Mapped(Raw.id, i)
        PROVE  GoesOn
    <2>1. i \in Known(db, old, u)
      BY MatchSeen DEF Known
    <2> QED BY <1>1, <1>2, <2>1, MappedGoesOn
  <1>3. ASSUME Conflict("ingredient", Raw.id)
        PROVE  GoesOn
    BY <1>1, <1>3, ConflictGoesOn
  <1> DEFINE row == [owner |-> u, name |-> Raw.name, category |-> place,
                     family |-> Raw.family, archived |-> FALSE]
             new(i) == [old EXCEPT !.ingredients = With(@, i, row)]
  <1>4. ASSUME found = {}, IsMapped(Raw.category), place \in DOMAIN old.categories,
               NEW i \in NewId(None, IngredientId, old.ingredients),
               Written(Raw.id, i, new(i))
        PROVE  GoesOn
    <2>1. i \in IngredientId /\ i \notin DOMAIN old.ingredients
      BY NewIdFacts
    <2>2. place \in Sees(old.categories, u)
      BY <1>4, MappedSeen
    <2>3. place \in CategoryId
      BY <1>4 DEF Importing, Sound, CategoriesOK, Table
    <2>4. /\ row \in IngredientRow /\ row.owner = u /\ row.name = Raw.name
          /\ row.category \in Sees(old.categories, u)
      BY <1>1, <2>2, <2>3, UserFacts DEF IngredientRow
    <2>5. Named(old.ingredients, u, Raw.name) = {}
      BY <1>4, NoMatch
    <2> HIDE DEF row
    <2>6. Better(new(i)) /\ i \in Known(db, new(i), u)
      BY <2>1, <2>4, <2>5, IngredientAdded
    <2> QED BY <1>1, <1>4, <2>6, WrittenGoesOn
  <1> QED BY <1>2, <1>3, <1>4 DEF ImportIngredient

LEMMA ProfileStep ==
  ASSUME Importing, ImportProfile
  PROVE  GoesOn
  <1>1. Doing("profile") /\ Raw \in Profile
    BY RawProfile DEF ImportProfile
  <1> DEFINE new == [tx.db EXCEPT !.profile[tx.user] = Raw]
  <1>2. ASSUME tx.db.profile[tx.user] = DefaultProfile, Done(new)
        PROVE  GoesOn
    <2>1. Better(new)
      BY <1>1, <1>2, ProfileReplaced
    <2> QED BY <1>1, <1>2, <2>1, DoneGoesOn
  <1>3. ASSUME Conflict("profile", tx.user)
        PROVE  GoesOn
    BY <1>1, <1>3, ConflictGoesOn
  <1>4. ASSUME Done(tx.db)
        PROVE  GoesOn
    BY <1>1, <1>4, BetterThanNothing, DoneGoesOn
  <1> QED BY <1>2, <1>3, <1>4 DEF ImportProfile

LEMMA PartialIn ==
  ASSUME NEW S, NEW T, NEW D \in SUBSET S, NEW f \in [D -> T]
  PROVE  f \in Partial(S, T)
  BY DEF Partial

\* A counted id's new row of stock: the old quantity unless it is nothing, and
\* the old settings unless the new ones keep them.
LEMMA BalanceStep ==
  ASSUME Importing, ImportBalance
  PROVE  GoesOn
  <1> DEFINE u == tx.user
             old == tx.db
             s == tx.state
             key == <<u, tx.map[Raw]>>
             q == Counted(s, Raw)
             row == IF key \in DOMAIN old.stock THEN old.stock[key]
                    ELSE [quantity |-> q, preference |-> Unset]
             p == IF Raw \in DOMAIN s.preferences THEN s.preferences[Raw]
                  ELSE row.preference
             new == [quantity |-> IF Replaceable(row, q) THEN q ELSE row.quantity,
                     preference |-> IF Compatible(row, p) THEN p ELSE row.preference]
             d == [old EXCEPT !.stock = With(@, key, new)]
  <1>1. Doing("balance")
    BY DEF ImportBalance
  <1>2. ASSUME Done(old)
        PROVE  GoesOn
    BY <1>1, <1>2, BetterThanNothing, DoneGoesOn
  <1>3. ASSUME Conflict("balance", Raw)
        PROVE  GoesOn
    BY <1>1, <1>3, ConflictGoesOn
  <1>4. ASSUME IsMapped(Raw), q # None, tx.map[Raw] \in DOMAIN old.ingredients,
               NEW cs, Turn(tx.map, d, cs)
        PROVE  GoesOn
    <2>1. tx.map[Raw] \in Sees(old.ingredients, u)
      BY <1>4, MappedSeen
    <2> DEFINE Settings == [Setting -> Threshold \cup {None}]
    <2>2. q \in Quantity
      <3>1. Table(s.balances, LocalId, Quantity \cup {None})
        BY HeadItem, <1>1, DeviceAssumption
      <3> QED BY <1>4, <3>1, ImportAssumption DEF Counted, Table
    <2>3. Raw \in DOMAIN s.preferences => s.preferences[Raw] \in Settings \cup {None}
      <3>1. Table(s.preferences, LocalId, Settings \cup {None})
        BY HeadItem, <1>1, DeviceAssumption
      <3> QED BY <3>1 DEF Table
    <2>4. /\ row.quantity \in Quantity /\ row.preference \in Settings
          /\ key \in DOMAIN old.stock => row = old.stock[key]
      <3>1. Table(old.stock, User \X IngredientId, StockRow)
        BY DEF Importing, Sound, StockOK
      <3>2. CASE key \in DOMAIN old.stock
        BY <3>1, <3>2 DEF Table, StockRow
      <3>3. CASE key \notin DOMAIN old.stock
        BY <2>2, <3>3 DEF Unset
      <3> QED BY <3>2, <3>3
    <2>5. p \in Settings \cup {None}
      BY <2>3, <2>4
    <2> HIDE DEF q, row, p
    <2>6. new.quantity \in Quantity /\ row.quantity \in {0, new.quantity}
      BY <2>2, <2>4 DEF Replaceable
    <2>7. new.preference \in Settings
      <3>1. CASE Compatible(row, p)
        BY <2>5, <3>1 DEF Compatible
      <3>2. CASE ~Compatible(row, p)
        BY <2>4, <3>2
      <3> QED BY <3>1, <3>2
    <2>8. \A a \in Setting : row.preference[a] \in {None, new.preference[a]}
      BY DEF Compatible
    <2>9. new \in StockRow
      BY <2>6, <2>7 DEF StockRow
    <2>10. key \in DOMAIN old.stock => Fills(old.stock[key], new)
      BY <2>4, <2>6, <2>8 DEF Fills
    <2> HIDE DEF new
    <2>11. Better(d)
      BY <2>1, <2>9, <2>10, StockFilled
    <2>12. Imported(tx.map, d)
      BY <2>11, BetterKept
    <2> QED BY <1>1, <1>4, <2>12, TurnTaken
  <1> QED BY <1>2, <1>3, <1>4 DEF ImportBalance

\* The rows of parts that are mapped to one Ingredient each.
LEMMA RowsFacts ==
  ASSUME Importing, NEW R, NEW parts \in Seq(R), AllMapped(parts), OneRowEach(parts)
  PROVE  /\ RowsOf(parts) \subseteq Sees(tx.db.ingredients, tx.user)
         /\ RowsOf(parts) \subseteq IngredientId
         /\ \A i \in RowsOf(parts) : PartFor(parts, i) \in R
  <1>1. ASSUME NEW i \in RowsOf(parts)
        PROVE  i \in Sees(tx.db.ingredients, tx.user) /\ PartFor(parts, i) \in R
    <2>1. PICK k \in DOMAIN parts : i = tx.map[parts[k].ingredient]
      BY DEF RowsOf, Ingredients
    <2> DEFINE l == parts[k].ingredient
    <2>2. l \in Ingredients(parts)
      BY DEF Ingredients
    <2>3. IsMapped(l) /\ tx.map[l] \in DOMAIN tx.db.ingredients
      BY <2>2 DEF AllMapped, OneRowEach
    <2>4. i \in Sees(tx.db.ingredients, tx.user)
      BY <2>1, <2>3, MappedSeen
    <2>5. PartFor(parts, i) \in R
      BY <2>1 DEF PartFor
    <2> QED BY <2>4, <2>5
  <1>2. Sees(tx.db.ingredients, tx.user) \subseteq IngredientId
    BY DEF Importing, Sound, IngredientsOK, Table, Sees
  <1> QED BY <1>1, <1>2

LEMMA RecipeStep ==
  ASSUME Importing, ImportRecipe
  PROVE  GoesOn
  <1> DEFINE u == tx.user
             old == tx.db
             found == Named(old.recipes, u, Raw.name)
             R == [ingredient: LocalId, quantity: Quantity \cup {None}]
  <1>1. /\ Doing("recipe") /\ Raw.id \in LocalId /\ Raw.name \in Name
        /\ Raw.published \in BOOLEAN /\ Raw.parts \in Seq(R)
    BY RawRecipe DEF ImportRecipe
  <1>2. ASSUME NEW rc \in found, Mapped(Raw.id, rc)
        PROVE  GoesOn
    <2>1. rc \in Known(db, old, u)
      BY DEF Known, Named, Sees
    <2> QED BY <1>1, <1>2, <2>1, MappedGoesOn
  <1>3. ASSUME Conflict("recipe", Raw.id)
        PROVE  GoesOn
    BY <1>1, <1>3, ConflictGoesOn
  <1> DEFINE parts == [i \in RowsOf(Raw.parts) |->
                         StoredQuantity(Raw.published, PartFor(Raw.parts, i).quantity)]
             row == [owner |-> u, name |-> Raw.name, published |-> Raw.published,
                     parts |-> parts]
             new(rc) == [old EXCEPT !.recipes = With(@, rc, row)]
  <1>4. ASSUME AllMapped(Raw.parts), OneRowEach(Raw.parts),
               NEW rc \in NewId(None, RecipeId, old.recipes), Written(Raw.id, rc, new(rc))
        PROVE  GoesOn
    <2>1. rc \in RecipeId /\ rc \notin DOMAIN old.recipes
      BY NewIdFacts
    <2>2. /\ RowsOf(Raw.parts) \subseteq Sees(old.ingredients, u)
          /\ RowsOf(Raw.parts) \subseteq IngredientId
          /\ \A i \in RowsOf(Raw.parts) : PartFor(Raw.parts, i) \in R
      <3> HIDE DEF R
      <3> QED BY <1>1, <1>4, RowsFacts
    <2>3. parts \in [RowsOf(Raw.parts) -> Quantity \cup {None}]
      BY <2>2 DEF StoredQuantity
    <2>4. parts \in Partial(IngredientId, Quantity \cup {None})
      <3> HIDE DEF parts
      <3> QED BY <2>2, <2>3, PartialIn
    <2>5. DOMAIN parts \subseteq Sees(old.ingredients, u)
      BY <2>2
    <2> HIDE DEF parts
    <2>6. row \in RecipeRow /\ row.owner = u /\ row.parts = parts
      BY <1>1, <2>4, UserFacts DEF RecipeRow
    <2> HIDE DEF row
    <2>7. Better(new(rc)) /\ rc \in Known(db, new(rc), u)
      BY <2>1, <2>5, <2>6, RecipeAdded
    <2> QED BY <1>1, <1>4, <2>7, WrittenGoesOn
  <1> QED BY <1>2, <1>3, <1>4 DEF ImportRecipe

LEMMA EventStep ==
  ASSUME Importing, ImportEvent
  PROVE  GoesOn
  <1> DEFINE u == tx.user
             old == tx.db
             R == [ingredient: LocalId, delta: Quantity]
  <1>1. /\ Doing("event") /\ Raw.id \in LocalId /\ Raw.reversed \in BOOLEAN
        /\ Raw.type \in {"manual", "cooking", "reversal"} /\ Raw.changes \in Seq(R)
    BY RawEvent DEF ImportEvent
  <1>2. ASSUME Conflict("activity", Raw.id)
        PROVE  GoesOn
    BY <1>1, <1>2, ConflictGoesOn
  <1> DEFINE rc == IF IsMapped(Raw.recipe) THEN tx.map[Raw.recipe] ELSE None
             changes == [i \in RowsOf(Raw.changes) |-> PartFor(Raw.changes, i).delta]
             row == [owner |-> u, type |-> Raw.type, recipe |-> rc, changes |-> changes,
                     reversalOf |-> None, reversed |-> Raw.reversed]
             new(e) == [old EXCEPT !.events = With(@, e, row)]
  <1>3. ASSUME AllMapped(Raw.changes), OneRowEach(Raw.changes),
               rc \in DOMAIN old.recipes \cup {None},
               NEW e \in NewId(Raw.id, EventId, old.events), Written(Raw.id, e, new(e))
        PROVE  GoesOn
    <2>1. e \in EventId /\ e \notin DOMAIN old.events
      BY NewIdFacts
    <2>2. /\ RowsOf(Raw.changes) \subseteq Sees(old.ingredients, u)
          /\ RowsOf(Raw.changes) \subseteq IngredientId
          /\ \A i \in RowsOf(Raw.changes) : PartFor(Raw.changes, i) \in R
      <3> HIDE DEF R
      <3> QED BY <1>1, <1>3, RowsFacts
    <2>3. changes \in [RowsOf(Raw.changes) -> Quantity]
      BY <2>2
    <2>4. changes \in Partial(IngredientId, Quantity)
      <3> HIDE DEF changes
      <3> QED BY <2>2, <2>3, PartialIn
    <2>5. DOMAIN changes \subseteq Sees(old.ingredients, u)
      BY <2>2
    <2>6. rc \in Sees(old.recipes, u) \cup {None}
      BY <1>3, MappedSeen
    <2>7. rc \in RecipeId \cup {None}
      BY <2>6 DEF Importing, Sound, RecipesOK, Table, Sees
    <2> HIDE DEF changes, rc
    <2>8. /\ row \in EventRow /\ row.owner = u /\ row.changes = changes
          /\ row.recipe = rc /\ row.reversalOf = None
      BY <1>1, <2>4, <2>7, UserFacts DEF EventRow
    <2> HIDE DEF row
    <2>9. Better(new(e)) /\ e \in Known(db, new(e), u)
      BY <2>1, <2>5, <2>6, <2>8, EventAdded
    <2> QED BY <1>1, <1>3, <2>9, WrittenGoesOn
  <1> QED BY <1>2, <1>3 DEF ImportEvent

LEMMA ReversalStep ==
  ASSUME Importing, LinkReversal
  PROVE  GoesOn
  <1> DEFINE e == tx.map[Raw.id]
             r == tx.map[Raw.reversalOf]
             d == [tx.db EXCEPT !.events[e].reversalOf = r]
  <1>1. Doing("reversal")
    BY DEF LinkReversal
  <1>2. ASSUME Done(tx.db)
        PROVE  GoesOn
    BY <1>1, <1>2, BetterThanNothing, DoneGoesOn
  <1>3. ASSUME ImportedEvent(Raw.id), ImportedEvent(Raw.reversalOf), Done(d)
        PROVE  GoesOn
    <2>1. /\ e \in Own(tx.db.events, tx.user) \ DOMAIN db.events
          /\ r \in Own(tx.db.events, tx.user)
      BY <1>3, MappedSeen DEF ImportedEvent
    <2> HIDE DEF e, r
    <2>2. Better(d)
      BY <2>1, ReversalLinked
    <2> QED BY <1>1, <1>3, <2>2, DoneGoesOn
  <1> QED BY <1>2, <1>3 DEF LinkReversal

LEMMA BasketStep ==
  ASSUME Importing, ImportBasket
  PROVE  GoesOn
  <1> DEFINE rc == tx.map[Raw.recipe]
             p == [recipe |-> rc, servings |-> Raw.servings]
             d == [tx.db EXCEPT !.basket[tx.user] = Append(tx.db.basket[tx.user], p)]
  <1>1. Doing("basket")
    BY DEF ImportBasket
  <1>2. ASSUME NEW l, Conflict("basket", l)
        PROVE  GoesOn
    BY <1>1, <1>2, ConflictGoesOn
  <1>3. ASSUME db.basket[tx.user] = <<>>, Cookable(Raw.recipe, Raw.servings), Done(d)
        PROVE  GoesOn
    <2>1. /\ rc \in Sees(tx.db.recipes, tx.user) /\ tx.db.recipes[rc].published
          /\ Raw.servings \in 1 .. MaxServings
      BY <1>3, MappedSeen DEF Cookable
    <2>2. rc \in RecipeId
      BY <2>1 DEF Importing, Sound, RecipesOK, Table, Sees
    <2> HIDE DEF rc
    <2>3. p \in Portion /\ p.recipe = rc
      BY <2>1, <2>2 DEF Portion
    <2> HIDE DEF p
    <2>4. Better(d)
      BY <1>3, <2>1, <2>3, PortionAdded
    <2> QED BY <1>1, <1>3, <2>4, DoneGoesOn
  <1> QED BY <1>2, <1>3 DEF ImportBasket

LEMMA ListStep ==
  ASSUME Importing, ImportList
  PROVE  GoesOn
  <1> DEFINE u == tx.user
             old == tx.db
             sources == {k \in DOMAIN Raw.recipes : IsMapped(Raw.recipes[k])}
             rcs == {tx.map[Raw.recipes[k]] : k \in sources}
             items == {IF IsMapped(r) THEN tx.map[r] ELSE None : r \in ToSet(Raw.items)}
             row == [owner |-> u, status |-> Raw.status, recipes |-> rcs, items |-> items]
             new(l) == [old EXCEPT !.lists = With(@, l, row)]
  <1>1. Doing("list") /\ Raw.id \in LocalId
    BY RawList DEF ImportList
  <1>2. ASSUME NEW l, Conflict("grocery-list", l)
        PROVE  GoesOn
    BY <1>1, <1>2, ConflictGoesOn
  <1>3. ASSUME ~HasLists(u), Acceptable(Raw.status), rcs \subseteq DOMAIN old.recipes,
               items \subseteq DOMAIN old.ingredients \cup {None},
               NEW l \in NewId(Raw.id, ListId, old.lists), NEW cs,
               Turn(With(tx.map, Raw.id, l), new(l), cs)
        PROVE  GoesOn
    <2>1. l \in ListId /\ l \notin DOMAIN old.lists
      BY NewIdFacts
    <2>2. Own(db.lists, u) = {} /\ Raw.status \in {"active", "completed"}
      BY <1>3 DEF HasLists, Acceptable
    <2>3. rcs \subseteq Sees(old.recipes, u)
      BY <1>3, MappedSeen
    <2>4. items \subseteq Sees(old.ingredients, u) \cup {None}
      BY <1>3, MappedSeen
    <2>5. Sees(old.recipes, u) \subseteq RecipeId /\ Sees(old.ingredients, u) \subseteq IngredientId
      BY DEF Importing, Sound, RecipesOK, IngredientsOK, Table, Sees
    <2> HIDE DEF rcs, items
    <2>6. /\ row \in ListRow /\ row.owner = u /\ row.recipes = rcs /\ row.items = items
      BY <2>2, <2>3, <2>4, <2>5, UserFacts DEF ListRow
    <2>7. ListRefers(row, old.ingredients, old.recipes)
      BY <2>3, <2>4 DEF ListRefers
    <2> HIDE DEF row
    <2>8. Better(new(l)) /\ l \in Known(db, new(l), u)
      BY <2>1, <2>2, <2>6, <2>7, ListAdded
    <2>9. Imported(With(tx.map, Raw.id, l), new(l))
      BY <1>1, <2>8, BetterMapped
    <2> QED BY <1>1, <1>3, <2>9, TurnTaken
  <1> QED BY <1>2, <1>3 DEF ImportList

LEMMA ImportGoesOn ==
  ASSUME Importing, ImportStep
  PROVE  GoesOn
  BY CategoryStep, IngredientStep, ProfileStep, BalanceStep, RecipeStep, EventStep,
     ReversalStep, BasketStep, ListStep DEF ImportStep

-----------------------------------------------------------------------------
(* Between the imports.                                                    *)

\* n has the rows of t, under the same names.
Renews(t, n) ==
    DOMAIN n = DOMAIN t /\ \A x \in DOMAIN t : n[x].owner = t[x].owner /\ n[x].name = t[x].name

LEMMA RenewsFacts ==
  ASSUME NEW t, NEW n, Renews(t, n), NEW users
  PROVE  /\ \A v : Sees(n, v) = Sees(t, v)
         /\ OneOfEach(t) => OneOfEach(n)
         /\ OwnersIn(t, users) => OwnersIn(n, users)
  <1>1. \A v : Sees(n, v) = Sees(t, v)
    BY DEF Renews, Sees
  <1>2. \A v : \A a \in Sees(t, v) : a \in DOMAIN t /\ n[a].name = t[a].name
    BY DEF Renews, Sees
  <1>3. OneOfEach(t) => OneOfEach(n)
    BY <1>1, <1>2 DEF OneOfEach
  <1>4. OwnersIn(t, users) => OwnersIn(n, users)
    BY DEF Renews, OwnersIn
  <1> QED BY <1>1, <1>3, <1>4

LEMMA CategoryArchived ==
  ASSUME NEW d, Sound(d), NEW c \in DOMAIN d.categories, NEW d2,
         d2 = [d EXCEPT !.categories[c].archived = TRUE]
  PROVE  Sound(d2)
  <1> DEFINE row == [d.categories[c] EXCEPT !.archived = TRUE]
             cats == [d.categories EXCEPT ![c] = row]
  <1>1. /\ Shaped(d2) /\ d2.categories = cats
        /\ d2.users = d.users /\ d2.profile = d.profile /\ d2.ingredients = d.ingredients
        /\ d2.stock = d.stock /\ d2.recipes = d.recipes /\ d2.events = d.events
        /\ d2.basket = d.basket /\ d2.lists = d.lists
    <2>1. d = [f \in Fields |-> d[f]]
      BY DEF Sound
    <2> QED BY <2>1 DEF Shaped, Fields
  <1>2. d.categories[c] \in CategoryRow
    BY DEF Sound, CategoriesOK, Table
  <1>3. /\ row \in CategoryRow
        /\ row.owner = d.categories[c].owner /\ row.name = d.categories[c].name
    BY <1>2 DEF CategoryRow
  <1> HIDE DEF row
  <1>4. Table(cats, CategoryId, CategoryRow)
    BY <1>3 DEF Sound, CategoriesOK, Table
  <1>5. Renews(d.categories, cats)
    BY <1>3 DEF Renews
  <1> HIDE DEF cats
  <1>6. CategoriesOK(cats) /\ OwnersIn(cats, d.users)
    BY <1>4, <1>5, RenewsFacts DEF Sound, CategoriesOK
  <1>7. IngredientsOK(d.ingredients, cats)
    BY <1>5, RenewsFacts, IngredientsOver DEF Sound
  <1> QED BY <1>1, <1>6, <1>7 DEF Sound, Shaped

LEMMA IngredientArchived ==
  ASSUME NEW d, Sound(d), NEW i \in DOMAIN d.ingredients, NEW d2,
         d2 = [d EXCEPT !.ingredients[i].archived = TRUE]
  PROVE  Sound(d2)
  <1> DEFINE row == [d.ingredients[i] EXCEPT !.archived = TRUE]
             ings == [d.ingredients EXCEPT ![i] = row]
  <1>1. /\ Shaped(d2) /\ d2.ingredients = ings
        /\ d2.users = d.users /\ d2.profile = d.profile /\ d2.categories = d.categories
        /\ d2.stock = d.stock /\ d2.recipes = d.recipes /\ d2.events = d.events
        /\ d2.basket = d.basket /\ d2.lists = d.lists
    <2>1. d = [f \in Fields |-> d[f]]
      BY DEF Sound
    <2> QED BY <2>1 DEF Shaped, Fields
  <1>2. d.ingredients[i] \in IngredientRow
    BY DEF Sound, IngredientsOK, Table
  <1>3. /\ row \in IngredientRow /\ row.category = d.ingredients[i].category
        /\ row.owner = d.ingredients[i].owner /\ row.name = d.ingredients[i].name
    BY <1>2 DEF IngredientRow
  <1> HIDE DEF row
  <1>4. Table(ings, IngredientId, IngredientRow)
    BY <1>3 DEF Sound, IngredientsOK, Table
  <1>5. Renews(d.ingredients, ings)
    BY <1>3 DEF Renews
  <1>6. \A j \in DOMAIN ings : ings[j].category \in Sees(d.categories, ings[j].owner)
    BY <1>3 DEF Sound, IngredientsOK
  <1> HIDE DEF ings
  <1>7. IngredientsOK(ings, d.categories) /\ OwnersIn(ings, d.users)
    BY <1>4, <1>5, <1>6, RenewsFacts DEF Sound, IngredientsOK
  <1>8. \A v : Sees(ings, v) = Sees(d.ingredients, v)
    BY <1>5, RenewsFacts
  <1>9. /\ StockOK(d.stock, ings, d.users) /\ RecipesOK(d.recipes, ings)
        /\ EventsOK(d.events, ings, d.recipes) /\ ListsOK(d.lists, ings, d.recipes)
    BY <1>8, StockOver, RecipesOver, EventsOver, ListsOver DEF Sound
  <1> QED BY <1>1, <1>7, <1>9 DEF Sound, Shaped

LEMMA StockSet ==
  ASSUME Sound(db), NEW u \in User, NEW i \in IngredientId, NEW q \in {0, 1},
         SetStock(u, i, q)
  PROVE  Sound(db')
  <1> DEFINE key == <<u, i>>
             row == IF key \in DOMAIN db.stock THEN db.stock[key]
                    ELSE [quantity |-> 0, preference |-> Unset]
             kept == [row EXCEPT !.quantity = q]
             event == [owner |-> u, type |-> "manual", recipe |-> None,
                       changes |-> [j \in {i} |-> q - row.quantity],
                       reversalOf |-> None, reversed |-> FALSE]
  <1>1. PICK e \in NewId(None, EventId, db.events) :
          Mutation(u, [db EXCEPT !.stock = With(@, key, kept),
                                 !.events = With(@, e, event)])
    BY DEF SetStock
  <1> DEFINE stock == With(db.stock, key, kept)
             events == With(db.events, e, event)
  <1>2. /\ Shaped(db') /\ db'.stock = stock /\ db'.events = events
        /\ db'.users = db.users /\ db'.profile = db.profile /\ db'.categories = db.categories
        /\ db'.ingredients = db.ingredients /\ db'.recipes = db.recipes
        /\ db'.basket = db.basket /\ db'.lists = db.lists
    <2>1. db = [f \in Fields |-> db[f]]
      BY DEF Sound
    <2> HIDE DEF kept, event
    <2> QED BY <1>1, <2>1 DEF Shaped, Fields, Mutation
  <1>3. /\ u \in db.users /\ i \in Sees(db.ingredients, u) /\ q - row.quantity \in Quantity
    BY <1>1 DEF SetStock, Mutation, Sees
  <1>4. row \in StockRow
    <2>1. CASE key \in DOMAIN db.stock
      BY <2>1 DEF Sound, StockOK, Table
    <2>2. CASE key \notin DOMAIN db.stock
      BY <2>2, ImportAssumption DEF StockRow, Unset
    <2> QED BY <2>1, <2>2
  <1>5. kept \in StockRow
    <2> HIDE DEF row
    <2> QED BY <1>4, ImportAssumption DEF StockRow
  <1>6. /\ event \in EventRow /\ event.owner = u /\ event.reversalOf = None
        /\ event.recipe = None /\ DOMAIN event.changes = {i}
    <2> DEFINE changes == [j \in {i} |-> q - row.quantity]
    <2>1. changes \in Partial(IngredientId, Quantity)
      <3>1. changes \in [{i} -> Quantity]
        BY <1>3
      <3> HIDE DEF changes
      <3> QED BY <3>1, PartialIn
    <2>2. DOMAIN changes = {i}
      OBVIOUS
    <2> HIDE DEF changes
    <2> QED BY <2>1, <2>2 DEF EventRow, changes
  <1>7. e \in EventId /\ e \notin DOMAIN db.events
    BY NewIdFacts
  <1> HIDE DEF kept, event
  <1>8. StockOK(stock, db.ingredients, db.users)
    BY <1>3, <1>5, StockWith DEF Sound
  <1>9. EventsOK(events, db.ingredients, db.recipes) /\ OwnersIn(events, db.users)
    <2>1. EventsOK(events, db.ingredients, db.recipes)
      BY <1>3, <1>6, <1>7, EventsWith DEF Sound
    <2> QED BY <1>3, <1>6, <2>1, WithOwners DEF Sound
  <1> HIDE DEF stock, events
  <1> QED BY <1>2, <1>8, <1>9 DEF Sound, Shaped

LEMMA BasketEmptied ==
  ASSUME NEW d, Sound(d), NEW u \in User, NEW d2, d2 = [d EXCEPT !.basket[u] = <<>>]
  PROVE  Sound(d2)
  <1> DEFINE basket == [d.basket EXCEPT ![u] = <<>>]
  <1>1. /\ Shaped(d2) /\ d2.basket = basket
        /\ d2.users = d.users /\ d2.profile = d.profile /\ d2.ingredients = d.ingredients
        /\ d2.stock = d.stock /\ d2.recipes = d.recipes /\ d2.events = d.events
        /\ d2.categories = d.categories /\ d2.lists = d.lists
    <2>1. d = [f \in Fields |-> d[f]]
      BY DEF Sound
    <2> QED BY <2>1 DEF Shaped, Fields
  <1>2. d.basket \in [User -> Seq(Portion)]
    BY DEF Sound, BasketOK
  <1>3. /\ basket \in [User -> Seq(Portion)] /\ basket[u] = <<>>
        /\ \A v \in User \ {u} : basket[v] = d.basket[v]
    BY <1>2
  <1>4. RecipesIn(<<>>) = {}
    BY DEF RecipesIn
  <1> HIDE DEF basket
  <1>5. BasketOK(basket, d.recipes, d.users)
    BY <1>3, <1>4 DEF Sound, BasketOK
  <1> QED BY <1>1, <1>5 DEF Sound, Shaped

LEMMA ListDeleted ==
  ASSUME NEW d, Sound(d), NEW l, NEW d2,
         d2 = [d EXCEPT !.lists = [m \in DOMAIN @ \ {l} |-> @[m]]]
  PROVE  Sound(d2)
  <1> DEFINE ls == [m \in DOMAIN d.lists \ {l} |-> d.lists[m]]
  <1>1. /\ Shaped(d2) /\ d2.lists = ls
        /\ d2.users = d.users /\ d2.profile = d.profile /\ d2.ingredients = d.ingredients
        /\ d2.stock = d.stock /\ d2.recipes = d.recipes /\ d2.events = d.events
        /\ d2.categories = d.categories /\ d2.basket = d.basket
    <2>1. d = [f \in Fields |-> d[f]]
      BY DEF Sound
    <2> QED BY <2>1 DEF Shaped, Fields
  <1>2. ListsOK(ls, d.ingredients, d.recipes) /\ OwnersIn(ls, d.users)
    BY DEF Sound, ListsOK, Table, OwnersIn
  <1> HIDE DEF ls
  <1> QED BY <1>1, <1>2 DEF Sound, Shaped

LEMMA AccountKeepsSound ==
  ASSUME Sound(db), NEW u \in User, AccountStep(u)
  PROVE  Sound(db')
  <1>1. ASSUME NEW c \in CategoryId, ArchiveCategory(u, c)
        PROVE  Sound(db')
    BY <1>1, CategoryArchived DEF ArchiveCategory, Mutation, Own
  <1>2. ASSUME NEW i \in IngredientId, ArchiveIngredient(u, i)
        PROVE  Sound(db')
    BY <1>2, IngredientArchived DEF ArchiveIngredient, Mutation, Own
  <1>3. ASSUME NEW i \in IngredientId, NEW q \in {0, 1}, SetStock(u, i, q)
        PROVE  Sound(db')
    BY <1>3, StockSet
  <1>4. ASSUME ClearBasket(u)
        PROVE  Sound(db')
    BY <1>4, BasketEmptied DEF ClearBasket, Mutation
  <1>5. ASSUME NEW l \in ListId, DeleteList(u, l)
        PROVE  Sound(db')
    BY <1>5, ListDeleted DEF DeleteList, Mutation
  <1> QED BY <1>1, <1>2, <1>3, <1>4, <1>5 DEF AccountStep

-----------------------------------------------------------------------------
(* The beginning of an import, and its end.                                *)

LEMMA TaggedFacts ==
  ASSUME NEW kind, NEW R, NEW raws \in Seq(R)
  PROVE  /\ Tagged(kind, raws) \in Seq([kind: {kind}, raw: ToSet(raws)])
         /\ DOMAIN Tagged(kind, raws) = DOMAIN raws
         /\ \A k \in DOMAIN raws : Tagged(kind, raws)[k] = [kind |-> kind, raw |-> raws[k]]
  <1> DEFINE T == [kind: {kind}, raw: ToSet(raws)]
  <1>1. DOMAIN raws = 1 .. Len(raws) /\ Len(raws) \in Nat
    OBVIOUS
  <1>2. \A k \in DOMAIN raws : [kind |-> kind, raw |-> raws[k]] \in T
    BY DEF ToSet
  <1>3. Tagged(kind, raws) \in [1 .. Len(raws) -> T]
    BY <1>1, <1>2 DEF Tagged
  <1> HIDE DEF T
  <1>4. Tagged(kind, raws) \in Seq(T)
    BY <1>1, <1>3
  <1> QED BY <1>4 DEF T, Tagged

LEMMA OrderFacts ==
  ASSUME NEW T, IsFiniteSet(T), NEW order \in SetToSeqs(T)
  PROVE  order \in Seq(T)
  <1> DEFINE n == Cardinality(T)
  <1>1. n \in Nat
    BY FS_CardinalityType
  <1>2. order \in [1 .. n -> T]
    BY DEF SetToSeqs
  <1> HIDE DEF n
  <1> QED BY <1>1, <1>2

LEMMA ConcatIn ==
  ASSUME NEW S, NEW a \in Seq(S), NEW b \in Seq(S)
  PROVE  a \o b \in Seq(S)
  OBVIOUS

LEMMA SeqWider ==
  ASSUME NEW S, NEW T, S \subseteq T, NEW a \in Seq(S)
  PROVE  a \in Seq(T)
  OBVIOUS

LEMMA WorkParts ==
  ASSUME NEW s \in DeviceState, NEW order \in SetToSeqs(s.tracked)
  PROVE  /\ Tagged("category", s.categories) \in Seq(WorkItem(s))
         /\ Tagged("ingredient", s.ingredients) \in Seq(WorkItem(s))
         /\ Tagged("profile", s.profile) \in Seq(WorkItem(s))
         /\ Tagged("balance", order) \in Seq(WorkItem(s))
         /\ Tagged("recipe", s.recipes) \in Seq(WorkItem(s))
         /\ Tagged("event", s.activity) \in Seq(WorkItem(s))
         /\ Tagged("reversal", s.activity) \in Seq(WorkItem(s))
         /\ Tagged("basket", s.basket) \in Seq(WorkItem(s))
         /\ Tagged("list", s.lists) \in Seq(WorkItem(s))
  <1> DEFINE W == WorkItem(s)
  <1>1. ASSUME NEW kind, NEW R, NEW raws \in Seq(R), [kind: {kind}, raw: ToSet(raws)] \subseteq W
        PROVE  Tagged(kind, raws) \in Seq(W)
    <2> DEFINE S == [kind: {kind}, raw: ToSet(raws)]
    <2>1. Tagged(kind, raws) \in Seq(S)
      BY TaggedFacts
    <2>2. S \subseteq W
      BY <1>1
    <2> HIDE DEF S, W
    <2> QED BY <2>1, <2>2, SeqWider
  <1>2. order \in Seq(s.tracked)
    BY DeviceAssumption, OrderFacts
  <1>3. [kind: {"balance"}, raw: ToSet(order)] \subseteq W
    BY <1>2, ToSetIn DEF WorkItem
  <1>4. Tagged("balance", order) \in Seq(W)
    BY <1>1, <1>2, <1>3
  <1>5. Tagged("category", s.categories) \in Seq(W)
    BY <1>1, DeviceAssumption DEF WorkItem
  <1>6. Tagged("ingredient", s.ingredients) \in Seq(W)
    BY <1>1, DeviceAssumption DEF WorkItem
  <1>7. Tagged("profile", s.profile) \in Seq(W)
    BY <1>1, DeviceAssumption DEF WorkItem
  <1>8. Tagged("recipe", s.recipes) \in Seq(W)
    BY <1>1, DeviceAssumption DEF WorkItem
  <1>9. Tagged("event", s.activity) \in Seq(W) /\ Tagged("reversal", s.activity) \in Seq(W)
    BY <1>1, DeviceAssumption DEF WorkItem
  <1>10. Tagged("basket", s.basket) \in Seq(W)
    BY <1>1, DeviceAssumption DEF WorkItem
  <1>11. Tagged("list", s.lists) \in Seq(W)
    BY <1>1, DeviceAssumption DEF WorkItem
  <1> QED BY <1>4, <1>5, <1>6, <1>7, <1>8, <1>9, <1>10, <1>11

LEMMA WorkTyped ==
  ASSUME NEW s \in DeviceState, NEW order \in SetToSeqs(s.tracked)
  PROVE  Work(s, order) \in Seq(WorkItem(s))
  <1> DEFINE W == WorkItem(s)
  <1> HIDE DEF W
  <1> QED BY WorkParts, ConcatIn DEF Work, W

LEMMA BeginsImport ==
  ASSUME Sound(db), NEW u \in User, NEW s \in DeviceState, BeginImport(u, s)
  PROVE  /\ tx' = [f \in TxFields |-> tx'[f]] /\ tx'.user \in db.users
         /\ tx'.db = db /\ tx'.op = "import" /\ ImportOK(tx', db)
  <1>1. PICK order \in SetToSeqs(s.tracked) :
          tx' = Transaction("import", u, s, Work(s, order))
    BY DEF BeginImport
  <1> DEFINE todo == Work(s, order)
  <1>2. todo \in Seq(WorkItem(s))
    BY WorkTyped
  <1> HIDE DEF todo
  <1>3. /\ tx' = [f \in TxFields |-> tx'[f]] /\ tx'.op = "import" /\ tx'.user = u
        /\ tx'.state = s /\ tx'.todo = todo /\ tx'.map = <<>> /\ tx'.db = db
    BY <1>1 DEF Transaction, TxFields, todo
  <1>4. Kept(db, db, u)
    BY DEF Kept, Adds, StockKept, Fills
  <1>5. MapOK(<<>>, db, db, u)
    BY DEF MapOK
  <1> QED BY <1>2, <1>3, <1>4, <1>5 DEF ImportOK, BeginImport

-----------------------------------------------------------------------------
(* The statements of a teardown.                                           *)

TornDown(n, o, d, u) == Sound(d) /\ Left(o, d, u) /\ Cleared(n, o, d, u)

\* No row is left of those that u owned, and what others see is.
LEMMA RestrictedFacts ==
  ASSUME NEW t, NEW u \in User, NEW r, r = Restricted(t, Own(t, u))
  PROVE  /\ Own(r, u) = {} /\ Loses(t, r, u)
         /\ DOMAIN r \subseteq DOMAIN t /\ \A x \in DOMAIN r : r[x] = t[x] /\ r[x].owner # u
         /\ \A v : v # u => Sees(t, v) \subseteq Sees(r, v) /\ Own(t, v) \subseteq Own(r, v)
         /\ OneOfEach(t) => OneOfEach(r)
         /\ \A users : OwnersIn(t, users) => OwnersIn(r, users)
         /\ \A ids, rows : Table(t, ids, rows) => Table(r, ids, rows)
  <1>1. u # None
    BY ImportAssumption
  <1>2. /\ DOMAIN r \subseteq DOMAIN t /\ \A x \in DOMAIN r : r[x] = t[x] /\ r[x].owner # u
        /\ \A x \in DOMAIN t : t[x].owner # u => x \in DOMAIN r
    BY DEF Restricted, Own
  <1>3. Own(r, u) = {} /\ Loses(t, r, u)
    BY <1>2 DEF Own, Loses
  <1>4. \A v : v # u => Sees(t, v) \subseteq Sees(r, v) /\ Own(t, v) \subseteq Own(r, v)
    BY <1>1, <1>2 DEF Sees, Own
  <1>5. \A v : Sees(r, v) \subseteq Sees(t, v)
    BY <1>2 DEF Sees
  <1>6. OneOfEach(t) => OneOfEach(r)
    BY <1>2, <1>5 DEF OneOfEach, Sees
  <1>7. \A users : OwnersIn(t, users) => OwnersIn(r, users)
    BY <1>2 DEF OwnersIn
  <1>8. \A ids, rows : Table(t, ids, rows) => Table(r, ids, rows)
    BY <1>2 DEF Table
  <1> QED BY <1>2, <1>3, <1>4, <1>6, <1>7, <1>8

LEMMA LosesMore ==
  ASSUME NEW o, NEW t, NEW n, NEW u, Loses(o, t, u), Loses(t, n, u)
  PROVE  Loses(o, n, u)
  BY DEF Loses

LEMMA ListsGo ==
  ASSUME NEW o, NEW d, NEW u \in User, TornDown(0, o, d, u),
         NEW e, e = After("lists", u, d)
  PROVE  TornDown(1, o, e, u)
  <1> DEFINE ls == Restricted(d.lists, Own(d.lists, u))
  <1>1. /\ Shaped(e) /\ e.lists = ls
        /\ e.users = d.users /\ e.profile = d.profile /\ e.categories = d.categories
        /\ e.ingredients = d.ingredients /\ e.stock = d.stock /\ e.recipes = d.recipes
        /\ e.events = d.events /\ e.basket = d.basket
    <2>1. d = [f \in Fields |-> d[f]]
      BY DEF TornDown, Sound
    <2> QED BY <2>1 DEF Shaped, Fields, After
  <1>2. Sound(d) /\ Left(o, d, u) /\ d.users = o.users
    BY DEF TornDown, Cleared
  <1>3. Own(ls, u) = {} /\ OwnersIn(ls, d.users)
    BY <1>2, RestrictedFacts DEF Sound
  <1>4. ListsOK(ls, d.ingredients, d.recipes)
    BY <1>2, RestrictedFacts DEF Sound, ListsOK
  <1>5. Loses(o.lists, ls, u)
    BY <1>2, RestrictedFacts, LosesMore DEF Left
  <1> HIDE DEF ls
  <1>6. Sound(e)
    BY <1>1, <1>2, <1>3, <1>4 DEF Sound, Shaped
  <1>7. Left(o, e, u)
    BY <1>1, <1>2, <1>5 DEF Left
  <1>8. Cleared(1, o, e, u)
    BY <1>1, <1>2, <1>3 DEF Cleared
  <1> QED BY <1>6, <1>7, <1>8 DEF TornDown

LEMMA BasketGoes ==
  ASSUME NEW o, NEW d, NEW u \in User, TornDown(1, o, d, u),
         NEW e, e = After("basket", u, d)
  PROVE  TornDown(2, o, e, u)
  <1> DEFINE basket == [d.basket EXCEPT ![u] = <<>>]
  <1>1. /\ e.basket = basket
        /\ e.users = d.users /\ e.profile = d.profile /\ e.categories = d.categories
        /\ e.ingredients = d.ingredients /\ e.stock = d.stock /\ e.recipes = d.recipes
        /\ e.events = d.events /\ e.lists = d.lists
    <2>1. d = [f \in Fields |-> d[f]]
      BY DEF TornDown, Sound
    <2> QED BY <2>1 DEF Fields, After
  <1>2. Sound(d) /\ Left(o, d, u) /\ Cleared(1, o, d, u)
    BY DEF TornDown
  <1>3. Sound(e)
    BY <1>2, BasketEmptied DEF After
  <1>4. d.basket \in [User -> Seq(Portion)]
    BY <1>2 DEF Sound, BasketOK
  <1>5. basket[u] = <<>> /\ \A v \in User \ {u} : basket[v] = d.basket[v]
    BY <1>4
  <1> HIDE DEF basket
  <1>6. Left(o, e, u)
    BY <1>1, <1>2, <1>5 DEF Left
  <1>7. Cleared(2, o, e, u)
    BY <1>1, <1>2, <1>5 DEF Cleared
  <1> QED BY <1>3, <1>6, <1>7 DEF TornDown

\* Events of u are changed to ones that refer to less, and no others.
LEMMA EventsChange ==
  ASSUME NEW o, NEW d, NEW u \in User, Sound(d), Left(o, d, u),
         NEW evs, DOMAIN evs = DOMAIN d.events,
         \A x \in DOMAIN evs : d.events[x].owner # u => evs[x] = d.events[x],
         \A x \in Own(d.events, u) :
           /\ evs[x] \in EventRow /\ evs[x].owner = u
           /\ DOMAIN evs[x].changes \subseteq DOMAIN d.events[x].changes
           /\ evs[x].recipe = d.events[x].recipe
           /\ evs[x].reversalOf \in {None, d.events[x].reversalOf},
         NEW e, Shaped(e), e.events = evs,
         e.users = d.users, e.profile = d.profile, e.categories = d.categories,
         e.ingredients = d.ingredients, e.stock = d.stock, e.recipes = d.recipes,
         e.lists = d.lists, e.basket = d.basket
  PROVE  Sound(e) /\ Left(o, e, u) /\ Own(evs, u) = Own(d.events, u)
  <1>1. \A x \in DOMAIN evs : evs[x].owner = d.events[x].owner
    BY DEF Own
  <1>2. \A v : Own(evs, v) = Own(d.events, v)
    BY <1>1 DEF Own
  <1>3. Table(evs, EventId, EventRow)
    BY DEF Sound, EventsOK, Table, Own
  <1>4. ASSUME NEW x \in DOMAIN evs
        PROVE  EventRefers(evs[x], evs, d.ingredients, d.recipes)
    <2>1. EventRefers(d.events[x], d.events, d.ingredients, d.recipes)
      BY DEF Sound, EventsOK
    <2>2. CASE d.events[x].owner = u
      BY <1>2, <2>1, <2>2 DEF EventRefers, Own
    <2>3. CASE d.events[x].owner # u
      BY <1>2, <2>1, <2>3 DEF EventRefers
    <2> QED BY <2>2, <2>3
  <1>5. OwnersIn(evs, d.users)
    BY <1>1 DEF Sound, OwnersIn
  <1>6. Loses(o.events, evs, u)
    <2>1. Loses(d.events, evs, u)
      BY <1>1 DEF Loses
    <2> QED BY <2>1, LosesMore DEF Left
  <1>7. Sound(e)
    BY <1>3, <1>4, <1>5 DEF Sound, Shaped, EventsOK
  <1>8. Left(o, e, u)
    BY <1>6 DEF Left
  <1> QED BY <1>2, <1>7, <1>8

LEMMA ChangesGo ==
  ASSUME NEW o, NEW d, NEW u \in User, TornDown(2, o, d, u),
         NEW e, e = After("changes", u, d)
  PROVE  TornDown(3, o, e, u)
  <1> DEFINE old == d.events
             evs == [x \in DOMAIN old |->
                       IF x \in Own(old, u) THEN [old[x] EXCEPT !.changes = <<>>] ELSE old[x]]
  <1>1. /\ Shaped(e) /\ e.events = evs
        /\ e.users = d.users /\ e.profile = d.profile /\ e.categories = d.categories
        /\ e.ingredients = d.ingredients /\ e.stock = d.stock /\ e.recipes = d.recipes
        /\ e.lists = d.lists /\ e.basket = d.basket
    <2>1. d = [f \in Fields |-> d[f]]
      BY DEF TornDown, Sound
    <2> QED BY <2>1 DEF Shaped, Fields, After
  <1>2. Sound(d) /\ Left(o, d, u) /\ Cleared(2, o, d, u)
    BY DEF TornDown
  <1>3. DOMAIN evs = DOMAIN d.events
        /\ \A x \in DOMAIN evs : d.events[x].owner # u => evs[x] = d.events[x]
    BY DEF Own
  <1>4. ASSUME NEW x \in Own(d.events, u)
        PROVE  /\ evs[x] \in EventRow /\ evs[x].owner = u /\ DOMAIN evs[x].changes = {}
               /\ evs[x].recipe = d.events[x].recipe
               /\ evs[x].reversalOf = d.events[x].reversalOf
    <2>1. d.events[x] \in EventRow /\ d.events[x].owner = u /\ x \in DOMAIN d.events
      BY <1>2 DEF Sound, EventsOK, Table, Own
    <2>2. evs[x] = [d.events[x] EXCEPT !.changes = <<>>]
      BY <2>1
    <2>3. <<>> \in Partial(IngredientId, Quantity) /\ DOMAIN <<>> = {}
      <3>1. <<>> \in [{} -> Quantity] /\ DOMAIN <<>> = {}
        OBVIOUS
      <3> QED BY <3>1, PartialIn
    <2> HIDE DEF evs
    <2> QED BY <2>1, <2>2, <2>3 DEF EventRow
  <1> HIDE DEF evs
  <1>5. Sound(e) /\ Left(o, e, u) /\ Own(evs, u) = Own(d.events, u)
    BY <1>1, <1>2, <1>3, <1>4, EventsChange
  <1>6. Cleared(3, o, e, u)
    BY <1>1, <1>2, <1>4, <1>5 DEF Cleared
  <1> QED BY <1>5, <1>6 DEF TornDown

LEMMA ReversalsGo ==
  ASSUME NEW o, NEW d, NEW u \in User, TornDown(3, o, d, u),
         NEW e, e = After("reversals", u, d)
  PROVE  TornDown(4, o, e, u)
  <1> DEFINE old == d.events
             evs == [x \in DOMAIN old |->
                       IF x \in Own(old, u) THEN [old[x] EXCEPT !.reversalOf = None] ELSE old[x]]
  <1>1. /\ Shaped(e) /\ e.events = evs
        /\ e.users = d.users /\ e.profile = d.profile /\ e.categories = d.categories
        /\ e.ingredients = d.ingredients /\ e.stock = d.stock /\ e.recipes = d.recipes
        /\ e.lists = d.lists /\ e.basket = d.basket
    <2>1. d = [f \in Fields |-> d[f]]
      BY DEF TornDown, Sound
    <2> QED BY <2>1 DEF Shaped, Fields, After
  <1>2. Sound(d) /\ Left(o, d, u) /\ Cleared(3, o, d, u)
    BY DEF TornDown
  <1>3. DOMAIN evs = DOMAIN d.events
        /\ \A x \in DOMAIN evs : d.events[x].owner # u => evs[x] = d.events[x]
    BY DEF Own
  <1>4. ASSUME NEW x \in Own(d.events, u)
        PROVE  /\ evs[x] \in EventRow /\ evs[x].owner = u
               /\ evs[x].changes = d.events[x].changes
               /\ evs[x].recipe = d.events[x].recipe /\ evs[x].reversalOf = None
    <2>1. d.events[x] \in EventRow /\ d.events[x].owner = u /\ x \in DOMAIN d.events
      BY <1>2 DEF Sound, EventsOK, Table, Own
    <2>2. evs[x] = [d.events[x] EXCEPT !.reversalOf = None]
      BY <2>1
    <2> HIDE DEF evs
    <2> QED BY <2>1, <2>2 DEF EventRow
  <1> HIDE DEF evs
  <1>5. Sound(e) /\ Left(o, e, u) /\ Own(evs, u) = Own(d.events, u)
    BY <1>1, <1>2, <1>3, <1>4, EventsChange
  <1>6. Cleared(4, o, e, u)
    BY <1>1, <1>2, <1>4, <1>5 DEF Cleared
  <1> QED BY <1>5, <1>6 DEF TornDown

LEMMA EventsGo ==
  ASSUME NEW o, NEW d, NEW u \in User, TornDown(4, o, d, u),
         NEW e, e = After("events", u, d)
  PROVE  TornDown(5, o, e, u)
  <1> DEFINE evs == Restricted(d.events, Own(d.events, u))
  <1>1. /\ Shaped(e) /\ e.events = evs
        /\ e.users = d.users /\ e.profile = d.profile /\ e.categories = d.categories
        /\ e.ingredients = d.ingredients /\ e.stock = d.stock /\ e.recipes = d.recipes
        /\ e.lists = d.lists /\ e.basket = d.basket
    <2>1. d = [f \in Fields |-> d[f]]
      BY DEF TornDown, Sound
    <2> QED BY <2>1 DEF Shaped, Fields, After
  <1>2. Sound(d) /\ Left(o, d, u) /\ Cleared(4, o, d, u)
    BY DEF TornDown
  <1>3. Own(evs, u) = {} /\ OwnersIn(evs, d.users) /\ Table(evs, EventId, EventRow)
    BY <1>2, RestrictedFacts DEF Sound, EventsOK
  <1>4. /\ \A x \in DOMAIN evs : x \in DOMAIN d.events /\ evs[x] = d.events[x] /\ evs[x].owner # u
        /\ \A v : v # u => Own(d.events, v) \subseteq Own(evs, v)
    BY RestrictedFacts
  <1>5. Loses(o.events, evs, u)
    BY <1>2, RestrictedFacts, LosesMore DEF Left
  <1> HIDE DEF evs
  <1>6. EventsOK(evs, d.ingredients, d.recipes)
    BY <1>2, <1>3, <1>4 DEF Sound, EventsOK, EventRefers
  <1>7. Sound(e)
    BY <1>1, <1>2, <1>3, <1>6 DEF Sound, Shaped
  <1>8. Left(o, e, u)
    BY <1>1, <1>2, <1>5 DEF Left
  <1>9. Cleared(5, o, e, u)
    BY <1>1, <1>2, <1>3 DEF Cleared
  <1> QED BY <1>7, <1>8, <1>9 DEF TornDown

LEMMA StockGoes ==
  ASSUME NEW o, NEW d, NEW u \in User, TornDown(5, o, d, u),
         NEW e, e = After("stock", u, d)
  PROVE  TornDown(6, o, e, u)
  <1> DEFINE stock == Restricted(d.stock, {u} \X IngredientId)
  <1>1. /\ Shaped(e) /\ e.stock = stock
        /\ e.users = d.users /\ e.profile = d.profile /\ e.categories = d.categories
        /\ e.ingredients = d.ingredients /\ e.events = d.events /\ e.recipes = d.recipes
        /\ e.lists = d.lists /\ e.basket = d.basket
    <2>1. d = [f \in Fields |-> d[f]]
      BY DEF TornDown, Sound
    <2> QED BY <2>1 DEF Shaped, Fields, After
  <1>2. Sound(d) /\ Left(o, d, u) /\ Cleared(5, o, d, u)
    BY DEF TornDown
  <1>3. \A key \in DOMAIN d.stock : key \in User \X IngredientId
    BY <1>2 DEF Sound, StockOK, Table
  <1>4. /\ DOMAIN stock = {key \in DOMAIN d.stock : key[1] # u}
        /\ \A key \in DOMAIN stock : stock[key] = d.stock[key]
    <2>1. \A key \in User \X IngredientId : key \in {u} \X IngredientId <=> key[1] = u
      OBVIOUS
    <2> QED BY <1>3, <2>1 DEF Restricted
  <1> HIDE DEF stock
  <1>5. StockOK(stock, d.ingredients, d.users)
    BY <1>2, <1>4 DEF Sound, StockOK, Table
  <1>6. Sound(e)
    BY <1>1, <1>2, <1>5 DEF Sound, Shaped
  <1>7. Left(o, e, u)
    BY <1>1, <1>2, <1>4 DEF Left
  <1>8. Cleared(6, o, e, u)
    BY <1>1, <1>2, <1>4 DEF Cleared
  <1> QED BY <1>6, <1>7, <1>8 DEF TornDown

\* References of lists that are not u's are no references to rows of u.
LEMMA NulledIsSame ==
  ASSUME NEW table, NEW u \in User, NEW v, v # u,
         NEW ids, ids \subseteq Sees(table, v) \cup {None}
  PROVE  Nulled(ids, Own(table, u)) = ids
  <1>1. u # None
    BY ImportAssumption
  <1>2. \A id \in ids : (IF id \in Own(table, u) THEN None ELSE id) = id
    BY <1>1 DEF Sees, Own
  <1> QED BY <1>2 DEF Nulled

\* Tables with the same lists.
SameLists(ls, old) == DOMAIN ls = DOMAIN old /\ \A l \in DOMAIN old : ls[l] = old[l]

LEMMA SameListsFacts ==
  ASSUME NEW ls, NEW old, SameLists(ls, old), NEW o, NEW u
  PROVE  /\ \A ings, rs : ListsOK(old, ings, rs) => ListsOK(ls, ings, rs)
         /\ \A users : OwnersIn(old, users) => OwnersIn(ls, users)
         /\ Own(ls, u) = Own(old, u)
         /\ Loses(o, old, u) => Loses(o, ls, u)
  <1>1. \A ings, rs : ListsOK(old, ings, rs) => ListsOK(ls, ings, rs)
    BY DEF SameLists, ListsOK, Table
  <1>2. \A users : OwnersIn(old, users) => OwnersIn(ls, users)
    BY DEF SameLists, OwnersIn
  <1>3. Own(ls, u) = Own(old, u)
    BY DEF SameLists, Own
  <1>4. Loses(o, old, u) => Loses(o, ls, u)
    BY DEF SameLists, Loses
  <1> QED BY <1>1, <1>2, <1>3, <1>4

LEMMA RecipesGo ==
  ASSUME NEW o, NEW d, NEW u \in User, TornDown(6, o, d, u),
         NEW e, e = After("recipes", u, d)
  PROVE  TornDown(7, o, e, u)
  <1> DEFINE rs == Restricted(d.recipes, Own(d.recipes, u))
             ls == [l \in DOMAIN d.lists |->
                      [d.lists[l] EXCEPT !.recipes = Nulled(@, Own(d.recipes, u))]]
  <1>1. /\ Shaped(e) /\ e.recipes = rs /\ e.lists = ls
        /\ e.users = d.users /\ e.profile = d.profile /\ e.categories = d.categories
        /\ e.ingredients = d.ingredients /\ e.events = d.events /\ e.stock = d.stock
        /\ e.basket = d.basket
    <2>1. d = [f \in Fields |-> d[f]]
      BY DEF TornDown, Sound
    <2>2. e = [d EXCEPT !.recipes = rs, !.lists = ls]
      BY DEF After
    <2> HIDE DEF rs, ls
    <2> QED BY <2>1, <2>2 DEF Shaped, Fields
  <1>2. Sound(d) /\ Left(o, d, u) /\ Cleared(6, o, d, u)
    BY DEF TornDown
  <1>3. /\ Own(d.lists, u) = {} /\ d.basket[u] = <<>> /\ Own(d.events, u) = {}
    BY <1>2 DEF Cleared
  <1>4. SameLists(ls, d.lists)
    <2> SUFFICES ASSUME NEW l \in DOMAIN d.lists
                 PROVE  ls[l] = d.lists[l]
      BY DEF SameLists
    <2> DEFINE row == d.lists[l]
    <2>1. /\ row \in ListRow /\ row.owner # u
          /\ row.recipes \subseteq Sees(d.recipes, row.owner) \cup {None}
      BY <1>2, <1>3 DEF Sound, ListsOK, ListRefers, Table, Own
    <2>2. Nulled(row.recipes, Own(d.recipes, u)) = row.recipes
      BY <2>1, NulledIsSame
    <2> HIDE DEF row
    <2>3. [row EXCEPT !.recipes = row.recipes] = row
      BY <2>1 DEF ListRow
    <2> QED BY <2>2, <2>3 DEF row
  <1>5. /\ Own(rs, u) = {} /\ OwnersIn(rs, d.users) /\ Table(rs, RecipeId, RecipeRow)
        /\ \A v : v # u => Sees(d.recipes, v) \subseteq Sees(rs, v)
        /\ \A x \in DOMAIN rs : x \in DOMAIN d.recipes /\ rs[x] = d.recipes[x]
    BY <1>2, RestrictedFacts DEF Sound, RecipesOK
  <1>6. Loses(o.recipes, rs, u)
    BY <1>2, RestrictedFacts, LosesMore DEF Left
  <1> HIDE DEF rs, ls
  <1>7. RecipesOK(rs, d.ingredients)
    BY <1>2, <1>5 DEF Sound, RecipesOK
  <1>8. EventsOK(d.events, d.ingredients, rs)
    <2>1. \A x \in DOMAIN d.events : d.events[x].owner # u
      BY <1>3 DEF Own
    <2> QED BY <1>2, <1>5, <2>1, EventsOver DEF Sound
  <1>9. ListsOK(d.lists, d.ingredients, rs)
    <2>1. \A x \in DOMAIN d.lists : d.lists[x].owner # u
      BY <1>3 DEF Own
    <2> QED BY <1>2, <1>5, <2>1, ListsOver DEF Sound
  <1>10. BasketOK(d.basket, rs, d.users)
    <2>1. RecipesIn(d.basket[u]) = {}
      BY <1>3 DEF RecipesIn
    <2>2. \A v \in User \ {u} : \A rc \in RecipesIn(d.basket[v]) :
            v \in d.users /\ rc \in Sees(rs, v) /\ rs[rc].published
      BY <1>2, <1>5 DEF Sound, BasketOK, Sees
    <2> QED BY <1>2, <2>1, <2>2 DEF Sound, BasketOK
  <1>11. /\ ListsOK(ls, d.ingredients, rs) /\ OwnersIn(ls, d.users)
         /\ Own(ls, u) = {} /\ Loses(o.lists, ls, u)
    <2>1. OwnersIn(d.lists, d.users) /\ Loses(o.lists, d.lists, u)
      BY <1>2 DEF Sound, Left
    <2> DEFINE old == d.lists
    <2> HIDE DEF old
    <2> QED BY <1>3, <1>4, <1>9, <2>1, SameListsFacts DEF old
  <1>12. Sound(e)
    BY <1>1, <1>2, <1>5, <1>7, <1>8, <1>10, <1>11 DEF Sound, Shaped
  <1>13. Left(o, e, u)
    BY <1>1, <1>2, <1>6, <1>11 DEF Left
  <1>14. Cleared(7, o, e, u)
    BY <1>1, <1>2, <1>5, <1>11 DEF Cleared
  <1> QED BY <1>12, <1>13, <1>14 DEF TornDown

LEMMA IngredientsGo ==
  ASSUME NEW o, NEW d, NEW u \in User, TornDown(7, o, d, u),
         NEW e, e = After("ingredients", u, d)
  PROVE  TornDown(8, o, e, u)
  <1> DEFINE ings == Restricted(d.ingredients, Own(d.ingredients, u))
             ls == [l \in DOMAIN d.lists |->
                      [d.lists[l] EXCEPT !.items = Nulled(@, Own(d.ingredients, u))]]
  <1>1. /\ Shaped(e) /\ e.ingredients = ings /\ e.lists = ls
        /\ e.users = d.users /\ e.profile = d.profile /\ e.categories = d.categories
        /\ e.recipes = d.recipes /\ e.events = d.events /\ e.stock = d.stock
        /\ e.basket = d.basket
    <2>1. d = [f \in Fields |-> d[f]]
      BY DEF TornDown, Sound
    <2>2. e = [d EXCEPT !.ingredients = ings, !.lists = ls]
      BY DEF After
    <2> HIDE DEF ings, ls
    <2> QED BY <2>1, <2>2 DEF Shaped, Fields
  <1>2. Sound(d) /\ Left(o, d, u) /\ Cleared(7, o, d, u)
    BY DEF TornDown
  <1>3. /\ Own(d.lists, u) = {} /\ d.basket[u] = <<>> /\ Own(d.events, u) = {}
        /\ \A key \in DOMAIN d.stock : key[1] # u
        /\ Own(d.recipes, u) = {}
    BY <1>2 DEF Cleared
  <1>4. SameLists(ls, d.lists)
    <2> SUFFICES ASSUME NEW l \in DOMAIN d.lists
                 PROVE  ls[l] = d.lists[l]
      BY DEF SameLists
    <2> DEFINE row == d.lists[l]
    <2>1. /\ row \in ListRow /\ row.owner # u
          /\ row.items \subseteq Sees(d.ingredients, row.owner) \cup {None}
      BY <1>2, <1>3 DEF Sound, ListsOK, ListRefers, Table, Own
    <2>2. Nulled(row.items, Own(d.ingredients, u)) = row.items
      BY <2>1, NulledIsSame
    <2> HIDE DEF row
    <2>3. [row EXCEPT !.items = row.items] = row
      BY <2>1 DEF ListRow
    <2> QED BY <2>2, <2>3 DEF row
  <1>5. /\ Own(ings, u) = {} /\ OwnersIn(ings, d.users)
        /\ Table(ings, IngredientId, IngredientRow) /\ OneOfEach(ings)
        /\ \A v : v # u => Sees(d.ingredients, v) \subseteq Sees(ings, v)
        /\ \A x \in DOMAIN ings : x \in DOMAIN d.ingredients /\ ings[x] = d.ingredients[x]
    BY <1>2, RestrictedFacts DEF Sound, IngredientsOK
  <1>6. Loses(o.ingredients, ings, u)
    BY <1>2, RestrictedFacts, LosesMore DEF Left
  <1> HIDE DEF ings, ls
  <1>7. IngredientsOK(ings, d.categories)
    BY <1>2, <1>5 DEF Sound, IngredientsOK
  <1>8. EventsOK(d.events, ings, d.recipes)
    <2>1. \A x \in DOMAIN d.events : d.events[x].owner # u
      BY <1>3 DEF Own
    <2> QED BY <1>2, <1>5, <2>1, EventsOver DEF Sound
  <1>9. ListsOK(d.lists, ings, d.recipes)
    <2>1. \A x \in DOMAIN d.lists : d.lists[x].owner # u
      BY <1>3 DEF Own
    <2> QED BY <1>2, <1>5, <2>1, ListsOver DEF Sound
  <1>10. StockOK(d.stock, ings, d.users)
    BY <1>2, <1>3, <1>5, StockOver DEF Sound
  <1>11. RecipesOK(d.recipes, ings)
    <2>1. \A x \in DOMAIN d.recipes : d.recipes[x].owner # u
      BY <1>3 DEF Own
    <2> QED BY <1>2, <1>5, <2>1, RecipesOver DEF Sound
  <1>12. /\ ListsOK(ls, ings, d.recipes) /\ OwnersIn(ls, d.users)
         /\ Own(ls, u) = {} /\ Loses(o.lists, ls, u)
    <2>1. OwnersIn(d.lists, d.users) /\ Loses(o.lists, d.lists, u)
      BY <1>2 DEF Sound, Left
    <2> DEFINE old == d.lists
    <2> HIDE DEF old
    <2> QED BY <1>3, <1>4, <1>9, <2>1, SameListsFacts DEF old
  <1>13. Sound(e)
    BY <1>1, <1>2, <1>5, <1>7, <1>8, <1>10, <1>11, <1>12 DEF Sound, Shaped
  <1>14. Left(o, e, u)
    BY <1>1, <1>2, <1>6, <1>12 DEF Left
  <1>15. Cleared(8, o, e, u)
    BY <1>1, <1>2, <1>5, <1>12 DEF Cleared
  <1> QED BY <1>13, <1>14, <1>15 DEF TornDown

LEMMA CategoriesGo ==
  ASSUME NEW o, NEW d, NEW u \in User, TornDown(8, o, d, u),
         NEW e, e = After("categories", u, d)
  PROVE  TornDown(9, o, e, u)
  <1> DEFINE cats == Restricted(d.categories, Own(d.categories, u))
  <1>1. /\ Shaped(e) /\ e.categories = cats
        /\ e.users = d.users /\ e.profile = d.profile /\ e.ingredients = d.ingredients
        /\ e.recipes = d.recipes /\ e.events = d.events /\ e.stock = d.stock
        /\ e.basket = d.basket /\ e.lists = d.lists
    <2>1. d = [f \in Fields |-> d[f]]
      BY DEF TornDown, Sound
    <2> QED BY <2>1 DEF Shaped, Fields, After
  <1>2. Sound(d) /\ Left(o, d, u) /\ Cleared(8, o, d, u)
    BY DEF TornDown
  <1>3. Own(d.ingredients, u) = {}
    BY <1>2 DEF Cleared
  <1>4. /\ Own(cats, u) = {} /\ OwnersIn(cats, d.users) /\ CategoriesOK(cats)
        /\ \A v : v # u => Sees(d.categories, v) \subseteq Sees(cats, v)
    BY <1>2, RestrictedFacts DEF Sound, CategoriesOK
  <1>5. Loses(o.categories, cats, u)
    BY <1>2, RestrictedFacts, LosesMore DEF Left
  <1> HIDE DEF cats
  <1>6. IngredientsOK(d.ingredients, cats)
    BY <1>2, <1>3, <1>4, IngredientsOver DEF Sound, Own
  <1>7. Sound(e)
    BY <1>1, <1>2, <1>4, <1>6 DEF Sound, Shaped
  <1>8. Left(o, e, u)
    BY <1>1, <1>2, <1>5 DEF Left
  <1>9. Cleared(9, o, e, u)
    BY <1>1, <1>2, <1>4 DEF Cleared
  <1> QED BY <1>7, <1>8, <1>9 DEF TornDown

LEMMA UserGoes ==
  ASSUME NEW o, NEW d, NEW u \in User, TornDown(9, o, d, u),
         NEW e, e = After("users", u, d)
  PROVE  TornDown(10, o, e, u)
  <1> DEFINE users == d.users \ {u}
             profile == [d.profile EXCEPT ![u] = DefaultProfile]
  <1>1. /\ Shaped(e) /\ e.users = users /\ e.profile = profile
        /\ e.categories = d.categories /\ e.ingredients = d.ingredients
        /\ e.recipes = d.recipes /\ e.events = d.events /\ e.stock = d.stock
        /\ e.basket = d.basket /\ e.lists = d.lists
    <2>1. d = [f \in Fields |-> d[f]]
      BY DEF TornDown, Sound
    <2> QED BY <2>1 DEF Shaped, Fields, After
  <1>2. Sound(d) /\ Left(o, d, u) /\ Cleared(9, o, d, u)
    BY DEF TornDown
  <1>3. /\ Own(d.lists, u) = {} /\ d.basket[u] = <<>> /\ Own(d.events, u) = {}
        /\ \A key \in DOMAIN d.stock : key[1] # u
        /\ Own(d.recipes, u) = {} /\ Own(d.ingredients, u) = {}
        /\ Own(d.categories, u) = {} /\ d.users = o.users
    BY <1>2 DEF Cleared
  <1>4. profile \in [User -> Profile] /\ \A v \in User \ {u} : profile[v] = d.profile[v]
    <2> DEFINE f == d.profile
    <2>1. f \in [User -> Profile] /\ DefaultProfile \in Profile
      BY <1>2, ImportAssumption DEF Sound
    <2> HIDE DEF f
    <2>2. LET g == [f EXCEPT ![u] = DefaultProfile]
          IN  g \in [User -> Profile] /\ \A v \in User \ {u} : g[v] = f[v]
      BY <2>1
    <2> QED BY <2>2 DEF f
  <1>5. /\ OwnersIn(d.categories, users) /\ OwnersIn(d.ingredients, users)
        /\ OwnersIn(d.recipes, users) /\ OwnersIn(d.events, users) /\ OwnersIn(d.lists, users)
    <2>1. ASSUME NEW t, OwnersIn(t, d.users), Own(t, u) = {}
          PROVE  OwnersIn(t, users)
      BY <2>1 DEF OwnersIn, Own
    <2> QED BY <1>2, <1>3, <2>1 DEF Sound
  <1>6. StockOK(d.stock, d.ingredients, users)
    BY <1>2, <1>3 DEF Sound, StockOK
  <1>7. BasketOK(d.basket, d.recipes, users)
    <2>1. RecipesIn(d.basket[u]) = {}
      BY <1>3 DEF RecipesIn
    <2> QED BY <1>2, <2>1 DEF Sound, BasketOK
  <1>8. users \subseteq User /\ users = o.users \ {u}
    BY <1>2, <1>3 DEF Sound
  <1> HIDE DEF users, profile
  <1>9. Sound(e)
    BY <1>1, <1>2, <1>4, <1>5, <1>6, <1>7, <1>8 DEF Sound, Shaped
  <1>10. Left(o, e, u)
    BY <1>1, <1>2, <1>4, <1>8 DEF Left
  <1>11. Cleared(10, o, e, u)
    BY <1>1, <1>3, <1>8 DEF Cleared
  <1> QED BY <1>9, <1>10, <1>11 DEF TornDown

\* What is sound meets no key that restricts.
LEMMA SoundIntact ==
  ASSUME NEW d, Sound(d)
  PROVE  Intact(d)
  <1>1. \A c \in DOMAIN d.categories : d.categories[c].owner \in d.users \cup {None}
    BY DEF Sound, OwnersIn
  <1>2. \A i \in DOMAIN d.ingredients : /\ d.ingredients[i].owner \in d.users \cup {None}
                                        /\ d.ingredients[i].category \in DOMAIN d.categories
    BY DEF Sound, OwnersIn, IngredientsOK, Sees
  <1>3. \A key \in DOMAIN d.stock : key[1] \in d.users /\ key[2] \in DOMAIN d.ingredients
    BY DEF Sound, StockOK, Sees
  <1>4. \A rc \in DOMAIN d.recipes :
          /\ d.recipes[rc].owner \in d.users \cup {None}
          /\ DOMAIN d.recipes[rc].parts \subseteq DOMAIN d.ingredients
    BY DEF Sound, OwnersIn, RecipesOK, Sees
  <1>5. ASSUME NEW e \in DOMAIN d.events
        PROVE  /\ d.events[e].owner \in d.users
               /\ DOMAIN d.events[e].changes \subseteq DOMAIN d.ingredients
               /\ d.events[e].recipe \in DOMAIN d.recipes \cup {None}
               /\ d.events[e].reversalOf \in DOMAIN d.events \cup {None}
    <2>1. d.events[e] \in EventRow /\ EventRefers(d.events[e], d.events, d.ingredients, d.recipes)
      BY DEF Sound, EventsOK, Table
    <2>2. d.events[e].owner \in d.users
      BY <2>1, ImportAssumption DEF Sound, OwnersIn, EventRow
    <2> QED BY <2>1, <2>2 DEF EventRefers, Sees, Own
  <1>6. \A u \in User : \A k \in DOMAIN d.basket[u] :
          u \in d.users /\ d.basket[u][k].recipe \in DOMAIN d.recipes
    <2> SUFFICES ASSUME NEW u \in User, NEW k \in DOMAIN d.basket[u]
                 PROVE  u \in d.users /\ d.basket[u][k].recipe \in DOMAIN d.recipes
      OBVIOUS
    <2>1. d.basket[u][k].recipe \in RecipesIn(d.basket[u])
      BY DEF RecipesIn
    <2> QED BY <2>1 DEF Sound, BasketOK, Sees
  <1> QED BY <1>1, <1>2, <1>3, <1>4, <1>5, <1>6 DEF Intact

LEMMA StatementPermitted ==
  ASSUME NEW n \in 0 .. 9, NEW o, NEW d, NEW u \in User, TornDown(n, o, d, u)
  PROVE  /\ TornDown(n + 1, o, After(TeardownOrder[n + 1], u, d), u)
         /\ Permitted(TeardownOrder[n + 1], u, d)
  <1> DEFINE s == TeardownOrder[n + 1]
  <1>1. TornDown(n + 1, o, After(s, u, d), u)
    <2>1. CASE n = 0
      BY <2>1, ListsGo DEF TeardownOrder
    <2>2. CASE n = 1
      BY <2>2, BasketGoes DEF TeardownOrder
    <2>3. CASE n = 2
      BY <2>3, ChangesGo DEF TeardownOrder
    <2>4. CASE n = 3
      BY <2>4, ReversalsGo DEF TeardownOrder
    <2>5. CASE n = 4
      BY <2>5, EventsGo DEF TeardownOrder
    <2>6. CASE n = 5
      BY <2>6, StockGoes DEF TeardownOrder
    <2>7. CASE n = 6
      BY <2>7, RecipesGo DEF TeardownOrder
    <2>8. CASE n = 7
      BY <2>8, IngredientsGo DEF TeardownOrder
    <2>9. CASE n = 8
      BY <2>9, CategoriesGo DEF TeardownOrder
    <2>10. CASE n = 9
      BY <2>10, UserGoes DEF TeardownOrder
    <2> QED BY <2>1, <2>2, <2>3, <2>4, <2>5, <2>6, <2>7, <2>8, <2>9, <2>10
  <1>2. s = "events" => n = 4
    BY DEF TeardownOrder
  <1>3. n = 4 => \A e \in Own(d.events, u) : DOMAIN d.events[e].changes = {}
    BY DEF TornDown, Cleared
  <1> HIDE DEF s
  <1>4. Intact(After(s, u, d))
    BY <1>1, SoundIntact DEF TornDown
  <1> QED BY <1>1, <1>2, <1>3, <1>4 DEF Permitted, s

\* What is left to do after n statements.
Rest(n) == [k \in 1 .. 10 - n |-> [kind |-> "delete", raw |-> TeardownOrder[k + n]]]

LEMMA RestFacts ==
  ASSUME NEW n \in 0 .. 10
  PROVE  /\ n = 10 => Rest(n) = <<>>
         /\ n < 10 => /\ Rest(n) # <<>> /\ Head(Rest(n)).kind = "delete"
                      /\ Head(Rest(n)).raw = TeardownOrder[n + 1]
                      /\ Tail(Rest(n)) = Rest(n + 1)
  <1> DEFINE item(k) == [kind |-> "delete", raw |-> TeardownOrder[k]]
             S == {item(k) : k \in 1 .. 10}
             todo == Rest(n)
  <1>1. todo \in Seq(S) /\ Len(todo) = 10 - n /\ \A k \in 1 .. 10 - n : todo[k] = item(k + n)
    <2>1. \A k \in 1 .. 10 - n : k + n \in 1 .. 10
      OBVIOUS
    <2>2. todo = [k \in 1 .. 10 - n |-> item(k + n)]
      BY DEF Rest
    <2> HIDE DEF item, todo
    <2>3. todo \in [1 .. 10 - n -> S] /\ 10 - n \in Nat
      BY <2>1, <2>2
    <2> HIDE DEF S
    <2>4. todo \in Seq(S) /\ Len(todo) = 10 - n
      BY <2>3
    <2> QED BY <2>2, <2>4
  <1>2. n = 10 => todo = <<>>
    <2> HIDE DEF S, todo, item
    <2> QED BY <1>1
  <1>3. ASSUME n < 10
        PROVE  todo # <<>> /\ Head(todo) = item(n + 1) /\ Tail(todo) = Rest(n + 1)
    <2> DEFINE f == Tail(todo)
               g == Rest(n + 1)
    <2> HIDE DEF todo, S, item
    <2>1. todo # <<>> /\ Head(todo) = item(n + 1)
      BY <1>1, <1>3
    <2>2. /\ f \in Seq(S) /\ Len(f) = 9 - n
          /\ \A k \in 1 .. 9 - n : f[k] = todo[k + 1]
      BY <1>1, <1>3
    <2>3. \A k \in 1 .. 9 - n : f[k] = item(k + 1 + n)
      BY <1>1, <1>3, <2>2
    <2>4. g = [k \in 1 .. 9 - n |-> item(k + 1 + n)]
      <3>1. 10 - (n + 1) = 9 - n /\ \A k \in 1 .. 9 - n : k + (n + 1) = k + 1 + n
        OBVIOUS
      <3> QED BY <3>1 DEF Rest, item
    <2> HIDE DEF f, g
    <2>5. f = g
      <3>1. f = [k \in 1 .. 9 - n |-> f[k]]
        BY <1>3, <2>2
      <3> QED BY <2>3, <2>4, <3>1
    <2> QED BY <2>1, <2>5 DEF f, g
  <1> QED BY <1>2, <1>3

Deleting ==
    /\ Sound(db)
    /\ tx # None /\ tx = [f \in TxFields |-> tx[f]]
    /\ tx.user \in db.users
    /\ Sound(tx.db)
    /\ tx.op = "delete" /\ DeleteOK(tx, db)

LEMMA NextStatement ==
  ASSUME Deleting, tx.todo # <<>>
  PROVE  \E n \in 0 .. 9 :
           /\ TornDown(n, db, tx.db, tx.user)
           /\ Doing("delete") /\ Raw = TeardownOrder[n + 1] /\ Tail(tx.todo) = Rest(n + 1)
  <1>1. PICK n \in 0 .. 10 : tx.todo = Rest(n) /\ Cleared(n, db, tx.db, tx.user)
    BY DEF Deleting, DeleteOK, Rest
  <1>2. n \in 0 .. 9
    BY <1>1, RestFacts
  <1>3. /\ Head(tx.todo).kind = "delete" /\ Raw = TeardownOrder[n + 1]
        /\ Tail(tx.todo) = Rest(n + 1)
    <2>1. /\ Head(Rest(n)).kind = "delete" /\ Head(Rest(n)).raw = TeardownOrder[n + 1]
          /\ Tail(Rest(n)) = Rest(n + 1)
      <3>1. n \in 0 .. 10 /\ n < 10
        BY <1>2
      <3> QED BY <3>1, RestFacts
    <2> QED BY <1>1, <2>1 DEF Raw
  <1>4. TornDown(n, db, tx.db, tx.user)
    BY <1>1 DEF TornDown, Deleting, DeleteOK
  <1> QED BY <1>2, <1>3, <1>4 DEF Deleting, Doing

LEMMA DeleteGoesOn ==
  ASSUME Deleting, DeleteStep
  PROVE  /\ db' = db /\ last' = last /\ imports' = imports
         /\ tx' = [f \in TxFields |-> tx'[f]] /\ tx'.user = tx.user /\ Sound(tx'.db)
         /\ tx'.op = "delete" /\ DeleteOK(tx', db)
  <1> DEFINE u == tx.user
  <1>1. PICK n \in 0 .. 9 : /\ TornDown(n, db, tx.db, u)
                            /\ Raw = TeardownOrder[n + 1] /\ Tail(tx.todo) = Rest(n + 1)
    BY NextStatement DEF DeleteStep, Doing
  <1> DEFINE d == After(Raw, u, tx.db)
  <1>2. u \in User
    BY DEF Deleting, Sound
  <1>3. TornDown(n + 1, db, d, u)
    BY <1>1, <1>2, StatementPermitted
  <1>4. /\ tx' = [f \in TxFields |-> tx'[f]]
        /\ tx'.op = tx.op /\ tx'.user = tx.user /\ tx'.todo = Rest(n + 1)
        /\ tx'.map = tx.map /\ tx'.db = d
    <2>1. Turn(tx.map, d, {})
      BY DEF DeleteStep, Done
    <2> HIDE DEF d
    <2> QED BY <1>1, <2>1 DEF TxFields, Turn, Deleting
  <1>5. /\ db' = db /\ last' = last /\ imports' = imports
    BY DEF DeleteStep, Done, Turn
  <1> HIDE DEF d
  <1>6. DeleteOK(tx', db)
    <2>1. n + 1 \in 0 .. 10
      OBVIOUS
    <2>2. tx'.map = <<>> /\ Left(db, tx'.db, tx'.user)
      BY <1>3, <1>4 DEF Deleting, DeleteOK, TornDown
    <2>3. tx'.todo = Rest(n + 1) /\ Cleared(n + 1, db, tx'.db, tx'.user)
      BY <1>3, <1>4 DEF TornDown
    <2> QED BY <2>1, <2>2, <2>3 DEF DeleteOK, Rest
  <1> QED BY <1>3, <1>4, <1>5, <1>6 DEF Deleting, TornDown

LEMMA BeginsDelete ==
  ASSUME Sound(db), NEW u \in User, BeginDelete(u)
  PROVE  /\ tx' = [f \in TxFields |-> tx'[f]] /\ tx'.user \in db.users
         /\ tx'.db = db /\ tx'.op = "delete" /\ DeleteOK(tx', db)
  <1> DEFINE todo == Tagged("delete", TeardownOrder)
  <1>1. todo = Rest(0)
    <2>1. DOMAIN TeardownOrder = 1 .. 10 /\ \A k \in 1 .. 10 : k + 0 = k
      BY DEF TeardownOrder
    <2> QED BY <2>1 DEF Tagged, Rest
  <1>2. /\ tx' = [f \in TxFields |-> tx'[f]] /\ tx'.op = "delete" /\ tx'.user = u
        /\ tx'.todo = todo /\ tx'.map = <<>> /\ tx'.db = db
    BY DEF BeginDelete, Transaction, TxFields
  <1> HIDE DEF todo
  <1>3. Left(db, db, u)
    BY DEF Left, Loses
  <1>4. Cleared(0, db, db, u)
    BY DEF Cleared
  <1>5. \E n \in 0 .. 10 : tx'.todo = Rest(n) /\ Cleared(n, db, db, u)
    BY <1>1, <1>2, <1>4
  <1> QED BY <1>2, <1>3, <1>5 DEF DeleteOK, Rest, BeginDelete

-----------------------------------------------------------------------------
(* The invariant.                                                          *)

LEMMA InvCases ==
  ASSUME ImportInv, tx # None
  PROVE  Importing \/ Deleting
  BY DEF ImportInv, Importing, Deleting

\* Nothing is left to do of one kind while the other transaction is open.
LEMMA OwnSteps ==
  ASSUME ImportInv
  PROVE  (ImportStep => Importing) /\ (DeleteStep => Deleting)
  <1>1. ASSUME ImportStep
        PROVE  Importing
    <2>1. \/ Doing("category") \/ Doing("ingredient") \/ Doing("profile") \/ Doing("balance")
          \/ Doing("recipe") \/ Doing("event") \/ Doing("reversal") \/ Doing("basket")
          \/ Doing("list")
      <3> HIDE DEF ImportInv
      <3> QED BY <1>1 DEF ImportStep, ImportCategory, ImportIngredient, ImportProfile,
                ImportBalance, ImportRecipe, ImportEvent, LinkReversal, ImportBasket, ImportList
    <2>2. ~Deleting
      BY <2>1, NextStatement DEF Doing
    <2> QED BY <2>1, <2>2, InvCases DEF Doing
  <1>2. ASSUME DeleteStep
        PROVE  Deleting
    <2>1. Doing("delete")
      BY <1>2 DEF DeleteStep
    <2>2. ~Importing
      <3>1. ASSUME Importing
            PROVE  FALSE
        <4>1. Head(tx.todo) \in WorkItem(tx.state) /\ Head(tx.todo).kind = "delete"
          BY <2>1, <3>1, HeadItem
        <4> QED BY <4>1 DEF WorkItem
      <3> QED BY <3>1
    <2> QED BY <2>1, <2>2, InvCases DEF Doing
  <1> QED BY <1>1, <1>2

LEMMA ImportStart == ImportInit => ImportInv
  <1> SUFFICES ASSUME ImportInit PROVE ImportInv
    OBVIOUS
  <1>1. db = [users |-> User, profile |-> [u \in User |-> DefaultProfile],
              categories |-> GlobalCategories, ingredients |-> GlobalIngredients,
              stock |-> <<>>, recipes |-> GlobalRecipes, events |-> <<>>,
              basket |-> [u \in User |-> <<>>], lists |-> <<>>]
    BY DEF ImportInit
  <1>2. /\ Shaped(db) /\ db.users = User /\ db.profile = [u \in User |-> DefaultProfile]
        /\ db.categories = GlobalCategories /\ db.ingredients = GlobalIngredients
        /\ db.stock = <<>> /\ db.recipes = GlobalRecipes /\ db.events = <<>>
        /\ db.basket = [u \in User |-> <<>>] /\ db.lists = <<>>
    BY <1>1 DEF Shaped, Fields
  <1>3. DOMAIN <<>> = {}
    OBVIOUS
  <1>4. CategoriesOK(GlobalCategories) /\ OwnersIn(GlobalCategories, User)
    BY GlobalAssumption DEF CategoriesOK, OwnersIn, Table, OneOfEach, Sees
  <1>5. IngredientsOK(GlobalIngredients, GlobalCategories) /\ OwnersIn(GlobalIngredients, User)
    <2>1. /\ Table(GlobalIngredients, IngredientId, IngredientRow)
          /\ OneOfEach(GlobalIngredients) /\ OwnersIn(GlobalIngredients, User)
      BY GlobalAssumption DEF OwnersIn, Table, OneOfEach, Sees
    <2>2. \A i \in DOMAIN GlobalIngredients :
            GlobalIngredients[i].category \in Sees(GlobalCategories, GlobalIngredients[i].owner)
      BY GlobalAssumption DEF Sees
    <2> QED BY <2>1, <2>2 DEF IngredientsOK
  <1>6. RecipesOK(GlobalRecipes, GlobalIngredients) /\ OwnersIn(GlobalRecipes, User)
    BY GlobalAssumption DEF RecipesOK, OwnersIn, Table, Sees
  <1>7. /\ StockOK(<<>>, GlobalIngredients, User)
        /\ EventsOK(<<>>, GlobalIngredients, GlobalRecipes) /\ OwnersIn(<<>>, User)
        /\ ListsOK(<<>>, GlobalIngredients, GlobalRecipes)
    BY <1>3 DEF StockOK, EventsOK, ListsOK, OwnersIn, Table
  <1>8. BasketOK([u \in User |-> <<>>], GlobalRecipes, User)
    <2>1. RecipesIn(<<>>) = {}
      BY DEF RecipesIn
    <2>2. [u \in User |-> <<>>] \in [User -> Seq(Portion)]
      OBVIOUS
    <2> QED BY <2>1, <2>2 DEF BasketOK
  <1>9. [u \in User |-> DefaultProfile] \in [User -> Profile]
    BY ImportAssumption
  <1>10. Sound(db)
    BY <1>2, <1>4, <1>5, <1>6, <1>7, <1>8, <1>9 DEF Sound, Shaped
  <1>11. /\ last \in [User -> DeviceState \cup {None}] /\ imports \in 0 .. MaxImports
         /\ tx = None
    BY ImportAssumption DEF ImportInit
  <1> QED BY <1>10, <1>11 DEF ImportInv

LEMMA ImportStays == ImportInv /\ [ImportNext]_importVars => ImportInv'
  <1> SUFFICES ASSUME ImportInv, [ImportNext]_importVars
               PROVE  ImportInv'
    OBVIOUS
  <1> USE DEF ImportInv
  <1>1. ASSUME NEW u \in User, NEW s \in DeviceState, BeginImport(u, s)
        PROVE  ImportInv'
    <2>1. /\ db' = db /\ last' = last /\ imports' = imports + 1 /\ imports < MaxImports
      BY <1>1 DEF BeginImport
    <2>2. imports' \in 0 .. MaxImports
      BY <2>1, ImportAssumption
    <2>3. /\ tx' = [f \in TxFields |-> tx'[f]] /\ tx'.user \in db.users
          /\ tx'.db = db /\ tx'.op = "import" /\ ImportOK(tx', db)
      BY <1>1, BeginsImport
    <2> QED BY <2>1, <2>2, <2>3
  <1>2. ASSUME NEW u \in User, AccountStep(u)
        PROVE  ImportInv'
    <2>1. Sound(db')
      BY <1>2, AccountKeepsSound
    <2>2. tx = None /\ tx' = tx /\ imports' = imports /\ last' = [last EXCEPT ![u] = None]
      BY <1>2 DEF AccountStep, ArchiveCategory, ArchiveIngredient, SetStock, ClearBasket,
         DeleteList, Mutation
    <2> QED BY <2>1, <2>2
  <1>3. ASSUME NEW u \in User, BeginDelete(u)
        PROVE  ImportInv'
    <2>1. /\ db' = db /\ last' = last /\ imports' = imports
      BY <1>3 DEF BeginDelete
    <2>2. /\ tx' = [f \in TxFields |-> tx'[f]] /\ tx'.user \in db.users
          /\ tx'.db = db /\ tx'.op = "delete" /\ DeleteOK(tx', db)
      BY <1>3, BeginsDelete
    <2> QED BY <2>1, <2>2
  <1>4. ASSUME ImportStep
        PROVE  ImportInv'
    <2>1. Importing
      BY <1>4, OwnSteps
    <2>2. GoesOn
      BY <1>4, <2>1, ImportGoesOn
    <2> QED BY <2>1, <2>2 DEF GoesOn, Importing
  <1>5. ASSUME DeleteStep
        PROVE  ImportInv'
    <2>1. Deleting
      BY <1>5, OwnSteps
    <2>2. /\ db' = db /\ last' = last /\ imports' = imports
          /\ tx' = [f \in TxFields |-> tx'[f]] /\ tx'.user = tx.user /\ Sound(tx'.db)
          /\ tx'.op = "delete" /\ DeleteOK(tx', db)
      BY <1>5, <2>1, DeleteGoesOn
    <2> QED BY <2>1, <2>2 DEF Deleting
  <1>6. ASSUME Commit
        PROVE  ImportInv'
    <2>1. /\ db' = tx.db /\ tx' = None /\ imports' = imports /\ Sound(tx.db)
          /\ last' = [last EXCEPT ![tx.user] = IF tx.op = "import" THEN tx.state ELSE None]
      BY <1>6 DEF Commit
    <2>2. (IF tx.op = "import" THEN tx.state ELSE None) \in DeviceState \cup {None}
      BY <1>6 DEF Commit, ImportOK
    <2> DEFINE x == IF tx.op = "import" THEN tx.state ELSE None
    <2>3. last' \in [User -> DeviceState \cup {None}]
      <3>1. last' = [last EXCEPT ![tx.user] = x] /\ x \in DeviceState \cup {None}
        BY <2>1, <2>2
      <3> HIDE DEF x
      <3> QED BY <3>1
    <2> QED BY <2>1, <2>3
  <1>7. ASSUME Abort
        PROVE  ImportInv'
    BY <1>7 DEF Abort
  <1>8. CASE UNCHANGED importVars
    BY <1>8 DEF importVars
  <1> HIDE DEF ImportInv
  <1> QED BY <1>1, <1>2, <1>3, <1>4, <1>5, <1>6, <1>7, <1>8 DEF ImportNext

LEMMA ImportAlways == ImportSpec => []ImportInv
  BY ImportStart, ImportStays, PTL DEF ImportSpec

-----------------------------------------------------------------------------
(* The properties.                                                         *)

LEMMA SoundTables ==
  ASSUME NEW d, Sound(d)
  PROVE  Tables(d)
  BY DEF Sound, Tables, CategoriesOK, IngredientsOK, StockOK, RecipesOK, EventsOK,
     BasketOK, ListsOK

\* Every row that an import or a teardown leaves, in its own copy too, is one
\* that the schema admits (models.py:81-349).
THEOREM ImportTyped == ImportSpec => []ImportTypeOK
  <1>1. ImportInv => ImportTypeOK
    <2> SUFFICES ASSUME ImportInv PROVE ImportTypeOK
      OBVIOUS
    <2>1. Tables(db) /\ last \in [User -> DeviceState \cup {None}] /\ imports \in 0 .. MaxImports
      BY SoundTables DEF ImportInv
    <2> DEFINE Ids == CategoryId \cup IngredientId \cup RecipeId \cup EventId \cup ListId
    <2>2. ASSUME tx # None
          PROVE  /\ tx.op \in {"import", "delete"} /\ tx.user \in db.users
                 /\ Tables(tx.db)
      BY <2>2, SoundTables DEF ImportInv
    <2>3. ASSUME tx # None
          PROVE  Table(tx.map, LocalId, Ids)
      <3>1. CASE Deleting
        BY <3>1 DEF Deleting, DeleteOK, Table
      <3>2. CASE Importing
        <4>1. Known(db, tx.db, tx.user) \subseteq Ids
          BY <2>2, <2>3 DEF Known, Sees, Own, Tables, Table
        <4>2. MapOK(tx.map, db, tx.db, tx.user)
          BY <3>2 DEF Importing, ImportOK
        <4> HIDE DEF Ids
        <4> QED BY <4>1, <4>2 DEF MapOK, Table
      <3> QED BY <2>3, <3>1, <3>2, InvCases
    <2> QED BY <2>1, <2>2, <2>3 DEF ImportTypeOK
  <1> QED BY <1>1, ImportAlways, PTL

\* Each account refers to its own rows and to global ones, so the deletion of
\* none is refused (full_services.py:1186-1264, account.py:321-346).
THEOREM ReferencesInside == ImportSpec => []ReferencesStayInside
  <1> DEFINE inside(u, table, ids) == \A id \in ids : table[id].owner \in {None, u}
  <1>1. ASSUME Sound(db)
        PROVE  ReferencesStayInside
    <2> DEFINE d == db
    <2>1. \A i \in DOMAIN db.ingredients :
            inside(db.ingredients[i].owner, db.categories, {db.ingredients[i].category})
      BY <1>1 DEF Sound, IngredientsOK, Sees
    <2>2. \A key \in DOMAIN db.stock : inside(key[1], db.ingredients, {key[2]})
      BY <1>1 DEF Sound, StockOK, Sees
    <2>3. \A rc \in DOMAIN db.recipes :
            inside(db.recipes[rc].owner, db.ingredients, DOMAIN db.recipes[rc].parts)
      BY <1>1 DEF Sound, RecipesOK, Sees
    <2>4. \A e \in DOMAIN db.events :
            LET row == db.events[e]
            IN  /\ inside(row.owner, db.ingredients, DOMAIN row.changes)
                /\ inside(row.owner, db.recipes, {row.recipe} \ {None})
                /\ row.reversalOf # None => db.events[row.reversalOf].owner = row.owner
      <3> SUFFICES ASSUME NEW e \in DOMAIN db.events
                   PROVE  LET row == db.events[e]
                          IN  /\ inside(row.owner, db.ingredients, DOMAIN row.changes)
                              /\ inside(row.owner, db.recipes, {row.recipe} \ {None})
                              /\ row.reversalOf # None =>
                                   db.events[row.reversalOf].owner = row.owner
        OBVIOUS
      <3>1. EventRefers(db.events[e], db.events, db.ingredients, db.recipes)
        BY <1>1 DEF Sound, EventsOK
      <3> QED BY <3>1 DEF EventRefers, Sees, Own
    <2>5. \A u \in User : inside(u, db.recipes, RecipesIn(db.basket[u]))
      BY <1>1 DEF Sound, BasketOK, Sees
    <2>6. \A l \in DOMAIN db.lists :
            /\ inside(db.lists[l].owner, db.recipes, db.lists[l].recipes \ {None})
            /\ inside(db.lists[l].owner, db.ingredients, db.lists[l].items \ {None})
      BY <1>1 DEF Sound, ListsOK, ListRefers, Sees
    <2>7. ASSUME NEW u \in db.users
          PROVE  ~ForeignDependants(u)
      <3>1. u # None
        BY <1>1, ImportAssumption DEF Sound
      <3>2. ~\E i \in DOMAIN db.ingredients \ Own(db.ingredients, u) :
              db.ingredients[i].category \in Own(db.categories, u)
        BY <2>1, <3>1 DEF Own
      <3>3. ~\E rc \in DOMAIN db.recipes \ Own(db.recipes, u) :
              DOMAIN db.recipes[rc].parts \cap Own(db.ingredients, u) # {}
        BY <2>3, <3>1 DEF Own
      <3>4. ~\E key \in DOMAIN db.stock : key[1] # u /\ key[2] \in Own(db.ingredients, u)
        BY <2>2, <3>1 DEF Own
      <3>5. ~\E e \in DOMAIN db.events \ Own(db.events, u) :
              \/ DOMAIN db.events[e].changes \cap Own(db.ingredients, u) # {}
              \/ db.events[e].recipe \in Own(db.recipes, u)
              \/ db.events[e].reversalOf \in Own(db.events, u)
        <4> SUFFICES ASSUME NEW e \in DOMAIN db.events, db.events[e].owner # u
                     PROVE  /\ DOMAIN db.events[e].changes \cap Own(db.ingredients, u) = {}
                            /\ db.events[e].recipe \notin Own(db.recipes, u)
                            /\ db.events[e].reversalOf \notin Own(db.events, u)
          BY DEF Own
        <4>1. EventRefers(db.events[e], db.events, db.ingredients, db.recipes)
          BY <1>1 DEF Sound, EventsOK
        <4>2. None \notin Own(db.recipes, u) /\ None \notin Own(db.events, u)
          BY <1>1, ImportAssumption DEF Sound, RecipesOK, EventsOK, Table, Own
        <4> QED BY <3>1, <4>1, <4>2 DEF EventRefers, Sees, Own
      <3>6. ~\E v \in User \ {u} : \E k \in DOMAIN db.basket[v] :
              db.basket[v][k].recipe \in Own(db.recipes, u)
        <4> SUFFICES ASSUME NEW v \in User \ {u}, NEW k \in DOMAIN db.basket[v]
                     PROVE  db.basket[v][k].recipe \notin Own(db.recipes, u)
          OBVIOUS
        <4>1. db.basket[v][k].recipe \in RecipesIn(db.basket[v])
          BY DEF RecipesIn
        <4> QED BY <2>5, <3>1, <4>1 DEF Own
      <3>7. ~\E l \in DOMAIN db.lists \ Own(db.lists, u) :
              \/ db.lists[l].recipes \cap Own(db.recipes, u) # {}
              \/ db.lists[l].items \cap Own(db.ingredients, u) # {}
        <4> SUFFICES ASSUME NEW l \in DOMAIN db.lists, db.lists[l].owner # u
                     PROVE  /\ db.lists[l].recipes \cap Own(db.recipes, u) = {}
                            /\ db.lists[l].items \cap Own(db.ingredients, u) = {}
          BY DEF Own
        <4>1. ListRefers(db.lists[l], db.ingredients, db.recipes)
          BY <1>1 DEF Sound, ListsOK
        <4>2. None \notin Own(db.recipes, u) /\ None \notin Own(db.ingredients, u)
          BY <1>1, ImportAssumption DEF Sound, RecipesOK, IngredientsOK, Table, Own
        <4> QED BY <3>1, <4>1, <4>2 DEF ListRefers, Sees, Own
      <3> QED BY <3>2, <3>3, <3>4, <3>5, <3>6, <3>7 DEF ForeignDependants
    <2> QED BY <2>1, <2>2, <2>3, <2>4, <2>5, <2>6, <2>7 DEF ReferencesStayInside
  <1>2. ImportInv => ReferencesStayInside
    BY <1>1 DEF ImportInv
  <1> QED BY <1>2, ImportAlways, PTL

LEMMA OneNamed ==
  ASSUME NEW t, OneOfEach(t), NEW u \in User, NEW n
  PROVE  Cardinality(Named(t, u, n)) <= 1
  <1> DEFINE S == Named(t, u, n)
  <1>1. \A a, b \in S : a = b
    BY DEF OneOfEach, Named, Sees
  <1>2. CASE S = {}
    BY <1>2, FS_EmptySet
  <1>3. CASE S # {}
    <2>1. PICK a : a \in S
      BY <1>3
    <2>2. S = {a}
      BY <1>1, <2>1
    <2>3. Cardinality({a}) = 1
      BY FS_Singleton
    <2> QED BY <2>2, <2>3
  <1> QED BY <1>2, <1>3

\* No account sees two Categories or two Ingredients of a name
\* (full_services.py:1195-1198, full_services.py:1230-1239).
THEOREM OneOfAName == ImportSpec => []NoSecondOfAName
  <1>1. ImportInv => NoSecondOfAName
    BY OneNamed DEF ImportInv, Sound, CategoriesOK, IngredientsOK, NoSecondOfAName
  <1> QED BY <1>1, ImportAlways, PTL

\* No import puts a draft into a Basket (full_services.py:1521-1540).
THEOREM BasketsArePublished == ImportSpec => []BasketIsPublished
  <1>1. ImportInv => BasketIsPublished
    BY DEF ImportInv, Sound, BasketOK, BasketIsPublished
  <1> QED BY <1>1, ImportAlways, PTL

\* No foreign key stops a teardown (account.py:345-354 and models.py).
THEOREM TeardownIsFree == ImportSpec => []TeardownNeverBlocked
  <1>1. ImportInv => TeardownNeverBlocked
    <2> SUFFICES ASSUME ImportInv, tx # None, tx.op = "delete", tx.todo # <<>>
                 PROVE  Permitted(Raw, tx.user, tx.db)
      BY DEF TeardownNeverBlocked
    <2>1. Deleting
      BY InvCases DEF Importing
    <2>2. tx.user \in User
      BY <2>1 DEF Deleting, Sound
    <2> QED BY <2>1, <2>2, NextStatement, StatementPermitted
  <1> QED BY <1>1, ImportAlways, PTL

\* The rows of a table that are not u's.
Others(t, u) == [id \in DOMAIN t \ Own(t, u) |-> t[id]]

LEMMA OthersKept ==
  ASSUME NEW o, NEW n, NEW u, Adds(o, n, u) \/ Loses(o, n, u)
  PROVE  Others(n, u) = Others(o, u)
  <1>1. CASE Adds(o, n, u)
    <2>1. DOMAIN n \ Own(n, u) = DOMAIN o \ Own(o, u)
      BY <1>1 DEF Adds, Own
    <2>2. \A id \in DOMAIN o \ Own(o, u) : n[id] = o[id]
      BY <1>1 DEF Adds
    <2> QED BY <2>1, <2>2 DEF Others
  <1>2. CASE Loses(o, n, u)
    <2>1. DOMAIN n \ Own(n, u) = DOMAIN o \ Own(o, u)
      BY <1>2 DEF Loses, Own
    <2>2. \A id \in DOMAIN o \ Own(o, u) : n[id] = o[id]
      BY <1>2 DEF Loses, Own
    <2> QED BY <2>1, <2>2 DEF Others
  <1> QED BY <1>1, <1>2

\* An import overwrites nothing of the server's but what was never set, a
\* teardown leaves nothing of its account, and neither touches what is not the
\* account's (full_services.py:1173, README.md:130).
THEOREM ServerDataStays == ImportSpec => ServerDataIsKept
  <1> DEFINE tables == {"categories", "ingredients", "recipes", "events", "lists"}
             Keeps ==
               tx # None /\ db' # db =>
                 LET u == tx.user
                     others(t) == [id \in DOMAIN t \ Own(t, u) |-> t[id]]
                 IN  /\ \A t \in tables : others(db'[t]) = others(db[t])
                     /\ \A key \in DOMAIN db.stock \cup DOMAIN db'.stock : key[1] # u =>
                          /\ key \in DOMAIN db.stock \cap DOMAIN db'.stock
                          /\ db'.stock[key] = db.stock[key]
                     /\ \A v \in User \ {u} : /\ db'.basket[v] = db.basket[v]
                                              /\ db'.profile[v] = db.profile[v]
                     /\ db'.users = IF tx.op = "delete" THEN db.users \ {u} ELSE db.users
                     /\ tx.op = "delete" => \A t \in tables : Own(db'[t], u) = {}
                     /\ tx.op = "import" =>
                          /\ \A t \in tables : \A id \in DOMAIN db[t] : db'[t][id] = db[t][id]
                          /\ \A key \in DOMAIN db.stock :
                               /\ db.stock[key].quantity \in {0, db'.stock[key].quantity}
                               /\ \A a \in Setting : db.stock[key].preference[a]
                                                       \in {None, db'.stock[key].preference[a]}
                          /\ db.basket[u] \in {<<>>, db'.basket[u]}
                          /\ db.profile[u] \in {DefaultProfile, db'.profile[u]}
                          /\ HasLists(u) => db'.lists = db.lists
  <1>1. ImportInv /\ [ImportNext]_importVars => [Keeps]_importVars
    <2> SUFFICES ASSUME ImportInv, [ImportNext]_importVars, tx # None, db' # db
                 PROVE  Keeps
      OBVIOUS
    <2>1. Commit
      <3>1. ASSUME NEW u \in User
            PROVE  ~AccountStep(u) /\ ~BeginDelete(u) /\ \A s \in DeviceState : ~BeginImport(u, s)
        <4>1. ~AccountStep(u)
          <5>1. ASSUME NEW d
                PROVE  ~Mutation(u, d)
            BY DEF Mutation
          <5> QED BY <5>1 DEF AccountStep, ArchiveCategory, ArchiveIngredient, SetStock,
                    ClearBasket, DeleteList
        <4> QED BY <4>1 DEF BeginImport, BeginDelete
      <3>2. ~ImportStep
        BY OwnSteps, ImportGoesOn DEF GoesOn
      <3>3. ~DeleteStep /\ ~Abort /\ ~UNCHANGED importVars
        BY DEF DeleteStep, Done, Turn, Abort, importVars
      <3> QED BY <3>1, <3>2, <3>3 DEF ImportNext
    <2> DEFINE u == tx.user
    <2>2. db' = tx.db /\ tx.todo = <<>>
      BY <2>1 DEF Commit
    <2>3. ASSUME Importing
          PROVE  Keeps
      <3>1. tx.op = "import" /\ Kept(db, db', u)
        BY <2>2, <2>3 DEF Importing, ImportOK
      <3>2. \A t \in tables : Adds(db[t], db'[t], u)
        BY <3>1 DEF Kept
      <3>3. \A t \in tables : Others(db'[t], u) = Others(db[t], u)
        BY <3>2, OthersKept
      <3>4. \A t \in tables : \A id \in DOMAIN db[t] : db'[t][id] = db[t][id]
        BY <3>2 DEF Adds
      <3>5. \A key \in DOMAIN db.stock \cup DOMAIN db'.stock : key[1] # u =>
              /\ key \in DOMAIN db.stock \cap DOMAIN db'.stock
              /\ db'.stock[key] = db.stock[key]
        BY <3>1 DEF Kept, StockKept
      <3>6. \A key \in DOMAIN db.stock :
              /\ db.stock[key].quantity \in {0, db'.stock[key].quantity}
              /\ \A a \in Setting : db.stock[key].preference[a]
                                      \in {None, db'.stock[key].preference[a]}
        BY <3>1 DEF Kept, StockKept, Fills
      <3>7. /\ \A v \in User \ {u} : db'.basket[v] = db.basket[v] /\ db'.profile[v] = db.profile[v]
            /\ db'.users = db.users /\ db.basket[u] \in {<<>>, db'.basket[u]}
            /\ db.profile[u] \in {DefaultProfile, db'.profile[u]}
            /\ HasLists(u) => db'.lists = db.lists
        BY <3>1 DEF Kept, HasLists
      <3> QED BY <3>1, <3>3, <3>4, <3>5, <3>6, <3>7 DEF Others
    <2>4. ASSUME Deleting
          PROVE  Keeps
      <3>1. tx.op = "delete" /\ Left(db, db', u) /\ Cleared(10, db, db', u)
        <4>1. PICK n \in 0 .. 10 : tx.todo = Rest(n) /\ Cleared(n, db, tx.db, u)
          BY <2>4 DEF Deleting, DeleteOK, Rest
        <4>2. n = 10
          <5>1. n < 10 => Rest(n) # <<>>
            BY <4>1, RestFacts
          <5> QED BY <2>2, <4>1, <5>1
        <4> QED BY <2>2, <2>4, <4>1, <4>2 DEF Deleting, DeleteOK
      <3>2. \A t \in tables : Loses(db[t], db'[t], u)
        BY <3>1 DEF Left
      <3>3. \A t \in tables : Others(db'[t], u) = Others(db[t], u)
        BY <3>2, OthersKept
      <3>4. \A t \in tables : Own(db'[t], u) = {}
        BY <3>1 DEF Cleared
      <3>5. \A key \in DOMAIN db.stock \cup DOMAIN db'.stock : key[1] # u =>
              /\ key \in DOMAIN db.stock \cap DOMAIN db'.stock
              /\ db'.stock[key] = db.stock[key]
        BY <3>1 DEF Left
      <3>6. /\ \A v \in User \ {u} : db'.basket[v] = db.basket[v] /\ db'.profile[v] = db.profile[v]
            /\ db'.users = db.users \ {u}
        BY <3>1 DEF Left, Cleared
      <3> QED BY <3>1, <3>3, <3>4, <3>5, <3>6 DEF Others
    <2> HIDE DEF Keeps
    <2> QED BY <2>3, <2>4, InvCases
  <1> QED BY <1>1, ImportAlways, PTL DEF ImportSpec, ServerDataIsKept

-----------------------------------------------------------------------------
(* What an import has answered so far: each item is still to be done, or   *)
(* its id is mapped or named in a conflict.                                *)

Item(kind, raw) == [kind |-> kind, raw |-> raw]
Pending(t, kind, raw) == Item(kind, raw) \in ToSet(t.todo)

Told(conflicts, local) == \E c \in conflicts : c[2] = local
Answered(t, local) == local \in DOMAIN t.map \/ Told(t.conflicts, local)

CatalogKinds == {"category", "ingredient"}
NoCatalog(todo) == \A item \in ToSet(todo) : item.kind \notin CatalogKinds

\* No catalog row comes after a balance, so what a tracked id is mapped to at
\* its balance is what it stays mapped to.
CatalogFirst(todo) ==
    \A j, k \in DOMAIN todo :
      j < k /\ todo[j].kind = "balance" => todo[k].kind \notin CatalogKinds

\* What NothingIsDropped says of a tracked id.
Settled(s, u, map, stock, conflicts, local) ==
    local \in DOMAIN map =>
      LET key == <<u, map[local]>>
      IN  \/ <<"balance", local>> \in conflicts /\ Counted(s, local) = None
          \/ /\ key \in DOMAIN stock
             /\ \/ Counted(s, local) \in {0, stock[key].quantity}
                \/ <<"balance", local>> \in conflicts
             /\ \/ local \notin DOMAIN s.preferences
                \/ <<"pantryPreferences", local>> \in conflicts
                \/ \A a \in Setting :
                     s.preferences[local][a] \in {None, stock[key].preference[a]}

Kinds == {"category", "ingredient", "recipe", "event"}
RawsOf(s, kind) ==
    CASE kind = "category"   -> ToSet(s.categories)
      [] kind = "ingredient" -> ToSet(s.ingredients)
      [] kind = "recipe"     -> ToSet(s.recipes)
      [] kind = "event"      -> ToSet(s.activity)

DropInv(t) ==
    /\ CatalogFirst(t.todo)
    /\ \A kind \in Kinds : \A raw \in RawsOf(t.state, kind) :
         Pending(t, kind, raw) \/ Answered(t, raw.id)
    /\ \A raw \in ToSet(t.state.lists) :
         Pending(t, "list", raw) \/ Answered(t, raw.id) \/ Told(t.conflicts, t.user)
    /\ \A local \in t.state.tracked :
         \/ Pending(t, "balance", local)
         \/ /\ NoCatalog(t.todo)
            /\ Settled(t.state, t.user, t.map, t.db.stock, t.conflicts, local)

AnswerInv == tx # None /\ tx.op = "import" => DropInv(tx)

LEMMA TailFacts ==
  ASSUME NEW S, NEW todo \in Seq(S), todo # <<>>
  PROVE  /\ \A k \in DOMAIN Tail(todo) : k + 1 \in DOMAIN todo /\ Tail(todo)[k] = todo[k + 1]
         /\ 1 \in DOMAIN todo /\ Head(todo) = todo[1] /\ DOMAIN todo \subseteq Nat
         /\ \A k \in DOMAIN todo : k > 1 => k - 1 \in DOMAIN Tail(todo)
  OBVIOUS

LEMMA TailSet ==
  ASSUME NEW S, NEW todo \in Seq(S), todo # <<>>
  PROVE  /\ ToSet(Tail(todo)) \subseteq ToSet(todo)
         /\ \A x \in ToSet(todo) : x = Head(todo) \/ x \in ToSet(Tail(todo))
         /\ CatalogFirst(todo) => CatalogFirst(Tail(todo))
         /\ CatalogFirst(todo) /\ Head(todo).kind = "balance" => NoCatalog(Tail(todo))
  <1> DEFINE rest == Tail(todo)
  <1>1. /\ \A k \in DOMAIN rest : k + 1 \in DOMAIN todo /\ rest[k] = todo[k + 1]
        /\ 1 \in DOMAIN todo /\ Head(todo) = todo[1] /\ DOMAIN todo \subseteq Nat
        /\ \A k \in DOMAIN todo : k > 1 => k - 1 \in DOMAIN rest
        /\ DOMAIN rest \subseteq Nat \ {0} /\ DOMAIN todo = 1 .. Len(todo) /\ Len(todo) \in Nat
    <2>1. DOMAIN rest \subseteq Nat \ {0} /\ DOMAIN todo = 1 .. Len(todo) /\ Len(todo) \in Nat
      OBVIOUS
    <2> QED BY <2>1, TailFacts
  <1>2. ToSet(rest) \subseteq ToSet(todo)
    <2> HIDE DEF rest
    <2> QED BY <1>1 DEF ToSet
  <1>3. ASSUME NEW x \in ToSet(todo)
        PROVE  x = Head(todo) \/ x \in ToSet(rest)
    <2>1. PICK k \in DOMAIN todo : x = todo[k]
      BY DEF ToSet
    <2> HIDE DEF rest
    <2>2. CASE k = 1
      BY <1>1, <2>1, <2>2
    <2>3. CASE k # 1
      <3>1. k \in Nat /\ k > 1
        BY <1>1, <2>3
      <3>2. k - 1 \in DOMAIN rest /\ (k - 1) + 1 = k
        BY <1>1, <3>1
      <3>3. rest[k - 1] = x
        BY <1>1, <2>1, <3>2
      <3> QED BY <3>2, <3>3 DEF ToSet
    <2> QED BY <2>2, <2>3
  <1> HIDE DEF rest
  <1>4. CatalogFirst(todo) => CatalogFirst(rest)
    <2> SUFFICES ASSUME CatalogFirst(todo), NEW j \in DOMAIN rest, NEW k \in DOMAIN rest,
                        j < k, rest[j].kind = "balance"
                 PROVE  rest[k].kind \notin CatalogKinds
      BY DEF CatalogFirst
    <2>1. j + 1 < k + 1
      BY <1>1
    <2> QED BY <1>1, <2>1 DEF CatalogFirst
  <1>5. CatalogFirst(todo) /\ Head(todo).kind = "balance" => NoCatalog(rest)
    <2> SUFFICES ASSUME CatalogFirst(todo), Head(todo).kind = "balance", NEW x \in ToSet(rest)
                 PROVE  x.kind \notin CatalogKinds
      BY DEF NoCatalog
    <2>1. PICK k \in DOMAIN rest : x = rest[k]
      BY DEF ToSet
    <2>2. 1 < k + 1
      <3>1. k \in Nat /\ k + 1 \in DOMAIN todo /\ k # 0
        BY <1>1
      <3> QED BY <3>1
    <2> QED BY <1>1, <2>1, <2>2 DEF CatalogFirst
  <1> QED BY <1>2, <1>3, <1>4, <1>5 DEF rest

\* No row of stock is lost, and what is set stays set.
StockFills(old, new) ==
    \A key \in DOMAIN old : key \in DOMAIN new /\ Fills(old[key], new[key])

LEMMA StaysSettled ==
  ASSUME NEW s, NEW u, NEW map, NEW stock, NEW cs, NEW local,
         Settled(s, u, map, stock, cs, local),
         NEW map2, local \in DOMAIN map2 => local \in DOMAIN map /\ map2[local] = map[local],
         NEW stock2, StockFills(stock, stock2), NEW cs2, cs \subseteq cs2
  PROVE  Settled(s, u, map2, stock2, cs2, local)
  <1> SUFFICES ASSUME local \in DOMAIN map2
               PROVE  Settled(s, u, map2, stock2, cs2, local)
    BY DEF Settled
  <1> DEFINE key == <<u, map[local]>>
  <1>1. local \in DOMAIN map /\ map2[local] = map[local]
    OBVIOUS
  <1>2. CASE <<"balance", local>> \in cs /\ Counted(s, local) = None
    BY <1>2 DEF Settled
  <1>3. CASE /\ key \in DOMAIN stock
             /\ \/ Counted(s, local) \in {0, stock[key].quantity}
                \/ <<"balance", local>> \in cs
             /\ \/ local \notin DOMAIN s.preferences
                \/ <<"pantryPreferences", local>> \in cs
                \/ \A a \in Setting :
                     s.preferences[local][a] \in {None, stock[key].preference[a]}
    <2> HIDE DEF key
    <2>1. key \in DOMAIN stock2 /\ Fills(stock[key], stock2[key])
      BY <1>3 DEF StockFills
    <2>2. \/ Counted(s, local) \in {0, stock2[key].quantity}
          \/ <<"balance", local>> \in cs2
      BY <1>3, <2>1 DEF Fills
    <2>3. \/ local \notin DOMAIN s.preferences
          \/ <<"pantryPreferences", local>> \in cs2
          \/ \A a \in Setting :
               s.preferences[local][a] \in {None, stock2[key].preference[a]}
      BY <1>3, <2>1 DEF Fills
    <2> QED BY <1>1, <2>1, <2>2, <2>3 DEF Settled, key
  <1> QED BY <1>1, <1>2, <1>3 DEF Settled

\* A turn to the map m, the tables d and the new conflicts cs answers the item
\* at the head, and takes back no answer.
Advances(m, d, cs) ==
    /\ DOMAIN tx.map \subseteq DOMAIN m
    /\ Head(tx.todo).kind \notin CatalogKinds =>
         \A local \in tx.state.tracked :
           local \in DOMAIN m => local \in DOMAIN tx.map /\ m[local] = tx.map[local]
    /\ StockFills(tx.db.stock, d.stock)
    /\ Head(tx.todo).kind \in Kinds => Raw.id \in DOMAIN m \/ Told(cs, Raw.id)
    /\ Head(tx.todo).kind = "list" =>
         Raw.id \in DOMAIN m \/ Told(cs, Raw.id) \/ Told(cs, tx.user)
    /\ Head(tx.todo).kind = "balance" =>
         Settled(tx.state, tx.user, m, d.stock, cs, Raw)

LEMMA AdvanceKeeps ==
  ASSUME Importing, DropInv(tx), NEW kind, Doing(kind), NEW m, NEW d, NEW cs,
         Turn(m, d, cs), Advances(m, d, cs)
  PROVE  DropInv(tx')
  <1> DEFINE t == tx'
  <1>1. /\ t.user = tx.user /\ t.state = tx.state /\ t.todo = Tail(tx.todo) /\ t.map = m
        /\ t.db = d /\ t.conflicts = tx.conflicts \cup cs
    BY DEF TxFields, Turn, Importing
  <1>2. /\ tx.todo \in Seq(WorkItem(tx.state)) /\ tx.todo # <<>>
    BY DEF Doing, Importing, ImportOK
  <1>3. /\ ToSet(t.todo) \subseteq ToSet(tx.todo)
        /\ \A x \in ToSet(tx.todo) : x = Head(tx.todo) \/ x \in ToSet(t.todo)
        /\ CatalogFirst(tx.todo) => CatalogFirst(t.todo)
        /\ CatalogFirst(tx.todo) /\ Head(tx.todo).kind = "balance" => NoCatalog(t.todo)
    BY <1>1, <1>2, TailSet
  <1>4. CatalogFirst(t.todo)
    BY <1>3 DEF DropInv
  <1>5. \A what, raw : Pending(tx, what, raw) =>
          \/ Pending(t, what, raw)
          \/ Head(tx.todo).kind = what /\ Raw = raw
    BY <1>3 DEF Pending, Item, Raw
  <1>6. \A local : (Answered(tx, local) => Answered(t, local))
          /\ (local \in DOMAIN m \/ Told(cs, local) => Answered(t, local))
    BY <1>1 DEF Answered, Told, Advances
  <1>7. Told(tx.conflicts, tx.user) \/ Told(cs, tx.user) => Told(t.conflicts, t.user)
    BY <1>1 DEF Told
  <1> HIDE DEF t
  <1>8. ASSUME NEW what \in Kinds, NEW raw \in RawsOf(t.state, what)
        PROVE  Pending(t, what, raw) \/ Answered(t, raw.id)
    <2>1. Pending(tx, what, raw) \/ Answered(tx, raw.id)
      BY <1>1 DEF DropInv
    <2> QED BY <1>5, <1>6, <2>1 DEF Advances
  <1>9. ASSUME NEW raw \in ToSet(t.state.lists)
        PROVE  Pending(t, "list", raw) \/ Answered(t, raw.id) \/ Told(t.conflicts, t.user)
    <2>1. Pending(tx, "list", raw) \/ Answered(tx, raw.id) \/ Told(tx.conflicts, tx.user)
      BY <1>1 DEF DropInv
    <2> QED BY <1>5, <1>6, <1>7, <2>1 DEF Advances
  <1>10. ASSUME NEW local \in t.state.tracked
         PROVE  \/ Pending(t, "balance", local)
                \/ /\ NoCatalog(t.todo)
                   /\ Settled(t.state, t.user, t.map, t.db.stock, t.conflicts, local)
    <2>1. \/ Pending(tx, "balance", local)
          \/ /\ NoCatalog(tx.todo)
             /\ Settled(tx.state, tx.user, tx.map, tx.db.stock, tx.conflicts, local)
      BY <1>1 DEF DropInv
    <2>2. CASE Head(tx.todo).kind = "balance" /\ Raw = local
      <3>1. NoCatalog(t.todo)
        BY <1>3, <2>2 DEF DropInv
      <3>2. Settled(tx.state, tx.user, m, d.stock, cs, local)
        BY <2>2 DEF Advances
      <3>3. StockFills(d.stock, d.stock)
        BY DEF StockFills, Fills
      <3>4. Settled(tx.state, tx.user, m, d.stock, t.conflicts, local)
        BY <1>1, <3>2, <3>3, StaysSettled
      <3> QED BY <1>1, <3>1, <3>4
    <2>3. CASE /\ NoCatalog(tx.todo)
               /\ Settled(tx.state, tx.user, tx.map, tx.db.stock, tx.conflicts, local)
      <3>1. NoCatalog(t.todo)
        BY <1>3, <2>3 DEF NoCatalog
      <3>2. Head(tx.todo) \in ToSet(tx.todo)
        BY <1>2, TailFacts DEF ToSet
      <3>3. Head(tx.todo).kind \notin CatalogKinds
        BY <2>3, <3>2 DEF NoCatalog
      <3>4. local \in DOMAIN m => local \in DOMAIN tx.map /\ m[local] = tx.map[local]
        BY <1>1, <3>3 DEF Advances
      <3>5. StockFills(tx.db.stock, d.stock) /\ tx.conflicts \subseteq t.conflicts
        BY <1>1 DEF Advances
      <3>6. Settled(tx.state, tx.user, m, d.stock, t.conflicts, local)
        BY <2>3, <3>4, <3>5, StaysSettled
      <3> QED BY <1>1, <3>1, <3>6
    <2> QED BY <1>5, <2>1, <2>2, <2>3
  <1> QED BY <1>4, <1>8, <1>9, <1>10 DEF DropInv, t

\* The ways in which a turn answers its item.
LEMMA OtherAdvances ==
  ASSUME NEW d, d.stock = tx.db.stock, NEW cs,
         Head(tx.todo).kind \notin Kinds \cup {"list", "balance"}
  PROVE  Advances(tx.map, d, cs)
  BY DEF Advances, StockFills, Fills

LEMMA MapAdvances ==
  ASSUME NEW d, d.stock = tx.db.stock, NEW id, NEW cs,
         Head(tx.todo).kind \in Kinds \cup {"list"},
         Head(tx.todo).kind \in CatalogKinds \/ Raw.id \notin tx.state.tracked
  PROVE  Advances(With(tx.map, Raw.id, id), d, cs)
  BY DEF Advances, StockFills, Fills, With, Kinds

LEMMA TellAdvances ==
  ASSUME NEW what, NEW l, Head(tx.todo).kind \in Kinds \cup {"list"},
         l = Raw.id \/ (l = tx.user /\ Head(tx.todo).kind = "list")
  PROVE  Advances(tx.map, tx.db, {<<what, l>>})
  <1>1. Told({<<what, l>>}, l)
    BY DEF Told
  <1> QED BY <1>1 DEF Advances, StockFills, Fills, Kinds

LEMMA RawUntracked ==
  ASSUME Importing, Doing("recipe") \/ Doing("event") \/ Doing("list")
  PROVE  Raw.id \notin tx.state.tracked
  <1>1. tx.state \in DeviceState
    BY DEF Importing, ImportOK
  <1>2. Raw \in ToSet(tx.state.recipes) \cup ToSet(tx.state.activity) \cup ToSet(tx.state.lists)
    BY HeadItem DEF WorkItem, Raw
  <1> QED BY <1>1, <1>2, DeviceAssumption

LEMMA DbShaped ==
  ASSUME Importing
  PROVE  Shaped(tx.db)
  BY DEF Importing, Sound, Shaped

LEMMA CategoryAnswered ==
  ASSUME Importing, DropInv(tx), ImportCategory
  PROVE  DropInv(tx')
  <1>1. Doing("category") /\ Head(tx.todo).kind = "category"
    BY DEF ImportCategory, Doing
  <1>2. ASSUME NEW id, NEW d, d.stock = tx.db.stock, Written(Raw.id, id, d)
        PROVE  DropInv(tx')
    <2>1. Advances(With(tx.map, Raw.id, id), d, {})
      BY <1>1, <1>2, MapAdvances DEF Kinds, CatalogKinds
    <2> QED BY <1>1, <1>2, <2>1, AdvanceKeeps DEF Written
  <1>3. ASSUME NEW id, Mapped(Raw.id, id)
        PROVE  DropInv(tx')
    BY <1>2, <1>3 DEF Mapped, Written
  <1>4. ASSUME Conflict("category", Raw.id)
        PROVE  DropInv(tx')
    <2>1. Advances(tx.map, tx.db, {<<"category", Raw.id>>})
      BY <1>1, TellAdvances DEF Kinds
    <2> QED BY <1>1, <1>4, <2>1, AdvanceKeeps DEF Conflict
  <1>5. ASSUME NEW t, NEW d, d = [tx.db EXCEPT !.categories = t]
        PROVE  d.stock = tx.db.stock
    BY <1>5, DbShaped DEF Shaped, Fields
  <1> QED BY <1>2, <1>3, <1>4, <1>5 DEF ImportCategory

LEMMA IngredientAnswered ==
  ASSUME Importing, DropInv(tx), ImportIngredient
  PROVE  DropInv(tx')
  <1>1. Doing("ingredient") /\ Head(tx.todo).kind = "ingredient"
    BY DEF ImportIngredient, Doing
  <1>2. ASSUME NEW id, NEW d, d.stock = tx.db.stock, Written(Raw.id, id, d)
        PROVE  DropInv(tx')
    <2>1. Advances(With(tx.map, Raw.id, id), d, {})
      BY <1>1, <1>2, MapAdvances DEF Kinds, CatalogKinds
    <2> QED BY <1>1, <1>2, <2>1, AdvanceKeeps DEF Written
  <1>3. ASSUME NEW id, Mapped(Raw.id, id)
        PROVE  DropInv(tx')
    BY <1>2, <1>3 DEF Mapped, Written
  <1>4. ASSUME Conflict("ingredient", Raw.id)
        PROVE  DropInv(tx')
    <2>1. Advances(tx.map, tx.db, {<<"ingredient", Raw.id>>})
      BY <1>1, TellAdvances DEF Kinds
    <2> QED BY <1>1, <1>4, <2>1, AdvanceKeeps DEF Conflict
  <1>5. ASSUME NEW t, NEW d, d = [tx.db EXCEPT !.ingredients = t]
        PROVE  d.stock = tx.db.stock
    BY <1>5, DbShaped DEF Shaped, Fields
  <1> QED BY <1>2, <1>3, <1>4, <1>5 DEF ImportIngredient

LEMMA RecipeAnswered ==
  ASSUME Importing, DropInv(tx), ImportRecipe
  PROVE  DropInv(tx')
  <1>1. Doing("recipe") /\ Head(tx.todo).kind = "recipe"
    BY DEF ImportRecipe, Doing
  <1>2. ASSUME NEW id, NEW d, d.stock = tx.db.stock, Written(Raw.id, id, d)
        PROVE  DropInv(tx')
    <2>1. Advances(With(tx.map, Raw.id, id), d, {})
      BY <1>1, <1>2, MapAdvances, RawUntracked DEF Kinds
    <2> QED BY <1>1, <1>2, <2>1, AdvanceKeeps DEF Written
  <1>3. ASSUME NEW id, Mapped(Raw.id, id)
        PROVE  DropInv(tx')
    BY <1>2, <1>3 DEF Mapped, Written
  <1>4. ASSUME Conflict("recipe", Raw.id)
        PROVE  DropInv(tx')
    <2>1. Advances(tx.map, tx.db, {<<"recipe", Raw.id>>})
      BY <1>1, TellAdvances DEF Kinds
    <2> QED BY <1>1, <1>4, <2>1, AdvanceKeeps DEF Conflict
  <1>5. ASSUME NEW t, NEW d, d = [tx.db EXCEPT !.recipes = t]
        PROVE  d.stock = tx.db.stock
    BY <1>5, DbShaped DEF Shaped, Fields
  <1> QED BY <1>2, <1>3, <1>4, <1>5 DEF ImportRecipe

LEMMA EventAnswered ==
  ASSUME Importing, DropInv(tx), ImportEvent
  PROVE  DropInv(tx')
  <1>1. Doing("event") /\ Head(tx.todo).kind = "event"
    BY DEF ImportEvent, Doing
  <1>2. ASSUME NEW id, NEW d, d.stock = tx.db.stock, Written(Raw.id, id, d)
        PROVE  DropInv(tx')
    <2>1. Advances(With(tx.map, Raw.id, id), d, {})
      BY <1>1, <1>2, MapAdvances, RawUntracked DEF Kinds
    <2> QED BY <1>1, <1>2, <2>1, AdvanceKeeps DEF Written
  <1>3. ASSUME Conflict("activity", Raw.id)
        PROVE  DropInv(tx')
    <2>1. Advances(tx.map, tx.db, {<<"activity", Raw.id>>})
      BY <1>1, TellAdvances DEF Kinds
    <2> QED BY <1>1, <1>3, <2>1, AdvanceKeeps DEF Conflict
  <1>4. ASSUME NEW t, NEW d, d = [tx.db EXCEPT !.events = t]
        PROVE  d.stock = tx.db.stock
    BY <1>4, DbShaped DEF Shaped, Fields
  <1> DEFINE rc == IF IsMapped(Raw.recipe) THEN tx.map[Raw.recipe] ELSE None
             changes == [i \in RowsOf(Raw.changes) |-> PartFor(Raw.changes, i).delta]
             row == [owner |-> tx.user, type |-> Raw.type, recipe |-> rc, changes |-> changes,
                     reversalOf |-> None, reversed |-> Raw.reversed]
             new(e) == [tx.db EXCEPT !.events = With(@, e, row)]
  <1>5. ASSUME NEW e, Written(Raw.id, e, new(e))
        PROVE  DropInv(tx')
    <2> HIDE DEF row
    <2> QED BY <1>2, <1>4, <1>5
  <1> QED BY <1>3, <1>5 DEF ImportEvent

LEMMA ListAnswered ==
  ASSUME Importing, DropInv(tx), ImportList
  PROVE  DropInv(tx')
  <1>1. Doing("list") /\ Head(tx.todo).kind = "list"
    BY DEF ImportList, Doing
  <1>2. ASSUME NEW id, NEW d, d.stock = tx.db.stock, NEW cs,
               Turn(With(tx.map, Raw.id, id), d, cs)
        PROVE  DropInv(tx')
    <2>1. Advances(With(tx.map, Raw.id, id), d, cs)
      BY <1>1, <1>2, MapAdvances, RawUntracked
    <2> QED BY <1>1, <1>2, <2>1, AdvanceKeeps
  <1>3. ASSUME NEW l \in {Raw.id, tx.user}, Conflict("grocery-list", l)
        PROVE  DropInv(tx')
    <2>1. Advances(tx.map, tx.db, {<<"grocery-list", l>>})
      BY <1>1, TellAdvances
    <2> QED BY <1>1, <1>3, <2>1, AdvanceKeeps DEF Conflict
  <1>4. ASSUME NEW t, NEW d, d = [tx.db EXCEPT !.lists = t]
        PROVE  d.stock = tx.db.stock
    BY <1>4, DbShaped DEF Shaped, Fields
  <1> QED BY <1>2, <1>3, <1>4 DEF ImportList

\* The profile, the links of reversals and the Basket: no item to answer.
LEMMA OtherAnswered ==
  ASSUME Importing, DropInv(tx), ImportProfile \/ LinkReversal \/ ImportBasket
  PROVE  DropInv(tx')
  <1>1. ASSUME NEW kind \in {"profile", "reversal", "basket"}, Doing(kind),
               NEW d, d.stock = tx.db.stock, NEW cs, Turn(tx.map, d, cs)
        PROVE  DropInv(tx')
    <2>1. Advances(tx.map, d, cs)
      BY <1>1, OtherAdvances DEF Doing, Kinds
    <2> QED BY <1>1, <2>1, AdvanceKeeps
  <1>2. ASSUME NEW kind \in {"profile", "reversal", "basket"}, Doing(kind),
               NEW what, NEW l, Conflict(what, l)
        PROVE  DropInv(tx')
    BY <1>1, <1>2 DEF Conflict
  <1>3. ASSUME NEW kind \in {"profile", "reversal", "basket"}, Doing(kind),
               NEW d, d.stock = tx.db.stock, Done(d)
        PROVE  DropInv(tx')
    BY <1>1, <1>3 DEF Done
  <1>4. ASSUME NEW x, NEW y
        PROVE  /\ [tx.db EXCEPT !.profile[x] = y].stock = tx.db.stock
               /\ [tx.db EXCEPT !.events[x].reversalOf = y].stock = tx.db.stock
               /\ [tx.db EXCEPT !.basket[x] = y].stock = tx.db.stock
    BY DbShaped DEF Shaped, Fields
  <1>5. CASE ImportProfile
    BY <1>2, <1>3, <1>4, <1>5 DEF ImportProfile
  <1>6. CASE LinkReversal
    BY <1>3, <1>4, <1>6 DEF LinkReversal
  <1>7. CASE ImportBasket
    BY <1>2, <1>3, <1>4, <1>7 DEF ImportBasket
  <1> QED BY <1>5, <1>6, <1>7

LEMMA BalanceAnswered ==
  ASSUME Importing, DropInv(tx), ImportBalance
  PROVE  DropInv(tx')
  <1> DEFINE u == tx.user
             old == tx.db
             s == tx.state
             key == <<u, tx.map[Raw]>>
             q == Counted(s, Raw)
             row == IF key \in DOMAIN old.stock THEN old.stock[key]
                    ELSE [quantity |-> q, preference |-> Unset]
             p == IF Raw \in DOMAIN s.preferences THEN s.preferences[Raw]
                  ELSE row.preference
             new == [quantity |-> IF Replaceable(row, q) THEN q ELSE row.quantity,
                     preference |-> IF Compatible(row, p) THEN p ELSE row.preference]
             d == [old EXCEPT !.stock = With(@, key, new)]
             conflicts == (IF Replaceable(row, q) THEN {} ELSE {<<"balance", Raw>>})
                          \cup (IF Compatible(row, p) THEN {} ELSE {<<"pantryPreferences", Raw>>})
  <1>1. Doing("balance") /\ Head(tx.todo).kind = "balance"
    BY DEF ImportBalance, Doing
  <1>2. ASSUME ~IsMapped(Raw), Done(old)
        PROVE  DropInv(tx')
    <2>1. Advances(tx.map, old, {})
      BY <1>1, <1>2 DEF Advances, StockFills, Fills, Settled, IsMapped, Kinds
    <2> QED BY <1>1, <1>2, <2>1, AdvanceKeeps DEF Done
  <1>3. ASSUME q = None, Conflict("balance", Raw)
        PROVE  DropInv(tx')
    <2>1. Advances(tx.map, old, {<<"balance", Raw>>})
      BY <1>1, <1>3 DEF Advances, StockFills, Fills, Settled, Kinds
    <2> QED BY <1>1, <1>3, <2>1, AdvanceKeeps DEF Conflict
  <1>4. ASSUME Turn(tx.map, d, conflicts)
        PROVE  DropInv(tx')
    <2> DEFINE stock == With(old.stock, key, new)
    <2>1. d.stock = stock
      <3> HIDE DEF new, key
      <3> QED BY DbShaped DEF Shaped, Fields
    <2>2. /\ stock[key] = new /\ DOMAIN stock = DOMAIN old.stock \cup {key}
          /\ \A k \in DOMAIN old.stock \ {key} : stock[k] = old.stock[k]
      <3> HIDE DEF new, key
      <3> QED BY DEF With
    <2>3. key \in DOMAIN old.stock => row = old.stock[key]
      OBVIOUS
    <2>4. Raw \in DOMAIN s.preferences => p = s.preferences[Raw]
      OBVIOUS
    <2>5. q = Counted(s, Raw) /\ key = <<u, tx.map[Raw]>>
      OBVIOUS
    <2> HIDE DEF q, row, p, stock, d, key
    <2>6. /\ new.quantity = IF Replaceable(row, q) THEN q ELSE row.quantity
          /\ new.preference = IF Compatible(row, p) THEN p ELSE row.preference
      OBVIOUS
    <2>7. /\ Replaceable(row, q) \/ <<"balance", Raw>> \in conflicts
          /\ Compatible(row, p) \/ <<"pantryPreferences", Raw>> \in conflicts
      OBVIOUS
    <2> HIDE DEF new, conflicts
    <2>8. Fills(row, new)
      BY <2>6 DEF Fills, Replaceable, Compatible
    <2>9. StockFills(old.stock, stock)
      <3> SUFFICES ASSUME NEW k \in DOMAIN old.stock
                   PROVE  k \in DOMAIN stock /\ Fills(old.stock[k], stock[k])
        BY DEF StockFills
      <3>1. CASE k = key
        BY <2>2, <2>3, <2>8, <3>1
      <3>2. CASE k # key
        BY <2>2, <3>2 DEF Fills
      <3> QED BY <3>1, <3>2
    <2>10. Settled(s, u, tx.map, stock, conflicts, Raw)
      <3>1. q \in {0, stock[key].quantity} \/ <<"balance", Raw>> \in conflicts
        BY <2>2, <2>6, <2>7
      <3>2. \/ Raw \notin DOMAIN s.preferences
            \/ <<"pantryPreferences", Raw>> \in conflicts
            \/ \A a \in Setting : s.preferences[Raw][a] \in {None, stock[key].preference[a]}
        BY <2>2, <2>4, <2>6, <2>7
      <3>3. key \in DOMAIN stock
        BY <2>2
      <3> QED BY <2>5, <3>1, <3>2, <3>3 DEF Settled
    <2>11. Advances(tx.map, d, conflicts)
      BY <1>1, <2>1, <2>9, <2>10 DEF Advances, Kinds
    <2> QED BY <1>1, <1>4, <2>11, AdvanceKeeps
  <1> QED BY <1>2, <1>3, <1>4 DEF ImportBalance

LEMMA StepAnswered ==
  ASSUME Importing, DropInv(tx), ImportStep
  PROVE  DropInv(tx')
  BY CategoryAnswered, IngredientAnswered, RecipeAnswered, EventAnswered, ListAnswered,
     OtherAnswered, BalanceAnswered DEF ImportStep

-----------------------------------------------------------------------------
(* What an import begins with.                                             *)

LEMMA ConcatFacts ==
  ASSUME NEW S, NEW a \in Seq(S), NEW b \in Seq(S)
  PROVE  /\ ToSet(a) \subseteq ToSet(a \o b) /\ ToSet(b) \subseteq ToSet(a \o b)
         /\ NoCatalog(b) /\ CatalogFirst(a) => CatalogFirst(a \o b)
  <1> DEFINE c == a \o b
             n == Len(a)
  <1>1. /\ n \in Nat /\ DOMAIN a = 1 .. n /\ DOMAIN b = 1 .. Len(b) /\ Len(b) \in Nat
        /\ DOMAIN c = 1 .. n + Len(b)
        /\ \A k \in 1 .. n : c[k] = a[k]
        /\ \A k \in 1 .. Len(b) : c[k + n] = b[k]
        /\ \A k \in 1 .. n + Len(b) : k > n => k - n \in 1 .. Len(b) /\ c[k] = b[k - n]
    OBVIOUS
  <1> HIDE DEF c, n
  <1>2. ToSet(a) \subseteq ToSet(c)
    BY <1>1 DEF ToSet
  <1>3. ToSet(b) \subseteq ToSet(c)
    <2> SUFFICES ASSUME NEW k \in 1 .. Len(b)
                 PROVE  b[k] \in ToSet(c)
      BY <1>1 DEF ToSet
    <2>1. k + n \in DOMAIN c /\ c[k + n] = b[k]
      BY <1>1
    <2> QED BY <2>1 DEF ToSet
  <1>4. ASSUME NoCatalog(b), CatalogFirst(a), NEW j \in DOMAIN c, NEW k \in DOMAIN c,
               j < k, c[j].kind = "balance"
        PROVE  c[k].kind \notin CatalogKinds
    <2>1. CASE k > n
      <3>1. k - n \in DOMAIN b /\ c[k] = b[k - n]
        BY <1>1, <2>1
      <3> QED BY <1>4, <3>1 DEF NoCatalog, ToSet
    <2>2. CASE ~(k > n)
      <3>1. j \in DOMAIN a /\ k \in DOMAIN a /\ c[j] = a[j] /\ c[k] = a[k]
        BY <1>1, <1>4, <2>2
      <3> QED BY <1>4, <3>1 DEF CatalogFirst
    <2> QED BY <2>1, <2>2
  <1> QED BY <1>2, <1>3, <1>4 DEF CatalogFirst, c

LEMMA ConcatSet ==
  ASSUME NEW S, NEW a \in Seq(S), NEW b \in Seq(S)
  PROVE  ToSet(a \o b) \subseteq ToSet(a) \cup ToSet(b)
  <1> DEFINE c == a \o b
             n == Len(a)
  <1>1. /\ n \in Nat /\ DOMAIN a = 1 .. n /\ DOMAIN b = 1 .. Len(b) /\ Len(b) \in Nat
        /\ DOMAIN c = 1 .. n + Len(b)
        /\ \A k \in 1 .. n + Len(b) : \/ k \in 1 .. n /\ c[k] = a[k]
                                      \/ k - n \in 1 .. Len(b) /\ c[k] = b[k - n]
    OBVIOUS
  <1> HIDE DEF c, n
  <1> QED BY <1>1 DEF ToSet, c

LEMMA TaggedSet ==
  ASSUME NEW kind, NEW R, NEW raws \in Seq(R)
  PROVE  /\ \A raw \in ToSet(raws) : Item(kind, raw) \in ToSet(Tagged(kind, raws))
         /\ \A item \in ToSet(Tagged(kind, raws)) : item.kind = kind
  <1> DEFINE t == Tagged(kind, raws)
  <1>1. DOMAIN t = DOMAIN raws /\ \A k \in DOMAIN raws : t[k] = Item(kind, raws[k])
    BY DEF Tagged, Item
  <1> HIDE DEF t
  <1>2. \A raw \in ToSet(raws) : Item(kind, raw) \in ToSet(t)
    BY <1>1 DEF ToSet
  <1>3. \A item \in ToSet(t) : item.kind = kind
    BY <1>1 DEF ToSet, Item
  <1> QED BY <1>2, <1>3 DEF t

\* An order of the tracked ids goes through all of them.
LEMMA OrderComplete ==
  ASSUME NEW T, IsFiniteSet(T), NEW order \in SetToSeqs(T)
  PROVE  T \subseteq ToSet(order)
  <1> DEFINE n == Cardinality(T)
  <1>1. n \in Nat
    BY FS_CardinalityType
  <1>2. order \in [1 .. n -> T] /\ \A j, k \in 1 .. n : j # k => order[j] # order[k]
    BY DEF SetToSeqs
  <1>3. IsFiniteSet(1 .. n) /\ Cardinality(1 .. n) = n
    BY <1>1, FS_Interval
  <1> DEFINE D == 1 .. n
  <1>4. order \in Injection(D, T)
    BY <1>2 DEF Injection, IsInjective
  <1>5. Cardinality(D) = Cardinality(T)
    BY <1>3
  <1> HIDE DEF n, D
  <1>6. order \in Surjection(D, T)
    BY <1>4, <1>5, FS_Injection
  <1>7. \A x \in T : \E k \in D : order[k] = x
    BY <1>6 DEF Surjection
  <1> QED BY <1>2, <1>7 DEF ToSet, D

LEMMA WorkAnswers ==
  ASSUME NEW s \in DeviceState, NEW order \in SetToSeqs(s.tracked),
         NEW t, t.todo = Work(s, order), t.state = s
  PROVE  DropInv(t)
  <1> DEFINE W == WorkItem(s)
             a1 == Tagged("category", s.categories)
             a2 == Tagged("ingredient", s.ingredients)
             a3 == Tagged("profile", s.profile)
             a4 == Tagged("balance", order)
             a5 == Tagged("recipe", s.recipes)
             a6 == Tagged("event", s.activity)
             a7 == Tagged("reversal", s.activity)
             a8 == Tagged("basket", s.basket)
             a9 == Tagged("list", s.lists)
  <1>1. order \in Seq(s.tracked) /\ s.tracked \subseteq ToSet(order)
    BY DeviceAssumption, OrderFacts, OrderComplete
  <1>2. /\ \A raw \in ToSet(s.categories) : Item("category", raw) \in ToSet(a1)
        /\ \A item \in ToSet(a1) : item.kind = "category"
    BY DeviceAssumption, TaggedSet
  <1>3. /\ \A raw \in ToSet(s.ingredients) : Item("ingredient", raw) \in ToSet(a2)
        /\ \A item \in ToSet(a2) : item.kind = "ingredient"
    BY DeviceAssumption, TaggedSet
  <1>4. \A item \in ToSet(a3) : item.kind = "profile"
    BY DeviceAssumption, TaggedSet
  <1>5. /\ \A raw \in s.tracked : Item("balance", raw) \in ToSet(a4)
        /\ \A item \in ToSet(a4) : item.kind = "balance"
    BY <1>1, TaggedSet
  <1>6. /\ \A raw \in ToSet(s.recipes) : Item("recipe", raw) \in ToSet(a5)
        /\ \A item \in ToSet(a5) : item.kind = "recipe"
    BY DeviceAssumption, TaggedSet
  <1>7. /\ \A raw \in ToSet(s.activity) : Item("event", raw) \in ToSet(a6)
        /\ \A item \in ToSet(a6) : item.kind = "event"
    BY DeviceAssumption, TaggedSet
  <1>8. \A item \in ToSet(a7) : item.kind = "reversal"
    BY DeviceAssumption, TaggedSet
  <1>9. \A item \in ToSet(a8) : item.kind = "basket"
    BY DeviceAssumption, TaggedSet
  <1>10. /\ \A raw \in ToSet(s.lists) : Item("list", raw) \in ToSet(a9)
         /\ \A item \in ToSet(a9) : item.kind = "list"
    BY DeviceAssumption, TaggedSet
  <1>11. /\ a1 \in Seq(W) /\ a2 \in Seq(W) /\ a3 \in Seq(W) /\ a4 \in Seq(W) /\ a5 \in Seq(W)
         /\ a6 \in Seq(W) /\ a7 \in Seq(W) /\ a8 \in Seq(W) /\ a9 \in Seq(W)
    BY WorkParts
  <1>12. t.todo = a1 \o a2 \o a3 \o a4 \o a5 \o a6 \o a7 \o a8 \o a9
    BY DEF Work
  <1>13. /\ NoCatalog(a4) /\ NoCatalog(a5) /\ NoCatalog(a6) /\ NoCatalog(a7)
         /\ NoCatalog(a8) /\ NoCatalog(a9)
    BY <1>5, <1>6, <1>7, <1>8, <1>9, <1>10 DEF NoCatalog, CatalogKinds
  <1> HIDE DEF W, a1, a2, a3, a4, a5, a6, a7, a8, a9
  <1> DEFINE b2 == a1 \o a2
             b3 == b2 \o a3
             b4 == b3 \o a4
             b5 == b4 \o a5
             b6 == b5 \o a6
             b7 == b6 \o a7
             b8 == b7 \o a8
             b9 == b8 \o a9
  <1>14. b2 \in Seq(W)
    BY <1>11, ConcatIn
  <1>15. ToSet(a1) \cup ToSet(a2) \subseteq ToSet(b2)
    BY <1>11, ConcatFacts
  <1>16. \A item \in ToSet(b2) : item.kind # "balance"
    BY <1>2, <1>3, <1>11, ConcatSet
  <1> HIDE DEF b2
  <1>17. b3 \in Seq(W)
    BY <1>11, <1>14, ConcatIn
  <1>18. ToSet(b2) \subseteq ToSet(b3)
    BY <1>11, <1>14, ConcatFacts
  <1>19. \A item \in ToSet(b3) : item.kind # "balance"
    BY <1>4, <1>11, <1>14, <1>16, ConcatSet
  <1>20. CatalogFirst(b3)
    BY <1>19 DEF CatalogFirst, ToSet
  <1> HIDE DEF b3
  <1>21. b4 \in Seq(W)
    BY <1>11, <1>17, ConcatIn
  <1>22. ToSet(b3) \cup ToSet(a4) \subseteq ToSet(b4) /\ CatalogFirst(b4)
    BY <1>11, <1>13, <1>17, <1>20, ConcatFacts
  <1> HIDE DEF b4
  <1>23. b5 \in Seq(W)
    BY <1>11, <1>21, ConcatIn
  <1>24. ToSet(b4) \cup ToSet(a5) \subseteq ToSet(b5) /\ CatalogFirst(b5)
    BY <1>11, <1>13, <1>21, <1>22, ConcatFacts
  <1> HIDE DEF b5
  <1>25. b6 \in Seq(W)
    BY <1>11, <1>23, ConcatIn
  <1>26. ToSet(b5) \cup ToSet(a6) \subseteq ToSet(b6) /\ CatalogFirst(b6)
    BY <1>11, <1>13, <1>23, <1>24, ConcatFacts
  <1> HIDE DEF b6
  <1>27. b7 \in Seq(W)
    BY <1>11, <1>25, ConcatIn
  <1>28. ToSet(b6) \subseteq ToSet(b7) /\ CatalogFirst(b7)
    BY <1>11, <1>13, <1>25, <1>26, ConcatFacts
  <1> HIDE DEF b7
  <1>29. b8 \in Seq(W)
    BY <1>11, <1>27, ConcatIn
  <1>30. ToSet(b7) \subseteq ToSet(b8) /\ CatalogFirst(b8)
    BY <1>11, <1>13, <1>27, <1>28, ConcatFacts
  <1> HIDE DEF b8
  <1>31. ToSet(b8) \cup ToSet(a9) \subseteq ToSet(b9) /\ CatalogFirst(b9)
    BY <1>11, <1>13, <1>29, <1>30, ConcatFacts
  <1>32. t.todo = b9
    BY <1>12 DEF b2, b3, b4, b5, b6, b7, b8
  <1> HIDE DEF b9
  <1>33. \A kind \in Kinds : \A raw \in RawsOf(s, kind) : Item(kind, raw) \in ToSet(b9)
    BY <1>2, <1>3, <1>6, <1>7, <1>15, <1>18, <1>22, <1>24, <1>26, <1>28, <1>30, <1>31
       DEF Kinds, RawsOf
  <1>34. \A raw \in ToSet(s.lists) : Item("list", raw) \in ToSet(b9)
    BY <1>10, <1>31
  <1>35. \A local \in s.tracked : Item("balance", local) \in ToSet(b9)
    BY <1>5, <1>22, <1>24, <1>26, <1>28, <1>30, <1>31
  <1> QED BY <1>31, <1>32, <1>33, <1>34, <1>35 DEF DropInv, Pending

-----------------------------------------------------------------------------

LEMMA AnswerStays == ImportInv /\ AnswerInv /\ [ImportNext]_importVars => AnswerInv'
  <1> SUFFICES ASSUME ImportInv, AnswerInv, [ImportNext]_importVars, tx' # None,
                      tx'.op = "import"
               PROVE  DropInv(tx')
    BY DEF AnswerInv
  <1>1. ASSUME NEW u \in User, NEW s \in DeviceState, BeginImport(u, s)
        PROVE  DropInv(tx')
    <2>1. PICK order \in SetToSeqs(s.tracked) :
            tx' = Transaction("import", u, s, Work(s, order))
      BY <1>1 DEF BeginImport
    <2>2. tx'.todo = Work(s, order) /\ tx'.state = s
      BY <2>1 DEF Transaction
    <2> QED BY <2>2, WorkAnswers
  <1>2. ASSUME NEW u \in User, AccountStep(u)
        PROVE  FALSE
    BY <1>2 DEF AccountStep, ArchiveCategory, ArchiveIngredient, SetStock, ClearBasket,
       DeleteList, Mutation
  <1>3. ASSUME NEW u \in User, BeginDelete(u)
        PROVE  FALSE
    BY <1>3, BeginsDelete DEF ImportInv
  <1>4. ASSUME ImportStep
        PROVE  DropInv(tx')
    BY <1>4, OwnSteps, StepAnswered DEF AnswerInv, Importing
  <1>5. ASSUME DeleteStep
        PROVE  FALSE
    BY <1>5, OwnSteps, DeleteGoesOn
  <1>6. ASSUME Commit \/ Abort
        PROVE  FALSE
    BY <1>6 DEF Commit, Abort
  <1>7. CASE UNCHANGED importVars
    BY <1>7 DEF importVars, AnswerInv
  <1> QED BY <1>1, <1>2, <1>3, <1>4, <1>5, <1>6, <1>7 DEF ImportNext

\* When an import is over, everything the device sent is the server's or is
\* reported (full_services.py:1283-1357).
THEOREM NothingDropped == ImportSpec => []NothingIsDropped
  <1>1. ImportInit => AnswerInv
    BY DEF ImportInit, AnswerInv
  <1>2. ImportSpec => []AnswerInv
    BY <1>1, ImportAlways, AnswerStays, PTL DEF ImportSpec
  <1>3. AnswerInv => NothingIsDropped
    <2> SUFFICES ASSUME DropInv(tx), tx.todo = <<>>
                 PROVE  LET s == tx.state
                            reported(local) == \E c \in tx.conflicts : c[2] = local
                        IN  /\ \A raw \in ToSet(s.categories) \cup ToSet(s.ingredients)
                                          \cup ToSet(s.recipes) \cup ToSet(s.activity) :
                                 IsMapped(raw.id) \/ reported(raw.id)
                            /\ \A raw \in ToSet(s.lists) :
                                 IsMapped(raw.id) \/ reported(raw.id) \/ reported(tx.user)
                            /\ \A local \in s.tracked :
                                 Settled(s, tx.user, tx.map, tx.db.stock, tx.conflicts, local)
      BY DEF AnswerInv, NothingIsDropped, Settled, IsMapped
    <2>1. \A kind, raw : ~Pending(tx, kind, raw)
      BY DEF Pending, ToSet
    <2>2. \A kind \in Kinds : \A raw \in RawsOf(tx.state, kind) :
            IsMapped(raw.id) \/ Told(tx.conflicts, raw.id)
      BY <2>1 DEF DropInv, Answered, IsMapped
    <2>3. \A raw \in ToSet(tx.state.categories) \cup ToSet(tx.state.ingredients)
                     \cup ToSet(tx.state.recipes) \cup ToSet(tx.state.activity) :
            IsMapped(raw.id) \/ Told(tx.conflicts, raw.id)
      BY <2>2 DEF Kinds, RawsOf
    <2>4. \A raw \in ToSet(tx.state.lists) :
            IsMapped(raw.id) \/ Told(tx.conflicts, raw.id) \/ Told(tx.conflicts, tx.user)
      BY <2>1 DEF DropInv, Answered, IsMapped
    <2>5. \A local \in tx.state.tracked :
            Settled(tx.state, tx.user, tx.map, tx.db.stock, tx.conflicts, local)
      BY <2>1 DEF DropInv
    <2> QED BY <2>3, <2>4, <2>5 DEF Told
  <1> QED BY <1>2, <1>3, PTL

=============================================================================
