---------------------------- MODULE CatalogProofs ---------------------------
(***************************************************************************)
(* Proofs about module Catalog, for any ids, names, families and releases  *)
(* that the manifest's assumption admits.                                  *)
(*                                                                         *)
(* A mutation of a catalog writes one row, so that each invariant is kept  *)
(* by three lemmas, on the write of a Category, of an Ingredient and of a  *)
(* Recipe.  The actions have to establish only what the lemmas ask of the  *)
(* row.  The seed command writes many rows at once and is treated apart.   *)
(***************************************************************************)
EXTENDS Catalog, TLAPS

\* Every part of a Recipe, of a draft too, is of an Ingredient that exists.
PartsExist ==
    \A rc \in Recipe : recipes[rc] # None =>
      \A i \in DOMAIN recipes[rc].parts : i \in Ingredient /\ ingredients[i] # None

\* The inductive invariant, whenever the seed command runs.
CatalogInv ==
    /\ CatalogTypeOK
    /\ ActiveInActiveCategory
    /\ PartsExist
    /\ PublishedIsCookable

\* What the seed command has checked still holds while nothing else runs.
NamesInv ==
    /\ CatalogTypeOK
    /\ NamesAreUnique
    /\ seeding # None => Seedable(seeding)

-----------------------------------------------------------------------------
(* Rows.                                                                   *)

\* A row is not None, and a field of it is what its column holds.
LEMMA RowFacts ==
  ASSUME CatalogTypeOK
  PROVE  /\ \A c \in Category : categories[c] # None =>
              /\ categories[c] \in CategoryRow
              /\ categories[c].name \in Name /\ categories[c].archived \in BOOLEAN
         /\ \A i \in Ingredient : ingredients[i] # None =>
              /\ ingredients[i] \in IngredientRow
              /\ ingredients[i].name \in Name /\ ingredients[i].archived \in BOOLEAN
              /\ ingredients[i].category \in Category /\ ingredients[i].family \in Family
              /\ categories[ingredients[i].category] # None
         /\ \A rc \in Recipe : recipes[rc] # None => recipes[rc] \in RecipeRow
  BY DEF CatalogTypeOK, CategoryRow, IngredientRow

LEMMA NoneIsNoRow ==
  None \notin CategoryRow /\ None \notin IngredientRow /\ None \notin RecipeRow
  BY CatalogNoneAssumption

\* A Category is written; it is archived only if no active Ingredient is in it.
LEMMA CategoryWrite ==
  ASSUME CatalogInv, NEW c \in Category, NEW row \in CategoryRow,
         categories' = [categories EXCEPT ![c] = row],
         UNCHANGED <<ingredients, recipes, tracked, seeding>>,
         row.archived => \A i \in Ingredient :
                           Active(ingredients, i) => ingredients[i].category # c
  PROVE  CatalogInv'
<1> USE DEF CatalogInv
<1>1. categories' \in [Category -> CategoryRow \cup {None}]
  BY DEF CatalogTypeOK
<1>2. \A d \in Category : categories[d] # None => categories'[d] # None
  BY NoneIsNoRow DEF CatalogTypeOK
<1>3. CatalogTypeOK'
  BY <1>1, <1>2, RowFacts DEF CatalogTypeOK
<1>4. ActiveInActiveCategory'
  <2> SUFFICES ASSUME NEW i \in Ingredient, Active(ingredients, i)
               PROVE  Active(categories', ingredients[i].category)
    BY DEF ActiveInActiveCategory, Active
  <2>1. ingredients[i].category \in Category /\ Active(categories, ingredients[i].category)
    BY RowFacts DEF ActiveInActiveCategory, Active
  <2>2. CASE ingredients[i].category = c
    <3>1. categories'[c] = row /\ row.archived \in BOOLEAN /\ ~row.archived
      BY <2>2 DEF CatalogTypeOK, CategoryRow
    <3> QED BY <2>2, <3>1, NoneIsNoRow DEF Active
  <2>3. CASE ingredients[i].category # c
    <3>1. categories'[ingredients[i].category] = categories[ingredients[i].category]
      BY <2>1, <2>3 DEF CatalogTypeOK
    <3> QED BY <2>1, <3>1 DEF Active
  <2> QED BY <2>2, <2>3
<1>5. PartsExist' /\ PublishedIsCookable'
  BY DEF PartsExist, PublishedIsCookable
<1> QED BY <1>3, <1>4, <1>5

\* An Ingredient is written; unless it is archived its Category is active.
LEMMA IngredientWrite ==
  ASSUME CatalogInv, NEW i \in Ingredient, NEW row \in IngredientRow,
         ingredients' = [ingredients EXCEPT ![i] = row],
         UNCHANGED <<categories, recipes, seeding>>,
         tracked' \in [Ingredient -> BOOLEAN],
         categories[row.category] # None,
         ~row.archived => Active(categories, row.category)
  PROVE  CatalogInv'
<1> USE DEF CatalogInv
<1>1. /\ ingredients' \in [Ingredient -> IngredientRow \cup {None}]
      /\ ingredients'[i] = row
      /\ \A j \in Ingredient : j # i => ingredients'[j] = ingredients[j]
  BY DEF CatalogTypeOK
<1>2. \A j \in Ingredient : ingredients[j] # None => ingredients'[j] # None
  BY <1>1, NoneIsNoRow
<1>3. CatalogTypeOK'
  BY <1>1 DEF CatalogTypeOK
<1>4. ActiveInActiveCategory'
  BY <1>1 DEF ActiveInActiveCategory, Active
<1>5. PartsExist' /\ PublishedIsCookable'
  BY <1>2 DEF PartsExist, PublishedIsCookable
<1> QED BY <1>3, <1>4, <1>5

\* A Recipe can be cooked.
Cookable(row) ==
    /\ row.complete /\ DOMAIN row.parts # {}
    /\ \A i \in DOMAIN row.parts : row.parts[i].quantified

\* A Recipe is written or deleted; its parts exist, and it is not published
\* unless it can be cooked.
LEMMA RecipeWrite ==
  ASSUME CatalogInv, NEW rc \in Recipe, NEW row \in RecipeRow \cup {None},
         recipes' = [recipes EXCEPT ![rc] = row],
         UNCHANGED <<categories, ingredients, tracked, seeding>>,
         row # None =>
           /\ \A i \in DOMAIN row.parts : i \in Ingredient /\ ingredients[i] # None
           /\ row.status = "published" => Cookable(row)
  PROVE  CatalogInv'
<1> USE DEF CatalogInv
<1>1. /\ recipes' \in [Recipe -> RecipeRow \cup {None}]
      /\ recipes'[rc] = row
      /\ \A other \in Recipe : other # rc => recipes'[other] = recipes[other]
  BY DEF CatalogTypeOK
<1>2. CatalogTypeOK'
  BY <1>1 DEF CatalogTypeOK
<1>3. ActiveInActiveCategory'
  BY DEF ActiveInActiveCategory, Active
<1>4. PartsExist'
  BY <1>1 DEF PartsExist
<1>5. PublishedIsCookable'
  BY <1>1 DEF PublishedIsCookable, Cookable
<1> QED BY <1>2, <1>3, <1>4, <1>5

-----------------------------------------------------------------------------
(* The mutations of an account.                                            *)

LEMMA CategoryStepKeeps ==
  ASSUME CatalogInv, NEW c \in Category, CategoryStep(c)
  PROVE  CatalogInv'
<1> USE DEF CatalogInv
<1>1. ASSUME NEW n \in Name, CreateCategory(c, n) PROVE CatalogInv'
  <2> DEFINE row == [name |-> n, archived |-> FALSE]
  <2>1. row \in CategoryRow /\ ~row.archived
    BY DEF CategoryRow
  <2>2. /\ categories' = [categories EXCEPT ![c] = row]
        /\ UNCHANGED <<ingredients, recipes, tracked, seeding>>
    BY <1>1 DEF CreateCategory
  <2> HIDE DEF row, CatalogInv
  <2> QED BY <2>1, <2>2, CategoryWrite
<1>2. ASSUME NEW n \in Name, UpdateCategory(c, n) PROVE CatalogInv'
  <2> DEFINE row == [categories[c] EXCEPT !.name = n]
  <2>1. row \in CategoryRow /\ ~row.archived
    BY <1>2, RowFacts DEF UpdateCategory, Active, CategoryRow
  <2>2. /\ categories' = [categories EXCEPT ![c] = row]
        /\ UNCHANGED <<ingredients, recipes, tracked, seeding>>
    BY <1>2 DEF UpdateCategory
  <2> HIDE DEF row, CatalogInv
  <2> QED BY <2>1, <2>2, CategoryWrite
<1>3. ASSUME ArchiveCategory(c) PROVE CatalogInv'
  <2> DEFINE row == [categories[c] EXCEPT !.archived = TRUE]
  <2>1. row \in CategoryRow
    BY <1>3, RowFacts DEF ArchiveCategory, Active, CategoryRow
  <2>2. /\ categories' = [categories EXCEPT ![c] = row]
        /\ UNCHANGED <<ingredients, recipes, tracked, seeding>>
        /\ \A i \in Ingredient : Active(ingredients, i) => ingredients[i].category # c
    BY <1>3 DEF ArchiveCategory
  <2> HIDE DEF row, CatalogInv
  <2> QED BY <2>1, <2>2, CategoryWrite
<1>4. ASSUME RestoreCategory(c) PROVE CatalogInv'
  <2> DEFINE row == [categories[c] EXCEPT !.archived = FALSE]
  <2>1. row \in CategoryRow /\ ~row.archived
    BY <1>4, RowFacts DEF RestoreCategory, CategoryRow
  <2>2. /\ categories' = [categories EXCEPT ![c] = row]
        /\ UNCHANGED <<ingredients, recipes, tracked, seeding>>
    BY <1>4 DEF RestoreCategory
  <2> HIDE DEF row, CatalogInv
  <2> QED BY <2>1, <2>2, CategoryWrite
<1> QED BY <1>1, <1>2, <1>3, <1>4 DEF CategoryStep

\* The stock row of an Ingredient is nothing to the catalog.
LEMMA TrackingKeeps ==
  ASSUME CatalogInv, tracked' \in [Ingredient -> BOOLEAN],
         UNCHANGED <<categories, ingredients, recipes, seeding>>
  PROVE  CatalogInv'
  BY DEF CatalogInv, CatalogTypeOK, ActiveInActiveCategory, PartsExist,
         PublishedIsCookable, Active

LEMMA IngredientStepKeeps ==
  ASSUME CatalogInv, NEW i \in Ingredient, IngredientStep(i)
  PROVE  CatalogInv'
<1> USE DEF CatalogInv
<1>0. tracked \in [Ingredient -> BOOLEAN]
  BY DEF CatalogTypeOK
<1>1. ASSUME NEW n \in Name, NEW c \in Category, NEW f \in Family, NEW track \in BOOLEAN,
             CreateIngredient(i, n, c, f, track)
      PROVE  CatalogInv'
  <2> DEFINE row == [name |-> n, category |-> c, family |-> f, archived |-> FALSE]
  <2>1. row \in IngredientRow /\ row.category = c
    BY DEF IngredientRow
  <2>2. /\ ingredients' = [ingredients EXCEPT ![i] = row]
        /\ tracked' = [tracked EXCEPT ![i] = track]
        /\ UNCHANGED <<categories, recipes, seeding>>
        /\ Active(categories, c)
    BY <1>1 DEF CreateIngredient
  <2>3. tracked' \in [Ingredient -> BOOLEAN] /\ categories[c] # None
    BY <1>0, <2>2 DEF Active
  <2> HIDE DEF row, CatalogInv
  <2> QED BY <2>1, <2>2, <2>3, IngredientWrite
<1>2. ASSUME NEW n \in Name \cup {None}, NEW c \in Category \cup {None},
             NEW f \in Family \cup {None}, UpdateIngredient(i, n, c, f)
      PROVE  CatalogInv'
  <2> DEFINE row == [ingredients[i] EXCEPT
                       !.name = IF n = None THEN @ ELSE n,
                       !.category = IF c = None THEN @ ELSE c,
                       !.family = IF f = None THEN @ ELSE f]
  <2>1. Active(ingredients, i) /\ ingredients[i] \in IngredientRow
    BY <1>2, RowFacts DEF UpdateIngredient, Active
  <2>2. row \in IngredientRow /\ row.category = IF c = None THEN ingredients[i].category ELSE c
    BY <2>1 DEF IngredientRow
  <2>3. /\ ingredients' = [ingredients EXCEPT ![i] = row]
        /\ UNCHANGED <<categories, recipes, tracked, seeding>>
        /\ c # None => Active(categories, c)
    BY <1>2 DEF UpdateIngredient
  <2>4. Active(categories, row.category)
    BY <2>1, <2>2, <2>3 DEF ActiveInActiveCategory
  <2>5. tracked' \in [Ingredient -> BOOLEAN] /\ categories[row.category] # None
    BY <1>0, <2>3, <2>4 DEF Active
  <2> HIDE DEF row, CatalogInv
  <2> QED BY <2>2, <2>3, <2>4, <2>5, IngredientWrite
<1>3. ASSUME ArchiveIngredient(i) PROVE CatalogInv'
  <2> DEFINE row == [ingredients[i] EXCEPT !.archived = TRUE]
  <2>1. /\ ingredients[i] \in IngredientRow
        /\ categories[ingredients[i].category] # None
    BY <1>3, RowFacts DEF ArchiveIngredient, Active
  <2>2. row \in IngredientRow /\ row.archived /\ row.category = ingredients[i].category
    BY <2>1 DEF IngredientRow
  <2>3. /\ ingredients' = [ingredients EXCEPT ![i] = row]
        /\ UNCHANGED <<categories, recipes, tracked, seeding>>
    BY <1>3 DEF ArchiveIngredient
  <2>4. tracked' \in [Ingredient -> BOOLEAN] /\ categories[row.category] # None
    BY <1>0, <2>1, <2>2, <2>3
  <2> HIDE DEF row, CatalogInv
  <2> QED BY <2>2, <2>3, <2>4, IngredientWrite
<1>4. ASSUME RestoreIngredient(i) PROVE CatalogInv'
  <2> DEFINE row == [ingredients[i] EXCEPT !.archived = FALSE]
  <2>1. /\ ingredients[i] \in IngredientRow
        /\ Active(categories, ingredients[i].category)
    BY <1>4, RowFacts DEF RestoreIngredient
  <2>2. row \in IngredientRow /\ row.category = ingredients[i].category
    BY <2>1 DEF IngredientRow
  <2>3. /\ ingredients' = [ingredients EXCEPT ![i] = row]
        /\ UNCHANGED <<categories, recipes, tracked, seeding>>
    BY <1>4 DEF RestoreIngredient
  <2>4. tracked' \in [Ingredient -> BOOLEAN] /\ categories[row.category] # None
    BY <1>0, <2>1, <2>2, <2>3 DEF Active
  <2> HIDE DEF row, CatalogInv
  <2> QED BY <2>1, <2>2, <2>3, <2>4, IngredientWrite
<1>5. ASSUME Track(i) \/ Untrack(i) PROVE CatalogInv'
  <2>1. /\ tracked' \in [Ingredient -> BOOLEAN]
        /\ UNCHANGED <<categories, ingredients, recipes, seeding>>
    BY <1>0, <1>5 DEF Track, Untrack
  <2> QED BY <2>1, TrackingKeeps
<1> QED BY <1>1, <1>2, <1>3, <1>4, <1>5 DEF IngredientStep

\* The parts a client may send are those of a row, of Ingredients that exist.
LEMMA PartsFacts ==
  ASSUME NEW parts \in Parts
  PROVE  /\ parts \in UNION {[S -> Part] : S \in SUBSET Ingredient}
         /\ \A i \in DOMAIN parts : i \in Ingredient /\ ingredients[i] # None
<1>1. PICK S \in SUBSET {i \in Ingredient : Active(ingredients, i)} : parts \in [S -> Part]
  BY DEF Parts
<1>2. S \in SUBSET Ingredient /\ \A i \in S : ingredients[i] # None
  BY DEF Active
<1> QED BY <1>1, <1>2

LEMMA RecipeStepKeeps ==
  ASSUME CatalogInv, NEW rc \in Recipe, RecipeStep(rc)
  PROVE  CatalogInv'
<1> USE DEF CatalogInv
<1>1. ASSUME NEW complete \in BOOLEAN, NEW base \in BaseServings, NEW parts \in Parts,
             CreateRecipe(rc, complete, base, parts)
      PROVE  CatalogInv'
  <2> DEFINE row == Draft(complete, base, parts)
  <2>1. row \in RecipeRow /\ row.parts = parts /\ row.status # "published"
    BY PartsFacts DEF Draft, RecipeRow
  <2>2. /\ recipes' = [recipes EXCEPT ![rc] = row]
        /\ UNCHANGED <<categories, ingredients, tracked, seeding>>
    BY <1>1 DEF CreateRecipe
  <2> HIDE DEF row, CatalogInv
  <2> QED BY <2>1, <2>2, PartsFacts, RecipeWrite
<1>2. ASSUME NEW complete \in BOOLEAN, NEW base \in BaseServings, NEW parts \in Parts,
             UpdateRecipe(rc, complete, base, parts)
      PROVE  CatalogInv'
  <2> DEFINE row == [recipes[rc] EXCEPT !.complete = complete, !.base = base, !.parts = parts]
  <2>1. recipes[rc] \in RecipeRow /\ recipes[rc].status = "draft"
    BY <1>2, RowFacts DEF UpdateRecipe, IsDraft
  <2>2. row \in RecipeRow /\ row.parts = parts /\ row.status # "published"
    BY <2>1, PartsFacts DEF RecipeRow
  <2>3. /\ recipes' = [recipes EXCEPT ![rc] = row]
        /\ UNCHANGED <<categories, ingredients, tracked, seeding>>
    BY <1>2 DEF UpdateRecipe
  <2> HIDE DEF row, CatalogInv
  <2> QED BY <2>2, <2>3, PartsFacts, RecipeWrite
<1>3. ASSUME DeleteRecipe(rc) PROVE CatalogInv'
  <2>1. /\ recipes' = [recipes EXCEPT ![rc] = None]
        /\ UNCHANGED <<categories, ingredients, tracked, seeding>>
    BY <1>3 DEF DeleteRecipe
  <2> HIDE DEF CatalogInv
  <2> QED BY <2>1, RecipeWrite
<1>4. ASSUME PublishRecipe(rc) PROVE CatalogInv'
  <2> DEFINE row == [recipes[rc] EXCEPT !.status = "published"]
  <2>1. recipes[rc] \in RecipeRow /\ Cookable(recipes[rc])
    BY <1>4, RowFacts DEF PublishRecipe, IsDraft, Cookable
  <2>2. /\ row \in RecipeRow /\ row.parts = recipes[rc].parts
        /\ row.complete = recipes[rc].complete
    BY <2>1 DEF RecipeRow
  <2>3. /\ \A i \in DOMAIN row.parts : i \in Ingredient /\ ingredients[i] # None
        /\ Cookable(row)
    BY <1>4, <2>1, <2>2 DEF PartsExist, PublishRecipe, IsDraft, Cookable
  <2>4. /\ recipes' = [recipes EXCEPT ![rc] = row]
        /\ UNCHANGED <<categories, ingredients, tracked, seeding>>
    BY <1>4 DEF PublishRecipe
  <2> HIDE DEF row, CatalogInv
  <2> QED BY <2>2, <2>3, <2>4, RecipeWrite
<1> QED BY <1>1, <1>2, <1>3, <1>4 DEF RecipeStep

-----------------------------------------------------------------------------
(* The seed command.                                                       *)

\* A release writes rows: active Ingredients in its own Categories, and
\* Recipes that can be cooked with its own Ingredients.
LEMMA ManifestFacts ==
  ASSUME NEW m \in Manifest
  PROVE  /\ DOMAIN m.categories \subseteq Category
         /\ DOMAIN m.ingredients \subseteq Ingredient
         /\ DOMAIN m.recipes \subseteq Recipe
         /\ \A c \in DOMAIN m.categories :
              /\ m.categories[c] \in CategoryRow /\ m.categories[c] # None
              /\ ~m.categories[c].archived
         /\ \A i \in DOMAIN m.ingredients :
              /\ m.ingredients[i] \in IngredientRow /\ m.ingredients[i] # None
              /\ m.ingredients[i].category \in DOMAIN m.categories
         /\ \A rc \in DOMAIN m.recipes :
              /\ m.recipes[rc] \in RecipeRow /\ m.recipes[rc] # None
              /\ Cookable(m.recipes[rc])
              /\ \A i \in DOMAIN m.recipes[rc].parts : i \in DOMAIN m.ingredients
  BY ManifestAssumption, NoneIsNoRow DEF Cookable

\* Seeding tables that fit together leaves tables that do.  The tables before
\* it may be empty: then it is the first release.
LEMMA SeedKeeps ==
  ASSUME CatalogInv, NEW m \in Manifest,
         categories' = Seeded(m.categories, categories),
         ingredients' = Seeded(m.ingredients, ingredients),
         recipes' = SeededRecipes(m.recipes, recipes),
         tracked' = tracked, seeding' = None
  PROVE  CatalogInv'
<1> USE DEF CatalogInv
<1>1. /\ DOMAIN categories = Category /\ DOMAIN ingredients = Ingredient
      /\ DOMAIN recipes = Recipe
  BY DEF CatalogTypeOK
<1>2. /\ DOMAIN categories' = Category
      /\ \A c \in Category : categories'[c] = IF c \in DOMAIN m.categories
                                              THEN m.categories[c] ELSE categories[c]
      /\ categories' \in [Category -> CategoryRow \cup {None}]
  BY <1>1, ManifestFacts DEF Seeded, CatalogTypeOK
<1>3. /\ DOMAIN ingredients' = Ingredient
      /\ \A i \in Ingredient : ingredients'[i] = IF i \in DOMAIN m.ingredients
                                                 THEN m.ingredients[i] ELSE ingredients[i]
      /\ ingredients' \in [Ingredient -> IngredientRow \cup {None}]
  BY <1>1, ManifestFacts DEF Seeded, CatalogTypeOK
<1>4. \A rc \in Recipe :
        recipes'[rc] = IF rc \notin DOMAIN m.recipes THEN recipes[rc]
                       ELSE IF recipes[rc] = None THEN m.recipes[rc]
                       ELSE [recipes[rc] EXCEPT !.base = m.recipes[rc].base]
  BY <1>1 DEF SeededRecipes
<1>5. \A rc \in Recipe : recipes[rc] # None =>
        /\ recipes'[rc] \in RecipeRow /\ recipes'[rc].parts = recipes[rc].parts
        /\ recipes'[rc].complete = recipes[rc].complete
        /\ recipes'[rc].status = recipes[rc].status
  <2> SUFFICES ASSUME NEW rc \in Recipe, recipes[rc] # None
               PROVE  /\ recipes'[rc] \in RecipeRow /\ recipes'[rc].parts = recipes[rc].parts
                      /\ recipes'[rc].complete = recipes[rc].complete
                      /\ recipes'[rc].status = recipes[rc].status
    OBVIOUS
  <2>1. recipes[rc] \in RecipeRow
    BY RowFacts
  <2>2. CASE rc \notin DOMAIN m.recipes
    BY <1>4, <2>1, <2>2
  <2>3. CASE rc \in DOMAIN m.recipes
    <3>1. m.recipes[rc].base \in BaseServings
      BY <2>3, ManifestFacts DEF RecipeRow
    <3>2. recipes'[rc] = [recipes[rc] EXCEPT !.base = m.recipes[rc].base]
      BY <1>4, <2>3
    <3> QED BY <2>1, <3>1, <3>2 DEF RecipeRow
  <2> QED BY <2>2, <2>3
<1>6. \A rc \in Recipe : recipes[rc] = None =>
        \/ recipes'[rc] = None
        \/ rc \in DOMAIN m.recipes /\ recipes'[rc] = m.recipes[rc]
  BY <1>4
<1>7. recipes' \in [Recipe -> RecipeRow \cup {None}]
  <2>1. \A rc \in Recipe : recipes'[rc] \in RecipeRow \cup {None}
    BY <1>5, <1>6, ManifestFacts
  <2>2. recipes' = [rc \in Recipe |-> recipes'[rc]]
    BY <1>1 DEF SeededRecipes
  <2> QED BY <2>1, <2>2
<1>8. /\ \A c \in Category : categories[c] # None => categories'[c] # None
      /\ \A i \in Ingredient : ingredients[i] # None => ingredients'[i] # None
  BY <1>2, <1>3, ManifestFacts
<1>9. CatalogTypeOK'
  <2>1. ASSUME NEW i \in Ingredient, ingredients'[i] # None
        PROVE  categories'[ingredients'[i].category] # None
    <3>1. CASE i \in DOMAIN m.ingredients
      BY <3>1, <1>2, <1>3, ManifestFacts
    <3>2. CASE i \notin DOMAIN m.ingredients
      BY <2>1, <3>2, <1>3, <1>8, RowFacts
    <3> QED BY <3>1, <3>2
  <2> QED BY <2>1, <1>2, <1>3, <1>7 DEF CatalogTypeOK
<1>10. ActiveInActiveCategory'
  <2> SUFFICES ASSUME NEW i \in Ingredient, Active(ingredients', i)
               PROVE  Active(categories', ingredients'[i].category)
    BY DEF ActiveInActiveCategory, Active
  <2>1. CASE i \in DOMAIN m.ingredients
    BY <2>1, <1>2, <1>3, ManifestFacts DEF Active
  <2>2. CASE i \notin DOMAIN m.ingredients
    <3>1. ingredients'[i] = ingredients[i] /\ ingredients[i].category \in Category
      BY <2>2, <1>3, RowFacts DEF Active
    <3>2. Active(categories, ingredients[i].category)
      BY <3>1 DEF ActiveInActiveCategory, Active
    <3> QED BY <3>1, <3>2, <1>2, ManifestFacts DEF Active
  <2> QED BY <2>1, <2>2
<1>11. PartsExist'
  <2> SUFFICES ASSUME NEW rc \in Recipe, recipes'[rc] # None,
                      NEW i \in DOMAIN recipes'[rc].parts
               PROVE  i \in Ingredient /\ ingredients'[i] # None
    BY DEF PartsExist
  <2>1. CASE recipes[rc] # None
    BY <2>1, <1>5, <1>8 DEF PartsExist
  <2>2. CASE recipes[rc] = None
    BY <2>2, <1>3, <1>6, ManifestFacts
  <2> QED BY <2>1, <2>2
<1>12. PublishedIsCookable'
  <2> SUFFICES ASSUME NEW rc \in Recipe, recipes'[rc] # None,
                      recipes'[rc].status = "published"
               PROVE  Cookable(recipes'[rc])
    BY <1>11 DEF PublishedIsCookable, PartsExist, Cookable
  <2>1. CASE recipes[rc] # None
    BY <2>1, <1>5 DEF PublishedIsCookable, Cookable
  <2>2. CASE recipes[rc] = None
    BY <2>2, <1>6, ManifestFacts
  <2> QED BY <2>1, <2>2
<1> QED BY <1>9, <1>10, <1>11, <1>12

-----------------------------------------------------------------------------
(* The theorems, for a catalog that is served while it is seeded.          *)

LEMMA InitCatalog == CatalogInit => CatalogInv
<1> SUFFICES ASSUME CatalogInit PROVE CatalogInv
  OBVIOUS
<1> DEFINE m == FirstManifest
<1>1. m \in Manifest
  BY ManifestAssumption
<1>2. /\ categories = [c \in Category |-> IF c \in DOMAIN m.categories
                                          THEN m.categories[c] ELSE None]
      /\ ingredients = [i \in Ingredient |-> IF i \in DOMAIN m.ingredients
                                             THEN m.ingredients[i] ELSE None]
      /\ recipes = [rc \in Recipe |-> IF rc \in DOMAIN m.recipes
                                      THEN m.recipes[rc] ELSE None]
      /\ tracked = [i \in Ingredient |-> FALSE]
      /\ seeding = None
  BY DEF CatalogInit, Seeded, SeededRecipes
<1> HIDE DEF m
<1>3. CatalogTypeOK
  BY <1>1, <1>2, ManifestFacts DEF CatalogTypeOK
<1>4. ActiveInActiveCategory
  BY <1>1, <1>2, ManifestFacts DEF ActiveInActiveCategory, Active
<1>5. PartsExist
  BY <1>1, <1>2, ManifestFacts DEF PartsExist
<1>6. PublishedIsCookable
  BY <1>1, <1>2, <1>5, ManifestFacts DEF PublishedIsCookable, PartsExist, Cookable
<1> QED BY <1>3, <1>4, <1>5, <1>6 DEF CatalogInv

LEMMA CatalogStep == CatalogInv /\ [ServingNext]_catalogVars => CatalogInv'
<1> SUFFICES ASSUME CatalogInv, [ServingNext]_catalogVars PROVE CatalogInv'
  OBVIOUS
<1>1. CASE AccountNext
  BY <1>1, CategoryStepKeeps, IngredientStepKeeps, RecipeStepKeeps DEF AccountNext
<1>2. ASSUME NEW m \in Manifest, BeginSeed(m) PROVE CatalogInv'
  BY <1>2 DEF BeginSeed, CatalogInv, CatalogTypeOK, ActiveInActiveCategory, PartsExist,
              PublishedIsCookable, Active
<1>3. CASE CommitSeed
  <2>1. seeding \in Manifest
    BY <1>3 DEF CommitSeed, CatalogInv, CatalogTypeOK
  <2> QED BY <1>3, <2>1, SeedKeeps DEF CommitSeed
<1>4. CASE UNCHANGED catalogVars
  BY <1>4 DEF catalogVars, CatalogInv, CatalogTypeOK, ActiveInActiveCategory, PartsExist,
              PublishedIsCookable, Active
<1> QED BY <1>1, <1>2, <1>3, <1>4 DEF ServingNext

THEOREM CatalogInvariant == ServingSpec => []CatalogInv
BY InitCatalog, CatalogStep, PTL DEF ServingSpec

\* A deployment that seeds before it serves is one that may.
LEMMA QuietIsServing == QuietSpec => ServingSpec
<1>1. [QuietNext]_catalogVars => [ServingNext]_catalogVars
  BY DEF QuietNext, ServingNext
<1> QED BY <1>1, PTL DEF QuietSpec, ServingSpec

\* The tables are well-typed, and each Ingredient's Category exists.
THEOREM CatalogTyped == ServingSpec => []CatalogTypeOK
<1>1. CatalogInv => CatalogTypeOK
  BY DEF CatalogInv
<1> QED BY <1>1, CatalogInvariant, PTL

\* No order of archiving, restoring, moving and seeding leaves an active
\* Ingredient in an archived Category (services.py:180-205,
\* services.py:424-436).
THEOREM NoneInArchivedCategory == ServingSpec => []ActiveInActiveCategory
<1>1. CatalogInv => ActiveInActiveCategory
  BY DEF CatalogInv
<1> QED BY <1>1, CatalogInvariant, PTL

\* A published Recipe can be cooked, for good (full_services.py:963-974).
THEOREM PublishedCookable == ServingSpec => []PublishedIsCookable
<1>1. CatalogInv => PublishedIsCookable
  BY DEF CatalogInv
<1> QED BY <1>1, CatalogInvariant, PTL

\* Which tables an account's mutations leave alone.
LEMMA MutationFrame ==
  /\ \A c : CategoryStep(c) => UNCHANGED <<ingredients, recipes, seeding>>
  /\ \A i : IngredientStep(i) => UNCHANGED <<categories, recipes, seeding>>
  /\ \A rc : RecipeStep(rc) => UNCHANGED <<categories, ingredients, seeding>>
<1>1. ASSUME NEW c, CategoryStep(c) PROVE UNCHANGED <<ingredients, recipes, seeding>>
  BY <1>1 DEF CategoryStep, CreateCategory, UpdateCategory, ArchiveCategory, RestoreCategory
<1>2. ASSUME NEW i, IngredientStep(i) PROVE UNCHANGED <<categories, recipes, seeding>>
  BY <1>2 DEF IngredientStep, CreateIngredient, UpdateIngredient, ArchiveIngredient,
              RestoreIngredient, Track, Untrack
<1>3. ASSUME NEW rc, RecipeStep(rc) PROVE UNCHANGED <<categories, ingredients, seeding>>
  BY <1>3 DEF RecipeStep, CreateRecipe, UpdateRecipe, DeleteRecipe, PublishRecipe
<1> QED BY <1>1, <1>2, <1>3

\* An account changes a published Recipe in no way, the seed command only what
\* a global one's parts are for (full_services.py:881-960, seeding.py:142-173).
THEOREM PublishedStays == ServingSpec => PublishedIsKept
<1> DEFINE Kept(rc) ==
             recipes[rc] # None /\ recipes[rc].status = "published" =>
               \/ recipes'[rc] = recipes[rc]
               \/ /\ rc \in GlobalRecipe /\ seeding # None
                  /\ recipes'[rc] = [recipes[rc] EXCEPT !.base = recipes'[rc].base]
<1>1. CatalogInv /\ [ServingNext]_catalogVars => \A rc \in Recipe : Kept(rc)
  <2> SUFFICES ASSUME CatalogInv, [ServingNext]_catalogVars, NEW rc \in Recipe,
                      recipes[rc] # None, recipes[rc].status = "published"
               PROVE  Kept(rc)
    OBVIOUS
  <2>1. recipes \in [Recipe -> RecipeRow \cup {None}] /\ seeding \in Manifest \cup {None}
    BY DEF CatalogInv, CatalogTypeOK
  <2>2. ASSUME NEW other \in Recipe, RecipeStep(other) PROVE recipes'[rc] = recipes[rc]
    <3>1. CASE other = rc
      BY <2>2, <3>1 DEF RecipeStep, CreateRecipe, UpdateRecipe, DeleteRecipe, PublishRecipe,
                        IsDraft
    <3>2. CASE other # rc
      BY <2>1, <2>2, <3>2 DEF RecipeStep, CreateRecipe, UpdateRecipe, DeleteRecipe,
                              PublishRecipe
    <3> QED BY <3>1, <3>2
  <2>3. CASE AccountNext
    BY <2>2, <2>3, MutationFrame DEF AccountNext
  <2>4. ASSUME NEW m \in Manifest, BeginSeed(m) PROVE recipes'[rc] = recipes[rc]
    BY <2>4 DEF BeginSeed
  <2>5. CASE CommitSeed
    <3>1. seeding \in Manifest /\ recipes' = SeededRecipes(seeding.recipes, recipes)
      BY <2>1, <2>5 DEF CommitSeed
    <3>2. recipes'[rc] = IF rc \notin DOMAIN seeding.recipes THEN recipes[rc]
                         ELSE [recipes[rc] EXCEPT !.base = seeding.recipes[rc].base]
      BY <2>1, <3>1 DEF SeededRecipes
    <3>3. CASE rc \in DOMAIN seeding.recipes
      <4>1. rc \in GlobalRecipe
        BY <3>1, <3>3, ManifestAssumption
      <4>2. recipes[rc] \in RecipeRow
        BY <2>1
      <4>3. recipes'[rc].base = seeding.recipes[rc].base
        BY <3>2, <3>3, <4>2 DEF RecipeRow
      <4> QED BY <2>5, <3>2, <3>3, <4>1, <4>3 DEF CommitSeed
    <3> QED BY <3>2, <3>3
  <2>6. CASE UNCHANGED catalogVars
    BY <2>6 DEF catalogVars
  <2> QED BY <2>3, <2>4, <2>5, <2>6 DEF ServingNext
<1>2. CatalogInv /\ [ServingNext]_catalogVars => [\A rc \in Recipe : Kept(rc)]_catalogVars
  BY <1>1
<1> QED BY <1>2, CatalogInvariant, PTL DEF ServingSpec, PublishedIsKept

-----------------------------------------------------------------------------
(* Names, for a deployment that seeds before it serves.                    *)

\* The names of the rows of a table are unique.
Unique(table) ==
    \A id, other \in DOMAIN table : table[id] # None /\ table[other] # None =>
      (table[id].name = table[other].name => id = other)

\* A row is written under a name that no other row has.
LEMMA UniqueWrite ==
  ASSUME NEW table, Unique(table), NEW id \in DOMAIN table, NEW row,
         row # None => NameFree(table, row.name, id)
  PROVE  Unique([table EXCEPT ![id] = row])
  BY DEF Unique, NameFree

\* A row that keeps its name keeps it to itself.
LEMMA OwnNameFree ==
  ASSUME NEW table, Unique(table), NEW id \in DOMAIN table, table[id] # None
  PROVE  NameFree(table, table[id].name, id)
  BY DEF Unique, NameFree

\* An account's mutations look a name up before they write it.
LEMMA AccountKeepsNames ==
  ASSUME CatalogTypeOK, CatalogTypeOK', NamesAreUnique, AccountNext
  PROVE  NamesAreUnique'
<1>1. /\ DOMAIN categories = Category /\ DOMAIN ingredients = Ingredient
      /\ Unique(categories) /\ Unique(ingredients)
  BY DEF CatalogTypeOK, NamesAreUnique, Unique
<1>2. SUFFICES Unique(categories') /\ Unique(ingredients')
  <2>1. DOMAIN categories' = Category /\ DOMAIN ingredients' = Ingredient
    BY DEF CatalogTypeOK
  <2> QED BY <2>1 DEF NamesAreUnique, Unique
<1>3. ASSUME NEW c \in Category, CategoryStep(c)
      PROVE  ingredients' = ingredients /\ Unique(categories')
  <2>1. categories[c] # None =>
          categories[c] \in CategoryRow /\ NameFree(categories, categories[c].name, c)
    BY <1>1, RowFacts, OwnNameFree
  <2>2. ASSUME NEW n \in Name, CreateCategory(c, n)
        PROVE  Unique(categories')
    <3> DEFINE row == [name |-> n, archived |-> FALSE]
    <3>1. categories' = [categories EXCEPT ![c] = row]
      BY <2>2 DEF CreateCategory
    <3>2. NameFree(categories, row.name, c)
      BY <2>2 DEF CreateCategory, CategoryRow
    <3> HIDE DEF row
    <3> QED BY <1>1, <3>1, <3>2, UniqueWrite
  <2>3. ASSUME NEW n \in Name, UpdateCategory(c, n)
        PROVE  Unique(categories')
    <3> DEFINE row == [categories[c] EXCEPT !.name = n]
    <3>1. categories' = [categories EXCEPT ![c] = row]
      BY <2>3 DEF UpdateCategory
    <3>2. NameFree(categories, row.name, c)
      BY <2>1, <2>3 DEF UpdateCategory, Active, CategoryRow
    <3> HIDE DEF row
    <3> QED BY <1>1, <3>1, <3>2, UniqueWrite
  <2>4. ASSUME ArchiveCategory(c)
        PROVE  Unique(categories')
    <3> DEFINE row == [categories[c] EXCEPT !.archived = TRUE]
    <3>1. categories' = [categories EXCEPT ![c] = row]
      BY <2>4 DEF ArchiveCategory
    <3>2. NameFree(categories, row.name, c)
      BY <2>1, <2>4 DEF ArchiveCategory, Active, CategoryRow
    <3> HIDE DEF row
    <3> QED BY <1>1, <3>1, <3>2, UniqueWrite
  <2>5. ASSUME RestoreCategory(c)
        PROVE  Unique(categories')
    <3> DEFINE row == [categories[c] EXCEPT !.archived = FALSE]
    <3>1. categories' = [categories EXCEPT ![c] = row]
      BY <2>5 DEF RestoreCategory
    <3>2. NameFree(categories, row.name, c)
      BY <2>1, <2>5 DEF RestoreCategory, CategoryRow
    <3> HIDE DEF row
    <3> QED BY <1>1, <3>1, <3>2, UniqueWrite
  <2> QED BY <1>3, <2>2, <2>3, <2>4, <2>5, MutationFrame DEF CategoryStep
<1>4. ASSUME NEW i \in Ingredient, IngredientStep(i)
      PROVE  categories' = categories /\ Unique(ingredients')
  <2>1. ingredients[i] # None =>
          ingredients[i] \in IngredientRow /\ NameFree(ingredients, ingredients[i].name, i)
    BY <1>1, RowFacts, OwnNameFree
  <2>2. ASSUME NEW n \in Name, NEW c \in Category, NEW f \in Family, NEW track \in BOOLEAN,
               CreateIngredient(i, n, c, f, track)
        PROVE  Unique(ingredients')
    <3> DEFINE row == [name |-> n, category |-> c, family |-> f, archived |-> FALSE]
    <3>1. ingredients' = [ingredients EXCEPT ![i] = row]
      BY <2>2 DEF CreateIngredient
    <3>2. NameFree(ingredients, row.name, i)
      BY <2>2 DEF CreateIngredient, IngredientRow
    <3> HIDE DEF row
    <3> QED BY <1>1, <3>1, <3>2, UniqueWrite
  <2>3. ASSUME NEW n \in Name \cup {None}, NEW c \in Category \cup {None},
               NEW f \in Family \cup {None}, UpdateIngredient(i, n, c, f)
        PROVE  Unique(ingredients')
    <3> DEFINE row == [ingredients[i] EXCEPT
                         !.name = IF n = None THEN @ ELSE n,
                         !.category = IF c = None THEN @ ELSE c,
                         !.family = IF f = None THEN @ ELSE f]
    <3>1. ingredients' = [ingredients EXCEPT ![i] = row]
      BY <2>3 DEF UpdateIngredient
    <3>2. NameFree(ingredients, row.name, i)
      BY <2>1, <2>3 DEF UpdateIngredient, Active, IngredientRow
    <3> HIDE DEF row
    <3> QED BY <1>1, <3>1, <3>2, UniqueWrite
  <2>4. ASSUME ArchiveIngredient(i)
        PROVE  Unique(ingredients')
    <3> DEFINE row == [ingredients[i] EXCEPT !.archived = TRUE]
    <3>1. ingredients' = [ingredients EXCEPT ![i] = row]
      BY <2>4 DEF ArchiveIngredient
    <3>2. NameFree(ingredients, row.name, i)
      BY <2>1, <2>4 DEF ArchiveIngredient, Active, IngredientRow
    <3> HIDE DEF row
    <3> QED BY <1>1, <3>1, <3>2, UniqueWrite
  <2>5. ASSUME RestoreIngredient(i)
        PROVE  Unique(ingredients')
    <3> DEFINE row == [ingredients[i] EXCEPT !.archived = FALSE]
    <3>1. ingredients' = [ingredients EXCEPT ![i] = row]
      BY <2>5 DEF RestoreIngredient
    <3>2. NameFree(ingredients, row.name, i)
      BY <2>1, <2>5 DEF RestoreIngredient, IngredientRow
    <3> HIDE DEF row
    <3> QED BY <1>1, <3>1, <3>2, UniqueWrite
  <2>6. ASSUME Track(i) \/ Untrack(i)
        PROVE  Unique(ingredients')
    BY <1>1, <2>6 DEF Track, Untrack
  <2> QED BY <1>4, <2>2, <2>3, <2>4, <2>5, <2>6, MutationFrame DEF IngredientStep
<1>5. CASE \E c \in Category : CategoryStep(c)
  BY <1>1, <1>3, <1>5
<1>6. CASE \E i \in Ingredient : IngredientStep(i)
  BY <1>1, <1>4, <1>6
<1>7. CASE \E rc \in Recipe : RecipeStep(rc)
  <2>1. UNCHANGED <<categories, ingredients>>
    BY <1>7, MutationFrame
  <2> QED BY <1>1, <2>1
<1> QED BY <1>5, <1>6, <1>7 DEF AccountNext

\* What Seedable has checked makes the names of the seeded tables unique.
LEMMA SeedKeepsNames ==
  ASSUME CatalogTypeOK, NamesAreUnique, NEW m \in Manifest, Seedable(m),
         categories' = Seeded(m.categories, categories),
         ingredients' = Seeded(m.ingredients, ingredients)
  PROVE  NamesAreUnique'
<1>1. /\ \A c \in Category : categories'[c] = IF c \in DOMAIN m.categories
                                              THEN m.categories[c] ELSE categories[c]
      /\ \A i \in Ingredient : ingredients'[i] = IF i \in DOMAIN m.ingredients
                                                 THEN m.ingredients[i] ELSE ingredients[i]
  BY DEF Seeded, CatalogTypeOK
<1>2. /\ DOMAIN m.categories \subseteq Category /\ DOMAIN m.ingredients \subseteq Ingredient
      /\ \A c, d \in DOMAIN m.categories :
           m.categories[c].name = m.categories[d].name => c = d
      /\ \A i, j \in DOMAIN m.ingredients :
           m.ingredients[i].name = m.ingredients[j].name => i = j
  BY ManifestAssumption
<1>3. ASSUME NEW c \in DOMAIN m.categories, NEW d \in Category \ DOMAIN m.categories,
             categories[d] # None
      PROVE  categories[d].name # m.categories[c].name
  BY <1>3 DEF Seedable, NoGlobalTwin, CustomCategory
<1>4. ASSUME NEW i \in DOMAIN m.ingredients, NEW j \in Ingredient \ DOMAIN m.ingredients,
             ingredients[j] # None
      PROVE  ingredients[j].name # m.ingredients[i].name
  BY <1>4 DEF Seedable, NoGlobalTwin, CustomIngredient
<1>5. ASSUME NEW c \in Category, NEW d \in Category, categories'[c] # None, categories'[d] # None,
             categories'[c].name = categories'[d].name
      PROVE  c = d
  <2>1. CASE c \in DOMAIN m.categories /\ d \in DOMAIN m.categories
    BY <1>1, <1>2, <1>5, <2>1
  <2>2. CASE c \notin DOMAIN m.categories /\ d \notin DOMAIN m.categories
    BY <1>1, <1>5, <2>2 DEF NamesAreUnique
  <2>3. CASE c \in DOMAIN m.categories /\ d \notin DOMAIN m.categories
    BY <1>1, <1>3, <1>5, <2>3
  <2>4. CASE c \notin DOMAIN m.categories /\ d \in DOMAIN m.categories
    BY <1>1, <1>3, <1>5, <2>4
  <2> QED BY <2>1, <2>2, <2>3, <2>4
<1>6. ASSUME NEW i \in Ingredient, NEW j \in Ingredient, ingredients'[i] # None,
             ingredients'[j] # None, ingredients'[i].name = ingredients'[j].name
      PROVE  i = j
  <2>1. CASE i \in DOMAIN m.ingredients /\ j \in DOMAIN m.ingredients
    BY <1>1, <1>2, <1>6, <2>1
  <2>2. CASE i \notin DOMAIN m.ingredients /\ j \notin DOMAIN m.ingredients
    BY <1>1, <1>6, <2>2 DEF NamesAreUnique
  <2>3. CASE i \in DOMAIN m.ingredients /\ j \notin DOMAIN m.ingredients
    BY <1>1, <1>4, <1>6, <2>3
  <2>4. CASE i \notin DOMAIN m.ingredients /\ j \in DOMAIN m.ingredients
    BY <1>1, <1>4, <1>6, <2>4
  <2> QED BY <2>1, <2>2, <2>3, <2>4
<1> QED BY <1>5, <1>6 DEF NamesAreUnique

\* One name means one Category and one Ingredient to an account, if nothing is
\* created while the seed command runs (services.py:100-125,
\* services.py:227-252, seeding.py:80-133).
THEOREM NamesUnique == QuietSpec => []NamesAreUnique
<1>1. CatalogInit => NamesInv
  <2> SUFFICES ASSUME CatalogInit PROVE NamesAreUnique /\ seeding = None
    BY InitCatalog DEF NamesInv, CatalogInv
  <2>1. FirstManifest \in Manifest
    BY ManifestAssumption
  <2>2. /\ \A c, d \in DOMAIN FirstManifest.categories :
             FirstManifest.categories[c].name = FirstManifest.categories[d].name => c = d
        /\ \A i, j \in DOMAIN FirstManifest.ingredients :
             FirstManifest.ingredients[i].name = FirstManifest.ingredients[j].name => i = j
    BY <2>1, ManifestAssumption
  <2> QED BY <2>2 DEF CatalogInit, Seeded, NamesAreUnique
<1>2. CatalogInv /\ NamesInv /\ [QuietNext]_catalogVars => NamesInv'
  <2> SUFFICES ASSUME CatalogInv, NamesInv, [QuietNext]_catalogVars PROVE NamesInv'
    OBVIOUS
  <2> USE DEF NamesInv
  <2>1. CatalogTypeOK'
    BY CatalogStep DEF CatalogInv, QuietNext, ServingNext
  <2>2. CASE seeding = None /\ AccountNext
    <3>1. seeding' = None
      BY <2>2, MutationFrame DEF AccountNext
    <3> QED BY <2>1, <2>2, <3>1, AccountKeepsNames
  <2>3. ASSUME NEW m \in Manifest, BeginSeed(m) PROVE NamesInv'
    <3>1. /\ UNCHANGED <<categories, ingredients>> /\ seeding' = m /\ Seedable(m)
      BY <2>3 DEF BeginSeed
    <3> QED BY <2>1, <3>1 DEF NamesAreUnique, Seedable, NoGlobalTwin
  <2>4. CASE CommitSeed
    <3>1. seeding \in Manifest /\ Seedable(seeding) /\ seeding' = None
      BY <2>4 DEF CommitSeed, CatalogTypeOK
    <3> QED BY <2>1, <2>4, <3>1, SeedKeepsNames DEF CommitSeed
  <2>5. CASE UNCHANGED catalogVars
    BY <2>1, <2>5 DEF catalogVars, NamesAreUnique, Seedable, NoGlobalTwin
  <2> QED BY <2>2, <2>3, <2>4, <2>5 DEF QuietNext
<1>3. QuietSpec => []CatalogInv
  BY CatalogInvariant, QuietIsServing, PTL
<1>4. NamesInv => NamesAreUnique
  BY DEF NamesInv
<1> QED BY <1>1, <1>2, <1>3, <1>4, PTL DEF QuietSpec
=============================================================================
