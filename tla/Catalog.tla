------------------------------ MODULE Catalog -------------------------------
(***************************************************************************)
(* What one account can cook with: Categories, Ingredients and Recipes,    *)
(* the global ones, which the seed command maintains, and its own.         *)
(*                                                                         *)
(* Each action is one committed mutation of the account, atomic under its  *)
(* lock (module Accounts).  The seed command takes no account's lock: it   *)
(* is a transaction of its own, in two steps.                              *)
(*                                                                         *)
(* Names are normalized ones (NFKC, case folded).  A balance is whatever   *)
(* module Pantry makes it, so it may be zero whenever an action needs it.  *)
(* "Faulty" definitions are part of no behaviour (see Accounts).           *)
(***************************************************************************)
EXTENDS Integers, FiniteSets

CONSTANTS
    Category, GlobalCategory,       \* ids, those of the seed manifests among them
    Ingredient, GlobalIngredient,
    Recipe, GlobalRecipe,
    Name,                           \* normalized names
    Family,                         \* measurement families
    BaseServings,                   \* the servings that a Recipe's parts are for
    Manifest,                       \* the catalogs that releases seed
    FirstManifest,
    None

CustomCategory == Category \ GlobalCategory
CustomIngredient == Ingredient \ GlobalIngredient
CustomRecipe == Recipe \ GlobalRecipe

CategoryRow == [name: Name, archived: BOOLEAN]
IngredientRow == [name: Name, category: Category, family: Family, archived: BOOLEAN]

\* A part: the family of the unit, and whether the quantity is a positive one.
Part == [family: Family, quantified: BOOLEAN]

\* complete: it has a name and a preparation step
RecipeRow == [status: {"draft", "published"}, complete: BOOLEAN, base: BaseServings,
              parts: UNION {[S -> Part] : S \in SUBSET Ingredient}]

ASSUME ManifestAssumption ==
    /\ GlobalCategory \subseteq Category /\ GlobalIngredient \subseteq Ingredient
    /\ GlobalRecipe \subseteq Recipe
    /\ FirstManifest \in Manifest
    /\ \A m \in Manifest :
         /\ DOMAIN m.categories \subseteq GlobalCategory
         /\ DOMAIN m.ingredients \subseteq GlobalIngredient
         /\ \A c \in DOMAIN m.categories :
              m.categories[c] \in CategoryRow /\ ~m.categories[c].archived
         /\ \A i \in DOMAIN m.ingredients :
              /\ m.ingredients[i] \in IngredientRow /\ ~m.ingredients[i].archived
              /\ m.ingredients[i].category \in DOMAIN m.categories
         /\ DOMAIN m.recipes \subseteq GlobalRecipe
         /\ \A rc \in DOMAIN m.recipes :
              /\ m.recipes[rc] \in RecipeRow
              /\ m.recipes[rc].status = "published" /\ m.recipes[rc].complete
              /\ DOMAIN m.recipes[rc].parts # {}
              /\ \A i \in DOMAIN m.recipes[rc].parts :
                   i \in DOMAIN m.ingredients /\ m.recipes[rc].parts[i].quantified
         /\ \A c, d \in DOMAIN m.categories :
              m.categories[c].name = m.categories[d].name => c = d
         /\ \A i, j \in DOMAIN m.ingredients :
              m.ingredients[i].name = m.ingredients[j].name => i = j
ASSUME CatalogNoneAssumption ==
    None \notin Category \cup Ingredient \cup Name \cup Family \cup Manifest
                  \cup CategoryRow \cup IngredientRow \cup RecipeRow

VARIABLES
    categories,     \* the categories row of each id, or None
    ingredients,    \* the ingredients row of each id, or None
    recipes,        \* the recipes row of each id with its parts, or None
    tracked,        \* whether each Ingredient has a pantry_stocks row
    seeding         \* the manifest of the seed command's open transaction, or None

catalogVars == <<categories, ingredients, recipes, tracked, seeding>>

CatalogTypeOK ==
    /\ categories \in [Category -> CategoryRow \cup {None}]
    /\ ingredients \in [Ingredient -> IngredientRow \cup {None}]
    /\ recipes \in [Recipe -> RecipeRow \cup {None}]
    /\ tracked \in [Ingredient -> BOOLEAN]
    /\ seeding \in Manifest \cup {None}
    /\ \A i \in Ingredient : ingredients[i] # None =>
         categories[ingredients[i].category] # None

\* The rows a manifest adds or rewrites.
Seeded(rows, table) ==
    [id \in DOMAIN table |-> IF id \in DOMAIN rows THEN rows[id] ELSE table[id]]

\* A Recipe that exists keeps its parts and steps; its base servings, name and
\* description are rewritten.
SeededRecipes(rows, table) ==
    [rc \in DOMAIN table |->
       IF rc \notin DOMAIN rows THEN table[rc]
       ELSE IF table[rc] = None THEN rows[rc]
       ELSE [table[rc] EXCEPT !.base = rows[rc].base]]

CatalogInit ==
    /\ categories = Seeded(FirstManifest.categories, [c \in Category |-> None])
    /\ ingredients = Seeded(FirstManifest.ingredients, [i \in Ingredient |-> None])
    /\ recipes = SeededRecipes(FirstManifest.recipes, [rc \in Recipe |-> None])
    /\ tracked = [i \in Ingredient |-> FALSE]
    /\ seeding = None

Active(table, id) == table[id] # None /\ ~table[id].archived

\* No row the account can see, archived or not, has name n but row id itself.
NameFree(table, n, id) ==
    \A other \in DOMAIN table \ {id} : table[other] # None => table[other].name # n

-----------------------------------------------------------------------------
(* Categories.                                                             *)

CreateCategory(c, n) ==
    /\ c \in CustomCategory
    /\ categories[c] = None
    /\ NameFree(categories, n, c)
    /\ categories' = [categories EXCEPT ![c] = [name |-> n, archived |-> FALSE]]
    /\ UNCHANGED <<ingredients, recipes, tracked, seeding>>

UpdateCategory(c, n) ==
    /\ c \in CustomCategory
    /\ Active(categories, c)
    /\ NameFree(categories, n, c)
    /\ categories' = [categories EXCEPT ![c].name = n]
    /\ UNCHANGED <<ingredients, recipes, tracked, seeding>>

ArchiveCategory(c) ==
    /\ c \in CustomCategory
    /\ Active(categories, c)
    /\ \A i \in Ingredient : Active(ingredients, i) => ingredients[i].category # c
    /\ categories' = [categories EXCEPT ![c].archived = TRUE]
    /\ UNCHANGED <<ingredients, recipes, tracked, seeding>>

RestoreCategory(c) ==
    /\ c \in CustomCategory
    /\ categories[c] # None /\ categories[c].archived
    /\ NameFree(categories, categories[c].name, c)
    /\ categories' = [categories EXCEPT ![c].archived = FALSE]
    /\ UNCHANGED <<ingredients, recipes, tracked, seeding>>

-----------------------------------------------------------------------------
(* Ingredients.                                                            *)

\* Faulty CreateIngredient: the Category is not looked up.
CreateIngredientAnywhere(i, n, c, f, track) ==
    /\ i \in CustomIngredient
    /\ ingredients[i] = None
    /\ NameFree(ingredients, n, i)
    /\ ingredients' = [ingredients EXCEPT ![i] =
                         [name |-> n, category |-> c, family |-> f, archived |-> FALSE]]
    /\ UNCHANGED <<categories, recipes, tracked, seeding>>

CreateIngredient(i, n, c, f, track) ==
    /\ i \in CustomIngredient
    /\ ingredients[i] = None
    /\ Active(categories, c)
    /\ NameFree(ingredients, n, i)
    /\ ingredients' = [ingredients EXCEPT ![i] =
                         [name |-> n, category |-> c, family |-> f, archived |-> FALSE]]
    /\ tracked' = [tracked EXCEPT ![i] = track]
    /\ UNCHANGED <<categories, recipes, seeding>>

\* A field that is None is left as it is.  The family changes only while the
\* Ingredient is untracked; what else refers to it is not looked at.
UpdateIngredient(i, n, c, f) ==
    /\ i \in CustomIngredient
    /\ Active(ingredients, i)
    /\ n # None => NameFree(ingredients, n, i)
    /\ c # None => Active(categories, c)
    /\ f \notin {None, ingredients[i].family} => ~tracked[i]
    /\ ingredients' = [ingredients EXCEPT
                         ![i].name = IF n = None THEN @ ELSE n,
                         ![i].category = IF c = None THEN @ ELSE c,
                         ![i].family = IF f = None THEN @ ELSE f]
    /\ UNCHANGED <<categories, recipes, tracked, seeding>>

\* Its balance, if it is tracked, must be zero.
ArchiveIngredient(i) ==
    /\ i \in CustomIngredient
    /\ Active(ingredients, i)
    /\ ingredients' = [ingredients EXCEPT ![i].archived = TRUE]
    /\ UNCHANGED <<categories, recipes, tracked, seeding>>

\* Faulty RestoreIngredient: its Category is not looked at.
RestoreIngredientAnywhere(i) ==
    /\ i \in CustomIngredient
    /\ ingredients[i] # None /\ ingredients[i].archived
    /\ NameFree(ingredients, ingredients[i].name, i)
    /\ ingredients' = [ingredients EXCEPT ![i].archived = FALSE]
    /\ UNCHANGED <<categories, recipes, tracked, seeding>>

RestoreIngredient(i) ==
    /\ i \in CustomIngredient
    /\ ingredients[i] # None /\ ingredients[i].archived
    /\ Active(categories, ingredients[i].category)
    /\ NameFree(ingredients, ingredients[i].name, i)
    /\ ingredients' = [ingredients EXCEPT ![i].archived = FALSE]
    /\ UNCHANGED <<categories, recipes, tracked, seeding>>

\* PUT tracking, a manual change, a cooking or a purchase adds the stock row.
Track(i) ==
    /\ ingredients[i] # None
    /\ tracked' = [tracked EXCEPT ![i] = TRUE]
    /\ UNCHANGED <<categories, ingredients, recipes, seeding>>

\* PUT tracking drops it, at balance zero.
Untrack(i) ==
    /\ Active(ingredients, i)
    /\ tracked[i]
    /\ tracked' = [tracked EXCEPT ![i] = FALSE]
    /\ UNCHANGED <<categories, ingredients, recipes, seeding>>

-----------------------------------------------------------------------------
(* Recipes.                                                                *)

\* _replace_recipe_parts: only active Ingredients, in units of their family.
Writable(parts) ==
    \A i \in DOMAIN parts : /\ Active(ingredients, i)
                            /\ parts[i].family = ingredients[i].family

Draft(complete, base, parts) ==
    [status |-> "draft", complete |-> complete, base |-> base, parts |-> parts]

CreateRecipe(rc, complete, base, parts) ==
    /\ rc \in CustomRecipe
    /\ recipes[rc] = None
    /\ Writable(parts)
    /\ recipes' = [recipes EXCEPT ![rc] = Draft(complete, base, parts)]
    /\ UNCHANGED <<categories, ingredients, tracked, seeding>>

\* Faulty IsDraft: any Recipe of the account can be edited.
IsOwn(rc) == rc \in CustomRecipe /\ recipes[rc] # None

IsDraft(rc) ==
    rc \in CustomRecipe /\ recipes[rc] # None /\ recipes[rc].status = "draft"

UpdateRecipe(rc, complete, base, parts) ==
    /\ IsDraft(rc)
    /\ Writable(parts)
    /\ recipes' = [recipes EXCEPT ![rc].complete = complete, ![rc].base = base,
                                  ![rc].parts = parts]
    /\ UNCHANGED <<categories, ingredients, tracked, seeding>>

DeleteRecipe(rc) ==
    /\ IsDraft(rc)
    /\ recipes' = [recipes EXCEPT ![rc] = None]
    /\ UNCHANGED <<categories, ingredients, tracked, seeding>>

\* Faulty PublishRecipe: the quantities are not looked at.
PublishUnquantified(rc) ==
    /\ IsDraft(rc)
    /\ recipes[rc].complete
    /\ DOMAIN recipes[rc].parts # {}
    /\ recipes' = [recipes EXCEPT ![rc].status = "published"]
    /\ UNCHANGED <<categories, ingredients, tracked, seeding>>

PublishRecipe(rc) ==
    /\ IsDraft(rc)
    /\ recipes[rc].complete
    /\ DOMAIN recipes[rc].parts # {}
    /\ \A i \in DOMAIN recipes[rc].parts : recipes[rc].parts[i].quantified
    /\ recipes' = [recipes EXCEPT ![rc].status = "published"]
    /\ UNCHANGED <<categories, ingredients, tracked, seeding>>

-----------------------------------------------------------------------------
(* The seed command.                                                       *)

\* No global row that m leaves alone has a name of m (the unique index).
NoGlobalTwin(rows, table, global) ==
    \A g \in DOMAIN rows, other \in global \ DOMAIN rows :
      table[other] # None => table[other].name # rows[g].name

\* Faulty Seedable: custom Ingredients are not looked at.
SeedableBlindly(m) ==
    /\ NoGlobalTwin(m.categories, categories, GlobalCategory)
    /\ NoGlobalTwin(m.ingredients, ingredients, GlobalIngredient)

\* No custom row has a name of the manifest, and no family changes.
Seedable(m) ==
    /\ NoGlobalTwin(m.categories, categories, GlobalCategory)
    /\ NoGlobalTwin(m.ingredients, ingredients, GlobalIngredient)
    /\ \A c \in CustomCategory, g \in DOMAIN m.categories :
         categories[c] # None => categories[c].name # m.categories[g].name
    /\ \A i \in CustomIngredient, g \in DOMAIN m.ingredients :
         ingredients[i] # None => ingredients[i].name # m.ingredients[g].name
    /\ \A g \in DOMAIN m.ingredients :
         ingredients[g] # None => ingredients[g].family = m.ingredients[g].family

\* apply_seed checks the tables as they are committed, and writes.
BeginSeed(m) ==
    /\ seeding = None
    /\ Seedable(m)
    /\ seeding' = m
    /\ UNCHANGED <<categories, ingredients, recipes, tracked>>

CommitSeed ==
    /\ seeding # None
    /\ categories' = Seeded(seeding.categories, categories)
    /\ ingredients' = Seeded(seeding.ingredients, ingredients)
    /\ recipes' = SeededRecipes(seeding.recipes, recipes)
    /\ seeding' = None
    /\ UNCHANGED tracked

-----------------------------------------------------------------------------

CategoryStep(c) ==
    \/ \E n \in Name : CreateCategory(c, n) \/ UpdateCategory(c, n)
    \/ ArchiveCategory(c) \/ RestoreCategory(c)

IngredientStep(i) ==
    \/ \E n \in Name, c \in Category, f \in Family, track \in BOOLEAN :
         CreateIngredient(i, n, c, f, track)
    \/ \E n \in Name \cup {None}, c \in Category \cup {None}, f \in Family \cup {None} :
         UpdateIngredient(i, n, c, f)
    \/ ArchiveIngredient(i) \/ RestoreIngredient(i)
    \/ Track(i) \/ Untrack(i)

Parts == UNION {[S -> Part] : S \in SUBSET {i \in Ingredient : Active(ingredients, i)}}

RecipeStep(rc) ==
    \/ \E complete \in BOOLEAN, base \in BaseServings, parts \in Parts :
         \/ CreateRecipe(rc, complete, base, parts)
         \/ UpdateRecipe(rc, complete, base, parts)
    \/ DeleteRecipe(rc) \/ PublishRecipe(rc)

AccountNext ==
    \/ \E c \in Category : CategoryStep(c)
    \/ \E i \in Ingredient : IngredientStep(i)
    \/ \E rc \in Recipe : RecipeStep(rc)

\* The seed command runs while no account changes its catalog.
QuietNext ==
    \/ seeding = None /\ AccountNext
    \/ \E m \in Manifest : BeginSeed(m)
    \/ CommitSeed

\* Nothing keeps the accounts from changing theirs while it runs.
ServingNext ==
    \/ AccountNext
    \/ \E m \in Manifest : BeginSeed(m)
    \/ CommitSeed

QuietSpec == CatalogInit /\ [][QuietNext]_catalogVars
ServingSpec == CatalogInit /\ [][ServingNext]_catalogVars

-----------------------------------------------------------------------------
(* Properties.                                                             *)

\* An active Ingredient is in an active Category: archiving, restoring and
\* moving either, in any order, leaves none behind in an archived one
\* (services.py:180-205, services.py:255-259, services.py:424-436).
ActiveInActiveCategory ==
    \A i \in Ingredient :
      Active(ingredients, i) => Active(categories, ingredients[i].category)

\* A name means one Category and one Ingredient to the account, archived ones
\* and those of later seeds included (services.py:100-125,
\* services.py:227-252, seeding.py:80-133).
NamesAreUnique ==
    /\ \A c, d \in Category : categories[c] # None /\ categories[d] # None =>
         (categories[c].name = categories[d].name => c = d)
    /\ \A i, j \in Ingredient : ingredients[i] # None /\ ingredients[j] # None =>
         (ingredients[i].name = ingredients[j].name => i = j)

\* CONTEXT.md:25 calls a Custom Ingredient one created "when no Global
\* Ingredient matches", and seeding.py:119 refuses to seed a Global Ingredient
\* that "conflicts with a Custom Ingredient": no two match.
CustomMatchesNoGlobal ==
    \A i \in CustomIngredient, g \in GlobalIngredient :
      ingredients[i] # None /\ ingredients[g] # None =>
        ingredients[i].name # ingredients[g].name

\* Whatever is published can be cooked: it has parts, each with a quantity,
\* and each of an Ingredient that still exists (full_services.py:963-974).
PublishedIsCookable ==
    \A rc \in Recipe : recipes[rc] # None /\ recipes[rc].status = "published" =>
      /\ recipes[rc].complete /\ DOMAIN recipes[rc].parts # {}
      /\ \A i \in DOMAIN recipes[rc].parts :
           recipes[rc].parts[i].quantified /\ ingredients[i] # None

\* A published Recipe stays as it was published: Baskets, Grocery Lists and
\* the history of cooking refer to it.  Only the seed command changes one, and
\* of a global one only what its parts are for (full_services.py:881-960,
\* seeding.py:142-173).
PublishedIsKept ==
    [][\A rc \in Recipe :
         recipes[rc] # None /\ recipes[rc].status = "published" =>
           \/ recipes'[rc] = recipes[rc]
           \/ /\ rc \in GlobalRecipe /\ seeding # None
              /\ recipes'[rc] = [recipes[rc] EXCEPT !.base = recipes'[rc].base]]_catalogVars

\* full_services.py:912 refuses a Recipe with "Recipe unit does not match
\* Ingredient family.": the unit of a Recipe's part is one of its Ingredient's.
RecipeUnitsMatchFamily ==
    \A rc \in Recipe : recipes[rc] # None =>
      \A i \in DOMAIN recipes[rc].parts :
        recipes[rc].parts[i].family = ingredients[i].family

=============================================================================
