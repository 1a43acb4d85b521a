----------------------------- MODULE MCCatalog ------------------------------
(***************************************************************************)
(* A small catalog: one global Category and Ingredient, seeded by the      *)
(* second release under a name that an account may have taken.             *)
(***************************************************************************)
EXTENDS Catalog, TLC

CONSTANTS gc, c1, gi, i1, i2, r1, gr, n1, n2, n3, mass, count

OldRelease == [categories |-> gc :> [name |-> n1, archived |-> FALSE],
               ingredients |-> <<>>, recipes |-> <<>>]
MidRelease == [categories |-> gc :> [name |-> n2, archived |-> FALSE],
               ingredients |-> gi :> [name |-> n1, category |-> gc,
                                      family |-> mass, archived |-> FALSE],
               recipes |-> <<>>]

\* Two later releases: one adds a Recipe, the other changes its base servings.
Porridge(servings) ==
    [status |-> "published", complete |-> TRUE, base |-> servings,
     parts |-> gi :> [family |-> mass, quantified |-> TRUE]]
NewRelease == [MidRelease EXCEPT !.recipes = gr :> Porridge(1)]
LastRelease == [MidRelease EXCEPT !.recipes = gr :> Porridge(2)]

Releases == {OldRelease, MidRelease}
RecipeReleases == {OldRelease, NewRelease, LastRelease}

OwnIds == Permutations({i1, i2})
=============================================================================
