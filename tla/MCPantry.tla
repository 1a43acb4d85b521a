------------------------------ MODULE MCPantry ------------------------------
(***************************************************************************)
(* A small pantry: one shared and one custom Ingredient, a Recipe that     *)
(* takes both and one whose scaled quantity needs rounding.                *)
(***************************************************************************)
EXTENDS Pantry, TLC

CONSTANTS flour, herb, bread, tea, e1, e2, e3, low

\* bread: 2 flour and 1 herb for 2 servings, so one serving takes 0.5 herb,
\* which rounds up to 1; tea: 1 herb for 1 serving.
MCNeeds == bread :> (flour :> 2 @@ herb :> 1) @@ tea :> (herb :> 1)
MCBase == bread :> 2 @@ tea :> 1
MCAmount == {-1, 1, 2}

EventIds == Permutations({e1, e2, e3})
=============================================================================
