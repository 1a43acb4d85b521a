----------------------------- MODULE MCGrocery ------------------------------
(***************************************************************************)
(* A small kitchen to shop for: two Recipes that each take half a unit of  *)
(* the same Ingredient for one serving, and one of them another one.       *)
(***************************************************************************)
EXTENDS Grocery, TLC

CONSTANTS flour, herb, bread, tea, e1, e2, l1, l2, i1, i2

MCNeeds == bread :> (flour :> 2 @@ herb :> 1) @@ tea :> (herb :> 1)
MCBase == bread :> 2 @@ tea :> 2

Ids == Permutations({i1, i2}) \cup Permutations({l1, l2}) \cup Permutations({e1, e2})

Portions == {basket} \cup {lists[l].recipes : l \in {m \in List : lists[m] # None}}
AtMostOne(rows) == \A x, y \in DOMAIN rows : rows[x] # None /\ rows[y] # None => x = y

\* Room for two lists and every edit of one item: tea and what it takes.
OnlyTea ==
    /\ \A portions \in Portions : RecipesOf(portions) \subseteq {tea}
    /\ ledger[flour] = <<>> /\ stock[flour] = None
    /\ \A it \in Item : items[it] # None => items[it].ingredient # flour
    /\ AtMostOne(items)

\* Both Recipes and what they take, and two items of one list as they were made.
OneList ==
    /\ AtMostOne(lists)
    /\ archived = [i \in Ingredient |-> FALSE]
    /\ \A it \in Item : items[it] # None => ~items[it].edited

\* One event of any kind, or two that lists have added.
FewEvents ==
    \/ AtMostOne(events)
    \/ \A e \in Event : events[e] # None =>
         \E l \in List : lists[l] # None /\ \E p \in lists[l].additions : p.event = e

Bounded == FewEvents /\ (OnlyTea \/ OneList)
=============================================================================
