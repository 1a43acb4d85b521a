------------------------------ MODULE MCImport ------------------------------
(***************************************************************************)
(* Two accounts and three devices: a full phone, a tablet whose ids and    *)
(* balances meet, and an old laptop most of whose state finds no match.    *)
(***************************************************************************)
EXTENDS Import

CONSTANTS u1, u2, gc, c1, c2, gi, i1, i2, grc, rc1, rc2, l1, l2, l3, e1, e2, e3, e4,
          dairy, chilled, shed, milk, milks, herb, soup, porridge, mass, volume,
          d1, d2, d3, d4, d5, d6, d7, low, me, nobody

Categories == gc :> [owner |-> None, name |-> dairy, archived |-> FALSE]
Ingredient(n, cat, fam) == [owner |-> None, name |-> n, category |-> cat, family |-> fam,
                            archived |-> FALSE]
GlobalPantry == gi :> Ingredient(milk, gc, volume)
GlobalCookbook == grc :> [owner |-> None, name |-> porridge, published |-> TRUE,
                          parts |-> gi :> 1]
Aliases == chilled :> dairy @@ milks :> milk

Category(id, n, global) == [id |-> id, name |-> n, global |-> global]
Item(id, n, cat, fam, global) ==
    [id |-> id, name |-> n, category |-> cat, family |-> fam, global |-> global]
Part(l, q) == [ingredient |-> l, quantity |-> q]
Dish(id, n, global, published, parts) ==
    [id |-> id, name |-> n, global |-> global, published |-> published, parts |-> parts]
Happened(id, type, rc, l, delta, of, reversed) ==
    [id |-> id, type |-> type, recipe |-> rc, changes |-> <<[ingredient |-> l, delta |-> delta]>>,
     reversalOf |-> of, reversed |-> reversed]
Sold(l, n) == [recipe |-> l, servings |-> n]
Shopping(id, status, rcs, items) ==
    [id |-> id, status |-> status, recipes |-> rcs, items |-> items]

Phone ==
    [categories |-> <<Category(d1, chilled, TRUE), Category(d2, shed, FALSE)>>,
     ingredients |-> <<Item(d3, milk, d1, volume, TRUE), Item(d4, herb, d2, mass, FALSE)>>,
     profile |-> <<me>>,
     tracked |-> {d3, d4}, balances |-> d4 :> 1,
     preferences |-> d4 :> [low |-> low, refill |-> None],
     recipes |-> <<Dish(d5, soup, FALSE, TRUE, <<Part(d3, 1), Part(d4, 1)>>)>>,
     activity |-> <<Happened(d6, "cooking", d5, d4, -1, None, TRUE),
                    Happened(e1, "reversal", None, d4, 1, d6, FALSE)>>,
     basket |-> <<Sold(d5, 1)>>,
     lists |-> <<Shopping(d6, "active", <<d5>>, <<d3>>), Shopping(d5, "active", <<>>, <<>>)>>]

\* Two ids for milk, and a draft of soup in the Basket.
Tablet ==
    [categories |-> <<Category(d2, shed, FALSE)>>,
     ingredients |-> <<Item(d3, milk, d2, volume, FALSE), Item(d1, milks, d2, volume, FALSE),
                       Item(d4, herb, d2, mass, FALSE)>>,
     profile |-> <<nobody>>,
     tracked |-> {d1, d3, d4}, balances |-> d1 :> 1 @@ d3 :> 2 @@ d4 :> None,
     preferences |-> d1 :> [low |-> low, refill |-> None] @@ d3 :> None,
     recipes |-> <<Dish(d5, soup, TRUE, FALSE, <<Part(d4, -1)>>),
                   Dish(d6, porridge, TRUE, TRUE, <<>>)>>,
     activity |-> <<Happened(d7, "manual", None, d3, 1, None, FALSE)>>,
     basket |-> <<Sold(d5, 1), Sold(d6, 1)>>,
     lists |-> <<Shopping(d7, "completed", <<d6, e2>>, <<d4, e2>>)>>]

Laptop ==
    [categories |-> <<Category(d1, shed, FALSE), Category(d2, herb, TRUE)>>,
     ingredients |-> <<Item(d3, milk, d1, mass, FALSE), Item(d4, herb, d1, mass, FALSE),
                       Item(d7, soup, d2, mass, FALSE)>>,
     profile |-> <<>>,
     tracked |-> {d4, d7}, balances |-> d4 :> 2,
     preferences |-> d4 :> [low |-> None, refill |-> None],
     recipes |-> <<Dish(d5, soup, FALSE, TRUE, <<Part(d4, None)>>),
                   Dish(d6, herb, FALSE, FALSE, <<Part(d3, 1)>>)>>,
     activity |-> <<Happened(e2, "cooking", None, d3, -1, None, FALSE),
                    Happened(d6, "reversal", None, d4, 1, e2, FALSE)>>,
     basket |-> <<Sold(d5, 3)>>,
     lists |-> <<Shopping(l1, "active", <<d5>>, <<d4>>)>>]

Small == -2 .. 2
Devices == {Phone, Tablet, Laptop}
Accounts == Permutations({u1, u2})
=============================================================================
