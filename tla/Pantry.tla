------------------------------- MODULE Pantry -------------------------------
(***************************************************************************)
(* The pantry of one account: which Ingredients it tracks, how much there  *)
(* is of each, and the history that explains it.                           *)
(*                                                                         *)
(* Every action is one mutation, committed in one transaction under the    *)
(* account lock (module Accounts), so it is atomic here.  A refused        *)
(* mutation, one whose event id exists and one whose numbers do not fit    *)
(* the NUMERIC(15,3) columns are rolled back: they are no step at all.     *)
(* An import writes balances and events directly (full_services.py:1313,   *)
(* full_services.py:1468) and is in module Import: what is said here is of *)
(* the Pantry's own operations and the rows that they have written.        *)
(*                                                                         *)
(* Quantities are integers of 0.001 base units, as the columns store them. *)
(* Recipes are the published ones: no handler changes or removes one (the  *)
(* seed command may, see Catalog: here one release of them is fixed).      *)
(* "Faulty" definitions are part of no behaviour (see Accounts).           *)
(***************************************************************************)
EXTENDS Integers, Sequences, FiniteSets

CONSTANTS
    Ingredient,     \* the Ingredients the account can see
    Custom,         \* its own Ingredients: only these can be archived
    Recipe,         \* the published Recipes it can see
    Needs,          \* Needs[rc]: Ingredient -> quantity, for BaseServings[rc]
    BaseServings,
    Servings,       \* servings that clients ask for
    Event,          \* activity event ids that clients choose
    Amount,         \* amounts that clients send
    Preference,     \* restock preferences: thresholds and refill quantities
    MaxQuantity,    \* the largest magnitude of a NUMERIC(15,3) column
    None

ASSUME RecipeAssumption ==
    /\ Custom \subseteq Ingredient
    /\ \A rc \in Recipe : /\ DOMAIN Needs[rc] \subseteq Ingredient
                          /\ \A i \in DOMAIN Needs[rc] : Needs[rc][i] \in Nat \ {0}
                          /\ BaseServings[rc] \in Nat \ {0}
    /\ Servings \subseteq Nat \ {0}
ASSUME QuantityAssumption == Amount \subseteq Int /\ MaxQuantity \in Nat

\* What a NUMERIC(15,3) column holds.
Quantity == -MaxQuantity .. MaxQuantity

StockRow == [quantity: Quantity, preference: Preference \cup {None}]

EventRow == [type: {"manual", "cooking", "reversal"},
             recipe: Recipe \cup {None},
             reversalOf: Event \cup {None},
             reversed: BOOLEAN]

ChangeRow == [event: Event, before: Quantity, delta: Quantity, after: Quantity]

ASSUME PantryNoneAssumption ==
    None \notin Ingredient \cup Recipe \cup Event \cup Preference
                  \cup StockRow \cup EventRow

VARIABLES
    archived,   \* Ingredient.archived_at is set
    stock,      \* the pantry_stocks row of each Ingredient, or None
    events,     \* the activity_events row of each event id, or None
    ledger      \* the stock_changes rows of each Ingredient, in commit order

pantryVars == <<archived, stock, events, ledger>>

PantryTypeOK ==
    /\ archived \in [Ingredient -> BOOLEAN]
    /\ stock \in [Ingredient -> StockRow \cup {None}]
    /\ events \in [Event -> EventRow \cup {None}]
    /\ ledger \in [Ingredient -> Seq(ChangeRow)]

PantryInit ==
    /\ archived = [i \in Ingredient |-> FALSE]
    /\ stock = [i \in Ingredient |-> None]
    /\ events = [e \in Event |-> None]
    /\ ledger = [i \in Ingredient |-> <<>>]

-----------------------------------------------------------------------------
(* Rows and arithmetic.                                                    *)

Tracked(i) == stock[i] # None

\* The balance of an untracked Ingredient counts as zero.
Balance(i) == IF Tracked(i) THEN stock[i].quantity ELSE 0

NewRow(n) == [quantity |-> n, preference |-> None]

WithQuantity(i, n) ==
    IF Tracked(i) THEN [stock[i] EXCEPT !.quantity = n] ELSE NewRow(n)

\* Faulty Fits: no bound on what is stored.
FitsAlways(n) == TRUE

Fits(n) == n \in Quantity

\* quantity * servings / base, to the nearest 0.001, halves up.
Scaled(quantity, servings, base) == (2 * quantity * servings + base) \div (2 * base)

Manual   == [type |-> "manual", recipe |-> None, reversalOf |-> None,
             reversed |-> FALSE]
Cooking(rc) == [Manual EXCEPT !.type = "cooking", !.recipe = rc]
Reversal(o) == [Manual EXCEPT !.type = "reversal", !.reversalOf = o]

\* The balances after every Ingredient i in the domain of delta moved by
\* delta[i].  A missing row is added first, with balance zero.
Moved(delta) ==
    [i \in Ingredient |-> IF i \in DOMAIN delta
                          THEN WithQuantity(i, Balance(i) + delta[i])
                          ELSE stock[i]]

\* One stock_changes row per Ingredient, with the balance before and after.
Recorded(e, delta) ==
    [i \in Ingredient |-> IF i \in DOMAIN delta
                          THEN Append(ledger[i],
                                      [event |-> e, before |-> Balance(i),
                                       delta |-> delta[i],
                                       after |-> Balance(i) + delta[i]])
                          ELSE ledger[i]]

\* Faulty Move: an id that exists is overwritten.
MoveReusingId(e, delta) ==
    /\ \A i \in DOMAIN delta : Fits(delta[i]) /\ Fits(Balance(i) + delta[i])
    /\ stock' = Moved(delta)
    /\ ledger' = Recorded(e, delta)

\* Faulty Move: a balance that would overflow stays, the event goes on.
MoveWhatFits(e, delta) ==
    /\ events[e] = None
    /\ \A i \in DOMAIN delta : Fits(delta[i])
    /\ stock' = Moved([i \in {j \in DOMAIN delta : Fits(Balance(j) + delta[j])} |-> delta[i]])
    /\ ledger' = Recorded(e, delta)

\* Event e moves the balances and records each move, all or nothing.
Move(e, delta) ==
    /\ events[e] = None
    /\ \A i \in DOMAIN delta : Fits(delta[i]) /\ Fits(Balance(i) + delta[i])
    /\ stock' = Moved(delta)
    /\ ledger' = Recorded(e, delta)

Post(e, row, delta) ==
    /\ Move(e, delta)
    /\ events' = [events EXCEPT ![e] = row]

-----------------------------------------------------------------------------
(* Tracking and the catalog.                                               *)

\* PUT tracked: a new row starts at zero.
Track(i) ==
    /\ ~archived[i]
    /\ ~Tracked(i)
    /\ stock' = [stock EXCEPT ![i] = NewRow(0)]
    /\ UNCHANGED <<archived, events, ledger>>

\* Faulty Untrack: whatever is left is dropped.
UntrackAnyway(i) ==
    /\ ~archived[i]
    /\ Tracked(i)
    /\ stock' = [stock EXCEPT ![i] = None]
    /\ UNCHANGED <<archived, events, ledger>>

\* PUT untracked: the row goes, its preferences too, but only at zero.
Untrack(i) ==
    /\ ~archived[i]
    /\ Tracked(i)
    /\ stock[i].quantity = 0
    /\ stock' = [stock EXCEPT ![i] = None]
    /\ UNCHANGED <<archived, events, ledger>>

SetPreferences(i, p) ==
    /\ ~archived[i]
    /\ Tracked(i)
    /\ stock' = [stock EXCEPT ![i].preference = p]
    /\ UNCHANGED <<archived, events, ledger>>

ArchiveIngredient(i) ==
    /\ i \in Custom
    /\ ~archived[i]
    /\ Balance(i) = 0
    /\ archived' = [archived EXCEPT ![i] = TRUE]
    /\ UNCHANGED <<stock, events, ledger>>

\* What the Category and the name must allow is in module Catalog.
RestoreIngredient(i) ==
    /\ i \in Custom
    /\ archived[i]
    /\ archived' = [archived EXCEPT ![i] = FALSE]
    /\ UNCHANGED <<stock, events, ledger>>

-----------------------------------------------------------------------------
(* Manual changes.                                                         *)

\* The move that an operation with an amount asks for.
Delta(i, op, n) == CASE op = "set"    -> n - Balance(i)
                     [] op = "add"    -> n
                     [] op = "remove" -> -n

\* The amounts the request schema lets through: set takes any sign.
Valid(op, n) == op = "set" \/ n > 0

AdjustStock(i, op, n, e) ==
    /\ Valid(op, n)
    /\ ~archived[i]
    /\ Post(e, Manual, [j \in {i} |-> Delta(i, op, n)])
    /\ UNCHANGED archived

\* Every row is checked before any is written; set takes no negative amount.
BulkAdjustStock(rows, e) ==
    /\ \A i \in DOMAIN rows : /\ ~archived[i]
                              /\ rows[i].amount >= 0
                              /\ Valid(rows[i].op, rows[i].amount)
    /\ Post(e, Manual, [i \in DOMAIN rows |->
                          Delta(i, rows[i].op, rows[i].amount)])
    /\ UNCHANGED archived

-----------------------------------------------------------------------------
(* Cooking and undoing it.                                                 *)

\* What one cooking takes, with no look at archived_at or at what is left.
Consumed(rc, n) ==
    [i \in DOMAIN Needs[rc] |-> -Scaled(Needs[rc][i], n, BaseServings[rc])]

CookRecipe(rc, n, e) ==
    /\ Post(e, Cooking(rc), Consumed(rc, n))
    /\ UNCHANGED archived

\* The Ingredients an event changed, and by how much.
ChangedBy(o) ==
    {i \in Ingredient : \E k \in DOMAIN ledger[i] : ledger[i][k].event = o}
ChangeOf(o, i) ==
    ledger[i][CHOOSE k \in DOMAIN ledger[i] : ledger[i][k].event = o]
Undone(o) == [i \in ChangedBy(o) |-> -ChangeOf(o, i).delta]

\* Faulty Reversible: an undone cooking can be undone again.
ReversibleAgain(o) ==
    /\ events[o] # None
    /\ events[o].type = "cooking"

Reversible(o) ==
    /\ events[o] # None
    /\ events[o].type = "cooking"
    /\ ~events[o].reversed

\* The handler asserts that each changed Ingredient still has a stock row.
ReverseActivity(o, e) ==
    /\ Reversible(o)
    /\ \A i \in ChangedBy(o) : Tracked(i)
    /\ Move(e, Undone(o))
    /\ events' = [events EXCEPT ![e] = Reversal(o), ![o].reversed = TRUE]
    /\ UNCHANGED archived

-----------------------------------------------------------------------------

BulkRows == UNION {[S -> [op: {"add", "set"}, amount: Amount]] :
                     S \in SUBSET Ingredient \ {{}}}

Catalogue(i) ==
    \/ Track(i) \/ Untrack(i)
    \/ \E p \in Preference \cup {None} : SetPreferences(i, p)
    \/ ArchiveIngredient(i) \/ RestoreIngredient(i)

ManualChange(e) ==
    \/ \E i \in Ingredient, op \in {"set", "add", "remove"}, n \in Amount :
         AdjustStock(i, op, n, e)
    \/ \E rows \in BulkRows : BulkAdjustStock(rows, e)

PantryNext ==
    \/ \E i \in Ingredient : Catalogue(i)
    \/ \E e \in Event :
         \/ ManualChange(e)
         \/ \E rc \in Recipe, n \in Servings : CookRecipe(rc, n, e)
         \/ \E o \in Event : ReverseActivity(o, e)

PantrySpec == PantryInit /\ [][PantryNext]_pantryVars

-----------------------------------------------------------------------------
(* Properties.                                                             *)

\* The changes h lead from nothing, without a gap, to balance b.
Explains(h, b) ==
    /\ \A k \in 1 .. Len(h) :
         /\ h[k].before = IF k = 1 THEN 0 ELSE h[k - 1].after
         /\ h[k].after = h[k].before + h[k].delta
    /\ b = IF h = <<>> THEN 0 ELSE h[Len(h)].after

\* The history of an Ingredient, from nothing to its present balance, has no
\* gap: each change starts where the one before it ended, and the last one
\* ends at the balance, zero once the Ingredient is untracked.  A row that is
\* dropped and created again (services.py:345-348, full_services.py:997-1000,
\* full_services.py:1098-1101) does not break it.
HistoryExplainsStock == \A i \in Ingredient : Explains(ledger[i], Balance(i))

\* An undone cooking has one reversal, which moved exactly what the cooking
\* moved, the other way; nothing else is marked reversed
\* (full_services.py:1120-1169).
UndoneOnceAndExactly ==
    /\ \A o \in Event :
         events[o] # None /\ events[o].reversed =>
           /\ events[o].type = "cooking"
           /\ \E e \in Event : events[e] # None /\ events[e].reversalOf = o
    /\ \A e \in Event : events[e] # None /\ events[e].reversalOf # None =>
         LET o == events[e].reversalOf
         IN  /\ events[o].reversed
             /\ ChangedBy(e) = ChangedBy(o)
             /\ \A i \in ChangedBy(e) : ChangeOf(e, i).delta = -ChangeOf(o, i).delta
             /\ \A f \in Event \ {e} :
                  events[f] # None => events[f].reversalOf # o

\* What has been recorded is never rewritten: the ledger only grows and an
\* event changes only by being marked reversed, once (README.md:4-5,
\* "immutable Activity Events, reversals").
HistoryIsKept ==
    [][/\ \A i \in Ingredient :
            SubSeq(ledger'[i], 1, Len(ledger[i])) = ledger[i]
       /\ \A o \in Event : events[o] # None =>
            events'[o] \in {events[o], [events[o] EXCEPT !.reversed = TRUE]}]_pantryVars

\* full_services.py:1154 asserts that the stock of every Ingredient a cooking
\* changed is there when the cooking is undone.
StockIsThereToRestore ==
    \A o \in Event : Reversible(o) => \A i \in ChangedBy(o) : Tracked(i)

=============================================================================
