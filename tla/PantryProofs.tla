---------------------------- MODULE PantryProofs ----------------------------
(***************************************************************************)
(* Proofs about module Pantry, for every catalog, every set of amounts and *)
(* every width of the quantity columns.                                    *)
(*                                                                         *)
(* Every action that moves a balance goes through Move, so the arithmetic  *)
(* is proved once, in MoveKeepsType and MoveKeepsHistory, and what it      *)
(* records once, in MoveRecords.                                           *)
(***************************************************************************)
EXTENDS Pantry, TLAPS, SequenceTheorems

\* The inductive invariant: what the history says of the balances needs the
\* rows to be well-typed, and the types need nothing else.
PantryInv == PantryTypeOK /\ HistoryExplainsStock

-----------------------------------------------------------------------------

\* Zero fits, and whatever fits is an integer.
LEMMA QuantityFacts == 0 \in Quantity /\ \A n \in Quantity : n \in Int
  BY QuantityAssumption DEF Quantity

\* A new row is a row.
LEMMA NewRowType ==
  ASSUME NEW n \in Quantity
  PROVE  NewRow(n) \in StockRow
  BY DEF NewRow, StockRow

\* The three kinds of events are events.
LEMMA EventTypes ==
  /\ Manual \in EventRow
  /\ \A rc \in Recipe : Cooking(rc) \in EventRow
  /\ \A o \in Event : Reversal(o) \in EventRow
  BY DEF Manual, Cooking, Reversal, EventRow

\* The balance of an Ingredient is a quantity.
LEMMA BalanceType ==
  ASSUME PantryTypeOK, NEW i \in Ingredient
  PROVE  Balance(i) \in Quantity
<1>1. CASE Tracked(i)
  <2>1. stock[i] \in StockRow
    BY <1>1 DEF PantryTypeOK, Tracked
  <2> QED BY <1>1, <2>1 DEF Balance, StockRow
<1>2. CASE ~Tracked(i)
  BY <1>2, QuantityFacts DEF Balance
<1> QED BY <1>1, <1>2

\* What a row becomes when its quantity changes.
LEMMA WithQuantityFacts ==
  ASSUME PantryTypeOK, NEW i \in Ingredient, NEW n \in Quantity
  PROVE  /\ WithQuantity(i, n) \in StockRow
         /\ WithQuantity(i, n).quantity = n
<1>1. CASE Tracked(i)
  <2>1. stock[i] \in StockRow
    BY <1>1 DEF PantryTypeOK, Tracked
  <2> QED BY <1>1, <2>1 DEF WithQuantity, StockRow
<1>2. CASE ~Tracked(i)
  BY <1>2, NewRowType DEF WithQuantity, NewRow
<1> QED BY <1>1, <1>2

\* A stock row is never None.
LEMMA RowIsNotNone == None \notin StockRow /\ None \notin EventRow
  BY PantryNoneAssumption

\* What Move does to one Ingredient.
LEMMA MoveOne ==
  ASSUME PantryTypeOK, NEW e \in Event, NEW delta, Move(e, delta),
         NEW i \in Ingredient, i \in DOMAIN delta
  PROVE  LET after == Balance(i) + delta[i]
         IN  /\ delta[i] \in Quantity /\ after \in Quantity
             /\ stock'[i] \in StockRow /\ stock'[i].quantity = after
             /\ ledger'[i] = Append(ledger[i],
                                    [event |-> e, before |-> Balance(i),
                                     delta |-> delta[i], after |-> after])
             /\ [event |-> e, before |-> Balance(i), delta |-> delta[i],
                 after |-> after] \in ChangeRow
<1> DEFINE after == Balance(i) + delta[i]
<1>1. delta[i] \in Quantity /\ after \in Quantity
  BY DEF Move, Fits
<1>2. stock'[i] = WithQuantity(i, after)
  BY DEF Move, Moved
<1>3. stock'[i] \in StockRow /\ stock'[i].quantity = after
  <2> HIDE DEF after
  <2> QED BY <1>1, <1>2, WithQuantityFacts
<1>4. ledger'[i] = Append(ledger[i], [event |-> e, before |-> Balance(i),
                                      delta |-> delta[i], after |-> after])
  BY DEF Move, Recorded
<1>5. [event |-> e, before |-> Balance(i), delta |-> delta[i],
       after |-> after] \in ChangeRow
  <2> HIDE DEF after
  <2> QED BY <1>1, BalanceType DEF ChangeRow
<1> QED BY <1>1, <1>3, <1>4, <1>5

\* What Move leaves alone.
LEMMA MoveOther ==
  ASSUME NEW e, NEW delta, Move(e, delta), NEW i \in Ingredient,
         i \notin DOMAIN delta
  PROVE  stock'[i] = stock[i] /\ ledger'[i] = ledger[i]
  BY DEF Move, Moved, Recorded

\* Move keeps the stock rows and the ledger well-typed.
LEMMA MoveKeepsType ==
  ASSUME PantryTypeOK, NEW e \in Event, NEW delta, Move(e, delta)
  PROVE  /\ stock' \in [Ingredient -> StockRow \cup {None}]
         /\ ledger' \in [Ingredient -> Seq(ChangeRow)]
<1>1. ASSUME NEW i \in Ingredient
      PROVE  stock'[i] \in StockRow \cup {None} /\ ledger'[i] \in Seq(ChangeRow)
  <2>1. CASE i \in DOMAIN delta
    <3> DEFINE row == [event |-> e, before |-> Balance(i), delta |-> delta[i],
                       after |-> Balance(i) + delta[i]]
    <3>1. ledger[i] \in Seq(ChangeRow)
      BY DEF PantryTypeOK
    <3>2. /\ stock'[i] \in StockRow
          /\ ledger'[i] = Append(ledger[i], row) /\ row \in ChangeRow
      BY <2>1, MoveOne
    <3> HIDE DEF row
    <3> QED BY <3>1, <3>2
  <2>2. CASE i \notin DOMAIN delta
    BY <2>2, MoveOther DEF PantryTypeOK
  <2> QED BY <2>1, <2>2
<1>2. stock' = Moved(delta) /\ ledger' = Recorded(e, delta)
  BY DEF Move
<1> QED BY <1>1, <1>2 DEF Moved, Recorded

\* One more change that starts at the balance extends the history.
LEMMA AppendExplains ==
  ASSUME NEW h \in Seq(ChangeRow), NEW b, Explains(h, b),
         NEW row \in ChangeRow, row.before = b,
         row.after = row.before + row.delta
  PROVE  Explains(Append(h, row), row.after)
<1> DEFINE g == Append(h, row)
<1>1. Len(g) = Len(h) + 1 /\ Len(h) \in Nat /\ g # <<>> /\ g[Len(g)] = row
  OBVIOUS
<1>2. \A k \in 1 .. Len(h) : g[k] = h[k]
  OBVIOUS
<1>3. ASSUME NEW k \in 1 .. Len(g)
      PROVE  /\ g[k].before = IF k = 1 THEN 0 ELSE g[k - 1].after
             /\ g[k].after = g[k].before + g[k].delta
  <2>1. CASE k \in 1 .. Len(h)
    <3>1. g[k] = h[k] /\ (k # 1 => g[k - 1] = h[k - 1])
      BY <1>1, <1>2, <2>1
    <3> HIDE DEF g
    <3> QED BY <2>1, <3>1 DEF Explains
  <2>2. CASE k = Len(h) + 1
    <3>1. g[k] = row
      BY <1>1, <2>2
    <3>2. k = 1 => h = <<>>
      BY <1>1, <2>2
    <3>3. k # 1 => g[k - 1] = h[Len(h)] /\ h # <<>>
      BY <1>1, <1>2, <2>2
    <3> HIDE DEF g
    <3> QED BY <3>1, <3>2, <3>3 DEF Explains
  <2> QED BY <1>1, <2>1, <2>2
<1> HIDE DEF g
<1>4. Explains(g, row.after)
  BY <1>1, <1>3 DEF Explains
<1> QED BY <1>4 DEF g

\* Move keeps the history gapless and ending at the balance.
LEMMA MoveKeepsHistory ==
  ASSUME PantryInv, NEW e \in Event, NEW delta, Move(e, delta)
  PROVE  HistoryExplainsStock'
<1> USE DEF PantryInv
<1> SUFFICES ASSUME NEW i \in Ingredient
             PROVE  Explains(ledger'[i], Balance(i)')
  BY DEF HistoryExplainsStock
<1>1. Explains(ledger[i], Balance(i)) /\ ledger[i] \in Seq(ChangeRow)
  BY DEF HistoryExplainsStock, PantryTypeOK
<1>2. CASE i \in DOMAIN delta
  <2> DEFINE row == [event |-> e, before |-> Balance(i), delta |-> delta[i],
                     after |-> Balance(i) + delta[i]]
  <2>1. /\ row \in ChangeRow /\ ledger'[i] = Append(ledger[i], row)
        /\ stock'[i] \in StockRow /\ stock'[i].quantity = row.after
    BY <1>2, MoveOne
  <2>2. row.before = Balance(i) /\ row.after = row.before + row.delta
    OBVIOUS
  <2> HIDE DEF row
  <2>3. Explains(Append(ledger[i], row), row.after)
    BY <1>1, <2>1, <2>2, AppendExplains
  <2>4. Balance(i)' = row.after
    BY <2>1, RowIsNotNone DEF Balance, Tracked
  <2> QED BY <2>1, <2>3, <2>4
<1>3. CASE i \notin DOMAIN delta
  <2>1. stock'[i] = stock[i] /\ ledger'[i] = ledger[i]
    BY <1>3, MoveOther
  <2> QED BY <1>1, <2>1 DEF Balance, Tracked
<1> QED BY <1>2, <1>3

-----------------------------------------------------------------------------
(* Steps.                                                                  *)

\* An event that is posted keeps the invariant.
LEMMA PostStep ==
  ASSUME PantryInv, NEW e \in Event, NEW row \in EventRow, NEW delta,
         Post(e, row, delta), UNCHANGED archived
  PROVE  PantryInv'
<1>1. Move(e, delta) /\ events' = [events EXCEPT ![e] = row]
  BY DEF Post
<1>2. HistoryExplainsStock'
  BY <1>1, MoveKeepsHistory
<1>3. /\ stock' \in [Ingredient -> StockRow \cup {None}]
      /\ ledger' \in [Ingredient -> Seq(ChangeRow)]
  BY <1>1, MoveKeepsType DEF PantryInv
<1>4. events' \in [Event -> EventRow \cup {None}]
  BY <1>1 DEF PantryInv, PantryTypeOK
<1> QED BY <1>2, <1>3, <1>4 DEF PantryInv, PantryTypeOK

\* Undoing a cooking keeps the invariant.
LEMMA ReverseStep ==
  ASSUME PantryInv, NEW o \in Event, NEW e \in Event, ReverseActivity(o, e)
  PROVE  PantryInv'
<1>1. /\ Move(e, Undone(o)) /\ Reversible(o) /\ UNCHANGED archived
      /\ events' = [events EXCEPT ![e] = Reversal(o), ![o].reversed = TRUE]
  BY DEF ReverseActivity
<1>2. HistoryExplainsStock'
  BY <1>1, MoveKeepsHistory
<1>3. /\ stock' \in [Ingredient -> StockRow \cup {None}]
      /\ ledger' \in [Ingredient -> Seq(ChangeRow)]
  BY <1>1, MoveKeepsType DEF PantryInv
<1>4. events' \in [Event -> EventRow \cup {None}]
  <2>1. events \in [Event -> EventRow \cup {None}] /\ events[e] = None
    BY <1>1 DEF PantryInv, PantryTypeOK, Move
  <2>2. events[o] \in EventRow /\ o # e
    BY <1>1, <2>1 DEF Reversible
  <2>3. Reversal(o) \in EventRow
    BY EventTypes
  <2>4. [events[o] EXCEPT !.reversed = TRUE] \in EventRow
    BY <2>2 DEF EventRow
  <2>5. events' = [[events EXCEPT ![e] = Reversal(o)] EXCEPT
                     ![o] = [events[o] EXCEPT !.reversed = TRUE]]
    BY <1>1, <2>1, <2>2
  <2> QED BY <2>1, <2>3, <2>4, <2>5
<1> QED BY <1>1, <1>2, <1>3, <1>4 DEF PantryInv, PantryTypeOK

\* Tracking and archiving move no balance: a row comes and goes at zero.
LEMMA CatalogueStep ==
  ASSUME PantryInv, NEW i \in Ingredient, Catalogue(i)
  PROVE  PantryInv'
<1> USE DEF PantryInv
<1>1. ASSUME ledger' = ledger, events' = events,
             archived' \in [Ingredient -> BOOLEAN],
             stock' \in [Ingredient -> StockRow \cup {None}],
             \A j \in Ingredient : Balance(j)' = Balance(j)
      PROVE  PantryInv'
  BY <1>1 DEF PantryTypeOK, HistoryExplainsStock
<1>2. CASE Track(i)
  <2>1. /\ stock' = [stock EXCEPT ![i] = NewRow(0)] /\ stock[i] = None
        /\ NewRow(0) \in StockRow /\ NewRow(0).quantity = 0
    BY <1>2, NewRowType, QuantityFacts DEF Track, Tracked, NewRow
  <2>2. stock' \in [Ingredient -> StockRow \cup {None}]
    BY <2>1 DEF PantryTypeOK
  <2>3. \A j \in Ingredient : Balance(j)' = Balance(j)
    BY <2>1, RowIsNotNone DEF PantryTypeOK, Balance, Tracked
  <2> QED BY <1>1, <1>2, <2>2, <2>3 DEF Track, PantryTypeOK
<1>3. CASE Untrack(i)
  <2>1. /\ stock' = [stock EXCEPT ![i] = None]
        /\ stock[i].quantity = 0
    BY <1>3 DEF Untrack
  <2>2. stock' \in [Ingredient -> StockRow \cup {None}]
    BY <2>1 DEF PantryTypeOK
  <2>3. \A j \in Ingredient : Balance(j)' = Balance(j)
    BY <2>1 DEF PantryTypeOK, Balance, Tracked
  <2> QED BY <1>1, <1>3, <2>2, <2>3 DEF Untrack, PantryTypeOK
<1>4. ASSUME NEW p \in Preference \cup {None}, SetPreferences(i, p)
      PROVE  PantryInv'
  <2>1. stock[i] \in StockRow /\ stock' = [stock EXCEPT ![i].preference = p]
    BY <1>4 DEF SetPreferences, PantryTypeOK, Tracked
  <2> DEFINE row == [stock[i] EXCEPT !.preference = p]
  <2>2. row \in StockRow /\ row.quantity = stock[i].quantity
    BY <2>1 DEF StockRow
  <2>3. stock' = [stock EXCEPT ![i] = row]
    BY <2>1
  <2> HIDE DEF row
  <2>4. stock' \in [Ingredient -> StockRow \cup {None}]
    BY <2>2, <2>3 DEF PantryTypeOK
  <2>5. \A j \in Ingredient : Balance(j)' = Balance(j)
    BY <2>1, <2>2, <2>3, RowIsNotNone DEF PantryTypeOK, Balance, Tracked
  <2> QED BY <1>1, <1>4, <2>4, <2>5 DEF SetPreferences, PantryTypeOK
<1>5. CASE ArchiveIngredient(i) \/ RestoreIngredient(i)
  <2>1. \A j \in Ingredient : Balance(j)' = Balance(j)
    BY <1>5 DEF ArchiveIngredient, RestoreIngredient, Balance, Tracked
  <2> QED BY <1>1, <1>5, <2>1
          DEF ArchiveIngredient, RestoreIngredient, PantryTypeOK
<1> QED BY <1>2, <1>3, <1>4, <1>5 DEF Catalogue

\* Every step keeps the invariant.
LEMMA PantryStep == PantryInv /\ [PantryNext]_pantryVars => PantryInv'
<1> SUFFICES ASSUME PantryInv, [PantryNext]_pantryVars PROVE PantryInv'
  OBVIOUS
<1>1. ASSUME NEW i \in Ingredient, Catalogue(i)
      PROVE  PantryInv'
  BY <1>1, CatalogueStep
<1>2. ASSUME NEW e \in Event, ManualChange(e)
      PROVE  PantryInv'
  <2>1. ASSUME NEW i \in Ingredient, NEW op, NEW n, AdjustStock(i, op, n, e)
        PROVE  PantryInv'
    BY <2>1, PostStep, EventTypes DEF AdjustStock
  <2>2. ASSUME NEW rows, BulkAdjustStock(rows, e)
        PROVE  PantryInv'
    BY <2>2, PostStep, EventTypes DEF BulkAdjustStock
  <2> QED BY <1>2, <2>1, <2>2 DEF ManualChange
<1>3. ASSUME NEW e \in Event, NEW rc \in Recipe, NEW n, CookRecipe(rc, n, e)
      PROVE  PantryInv'
  BY <1>3, PostStep, EventTypes DEF CookRecipe
<1>4. ASSUME NEW e \in Event, NEW o \in Event, ReverseActivity(o, e)
      PROVE  PantryInv'
  BY <1>4, ReverseStep
<1>5. CASE UNCHANGED pantryVars
  BY <1>5 DEF pantryVars, PantryInv, PantryTypeOK, HistoryExplainsStock,
              Balance, Tracked
<1> QED BY <1>1, <1>2, <1>3, <1>4, <1>5 DEF PantryNext

LEMMA PantryStart == PantryInit => PantryInv
  BY DEF PantryInit, PantryInv, PantryTypeOK, HistoryExplainsStock, Explains,
         Balance, Tracked

-----------------------------------------------------------------------------
(* Theorems.                                                               *)

\* Rows keep their types, and every stored quantity fits its column
\* (models.py:143-160, models.py:240-253).
THEOREM PantryTyped == PantrySpec => []PantryTypeOK
<1>1. PantryInv => PantryTypeOK
  BY DEF PantryInv
<1> QED BY <1>1, PantryStart, PantryStep, PTL DEF PantrySpec

\* For any catalog, any Recipes and any sequence of mutations, the recorded
\* changes of an Ingredient lead without a gap to its balance
\* (full_services.py:977-1169, services.py:327-350).
THEOREM HistoryComplete == PantrySpec => []HistoryExplainsStock
<1>1. PantryInv => HistoryExplainsStock
  BY DEF PantryInv
<1> QED BY <1>1, PantryStart, PantryStep, PTL DEF PantrySpec

-----------------------------------------------------------------------------
(* What was recorded stays, and is undone once.                            *)

\* One Ingredient's history: whether an event changed it, once, and how.
Occurs(h, f) == \E k \in DOMAIN h : h[k].event = f
OncePerEvent(h) == \A j, k \in DOMAIN h : h[j].event = h[k].event => j = k
TheChange(h, f) == h[CHOOSE k \in DOMAIN h : h[k].event = f]

\* Every change is of an event that exists, which changed the Ingredient once.
ChangesHaveEvents ==
    \A i \in Ingredient :
      /\ OncePerEvent(ledger[i])
      /\ \A f \in Event : Occurs(ledger[i], f) => events[f] # None

\* What a reversal reverses exists.
ReversedExist ==
    \A e \in Event : events[e] # None /\ events[e].reversalOf # None =>
      events[events[e].reversalOf] # None

\* In history led, e changed what o changed, the other way.
TakesBack(led, e, o) ==
    \A i \in Ingredient :
      /\ Occurs(led[i], e) <=> Occurs(led[i], o)
      /\ Occurs(led[i], e) => TheChange(led[i], e).delta = -TheChange(led[i], o).delta

\* UndoneOnceAndExactly, of any events and any history.
UndoneIn(ev, led) ==
    /\ \A o \in Event : ev[o] # None /\ ev[o].reversed =>
         /\ ev[o].type = "cooking"
         /\ \E e \in Event : ev[e] # None /\ ev[e].reversalOf = o
    /\ \A e, o \in Event : ev[e] # None /\ ev[e].reversalOf = o =>
         /\ ev[o].reversed
         /\ TakesBack(led, e, o)
         /\ \A f \in Event \ {e} : ev[f] # None => ev[f].reversalOf # o

\* The inductive invariant about undoing.
UndoInv ==
    /\ PantryInv
    /\ ChangesHaveEvents
    /\ ReversedExist
    /\ UndoneIn(events, ledger)

\* The change of an event is the only one.
LEMMA OnlyChange ==
  ASSUME NEW h, OncePerEvent(h), NEW k \in DOMAIN h
  PROVE  TheChange(h, h[k].event) = h[k]
<1> DEFINE c == CHOOSE j \in DOMAIN h : h[j].event = h[k].event
<1>1. c \in DOMAIN h /\ h[c].event = h[k].event
  OBVIOUS
<1>2. c = k
  BY <1>1 DEF OncePerEvent
<1> QED BY <1>2 DEF TheChange

\* A change of a new event is the only one of it and hides no other.
LEMMA AppendChange ==
  ASSUME NEW h \in Seq(ChangeRow), OncePerEvent(h),
         NEW row \in ChangeRow, ~Occurs(h, row.event)
  PROVE  LET g == Append(h, row)
         IN  /\ OncePerEvent(g)
             /\ Occurs(g, row.event) /\ TheChange(g, row.event) = row
             /\ \A f : f # row.event =>
                  /\ Occurs(g, f) <=> Occurs(h, f)
                  /\ Occurs(h, f) => TheChange(g, f) = TheChange(h, f)
<1> DEFINE g == Append(h, row)
           n == Len(h) + 1
<1>1. /\ DOMAIN h = 1 .. Len(h) /\ Len(h) \in Nat
      /\ DOMAIN g = 1 .. n /\ n \in DOMAIN g /\ g[n] = row
      /\ \A k \in DOMAIN h : k \in DOMAIN g /\ g[k] = h[k]
      /\ \A k \in DOMAIN g : k \in DOMAIN h \/ k = n
      /\ n \notin DOMAIN h
  OBVIOUS
<1> HIDE DEF g, n
<1>2. \A k \in DOMAIN h : h[k].event # row.event
  BY DEF Occurs
<1>3. OncePerEvent(g)
  BY <1>1, <1>2 DEF OncePerEvent
<1>4. Occurs(g, row.event) /\ TheChange(g, row.event) = row
  BY <1>1, <1>3, OnlyChange DEF Occurs
<1>5. ASSUME NEW f, f # row.event
      PROVE  /\ Occurs(g, f) <=> Occurs(h, f)
             /\ Occurs(h, f) => TheChange(g, f) = TheChange(h, f)
  <2>1. Occurs(g, f) <=> Occurs(h, f)
    BY <1>1, <1>5 DEF Occurs
  <2>2. ASSUME Occurs(h, f) PROVE TheChange(g, f) = TheChange(h, f)
    <3>1. PICK k \in DOMAIN h : h[k].event = f
      BY <2>2 DEF Occurs
    <3>2. TheChange(h, f) = h[k]
      BY <3>1, OnlyChange
    <3>3. TheChange(g, f) = g[k]
      BY <1>1, <1>3, <3>1, OnlyChange
    <3> QED BY <1>1, <3>2, <3>3
  <2> QED BY <2>1, <2>2
<1> QED BY <1>3, <1>4, <1>5 DEF g

\* Move records the changes of its event, and no history is lost.
LEMMA MoveRecords ==
  ASSUME PantryTypeOK, ChangesHaveEvents, NEW e \in Event, NEW delta, Move(e, delta)
  PROVE  /\ \A i \in Ingredient : /\ OncePerEvent(ledger'[i])
                                  /\ Occurs(ledger'[i], e) <=> i \in DOMAIN delta
                                  /\ i \in DOMAIN delta =>
                                       TheChange(ledger'[i], e).delta = delta[i]
         /\ \A f \in Event \ {e}, i \in Ingredient :
              /\ Occurs(ledger'[i], f) <=> Occurs(ledger[i], f)
              /\ Occurs(ledger[i], f) => TheChange(ledger'[i], f) = TheChange(ledger[i], f)
<1> SUFFICES ASSUME NEW i \in Ingredient
             PROVE  /\ OncePerEvent(ledger'[i])
                    /\ Occurs(ledger'[i], e) <=> i \in DOMAIN delta
                    /\ i \in DOMAIN delta => TheChange(ledger'[i], e).delta = delta[i]
                    /\ \A f \in Event \ {e} :
                         /\ Occurs(ledger'[i], f) <=> Occurs(ledger[i], f)
                         /\ Occurs(ledger[i], f) =>
                              TheChange(ledger'[i], f) = TheChange(ledger[i], f)
  OBVIOUS
<1>1. ledger[i] \in Seq(ChangeRow) /\ OncePerEvent(ledger[i]) /\ ~Occurs(ledger[i], e)
  BY DEF PantryTypeOK, ChangesHaveEvents, Move
<1>2. CASE i \in DOMAIN delta
  <2> DEFINE row == [event |-> e, before |-> Balance(i), delta |-> delta[i],
                     after |-> Balance(i) + delta[i]]
  <2>1. row \in ChangeRow /\ ledger'[i] = Append(ledger[i], row)
    BY <1>2, MoveOne
  <2>2. row.event = e /\ row.delta = delta[i]
    OBVIOUS
  <2> HIDE DEF row
  <2> QED BY <1>1, <1>2, <2>1, <2>2, AppendChange
<1>3. CASE i \notin DOMAIN delta
  BY <1>1, <1>3, MoveOther
<1> QED BY <1>2, <1>3

\* The row of an event is a row.
LEMMA EventFacts ==
  ASSUME PantryTypeOK, NEW e \in Event, events[e] # None
  PROVE  /\ events[e] \in EventRow /\ events[e].reversed \in BOOLEAN
         /\ events[e].reversalOf \in Event \cup {None}
  BY DEF PantryTypeOK, EventRow

\* A step that leaves what f changed as it was.
KeepsHistoryOf(f) ==
    \A i \in Ingredient :
      /\ Occurs(ledger'[i], f) <=> Occurs(ledger[i], f)
      /\ Occurs(ledger[i], f) => TheChange(ledger'[i], f) = TheChange(ledger[i], f)

\* Move leaves what other events changed as it was.
LEMMA MoveKeepsOthers ==
  ASSUME PantryTypeOK, ChangesHaveEvents, NEW e \in Event, NEW delta, Move(e, delta),
         NEW f \in Event \ {e}
  PROVE  KeepsHistoryOf(f)
  BY MoveRecords DEF KeepsHistoryOf

\* Events that changed as before take back as before.
LEMMA TakesBackKept ==
  ASSUME NEW e \in Event, NEW o \in Event, TakesBack(ledger, e, o),
         KeepsHistoryOf(e), KeepsHistoryOf(o)
  PROVE  TakesBack(ledger', e, o)
<1> SUFFICES ASSUME NEW i \in Ingredient
             PROVE  /\ Occurs(ledger'[i], e) <=> Occurs(ledger'[i], o)
                    /\ Occurs(ledger'[i], e) =>
                         TheChange(ledger'[i], e).delta = -TheChange(ledger'[i], o).delta
  BY DEF TakesBack
<1> QED BY DEF TakesBack, KeepsHistoryOf

\* An event that reverses nothing leaves every undoing as it was.
LEMMA PostUndo ==
  ASSUME UndoInv, NEW e \in Event, NEW row \in EventRow, NEW delta,
         Post(e, row, delta), UNCHANGED archived,
         row.reversalOf = None, row.reversed = FALSE
  PROVE  UndoInv'
<1> USE DEF UndoInv
<1>1. PantryInv'
  BY PostStep
<1>2. /\ Move(e, delta) /\ events[e] = None
      /\ events' = [events EXCEPT ![e] = row]
      /\ events \in [Event -> EventRow \cup {None}] /\ PantryTypeOK
  BY DEF Post, Move, PantryInv, PantryTypeOK
<1>3. events'[e] = row /\ \A f \in Event \ {e} : events'[f] = events[f]
  BY <1>2
<1>4. ChangesHaveEvents'
  BY <1>2, <1>3, MoveRecords, RowIsNotNone DEF ChangesHaveEvents
<1>5. ReversedExist'
  <2> SUFFICES ASSUME NEW f \in Event, events'[f] # None, events'[f].reversalOf # None
               PROVE  events'[events'[f].reversalOf] # None
    BY DEF ReversedExist
  <2>1. f # e /\ events'[f] = events[f]
    BY <1>3
  <2>2. events[f].reversalOf \in Event /\ events[events[f].reversalOf] # None
    BY <1>2, <2>1, EventFacts DEF ReversedExist
  <2> QED BY <1>2, <1>3, <2>1, <2>2
<1>6. UndoneIn(events', ledger')
  <2>1. ASSUME NEW o \in Event, events'[o] # None, events'[o].reversed
        PROVE  /\ events'[o].type = "cooking"
               /\ \E f \in Event : events'[f] # None /\ events'[f].reversalOf = o
    <3>1. o # e /\ events'[o] = events[o]
      BY <1>3, <2>1
    <3>2. PICK f \in Event : events[f] # None /\ events[f].reversalOf = o
      BY <2>1, <3>1 DEF UndoneIn
    <3>3. f # e
      BY <1>2, <3>2
    <3> QED BY <1>3, <2>1, <3>1, <3>2, <3>3 DEF UndoneIn
  <2>2. ASSUME NEW f \in Event, NEW o \in Event, events'[f] # None, events'[f].reversalOf = o
        PROVE  /\ events'[o].reversed
               /\ TakesBack(ledger', f, o)
               /\ \A g \in Event \ {f} : events'[g] # None => events'[g].reversalOf # o
    <3>1. o # None
      BY PantryNoneAssumption
    <3>2. f # e /\ events'[f] = events[f]
      BY <1>3, <2>2, <3>1
    <3>3. o # e /\ events'[o] = events[o]
      BY <1>2, <1>3, <2>2, <3>1, <3>2 DEF ReversedExist
    <3>4. /\ events[o].reversed /\ TakesBack(ledger, f, o)
          /\ \A g \in Event \ {f} : events[g] # None => events[g].reversalOf # o
      BY <2>2, <3>2 DEF UndoneIn
    <3>5. TakesBack(ledger', f, o)
      <4>1. KeepsHistoryOf(f) /\ KeepsHistoryOf(o)
        BY <1>2, <3>2, <3>3, MoveKeepsOthers
      <4> QED BY <3>4, <4>1, TakesBackKept
    <3>6. \A g \in Event \ {f} : events'[g] # None => events'[g].reversalOf # o
      BY <1>3, <3>1, <3>4
    <3> QED BY <3>3, <3>4, <3>5, <3>6
  <2> QED BY <2>1, <2>2 DEF UndoneIn
<1> QED BY <1>1, <1>4, <1>5, <1>6

\* The move that undoes o: what o changed, the other way.
LEMMA UndoneFacts ==
  ASSUME NEW o, NEW i \in Ingredient
  PROVE  /\ i \in DOMAIN Undone(o) <=> Occurs(ledger[i], o)
         /\ i \in DOMAIN Undone(o) => Undone(o)[i] = -TheChange(ledger[i], o).delta
  BY DEF Undone, ChangedBy, ChangeOf, Occurs, TheChange

\* The reversal of a cooking takes its deltas back and marks it, for good.
LEMMA ReverseUndo ==
  ASSUME UndoInv, NEW o \in Event, NEW e \in Event, ReverseActivity(o, e)
  PROVE  UndoInv'
<1> USE DEF UndoInv
<1>1. PantryInv'
  BY ReverseStep
<1>2. /\ Move(e, Undone(o)) /\ Reversible(o) /\ events[e] = None
      /\ events' = [events EXCEPT ![e] = Reversal(o), ![o].reversed = TRUE]
      /\ events \in [Event -> EventRow \cup {None}] /\ PantryTypeOK
  BY DEF ReverseActivity, Move, PantryInv, PantryTypeOK
<1>3. /\ o # e /\ events[o] # None /\ events[o] \in EventRow /\ events[o].type = "cooking"
      /\ ~events[o].reversed /\ o # None
  BY <1>2, PantryNoneAssumption DEF Reversible
<1>4. /\ events'[e] = Reversal(o)
      /\ events'[o] = [events[o] EXCEPT !.reversed = TRUE]
      /\ \A f \in Event \ {e, o} : events'[f] = events[f]
  BY <1>2, <1>3
<1>5. events'[e] # None /\ events'[e].reversalOf = o /\ ~events'[e].reversed
  <2>1. Reversal(o).reversalOf = o /\ Reversal(o).reversed = FALSE
    BY DEF Reversal, Manual
  <2> QED BY <1>4, <2>1, EventTypes, RowIsNotNone
<1>6. /\ events'[o] # None /\ events'[o].type = "cooking" /\ events'[o].reversed
      /\ events'[o].reversalOf = events[o].reversalOf
  <2>1. [events[o] EXCEPT !.reversed = TRUE] \in EventRow
    BY <1>3 DEF EventRow
  <2> QED BY <1>3, <1>4, <2>1, RowIsNotNone DEF EventRow
<1>7. \A f \in Event \ {e} :
        /\ events'[f] # None <=> events[f] # None
        /\ events[f] # None => events'[f].reversalOf = events[f].reversalOf
  BY <1>3, <1>4, <1>6
<1>8. ChangesHaveEvents'
  BY <1>2, <1>5, <1>7, MoveRecords DEF ChangesHaveEvents
<1>9. \A f \in Event : events[f] # None => events[f].reversalOf # o
  BY <1>3 DEF UndoneIn
<1>10. ReversedExist'
  <2> SUFFICES ASSUME NEW f \in Event, events'[f] # None, events'[f].reversalOf # None
               PROVE  events'[events'[f].reversalOf] # None
    BY DEF ReversedExist
  <2>1. CASE f = e
    BY <1>5, <1>6, <2>1
  <2>2. CASE f # e
    <3>1. /\ events[f] # None /\ events'[f].reversalOf = events[f].reversalOf
      BY <1>7, <2>2
    <3>2. events[f].reversalOf \in Event /\ events[events[f].reversalOf] # None
      BY <1>2, <3>1, EventFacts DEF ReversedExist
    <3>3. events[f].reversalOf # e
      BY <1>2, <3>2
    <3> QED BY <1>7, <3>1, <3>2, <3>3
  <2> QED BY <2>1, <2>2
<1>11. TakesBack(ledger', e, o)
  <2> SUFFICES ASSUME NEW i \in Ingredient
               PROVE  /\ Occurs(ledger'[i], e) <=> Occurs(ledger'[i], o)
                      /\ Occurs(ledger'[i], e) =>
                           TheChange(ledger'[i], e).delta = -TheChange(ledger'[i], o).delta
    BY DEF TakesBack
  <2>1. Occurs(ledger'[i], e) <=> i \in DOMAIN Undone(o)
    BY <1>2, MoveRecords
  <2>2. Occurs(ledger'[i], o) <=> Occurs(ledger[i], o)
    BY <1>2, <1>3, MoveRecords
  <2>3. ASSUME Occurs(ledger'[i], e)
        PROVE  TheChange(ledger'[i], e).delta = -TheChange(ledger'[i], o).delta
    <3>1. TheChange(ledger'[i], e).delta = Undone(o)[i]
      BY <1>2, <2>1, <2>3, MoveRecords
    <3>2. TheChange(ledger'[i], o) = TheChange(ledger[i], o)
      BY <1>2, <1>3, <2>1, <2>3, MoveRecords, UndoneFacts
    <3> QED BY <2>1, <2>3, <3>1, <3>2, UndoneFacts
  <2> QED BY <2>1, <2>2, <2>3, UndoneFacts
<1>12. UndoneIn(events', ledger')
  <2>1. ASSUME NEW p \in Event, events'[p] # None, events'[p].reversed
        PROVE  /\ events'[p].type = "cooking"
               /\ \E f \in Event : events'[f] # None /\ events'[f].reversalOf = p
    <3>1. CASE p = o
      BY <1>5, <1>6, <3>1
    <3>2. CASE p # o
      <4>1. p # e /\ events'[p] = events[p]
        BY <1>4, <1>5, <2>1, <3>2
      <4>2. PICK f \in Event : events[f] # None /\ events[f].reversalOf = p
        BY <2>1, <4>1 DEF UndoneIn
      <4>3. f # e /\ events'[f] # None /\ events'[f].reversalOf = p
        BY <1>2, <1>7, <4>2
      <4> QED BY <2>1, <4>1, <4>3 DEF UndoneIn
    <3> QED BY <3>1, <3>2
  <2>2. ASSUME NEW f \in Event, NEW p \in Event, events'[f] # None, events'[f].reversalOf = p
        PROVE  /\ events'[p].reversed
               /\ TakesBack(ledger', f, p)
               /\ \A g \in Event \ {f} : events'[g] # None => events'[g].reversalOf # p
    <3>1. CASE f = e
      <4>1. p = o
        BY <1>5, <2>2, <3>1
      <4>2. \A g \in Event \ {e} : events'[g] # None => events'[g].reversalOf # o
        BY <1>7, <1>9
      <4> QED BY <1>6, <1>11, <3>1, <4>1, <4>2
    <3>2. CASE f # e
      <4>1. events[f] # None /\ events[f].reversalOf = p /\ p # None
        BY <1>7, <2>2, <3>2, PantryNoneAssumption
      <4>2. p # o /\ p # e
        BY <1>2, <1>9, <4>1 DEF ReversedExist
      <4>3. /\ events[p].reversed /\ TakesBack(ledger, f, p)
            /\ \A g \in Event \ {f} : events[g] # None => events[g].reversalOf # p
        BY <4>1 DEF UndoneIn
      <4>4. events'[p].reversed
        BY <1>4, <4>2, <4>3
      <4>5. \A g \in Event \ {f} : events'[g] # None => events'[g].reversalOf # p
        BY <1>5, <1>7, <4>2, <4>3
      <4>6. TakesBack(ledger', f, p)
        <5>1. KeepsHistoryOf(f) /\ KeepsHistoryOf(p)
          BY <1>2, <3>2, <4>2, MoveKeepsOthers
        <5> QED BY <4>3, <5>1, TakesBackKept
      <4> QED BY <4>4, <4>5, <4>6
    <3> QED BY <3>1, <3>2
  <2> QED BY <2>1, <2>2 DEF UndoneIn
<1> QED BY <1>1, <1>8, <1>10, <1>12

\* Steps that change neither the events nor the history undo nothing.
LEMMA SameUndo ==
  ASSUME UndoInv, PantryInv', ledger' = ledger, events' = events
  PROVE  UndoInv'
  BY DEF UndoInv, ChangesHaveEvents, ReversedExist

\* Every step keeps the invariant about undoing.
LEMMA UndoStep == UndoInv /\ [PantryNext]_pantryVars => UndoInv'
<1> SUFFICES ASSUME UndoInv, [PantryNext]_pantryVars PROVE UndoInv'
  OBVIOUS
<1>1. PantryInv'
  BY PantryStep DEF UndoInv
<1>2. ASSUME NEW i \in Ingredient, Catalogue(i)
      PROVE  UndoInv'
  BY <1>1, <1>2, SameUndo DEF Catalogue, Track, Untrack, SetPreferences,
                              ArchiveIngredient, RestoreIngredient
<1>3. ASSUME NEW e \in Event, ManualChange(e)
      PROVE  UndoInv'
  <2>1. Manual.reversalOf = None /\ Manual.reversed = FALSE
    BY DEF Manual
  <2>2. ASSUME NEW i \in Ingredient, NEW op, NEW n, AdjustStock(i, op, n, e)
        PROVE  UndoInv'
    BY <2>1, <2>2, PostUndo, EventTypes DEF AdjustStock
  <2>3. ASSUME NEW rows, BulkAdjustStock(rows, e)
        PROVE  UndoInv'
    BY <2>1, <2>3, PostUndo, EventTypes DEF BulkAdjustStock
  <2> QED BY <1>3, <2>2, <2>3 DEF ManualChange
<1>4. ASSUME NEW e \in Event, NEW rc \in Recipe, NEW n, CookRecipe(rc, n, e)
      PROVE  UndoInv'
  <2>1. Cooking(rc).reversalOf = None /\ Cooking(rc).reversed = FALSE
    BY DEF Cooking, Manual
  <2> QED BY <1>4, <2>1, PostUndo, EventTypes DEF CookRecipe
<1>5. ASSUME NEW e \in Event, NEW o \in Event, ReverseActivity(o, e)
      PROVE  UndoInv'
  BY <1>5, ReverseUndo
<1>6. CASE UNCHANGED pantryVars
  BY <1>1, <1>6, SameUndo DEF pantryVars
<1> QED BY <1>2, <1>3, <1>4, <1>5, <1>6 DEF PantryNext

LEMMA UndoStart == PantryInit => UndoInv
<1> SUFFICES ASSUME PantryInit PROVE UndoInv
  OBVIOUS
<1>1. PantryInv
  BY PantryStart
<1>2. /\ \A i \in Ingredient : ledger[i] = <<>>
      /\ \A e \in Event : events[e] = None
  BY DEF PantryInit
<1>3. ChangesHaveEvents /\ ReversedExist
  BY <1>2 DEF ChangesHaveEvents, ReversedExist, OncePerEvent, Occurs
<1>4. UndoneIn(events, ledger)
  BY <1>2 DEF UndoneIn
<1> QED BY <1>1, <1>3, <1>4 DEF UndoInv

\* The invariant says what the property says.
LEMMA UndoneOfInv == UndoInv => UndoneOnceAndExactly
<1> SUFFICES ASSUME UndoInv PROVE UndoneOnceAndExactly
  OBVIOUS
<1> USE DEF UndoInv
<1>1. ASSUME NEW o \in Event, events[o] # None, events[o].reversed
      PROVE  /\ events[o].type = "cooking"
             /\ \E e \in Event : events[e] # None /\ events[e].reversalOf = o
  BY <1>1 DEF UndoneIn
<1>2. ASSUME NEW e \in Event, events[e] # None, events[e].reversalOf # None
      PROVE  LET o == events[e].reversalOf
             IN  /\ events[o].reversed
                 /\ ChangedBy(e) = ChangedBy(o)
                 /\ \A i \in ChangedBy(e) : ChangeOf(e, i).delta = -ChangeOf(o, i).delta
                 /\ \A f \in Event \ {e} :
                      events[f] # None => events[f].reversalOf # o
  <2> DEFINE o == events[e].reversalOf
  <2>1. o \in Event
    BY <1>2, EventFacts DEF PantryInv
  <2>2. /\ events[o].reversed /\ TakesBack(ledger, e, o)
        /\ \A f \in Event \ {e} : events[f] # None => events[f].reversalOf # o
    BY <1>2, <2>1 DEF UndoneIn
  <2> HIDE DEF o
  <2>3. ChangedBy(e) = ChangedBy(o)
    BY <2>2 DEF TakesBack, ChangedBy, Occurs
  <2>4. ASSUME NEW i \in ChangedBy(e)
        PROVE  ChangeOf(e, i).delta = -ChangeOf(o, i).delta
    BY <2>2 DEF TakesBack, ChangedBy, ChangeOf, Occurs, TheChange
  <2> QED BY <2>2, <2>3, <2>4 DEF o
<1> QED BY <1>1, <1>2 DEF UndoneOnceAndExactly

\* Whatever is cooked, changed, archived or undone in between, a cooking is
\* undone at most once and by exactly what it took
\* (full_services.py:1120-1169).
THEOREM UndoneOnce == PantrySpec => []UndoneOnceAndExactly
  BY UndoStart, UndoStep, UndoneOfInv, PTL DEF PantrySpec

-----------------------------------------------------------------------------

\* Move extends the histories and rewrites none.
LEMMA MoveExtends ==
  ASSUME PantryTypeOK, NEW e \in Event, NEW delta, Move(e, delta),
         NEW i \in Ingredient
  PROVE  SubSeq(ledger'[i], 1, Len(ledger[i])) = ledger[i]
<1>1. ledger[i] \in Seq(ChangeRow)
  BY DEF PantryTypeOK
<1>2. CASE i \in DOMAIN delta
  <2> DEFINE row == [event |-> e, before |-> Balance(i), delta |-> delta[i],
                     after |-> Balance(i) + delta[i]]
  <2>1. row \in ChangeRow /\ ledger'[i] = Append(ledger[i], row)
    BY <1>2, MoveOne
  <2> HIDE DEF row
  <2> QED BY <1>1, <2>1
<1>3. CASE i \notin DOMAIN delta
  <2>1. ledger'[i] = ledger[i]
    BY <1>3, MoveOther
  <2> QED BY <1>1, <2>1
<1> QED BY <1>2, <1>3

\* A step that rewrites nothing that is recorded.
KeepsRecords ==
    /\ \A i \in Ingredient : SubSeq(ledger'[i], 1, Len(ledger[i])) = ledger[i]
    /\ \A o \in Event : events[o] # None =>
         events'[o] \in {events[o], [events[o] EXCEPT !.reversed = TRUE]}

\* A posted event is new.
LEMMA PostKeepsRecords ==
  ASSUME PantryTypeOK, NEW e \in Event, NEW row, NEW delta, Post(e, row, delta)
  PROVE  KeepsRecords
<1>1. \A i \in Ingredient : SubSeq(ledger'[i], 1, Len(ledger[i])) = ledger[i]
  BY MoveExtends DEF Post
<1>2. \A o \in Event : events[o] # None => events'[o] = events[o]
  BY DEF Post, Move, PantryTypeOK
<1> QED BY <1>1, <1>2 DEF KeepsRecords

\* A reversal is new, and marks one event.
LEMMA ReverseKeepsRecords ==
  ASSUME PantryTypeOK, NEW o \in Event, NEW e \in Event, ReverseActivity(o, e)
  PROVE  KeepsRecords
<1>1. \A i \in Ingredient : SubSeq(ledger'[i], 1, Len(ledger[i])) = ledger[i]
  BY MoveExtends DEF ReverseActivity
<1>2. \A p \in Event : events[p] # None =>
        events'[p] \in {events[p], [events[p] EXCEPT !.reversed = TRUE]}
  BY DEF ReverseActivity, Move, PantryTypeOK
<1> QED BY <1>1, <1>2 DEF KeepsRecords

\* No step rewrites what is recorded.
LEMMA StepKeepsRecords ==
  ASSUME PantryTypeOK, [PantryNext]_pantryVars
  PROVE  KeepsRecords
<1>1. ASSUME ledger' = ledger, events' = events
      PROVE  KeepsRecords
  BY <1>1 DEF PantryTypeOK, KeepsRecords
<1>2. ASSUME NEW i \in Ingredient, Catalogue(i)
      PROVE  KeepsRecords
  BY <1>1, <1>2 DEF Catalogue, Track, Untrack, SetPreferences,
                    ArchiveIngredient, RestoreIngredient
<1>3. ASSUME NEW e \in Event, ManualChange(e)
      PROVE  KeepsRecords
  BY <1>3, PostKeepsRecords DEF ManualChange, AdjustStock, BulkAdjustStock
<1>4. ASSUME NEW e \in Event, NEW rc \in Recipe, NEW n, CookRecipe(rc, n, e)
      PROVE  KeepsRecords
  BY <1>4, PostKeepsRecords DEF CookRecipe
<1>5. ASSUME NEW e \in Event, NEW o \in Event, ReverseActivity(o, e)
      PROVE  KeepsRecords
  BY <1>5, ReverseKeepsRecords
<1>6. CASE UNCHANGED pantryVars
  BY <1>1, <1>6 DEF pantryVars
<1> QED BY <1>2, <1>3, <1>4, <1>5, <1>6 DEF PantryNext

\* For any sequence of mutations, a recorded change or event is never
\* rewritten: an event is at most marked reversed (README.md:4-5,
\* full_services.py:977-1169).
THEOREM HistoryStays == PantrySpec => HistoryIsKept
<1>1. PantryTypeOK /\ [PantryNext]_pantryVars =>
        [/\ \A i \in Ingredient :
              SubSeq(ledger'[i], 1, Len(ledger[i])) = ledger[i]
         /\ \A o \in Event : events[o] # None =>
              events'[o] \in {events[o], [events[o] EXCEPT !.reversed = TRUE]}]_pantryVars
  BY StepKeepsRecords DEF KeepsRecords
<1> QED BY <1>1, PantryTyped, PTL DEF PantrySpec, HistoryIsKept

=============================================================================
