SPECIFICATION PantrySpec
CONSTANTS
    flour = flour  herb = herb  bread = bread  tea = tea
    e1 = e1  e2 = e2  e3 = e3  low = low  None = None
    Ingredient = {flour, herb}
    Custom = {herb}
    Recipe = {bread, tea}
    Needs <- MCNeeds
    BaseServings <- MCBase
    Servings = {1, 2}
    Event = {e1, e2, e3}
    Amount <- MCAmount
    Preference = {low}
    MaxQuantity = 3
SYMMETRY EventIds
INVARIANTS PantryTypeOK HistoryExplainsStock UndoneOnceAndExactly
PROPERTIES HistoryIsKept
CHECK_DEADLOCK FALSE
