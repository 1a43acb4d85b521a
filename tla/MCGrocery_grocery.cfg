SPECIFICATION GrocerySpec
CONSTANTS
    flour = flour  herb = herb  bread = bread  tea = tea
    e1 = e1  e2 = e2  l1 = l1  l2 = l2  i1 = i1  i2 = i2  None = None
    Ingredient = {flour, herb}
    Custom = {herb}
    Recipe = {bread, tea}
    Needs <- MCNeeds
    BaseServings <- MCBase
    Servings = {}
    Event = {e1, e2}
    Amount = {1}
    Preference = {}
    MaxQuantity = 2
    List = {l1, l2}
    Item = {i1, i2}
    BasketServings = {1}
    ItemAmount = {1}
SYMMETRY Ids
CONSTRAINT Bounded
INVARIANTS GroceryTypeOK OneShopping PurchasesAreTheItems UneditedIsOriginal
PROPERTIES CompletedIsKept ListMatchesReview ShoppingCoversCooking
CHECK_DEADLOCK FALSE
