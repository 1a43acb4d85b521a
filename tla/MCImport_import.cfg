SPECIFICATION ImportSpec
CONSTANTS
    u1 = u1  u2 = u2  gc = gc  c1 = c1  c2 = c2  gi = gi  i1 = i1  i2 = i2  grc = grc  rc1 = rc1  rc2 = rc2
    l1 = l1  l2 = l2  l3 = l3  e1 = e1  e2 = e2  e3 = e3  e4 = e4
    dairy = dairy  chilled = chilled  shed = shed  milk = milk  milks = milks
    herb = herb  soup = soup  porridge = porridge  mass = mass  volume = volume
    d1 = d1  d2 = d2  d3 = d3  d4 = d4  d5 = d5  d6 = d6  d7 = d7  low = low  me = me  nobody = nobody
    None = None
    User = {u1, u2}
    CategoryId = {gc, c1, c2}
    IngredientId = {gi, i1, i2}
    RecipeId = {grc, rc1, rc2}
    EventId = {e1, e2, e3, e4}
    ListId = {l1, l2, l3}
    GlobalCategories <- Categories
    GlobalIngredients <- GlobalPantry
    GlobalRecipes <- GlobalCookbook
    Name = {dairy, chilled, shed, milk, milks, herb, soup, porridge}
    Alias <- Aliases
    Family = {mass, volume}
    Threshold = {low}
    Quantity <- Small
    DefaultProfile = nobody
    Profile = {nobody, me}
    LocalId = {d1, d2, d3, d4, d5, d6, d7, e1, e2, l1}
    DeviceState <- Devices
    MaxServings = 2
    MaxImports = 3
SYMMETRY Accounts
INVARIANTS ImportTypeOK ReferencesStayInside NoSecondOfAName BasketIsPublished NothingIsDropped TeardownNeverBlocked
PROPERTIES ServerDataIsKept ReimportIsHarmless
CHECK_DEADLOCK FALSE
