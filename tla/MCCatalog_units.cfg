SPECIFICATION QuietSpec
CONSTANTS
    gc = gc  c1 = c1  gi = gi  i1 = i1  i2 = i2  r1 = r1  gr = gr
    n1 = n1  n2 = n2  n3 = n3  mass = mass  count = count  None = None
    Category = {gc}
    GlobalCategory = {gc}
    Ingredient = {gi, i1}
    GlobalIngredient = {gi}
    Recipe = {r1, gr}
    GlobalRecipe = {gr}
    BaseServings = {1, 2}
    Name = {n1, n2}
    Family = {mass, count}
    Manifest <- RecipeReleases
    FirstManifest <- OldRelease
INVARIANT RecipeUnitsMatchFamily
CHECK_DEADLOCK FALSE
