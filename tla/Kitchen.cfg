CONSTANTS
  Items = {i1}
  Pendings = {p1}
  Actors = {a1, a2}
  Receipts = {r1}
  Durations = {1}
  LastDay = 0
  None = None
  Cooks = {1, 2}
  CookTasks = {a1, a2}
  Recipes = {r1, r2}
  AtRest = AtRest
  Plans = {p1, p2}
  PlanTasks = {a1, a2}
  Names = {n1, n2}
  Dishes = {{n1}, {n1, n2}}
  WeekLength = 2
  NoPlan = NoPlan
  Sheets = {s1, s2}
  Stock = {1, 2}
  Menu = {{1}, {1, 2}}
  Meals = {m1}
  Unset = Unset
  Batches = {b1}
  Fingers = {a1, a2}
  LastItem = 2
  PageSize = 1
  MaxSelected = 1
  MaxVersion = 5
  Targets = {eaten, tossed}
  Void = Void
  Foods = {milk, eggs}
  Blank = Blank
  ShopDishes = {{milk}, {milk, eggs}}
  MaxListed = 3
  Homes = {h1, h2}
  Calls = {q1, q2}
  MaxCards = 1
  MaxRequests = 2
  LastSpace = 2
  LastCard = 2
  LastEdit = 1
  Vacant = Vacant
SPECIFICATION KitchenSpec
SYMMETRY Interchangeable
INVARIANTS
  KitchenTypeOK
PROPERTIES
  PantrySound
  SearchesSound
  PlansSound
  SheetsSound
  BatchesSound
  ShoppingSound
  WorkspaceSound
CHECK_DEADLOCK FALSE
