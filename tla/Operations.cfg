CONSTANTS
  Topups = {t1}
  Subs = {}
  Operators = {o1, o2}
  Workers = {w1, w2}
  Period = 2
  LastDay = 3
  FreeLimit = 1
  FamilyLimit = 1
  MaxOpen = 1
  MaxComps = 0
  None = None
  Bots = {b1, b2}
  Environment = b1
  Telegrams = {t1}
  Guests = {g1}
  Invites = {i1}
  Links = {l1}
  Groups = {c1}
  FreeSeats = 1
  FamilySeats = 3
  Nobody = Nobody
  Conns = {c1}
  Kinds = {"telegram", "slack", "whatsapp", "environment"}
  Accounts = {a1, a2}
  Prints = {1}
  Typed = {a2}
  Asks = {m1, m2}
  Arrivals = {f1}
  MaxRevision = 2
  Missing = Missing
  Providers = {"anthropic", "openai", "deepseek"}
  Default = "deepseek"
  Readers = {"anthropic", "openai"}
  Searchers = {"anthropic", "deepseek"}
  FirstParty = {"deepseek"}
  NoMode = NoMode
  Callers = {"AnthropicReceipt", "OpenAIReceipt", "GeminiReceipt", "AnthropicText", "OpenAIText", "GeminiStructured", "AnthropicCook", "OpenAICook", "AnthropicRecipe", "OpenAIRecipe", "GeminiRecipe", "DeepSeekText", "DeepSeekCook", "DeepSeekSearch", "GeminiSearch", "AnthropicSearch", "AnthropicTranslation", "OpenAITranslation", "DeepSeekTranslation"}
  Tries = 3
  MaxSearches = 3
  MaxAsked = 4
  Unknown = Unknown
  SearchLimits = {0, 2, Unlimited}
  MaxCallCost = 2
  Unlimited = Unlimited
  Unpriced = Unpriced
  Eaters = {e1}
  Renumbered = {e1}
  LastHour = 1
  LastDate = 2
  Never = Never
  Messages = {m1, m2}
  MaxText = 3
  LastRow = 3
  MaxTries = 2
  Absent = Absent
SPECIFICATION OperationsSpec
SYMMETRY Alike
INVARIANTS
  OperationsTypeOK
  GrantsAddUp
  OvershootIsRunningWork
  MembershipSound
  ModesSound
  MessagesSound
PROPERTIES
  ConnectionsSound
  DoorsSound
  RequestsSound
  DigestsHold
CHECK_DEADLOCK FALSE
