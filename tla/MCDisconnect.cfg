CONSTANTS
  Workspaces = {wa}
  Shops = {sa}
  MaxTokens = 3
  MaxUninstalls = 1
  Grants = {g1, g2}
  Callbacks = {c1}
  Resolvers = {r1, r2}
  NoShop = NoShop
SPECIFICATION ConnectionSpec
PROPERTIES DisconnectIsFinal
CHECK_DEADLOCK FALSE
