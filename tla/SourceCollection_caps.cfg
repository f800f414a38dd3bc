SPECIFICATION Spec
CONSTANTS
  p = p
  q = q
  r = r
  s = s
  t = t
  u = u
  fragment = fragment
  renamed = renamed
  angled = angled
  bracketed = bracketed
  spaced = spaced
  credentials = credentials
  plain = plain
  news = news
  risk = risk
  foreign = foreign
  Links <- MCLinks
  URLOf <- MCURLOf
  ClientSource <- MCClientSource
  RootSource <- MCRootSource
  Dependencies <- MCDependencies
  Specialists = {news, risk}
  Findings <- MCFindings
  MinimumSources = 3
  MaximumSourcesPerResponse = 5
  MaximumSourceCount = 5
CHECK_DEADLOCK FALSE
INVARIANTS
  OrderDoesNotDecide
  CitationsAreVerified
  OneSpecialistSuffices
