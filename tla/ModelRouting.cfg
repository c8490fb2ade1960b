SPECIFICATION Spec
CONSTANTS
  t1 = t1
  t2 = t2
  t3 = t3
  api = api
  agent = agent
  r1 = r1
  r2 = r2
  Automatic = {t1, t2}
  Pinned = {t3}
  Providers = {api, agent}
  Backends = {agent}
  Routes = {r1, r2}
  ProviderOf <- MCProviderOf
  PinnedRoute <- MCPinnedRoute
  MaxAttempts = 2
  BaseDelay = 1
  MaxDelay = 2
  Kinds = {"unavailable"}
  Cooldown <- MCCooldown
  None = None
  MaxInputs = 3
INVARIANTS LearnedFromCurrent CircuitOfNewest
PROPERTIES NoReplay CooldownHonoured
SYMMETRY Symmetric
CHECK_DEADLOCK FALSE
