SPECIFICATION Spec
CONSTANTS
  A = A
  B = B
  C = C
  SA = SA
  SB = SB
  a1 = a1
  a2 = a2
  b1 = b1
  r1 = r1
  r2 = r2
  Agents = {"pool", "codex", "kimi", "mimo", "copilot", "agy"}
  Projects <- ThreeProjects
  Slugs = {SA, SB}
  SlugOf <- SlugsOf
  Sessions <- ThreeSessions
  Owner <- OwnerOf
  Runs = {r1, r2}
  Shared = {"agy"}
  Wiped = {"agy"}
  MaxHostTurns = 1
  MaxFlarTurns = 1
  MaxConfig = 1
SYMMETRY RunSymmetry
INVARIANTS
  TypeOK
  Isolation
  SeedComplete
  IndexNamesPresent
PROPERTIES
  ConfigCurrent
  NoClobber
  ForksOnce
CHECK_DEADLOCK FALSE
