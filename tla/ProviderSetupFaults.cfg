\* Three targets, two keys, two models; the stores may fail.
SPECIFICATION FairSpec
CONSTANTS
  gemini = gemini
  router = router
  local = local
  edited = edited
  g1 = g1
  e1 = e1
  x1 = x1
  r1 = r1
  Target = {gemini, router, local}
  NeedsKey = {gemini, router}
  Gemini = {gemini}
  Default = gemini
  Key = {g1, r1}
  EnvKey = {g1}
  KeyOf <- MCKeyOf
  Model = {m1, m2}
  MayFail = TRUE
  None = None
INVARIANTS
  TypeOK
  SetupIsCurrent
  OneRequest
PROPERTIES
  SetupSettles
