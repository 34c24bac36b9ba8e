\* Four targets, one of them an edited Gemini URL, four keys, two models; no faults.
SPECIFICATION Spec
CONSTANTS
  gemini = gemini
  router = router
  local = local
  edited = edited
  g1 = g1
  e1 = e1
  x1 = x1
  r1 = r1
  Target = {gemini, edited, router, local}
  NeedsKey = {gemini, edited, router}
  Gemini = {gemini, edited}
  Default = gemini
  Key = {g1, e1, x1, r1}
  EnvKey = {e1}
  KeyOf <- MCEditedKeyOf
  Model = {m1, m2}
  MayFail = FALSE
  None = None
SYMMETRY Symmetry
INVARIANTS
  KeysStayPaired
