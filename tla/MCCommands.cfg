SPECIFICATION Spec
CONSTANTS
  Users = {u1}
  Bot = Bot
  Personas = {p1, p2}
  Builtin = {b}
  Custom = {x, y}
  TemplateTags = {b}
  MaxCustomTags = 1
  Codes = {k1, k2}
  NoCode = NoCode
  TTL = 1
  MaxTime = 2
SYMMETRY Symmetry
INVARIANTS TypeOK CustomCap
PROPERTIES WipeAnswersARequest
