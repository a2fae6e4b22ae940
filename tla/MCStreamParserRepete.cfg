SPECIFICATION Spec
CONSTANTS
  f1 = f1
  Fluxo = {f1, f2}
  Conversa = {c1, c2}
  SemConversa = SemConversa
  Roteiros <- MCSozinho
SYMMETRY Simetria
INVARIANTS
  SemRepeticao
CHECK_DEADLOCK FALSE
