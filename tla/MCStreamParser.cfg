SPECIFICATION Spec
CONSTANTS
  f1 = f1
  Fluxo = {f1, f2}
  Conversa = {c1, c2}
  SemConversa = SemConversa
  Roteiros <- MCRoteiros
SYMMETRY Simetria
INVARIANTS
  EntregaExata
  EntregaEmOrdem
  PerdaSoNoDelimitador
CHECK_DEADLOCK FALSE
