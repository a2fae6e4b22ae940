SPECIFICATION Spec
CONSTANTS
  Pod = {p1}
  Parada = {r1}
  MaxTentativas = 1
  MaxQuedas = 1
  MaxReinicios = 0
INVARIANTS
  ConfirmadaFoiPublicada
CHECK_DEADLOCK FALSE
