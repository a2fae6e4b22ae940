SPECIFICATION FairSpec
CONSTANTS
  Pod = {p1, p2}
  Parada = {r1, r2}
  MaxTentativas = 2
  MaxQuedas = 2
  MaxReinicios = 1
INVARIANTS
  EscutaResiste
  LacoPreso
PROPERTIES
  DesisteSemRedis
  ParadaProcessada
CHECK_DEADLOCK FALSE
