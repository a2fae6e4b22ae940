SPECIFICATION Spec
CONSTANTS
  t1 = t1
  t2 = t2
  t3 = t3
  p1 = p1
  p2 = p2
  Turn = {t1, t2}
  Chat = {c1}
  SemChat = SemChat
  Pod = {p1}
  Entradas <- MCEntradasAgente
  MaxChamadas = 2
  MaxMinuto = 0
  Param = {}
  Reagem = {}
  Caem = {}
SYMMETRY Simetria
INVARIANTS
  TypeOK
  RespostaTemPergunta
  RespostaGravada
  ChamadaGravadaUmaVez
CHECK_DEADLOCK FALSE
