SPECIFICATION FairSpec
CONSTANTS
  t1 = t1
  t2 = t2
  t3 = t3
  p1 = p1
  p2 = p2
  Turn = {t1, t2}
  Chat = {c1}
  SemChat = SemChat
  Pod = {p1, p2}
  Entradas <- MCEntradasPods
  MaxChamadas = 1
  MaxMinuto = 0
  Param = {t1, t2}
  Reagem = {}
  Caem = {p1}
INVARIANTS
  RegistroCoerente
PROPERTIES
  ParadaTemEfeito
  ParadaEncerra
CHECK_DEADLOCK FALSE
