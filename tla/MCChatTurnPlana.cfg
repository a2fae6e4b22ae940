SPECIFICATION Spec
CONSTANTS
  t1 = t1
  t2 = t2
  t3 = t3
  p1 = p1
  p2 = p2
  Turn = {t1}
  Chat = {c1}
  SemChat = SemChat
  Pod = {p1}
  Entradas <- MCEntradasPlana
  MaxChamadas = 1
  MaxMinuto = 0
  Param = {t1}
  Reagem = {}
  Caem = {}
PROPERTIES
  ParadaPrometida
CHECK_DEADLOCK FALSE
