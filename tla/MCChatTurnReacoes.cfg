SPECIFICATION Spec
CONSTANTS
  t1 = t1
  t2 = t2
  t3 = t3
  p1 = p1
  p2 = p2
  Turn = {t1, t2}
  Chat = {c1}
  SemChat = SemChat
  Pod = {p1}
  Entradas <- MCEntradasReacao
  MaxChamadas = 2
  MaxMinuto = 1
  Param = {}
  Reagem = {t1, t2}
  Caem = {}
SYMMETRY Simetria
INVARIANTS
  ReacaoAposHistorico
CHECK_DEADLOCK FALSE
