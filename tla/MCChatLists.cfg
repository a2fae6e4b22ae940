SPECIFICATION Spec
CONSTANTS
  c1 = c1
  k1 = k1
  k2 = k2
  o1 = o1
  o2 = o2
  Chat = {c1}
  Link = {k1, k2}
  Inicio <- MCInicio
  Partilhados = {c1}
  Op = {o1, o2}
  MaxAcoes = 2
  MaxFalhas = 1
SYMMETRY Simetria
PROPERTIES
  EloEspecificado
INVARIANTS
  TypeOK
  ListasEmDia
  ExclusaoRevoga
  UmElo
CHECK_DEADLOCK FALSE
