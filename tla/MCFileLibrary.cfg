SPECIFICATION Spec
CONSTANTS
  raiz = raiz
  p1 = p1
  f1 = f1
  f2 = f2
  f3 = f3
  n1 = n1
  n2 = n2
  o1 = o1
  o2 = o2
  Pasta = {raiz, p1}
  Raiz = raiz
  Arquivo = {f1, f2, f3}
  Nome = {n1, n2}
  Op = {o1, o2}
  MaxAcoes = 2
  MaxListas = 1
  MaxFalhas = 1
  MaxEventos = 3
SYMMETRY Simetria
INVARIANTS
  TypeOK
  ListaFiel
  SemOrfaos
  SemHomonimos
CHECK_DEADLOCK FALSE
