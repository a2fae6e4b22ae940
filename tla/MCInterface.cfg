SPECIFICATION SpecInterface
CONSTANTS
  f1 = f1  f2 = f2  n1 = n1  n2 = n2
  m1 = m1  m2 = m2  c1 = c1  c2 = c2  c3 = c3  p1 = p1  p2 = p2
  Arquivo = {f1, f2}
  Nome = {n1, n2}
  Sessao = {m1, m2}
  Ninguem = Ninguem
  MaxItem = 3  MaxPedaco = 4  MaxRede = 3
  Chat = {c1, c2, c3}
  Antigo = {c1, c2}
  Nada = Nada
  Gasto = Gasto
  MaxParada = 1
  Inicio = {Nada}
  MaxEscolha = 2
  Turno = {1, 2}
  agente = agente  sumido = sumido  o1mini = o1mini  claude = claude  saiu = saiu
  Agente = {automatico, geral, agente}
  Automatico = automatico  Geral = geral
  Modelo = {gpt4o, o1mini, claude}
  Gpt4o = gpt4o
  O1 = {o1mini}
  Claude = {claude}
  Contagem = {1, 60001}
  Salvo <- ChatsSalvos
  Nenhum = Nenhum  Vazio = Vazio  Cru = Cru
  Documento = {f1, f2}
  Pasta = {p1, p2}
  Fora = Fora  Nenhuma = Nenhuma
  LimiteChips = 1
  MaxPassoLista = 5
  ChatVisto = {c1, c2}
  Nulo = Nulo
  Envio <- DoisEnvios
  MaxResposta = 2
  MaxPassoTela = 9
  ChatDaLista <- UmAQuatro
  ChatsPorPagina = 2
  MaxMudanca = 2
  Categoria = {"Meus Especialistas", "Normativos"}
  MeusEspecialistas = "Meus Especialistas"
  SemFiltro = ""
  CartoesPorPagina = 2
  MaxEspecialista = 3
  MaxPagina = 2
  MaxPassoLoja = 7
  Item = {"pasta", "arquivo", "conversa"}
  Pastas = {"pasta"}
  Conversas = {"conversa"}
  Titulo = {"c", "d"}
  Recusado = ""
  Inexistente = Inexistente
  Renomeacao <- DoisEnvios
  NomeInicial <- NomesIniciais
  MaxObjeto = 2
  MaxDialogo = 3
INVARIANTS EnviosMostrados MicNaTela CanceladoNaoToca SemRetorno
  ConversaEmDia UmFluxoPorChat AgenteEModeloMostrados LimiteDoModelo
  ChipsSaoMarcas ConversaIntacta ListaSemSaltos CartoesDaCategoria NomeDaTela
PROPERTIES VoltaAEnviarSozinha TelaEhEscolha ParaOMostrado
CHECK_DEADLOCK FALSE
