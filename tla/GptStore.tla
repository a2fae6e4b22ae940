------------------------------- MODULE GptStore -------------------------------
(***************************************************************************)
(* The store of specialists: one tab per category, read page by page.      *)
(*                                                                         *)
(* What a tab shows is a list of its own, filled by an effect from the     *)
(* pages of its query.  The query is keyed by the filter and the category, *)
(* so that the first tab, whose filter is empty until it is clicked, has   *)
(* two.  The server reads the page and counts the total in two requests,   *)
(* and answers an error of either as if there were nothing.                *)
(*                                                                         *)
(* The search field, which filters nothing, the totals of the tabs and the *)
(* form of a new specialist, which only shows a message, are left out.     *)
(***************************************************************************)
EXTENDS Sequences, SequencesExt, Naturals

CONSTANTS
  Categoria,
  MeusEspecialistas,   \* the first tab: those the user wrote
  SemFiltro,           \* the key of the first tab before it is clicked
  CartoesPorPagina,    \* per_page
  MaxEspecialista,     \* bound: specialists of a category
  MaxPagina,           \* bound: pages read of a key
  MaxPassoLoja         \* bound: the steps of a behaviour

ASSUME LojaAssumption ==
  /\ MeusEspecialistas \in Categoria /\ SemFiltro \notin Categoria
  /\ CartoesPorPagina \in Nat \ {0} /\ MaxEspecialista \in Nat

VARIABLES
  especialistas,         \* at the server: how many specialists each category has
  aberta,                \* the store is on the screen
  selectedCategory,      \* the tab
  filtro,                \* filters.categoria
  especialistasPorTipo,  \* of each tab opened: what it shows
  consultas,             \* of each key: its pages, and the request under way
  saltou,                \* keys of a page that failed, or was counted after it grew
  passosNaLoja           \* taken

varsLoja == <<especialistas, aberta, selectedCategory, filtro, especialistasPorTipo, consultas,
              saltou, passosNaLoja>>

\* Keys: the categories, and the first tab before it is clicked.
Chave == Categoria \cup {SemFiltro}
CategoriaDe(k) == IF k = SemFiltro THEN MeusEspecialistas ELSE k
ChaveDe(f, c) == IF f = SemFiltro THEN SemFiltro ELSE c
ChaveAtual == ChaveDe(filtro, selectedCategory)

\* The first n specialists of a category, as they were inserted.
Primeiros(c, n) == [i \in 1..n |-> [categoria |-> c, numero |-> i]]
NaLoja(c) == Primeiros(c, especialistas[c])

\* What is looked at of the pages of a key: the specialists of all, how many pages they are,
\* and the total the last one came with.
NadaLido == [lidos |-> <<>>, numero |-> 0, total |-> 0]

\* getNextPageParam.
TemVerMais(ps) == ps.numero > 0 /\ Len(ps.lidos) < ps.total

\* The tabs of the store mounted, and with the list of one replaced.
AbasNovas == [c \in {MeusEspecialistas} |-> <<>>]
ComLista(abas, c, s) == [d \in DOMAIN abas \cup {c} |-> IF d = c THEN s ELSE abas[d]]

InitLoja ==
  /\ especialistas \in [Categoria -> 0..MaxEspecialista]
  /\ aberta = FALSE
  /\ selectedCategory = MeusEspecialistas /\ filtro = SemFiltro
  /\ especialistasPorTipo = AbasNovas
  /\ consultas = [k \in Chave |-> [pages |-> NadaLido, pedido |-> "nenhum", itens |-> <<>>]]
  /\ saltou = {} /\ passosNaLoja = 0

\* The effect on the data of the query: nothing if it brought nothing.
EfeitoDosDados(abas, c, ps) ==
  LET categoria == IF c = MeusEspecialistas THEN c ELSE ps.lidos[1].categoria
  IN IF ps.lidos = <<>> THEN abas ELSE ComLista(abas, categoria, ps.lidos)

\* useInfiniteQuery: the query of a key with nothing loaded starts.
PedeChave(k) ==
  IF consultas[k].pages.numero = 0 /\ consultas[k].pedido = "nenhum"
  THEN [consultas EXCEPT ![k].pedido = "pedido"] ELSE consultas

-----------------------------------------------------------------------------
(* The user.                                                               *)

\* The store is mounted: its tabs are new, what was read is still there.
AbreEspecialistas ==
  /\ ~aberta /\ aberta' = TRUE
  /\ selectedCategory' = MeusEspecialistas /\ filtro' = SemFiltro
  /\ especialistasPorTipo' =
       EfeitoDosDados(AbasNovas, MeusEspecialistas, consultas[SemFiltro].pages)
  /\ consultas' = PedeChave(SemFiltro)
  /\ UNCHANGED <<especialistas, saltou>>

FechaEspecialistas ==
  /\ aberta /\ aberta' = FALSE
  /\ UNCHANGED <<especialistas, selectedCategory, filtro, especialistasPorTipo, consultas, saltou>>

\* Faulty: a tab starts empty each time it is clicked.
AbaVazia(c) == ComLista(especialistasPorTipo, c, <<>>)

\* A tab starts empty when it is opened.
AbaAberta(c) ==
  IF c \in DOMAIN especialistasPorTipo THEN especialistasPorTipo
  ELSE ComLista(especialistasPorTipo, c, <<>>)

HandleTabClick(c) ==
  /\ aberta
  /\ selectedCategory' = c /\ filtro' = c
  /\ IF c = ChaveAtual
     THEN especialistasPorTipo' = AbaAberta(c) /\ UNCHANGED consultas
     ELSE /\ especialistasPorTipo' = EfeitoDosDados(AbaAberta(c), c, consultas[c].pages)
          /\ consultas' = PedeChave(c)
  /\ UNCHANGED <<especialistas, aberta, saltou>>

\* "Ver mais": a request under way is dropped for this one.
FetchNextPage ==
  /\ aberta /\ TemVerMais(consultas[ChaveAtual].pages)
  /\ consultas[ChaveAtual].pages.numero < MaxPagina
  /\ consultas' = [consultas EXCEPT ![ChaveAtual].pedido = "pedido", ![ChaveAtual].itens = <<>>]
  /\ UNCHANGED <<especialistas, aberta, selectedCategory, filtro, especialistasPorTipo, saltou>>

-----------------------------------------------------------------------------
(* The server.                                                             *)

\* Specialists are written by others: inserir_especialista stores none, for the category it
\* gives to MongoDB is an object, which it refuses.
EspecialistaNovo(c) ==
  /\ especialistas[c] < MaxEspecialista
  /\ especialistas' = [especialistas EXCEPT ![c] = @ + 1]
  /\ UNCHANGED <<aberta, selectedCategory, filtro, especialistasPorTipo, consultas, saltou>>

\* listar_especialistas_por, first request: a page, or nothing when it raises.
ListarEspecialistas(k) ==
  LET c == CategoriaDe(k)
      inicio == consultas[k].pages.numero * CartoesPorPagina
      fim == IF inicio + CartoesPorPagina < especialistas[c] THEN inicio + CartoesPorPagina
             ELSE especialistas[c]
      pagina == SubSeq(NaLoja(c), inicio + 1, fim)
  IN /\ consultas[k].pedido = "pedido"
     /\ \E itens \in {pagina, <<>>} :
          /\ consultas' = [consultas EXCEPT ![k].pedido = "listado", ![k].itens = itens]
          /\ saltou' = IF itens # pagina THEN saltou \cup {k} ELSE saltou
     /\ UNCHANGED <<especialistas, aberta, selectedCategory, filtro, especialistasPorTipo>>

\* Second request: the total, or zero when it raises.  The answer arrives.
TotalEspecialistas(k) ==
  LET consulta == consultas[k]
      c == CategoriaDe(k)
      curta == Len(consulta.itens) < CartoesPorPagina
      havia == consulta.pages.numero * CartoesPorPagina + Len(consulta.itens)
  IN /\ consulta.pedido = "listado"
     /\ \E total \in {especialistas[c], 0} :
          LET ps == [lidos |-> consulta.pages.lidos \o consulta.itens,
                     numero |-> consulta.pages.numero + 1, total |-> total]
          IN /\ consultas' = [consultas EXCEPT ![k] =
                                [pages |-> ps, pedido |-> "nenhum", itens |-> <<>>]]
             /\ especialistasPorTipo' =
                  IF aberta /\ k = ChaveAtual
                  THEN EfeitoDosDados(especialistasPorTipo, selectedCategory, ps)
                  ELSE especialistasPorTipo
             /\ saltou' = IF total # especialistas[c] \/ (curta /\ havia < total)
                          THEN saltou \cup {k} ELSE saltou
     /\ UNCHANGED <<especialistas, aberta, selectedCategory, filtro>>

\* The answer is an error: what was loaded is kept.
FalhaConsulta(k) ==
  /\ consultas[k].pedido # "nenhum"
  /\ consultas' = [consultas EXCEPT ![k].pedido = "nenhum", ![k].itens = <<>>]
  /\ UNCHANGED <<especialistas, aberta, selectedCategory, filtro, especialistasPorTipo, saltou>>

PassoDaLoja ==
  \/ AbreEspecialistas \/ FechaEspecialistas \/ FetchNextPage
  \/ \E c \in Categoria : HandleTabClick(c) \/ EspecialistaNovo(c)
  \/ \E k \in Chave : ListarEspecialistas(k) \/ TotalEspecialistas(k) \/ FalhaConsulta(k)

NextLoja == passosNaLoja < MaxPassoLoja /\ passosNaLoja' = passosNaLoja + 1 /\ PassoDaLoja

SpecLoja == InitLoja /\ [][NextLoja]_varsLoja

-----------------------------------------------------------------------------
(* Properties.                                                             *)

\* The tab on the screen shows the first specialists of its category, each once and none
\* skipped, all those its query has loaded, and "Ver mais" until they are as many as the
\* server counted.  A page that failed in silence, or that was counted after the category
\* grew, is the exception (GptStoreContent.tsx:82-119, especialista_mongo.py:96-128).
CartoesDaCategoria ==
  LET ps == consultas[ChaveAtual].pages
      cartoes == especialistasPorTipo[selectedCategory]
  IN aberta /\ ps.numero > 0 /\ (\A k \in saltou : CategoriaDe(k) # selectedCategory) =>
       /\ IsPrefix(cartoes, NaLoja(selectedCategory))
       /\ ps.lidos # <<>> => cartoes = ps.lidos
       /\ ~TemVerMais(ps) => Len(ps.lidos) = ps.total
=============================================================================
