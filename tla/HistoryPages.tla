----------------------------- MODULE HistoryPages -----------------------------
(***************************************************************************)
(* A list of chats of the sidebar, read page by page.                      *)
(*                                                                         *)
(* Recent, pinned and archived chats are each an infinite query with the   *)
(* same next page: the number of pages, plus one, while fewer chats are    *)
(* loaded than the total of the last page.  A change made here invalidates *)
(* the list, which is read again page after page; scrolling reads one page *)
(* more, and cancels such a reading.                                       *)
(*                                                                         *)
(* One list, mounted, with one filter; the search sees every change at     *)
(* once (what it does not see yet, and what is kept while the list is not  *)
(* mounted, is in ChatLists).                                              *)
(***************************************************************************)
EXTENDS Sequences, SequencesExt, Naturals

CONSTANTS
  ChatDaLista,
  ChatsPorPagina,   \* per_page
  MaxMudanca        \* bound: changes of the list

ASSUME PaginasAssumption == ChatsPorPagina \in Nat \ {0} /\ IsFiniteSet(ChatDaLista)

VARIABLES
  indice,      \* at the server: the chats of this list, the last changed first
  pages,       \* data.pages
  leitura,     \* the reading under way: its pages so far, how many it will have
  pendente,    \* a change the list was not told of
  perdida,     \* the last reading was refused, or dropped for a page more, or began before
  mudancas     \* so far

varsHistorico == <<indice, pages, leitura, pendente, perdida, mudancas>>

\* What is looked at of the pages loaded: the chats of all, how many pages they are, and the
\* total the last one came with.
SemPaginas == [chats |-> <<>>, numero |-> 0, total |-> 0]

\* listar_chats_paginado.
ListarChats(p) ==
  LET inicio == (p - 1) * ChatsPorPagina
      fim == IF inicio + ChatsPorPagina < Len(indice) THEN inicio + ChatsPorPagina ELSE Len(indice)
  IN [chats |-> SubSeq(indice, inicio + 1, fim), total |-> Len(indice)]

FALSO == 0   \* page=false

\* Faulty: one page less.
MesmaPagina(ps) == IF Len(ps.chats) < ps.total THEN ps.numero ELSE FALSO

\* getNextPageParam.
ProximaPagina(ps) == IF Len(ps.chats) < ps.total THEN ps.numero + 1 ELSE FALSO

\* pageParam = 1 for the first page.
PageParam(ps) == IF ps.numero = 0 THEN 1 ELSE ProximaPagina(ps)

HasNextPage == pages.numero > 0 /\ ProximaPagina(pages) # FALSO

\* The first pages, those loaded read again, or those and the next.
Leitura(tipo, lidas, alvo) == [tipo |-> tipo, lidas |-> lidas, alvo |-> alvo, velha |-> FALSE]
SemLeitura == Leitura("nenhuma", SemPaginas, 0)

InitHistorico ==
  /\ indice \in SetToAllKPermutations(ChatDaLista)
  /\ pages = SemPaginas /\ leitura = Leitura("primeira", SemPaginas, 1)
  /\ pendente = FALSE /\ perdida = FALSE /\ mudancas = 0

-----------------------------------------------------------------------------
(* The list at the server.                                                 *)

Muda(novo) ==
  /\ mudancas < MaxMudanca /\ mudancas' = mudancas + 1
  /\ indice' = novo /\ pendente' = TRUE
  /\ UNCHANGED <<pages, leitura, perdida>>

\* The others, in their order.
SemOChat(c) ==
  IF \E i \in 1..Len(indice) : indice[i] = c
  THEN RemoveAt(indice, CHOOSE i \in 1..Len(indice) : indice[i] = c) ELSE indice

\* A chat is created, gets a message, or comes from another list: it is the last changed.
Sobe(c) == Muda(<<c>> \o SemOChat(c))

\* A chat is deleted or goes to another list.
Sai(c) ==
  /\ c \in Range(indice)
  /\ Muda(SemOChat(c))

-----------------------------------------------------------------------------
(* The list of the sidebar.                                                *)

EmLeitura == leitura.tipo # "nenhuma"

\* invalidateAndRefetchChats, and the effect on activeChat: what is loaded is read again,
\* instead of any reading under way; one that has nothing yet goes on.
InvalidateAndRefetchChats ==
  /\ pendente' = FALSE
  /\ leitura' = IF pages.numero > 0 THEN Leitura("releitura", SemPaginas, pages.numero)
                ELSE IF ~EmLeitura THEN Leitura("primeira", SemPaginas, 1)
                ELSE [leitura EXCEPT !.velha = TRUE]
  /\ UNCHANGED <<indice, pages, perdida, mudancas>>

\* handleScroll: a page more, unless one is being read.  Only that is looked at: a reading
\* of the whole list is cancelled.
HandleScroll ==
  /\ HasNextPage
  /\ leitura.tipo # "proxima"
  /\ leitura' = Leitura("proxima", pages, pages.numero + 1)
  /\ perdida' = (perdida \/ EmLeitura)
  /\ UNCHANGED <<indice, pages, pendente, mudancas>>

Lendo == EmLeitura /\ leitura.lidas.numero < leitura.alvo

\* The pages ps and one more.
Com(ps, pagina) ==
  [chats |-> ps.chats \o pagina.chats, numero |-> ps.numero + 1, total |-> pagina.total]

\* fetchChats: the next page of the reading.
FetchChats ==
  /\ Lendo /\ PageParam(leitura.lidas) # FALSO
  /\ leitura' = [leitura EXCEPT !.lidas = Com(@, ListarChats(PageParam(@)))]
  /\ UNCHANGED <<indice, pages, pendente, perdida, mudancas>>

\* The list has shrunk, and there is no such page: false is sent as its number, and the
\* answer is 422.
PaginaRecusada ==
  /\ Lendo /\ PageParam(leitura.lidas) = FALSO
  /\ leitura' = SemLeitura /\ perdida' = TRUE
  /\ UNCHANGED <<indice, pages, pendente, mudancas>>

\* The network or the server: what was loaded is kept.
LeituraFalha ==
  /\ EmLeitura /\ leitura' = SemLeitura
  /\ perdida' = (perdida \/ leitura.tipo # "proxima")
  /\ UNCHANGED <<indice, pages, pendente, mudancas>>

\* The reading has all its pages.
LeituraTermina ==
  /\ EmLeitura /\ ~Lendo
  /\ pages' = leitura.lidas /\ leitura' = SemLeitura
  /\ perdida' = IF leitura.tipo = "proxima" THEN perdida ELSE leitura.velha
  /\ UNCHANGED <<indice, pendente, mudancas>>

NextHistorico ==
  \/ \E c \in ChatDaLista : Sobe(c) \/ Sai(c)
  \/ InvalidateAndRefetchChats \/ HandleScroll
  \/ FetchChats \/ PaginaRecusada \/ LeituraFalha \/ LeituraTermina

SpecHistorico == InitHistorico /\ [][NextHistorico]_varsHistorico

-----------------------------------------------------------------------------
(* Properties.                                                             *)

\* What the accordion of the list shows.
ChatsMostrados == pages.chats

\* At rest the list is the first chats of the index, each once and none skipped, and
\* scrolling brings more exactly when there are more, although the index changed between
\* two pages.  A reading refused, dropped or begun before the change is the exception
\* (historyContentFunctions.ts:130-183).
ListaSemSaltos ==
  ~EmLeitura /\ ~pendente /\ ~perdida =>
    /\ IsPrefix(ChatsMostrados, indice)
    /\ pages.numero > 0 => (HasNextPage <=> Len(ChatsMostrados) < Len(indice))
=============================================================================
