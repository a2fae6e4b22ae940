----------------------------- MODULE ChatLists -----------------------------
(***************************************************************************)
(* The lists of chats of the sidebar (pinned, recent, archived), the       *)
(* requests that change chats and links, and the stores behind them.       *)
(*                                                                         *)
(* The interface keeps each list in a react-query cache (external),        *)
(* marked as old by the handlers that know a request changed it.  Their    *)
(* objects are also changed in place.  The backend writes the chats with   *)
(* _update_by_query of Elasticsearch (external), which finds them in the   *)
(* index as of its last refresh and skips those written since, and then    *)
(* revokes the links of deleted chats in MongoDB (external), whose errors  *)
(* it swallows.  Titles, pages of a list and the search text are left out, *)
(* and so are fetches that fail: they leave the list marked as old.        *)
(***************************************************************************)
EXTENDS Integers, FiniteSets, Functions

CONSTANTS
  Chat,
  Link,
  Inicio,     \* bound: flags a chat may start with, none of them deleted
  Partilhados, \* bound: chats that start with a link, unless archived
  Op,         \* bound: requests in flight at once
  MaxAcoes,   \* bound: requests the user starts
  MaxFalhas   \* bound: failures of a request or of a store

Documento == [fixado : BOOLEAN, arquivado : BOOLEAN, apagado : BOOLEAN]

ASSUME ListsAssumption ==
  /\ MaxAcoes \in Nat /\ MaxFalhas \in Nat
  /\ Inicio \subseteq {d \in Documento : ~d.apagado}

VARIABLES
  doc,        \* chat -> its document
  indice,     \* chat -> its document as the searches see it
  sujo,       \* chats written since the last refresh of the index
  elo,        \* link -> its state and its chat
  lista,      \* list -> what the cache holds
  busca,      \* list -> the fetch in flight
  vista,      \* archiveChats, the copy the archive tab shows
  aba,        \* selectedTab
  op,         \* requests in flight
  acoes,
  falhas,
  \* Ghosts.
  desculpa,   \* list -> whether a write it does not have is a known one
  ignoradas,  \* chats an update failed on, or skipped as written since the refresh
  interrompidas, \* chats whose deletion stopped before their links
  tardios,    \* links made for chats already deleted
  sobrepostos \* chats shared by two requests at once

vLoja == <<doc, indice, sujo>>
vTela == <<lista, busca, vista, aba>>
vConta == <<acoes, falhas>>
vElos == <<interrompidas, tardios, sobrepostos>>
vFantasma == <<desculpa, ignoradas, vElos>>
vars == <<vLoja, elo, vTela, op, vConta, vFantasma>>

Historico == {"fixedChats", "recentChats"}
Lista == Historico \cup {"archiveChats"}
\* The other tabs observe none of the lists and are left out.
Aba == {"history", "archive"}

\* One by one, on the chats of a search, and the sharing of a chat.
DeUm == {"fixa", "arquiva", "apaga"}
DeVarios == {"desafixaTodos", "apagaTodos", "desarquivaTodos"}
Tipo == DeUm \cup DeVarios \cup {"compartilha"}
Apaga == {"apaga", "apagaTodos"}

OpLivre == [tipo |-> "fixa", fase |-> "livre", chats |-> {}, valor |-> FALSE,
            lista |-> "recentChats", preso |-> FALSE, elos |-> {}]
EmCurso == {o \in Op : op[o].fase # "livre"}

\* listar_chats_paginado, with the filters of each list.
Pertence(l, d) ==
  /\ ~d.apagado
  /\ CASE l = "fixedChats"   -> d.fixado /\ ~d.arquivado
       [] l = "recentChats"  -> ~d.fixado /\ ~d.arquivado
       [] l = "archiveChats" -> d.arquivado
Visao(l, docs) ==
  [c \in {x \in Chat : Pertence(l, docs[x])} |->
     [fixado |-> docs[c].fixado, arquivado |-> docs[c].arquivado]]

Livre == [st |-> "livre", chats |-> {}]
Ativo(cs) == [st |-> "ativo", chats |-> cs]

Vazia == [carregada |-> FALSE, velha |-> FALSE, itens |-> <<>>]
BuscaParada == [fase |-> "parada", itens |-> <<>>]

\* The history has just been mounted: ChatPage already had the archived, which it
\* lists before it shows the history.
Init ==
  /\ doc \in [Chat -> Inicio]
  /\ indice = doc /\ sujo = {}
  /\ elo \in [Link -> {Livre} \cup {Ativo({c}) : c \in Chat}]
  /\ \A c \in Chat : (\E k \in Link : elo[k] = Ativo({c})) <=>
                      (c \in Partilhados /\ ~doc[c].arquivado)
  /\ \A k1, k2 \in Link : elo[k1] # Livre /\ elo[k1] = elo[k2] => k1 = k2
  /\ lista = [l \in Lista |-> IF l \in Historico THEN Vazia
                 ELSE [carregada |-> TRUE, velha |-> FALSE, itens |-> Visao(l, doc)]]
  /\ busca = [l \in Lista |-> [fase |-> IF l \in Historico THEN "pedida" ELSE "parada",
                               itens |-> <<>>]]
  /\ vista = <<>> /\ aba = "history"
  /\ op = [o \in Op |-> OpLivre]
  /\ acoes = 0 /\ falhas = 0
  /\ desculpa = [l \in Lista |-> FALSE]
  /\ ignoradas = {} /\ interrompidas = {} /\ tardios = {} /\ sobrepostos = {}

-----------------------------------------------------------------------------
(* The cache of lists (react-query).                                       *)

\* The lists some mounted component observes: ChatPage observes the archived.
Montadas(a) == {"archiveChats"} \cup (IF a = "history" THEN Historico ELSE {})

\* Faulty: a fetch in flight is left to end.
SemCancelar(b, l) == IF b.fase = "parada" THEN [b EXCEPT !.fase = "pedida"] ELSE b

\* A fetch in flight starts again, unless it is the first one of its list.
Rebusca(b, l) ==
  IF b.fase = "parada" \/ lista[l].carregada
  THEN [fase |-> "pedida", itens |-> <<>>] ELSE b

\* invalidateQueries(ls), on lists ts, then the fetch of those in bs.
InvalidaEm(ts, ls, bs) ==
  /\ lista' = [l \in Lista |-> IF l \in ls THEN [ts[l] EXCEPT !.velha = TRUE] ELSE ts[l]]
  /\ busca' = [l \in Lista |-> IF l \in bs THEN Rebusca(busca[l], l) ELSE busca[l]]

Invalida(ls, bs) == InvalidaEm(lista, ls, bs)

\* An invalidation that did not start the fetch again is lost when it ends.
Perdida(ls, bs) ==
  {l \in ls : busca[l].fase # "parada" /\ (l \notin bs \/ ~lista[l].carregada)}

\* A fetch still to be read settles it.
Desculpa(ls) ==
  desculpa' = [l \in Lista |-> busca'[l].fase # "pedida" /\ (desculpa[l] \/ l \in ls)]

\* The search of the list.
Le(l) ==
  /\ busca[l].fase = "pedida"
  /\ busca' = [busca EXCEPT ![l] = [fase |-> "lida", itens |-> Visao(l, indice)]]
  /\ desculpa' = [desculpa EXCEPT ![l] = sujo # {}]
  /\ UNCHANGED <<vLoja, elo, lista, vista, aba, op, vConta, ignoradas, vElos>>

\* Its answer.  Equal data keeps its objects, and the effect on archiveData does
\* not run; other data brings other objects.
Chega(l) ==
  LET muda == ~lista[l].carregada \/ lista[l].itens # busca[l].itens IN
  /\ busca[l].fase = "lida"
  /\ lista' = [lista EXCEPT ![l] =
                 [carregada |-> TRUE, velha |-> FALSE, itens |-> busca[l].itens]]
  /\ busca' = [busca EXCEPT ![l] = BuscaParada]
  /\ op' = [o \in Op |-> IF muda /\ op[o].lista = l /\ op[o].tipo \in DeUm
                         THEN [op[o] EXCEPT !.preso = FALSE] ELSE op[o]]
  /\ vista' = IF muda /\ l = "archiveChats" /\ aba = "archive"
                THEN busca[l].itens ELSE vista
  /\ UNCHANGED <<vLoja, elo, aba, vConta, desculpa, ignoradas, vElos>>

\* The tab: it mounts its hooks.  useArchiveFunctions invalidates the archived
\* when mounted; the lists of the history are fetched if absent or old.
Monta(a) ==
  LET bs == {"archiveChats"} \cup
            {l \in Historico : a = "history" /\ busca[l].fase = "parada"
                               /\ (~lista[l].carregada \/ lista[l].velha)}
  IN /\ aba' = a
     /\ Invalida({"archiveChats"}, bs)
     /\ Desculpa(Perdida({"archiveChats"}, {"archiveChats"}))
     /\ vista' = IF a = "archive" THEN lista["archiveChats"].itens ELSE <<>>

\* The component unmounted with a tab keeps no state for its requests.
Solta(r) == IF r.tipo = "desarquivaTodos" THEN [r EXCEPT !.preso = FALSE] ELSE r

TrocaAba(a) ==
  /\ aba # a
  /\ Monta(a)
  /\ op' = [o \in Op |-> Solta(op[o])]
  /\ UNCHANGED <<vLoja, elo, vConta, ignoradas, vElos>>

-----------------------------------------------------------------------------
(* The user starts a request.                                              *)

Inicia(o, pedido) ==
  /\ op[o].fase = "livre" /\ acoes < MaxAcoes
  /\ op' = [op EXCEPT ![o] = pedido]
  /\ acoes' = acoes + 1
  /\ UNCHANGED <<vLoja, elo, falhas>>

Pedido(t, f, cs, v, l) ==
  [tipo |-> t, fase |-> f, chats |-> cs, valor |-> v, lista |-> l, preso |-> TRUE, elos |-> {}]

\* fixOrUpinChat: the cached object changes before the request leaves.
Fixa(o, c, l) ==
  /\ aba = "history" /\ l \in Historico /\ c \in DOMAIN lista[l].itens
  /\ LET v == ~lista[l].itens[c].fixado IN
       /\ Inicia(o, Pedido("fixa", "es", {c}, v, l))
       /\ lista' = [lista EXCEPT ![l].itens[c].fixado = v]
  /\ UNCHANGED <<busca, vista, aba, vFantasma>>

\* handleArchiveChat, from a list of the history.
Arquiva(o, c, l) ==
  /\ aba = "history" /\ l \in Historico /\ c \in DOMAIN lista[l].itens
  /\ Inicia(o, Pedido("arquiva", "es", {c}, ~lista[l].itens[c].arquivado, l))
  /\ UNCHANGED <<vTela, vFantasma>>

\* onUnArchiveChat, from the archive: the request asks for the opposite of what
\* the object says.
Desarquiva(o, c) ==
  /\ aba = "archive" /\ c \in DOMAIN vista
  /\ Inicia(o, Pedido("arquiva", "es", {c}, ~vista[c].arquivado, "archiveChats"))
  /\ UNCHANGED <<vTela, vFantasma>>

\* deleteChat of each hook: the archive takes the chat out of its copy at once.
ApagaChat(o, c, l) ==
  /\ Inicia(o, Pedido("apaga", "es", {c}, TRUE, l))
  /\ \/ /\ aba = "history" /\ l \in Historico /\ c \in DOMAIN lista[l].itens
        /\ UNCHANGED vista
     \/ /\ aba = "archive" /\ l = "archiveChats" /\ c \in DOMAIN vista
        /\ vista' = Restrict(vista, DOMAIN vista \ {c})
  /\ UNCHANGED <<lista, busca, aba, vFantasma>>

\* The menus of the two lists of the history and of the archive: bulk-update and
\* bulk-delete choose the chats by a search.
EmVarios(o, t, l) ==
  /\ \/ t = "desafixaTodos" /\ l = "fixedChats"
     \/ t = "apagaTodos" /\ l \in Historico
     \/ t = "desarquivaTodos" /\ l = "archiveChats"
  /\ IF l \in Historico THEN aba = "history" /\ DOMAIN lista[l].itens # {}
     ELSE aba = "archive" /\ DOMAIN vista # {}
  /\ Inicia(o, Pedido(t, "procura", {}, FALSE, l))
  /\ UNCHANGED <<vTela, vFantasma>>

\* shareMutation of the modal of one chat.
Compartilha(o, c) ==
  /\ aba = "history"
  /\ \E l \in Historico : c \in DOMAIN lista[l].itens
  /\ Inicia(o, Pedido("compartilha", "consulta", {c}, FALSE, "recentChats"))
  /\ sobrepostos' = sobrepostos \cup
       (IF \E x \in EmCurso : op[x].tipo = "compartilha" /\ op[x].chats = {c} THEN {c} ELSE {})
  /\ UNCHANGED <<vTela, desculpa, ignoradas, interrompidas, tardios>>

-----------------------------------------------------------------------------
(* The backend.                                                            *)

Fase(o, f) == op' = [op EXCEPT ![o].fase = f]

\* listar_chats_paginados of the bulk requests, on the index.
Procura(o) ==
  /\ op[o].fase = "procura"
  /\ op' = [op EXCEPT ![o].fase = "es",
                      ![o].chats = DOMAIN Visao(op[o].lista, indice)]
  /\ UNCHANGED <<vLoja, elo, vTela, vConta, vFantasma>>

\* The query of each update, on a document of the index.
Casa(r, d) ==
  CASE r.tipo \in Apaga -> ~d.apagado
    [] r.tipo = "fixa" -> d.fixado = ~r.valor /\ ~d.arquivado
    [] r.tipo = "desafixaTodos" -> d.fixado /\ ~d.arquivado
    [] r.tipo = "arquiva" -> d.arquivado = ~r.valor
    [] r.tipo = "desarquivaTodos" -> d.arquivado

\* Its script.
Muda(r, d) ==
  CASE r.tipo \in Apaga -> [d EXCEPT !.apagado = TRUE]
    [] r.tipo \in {"fixa", "desafixaTodos"} -> [d EXCEPT !.fixado = r.valor]
    [] OTHER -> [d EXCEPT !.arquivado = r.valor]

\* Faulty: the deletion ends in Elasticsearch.
SemElos(r) == "ok"

\* apagar_todos goes on to the links; with no chats it did nothing.
Seguinte(r) == IF r.tipo \in Apaga /\ r.chats # {} THEN "mongo" ELSE "ok"

\* _update_by_query: a document written since the refresh conflicts and is left
\* as it is.  It may fail, before or after it wrote, and the request with it.
AtualizaES(o) ==
  LET r == op[o]
      alvo == {c \in r.chats : Casa(r, indice[c]) /\ c \notin sujo}
  IN /\ r.fase = "es"
     /\ \E escreve, responde \in BOOLEAN :
          /\ escreve \/ ~responde
          /\ responde \/ falhas < MaxFalhas
          /\ falhas' = falhas + (IF responde THEN 0 ELSE 1)
          /\ IF escreve
               THEN /\ doc' = [c \in Chat |-> IF c \in alvo THEN Muda(r, doc[c]) ELSE doc[c]]
                    /\ sujo' = sujo \cup alvo
               ELSE UNCHANGED <<doc, sujo>>
          /\ Fase(o, IF responde THEN Seguinte(r) ELSE "erro")
          /\ interrompidas' = interrompidas \cup
               (IF escreve /\ ~responde /\ r.tipo \in Apaga THEN alvo ELSE {})
          /\ ignoradas' = ignoradas \cup (IF escreve THEN r.chats \cap sujo ELSE r.chats)
  /\ UNCHANGED <<indice, elo, vTela, acoes, desculpa, tardios, sobrepostos>>

\* Faulty: the records are deleted.
RemoveRegistros(ks) == elo' = [k \in Link \ ks |-> elo[k]]

ElosDe(cs) == {k \in Link : elo[k].st = "ativo" /\ elo[k].chats \subseteq cs}
Revoga(ks) == elo' = [k \in Link |-> IF k \in ks THEN [elo[k] EXCEPT !.st = "removido"]
                                     ELSE elo[k]]

\* remover_todos_enviados_por_chats_ids: an error is logged, and the answer is
\* that of a success.  The pod may stop here too.
RevogaElos(o) ==
  /\ op[o].fase = "mongo"
  /\ \/ /\ Revoga(ElosDe(op[o].chats)) /\ Fase(o, "ok")
        /\ UNCHANGED <<falhas, interrompidas>>
     \/ /\ falhas < MaxFalhas /\ falhas' = falhas + 1
        /\ interrompidas' = interrompidas \cup op[o].chats
        /\ \E f \in {"ok", "erro"} : Fase(o, f)
        /\ UNCHANGED elo
  /\ UNCHANGED <<vLoja, vTela, acoes, desculpa, ignoradas, tardios, sobrepostos>>

\* Faulty: shared without asking for the link it has.
SemConsulta(o) ==
  /\ op[o].fase = "consulta"
  /\ Fase(o, "insere")
  /\ UNCHANGED <<vLoja, elo, vTela, vConta, vFantasma>>

\* SharedSent, in the interface: the link the chat already has.  An error of
\* MongoDB reads as no link.
ConsultaElo(o) ==
  /\ op[o].fase = "consulta"
  /\ \/ /\ ElosDe(op[o].chats) = {} /\ Fase(o, "insere")
        /\ UNCHANGED <<falhas, sobrepostos>>
     \/ /\ \E k \in ElosDe(op[o].chats) :
             op' = [op EXCEPT ![o].fase = "atualiza", ![o].elos = {k}]
        /\ UNCHANGED <<falhas, sobrepostos>>
     \/ /\ falhas < MaxFalhas /\ falhas' = falhas + 1
        /\ Fase(o, "insere")
        /\ sobrepostos' = sobrepostos \cup op[o].chats
  /\ UNCHANGED <<vLoja, elo, vTela, acoes, desculpa, ignoradas, interrompidas, tardios>>

\* compartilha_chat, which finds deleted chats too.
InsereElo(o) ==
  /\ op[o].fase = "insere"
  /\ \E k \in Link, c \in op[o].chats :
       /\ elo[k] = Livre
       /\ elo' = [elo EXCEPT ![k] = Ativo({c})]
       /\ tardios' = tardios \cup (IF doc[c].apagado THEN {k} ELSE {})
  /\ Fase(o, "ok")
  /\ UNCHANGED <<vLoja, vTela, vConta, desculpa, ignoradas, interrompidas, sobrepostos>>

\* Faulty: the update sets the whole record, st_removido included.
AtualizaReativando(o) ==
  /\ op[o].fase = "atualiza"
  /\ elo' = [k \in Link |-> IF k \in op[o].elos THEN [elo[k] EXCEPT !.st = "ativo"]
                            ELSE elo[k]]
  /\ Fase(o, "ok")
  /\ UNCHANGED <<vLoja, vTela, vConta, vFantasma>>

\* atualiza_chat_compartilhamento: the content only.  It fails when the link is
\* found revoked.
AtualizaElo(o) ==
  /\ op[o].fase = "atualiza"
  /\ Fase(o, IF op[o].elos \subseteq ElosDe(Chat) THEN "ok" ELSE "erro")
  /\ UNCHANGED <<vLoja, elo, vTela, vConta, vFantasma>>

\* deleteOneMutation and deleteAllMutation of the sharing tab: one link, or all.
RevogaNaAba(ks) ==
  /\ acoes < MaxAcoes /\ acoes' = acoes + 1
  /\ ks # {} /\ ks \subseteq ElosDe(Chat)
  /\ Cardinality(ks) = 1 \/ ks = ElosDe(Chat)
  /\ Revoga(ks)
  /\ UNCHANGED <<vLoja, vTela, op, falhas, vFantasma>>

\* Elasticsearch refreshes its index.
Refresca ==
  /\ sujo # {}
  /\ indice' = doc /\ sujo' = {}
  /\ UNCHANGED <<doc, elo, vTela, op, vConta, vFantasma>>

\* A turn of the chat ends: its messages are written, and the effect of the
\* history on activeChat invalidates the recent ones.
GravaMensagem(c) ==
  /\ acoes < MaxAcoes /\ acoes' = acoes + 1
  /\ sujo' = sujo \cup {c}
  /\ IF aba = "history" /\ ~doc[c].fixado
       THEN /\ Invalida({"recentChats"}, {"recentChats"})
            /\ Desculpa(Perdida({"recentChats"}, {"recentChats"}))
       ELSE UNCHANGED <<lista, busca, desculpa>>
  /\ UNCHANGED <<doc, indice, elo, vista, aba, op, falhas, ignoradas, vElos>>

-----------------------------------------------------------------------------
(* The answer, in the interface.                                           *)

Termina(o) == op' = [op EXCEPT ![o] = OpLivre]

\* The pod stops, or the answer is lost: an error for the interface.
PerdeResposta(o) ==
  /\ op[o].fase = "ok" /\ falhas < MaxFalhas
  /\ falhas' = falhas + 1
  /\ Fase(o, "erro")
  /\ UNCHANGED <<vLoja, elo, vTela, acoes, vFantasma>>

\* Faulty: only the list the action is shown in.
SoFixados(r) == {"fixedChats"}

\* The lists the handlers of the history invalidate, and fetch even unmounted.
Atualizadas(r) == Historico

\* onSuccess of the mutations of the history.
RespondeHistorico(o) ==
  LET r == op[o] IN
  /\ r.fase = "ok"
  /\ \/ r.tipo \in {"fixa", "desafixaTodos", "apagaTodos"}
     \/ r.tipo = "apaga" /\ r.lista \in Historico
  /\ Invalida(Atualizadas(r), Atualizadas(r))
  /\ Desculpa(Perdida(Historico, Historico) \cup
              (IF r.tipo \in Apaga THEN {"archiveChats"} ELSE {}))
  /\ Termina(o)
  /\ UNCHANGED <<vLoja, elo, vista, aba, vConta, ignoradas, vElos>>

\* The object of a request, if the cache still holds it.
Mexe(o, v) ==
  LET r == op[o] IN
  [l \in Lista |->
     IF l = r.lista /\ r.preso /\ r.chats \subseteq DOMAIN lista[l].itens
     THEN [lista[l] EXCEPT !.itens =
             [c \in DOMAIN @ |-> IF c \in r.chats THEN [@[c] EXCEPT !.arquivado = v] ELSE @[c]]]
     ELSE lista[l]]

\* handleArchiveChat from the history: invalidateHistory, which fetches what is
\* mounted.  The archived are not invalidated.
RespondeArquiva(o) ==
  LET r == op[o] IN
  /\ r.fase = "ok" /\ r.tipo = "arquiva" /\ r.lista \in Historico
  /\ InvalidaEm(Mexe(o, r.valor), Historico, Historico \cap Montadas(aba))
  /\ Desculpa({"archiveChats"} \cup Perdida(Historico, Historico \cap Montadas(aba)))
  /\ Termina(o)
  /\ UNCHANGED <<vLoja, elo, vista, aba, vConta, ignoradas, vElos>>

\* onUnArchiveChat, after an answer or a caught error: the object is marked and
\* the page goes to the history, whose hooks are mounted.
RespondeDesarquiva(o) ==
  LET r == op[o]
      ok == r.fase = "ok"
      antes == IF ok THEN Historico ELSE {}
      monta == aba # "history"
      bs == (antes \cap Montadas(aba)) \cup
            (IF monta THEN {"archiveChats"} \cup
               {l \in Historico : busca[l].fase = "parada" /\
                                  (ok \/ ~lista[l].carregada \/ lista[l].velha)}
             ELSE {})
  IN /\ r.fase \in {"ok", "erro"} /\ r.tipo = "arquiva" /\ r.lista = "archiveChats"
     /\ InvalidaEm(Mexe(o, FALSE), antes \cup (IF monta THEN {"archiveChats"} ELSE {}), bs)
     /\ Desculpa(IF ok THEN {"archiveChats"} \cup Perdida(antes, antes \cap Montadas(aba))
                 ELSE Lista)
     /\ aba' = "history" /\ vista' = <<>>
     /\ op' = [x \in Op |-> IF x = o THEN OpLivre ELSE Solta(op[x])]
  /\ UNCHANGED <<vLoja, elo, vConta, ignoradas, vElos>>

\* onSuccess of the deletion in the archive.
RespondeApagaArquivado(o) ==
  LET r == op[o] IN
  /\ r.fase = "ok" /\ r.tipo = "apaga" /\ r.lista = "archiveChats"
  /\ Invalida({"archiveChats"}, {"archiveChats"})
  /\ Desculpa(Historico)
  /\ Termina(o)
  /\ UNCHANGED <<vLoja, elo, vista, aba, vConta, ignoradas, vElos>>

\* unarchiveAllArchives: the copy is marked on success, the archived are
\* invalidated in any case, the history never.
RespondeDesarquivaTodos(o) ==
  LET r == op[o]
      ok == r.fase = "ok"
  IN /\ r.fase \in {"ok", "erro"} /\ r.tipo = "desarquivaTodos"
     /\ vista' = IF ok /\ r.preso
                   THEN [c \in DOMAIN vista |-> [vista[c] EXCEPT !.arquivado = FALSE]]
                   ELSE vista
     /\ Invalida({"archiveChats"}, {"archiveChats"})
     /\ Desculpa(IF ok THEN Historico ELSE Lista)
     /\ Termina(o)
  /\ UNCHANGED <<vLoja, elo, aba, vConta, ignoradas, vElos>>

\* The modal shows the link, or any other request shows its error.
RespondeSemLista(o) ==
  LET r == op[o] IN
  /\ Termina(o)
  /\ UNCHANGED <<vLoja, elo, vTela, vConta, ignoradas, vElos>>
  /\ \/ r.fase \in {"ok", "erro"} /\ r.tipo = "compartilha" /\ UNCHANGED desculpa
     \/ /\ r.fase = "erro"
        /\ \/ r.tipo \in {"fixa", "desafixaTodos"} \cup Apaga
           \/ r.tipo = "arquiva" /\ r.lista \in Historico
        /\ Desculpa(Lista)

-----------------------------------------------------------------------------
Usuario(o) ==
  \/ \E c \in Chat, l \in Lista : Fixa(o, c, l) \/ Arquiva(o, c, l) \/ ApagaChat(o, c, l)
  \/ \E c \in Chat : Desarquiva(o, c) \/ Compartilha(o, c)
  \/ \E t \in DeVarios, l \in Lista : EmVarios(o, t, l)

Servidor(o) ==
  \/ Procura(o) \/ AtualizaES(o) \/ RevogaElos(o)
  \/ ConsultaElo(o) \/ InsereElo(o) \/ AtualizaElo(o)

Resposta(o) ==
  \/ PerdeResposta(o) \/ RespondeHistorico(o) \/ RespondeArquiva(o)
  \/ RespondeDesarquiva(o) \/ RespondeApagaArquivado(o)
  \/ RespondeDesarquivaTodos(o) \/ RespondeSemLista(o)

Next ==
  \/ \E l \in Lista : Le(l) \/ Chega(l)
  \/ \E a \in Aba : TrocaAba(a)
  \/ \E o \in Op : Usuario(o) \/ Servidor(o) \/ Resposta(o)
  \/ \E ks \in SUBSET Link : RevogaNaAba(ks)
  \/ Refresca
  \/ \E c \in Chat : GravaMensagem(c)

Spec == Init /\ [][Next]_vars

-----------------------------------------------------------------------------
(* Properties.                                                             *)

Fases == {"livre", "procura", "es", "mongo", "consulta", "insere", "atualiza", "ok", "erro"}
Pedidos == [tipo : Tipo, fase : Fases, chats : SUBSET Chat, valor : BOOLEAN,
            lista : Lista, preso : BOOLEAN, elos : SUBSET Link]

TipoLoja ==
  doc \in [Chat -> Documento] /\ indice \in [Chat -> Documento] /\ sujo \subseteq Chat
TipoElo == elo \in [Link -> [st : {"livre", "ativo", "removido"}, chats : SUBSET Chat]]
TipoOp == op \in [Op -> Pedidos]
TipoConta ==
  /\ aba \in Aba /\ acoes \in Nat /\ falhas \in Nat
  /\ desculpa \in [Lista -> BOOLEAN]
  /\ ignoradas \subseteq Chat /\ interrompidas \subseteq Chat
  /\ tardios \subseteq Link /\ sobrepostos \subseteq Chat

\* The types of the stores, of the links and of the requests.
TypeOK == TipoLoja /\ TipoElo /\ TipoOp /\ TipoConta

\* With nothing in flight, a list the tab shows says what the store says, unless it
\* was read from an index behind the store, a request failed, or one of the handlers
\* that do not invalidate it ran since.  The copy of the archive then has the chats of
\* its list, unless an update did not reach a chat it was for, and differs only by the
\* mark "unarchive all" puts on all it shows, though it may not have found them
\* (historyContentFunctions.ts:32, ArchiveFunctions.ts:118-126).
ListasEmDia ==
  (EmCurso = {} /\ sujo = {} /\ \A l \in Lista : busca[l].fase = "parada") =>
    \A l \in Montadas(aba) :
      (lista[l].carregada /\ ~lista[l].velha /\ ~desculpa[l]) =>
        /\ lista[l].itens = Visao(l, doc)
        /\ (l = "archiveChats" /\ aba = "archive" /\ ignoradas = {}) =>
             /\ DOMAIN vista = DOMAIN Visao(l, doc)
             /\ \A c \in DOMAIN vista : vista[c] # Visao(l, doc)[c] => ~vista[c].arquivado

\* What the dialogs of the deletions promise (HistoryContent.tsx:264): a link of a
\* deleted chat is on its way to be revoked, unless its deletion stopped half way,
\* with MongoDB or the pod, or the link was made after it.
ExclusaoRevoga ==
  \A k \in Link : \A c \in elo[k].chats :
    (elo[k].st = "ativo" /\ doc[c].apagado) =>
      \/ k \in tardios
      \/ c \in interrompidas
      \/ \E o \in Op : op[o].fase = "mongo" /\ c \in op[o].chats

\* A chat has one link (the modal says it updates it), unless two requests shared
\* it at once or the first query of one failed.
UmElo ==
  \A k1, k2 \in Link :
    (k1 # k2 /\ elo[k1].st = "ativo" /\ elo[k2].st = "ativo") =>
      elo[k1].chats \cap elo[k2].chats \subseteq sobrepostos

\* What a shared link promises.
SL == INSTANCE ShareLink
EloEspecificado == SL!Spec
=============================================================================
