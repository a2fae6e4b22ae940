---------------------------- MODULE FileLibrary ----------------------------
(***************************************************************************)
(* Folders and files of a user: the list the sidebar shows, the requests   *)
(* that change it, and the collection of MongoDB (external) behind them.   *)
(*                                                                         *)
(* A handler of the interface works on the list of the render it was       *)
(* clicked in, and writes that whole list back when its request answers.   *)
(* Some handlers change the folder objects of that list in place, which    *)
(* everyone else who still holds the same objects sees.  The backend       *)
(* checks a name and then writes, removes a folder in two writes, and      *)
(* swallows most errors of MongoDB.  Left out: the names shown, the names  *)
(* of folders, the content of files, the order of the list, what is        *)
(* selected or open in it, and the entries without id of files being sent. *)
(***************************************************************************)
EXTENDS Integers, FiniteSets, Functions

CONSTANTS
  Pasta,
  Raiz,       \* 'Arquivos gerais', id -1
  Arquivo,
  Nome,
  Op,         \* bound: requests in flight at once
  MaxAcoes,   \* bound: requests the user starts
  MaxListas,  \* bound: listings asked
  MaxFalhas,  \* bound: failures of a store, of the indexing or of an answer
  MaxEventos  \* bound: all of these together

ASSUME LibraryAssumption ==
  /\ Raiz \in Pasta /\ Pasta \cap Arquivo = {}   \* ids of one collection
  /\ Nome # {} /\ {MaxAcoes, MaxListas, MaxFalhas, MaxEventos} \subseteq Nat

VARIABLES
  arq,        \* file -> its record in MongoDB
  pastas,     \* folder -> its record
  objetos,    \* the folder objects of the interface, each with who holds it
  op,
  listagem,   \* the fetch of ['listFolders']
  acoes,
  listas,
  falhas,
  \* Ghosts.
  desculpa,   \* files and folders the list may be wrong about
  corridas,   \* files written with a name taken between its check and the write
  desabrigados \* files written to a folder already deleted or being deleted

vServidor == <<arq, pastas, corridas, desabrigados>>
vars == <<vServidor, objetos, op, listagem, acoes, listas, falhas, desculpa>>

SemRegistro == [st |-> "livre", pasta |-> Raiz, nome |-> CHOOSE n \in Nome : TRUE]
Vivo(f) == arq[f].st \in {"armazenado", "pronto"}

\* Requests that write the list when they answer, and those that do not.
Item == {"move", "moveVarios", "copia"}
Tipo == Item \cup {"envia", "renomeia", "renomeiaPasta", "exclui", "excluiVarios",
                   "criaPasta", "excluiPasta"}
OpLivre == [tipo |-> "envia", fase |-> "livre", itens |-> {}, item |-> {}, feitos |-> {},
            pasta |-> Raiz, origem |-> Raiz, nome |-> SemRegistro.nome,
            st |-> "pronto", desde |-> {}, falhou |-> FALSE]
EmCurso == {o \in Op : op[o].fase # "livre"}
Folga == acoes + listas + falhas < MaxEventos

-----------------------------------------------------------------------------
(* The list.                                                               *)

\* Folders and files of a set of objects, at most one of each folder.
Conteudo(os) ==
  [p \in {x.pasta : x \in os} |-> (CHOOSE x \in os : x.pasta = p).arquivos]
Lista == Conteudo({x \in objetos : x.atual})
Captura(o) == Conteudo({x \in objetos : o \in x.presos})

Objeto(p, as) == [pasta |-> p, arquivos |-> as, presos |-> {}, atual |-> TRUE]
Alcancaveis(os) == {x \in os : x.atual \/ x.presos # {}}

\* A request holds the objects of the list it was started from.
Prende(os, o) ==
  {IF x.atual THEN [x EXCEPT !.presos = @ \cup {o}] ELSE x : x \in os}
Larga(os, o) == Alcancaveis({[x EXCEPT !.presos = @ \ {o}] : x \in os})

\* The object of p that o holds, changed in place.
NoLugar(os, o, p, as) ==
  {IF o \in x.presos /\ x.pasta = p THEN [x EXCEPT !.arquivos = as] ELSE x : x \in os}

\* handleSetUploadedFiles: the cache keeps the objects of folders that did not
\* change; those in copiadas changed in what is left out.
Escreve(os, nova, copiadas) ==
  LET fica(x) == /\ x.pasta \in DOMAIN nova \ copiadas
                 /\ x.arquivos = nova[x.pasta]
      ficam == {x \in os : x.atual /\ fica(x)}
  IN Alcancaveis(
       ficam
       \cup {[x EXCEPT !.atual = FALSE] : x \in os \ ficam}
       \cup {Objeto(p, nova[p]) : p \in DOMAIN nova \ {x.pasta : x \in ficam}})

\* listar_tudo of folders, then of files, joined by lista_pastas_com_arquivos.
Guardada(ps, as) == [p \in ps |-> {f \in as : arq[f].pasta = p}]
NoServidor == Guardada({p \in Pasta : pastas[p] = "viva"}, {f \in Arquivo : Vivo(f)})

\* The folders and files two lists do not agree on.
Difere(l1, l2) ==
  {x \in Pasta \cup Arquivo :
     \/ x \in DOMAIN l1 \ DOMAIN l2 \/ x \in DOMAIN l2 \ DOMAIN l1
     \/ {p \in DOMAIN l1 : x \in l1[p]} # {p \in DOMAIN l2 : x \in l2[p]}}

\* A file or the first folder, in the list and in the store, from the start.
Init ==
  /\ pastas \in [Pasta -> {"livre", "viva"}] /\ pastas[Raiz] = "viva"
  /\ arq \in [Arquivo -> {SemRegistro} \cup
                [st : {"pronto"}, pasta : {p \in Pasta : pastas[p] = "viva"}, nome : Nome]]
  /\ \A f, g \in Arquivo : f # g /\ Vivo(f) /\ Vivo(g) => arq[f].nome # arq[g].nome
  /\ objetos = {Objeto(p, NoServidor[p]) : p \in DOMAIN NoServidor}
  /\ op = [o \in Op |-> OpLivre]
  /\ listagem = [fase |-> "parada", pastas |-> {}, lista |-> <<>>]
  /\ acoes = 0 /\ listas = 0 /\ falhas = 0
  /\ desculpa = {} /\ corridas = {} /\ desabrigados = {}

-----------------------------------------------------------------------------
(* The user starts a request.                                              *)

\* What a request changes, and two requests may dispute.
Alvos(r) == r.itens \cup r.item \cup
            (IF r.tipo \in {"criaPasta", "excluiPasta"} THEN {r.pasta} ELSE {})

Pode(o) == op[o].fase = "livre" /\ acoes < MaxAcoes /\ Folga

Comeca(o, r) ==
  /\ op' = [op EXCEPT ![o] = r]
  /\ acoes' = acoes + 1
  /\ desculpa' = desculpa \cup
       UNION {Alvos(r) \cap (Alvos(op[x]) \cup op[x].feitos) : x \in EmCurso}
  /\ UNCHANGED <<vServidor, listagem, listas, falhas>>

Pedido(t, f, fs, p, q, n) ==
  [OpLivre EXCEPT !.tipo = t, !.fase = f, !.itens = fs, !.pasta = p, !.origem = q, !.nome = n]

\* uploadFile, to the folder chosen.
Envia(o, p, n) ==
  /\ Pode(o)
  /\ p \in DOMAIN Lista
  /\ Comeca(o, Pedido("envia", "consulta", {}, p, p, n))
  /\ objetos' = Prende(objetos, o)

\* moveFile of one file, from its menu.
MoveArquivo(o, q, p, f) ==
  /\ Pode(o)
  /\ {p, q} \subseteq DOMAIN Lista /\ p # q /\ f \in Lista[q]
  /\ Comeca(o, Pedido("move", "consulta", {f}, p, q, SemRegistro.nome))
  /\ objetos' = Prende(objetos, o)

\* The selected files of a folder, from its menu.
MoveVarios(o, q, p, fs) ==
  /\ Pode(o)
  /\ {p, q} \subseteq DOMAIN Lista /\ p # q /\ fs # {} /\ fs \subseteq Lista[q]
  /\ Comeca(o, Pedido("moveVarios", "consulta", fs, p, q, SemRegistro.nome))
  /\ objetos' = Prende(objetos, o)

\* copyFile, from either menu.
Copia(o, q, p, fs) ==
  /\ Pode(o)
  /\ {p, q} \subseteq DOMAIN Lista /\ p # q /\ fs # {} /\ fs \subseteq Lista[q]
  /\ Comeca(o, Pedido("copia", "consulta", fs, p, q, SemRegistro.nome))
  /\ objetos' = Prende(objetos, o)

\* handleEditFile and handleEditFolder.
Renomeia(o, q, f, n) ==
  /\ Pode(o)
  /\ q \in DOMAIN Lista /\ f \in Lista[q]
  /\ Comeca(o, Pedido("renomeia", "consulta", {f}, q, q, n))
  /\ objetos' = Prende(objetos, o)

RenomeiaPasta(o, p) ==
  /\ Pode(o)
  /\ p \in DOMAIN Lista \ {Raiz}
  /\ Comeca(o, Pedido("renomeiaPasta", "ok", {}, p, p, SemRegistro.nome))
  /\ objetos' = Prende(objetos, o)

\* handleDeleteFile: the list is written before the request leaves.
Exclui(o, q, f, copiadas) ==
  /\ Pode(o)
  /\ q \in DOMAIN Lista /\ f \in Lista[q]
  /\ Comeca(o, Pedido("exclui", "grava", {f}, q, q, SemRegistro.nome))
  /\ objetos' = LET os == NoLugar(Prende(objetos, o), o, q, Lista[q] \ {f})
                IN Larga(Escreve(os, [Lista EXCEPT ![q] = @ \ {f}], copiadas \cup {q}), o)

\* handleDeleteFiles: the object of the folder loses them before the request leaves.
ExcluiVarios(o, q, fs) ==
  /\ Pode(o)
  /\ q \in DOMAIN Lista /\ fs # {} /\ fs \subseteq Lista[q]
  /\ Comeca(o, Pedido("excluiVarios", "grava", fs, q, q, SemRegistro.nome))
  /\ objetos' = NoLugar(Prende(objetos, o), o, q, Lista[q] \ fs)

\* saveNewFolder.
CriaPasta(o, p) ==
  /\ Pode(o)
  /\ pastas[p] = "livre" /\ \A x \in EmCurso : op[x].tipo # "criaPasta" \/ op[x].pasta # p
  /\ Comeca(o, Pedido("criaPasta", "grava", {}, p, p, SemRegistro.nome))
  /\ objetos' = Prende(objetos, o)

\* handleDeleteFolder; the first folder has no such entry in its menu.
ExcluiPasta(o, p) ==
  /\ Pode(o)
  /\ p \in DOMAIN Lista \ {Raiz}
  /\ Comeca(o, Pedido("excluiPasta", "grava", Lista[p], p, p, SemRegistro.nome))
  /\ objetos' = Prende(objetos, o)

-----------------------------------------------------------------------------
(* The backend.                                                            *)

vTela == <<objetos, listagem, acoes, listas, desculpa>>

Falha == falhas < MaxFalhas /\ Folga /\ falhas' = falhas + 1

\* verifica_existencia_by_hash and by_nome: the content stands with its name.
ComNome(n, ps) == {g \in Arquivo : Vivo(g) /\ arq[g].pasta \in ps /\ arq[g].nome = n}
Ocupado(n, ps) == ComNome(n, ps) # {}

\* A move that lost an item has an answer that cannot be written.
Fim(r) == IF r.falhou THEN "erro" ELSE "ok"

\* Faulty: the copy is not checked.
SemVerificar(o) ==
  /\ op[o].fase = "consulta" /\ op[o].tipo \in Item
  /\ \E f \in op[o].itens : op' = [op EXCEPT ![o].fase = "grava", ![o].item = {f},
                                   ![o].itens = @ \ {f}, ![o].desde = {},
                                   ![o].nome = arq[f].nome, ![o].st = arq[f].st]
  /\ UNCHANGED <<vServidor, vTela, falhas>>

\* The next item: busca_por_id and _check_item_existence.  One that exists at the
\* destination is reported and the others go on; one that was removed has no record
\* to report, and the whole answer is an error.
ConsultaItem(o) ==
  /\ op[o].fase = "consulta" /\ op[o].tipo \in Item
  /\ \E f \in op[o].itens :
       \/ /\ ~Vivo(f)
          /\ op' = [op EXCEPT ![o].fase = "erro", ![o].falhou = TRUE]
       \/ /\ Vivo(f) /\ Ocupado(arq[f].nome, {op[o].pasta})
          /\ op' = [op EXCEPT ![o].itens = @ \ {f},
                              ![o].fase = IF op[o].itens = {f} THEN Fim(op[o]) ELSE @]
       \/ /\ Vivo(f) /\ ~Ocupado(arq[f].nome, {op[o].pasta})
          /\ op' = [op EXCEPT ![o].fase = "grava", ![o].item = {f},
                              ![o].itens = @ \ {f}, ![o].desde = {},
                              ![o].nome = arq[f].nome, ![o].st = arq[f].st]
  /\ UNCHANGED <<vServidor, vTela, falhas>>

\* inserir_arquivo, before it inserts.
ConsultaEnvio(o) ==
  /\ op[o].fase = "consulta" /\ op[o].tipo = "envia"
  /\ op' = [op EXCEPT ![o].desde = {},
              ![o].fase = IF Ocupado(op[o].nome, {op[o].pasta}) THEN "erro" ELSE "grava"]
  /\ UNCHANGED <<vServidor, vTela, falhas>>

\* renomear_item asks for the name in every folder.
ConsultaNome(o) ==
  /\ op[o].fase = "consulta" /\ op[o].tipo = "renomeia"
  /\ op' = [op EXCEPT ![o].desde = {},
              ![o].fase = IF Ocupado(op[o].nome, Pasta) THEN "erro" ELSE "grava"]
  /\ UNCHANGED <<vServidor, vTela, falhas>>

\* A file is written under a name that gs have: o may not have seen them.
Corre(f, gs, o) ==
  corridas' = IF (gs \ {f}) \cap op[o].desde # {} THEN corridas \cup {f} ELSE corridas

\* A file is written at p, whose files were removed for good.
SemTeto(p) ==
  \/ pastas[p] # "viva"
  \/ \E x \in Op : op[x].tipo = "excluiPasta" /\ op[x].fase = "pasta" /\ op[x].pasta = p
Abriga(f, p) ==
  desabrigados' = IF SemTeto(p) THEN desabrigados \cup {f} ELSE desabrigados \ {f}

\* op', with f new to the requests that checked a name.
Avanca(o, f, r) ==
  op' = [x \in Op |-> IF x = o THEN r ELSE [op[x] EXCEPT !.desde = @ \cup {f}]]

\* The next phase of a request with several items.
Depois(r) == [r EXCEPT !.item = {}, !.fase = IF r.itens = {} THEN Fim(r) ELSE "consulta"]

\* mover_item: a file removed since is left removed, and answered as moved, so that the
\* list will show it (desculpa).  An error of MongoDB gives an item that is none: the
\* others go on, and then the answer breaks.
GravaMovido(o) ==
  /\ op[o].fase = "grava" /\ op[o].tipo \in {"move", "moveVarios"}
  /\ \E f \in op[o].item :
       \/ /\ IF Vivo(f)
               THEN /\ arq' = [arq EXCEPT ![f].pasta = op[o].pasta]
                    /\ Corre(f, ComNome(arq[f].nome, {op[o].pasta}), o)
                    /\ Abriga(f, op[o].pasta)
                    /\ UNCHANGED desculpa
               ELSE desculpa' = desculpa \cup {f} /\ UNCHANGED <<arq, corridas, desabrigados>>
          /\ Avanca(o, f, Depois([op[o] EXCEPT !.feitos = @ \cup {f}]))
          /\ UNCHANGED falhas
       \/ /\ Falha
          /\ op' = [op EXCEPT ![o] = Depois([@ EXCEPT !.falhou = TRUE])]
          /\ UNCHANGED <<arq, corridas, desabrigados, desculpa>>
  /\ UNCHANGED <<pastas, objetos, listagem, acoes, listas>>

\* copiar_item: the copy is of the record read.  An error is that of the item.
GravaCopia(o) ==
  /\ op[o].fase = "grava" /\ op[o].tipo = "copia"
  /\ \E f \in op[o].item :
       \/ \E g \in {x \in Arquivo : arq[x].st = "livre"} :
            /\ arq' = [arq EXCEPT ![g] = [st |-> op[o].st, pasta |-> op[o].pasta,
                                          nome |-> op[o].nome]]
            /\ Corre(g, ComNome(op[o].nome, {op[o].pasta}), o)
            /\ Abriga(g, op[o].pasta)
            /\ Avanca(o, g, Depois([op[o] EXCEPT !.feitos = @ \cup {g}]))
            /\ UNCHANGED falhas
       \/ /\ Falha
          /\ op' = [op EXCEPT ![o] = Depois(@)]
          /\ UNCHANGED <<arq, corridas, desabrigados>>
  /\ UNCHANGED <<pastas, vTela>>

\* inserir_arquivo: without the record the upload goes on, and ends with a file
\* that has no id.
GravaEnvio(o) ==
  /\ op[o].fase = "grava" /\ op[o].tipo = "envia"
  /\ \/ \E f \in {x \in Arquivo : arq[x].st = "livre"} :
          /\ arq' = [arq EXCEPT ![f] =
                       [st |-> "armazenado", pasta |-> op[o].pasta, nome |-> op[o].nome]]
          /\ Corre(f, ComNome(op[o].nome, {op[o].pasta}), o)
          /\ Abriga(f, op[o].pasta)
          /\ Avanca(o, f, [op[o] EXCEPT !.fase = "indexa", !.feitos = {f}])
          /\ UNCHANGED falhas
     \/ /\ Falha
        /\ op' = [op EXCEPT ![o].fase = "ok"]
        /\ UNCHANGED <<arq, corridas, desabrigados>>
  /\ UNCHANGED <<pastas, vTela>>

\* processa_upload after the record: the sections are indexed and the file is
\* ready, unless the status is not written; or the record is removed again, and
\* the error answered, even if it was not removed.
Indexa(o) ==
  /\ op[o].fase = "indexa"
  /\ \E f \in op[o].feitos :
       \/ /\ arq' = [arq EXCEPT ![f].st = IF Vivo(f) THEN "pronto" ELSE @]
          /\ op' = [op EXCEPT ![o].fase = "ok"]
          /\ UNCHANGED falhas
       \/ /\ Falha
          /\ op' = [op EXCEPT ![o].fase = "ok"]
          /\ UNCHANGED arq
       \/ /\ Falha
          /\ arq' \in {arq, [arq EXCEPT ![f].st = "removido"]}
          /\ op' = [op EXCEPT ![o].fase = "erro", ![o].falhou = TRUE]
  /\ UNCHANGED <<pastas, corridas, desabrigados, vTela>>

\* A move of the file that checked its old name has lost its check.
GravaNome(o) ==
  /\ op[o].fase = "grava" /\ op[o].tipo = "renomeia"
  /\ \E f \in op[o].itens :
       /\ arq' = [arq EXCEPT ![f].nome = op[o].nome]
       /\ IF \E x \in Op : op[x].fase = "grava" /\ f \in op[x].item
            THEN corridas' = corridas \cup {f}
            ELSE Corre(f, ComNome(op[o].nome, Pasta), o)
       /\ Abriga(f, arq[f].pasta)
       /\ Avanca(o, f, [op[o] EXCEPT !.fase = "ok"])
  /\ UNCHANGED <<pastas, vTela, falhas>>

\* An error of the store in renomear_item: swallowed, the answer is a success.
EngoleNome(o) ==
  /\ op[o].fase \in {"consulta", "grava"} /\ op[o].tipo = "renomeia" /\ Falha
  /\ op' = [op EXCEPT ![o].fase = "ok", ![o].falhou = TRUE]
  /\ UNCHANGED <<vServidor, vTela>>

\* Faulty: the records go, instead of their status.
SemRegistros(fs) == arq' = Restrict(arq, Arquivo \ fs)

Removidos(fs) == arq' = [f \in Arquivo |-> IF f \in fs THEN [arq[f] EXCEPT !.st = "removido"]
                                           ELSE arq[f]]

\* remover_varios: an error is swallowed.
GravaExclusao(o) ==
  /\ op[o].fase = "grava" /\ op[o].tipo \in {"exclui", "excluiVarios"}
  /\ \/ /\ Removidos(op[o].itens)
        /\ op' = [op EXCEPT ![o].fase = "ok"]
        /\ UNCHANGED falhas
     \/ /\ Falha
        /\ op' = [op EXCEPT ![o].fase = "ok", ![o].falhou = TRUE]
        /\ UNCHANGED arq
  /\ UNCHANGED <<pastas, corridas, desabrigados, vTela>>

\* inserir_pasta, whose name may be taken.
GravaPasta(o) ==
  /\ op[o].fase = "grava" /\ op[o].tipo = "criaPasta"
  /\ \/ /\ pastas' = [pastas EXCEPT ![op[o].pasta] = "viva"]
        /\ op' = [op EXCEPT ![o].fase = "ok"]
     \/ /\ UNCHANGED pastas
        /\ op' = [op EXCEPT ![o].fase = "erro"]
  /\ UNCHANGED <<arq, corridas, desabrigados, vTela, falhas>>

\* Faulty: only the files that are ready.
FilhosProntos(p) == {f \in Arquivo : arq[f].st = "pronto" /\ arq[f].pasta = p}

FilhosDe(p) == {f \in Arquivo : arq[f].st # "livre" /\ arq[f].pasta = p}

\* exclui_item of a folder: its files first.
RemoveFilhos(o) ==
  /\ op[o].fase = "grava" /\ op[o].tipo = "excluiPasta"
  /\ \/ /\ Removidos(FilhosDe(op[o].pasta))
        /\ op' = [op EXCEPT ![o].fase = "pasta"]
        /\ UNCHANGED <<falhas, desabrigados>>
     \/ /\ Falha
        /\ op' = [op EXCEPT ![o].fase = "pasta", ![o].falhou = TRUE]
        /\ desabrigados' = desabrigados \cup FilhosDe(op[o].pasta)
        /\ UNCHANGED arq
  /\ UNCHANGED <<pastas, corridas, vTela>>

\* Then the folder.
RemovePasta(o) ==
  /\ op[o].fase = "pasta" /\ op[o].tipo = "excluiPasta"
  /\ \/ /\ pastas' = [pastas EXCEPT ![op[o].pasta] = "removida"]
        /\ op' = [op EXCEPT ![o].fase = "ok"]
        /\ UNCHANGED falhas
     \/ /\ Falha
        /\ op' = [op EXCEPT ![o].fase = "ok", ![o].falhou = TRUE]
        /\ UNCHANGED pastas
  /\ UNCHANGED <<arq, corridas, desabrigados, vTela>>

\* The answer is lost.
PerdeResposta(o) ==
  /\ op[o].fase = "ok" /\ Falha
  /\ op' = [op EXCEPT ![o].fase = "erro", ![o].falhou = TRUE]
  /\ UNCHANGED <<vServidor, vTela>>

-----------------------------------------------------------------------------
(* The answer, in the interface: the list l with what the request did.     *)

\* handleUploadSuccess and copyFileToFolder: to the folder, if it is in the list.
Acrescenta(l, p, fs) == IF p \in DOMAIN l THEN [l EXCEPT ![p] = @ \cup fs] ELSE l

\* Faulty: the file is left in the folder it came from.
SemTirar(l, r) == Acrescenta(l, r.pasta, r.feitos)

\* handleMovedFile.
Movido(l, r) ==
  IF {r.pasta, r.origem} \subseteq DOMAIN l
  THEN [l EXCEPT ![r.pasta] = @ \cup r.feitos, ![r.origem] = @ \ r.feitos] ELSE l

\* handleMovedFileBulk.
MovidosVarios(l, r) ==
  [p \in DOMAIN l |-> CASE p = r.pasta  -> l[p] \cup r.feitos
                        [] p = r.origem -> l[p] \ r.feitos
                        [] OTHER        -> l[p]]

\* addFolder, and the filter of handleDeleteFolder.
ComPasta(l, p) == [q \in DOMAIN l \cup {p} |-> IF q \in DOMAIN l THEN l[q] ELSE {}]
SemPasta(l, p) == Restrict(l, DOMAIN l \ {p})

Feito(l, r) ==
  CASE r.tipo = "move"                -> Movido(l, r)
    [] r.tipo = "moveVarios"          -> MovidosVarios(l, r)
    [] r.tipo \in {"copia", "envia"}  -> Acrescenta(l, r.pasta, r.feitos)
    [] r.tipo = "criaPasta"           -> ComPasta(l, r.pasta)
    [] r.tipo = "excluiPasta"         -> SemPasta(l, r.pasta)
    [] OTHER                          -> l

\* What the request changed, for a list that is not told or told wrong.
Incertos(r) ==
  IF ~r.falhou THEN {}
  ELSE Alvos(r) \cup r.feitos \cup
       (IF r.tipo = "excluiPasta" THEN FilhosDe(r.pasta) ELSE {})

\* The handlers that write the list of their render.  What others wrote to it since
\* is lost, unless they wrote to objects both hold.
Responde(o, copiadas) ==
  LET r == op[o]
      nova == Feito(Captura(o), r)
      naHora == r.tipo \in {"copia", "envia", "moveVarios"} /\ r.pasta \in DOMAIN nova
  IN /\ r.fase = "ok" /\ r.tipo # "exclui" /\ (r.tipo \in Item => r.feitos # {})
     /\ objetos' = LET os == IF naHora THEN NoLugar(objetos, o, r.pasta, nova[r.pasta])
                             ELSE objetos
                   IN Larga(Escreve(os, nova, copiadas), o)
     /\ desculpa' = desculpa \cup Incertos(r) \cup Difere(nova, Feito(Lista, r))
     /\ op' = [op EXCEPT ![o] = OpLivre]
  /\ UNCHANGED <<vServidor, listagem, acoes, listas, falhas>>

\* An error, nothing moved or copied, or a file already out of the list.
RespondeSemLista(o) ==
  LET r == op[o] IN
  /\ \/ r.fase = "erro"
     \/ r.fase = "ok" /\ (r.tipo = "exclui" \/ (r.tipo \in Item /\ r.feitos = {}))
  /\ objetos' = Larga(objetos, o)
  /\ desculpa' = desculpa \cup Incertos(r)
  /\ op' = [op EXCEPT ![o] = OpLivre]
  /\ UNCHANGED <<vServidor, listagem, acoes, listas, falhas>>

-----------------------------------------------------------------------------
(* The listing, asked again when a chat is opened by its link or shared.   *)

PedeLista ==
  /\ listas < MaxListas /\ Folga /\ listas' = listas + 1
  /\ listagem' = [fase |-> "pedida", pastas |-> {}, lista |-> <<>>]
  /\ UNCHANGED <<vServidor, objetos, op, acoes, falhas, desculpa>>

\* lista_pastas_com_arquivos: the folders, then the files.
LePastas ==
  /\ listagem.fase = "pedida"
  /\ listagem' = [fase |-> "pastas", pastas |-> DOMAIN NoServidor, lista |-> <<>>]
  /\ UNCHANGED <<vServidor, objetos, op, acoes, listas, falhas, desculpa>>

LeArquivos ==
  /\ listagem.fase = "pastas"
  /\ listagem' = [fase |-> "lida", pastas |-> {},
                  lista |-> Guardada(listagem.pastas, {f \in Arquivo : Vivo(f)})]
  /\ UNCHANGED <<vServidor, objetos, op, acoes, listas, falhas, desculpa>>

\* The effect of useUpload on the data.  A file whose deletion has not reached the
\* store is back.
ChegaLista(copiadas) ==
  /\ listagem.fase = "lida"
  /\ objetos' = Escreve(objetos, listagem.lista, copiadas)
  /\ listagem' = [fase |-> "parada", pastas |-> {}, lista |-> <<>>]
  /\ desculpa' = Difere(listagem.lista, NoServidor) \cup
       (UNION {op[o].itens : o \in {x \in EmCurso : op[x].tipo = "exclui"}}) \cup
       (desculpa \cap UNION {Alvos(op[o]) \cup op[o].feitos : o \in EmCurso})
  /\ UNCHANGED <<vServidor, op, acoes, listas, falhas>>

-----------------------------------------------------------------------------
\* The menu of a file: copying it is copying a set of one.
MenuDoArquivo(o) ==
  \/ \E p, q \in Pasta, f \in Arquivo : MoveArquivo(o, q, p, f) \/ Copia(o, q, p, {f})
  \/ \E q \in Pasta, f \in Arquivo, n \in Nome : Renomeia(o, q, f, n)
  \/ \E q \in Pasta, f \in Arquivo, cs \in SUBSET Pasta : Exclui(o, q, f, cs)

\* The menu of a folder, for the files selected in it, and for the folder.
MenuDaPasta(o) ==
  \/ \E p, q \in Pasta, fs \in SUBSET Arquivo : MoveVarios(o, q, p, fs) \/ Copia(o, q, p, fs)
  \/ \E q \in Pasta, fs \in SUBSET Arquivo : ExcluiVarios(o, q, fs)
  \/ \E p \in Pasta : ExcluiPasta(o, p) \/ RenomeiaPasta(o, p)

Usuario(o) ==
  \/ \E p \in Pasta, n \in Nome : Envia(o, p, n)
  \/ \E p \in Pasta : CriaPasta(o, p)
  \/ MenuDoArquivo(o) \/ MenuDaPasta(o)

Servidor(o) ==
  \/ ConsultaItem(o) \/ ConsultaEnvio(o) \/ ConsultaNome(o)
  \/ GravaMovido(o) \/ GravaCopia(o) \/ GravaEnvio(o) \/ Indexa(o) \/ GravaNome(o)
  \/ EngoleNome(o) \/ GravaExclusao(o) \/ GravaPasta(o) \/ RemoveFilhos(o) \/ RemovePasta(o)

Resposta(o) ==
  \/ PerdeResposta(o) \/ RespondeSemLista(o)
  \/ \E cs \in SUBSET Pasta : Responde(o, cs)

Next ==
  \/ \E o \in Op : Usuario(o) \/ Servidor(o) \/ Resposta(o)
  \/ PedeLista \/ LePastas \/ LeArquivos
  \/ \E cs \in SUBSET Pasta : ChegaLista(cs)

Spec == Init /\ [][Next]_vars

-----------------------------------------------------------------------------
(* Properties.                                                             *)

Fases == {"livre", "consulta", "grava", "indexa", "pasta", "ok", "erro"}
Registros == [st : {"livre", "armazenado", "pronto", "removido"}, pasta : Pasta, nome : Nome]
Objetos == [pasta : Pasta, arquivos : SUBSET Arquivo, presos : SUBSET Op, atual : BOOLEAN]
Pedidos == [tipo : Tipo, fase : Fases, itens : SUBSET Arquivo, item : SUBSET Arquivo,
            feitos : SUBSET Arquivo, pasta : Pasta, origem : Pasta, nome : Nome,
            st : {"armazenado", "pronto"}, desde : SUBSET Arquivo, falhou : BOOLEAN]
EhLista(l) == DOMAIN l \subseteq Pasta /\ \A p \in DOMAIN l : l[p] \subseteq Arquivo

TipoServidor ==
  /\ arq \in [Arquivo -> Registros]
  /\ pastas \in [Pasta -> {"livre", "viva", "removida"}]
  /\ corridas \subseteq Arquivo /\ desabrigados \subseteq Arquivo
TipoTela ==
  /\ objetos \subseteq Objetos
  /\ listagem.fase \in {"parada", "pedida", "pastas", "lida"}
  /\ listagem.pastas \subseteq Pasta /\ EhLista(listagem.lista)
  /\ desculpa \subseteq Pasta \cup Arquivo
  /\ {acoes, listas, falhas} \subseteq Nat

\* The types of the store, of the requests and of the objects of the interface.
TypeOK == TipoServidor /\ op \in [Op -> Pedidos] /\ TipoTela

\* A folder shown that is gone, and what is shown in it.
Fantasmas == UNION {Lista[p] : p \in (desculpa \cap DOMAIN Lista) \ DOMAIN NoServidor}

\* With no request in flight the list of the sidebar is what the store has, but for
\* what a handler overwrote with its old copy of the list, two requests disputed, a
\* failure left unknown, or a move of a file already removed was told.
ListaFiel ==
  EmCurso = {} =>
    Difere(Lista, NoServidor) \subseteq desculpa \cup desabrigados \cup Fantasmas

\* A file alive is in a folder alive: deleting a folder deletes what is in it.  But
\* a file sent, moved or copied to it during the deletion, or after, stays, and is
\* listed nowhere; and so do the files of one whose removal failed.
SemOrfaos ==
  \A f \in Arquivo : (Vivo(f) /\ pastas[arq[f].pasta] # "viva") => f \in desabrigados

\* Two files of a folder never have one name, unless the name was taken between
\* the check and the write of a request.
SemHomonimos ==
  \A f, g \in Arquivo :
    (f # g /\ Vivo(f) /\ Vivo(g) /\ arq[f].pasta = arq[g].pasta /\ arq[f].nome = arq[g].nome) =>
      f \in corridas \/ g \in corridas
=============================================================================
