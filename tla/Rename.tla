-------------------------------- MODULE Rename --------------------------------
(***************************************************************************)
(* The dialogs that rename a folder, a file or a chat.                     *)
(*                                                                         *)
(* The new name is written on the object the list shows before anything is *)
(* sent.  For a folder or a file the dialog stays open until the answer: a *)
(* refusal puts the old name back on that object, a success writes the     *)
(* list captured when the button was pressed.  The dialog of a chat closes *)
(* at once and has no way back.  Meanwhile other handlers copy the objects *)
(* of the list, and a refused name stays on the copy.                      *)
(*                                                                         *)
(* FileLibrary has the places of the files and two users of the interface; *)
(* here one tab is open.  Left out: lists read again, which FileLibrary    *)
(* and ChatLists have, and the page of errors 401 and 403.                 *)
(***************************************************************************)
EXTENDS Naturals, Sequences

CONSTANTS
  Item,         \* what may be renamed
  Pastas,       \* the folders
  Conversas,    \* the chats; the others are files
  Titulo,       \* the names typed
  Recusado,     \* a text no dialog sends: blank, or with blanks around it
  Inexistente,  \* no request, no dialog
  Renomeacao,   \* bound: the requests under way at once
  NomeInicial,  \* the names stored when it starts
  MaxObjeto,    \* bound: the objects of an item
  MaxDialogo    \* bound: the dialogs opened

VARIABLES
  gravado,        \* the names stored
  objetos,        \* the names held by the objects of an item, in the order they were made
  atual,          \* the object the list shows
  dialogo,        \* the dialog open: its item, editedTitle and initialTitle
  mudou,          \* isInputChange of each dialog, which outlives it
  pedidos,        \* the requests under way
  trocados,       \* items whose name a known defect may have left wrong
  dialogosDeNome  \* opened

varsNome == <<gravado, objetos, atual, dialogo, mudou, pedidos, trocados, dialogosDeNome>>

\* The texts of a name; a dialog and a request.
NomeEscrito == Titulo \cup {Recusado} \cup {NomeInicial[i] : i \in Item}
DialogoAberto == [item : Item, editado : NomeEscrito, inicial : NomeEscrito]
PedidoFeito ==
  [item : Item, fase : {"token", "grava", "gravado", "recusado", "engolido"},
   objeto : Nat, lista : [Item -> Nat], inicial : NomeEscrito, nome : NomeEscrito,
   duvida : BOOLEAN, sozinho : BOOLEAN]

ASSUME NomesAssumption == Inexistente \notin DialogoAberto \cup PedidoFeito

Biblioteca == Item \ Conversas
Mostrado(i) == objetos[i][atual[i]]
Aberto(i) == dialogo # Inexistente /\ dialogo.item = i
EmVoo(i) == {p \in Renomeacao : pedidos[p] # Inexistente /\ pedidos[p].item = i}

InitNome ==
  /\ gravado = [i \in Item |-> NomeInicial[i]]
  /\ objetos = [i \in Item |-> <<NomeInicial[i]>>] /\ atual = [i \in Item |-> 1]
  /\ dialogo = Inexistente /\ mudou = [i \in Item |-> FALSE]
  /\ pedidos = [p \in Renomeacao |-> Inexistente]
  /\ trocados = {} /\ dialogosDeNome = 0

-----------------------------------------------------------------------------
(* The dialog.                                                             *)

\* The effect of a dialog that opens, or whose item is another object.
DialogoDe(i, n) == [item |-> i, editado |-> n, inicial |-> n]

\* openModalEdit...: a dialog covers the page, so another one is not opened.
AbreDialogo(i) ==
  /\ dialogo = Inexistente /\ dialogo' = DialogoDe(i, Mostrado(i))
  /\ dialogosDeNome < MaxDialogo /\ dialogosDeNome' = dialogosDeNome + 1
  /\ UNCHANGED <<gravado, objetos, atual, mudou, pedidos, trocados>>

\* handleClose, also while the answer is awaited.
FechaDialogo ==
  /\ dialogo # Inexistente /\ dialogo' = Inexistente
  /\ UNCHANGED <<gravado, objetos, atual, mudou, pedidos, trocados>>

\* handleTitleChange.
Digita(i, t) ==
  /\ Aberto(i) /\ dialogo.editado # t
  /\ dialogo' = [dialogo EXCEPT !.editado = t]
  /\ mudou' = [mudou EXCEPT ![i] = (t # Mostrado(i))]
  /\ UNCHANGED <<gravado, objetos, atual, pedidos, trocados>>

\* isButtonDisabled.  Once pressed, only that of a folder waits for another text.
Habilitado(i) ==
  /\ mudou[i] /\ dialogo.editado # Recusado
  /\ i \in Pastas => dialogo.editado # Mostrado(i)

\* The request of a confirmed name, with what its handler captured.
NovoPedido(i) ==
  [item |-> i, fase |-> IF i \in Conversas THEN "grava" ELSE "token",
   objeto |-> atual[i], lista |-> atual, inicial |-> dialogo.inicial,
   nome |-> dialogo.editado, duvida |-> i \in trocados,
   sozinho |-> EmVoo(i) = {}]

\* The button: the object takes the name at once.
Confirma(i, p) ==
  /\ Aberto(i) /\ Habilitado(i)
  /\ pedidos[p] = Inexistente /\ \A q \in Renomeacao : q < p => pedidos[q] # Inexistente
  /\ objetos' = [objetos EXCEPT ![i][atual[i]] = dialogo.editado]
  /\ pedidos' = [q \in Renomeacao |->
       IF q = p THEN NovoPedido(i)
       ELSE IF q \in EmVoo(i) THEN [pedidos[q] EXCEPT !.sozinho = FALSE]
       ELSE pedidos[q]]
  /\ UNCHANGED <<gravado, atual, mudou, trocados>>

\* handleEditTitle of a folder or a file waits for the answer; that of a chat closes.
ConfirmaBiblioteca(i, p) == i \in Biblioteca /\ Confirma(i, p) /\ UNCHANGED dialogo
ConfirmaConversa(i, p) == i \in Conversas /\ Confirma(i, p) /\ dialogo' = Inexistente

-----------------------------------------------------------------------------
(* The request.                                                            *)

Avanca(p, fase) == pedidos' = [pedidos EXCEPT ![p].fase = fase]

\* The object is sent once there is a token, with the name it has by then; renomear_item
\* refuses a name in use, by the item itself too.
Consulta(p) ==
  LET nome == objetos[pedidos[p].item][pedidos[p].objeto]
  IN /\ pedidos[p].fase = "token"
     /\ pedidos' = [pedidos EXCEPT ![p].nome = nome,
                      ![p].fase = IF \E i \in Biblioteca : gravado[i] = nome THEN "recusado"
                                  ELSE "grava"]
     /\ UNCHANGED <<gravado, objetos, atual, dialogo, mudou, trocados>>

GravaNome(p) ==
  LET i == pedidos[p].item
  IN /\ pedidos[p].fase = "grava"
     /\ gravado' = [gravado EXCEPT ![i] = pedidos[p].nome]
     /\ Avanca(p, "gravado")
     /\ UNCHANGED <<objetos, atual, dialogo, mudou, trocados>>

\* An error before renomear_item, or of the store of chats.
PedidoFalha(p) ==
  /\ \/ pedidos[p].fase = "token"
     \/ pedidos[p].fase = "grava" /\ pedidos[p].item \in Conversas
  /\ Avanca(p, "recusado")
  /\ UNCHANGED <<gravado, objetos, atual, dialogo, mudou, trocados>>

\* An error of the store in renomear_item, which swallows it: the answer is a success.
Engole(p) ==
  /\ pedidos[p].fase \in {"token", "grava"} /\ pedidos[p].item \in Biblioteca
  /\ Avanca(p, "engolido")
  /\ UNCHANGED <<gravado, objetos, atual, dialogo, mudou, trocados>>

-----------------------------------------------------------------------------
(* Its answer.                                                             *)

EncerraPedido(p) == pedidos' = [pedidos EXCEPT ![p] = Inexistente]

\* The dialog d on a list whose objects are those of a.
Redesenha(d, a, os) ==
  IF d # Inexistente /\ a[d.item] # atual[d.item]
  THEN DialogoDe(d.item, os[d.item][a[d.item]]) ELSE d

\* The answer closes the dialog of its item, whatever it is open for.
Fechado(p) == IF Aberto(pedidos[p].item) THEN Inexistente ELSE dialogo

\* handleEditFolder, handleEditFile: the list captured returns, with the object in it.
Capturada(p) ==
  [i \in Item |-> IF i \in Biblioteca THEN pedidos[p].lista[i] ELSE atual[i]]

RespondeBiblioteca(p) ==
  LET i == pedidos[p].item
      lista == Capturada(p)
      voltam == {j \in Biblioteca \ {i} : objetos[j][lista[j]] # Mostrado(j)}
      certo == pedidos[p].fase = "gravado" /\ pedidos[p].sozinho
      outro == {q \in Renomeacao \ {p} : pedidos[q] # Inexistente
                                        /\ lista[pedidos[q].item] # atual[pedidos[q].item]}
  IN /\ pedidos[p].fase \in {"gravado", "engolido"} /\ i \in Biblioteca
     /\ pedidos' = [q \in Renomeacao |->
          IF q = p THEN Inexistente
          ELSE IF q \in outro THEN [pedidos[q] EXCEPT !.duvida = TRUE] ELSE pedidos[q]]
     /\ atual' = lista
     /\ dialogo' = Redesenha(Fechado(p), lista, objetos)
     /\ trocados' = (IF certo THEN trocados \ {i} ELSE trocados \cup {i}) \cup voltam
     /\ UNCHANGED <<gravado, objetos, mudou>>

\* Faulty: the name refused stays.
SemDesfazer(p) == objetos

\* handleEditTitle on a refusal: the object takes back the name of the dialog.
Desfaz(p) == [objetos EXCEPT ![pedidos[p].item][pedidos[p].objeto] = pedidos[p].inicial]

\* A refusal, or an answer lost.
RecusaBiblioteca(p) ==
  LET i == pedidos[p].item
  IN /\ pedidos[p].fase \in {"recusado", "gravado", "engolido"} /\ i \in Biblioteca
     /\ EncerraPedido(p) /\ objetos' = Desfaz(p)
     /\ dialogo' = Fechado(p)
     /\ trocados' = IF \/ pedidos[p].fase = "gravado" \/ ~pedidos[p].sozinho
                           \/ pedidos[p].duvida
                         THEN trocados \cup {i} ELSE trocados
     /\ UNCHANGED <<gravado, atual, mudou>>

\* mutateEditChat: an alert, whatever the answer.
RespondeConversa(p) ==
  LET i == pedidos[p].item
      certo == pedidos[p].fase = "gravado" /\ pedidos[p].sozinho
  IN /\ pedidos[p].fase \in {"recusado", "gravado"} /\ i \in Conversas
     /\ EncerraPedido(p)
     /\ trocados' = IF certo THEN trocados \ {i} ELSE trocados \cup {i}
     /\ UNCHANGED <<gravado, objetos, atual, dialogo, mudou>>

-----------------------------------------------------------------------------
(* The list, meanwhile.                                                    *)

\* selectFiles, unSelectFolder, unselectAllFiles: new objects, with the names shown, which a
\* dialog open is reset to.
CopiaObjetos ==
  /\ \A i \in Biblioteca : Len(objetos[i]) < MaxObjeto
  /\ objetos' = [i \in Item |-> IF i \in Biblioteca THEN Append(objetos[i], Mostrado(i))
                               ELSE objetos[i]]
  /\ atual' = [i \in Item |-> Len(objetos'[i])]
  /\ dialogo' = Redesenha(dialogo, atual', objetos')
  /\ pedidos' = [p \in Renomeacao |->
       IF pedidos[p] # Inexistente /\ pedidos[p].item \in Biblioteca
       THEN [pedidos[p] EXCEPT !.duvida = TRUE] ELSE pedidos[p]]
  /\ UNCHANGED <<gravado, mudou, trocados>>

NextNome ==
  \/ \E i \in Item : AbreDialogo(i)
  \/ /\ UNCHANGED dialogosDeNome
     /\ \/ \E i \in Item, t \in Titulo \cup {Recusado} : Digita(i, t)
        \/ \E i \in Item, p \in Renomeacao : ConfirmaBiblioteca(i, p) \/ ConfirmaConversa(i, p)
        \/ \E p \in {q \in Renomeacao : pedidos[q] # Inexistente} :
             \/ Consulta(p) \/ GravaNome(p) \/ PedidoFalha(p) \/ Engole(p)
             \/ RespondeBiblioteca(p) \/ RecusaBiblioteca(p) \/ RespondeConversa(p)
        \/ FechaDialogo \/ CopiaObjetos

SpecNome == InitNome /\ [][NextNome]_varsNome

-----------------------------------------------------------------------------
(* Properties.                                                             *)

\* An item no request of which is under way shows the name stored, whatever the answers
\* were, unless its requests overlapped, its answer was lost after the name was stored or
\* told a success the store did not have, it was copied with a name then refused, an older
\* list was put back over it, or it is a chat, whose refused name stays.
NomeDaTela == \A i \in Item \ trocados : EmVoo(i) = {} => Mostrado(i) = gravado[i]

=============================================================================
