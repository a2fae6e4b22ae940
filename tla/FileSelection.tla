---------------------------- MODULE FileSelection ----------------------------
(***************************************************************************)
(* The files a message is sent with: the chips of the input box and the    *)
(* ticks of the list of files, which are kept apart.                       *)
(*                                                                         *)
(* While the files tab is open an effect copies the chips to the ticks;    *)
(* otherwise only what the chips' own buttons do reaches the list.  The    *)
(* buttons also leave a copy of the list in the page, which the tab takes  *)
(* whenever it opens.  Requests write the list they captured when they     *)
(* started, with or without telling the chips.                             *)
(*                                                                         *)
(* FileLibrary says what the requests do to the files; here a list read    *)
(* again may hold any.  Left out: which files are ready, and the entry of  *)
(* a file on its way.                                                      *)
(***************************************************************************)
EXTENDS FiniteSets, Naturals

CONSTANTS
  Documento, Pasta,
  Fora,          \* the place of a file that is not listed
  Nenhuma,       \* no copy, no request
  LimiteChips,   \* 3: with more, one button takes all out
  MaxPassoLista  \* bound: the steps of a behaviour

VARIABLES
  lista,       \* where each file is; the ticks of files and of folders
  chips,       \* filesSelected
  ultima,      \* the files of the last message of the chat shown
  aba,         \* the tab open; the store takes the place of the input box
  copia,       \* updatedFoldersFromChipsActions
  pedido,      \* a request and the list it will write
  busca,       \* the list is being read again
  desacordo,   \* files whose chip or tick was changed without the other
  passosDaLista  \* taken

varsSelecao == <<lista, chips, ultima, aba, copia, pedido, busca, desacordo, passosDaLista>>

Diferenca(A, B) == (A \ B) \cup (B \ A)
Listados(l) == {f \in Documento : l.pasta[f] # Fora}
ArquivosDe(l, p) == {f \in Documento : l.pasta[f] = p}
NaAba == aba = "arquivos"
NaCaixa == aba # "loja"

\* isAllFilesSelected: a folder without files is not ticked.
Cheias(pasta, marcados) ==
  {p \in Pasta : LET fs == {f \in Documento : pasta[f] = p} IN fs # {} /\ fs \subseteq marcados}

Lista(pasta, marcados, cheias) == [pasta |-> pasta, marcados |-> marcados, cheias |-> cheias]

\* selectFiles: the ticks of the chips.
SelectFiles(l, c) ==
  LET marcados == c \cap Listados(l) IN Lista(l.pasta, marcados, Cheias(l.pasta, marcados))

\* The list and the chips a behaviour starts with: read from the server, without any.
InitSelecao ==
  /\ \E pasta \in [Documento -> Pasta \cup {Fora}] : lista = Lista(pasta, {}, {})
  /\ chips = {} /\ ultima = {} /\ aba = "outra" /\ copia = Nenhuma
  /\ pedido = Nenhuma /\ busca = FALSE /\ desacordo = {} /\ passosDaLista = 0

-----------------------------------------------------------------------------
(* Chips and ticks.                                                        *)

\* setFilesSelected, and the effect of the tab on the list l.
SetFilesSelected(c, l) ==
  /\ chips' = c
  /\ IF NaAba THEN lista' = SelectFiles(l, c) /\ desacordo' = {}
     ELSE lista' = l /\ desacordo' = desacordo \cup Diferenca(chips, c)

\* setUploadedFiles alone: the chips are not told.
SetUploadedFiles(l) ==
  /\ lista' = l /\ UNCHANGED chips
  /\ desacordo' = desacordo \cup Diferenca(lista.marcados, l.marcados)
                            \cup (Listados(l) \ Listados(lista))

\* handleSelectFile, of a file that is ready.
HandleSelectFile(f) ==
  /\ NaAba /\ f \in Listados(lista)
  /\ SetFilesSelected(Diferenca(lista.marcados, {f}), lista)
  /\ UNCHANGED <<ultima, aba, copia, pedido, busca>>

\* handleFolderSelected.  The list keeps, of the folder, the files the search text shows.
HandleFolderSelected(p, vistos) ==
  LET fs == ArquivosDe(lista, p)
      c == IF p \in lista.cheias THEN lista.marcados \ fs ELSE lista.marcados \cup fs
  IN /\ NaAba /\ vistos # {} /\ vistos \subseteq fs
     /\ SetFilesSelected(c, [lista EXCEPT !.pasta =
          [f \in Documento |-> IF f \in fs \ vistos THEN Fora ELSE @[f]]])
     /\ UNCHANGED <<ultima, aba, copia, pedido, busca>>

\* Faulty: the tick of the file stays.
SemDesmarcar(f) == [lista EXCEPT !.cheias = @ \ {lista.pasta[f]}]

\* handleUnselectFile of one chip of many: the list is changed in place.
Desmarcado(f) ==
  [lista EXCEPT !.marcados = @ \ {f}, !.cheias = @ \ {lista.pasta[f]}]

HandleUnselectFile(f) ==
  /\ NaCaixa /\ f \in chips /\ Cardinality(chips) > 1
  /\ chips' = chips \ {f}
  /\ IF NaAba THEN lista' = SelectFiles(Desmarcado(f), chips \ {f}) /\ desacordo' = {}
     ELSE lista' = Desmarcado(f) /\ UNCHANGED desacordo
  /\ UNCHANGED <<ultima, aba, copia, pedido, busca>>

\* clearChipSelection, when the only chip leaves: the tab takes a copy of the list
\* without ticks, now or when it opens; the ticks of folders stay.
ClearChipSelection ==
  LET limpa == [lista EXCEPT !.marcados = {}]
  IN /\ NaCaixa /\ Cardinality(chips) = 1
     /\ chips' = {} /\ copia' = [lista |-> limpa, viva |-> FALSE]
     /\ IF NaAba THEN lista' = limpa /\ desacordo' = {}
        ELSE desacordo' = desacordo \cup chips /\ UNCHANGED lista
     /\ UNCHANGED <<ultima, aba, pedido, busca>>

ButtonClearAllFiles ==
  /\ NaCaixa /\ Cardinality(chips) > LimiteChips
  /\ SetFilesSelected({}, lista)
  /\ UNCHANGED <<ultima, aba, copia, pedido, busca>>

\* handleClickFileChip: the tab opens on the list, with the file ticked in place.  The
\* copy shares its objects.
HandleClickFileChip(f) ==
  /\ NaCaixa /\ f \in chips
  /\ aba' = "arquivos"
  /\ lista' = [lista EXCEPT !.marcados = @ \cup ({f} \cap Listados(lista))]
  /\ copia' = [lista |-> lista', viva |-> TRUE]
  /\ desacordo' = desacordo \ {f}
  /\ UNCHANGED <<chips, ultima, pedido, busca>>

-----------------------------------------------------------------------------
(* Tabs and chats.                                                         *)

\* The list a tab that opens shows: the copy, if there is one.  What was changed in
\* place since may be seen in a copy that shares the objects.
Restauradas ==
  IF copia = Nenhuma THEN {lista}
  ELSE {Lista([f \in Documento |-> IF f \in S THEN copia.lista.pasta[f] ELSE lista.pasta[f]],
              (copia.lista.marcados \cap S) \cup (lista.marcados \ S),
              copia.lista.cheias)
        : S \in IF copia.viva THEN SUBSET Documento ELSE {Documento}}

\* The input box that comes back has no list yet, so the chips of the last message are
\* not found.
AbreAba(a) ==
  /\ a # aba /\ aba' = a
  /\ \E l \in IF a = "arquivos" THEN Restauradas ELSE {lista} :
       IF NaCaixa
       THEN /\ lista' = l /\ UNCHANGED chips
            /\ desacordo' = IF a = "arquivos" /\ copia # Nenhuma THEN Documento ELSE desacordo
       ELSE /\ chips' = {}
            /\ IF a = "arquivos" THEN lista' = SelectFiles(l, {}) /\ desacordo' = {}
               ELSE lista' = l /\ desacordo' = desacordo \cup chips
  /\ UNCHANGED <<ultima, copia, pedido, busca>>

\* The effect of InputBox: the files of the last message that are listed.  A chat
\* appears, or the one shown does again at the end of an answer.
MostraChat(s) ==
  /\ ultima' = s
  /\ IF NaCaixa THEN SetFilesSelected(s \cap Listados(lista), lista)
     ELSE UNCHANGED <<chips, lista, desacordo>>
  /\ UNCHANGED <<aba, copia, pedido, busca>>

\* The message has the chips that are ready.
EnviaMensagem(s) == NaCaixa /\ s \subseteq chips /\ MostraChat(s)

\* openChatUrl(null): no chips, and the list is read again.
ChatNovo ==
  /\ ultima' = {} /\ busca' = TRUE
  /\ SetFilesSelected({}, lista)
  /\ UNCHANGED <<aba, copia, pedido>>

\* The list of the server, with no tick.
ListFolders(pasta) ==
  /\ busca /\ busca' = FALSE
  /\ lista' = Lista(pasta, {}, {})
  /\ desacordo' = desacordo \cup chips
  /\ UNCHANGED <<chips, ultima, aba, copia, pedido>>

-----------------------------------------------------------------------------
(* Requests.                                                               *)

\* l: the list it will write, if escreve; agora: the list while it runs; avisa: whether
\* the chips become the ticks of l (updateChips).
Requisita(l, agora, avisa, escreve) ==
  /\ NaAba /\ pedido = Nenhuma
  /\ pedido' = [lista |-> l, avisa |-> avisa, escreve |-> escreve]
  /\ SetUploadedFiles(agora)
  /\ UNCHANGED <<ultima, aba, copia, busca>>

SemArquivos(fs, cheias) ==
  Lista([f \in Documento |-> IF f \in fs THEN Fora ELSE lista.pasta[f]],
        lista.marcados \ fs, cheias)

\* handleDeleteFile: the file leaves at once; the folder's tick only with its last file.
HandleDeleteFile(f) ==
  LET p == lista.pasta[f]
      l == SemArquivos({f}, IF ArquivosDe(lista, p) = {f} THEN lista.cheias \ {p} ELSE lista.cheias)
  IN f \in Listados(lista) /\ Requisita(l, l, TRUE, FALSE)

\* handleDeleteFiles: those ticked in a folder.
HandleDeleteFiles(p) ==
  LET fs == ArquivosDe(lista, p) \cap lista.marcados
      l == SemArquivos(fs, lista.cheias \ {p})
  IN fs # {} /\ Requisita(l, l, TRUE, TRUE)

\* handleDeleteFolder: the chips are not told.
HandleDeleteFolder(p) ==
  Requisita(SemArquivos(ArquivosDe(lista, p), lista.cheias \ {p}), lista, FALSE, TRUE)

\* handleMovedFile and handleMovedFileBulk: what moved, and all of the old folder if
\* many did, loses its tick; the chips are not told.
HandleMovedFile(f, q) ==
  LET p == lista.pasta[f]
  IN /\ p \notin {Fora, q}
     /\ Requisita(Lista([lista.pasta EXCEPT ![f] = q], lista.marcados \ {f}, lista.cheias \ {p}),
             lista, FALSE, TRUE)

HandleMovedFileBulk(p, q) ==
  LET fs == ArquivosDe(lista, p) \cap lista.marcados
  IN /\ p # q /\ fs # {}
     /\ Requisita(Lista([f \in Documento |-> IF f \in fs THEN q ELSE lista.pasta[f]],
                   lista.marcados \ ArquivosDe(lista, p), lista.cheias \ {p}),
             lista, FALSE, TRUE)

\* handleCopiedFile: the folder copied from loses its ticks, the copy g has none.
HandleCopiedFile(p, g, q) ==
  /\ ArquivosDe(lista, p) # {} /\ lista.pasta[g] = Fora
  /\ Requisita(Lista([lista.pasta EXCEPT ![g] = q], lista.marcados \ ArquivosDe(lista, p),
                     lista.cheias \ {p, q}),
               lista, TRUE, TRUE)

\* handleUploadSuccess: the new file is ticked, and so is its folder.
HandleSingleUpload(g, q) ==
  /\ lista.pasta[g] = Fora
  /\ Requisita(Lista([lista.pasta EXCEPT ![g] = q], lista.marcados \cup {g},
                     lista.cheias \cup {q}),
               lista, TRUE, TRUE)

\* Whatever the tab shows by then.
RespondeLista ==
  /\ pedido # Nenhuma /\ pedido' = Nenhuma
  /\ IF ~pedido.avisa THEN SetUploadedFiles(pedido.lista)
     ELSE IF pedido.escreve
     THEN /\ chips' = pedido.lista.marcados /\ desacordo' = {}
          /\ lista' = IF NaAba THEN SelectFiles(pedido.lista, pedido.lista.marcados)
                      ELSE pedido.lista
     ELSE SetFilesSelected(pedido.lista.marcados, lista)
  /\ UNCHANGED <<ultima, aba, copia, busca>>

RequisicaoFalha ==
  /\ pedido # Nenhuma /\ pedido' = Nenhuma
  /\ UNCHANGED <<lista, chips, ultima, aba, copia, busca, desacordo>>

PassoDaLista ==
  \/ \E f \in Documento : HandleSelectFile(f) \/ HandleUnselectFile(f) \/ HandleClickFileChip(f)
                        \/ HandleDeleteFile(f)
  \/ \E p \in Pasta : \E vistos \in SUBSET ArquivosDe(lista, p) : HandleFolderSelected(p, vistos)
  \/ \E p \in Pasta : HandleDeleteFiles(p) \/ HandleDeleteFolder(p)
  \/ \E p, q \in Pasta : HandleMovedFileBulk(p, q)
  \/ \E f \in Documento, p, q \in Pasta : HandleCopiedFile(p, f, q)
  \/ \E f \in Documento, q \in Pasta : HandleMovedFile(f, q) \/ HandleSingleUpload(f, q)
  \/ \E a \in {"arquivos", "outra", "loja"} : AbreAba(a)
  \/ \E s \in SUBSET Documento : MostraChat(s) \/ EnviaMensagem(s)
  \/ \E pasta \in [Documento -> Pasta \cup {Fora}] : ListFolders(pasta)
  \/ ClearChipSelection \/ ButtonClearAllFiles \/ ChatNovo \/ RespondeLista \/ RequisicaoFalha

NextSelecao == passosDaLista < MaxPassoLista /\ passosDaLista' = passosDaLista + 1 /\ PassoDaLista

SpecSelecao == InitSelecao /\ [][NextSelecao]_varsSelecao

-----------------------------------------------------------------------------
(* Properties.                                                             *)

\* A listed file is ticked exactly when it has a chip, and so goes with the message,
\* through selections, chats, requests and their late answers.  The exceptions are
\* changes that reach one side only: chips changed by a chat or a button while the tab
\* is closed, files moved or read again, and the old copy of the list a tab that opens
\* takes (FileUpload.tsx:192-211, InputFiles.tsx:74-135).
ChipsSaoMarcas ==
  \A f \in Listados(lista) \ desacordo : f \in chips <=> f \in lista.marcados
=============================================================================
