---------------------------- MODULE SidebarProofs -----------------------------
(* The sidebar.  The lists of the upload tab, for any files, names and     *)
(* batches (UploadQueue); the names shown, for any items, names and requests *)
(* (Rename); the pages of a list of chats, of any size (HistoryPages); the *)
(* tabs of the store, for any categories and specialists (GptStore).       *)
EXTENDS UploadQueue, Rename, HistoryPages, GptStore, SequenceTheorems, FiniteSetTheorems,
  TLAPS

-----------------------------------------------------------------------------
(* Uploads.                                                                *)

Envios == [fase : {"fora", "enviando", "enviado", "ok", "erro", "pronto", "falhou", "solto"},
           nome : Nome, mudou : BOOLEAN, lote : SUBSET Arquivo, erro : SUBSET Nome]
TypeOK ==
  /\ envio \in [Arquivo -> Envios]
  /\ filesInUpload \subseteq Arquivo /\ filesInPreparing \subseteq Arquivo

(* A file is in the list of its phase, unless a ghost names why not.       *)
Andamento ==
  /\ \A f \in Enviando : f \in filesInUpload
  /\ \A f \in NoServidor : f \in filesInPreparing \/ f \in escondidos
  /\ \A f \in filesInUpload : f \in Enviando \/ f \in omitidos
  /\ \A f \in filesInPreparing : f \in NoServidor \/ f \in omitidos

(* A refusal that was not omitted keeps the name it will report.           *)
Relatado ==
  /\ \A f \in Arquivo : envio[f].fase = "erro" /\ f \notin omitidos => envio[f].nome \in envio[f].erro
  /\ \A f \in Arquivo \ dispensados :
       /\ envio[f].fase = "pronto" => envio[f].nome \in filesInSuccess
       /\ envio[f].fase = "falhou" => envio[f].nome \in filesInError \/ f \in omitidos

IInv == TypeOK /\ Andamento /\ Relatado

(* One file moves on: what its action must say of it.                      *)
LEMMA MudaUm ==
  ASSUME TypeOK, NEW f \in Arquivo, NEW e \in Envios, envio' = [envio EXCEPT ![f] = e]
  PROVE  /\ envio'[f] = e /\ \A g \in Arquivo \ {f} : envio'[g] = envio[g]
         /\ envio' \in [Arquivo -> Envios]
BY DEF TypeOK

LEMMA GuardadoTipo == Guardado \in Envios /\ Guardado.fase = "fora"
<1>1. (CHOOSE n \in Nome : TRUE) \in Nome
  BY NomeAssumption
<1> QED
  BY <1>1 DEF Guardado, Envios

LEMMA OnDropPasso ==
  ASSUME IInv, NEW fs \in SUBSET Arquivo, NEW rs \in SUBSET Nome,
         NEW ns \in [Arquivo -> Nome], NEW ms \in SUBSET Arquivo, OnDrop(fs, rs, ns, ms)
  PROVE  IInv'
<1>1. ASSUME NEW f \in Arquivo
      PROVE  /\ f \in fs => envio'[f].fase = "enviando"
             /\ f \notin fs => envio'[f] = envio[f]
             /\ envio'[f] \in Envios
  <2>1. envio'[f] = IF f \in fs THEN [Guardado EXCEPT !.fase = "enviando", !.nome = ns[f],
                                                    !.mudou = f \in ms, !.lote = fs]
                    ELSE envio[f]
    BY DEF OnDrop
  <2>2. ns[f] \in Nome /\ envio[f] \in Envios
    BY DEF IInv, TypeOK
  <2>3. ASSUME NEW b \in BOOLEAN
        PROVE  LET e == [Guardado EXCEPT !.fase = "enviando", !.nome = ns[f], !.mudou = b,
                                         !.lote = fs]
               IN e \in Envios /\ e.fase = "enviando"
    BY <2>2, GuardadoTipo DEF Envios
  <2>4. (f \in ms) \in BOOLEAN
    OBVIOUS
  <2> QED
    BY <2>1, <2>2, <2>3, <2>4
<1>2. /\ \A f \in fs : envio[f].fase = "fora"
      /\ filesInUpload' = filesInUpload \cup fs /\ filesInError' = filesInError \cup rs
      /\ UNCHANGED <<filesInPreparing, filesInSuccess, omitidos, escondidos, dispensados>>
  BY DEF OnDrop, vOmissao
<1>3. TypeOK'
  <2>2. envio' \in [Arquivo -> Envios]
    BY <1>1 DEF OnDrop
  <2> QED
    BY <1>2, <2>2 DEF IInv, TypeOK
<1>4. Andamento'
  BY <1>1, <1>2 DEF IInv, Andamento, Enviando, NoServidor
<1>5. Relatado'
  BY <1>1, <1>2 DEF IInv, Relatado
<1> QED
  BY <1>3, <1>4, <1>5 DEF IInv

LEMMA CompletaPasso ==
  ASSUME IInv, NEW f \in Arquivo, Completa(f)
  PROVE  IInv'
<1>0. envio[f] \in Envios /\ envio[f].fase = "enviando"
  BY DEF IInv, TypeOK, Completa, Enviando
<1>1. envio' = [envio EXCEPT ![f] = [envio[f] EXCEPT !.fase = "enviado"]]
      /\ [envio[f] EXCEPT !.fase = "enviado"] \in Envios
  BY <1>0 DEF Completa, Envios
<1>2. /\ envio'[f].fase = "enviado" /\ \A g \in Arquivo \ {f} : envio'[g] = envio[g]
      /\ envio' \in [Arquivo -> Envios]
  BY <1>0, <1>1, MudaUm DEF IInv, Envios
<1>3. /\ f \in filesInUpload /\ filesInUpload' = filesInUpload \ {f}
      /\ filesInPreparing' = filesInPreparing \cup {f}
      /\ UNCHANGED <<filesInError, filesInSuccess, omitidos, escondidos, dispensados>>
  BY DEF IInv, Andamento, Completa, vOmissao
<1>4. TypeOK'
  BY <1>2, <1>3 DEF IInv, TypeOK
<1>5. Andamento'
  BY <1>0, <1>2, <1>3 DEF IInv, Andamento, Enviando, NoServidor
<1>6. Relatado'
  BY <1>2, <1>3 DEF IInv, Relatado
<1> QED
  BY <1>4, <1>5, <1>6 DEF IInv

LEMMA AceitaPasso ==
  ASSUME IInv, NEW f \in Arquivo, Aceita(f)
  PROVE  IInv'
<1> DEFINE saem == ComNome(filesInPreparing, envio[f].nome)
<1>0. envio[f] \in Envios /\ envio[f].fase = "enviado"
  BY DEF IInv, TypeOK, Aceita, NoServidor
<1>1. envio' = [envio EXCEPT ![f] = [envio[f] EXCEPT !.fase = "ok"]]
      /\ [envio[f] EXCEPT !.fase = "ok"] \in Envios
  BY <1>0 DEF Aceita, Envios
<1>2. /\ envio'[f].fase = "ok" /\ \A g \in Arquivo \ {f} : envio'[g] = envio[g]
      /\ envio' \in [Arquivo -> Envios]
  BY <1>0, <1>1, MudaUm DEF IInv, Envios
<1>3. /\ f \in filesInPreparing => f \in saem
      /\ filesInPreparing' = filesInPreparing \ saem /\ escondidos' = escondidos \cup (saem \ {f})
      /\ UNCHANGED <<filesInUpload, filesInError, filesInSuccess, omitidos, dispensados>>
  BY DEF Aceita, ComNome
<1> HIDE DEF saem
<1>4. TypeOK'
  BY <1>2, <1>3 DEF IInv, TypeOK
<1>5. Andamento'
  BY <1>0, <1>2, <1>3 DEF IInv, Andamento, Enviando, NoServidor
<1>6. Relatado'
  BY <1>2, <1>3 DEF IInv, Relatado
<1> QED
  BY <1>4, <1>5, <1>6 DEF IInv

(* A refusal, after the last byte or before it.                            *)
LEMMA RecusaPasso ==
  ASSUME IInv, NEW f \in Arquivo, Recusa(f) \/ InterrompeEnvio(f)
  PROVE  IInv'
<1> DEFINE achados == Procurados(f)
<1>0. /\ envio[f] \in Envios /\ envio[f].fase \in {"enviando", "enviado"}
      /\ achados \subseteq filesInPreparing
      /\ (f \in filesInPreparing /\ ~envio[f].mudou) => f \in achados
  BY DEF IInv, TypeOK, Recusa, InterrompeEnvio, Enviando, NoServidor, Procurados, ComNome
<1>1. PICK eager \in BOOLEAN :
        /\ envio' = [envio EXCEPT ![f].fase = "erro",
                       ![f].erro = IF eager /\ achados # {} THEN {envio[f].nome} ELSE {}]
        /\ envio[f].fase = "enviado" =>
             omitidos' = omitidos \cup
               (IF ~eager \/ envio[f].mudou \/ f \in escondidos THEN {f} ELSE {})
        /\ envio[f].fase = "enviando" => omitidos' = omitidos \cup {f}
  BY <1>0 DEF IInv, Andamento, Recusa, InterrompeEnvio, Enviando, NoServidor
<1> DEFINE erro == IF eager /\ achados # {} THEN {envio[f].nome} ELSE {}
<1>2. /\ filesInPreparing' = filesInPreparing \ achados
      /\ escondidos' = escondidos \cup (achados \ {f}) \/ escondidos' = escondidos \cup achados
      /\ UNCHANGED <<filesInUpload, filesInError, filesInSuccess, dispensados>>
  BY DEF Recusa, InterrompeEnvio
<1>3. /\ envio' = [envio EXCEPT ![f] = [envio[f] EXCEPT !.fase = "erro", !.erro = erro]]
      /\ [envio[f] EXCEPT !.fase = "erro", !.erro = erro] \in Envios
  BY <1>0, <1>1 DEF Envios, IInv, TypeOK
<1>4. /\ envio'[f].fase = "erro" /\ envio'[f].erro = erro /\ envio'[f].nome = envio[f].nome
      /\ \A g \in Arquivo \ {f} : envio'[g] = envio[g]
      /\ envio' \in [Arquivo -> Envios]
  BY <1>0, <1>3, MudaUm DEF IInv, Envios
<1>5. f \in omitidos' \/ (eager /\ ~envio[f].mudou /\ f \in achados)
  BY <1>0, <1>1 DEF IInv, Andamento, NoServidor
<1> HIDE DEF achados
<1>6. TypeOK'
  BY <1>2, <1>4 DEF IInv, TypeOK
<1>7. omitidos \subseteq omitidos'
  BY <1>0, <1>1
<1>8. Andamento'
  BY <1>0, <1>1, <1>2, <1>4, <1>5, <1>7 DEF IInv, Andamento, Enviando, NoServidor
<1>9. Relatado'
  BY <1>2, <1>4, <1>5, <1>7 DEF IInv, Relatado
<1> QED
  BY <1>6, <1>8, <1>9 DEF IInv

LEMMA EncerraPasso ==
  ASSUME IInv, NEW f \in Arquivo, Encerra(f)
  PROVE  IInv'
<1> DEFINE fs == envio[f].lote
<1>0. fs \subseteq Arquivo /\ \A g \in fs : envio[g].fase \in {"ok", "erro"}
  BY DEF IInv, TypeOK, Envios, Encerra, TodosRespondem
<1>1. /\ \A n \in {envio[g].nome : g \in {x \in fs : envio[x].fase = "ok"}} : n \in filesInSuccess'
      /\ \A g \in fs : envio[g].erro \subseteq filesInError'
      /\ filesInSuccess \subseteq filesInSuccess' /\ filesInError \subseteq filesInError'
      /\ UNCHANGED <<filesInUpload, filesInPreparing, omitidos, escondidos, dispensados>>
  BY DEF Encerra, vOmissao
<1>2. \A g \in Arquivo :
        envio'[g] = IF g \in fs
                    THEN [envio[g] EXCEPT !.lote = {},
                            !.fase = IF envio[g].fase = "ok" THEN "pronto" ELSE "falhou"]
                    ELSE envio[g]
  BY DEF Encerra, IInv, TypeOK, Envios
<1>3. \A g \in Arquivo :
        /\ envio'[g] \in Envios /\ envio'[g].nome = envio[g].nome
        /\ g \in fs => envio'[g].fase = IF envio[g].fase = "ok" THEN "pronto" ELSE "falhou"
        /\ g \notin fs => envio'[g] = envio[g]
  BY <1>2 DEF IInv, TypeOK, Envios
<1> HIDE DEF fs
<1>4. TypeOK'
  <2>1. envio' \in [Arquivo -> Envios]
    BY <1>3 DEF Encerra
  <2> QED
    BY <1>1, <2>1 DEF IInv, TypeOK
<1>5. Andamento'
  BY <1>0, <1>1, <1>3 DEF IInv, Andamento, Enviando, NoServidor
<1>6. Relatado'
  BY <1>0, <1>1, <1>3 DEF IInv, Relatado
<1> QED
  BY <1>4, <1>5, <1>6 DEF IInv

LEMMA DispensaPasso ==
  ASSUME IInv, NEW n \in Nome, Dispensa(n)
  PROVE  IInv'
<1>1. /\ filesInSuccess \ {n} \subseteq filesInSuccess' /\ filesInError \ {n} \subseteq filesInError'
      /\ \A f \in Arquivo : envio[f].fase \in {"pronto", "falhou"} /\ envio[f].nome = n =>
                              f \in dispensados'
      /\ dispensados \subseteq dispensados'
      /\ UNCHANGED <<envio, filesInUpload, filesInPreparing, omitidos, escondidos>>
  BY DEF Dispensa, ComNome
<1>2. TypeOK' /\ Andamento'
  BY <1>1 DEF IInv, TypeOK, Andamento, Enviando, NoServidor
<1>3. Relatado'
  BY <1>1 DEF IInv, Relatado
<1> QED
  BY <1>2, <1>3 DEF IInv

LEMMA DesmontaPasso ==
  ASSUME IInv, Desmonta
  PROVE  IInv'
<1>1. \A f \in Arquivo :
        envio'[f] = IF envio[f].fase = "fora" THEN Guardado
                    ELSE [envio[f] EXCEPT !.fase = "solto", !.lote = {}]
  BY DEF Desmonta
<1>2. \A f \in Arquivo : envio'[f] \in Envios /\ envio'[f].fase \in {"fora", "solto"}
  <2>1. ASSUME NEW f \in Arquivo
        PROVE  envio'[f] \in Envios /\ envio'[f].fase \in {"fora", "solto"}
    <3>1. envio[f] \in Envios
      BY DEF IInv, TypeOK
    <3> QED
      BY <1>1, <3>1, GuardadoTipo DEF Envios
  <2> QED
    BY <2>1
<1>3. envio' \in [Arquivo -> Envios] /\ filesInUpload' = {} /\ filesInPreparing' = {}
  BY <1>2 DEF Desmonta
<1> QED
  BY <1>2, <1>3 DEF IInv, TypeOK, Andamento, Relatado, Enviando, NoServidor

LEMMA Sempre == SpecEnvio => []IInv
<1>1. InitEnvio => IInv
  BY NomeAssumption DEF InitEnvio, IInv, TypeOK, Andamento, Relatado, Enviando, NoServidor, Guardado, Envios
<1>2. IInv /\ [NextEnvio]_varsEnvio => IInv'
  <2>1. IInv /\ UNCHANGED varsEnvio => IInv'
    BY DEF IInv, TypeOK, Andamento, Relatado, Enviando, NoServidor, varsEnvio, vListas, vOmissao
  <2> QED
    BY <2>1, OnDropPasso, CompletaPasso, AceitaPasso, RecusaPasso, EncerraPasso, DispensaPasso,
       DesmontaPasso DEF NextEnvio
<1> QED
  BY <1>1, <1>2, PTL DEF SpecEnvio

(* What the four lists say of every upload is so, but for the omissions    *)
(* its definition names.                                                   *)
THEOREM ListsTellTheUploads == SpecEnvio => []EnviosMostrados
<1>1. IInv => EnviosMostrados
  BY DEF IInv, Andamento, Relatado, EnviosMostrados, EnviosEmCurso, TypeOK, Enviando, NoServidor
<1> QED
  BY <1>1, Sempre, PTL

-----------------------------------------------------------------------------
(* Names.                                                                  *)

NomeTypeOK ==
  /\ gravado \in [Item -> NomeEscrito]
  /\ objetos \in [Item -> Seq(NomeEscrito)]
  /\ atual \in [Item -> Nat]
  /\ dialogo \in DialogoAberto \cup {Inexistente}
  /\ mudou \in [Item -> BOOLEAN]
  /\ pedidos \in [Renomeacao -> PedidoFeito \cup {Inexistente}]
  /\ trocados \subseteq Item
  /\ dialogosDeNome \in Nat

\* The object shown, and those of the requests, are among the objects; a chat has one.
Apontam ==
  /\ \A i \in Item : atual[i] \in 1..Len(objetos[i])
  /\ \A i \in Item \cap Conversas : Len(objetos[i]) = 1
  /\ \A p \in Renomeacao : pedidos[p] # Inexistente =>
       /\ pedidos[p].objeto = pedidos[p].lista[pedidos[p].item]
       /\ \A i \in Item : pedidos[p].lista[i] \in 1..Len(objetos[i])

\* A request that ran alone is the only one of its item.
Sozinhos ==
  \A p, q \in Renomeacao :
    p # q /\ pedidos[p] # Inexistente /\ pedidos[q] # Inexistente /\ pedidos[q].sozinho =>
      pedidos[q].item # pedidos[p].item

\* Its object has the name it stores.
NomeDoObjeto ==
  \A p \in Renomeacao : pedidos[p] # Inexistente /\ pedidos[p].sozinho =>
    LET n == objetos[pedidos[p].item][pedidos[p].objeto]
    IN /\ pedidos[p].fase = "grava" => pedidos[p].nome = n
       /\ pedidos[p].fase = "gravado" => gravado[pedidos[p].item] = n

\* Until it is stored a refusal brings back the name stored, on the object shown.
Desfazivel ==
  \A p \in Renomeacao :
    pedidos[p] # Inexistente /\ pedidos[p].sozinho /\ ~pedidos[p].duvida
      /\ pedidos[p].item \in Biblioteca =>
    /\ pedidos[p].fase # "gravado" => pedidos[p].inicial = gravado[pedidos[p].item]
    /\ pedidos[p].objeto = atual[pedidos[p].item]

\* The dialog of an item no request of which is under way began with the name shown.
DialogoEmDia ==
  dialogo # Inexistente /\ dialogo.item \in Biblioteca /\ EmVoo(dialogo.item) = {} =>
    dialogo.inicial = Mostrado(dialogo.item)

NomeInv ==
  NomeTypeOK /\ Apontam /\ Sozinhos /\ NomeDoObjeto /\ Desfazivel /\ DialogoEmDia /\ NomeDaTela

(* A record of the request, with one field changed.                        *)
LEMMA PedidoMudado ==
  ASSUME NEW r \in PedidoFeito
  PROVE  /\ r # Inexistente
         /\ \A x \in {"token", "grava", "gravado", "recusado", "engolido"} :
              /\ [r EXCEPT !.fase = x] \in PedidoFeito /\ [r EXCEPT !.fase = x].fase = x
              /\ [r EXCEPT !.fase = x].item = r.item /\ [r EXCEPT !.fase = x].objeto = r.objeto
              /\ [r EXCEPT !.fase = x].lista = r.lista
              /\ [r EXCEPT !.fase = x].inicial = r.inicial /\ [r EXCEPT !.fase = x].nome = r.nome
              /\ [r EXCEPT !.fase = x].duvida = r.duvida
              /\ [r EXCEPT !.fase = x].sozinho = r.sozinho
         /\ \A b \in BOOLEAN :
              /\ [r EXCEPT !.duvida = b] \in PedidoFeito /\ [r EXCEPT !.duvida = b].duvida = b
              /\ [r EXCEPT !.duvida = b].item = r.item /\ [r EXCEPT !.duvida = b].objeto = r.objeto
              /\ [r EXCEPT !.duvida = b].lista = r.lista
              /\ [r EXCEPT !.duvida = b].inicial = r.inicial /\ [r EXCEPT !.duvida = b].nome = r.nome
              /\ [r EXCEPT !.duvida = b].fase = r.fase
              /\ [r EXCEPT !.duvida = b].sozinho = r.sozinho
BY NomesAssumption DEF PedidoFeito

LEMMA MostradoTipo ==
  ASSUME NomeInv, NEW i \in Item
  PROVE  /\ objetos[i] \in Seq(NomeEscrito) /\ atual[i] \in 1..Len(objetos[i])
         /\ Mostrado(i) \in NomeEscrito
BY DEF NomeInv, NomeTypeOK, Apontam, Mostrado

LEMMA PedidoTipo ==
  ASSUME NomeInv, NEW p \in Renomeacao, pedidos[p] # Inexistente
  PROVE  /\ pedidos[p] \in PedidoFeito
         /\ pedidos[p].item \in Item /\ pedidos[p].objeto \in 1..Len(objetos[pedidos[p].item])
         /\ pedidos[p].lista \in [Item -> Nat]
         /\ pedidos[p].inicial \in NomeEscrito /\ pedidos[p].nome \in NomeEscrito
         /\ pedidos[p].sozinho \in BOOLEAN /\ pedidos[p].duvida \in BOOLEAN
         /\ p \in EmVoo(pedidos[p].item)
<1>1. pedidos[p] \in PedidoFeito
  BY DEF NomeInv, NomeTypeOK
<1> QED
  BY <1>1 DEF PedidoFeito, NomeInv, Apontam, EmVoo

(* A name written on one object of an item: os are the objects then.       *)
EscritoEm(os, i, k, n) ==
  /\ os \in [Item -> Seq(NomeEscrito)]
  /\ \A j \in Item : Len(os[j]) = Len(objetos[j])
  /\ \A j \in Item \ {i} : os[j] = objetos[j]
  /\ os[i][k] = n

LEMMA EscreveObjeto ==
  ASSUME NomeInv, NEW i \in Item, NEW k \in 1..Len(objetos[i]), NEW n \in NomeEscrito
  PROVE  EscritoEm([objetos EXCEPT ![i][k] = n], i, k, n)
<1> DEFINE os == [objetos EXCEPT ![i][k] = n]
<1>1. objetos \in [Item -> Seq(NomeEscrito)]
  BY DEF NomeInv, NomeTypeOK
<1>2. /\ [objetos[i] EXCEPT ![k] = n] \in Seq(NomeEscrito)
      /\ Len([objetos[i] EXCEPT ![k] = n]) = Len(objetos[i])
      /\ [objetos[i] EXCEPT ![k] = n][k] = n
  BY <1>1
<1>3. os[i] = [objetos[i] EXCEPT ![k] = n] /\ \A j \in Item \ {i} : os[j] = objetos[j]
  BY <1>1
<1>4. os \in [Item -> Seq(NomeEscrito)]
  BY <1>1, <1>2
<1> QED
  BY <1>1, <1>2, <1>3, <1>4 DEF EscritoEm

(* Requests under way, when one starts, goes on or ends.                   *)
LEMMA EmVooIgual ==
  ASSUME \A q \in Renomeacao : /\ pedidos'[q] = Inexistente <=> pedidos[q] = Inexistente
                               /\ pedidos[q] # Inexistente => pedidos'[q].item = pedidos[q].item
  PROVE  \A i \in Item : EmVoo(i)' = EmVoo(i)
BY DEF EmVoo

LEMMA EmVooSem ==
  ASSUME NEW p \in Renomeacao, pedidos'[p] = Inexistente, pedidos[p] # Inexistente,
         \A q \in Renomeacao \ {p} :
           /\ pedidos'[q] = Inexistente <=> pedidos[q] = Inexistente
           /\ pedidos[q] # Inexistente => pedidos'[q].item = pedidos[q].item
  PROVE  /\ \A i \in Item : EmVoo(i)' = EmVoo(i) \ {p}
         /\ \A i \in Item \ {pedidos[p].item} : EmVoo(i)' = EmVoo(i)
BY DEF EmVoo

LEMMA OutroItem ==
  ASSUME NomeInv, NEW p \in Renomeacao, NEW q \in Renomeacao \ {p},
         pedidos[p] # Inexistente, pedidos[q] # Inexistente, pedidos[q].sozinho
  PROVE  pedidos[q].item # pedidos[p].item
BY DEF NomeInv, Sozinhos

(* Steps of the dialog.                                                    *)
LEMMA SoDialogo ==
  ASSUME NomeInv, UNCHANGED <<gravado, objetos, atual, pedidos, trocados>>
  PROVE  Apontam' /\ Sozinhos' /\ NomeDoObjeto' /\ Desfazivel' /\ NomeDaTela'
BY DEF NomeInv, Apontam, Sozinhos, NomeDoObjeto, Desfazivel, NomeDaTela, EmVoo, Mostrado

LEMMA AbreDialogoPasso ==
  ASSUME NomeInv, NEW i \in Item, AbreDialogo(i)
  PROVE  NomeInv'
<1>1. /\ dialogo' = DialogoDe(i, Mostrado(i)) /\ dialogosDeNome' = dialogosDeNome + 1
      /\ UNCHANGED <<gravado, objetos, atual, mudou, pedidos, trocados>>
  BY DEF AbreDialogo
<1>2. Mostrado(i) \in NomeEscrito
  BY MostradoTipo
<1>3. dialogo' \in DialogoAberto /\ dialogo'.item = i /\ dialogo'.inicial = Mostrado(i)
  BY <1>1, <1>2 DEF DialogoDe, DialogoAberto
<1>4. NomeTypeOK'
  BY <1>1, <1>3 DEF NomeInv, NomeTypeOK
<1>5. DialogoEmDia'
  BY <1>1, <1>3 DEF DialogoEmDia, Mostrado
<1> QED
  BY <1>1, <1>4, <1>5, SoDialogo DEF NomeInv

LEMMA FechaDialogoPasso ==
  ASSUME NomeInv, FechaDialogo, UNCHANGED dialogosDeNome
  PROVE  NomeInv'
<1>1. dialogo' = Inexistente /\ UNCHANGED <<gravado, objetos, atual, mudou, pedidos, trocados>>
  BY DEF FechaDialogo
<1>2. NomeTypeOK' /\ DialogoEmDia'
  BY <1>1 DEF NomeInv, NomeTypeOK, DialogoEmDia
<1> QED
  BY <1>1, <1>2, SoDialogo DEF NomeInv

LEMMA DigitaPasso ==
  ASSUME NomeInv, NEW i \in Item, NEW t \in Titulo \cup {Recusado}, Digita(i, t),
         UNCHANGED dialogosDeNome
  PROVE  NomeInv'
<1>1. /\ dialogo # Inexistente /\ dialogo' = [dialogo EXCEPT !.editado = t]
      /\ mudou' = [mudou EXCEPT ![i] = (t # Mostrado(i))]
      /\ UNCHANGED <<gravado, objetos, atual, pedidos, trocados>>
  BY DEF Digita, Aberto
<1>2. dialogo \in DialogoAberto /\ t \in NomeEscrito
  BY <1>1 DEF NomeInv, NomeTypeOK, NomeEscrito
<1>3. /\ dialogo' \in DialogoAberto /\ dialogo'.item = dialogo.item
      /\ dialogo'.inicial = dialogo.inicial
  BY <1>1, <1>2 DEF DialogoAberto
<1>4. NomeTypeOK'
  <2>1. mudou' \in [Item -> BOOLEAN]
    BY <1>1 DEF NomeInv, NomeTypeOK
  <2> QED
    BY <1>1, <1>3, <2>1 DEF NomeInv, NomeTypeOK
<1>5. DialogoEmDia'
  BY <1>1, <1>3 DEF DialogoEmDia, Mostrado, EmVoo, NomeInv
<1> QED
  BY <1>1, <1>4, <1>5, SoDialogo DEF NomeInv

(* The button.                                                             *)
LEMMA NovoPedidoTipo ==
  ASSUME NomeInv, NEW i \in Item, Aberto(i)
  PROVE  LET r == NovoPedido(i)
         IN /\ r \in PedidoFeito /\ r # Inexistente /\ r.item = i
            /\ r.fase = (IF i \in Conversas THEN "grava" ELSE "token")
            /\ r.objeto = atual[i] /\ r.lista = atual /\ r.inicial = dialogo.inicial
            /\ r.nome = dialogo.editado /\ r.duvida = (i \in trocados)
            /\ r.sozinho = (EmVoo(i) = {})
<1>1. dialogo \in DialogoAberto /\ atual \in [Item -> Nat]
  BY DEF Aberto, NomeInv, NomeTypeOK
<1>2. (i \in trocados) \in BOOLEAN /\ (EmVoo(i) = {}) \in BOOLEAN
  OBVIOUS
<1>3. NovoPedido(i) \in PedidoFeito
  BY <1>1, <1>2 DEF NovoPedido, PedidoFeito, DialogoAberto
<1>4. NovoPedido(i) # Inexistente
  BY <1>3, PedidoMudado
<1> QED
  BY <1>3, <1>4 DEF NovoPedido

LEMMA ConfirmaPasso ==
  ASSUME NomeInv, NEW i \in Item, NEW p \in Renomeacao, Confirma(i, p), UNCHANGED dialogosDeNome,
         dialogo' = dialogo \/ dialogo' = Inexistente
  PROVE  NomeInv'
<1> DEFINE r == NovoPedido(i)
           n == dialogo.editado
<1>1. /\ Aberto(i) /\ pedidos[p] = Inexistente
      /\ objetos' = [objetos EXCEPT ![i][atual[i]] = n]
      /\ pedidos' = [q \in Renomeacao |->
           IF q = p THEN r
           ELSE IF q \in EmVoo(i) THEN [pedidos[q] EXCEPT !.sozinho = FALSE]
           ELSE pedidos[q]]
      /\ UNCHANGED <<gravado, atual, mudou, trocados>>
  BY DEF Confirma
<1>2. dialogo \in DialogoAberto /\ dialogo.item = i /\ n \in NomeEscrito
  BY <1>1 DEF Aberto, NomeInv, NomeTypeOK, DialogoAberto
<1>3. atual[i] \in 1..Len(objetos[i])
  BY MostradoTipo
<1> HIDE DEF n
<1>4. /\ objetos' \in [Item -> Seq(NomeEscrito)]
      /\ \A j \in Item : Len(objetos'[j]) = Len(objetos[j])
      /\ \A j \in Item \ {i} : objetos'[j] = objetos[j]
      /\ objetos'[i][atual[i]] = n
  <2>1. EscritoEm([objetos EXCEPT ![i][atual[i]] = n], i, atual[i], n)
    BY <1>2, <1>3, EscreveObjeto
  <2> QED
    BY <1>1, <2>1 DEF EscritoEm
<1>5. /\ r \in PedidoFeito /\ r # Inexistente /\ r.item = i
      /\ r.fase = (IF i \in Conversas THEN "grava" ELSE "token")
      /\ r.objeto = atual[i] /\ r.lista = atual /\ r.inicial = dialogo.inicial
      /\ r.nome = n /\ r.duvida = (i \in trocados) /\ r.sozinho = (EmVoo(i) = {})
  BY <1>1, NovoPedidoTipo DEF n
<1>6. pedidos'[p] = r
  BY <1>1
<1> HIDE DEF r
<1>7. ASSUME NEW q \in Renomeacao \ {p}
      PROVE  /\ pedidos'[q] = Inexistente <=> pedidos[q] = Inexistente
             /\ pedidos[q] # Inexistente =>
                  /\ pedidos'[q] \in PedidoFeito /\ pedidos'[q].item = pedidos[q].item
                  /\ pedidos'[q].objeto = pedidos[q].objeto /\ pedidos'[q].lista = pedidos[q].lista
                  /\ pedidos'[q].sozinho => pedidos[q].item # i /\ pedidos'[q] = pedidos[q]
  <2>1. CASE q \in EmVoo(i)
    <3>1. pedidos[q] \in PedidoFeito /\ pedidos[q] # Inexistente
      BY <2>1, PedidoTipo DEF EmVoo
    <3>2. pedidos'[q] = [pedidos[q] EXCEPT !.sozinho = FALSE]
      BY <1>1, <2>1
    <3>3. pedidos'[q] \in PedidoFeito
      BY <3>1, <3>2 DEF PedidoFeito
    <3>4. pedidos'[q] # Inexistente
      BY <3>3, PedidoMudado
    <3>5. /\ pedidos'[q].item = pedidos[q].item /\ pedidos'[q].objeto = pedidos[q].objeto
          /\ pedidos'[q].lista = pedidos[q].lista /\ pedidos'[q].sozinho = FALSE
      BY <3>1, <3>2 DEF PedidoFeito
    <3> QED
      BY <3>1, <3>3, <3>4, <3>5
  <2>2. CASE q \notin EmVoo(i)
    <3>1. pedidos'[q] = pedidos[q]
      BY <1>1, <2>2
    <3> QED
      BY <2>2, <3>1, PedidoTipo DEF EmVoo
  <2> QED
    BY <2>1, <2>2
<1>8. NomeTypeOK'
  <2>1. pedidos' \in [Renomeacao -> PedidoFeito \cup {Inexistente}]
    BY <1>1, <1>5, <1>6, <1>7 DEF NomeInv, NomeTypeOK
  <2> QED
    BY <1>1, <1>4, <2>1 DEF NomeInv, NomeTypeOK
<1>9. Apontam'
  <2>1. /\ \A j \in Item : atual'[j] \in 1..Len(objetos'[j])
        /\ \A j \in Item \cap Conversas : Len(objetos'[j]) = 1
    BY <1>1, <1>4 DEF NomeInv, Apontam
  <2>2. ASSUME NEW q \in Renomeacao, pedidos'[q] # Inexistente
        PROVE  /\ pedidos'[q].objeto = pedidos'[q].lista[pedidos'[q].item]
               /\ \A j \in Item : pedidos'[q].lista[j] \in 1..Len(objetos'[j])
    <3>1. CASE q = p
      BY <1>1, <1>5, <1>6, <2>1, <3>1
    <3>2. CASE q # p
      BY <1>4, <1>7, <2>2, <3>2 DEF NomeInv, Apontam
    <3> QED
      BY <3>1, <3>2
  <2> QED
    BY <2>1, <2>2 DEF Apontam
<1>10. EmVoo(i)' = EmVoo(i) \cup {p} /\ \A j \in Item \ {i} : EmVoo(j)' = EmVoo(j)
  BY <1>1, <1>5, <1>6, <1>7 DEF EmVoo
<1>11. Sozinhos'
  <2>1. ASSUME NEW x \in Renomeacao, NEW q \in Renomeacao, x # q, pedidos'[x] # Inexistente,
               pedidos'[q] # Inexistente, pedidos'[q].sozinho
        PROVE  pedidos'[q].item # pedidos'[x].item
    <3>1. CASE q = p
      BY <1>5, <1>6, <1>7, <2>1, <3>1 DEF EmVoo
    <3>2. CASE q # p /\ x = p
      BY <1>5, <1>6, <1>7, <2>1, <3>2
    <3>3. CASE q # p /\ x # p
      BY <1>7, <2>1, <3>3, OutroItem
    <3> QED
      BY <3>1, <3>2, <3>3
  <2> QED
    BY <2>1 DEF Sozinhos
<1>12. NomeDoObjeto'
  <2>1. ASSUME NEW q \in Renomeacao, pedidos'[q] # Inexistente, pedidos'[q].sozinho
        PROVE  LET m == objetos'[pedidos'[q].item][pedidos'[q].objeto]
               IN /\ pedidos'[q].fase = "grava" => pedidos'[q].nome = m
                  /\ pedidos'[q].fase = "gravado" => gravado'[pedidos'[q].item] = m
    <3>1. CASE q = p
      BY <1>4, <1>5, <1>6, <3>1
    <3>2. CASE q # p
      <4>1. pedidos[q].item \in Item \ {i} /\ pedidos'[q] = pedidos[q]
        BY <1>7, <2>1, <3>2, PedidoTipo
      <4> QED
        BY <1>1, <1>4, <2>1, <4>1 DEF NomeInv, NomeDoObjeto
    <3> QED
      BY <3>1, <3>2
  <2> QED
    BY <2>1 DEF NomeDoObjeto
<1>13. Desfazivel'
  <2>1. ASSUME NEW q \in Renomeacao, pedidos'[q] # Inexistente, pedidos'[q].sozinho,
               ~pedidos'[q].duvida, pedidos'[q].item \in Biblioteca
        PROVE  /\ pedidos'[q].fase # "gravado" => pedidos'[q].inicial = gravado'[pedidos'[q].item]
               /\ pedidos'[q].objeto = atual'[pedidos'[q].item]
    <3>1. CASE q = p
      <4>1. EmVoo(i) = {} /\ i \notin trocados /\ i \in Biblioteca
        BY <1>5, <1>6, <2>1, <3>1
      <4>2. dialogo.inicial = Mostrado(i)
        BY <1>1, <1>2, <4>1 DEF NomeInv, DialogoEmDia, Aberto
      <4>3. gravado[i] = Mostrado(i)
        BY <4>1 DEF NomeInv, NomeDaTela
      <4> QED
        BY <1>1, <1>5, <1>6, <3>1, <4>2, <4>3
    <3>2. CASE q # p
      <4>1. pedidos[q].item \in Item \ {i} /\ pedidos'[q] = pedidos[q]
        BY <1>7, <2>1, <3>2, PedidoTipo
      <4> QED
        BY <1>1, <2>1, <4>1 DEF NomeInv, Desfazivel
    <3> QED
      BY <3>1, <3>2
  <2> QED
    BY <2>1 DEF Desfazivel, Biblioteca
<1>14. DialogoEmDia'
  <2>1. dialogo' = Inexistente \/ dialogo'.item = i
    BY <1>2
  <2> QED
    BY <1>10, <2>1 DEF DialogoEmDia
<1>15. NomeDaTela'
  BY <1>1, <1>4, <1>10 DEF NomeInv, NomeDaTela, Mostrado
<1> QED
  BY <1>8, <1>9, <1>11, <1>12, <1>13, <1>14, <1>15 DEF NomeInv

(* A request goes from one phase to another; it may store its name.        *)
LEMMA FasePasso ==
  ASSUME NomeInv, NEW p \in Renomeacao, pedidos[p] # Inexistente, NEW r \in PedidoFeito,
         pedidos' = [pedidos EXCEPT ![p] = r],
         r.item = pedidos[p].item, r.objeto = pedidos[p].objeto, r.lista = pedidos[p].lista,
         r.inicial = pedidos[p].inicial, r.duvida = pedidos[p].duvida,
         r.sozinho = pedidos[p].sozinho, pedidos[p].fase # "gravado",
         gravado' \in [Item -> NomeEscrito],
         \A j \in Item \ {r.item} : gravado'[j] = gravado[j],
         r.fase # "gravado" => gravado'[r.item] = gravado[r.item],
         r.sozinho /\ r.fase = "grava" => r.nome = objetos[r.item][r.objeto],
         r.sozinho /\ r.fase = "gravado" => gravado'[r.item] = objetos[r.item][r.objeto],
         UNCHANGED <<objetos, atual, dialogo, mudou, trocados, dialogosDeNome>>
  PROVE  NomeInv'
<1>1. /\ pedidos'[p] = r /\ r # Inexistente
      /\ \A q \in Renomeacao \ {p} : pedidos'[q] = pedidos[q]
      /\ pedidos' \in [Renomeacao -> PedidoFeito \cup {Inexistente}]
  <2>1. pedidos \in [Renomeacao -> PedidoFeito \cup {Inexistente}]
    BY DEF NomeInv, NomeTypeOK
  <2>2. r # Inexistente
    BY PedidoMudado
  <2> QED
    BY <2>1, <2>2
<1>2. NomeTypeOK'
  BY <1>1 DEF NomeInv, NomeTypeOK
<1>3. \A i \in Item : EmVoo(i)' = EmVoo(i)
  BY <1>1, EmVooIgual
<1>4. Apontam'
  <2>1. ASSUME NEW q \in Renomeacao, pedidos'[q] # Inexistente
        PROVE  /\ pedidos'[q].objeto = pedidos'[q].lista[pedidos'[q].item]
               /\ \A j \in Item : pedidos'[q].lista[j] \in 1..Len(objetos'[j])
    BY <1>1, <2>1 DEF NomeInv, Apontam
  <2>2. \A j \in Item : atual'[j] \in 1..Len(objetos'[j])
    BY DEF NomeInv, Apontam
  <2>3. \A j \in Item \cap Conversas : Len(objetos'[j]) = 1
    BY DEF NomeInv, Apontam
  <2> QED
    BY <2>1, <2>2, <2>3 DEF Apontam
<1>5. ASSUME NEW q \in Renomeacao \ {p}, pedidos'[q] # Inexistente, pedidos'[q].sozinho
      PROVE  pedidos[q].item \in Item \ {r.item} /\ pedidos'[q] = pedidos[q]
  BY <1>1, <1>5, PedidoTipo, OutroItem
<1>6. Sozinhos'
  BY <1>1 DEF NomeInv, Sozinhos
<1>7. NomeDoObjeto'
  <2>1. ASSUME NEW q \in Renomeacao, pedidos'[q] # Inexistente, pedidos'[q].sozinho
        PROVE  LET m == objetos'[pedidos'[q].item][pedidos'[q].objeto]
               IN /\ pedidos'[q].fase = "grava" => pedidos'[q].nome = m
                  /\ pedidos'[q].fase = "gravado" => gravado'[pedidos'[q].item] = m
    <3>1. CASE q = p
      BY <1>1, <2>1, <3>1
    <3>2. CASE q # p
      BY <1>5, <2>1, <3>2 DEF NomeInv, NomeDoObjeto
    <3> QED
      BY <3>1, <3>2
  <2> QED
    BY <2>1 DEF NomeDoObjeto
<1>8. Desfazivel'
  <2>1. ASSUME NEW q \in Renomeacao, pedidos'[q] # Inexistente, pedidos'[q].sozinho,
               ~pedidos'[q].duvida, pedidos'[q].item \in Biblioteca
        PROVE  /\ pedidos'[q].fase # "gravado" => pedidos'[q].inicial = gravado'[pedidos'[q].item]
               /\ pedidos'[q].objeto = atual'[pedidos'[q].item]
    <3>1. CASE q = p
      BY <1>1, <2>1, <3>1 DEF NomeInv, Desfazivel
    <3>2. CASE q # p
      BY <1>5, <2>1, <3>2 DEF NomeInv, Desfazivel
    <3> QED
      BY <3>1, <3>2
  <2> QED
    BY <2>1 DEF Desfazivel, Biblioteca
<1>9. DialogoEmDia'
  <2>1. SUFFICES ASSUME dialogo # Inexistente, dialogo.item \in Biblioteca, EmVoo(dialogo.item)' = {}
                 PROVE  dialogo.inicial = objetos[dialogo.item][atual[dialogo.item]]
    BY DEF DialogoEmDia, Mostrado, Biblioteca, EmVoo
  <2>2. EmVoo(dialogo.item) = {}
    BY <1>1, <2>1 DEF EmVoo
  <2> QED
    BY <2>1, <2>2 DEF NomeInv, DialogoEmDia, Mostrado
<1>10. NomeDaTela'
  <2>1. ASSUME NEW j \in Item \ trocados, EmVoo(j)' = {}
        PROVE  Mostrado(j)' = gravado'[j]
    <3>1. EmVoo(j) = {} /\ j # r.item
      BY <1>3, <2>1, PedidoTipo
    <3> QED
      BY <3>1 DEF NomeInv, NomeDaTela, Mostrado
  <2> QED
    BY <2>1 DEF NomeDaTela
<1> QED
  BY <1>2, <1>4, <1>6, <1>7, <1>8, <1>9, <1>10 DEF NomeInv

LEMMA ConsultaPasso ==
  ASSUME NomeInv, NEW p \in Renomeacao, pedidos[p] # Inexistente, Consulta(p),
         UNCHANGED dialogosDeNome
  PROVE  NomeInv'
<1> DEFINE i == pedidos[p].item
           n == objetos[i][pedidos[p].objeto]
           x == IF \E j \in Biblioteca : gravado[j] = n THEN "recusado" ELSE "grava"
           r == [pedidos[p] EXCEPT !.nome = n, !.fase = x]
<1>1. /\ pedidos[p].fase = "token" /\ pedidos' = [pedidos EXCEPT ![p].nome = n, ![p].fase = x]
      /\ UNCHANGED <<gravado, objetos, atual, dialogo, mudou, trocados>>
  BY DEF Consulta
<1>2. pedidos[p] \in PedidoFeito /\ i \in Item /\ pedidos[p].objeto \in 1..Len(objetos[i])
  BY PedidoTipo
<1>3. n \in NomeEscrito
  BY <1>2, MostradoTipo
<1>4. x \in {"recusado", "grava"}
  OBVIOUS
<1>5. pedidos' = [pedidos EXCEPT ![p] = r]
  <2>1. pedidos \in [Renomeacao -> PedidoFeito \cup {Inexistente}]
    BY DEF NomeInv, NomeTypeOK
  <2> HIDE DEF n, x, i
  <2> QED
    BY <1>1, <1>2, <2>1 DEF r
<1> HIDE DEF n, x
<1>6. /\ r \in PedidoFeito /\ r.item = i /\ r.objeto = pedidos[p].objeto
      /\ r.lista = pedidos[p].lista /\ r.inicial = pedidos[p].inicial
      /\ r.duvida = pedidos[p].duvida /\ r.sozinho = pedidos[p].sozinho
      /\ r.fase = x /\ r.nome = n
  BY <1>2, <1>3, <1>4 DEF PedidoFeito
<1>7. gravado' \in [Item -> NomeEscrito]
  BY <1>1 DEF NomeInv, NomeTypeOK
<1> HIDE DEF r
<1>8. /\ r.sozinho /\ r.fase = "grava" => r.nome = objetos[r.item][r.objeto]
      /\ r.fase # "gravado" /\ pedidos[p].fase # "gravado"
  BY <1>1, <1>4, <1>6 DEF n
<1> QED
  BY <1>1, <1>5, <1>6, <1>7, <1>8, FasePasso

(* Only the phase changes, and nothing is stored.                          *)
LEMMA AvancaPasso ==
  ASSUME NomeInv, NEW p \in Renomeacao, pedidos[p] # Inexistente, pedidos[p].fase # "gravado",
         NEW x \in {"recusado", "engolido"}, Avanca(p, x),
         UNCHANGED <<gravado, objetos, atual, dialogo, mudou, trocados, dialogosDeNome>>
  PROVE  NomeInv'
<1> DEFINE r == [pedidos[p] EXCEPT !.fase = x]
<1>1. pedidos[p] \in PedidoFeito
  BY PedidoTipo
<1>2. pedidos' = [pedidos EXCEPT ![p] = r]
  BY DEF Avanca
<1>3. /\ r \in PedidoFeito /\ r.item = pedidos[p].item /\ r.objeto = pedidos[p].objeto
      /\ r.lista = pedidos[p].lista /\ r.inicial = pedidos[p].inicial
      /\ r.duvida = pedidos[p].duvida /\ r.sozinho = pedidos[p].sozinho /\ r.fase = x
  BY <1>1 DEF PedidoFeito
<1>4. gravado' \in [Item -> NomeEscrito]
  BY DEF NomeInv, NomeTypeOK
<1> HIDE DEF r
<1> QED
  BY <1>2, <1>3, <1>4, FasePasso

LEMMA GravaNomePasso ==
  ASSUME NomeInv, NEW p \in Renomeacao, pedidos[p] # Inexistente, GravaNome(p),
         UNCHANGED dialogosDeNome
  PROVE  NomeInv'
<1> DEFINE i == pedidos[p].item
           r == [pedidos[p] EXCEPT !.fase = "gravado"]
<1>1. /\ pedidos[p].fase = "grava" /\ gravado' = [gravado EXCEPT ![i] = pedidos[p].nome]
      /\ pedidos' = [pedidos EXCEPT ![p] = r]
      /\ UNCHANGED <<objetos, atual, dialogo, mudou, trocados>>
  BY DEF GravaNome, Avanca
<1>2. pedidos[p] \in PedidoFeito /\ i \in Item /\ pedidos[p].nome \in NomeEscrito
  BY PedidoTipo
<1>3. /\ r \in PedidoFeito /\ r.item = i /\ r.objeto = pedidos[p].objeto
      /\ r.lista = pedidos[p].lista /\ r.inicial = pedidos[p].inicial
      /\ r.duvida = pedidos[p].duvida /\ r.sozinho = pedidos[p].sozinho /\ r.fase = "gravado"
  BY <1>2, PedidoMudado
<1>4. /\ gravado' \in [Item -> NomeEscrito] /\ gravado'[i] = pedidos[p].nome
      /\ \A j \in Item \ {i} : gravado'[j] = gravado[j]
  BY <1>1, <1>2 DEF NomeInv, NomeTypeOK
<1>5. pedidos[p].sozinho => pedidos[p].nome = objetos[i][pedidos[p].objeto]
  BY <1>1 DEF NomeInv, NomeDoObjeto
<1> HIDE DEF r
<1>6. /\ pedidos[p].fase # "gravado" /\ r.fase # "grava"
      /\ r.sozinho /\ r.fase = "gravado" => gravado'[r.item] = objetos[r.item][r.objeto]
      /\ \A j \in Item \ {r.item} : gravado'[j] = gravado[j]
  BY <1>1, <1>3, <1>4, <1>5
<1> QED
  BY <1>1, <1>3, <1>4, <1>6, FasePasso

LEMMA PedidoFalhaPasso ==
  ASSUME NomeInv, NEW p \in Renomeacao, pedidos[p] # Inexistente, PedidoFalha(p),
         UNCHANGED dialogosDeNome
  PROVE  NomeInv'
<1>1. /\ pedidos[p].fase # "gravado" /\ Avanca(p, "recusado")
      /\ UNCHANGED <<gravado, objetos, atual, dialogo, mudou, trocados>>
  BY DEF PedidoFalha
<1> QED
  BY <1>1, AvancaPasso

LEMMA EngolePasso ==
  ASSUME NomeInv, NEW p \in Renomeacao, pedidos[p] # Inexistente, Engole(p),
         UNCHANGED dialogosDeNome
  PROVE  NomeInv'
<1>1. /\ pedidos[p].fase # "gravado" /\ Avanca(p, "engolido")
      /\ UNCHANGED <<gravado, objetos, atual, dialogo, mudou, trocados>>
  BY DEF Engole
<1> QED
  BY <1>1, AvancaPasso

(* An answer ends the request p, and leaves the others as they were but    *)
(* for their doubt.                                                        *)
Encerrado(p) ==
  /\ pedidos' \in [Renomeacao -> PedidoFeito \cup {Inexistente}]
  /\ pedidos'[p] = Inexistente
  /\ \A q \in Renomeacao \ {p} :
       /\ pedidos'[q] = Inexistente <=> pedidos[q] = Inexistente
       /\ pedidos[q] # Inexistente =>
            /\ pedidos'[q].item = pedidos[q].item /\ pedidos'[q].objeto = pedidos[q].objeto
            /\ pedidos'[q].lista = pedidos[q].lista /\ pedidos'[q].fase = pedidos[q].fase
            /\ pedidos'[q].sozinho = pedidos[q].sozinho /\ pedidos'[q].nome = pedidos[q].nome
            /\ pedidos'[q].inicial = pedidos[q].inicial
            /\ ~pedidos'[q].duvida => ~pedidos[q].duvida

LEMMA EncerraTipo ==
  ASSUME NomeInv, NEW p \in Renomeacao, EncerraPedido(p)
  PROVE  Encerrado(p)
BY DEF EncerraPedido, Encerrado, NomeInv, NomeTypeOK

LEMMA EncerradoResto ==
  ASSUME NomeInv, NEW p \in Renomeacao, pedidos[p] # Inexistente, Encerrado(p)
  PROVE  /\ Sozinhos'
         /\ \A i \in Item : EmVoo(i)' = EmVoo(i) \ {p}
         /\ \A i \in Item \ {pedidos[p].item} : EmVoo(i)' = EmVoo(i)
         /\ \A q \in Renomeacao : pedidos'[q] # Inexistente =>
              /\ q # p /\ pedidos[q] # Inexistente
              /\ pedidos[q].sozinho => pedidos[q].item \in Item \ {pedidos[p].item}
<1>1. Sozinhos'
  BY DEF NomeInv, Sozinhos, Encerrado
<1>2. /\ \A i \in Item : EmVoo(i)' = EmVoo(i) \ {p}
      /\ \A i \in Item \ {pedidos[p].item} : EmVoo(i)' = EmVoo(i)
  BY DEF EmVoo, Encerrado
<1>3. ASSUME NEW q \in Renomeacao, pedidos'[q] # Inexistente
      PROVE  /\ q # p /\ pedidos[q] # Inexistente
             /\ pedidos[q].sozinho => pedidos[q].item \in Item \ {pedidos[p].item}
  BY <1>3, PedidoTipo, OutroItem DEF Encerrado
<1> QED
  BY <1>1, <1>2, <1>3

LEMMA RespondeConversaPasso ==
  ASSUME NomeInv, NEW p \in Renomeacao, pedidos[p] # Inexistente, RespondeConversa(p),
         UNCHANGED dialogosDeNome
  PROVE  NomeInv'
<1> DEFINE i == pedidos[p].item
           certo == pedidos[p].fase = "gravado" /\ pedidos[p].sozinho
<1>1. /\ i \in Conversas /\ EncerraPedido(p)
      /\ trocados' = (IF certo THEN trocados \ {i} ELSE trocados \cup {i})
      /\ UNCHANGED <<gravado, objetos, atual, dialogo, mudou>>
  BY DEF RespondeConversa
<1>2. Encerrado(p) /\ i \in Item
  BY <1>1, EncerraTipo, PedidoTipo
<1>3. /\ Sozinhos' /\ \A j \in Item \ {i} : EmVoo(j)' = EmVoo(j)
      /\ \A q \in Renomeacao : pedidos'[q] # Inexistente => q # p /\ pedidos[q] # Inexistente
  BY <1>2, EncerradoResto
<1>4. NomeTypeOK'
  BY <1>1, <1>2 DEF NomeInv, NomeTypeOK, Encerrado
<1>5. Apontam'
  BY <1>1, <1>2, <1>3 DEF NomeInv, Apontam, Encerrado
<1>6. NomeDoObjeto'
  BY <1>1, <1>2, <1>3 DEF NomeInv, NomeDoObjeto, Encerrado
<1>7. Desfazivel'
  BY <1>1, <1>2, <1>3 DEF NomeInv, Desfazivel, Encerrado
<1>8. DialogoEmDia'
  <2>1. SUFFICES ASSUME dialogo # Inexistente, dialogo.item \in Biblioteca, EmVoo(dialogo.item)' = {}
                 PROVE  dialogo.inicial = objetos[dialogo.item][atual[dialogo.item]]
    BY <1>1 DEF DialogoEmDia, Mostrado, Biblioteca, EmVoo
  <2>2. dialogo.item \in Item \ {i}
    BY <1>1, <2>1 DEF Biblioteca
  <2>3. EmVoo(dialogo.item) = {}
    BY <1>1, <1>2, <2>1, <2>2 DEF EmVoo, Encerrado
  <2> QED
    BY <2>1, <2>3 DEF NomeInv, DialogoEmDia, Mostrado
<1>9. NomeDaTela'
  <2>1. ASSUME NEW j \in Item \ trocados', EmVoo(j)' = {}
        PROVE  Mostrado(j) = gravado[j]
    <3>1. CASE j = i
      <4>1. certo
        BY <1>1, <2>1, <3>1
      <4>2. gravado[i] = objetos[i][pedidos[p].objeto]
        BY <4>1 DEF NomeInv, NomeDoObjeto
      <4>3. pedidos[p].objeto = 1 /\ atual[i] = 1
        <5>1. Len(objetos[i]) = 1 /\ atual[i] \in 1..Len(objetos[i])
          BY <1>1, <1>2 DEF NomeInv, Apontam
        <5>2. pedidos[p].objeto \in 1..Len(objetos[i])
          BY PedidoTipo
        <5> QED
          BY <5>1, <5>2
      <4> QED
        BY <3>1, <4>2, <4>3 DEF Mostrado
    <3>2. CASE j # i
      BY <1>1, <1>3, <2>1, <3>2 DEF NomeInv, NomeDaTela
    <3> QED
      BY <3>1, <3>2
  <2> QED
    BY <1>1, <2>1 DEF NomeDaTela, Mostrado
<1> QED
  BY <1>3, <1>4, <1>5, <1>6, <1>7, <1>8, <1>9 DEF NomeInv

LEMMA RecusaBibliotecaPasso ==
  ASSUME NomeInv, NEW p \in Renomeacao, pedidos[p] # Inexistente, RecusaBiblioteca(p),
         UNCHANGED dialogosDeNome
  PROVE  NomeInv'
<1> DEFINE i == pedidos[p].item
           k == pedidos[p].objeto
           n == pedidos[p].inicial
<1>1. /\ i \in Biblioteca /\ EncerraPedido(p) /\ objetos' = [objetos EXCEPT ![i][k] = n]
      /\ dialogo' = (IF Aberto(i) THEN Inexistente ELSE dialogo)
      /\ trocados' = (IF \/ pedidos[p].fase = "gravado" \/ ~pedidos[p].sozinho
                         \/ pedidos[p].duvida
                      THEN trocados \cup {i} ELSE trocados)
      /\ UNCHANGED <<gravado, atual, mudou>>
  BY DEF RecusaBiblioteca, Desfaz, Fechado
<1>2. Encerrado(p) /\ i \in Item /\ k \in 1..Len(objetos[i]) /\ n \in NomeEscrito
  BY <1>1, EncerraTipo, PedidoTipo
<1>3. /\ objetos' \in [Item -> Seq(NomeEscrito)]
      /\ \A j \in Item : Len(objetos'[j]) = Len(objetos[j])
      /\ \A j \in Item \ {i} : objetos'[j] = objetos[j]
      /\ objetos'[i][k] = n
  <2>1. EscritoEm([objetos EXCEPT ![i][k] = n], i, k, n)
    BY <1>2, EscreveObjeto
  <2> QED
    BY <1>1, <2>1 DEF EscritoEm
<1>4. /\ Sozinhos' /\ \A j \in Item \ {i} : EmVoo(j)' = EmVoo(j)
      /\ \A q \in Renomeacao : pedidos'[q] # Inexistente =>
           /\ q # p /\ pedidos[q] # Inexistente
           /\ pedidos[q].sozinho => pedidos[q].item \in Item \ {i}
  BY <1>2, EncerradoResto
<1>5. NomeTypeOK'
  BY <1>1, <1>2, <1>3 DEF NomeInv, NomeTypeOK, Encerrado
<1>6. Apontam'
  <2>1. /\ \A j \in Item : atual'[j] \in 1..Len(objetos'[j])
        /\ \A j \in Item \cap Conversas : Len(objetos'[j]) = 1
    BY <1>1, <1>3 DEF NomeInv, Apontam
  <2>2. ASSUME NEW q \in Renomeacao, pedidos'[q] # Inexistente
        PROVE  /\ pedidos'[q].objeto = pedidos'[q].lista[pedidos'[q].item]
               /\ \A j \in Item : pedidos'[q].lista[j] \in 1..Len(objetos'[j])
    <3>1. q # p /\ pedidos[q] # Inexistente
      BY <1>4, <2>2
    <3>2. /\ pedidos'[q].objeto = pedidos[q].objeto /\ pedidos'[q].lista = pedidos[q].lista
          /\ pedidos'[q].item = pedidos[q].item
      BY <1>2, <3>1 DEF Encerrado
    <3>3. /\ pedidos[q].objeto = pedidos[q].lista[pedidos[q].item]
          /\ \A j \in Item : pedidos[q].lista[j] \in 1..Len(objetos[j])
      BY <3>1 DEF NomeInv, Apontam
    <3> QED
      BY <1>3, <3>2, <3>3
  <2> QED
    BY <2>1, <2>2 DEF Apontam
<1>7. NomeDoObjeto'
  BY <1>1, <1>2, <1>3, <1>4 DEF NomeInv, NomeDoObjeto, Encerrado
<1>8. Desfazivel'
  BY <1>1, <1>2, <1>4 DEF NomeInv, Desfazivel, Encerrado
<1>9. DialogoEmDia'
  <2>1. CASE dialogo' = Inexistente
    BY <2>1 DEF DialogoEmDia
  <2>2. CASE dialogo' # Inexistente
    <3>1. dialogo' = dialogo /\ dialogo # Inexistente /\ dialogo.item # i
      BY <1>1, <2>2 DEF Aberto
    <3>2. SUFFICES ASSUME dialogo.item \in Biblioteca, EmVoo(dialogo.item)' = {}
                   PROVE  dialogo.inicial = objetos'[dialogo.item][atual[dialogo.item]]
      BY <1>1, <3>1 DEF DialogoEmDia, Mostrado, Biblioteca, EmVoo
    <3>3. EmVoo(dialogo.item) = {}
      BY <1>1, <1>2, <3>1, <3>2 DEF EmVoo, Encerrado
    <3> QED
      BY <1>3, <3>1, <3>2, <3>3 DEF NomeInv, DialogoEmDia, Mostrado, Biblioteca
  <2> QED
    BY <2>1, <2>2
<1>10. NomeDaTela'
  <2>1. ASSUME NEW j \in Item \ trocados', EmVoo(j)' = {}
        PROVE  objetos'[j][atual[j]] = gravado[j]
    <3>1. CASE j = i
      <4>1. pedidos[p].fase # "gravado" /\ pedidos[p].sozinho /\ ~pedidos[p].duvida
        BY <1>1, <2>1, <3>1
      <4>2. n = gravado[i] /\ k = atual[i]
        BY <1>1, <4>1 DEF NomeInv, Desfazivel
      <4> QED
        BY <1>3, <3>1, <4>2
    <3>2. CASE j # i
      BY <1>1, <1>3, <1>4, <2>1, <3>2 DEF NomeInv, NomeDaTela, Mostrado
    <3> QED
      BY <3>1, <3>2
  <2> QED
    BY <1>1, <2>1 DEF NomeDaTela, Mostrado
<1> QED
  BY <1>4, <1>5, <1>6, <1>7, <1>8, <1>9, <1>10 DEF NomeInv

(* The list l comes back, or the objects are copied: the dialog of an item *)
(* whose object changes begins again with the name shown.                  *)
LEMMA RedesenhaTipo ==
  ASSUME NEW d \in DialogoAberto, NEW l, NEW os, os[d.item][l[d.item]] \in NomeEscrito
  PROVE  /\ Redesenha(d, l, os) \in DialogoAberto /\ Redesenha(d, l, os).item = d.item
         /\ Redesenha(d, l, os) # Inexistente
         /\ l[d.item] # atual[d.item] =>
              Redesenha(d, l, os).inicial = os[d.item][l[d.item]]
         /\ l[d.item] = atual[d.item] => Redesenha(d, l, os) = d
BY NomesAssumption DEF Redesenha, DialogoDe, DialogoAberto

LEMMA RespondeBibliotecaPasso ==
  ASSUME NomeInv, NEW p \in Renomeacao, pedidos[p] # Inexistente, RespondeBiblioteca(p),
         UNCHANGED dialogosDeNome
  PROVE  NomeInv'
<1> DEFINE i == pedidos[p].item
           lst == Capturada(p)
           voltam == {j \in Biblioteca \ {i} : objetos[j][lst[j]] # Mostrado(j)}
           certo == pedidos[p].fase = "gravado" /\ pedidos[p].sozinho
           outro == {q \in Renomeacao \ {p} : pedidos[q] # Inexistente
                                           /\ lst[pedidos[q].item] # atual[pedidos[q].item]}
<1>1. /\ i \in Biblioteca
      /\ pedidos' = [q \in Renomeacao |->
           IF q = p THEN Inexistente
           ELSE IF q \in outro THEN [pedidos[q] EXCEPT !.duvida = TRUE] ELSE pedidos[q]]
      /\ atual' = lst /\ dialogo' = Redesenha(Fechado(p), lst, objetos)
      /\ trocados' = (IF certo THEN trocados \ {i} ELSE trocados \cup {i}) \cup voltam
      /\ UNCHANGED <<gravado, objetos, mudou>>
  BY DEF RespondeBiblioteca
<1>2. /\ i \in Item /\ pedidos[p].lista \in [Item -> Nat]
      /\ pedidos[p].objeto = pedidos[p].lista[i]
      /\ \A j \in Item : pedidos[p].lista[j] \in 1..Len(objetos[j])
  BY PedidoTipo DEF NomeInv, Apontam
<1>3. /\ lst \in [Item -> Nat] /\ \A j \in Item : lst[j] \in 1..Len(objetos[j])
      /\ lst[i] = pedidos[p].objeto
      /\ \A j \in Item \ Biblioteca : lst[j] = atual[j]
  BY <1>1, <1>2 DEF Capturada, NomeInv, NomeTypeOK, Apontam
<1>4. Encerrado(p)
  <2>1. ASSUME NEW q \in Renomeacao \ {p}, pedidos[q] # Inexistente
        PROVE  /\ pedidos'[q] \in PedidoFeito /\ pedidos'[q] # Inexistente
               /\ pedidos'[q].item = pedidos[q].item /\ pedidos'[q].objeto = pedidos[q].objeto
               /\ pedidos'[q].lista = pedidos[q].lista /\ pedidos'[q].fase = pedidos[q].fase
               /\ pedidos'[q].sozinho = pedidos[q].sozinho /\ pedidos'[q].nome = pedidos[q].nome
               /\ pedidos'[q].inicial = pedidos[q].inicial
               /\ ~pedidos'[q].duvida => ~pedidos[q].duvida
    <3>1. pedidos[q] \in PedidoFeito
      BY <2>1, PedidoTipo
    <3>2. CASE q \in outro
      <4>1. pedidos'[q] = [pedidos[q] EXCEPT !.duvida = TRUE]
        BY <1>1, <3>2
      <4>2. pedidos'[q] \in PedidoFeito /\ pedidos'[q].duvida = TRUE
        BY <3>1, <4>1 DEF PedidoFeito
      <4>3. pedidos'[q] # Inexistente
        BY <4>2, PedidoMudado
      <4> HIDE DEF outro
      <4> QED
        BY <3>1, <4>1, <4>2, <4>3 DEF PedidoFeito
    <3>3. CASE q \notin outro
      <4>1. pedidos'[q] = pedidos[q]
        BY <1>1, <3>3
      <4> QED
        BY <2>1, <3>1, <4>1
    <3> QED
      BY <3>2, <3>3
  <2>2. ASSUME NEW q \in Renomeacao \ {p}, pedidos[q] = Inexistente
        PROVE  pedidos'[q] = Inexistente
    BY <1>1, <2>2
  <2>3. pedidos'[p] = Inexistente
    BY <1>1
  <2>4. pedidos' = [q \in Renomeacao |-> pedidos'[q]]
    BY <1>1
  <2>5. pedidos' \in [Renomeacao -> PedidoFeito \cup {Inexistente}]
    BY <2>1, <2>2, <2>3, <2>4
  <2> QED
    BY <2>1, <2>2, <2>3, <2>5 DEF Encerrado
<1>5. /\ Sozinhos' /\ \A j \in Item \ {i} : EmVoo(j)' = EmVoo(j)
      /\ \A q \in Renomeacao : pedidos'[q] # Inexistente => q # p /\ pedidos[q] # Inexistente
  BY <1>4, EncerradoResto
<1>6. ASSUME NEW q \in Renomeacao, pedidos'[q] # Inexistente, ~pedidos'[q].duvida
      PROVE  lst[pedidos[q].item] = atual[pedidos[q].item]
  <2>1. SUFFICES ASSUME q \in outro PROVE FALSE
    BY <1>5, <1>6
  <2>2. pedidos[q] \in PedidoFeito /\ pedidos'[q] = [pedidos[q] EXCEPT !.duvida = TRUE]
    BY <1>1, <1>5, <1>6, <2>1, PedidoTipo
  <2>3. pedidos'[q].duvida = TRUE
    BY <2>2 DEF PedidoFeito
  <2> QED
    BY <1>6, <2>3
<1> HIDE DEF lst, outro
<1>7. /\ dialogo' = Inexistente
      \/ /\ dialogo # Inexistente /\ dialogo \in DialogoAberto /\ dialogo.item \in Item \ {i}
         /\ dialogo' = Redesenha(dialogo, lst, objetos)
  BY <1>1 DEF Fechado, Aberto, Redesenha, NomeInv, NomeTypeOK, DialogoAberto
<1>8. dialogo' # Inexistente =>
        /\ dialogo' \in DialogoAberto /\ dialogo'.item = dialogo.item
        /\ dialogo # Inexistente /\ dialogo.item \in Item \ {i}
        /\ lst[dialogo.item] # atual[dialogo.item] =>
             dialogo'.inicial = objetos[dialogo.item][lst[dialogo.item]]
        /\ lst[dialogo.item] = atual[dialogo.item] => dialogo' = dialogo
  <2>1. SUFFICES ASSUME dialogo # Inexistente, dialogo \in DialogoAberto,
                        dialogo.item \in Item \ {i}, dialogo' = Redesenha(dialogo, lst, objetos)
                 PROVE  /\ dialogo' \in DialogoAberto /\ dialogo'.item = dialogo.item
                        /\ lst[dialogo.item] # atual[dialogo.item] =>
                             dialogo'.inicial = objetos[dialogo.item][lst[dialogo.item]]
                        /\ lst[dialogo.item] = atual[dialogo.item] => dialogo' = dialogo
    BY <1>7
  <2>2. objetos[dialogo.item][lst[dialogo.item]] \in NomeEscrito
    BY <1>3, <2>1, MostradoTipo
  <2> QED
    BY <2>1, <2>2, RedesenhaTipo
<1>9. NomeTypeOK'
  <2>1. dialogo' \in DialogoAberto \cup {Inexistente}
    BY <1>8
  <2>2. trocados' \subseteq Item
    BY <1>1, <1>2 DEF NomeInv, NomeTypeOK, Biblioteca
  <2> QED
    BY <1>1, <1>3, <1>4, <2>1, <2>2 DEF NomeInv, NomeTypeOK, Encerrado
<1>10. Apontam'
  BY <1>1, <1>3, <1>4, <1>5 DEF NomeInv, Apontam, Encerrado
<1>11. NomeDoObjeto'
  BY <1>1, <1>4, <1>5 DEF NomeInv, NomeDoObjeto, Encerrado
<1>12. Desfazivel'
  BY <1>1, <1>4, <1>5, <1>6 DEF NomeInv, Desfazivel, Encerrado
<1>13. DialogoEmDia'
  <2>1. SUFFICES ASSUME dialogo' # Inexistente, dialogo'.item \in Biblioteca,
                        EmVoo(dialogo.item) = {}
                 PROVE  dialogo'.inicial = objetos[dialogo.item][lst[dialogo.item]]
    <3>1. SUFFICES ASSUME dialogo' # Inexistente, dialogo'.item \in Biblioteca,
                          {q \in Renomeacao : pedidos'[q] # Inexistente
                                              /\ pedidos'[q].item = dialogo'.item} = {}
                   PROVE  dialogo'.inicial = objetos'[dialogo'.item][atual'[dialogo'.item]]
      BY DEF DialogoEmDia, Mostrado, Biblioteca, EmVoo
    <3>2. EmVoo(dialogo.item) = {}
      BY <1>4, <1>8, <3>1 DEF EmVoo, Encerrado
    <3> QED
      BY <1>1, <1>8, <2>1, <3>1, <3>2
  <2>2. CASE lst[dialogo.item] # atual[dialogo.item]
    BY <1>8, <2>1, <2>2
  <2>3. CASE lst[dialogo.item] = atual[dialogo.item]
    BY <1>8, <2>1, <2>3 DEF NomeInv, DialogoEmDia, Mostrado
  <2> QED
    BY <2>2, <2>3
<1>14. NomeDaTela'
  <2>1. ASSUME NEW j \in Item \ trocados', EmVoo(j)' = {}
        PROVE  objetos[j][lst[j]] = gravado[j]
    <3>1. CASE j = i
      <4>1. certo
        BY <1>1, <2>1, <3>1
      <4> QED
        BY <1>3, <3>1, <4>1 DEF NomeInv, NomeDoObjeto
    <3>2. CASE j # i /\ j \in Biblioteca
      <4>1. objetos[j][lst[j]] = Mostrado(j) /\ j \notin trocados /\ EmVoo(j) = {}
        BY <1>1, <1>5, <2>1, <3>2
      <4> QED
        BY <4>1 DEF NomeInv, NomeDaTela
    <3>3. CASE j # i /\ j \notin Biblioteca
      <4>1. lst[j] = atual[j] /\ j \notin trocados /\ EmVoo(j) = {}
        BY <1>1, <1>3, <1>5, <2>1, <3>3
      <4> QED
        BY <4>1 DEF NomeInv, NomeDaTela, Mostrado
    <3> QED
      BY <3>1, <3>2, <3>3
  <2> QED
    BY <1>1, <2>1 DEF NomeDaTela, Mostrado
<1> QED
  BY <1>5, <1>9, <1>10, <1>11, <1>12, <1>13, <1>14 DEF NomeInv

LEMMA CopiaObjetosPasso ==
  ASSUME NomeInv, CopiaObjetos, UNCHANGED dialogosDeNome
  PROVE  NomeInv'
<1>1. /\ objetos' = [i \in Item |-> IF i \in Biblioteca THEN Append(objetos[i], Mostrado(i))
                                    ELSE objetos[i]]
      /\ atual' = [i \in Item |-> Len(objetos'[i])]
      /\ dialogo' = Redesenha(dialogo, atual', objetos')
      /\ pedidos' = [p \in Renomeacao |->
           IF pedidos[p] # Inexistente /\ pedidos[p].item \in Biblioteca
           THEN [pedidos[p] EXCEPT !.duvida = TRUE] ELSE pedidos[p]]
      /\ UNCHANGED <<gravado, mudou, trocados>>
  BY DEF CopiaObjetos
<1>2. ASSUME NEW i \in Item
      PROVE  /\ objetos'[i] \in Seq(NomeEscrito) /\ atual'[i] \in 1..Len(objetos'[i])
             /\ Len(objetos'[i]) >= Len(objetos[i])
             /\ \A k \in 1..Len(objetos[i]) : objetos'[i][k] = objetos[i][k]
             /\ objetos'[i][atual'[i]] = Mostrado(i)
             /\ i \in Biblioteca => atual'[i] # atual[i]
             /\ i \notin Biblioteca => objetos'[i] = objetos[i] /\ atual'[i] = atual[i]
  <2>1. /\ objetos[i] \in Seq(NomeEscrito) /\ atual[i] \in 1..Len(objetos[i])
        /\ Mostrado(i) \in NomeEscrito
    BY MostradoTipo
  <2>2. CASE i \in Biblioteca
    <3>1. objetos'[i] = Append(objetos[i], Mostrado(i)) /\ atual'[i] = Len(objetos'[i])
      BY <1>1, <2>2
    <3>2. /\ Append(objetos[i], Mostrado(i)) \in Seq(NomeEscrito)
          /\ Len(Append(objetos[i], Mostrado(i))) = Len(objetos[i]) + 1
          /\ Append(objetos[i], Mostrado(i))[Len(objetos[i]) + 1] = Mostrado(i)
          /\ \A k \in 1..Len(objetos[i]) : Append(objetos[i], Mostrado(i))[k] = objetos[i][k]
      BY <2>1
    <3> QED
      BY <2>1, <2>2, <3>1, <3>2
  <2>3. CASE i \notin Biblioteca
    <3>1. objetos'[i] = objetos[i] /\ atual'[i] = Len(objetos[i]) /\ Len(objetos[i]) = 1
      BY <1>1, <2>3 DEF Biblioteca, NomeInv, Apontam
    <3> QED
      BY <2>1, <2>3, <3>1 DEF Mostrado
  <2> QED
    BY <2>2, <2>3
<1>3. ASSUME NEW q \in Renomeacao
      PROVE  /\ pedidos'[q] \in PedidoFeito \cup {Inexistente}
             /\ pedidos'[q] = Inexistente <=> pedidos[q] = Inexistente
             /\ pedidos[q] # Inexistente =>
                  /\ pedidos'[q].item = pedidos[q].item /\ pedidos'[q].objeto = pedidos[q].objeto
                  /\ pedidos'[q].lista = pedidos[q].lista /\ pedidos'[q].fase = pedidos[q].fase
                  /\ pedidos'[q].sozinho = pedidos[q].sozinho
                  /\ pedidos'[q].nome = pedidos[q].nome
                  /\ pedidos[q].item \in Biblioteca => pedidos'[q].duvida
  <2>1. CASE pedidos[q] # Inexistente /\ pedidos[q].item \in Biblioteca
    <3>1. pedidos[q] \in PedidoFeito /\ pedidos'[q] = [pedidos[q] EXCEPT !.duvida = TRUE]
      BY <1>1, <2>1, PedidoTipo
    <3>2. pedidos'[q] \in PedidoFeito
      BY <3>1 DEF PedidoFeito
    <3>3. pedidos'[q] # Inexistente
      BY <3>2, PedidoMudado
    <3> QED
      BY <2>1, <3>1, <3>2, <3>3 DEF PedidoFeito
  <2>2. CASE ~(pedidos[q] # Inexistente /\ pedidos[q].item \in Biblioteca)
    BY <1>1, <2>2 DEF NomeInv, NomeTypeOK
  <2> QED
    BY <2>1, <2>2
<1>4. \A i \in Item : EmVoo(i)' = EmVoo(i)
  BY <1>3, EmVooIgual
<1>5. ASSUME dialogo # Inexistente
      PROVE  /\ dialogo' \in DialogoAberto /\ dialogo'.item = dialogo.item
             /\ dialogo.item \in Biblioteca => dialogo'.inicial = Mostrado(dialogo.item)
  <2>1. dialogo \in DialogoAberto /\ dialogo.item \in Item
    BY <1>5 DEF NomeInv, NomeTypeOK, DialogoAberto
  <2>2. objetos'[dialogo.item][atual'[dialogo.item]] \in NomeEscrito
    BY <1>2, <2>1, MostradoTipo
  <2>3. /\ Redesenha(dialogo, atual', objetos') \in DialogoAberto
        /\ Redesenha(dialogo, atual', objetos').item = dialogo.item
        /\ atual'[dialogo.item] # atual[dialogo.item] =>
             Redesenha(dialogo, atual', objetos').inicial
               = objetos'[dialogo.item][atual'[dialogo.item]]
    BY <2>1, <2>2, RedesenhaTipo
  <2> QED
    BY <1>1, <1>2, <2>1, <2>3
<1>6. dialogo = Inexistente => dialogo' = Inexistente
  BY <1>1 DEF Redesenha
<1>7. NomeTypeOK'
  <2>1. objetos' \in [Item -> Seq(NomeEscrito)]
    BY <1>1, <1>2
  <2>2. atual' \in [Item -> Nat]
    BY <1>1, <1>2
  <2>3. pedidos' \in [Renomeacao -> PedidoFeito \cup {Inexistente}]
    BY <1>1, <1>3
  <2> QED
    BY <1>1, <1>5, <1>6, <2>1, <2>2, <2>3 DEF NomeInv, NomeTypeOK
<1>8. Apontam'
  <2>1. /\ \A j \in Item : atual'[j] \in 1..Len(objetos'[j])
        /\ \A j \in Item \cap Conversas : Len(objetos'[j]) = 1
    BY <1>2 DEF NomeInv, Apontam, Biblioteca
  <2>2. ASSUME NEW q \in Renomeacao, pedidos'[q] # Inexistente
        PROVE  /\ pedidos'[q].objeto = pedidos'[q].lista[pedidos'[q].item]
               /\ \A j \in Item : pedidos'[q].lista[j] \in 1..Len(objetos'[j])
    <3>1. /\ pedidos[q] # Inexistente
          /\ pedidos'[q].objeto = pedidos[q].objeto /\ pedidos'[q].lista = pedidos[q].lista
          /\ pedidos'[q].item = pedidos[q].item
      BY <1>3, <2>2
    <3>2. /\ pedidos[q].objeto = pedidos[q].lista[pedidos[q].item]
          /\ \A j \in Item : pedidos[q].lista[j] \in 1..Len(objetos[j])
      BY <3>1 DEF NomeInv, Apontam
    <3>3. \A j \in Item : Len(objetos'[j]) >= Len(objetos[j]) /\ Len(objetos'[j]) \in Nat
                          /\ Len(objetos[j]) \in Nat
      BY <1>2, MostradoTipo
    <3> QED
      BY <3>1, <3>2, <3>3
  <2> QED
    BY <2>1, <2>2 DEF Apontam
<1>9. Sozinhos'
  BY <1>3 DEF NomeInv, Sozinhos
<1>10. NomeDoObjeto'
  <2>1. ASSUME NEW q \in Renomeacao, pedidos'[q] # Inexistente, pedidos'[q].sozinho
        PROVE  LET m == objetos'[pedidos'[q].item][pedidos'[q].objeto]
               IN /\ pedidos'[q].fase = "grava" => pedidos'[q].nome = m
                  /\ pedidos'[q].fase = "gravado" => gravado'[pedidos'[q].item] = m
    <3>1. /\ pedidos[q] # Inexistente /\ pedidos[q].item \in Item
          /\ pedidos[q].objeto \in 1..Len(objetos[pedidos[q].item])
      BY <1>3, <2>1, PedidoTipo
    <3>2. objetos'[pedidos[q].item][pedidos[q].objeto] = objetos[pedidos[q].item][pedidos[q].objeto]
      BY <1>2, <3>1
    <3> QED
      BY <1>1, <1>3, <2>1, <3>1, <3>2 DEF NomeInv, NomeDoObjeto
  <2> QED
    BY <2>1 DEF NomeDoObjeto
<1>11. Desfazivel'
  BY <1>3 DEF Desfazivel, Biblioteca
<1>12. DialogoEmDia'
  <2>1. SUFFICES ASSUME dialogo' # Inexistente, dialogo'.item \in Biblioteca
                 PROVE  dialogo'.inicial = objetos'[dialogo'.item][atual'[dialogo'.item]]
    BY DEF DialogoEmDia, Mostrado, Biblioteca
  <2>2. dialogo # Inexistente
    BY <1>6, <2>1
  <2> QED
    BY <1>2, <1>5, <2>1, <2>2 DEF Biblioteca
<1>13. NomeDaTela'
  BY <1>1, <1>2, <1>4 DEF NomeInv, NomeDaTela, Mostrado
<1> QED
  BY <1>7, <1>8, <1>9, <1>10, <1>11, <1>12, <1>13 DEF NomeInv

LEMMA NomeInicio ==
  ASSUME InitNome PROVE NomeInv
<1>1. /\ gravado = [i \in Item |-> NomeInicial[i]]
      /\ objetos = [i \in Item |-> <<NomeInicial[i]>>] /\ atual = [i \in Item |-> 1]
      /\ dialogo = Inexistente /\ mudou = [i \in Item |-> FALSE]
      /\ pedidos = [p \in Renomeacao |-> Inexistente]
      /\ trocados = {} /\ dialogosDeNome = 0
  BY DEF InitNome
<1>2. \A i \in Item : NomeInicial[i] \in NomeEscrito
  BY DEF NomeEscrito
<1>3. NomeTypeOK
  <2>1. \A n \in NomeEscrito : <<n>> \in Seq(NomeEscrito)
    OBVIOUS
  <2> QED
    BY <1>1, <1>2, <2>1 DEF NomeTypeOK
<1>4. Apontam
  BY <1>1 DEF Apontam
<1>5. Sozinhos /\ NomeDoObjeto /\ Desfazivel /\ DialogoEmDia
  BY <1>1 DEF Sozinhos, NomeDoObjeto, Desfazivel, DialogoEmDia
<1>6. NomeDaTela
  BY <1>1 DEF NomeDaTela, Mostrado
<1> QED
  BY <1>3, <1>4, <1>5, <1>6 DEF NomeInv

LEMMA NomePasso ==
  ASSUME NomeInv, [NextNome]_varsNome
  PROVE  NomeInv'
<1>1. ASSUME NEW i \in Item, AbreDialogo(i) PROVE NomeInv'
  BY <1>1, AbreDialogoPasso
<1>2. ASSUME UNCHANGED dialogosDeNome, NEW i \in Item, NEW t \in Titulo \cup {Recusado}, Digita(i, t)
      PROVE  NomeInv'
  BY <1>2, DigitaPasso
<1>3. ASSUME UNCHANGED dialogosDeNome, NEW i \in Item, NEW p \in Renomeacao,
             ConfirmaBiblioteca(i, p) \/ ConfirmaConversa(i, p)
      PROVE  NomeInv'
  BY <1>3, ConfirmaPasso DEF ConfirmaBiblioteca, ConfirmaConversa
<1>4. ASSUME UNCHANGED dialogosDeNome, NEW p \in Renomeacao, pedidos[p] # Inexistente,
             \/ Consulta(p) \/ GravaNome(p) \/ PedidoFalha(p) \/ Engole(p)
             \/ RespondeBiblioteca(p) \/ RecusaBiblioteca(p) \/ RespondeConversa(p)
      PROVE  NomeInv'
  BY <1>4, ConsultaPasso, GravaNomePasso, PedidoFalhaPasso, EngolePasso, RespondeBibliotecaPasso,
     RecusaBibliotecaPasso, RespondeConversaPasso
<1>5. ASSUME UNCHANGED dialogosDeNome, FechaDialogo \/ CopiaObjetos PROVE NomeInv'
  BY <1>5, FechaDialogoPasso, CopiaObjetosPasso
<1>6. CASE UNCHANGED varsNome
  <2>1. UNCHANGED <<gravado, objetos, atual, dialogo, mudou, pedidos, trocados, dialogosDeNome>>
    BY <1>6 DEF varsNome
  <2>2. NomeTypeOK' /\ DialogoEmDia'
    BY <2>1 DEF NomeInv, NomeTypeOK, DialogoEmDia, EmVoo, Mostrado
  <2> QED
    BY <2>1, <2>2, SoDialogo DEF NomeInv
<1> QED
  BY <1>1, <1>2, <1>3, <1>4, <1>5, <1>6 DEF NextNome

(* The name on the screen is the one stored once no request is under way,  *)
(* for any items, names and requests (EditFolderModal.tsx).                *)
THEOREM NomeSempreDaTela == SpecNome => []NomeDaTela
<1>1. InitNome => NomeInv
  BY NomeInicio
<1>2. NomeInv /\ [NextNome]_varsNome => NomeInv'
  BY NomePasso
<1>3. NomeInv => NomeDaTela
  BY DEF NomeInv
<1> QED
  BY <1>1, <1>2, <1>3, PTL DEF SpecNome

-----------------------------------------------------------------------------
(* Pages of the history.                                                   *)

Folha == [chats : Seq(ChatDaLista), numero : Nat, total : Nat]
LeituraPossivel ==
  [tipo : {"nenhuma", "primeira", "releitura", "proxima"}, lidas : Folha, alvo : Nat,
   velha : BOOLEAN]

HistoricoTypeOK ==
  /\ indice \in Seq(ChatDaLista)
  /\ pages \in Folha
  /\ leitura \in LeituraPossivel
  /\ pendente \in BOOLEAN /\ perdida \in BOOLEAN /\ mudancas \in Nat

\* Pages loaded from the index as it is: its first chats, each page full but the last.
Ate(n) == IF n * ChatsPorPagina < Len(indice) THEN n * ChatsPorPagina ELSE Len(indice)
Boa(ps) ==
  /\ ps.numero = 0 => ps = SemPaginas
  /\ ps.numero > 0 => ps.chats = SubSeq(indice, 1, Ate(ps.numero)) /\ ps.total = Len(indice)

\* A page more, or those loaded again, is asked for only with pages loaded; a reading that
\* began before a change was told of is the first.
ComPaginas ==
  /\ leitura.tipo \in {"releitura", "proxima"} => pages.numero > 0
  /\ leitura.velha => leitura.tipo = "primeira"

\* No change is pending: what the list shows, and what is being read for it.
PaginasBoas ==
  ~pendente =>
    /\ ~perdida /\ leitura.tipo \in {"nenhuma", "proxima"} => Boa(pages)
    /\ ~perdida /\ leitura.tipo = "proxima" => Boa(leitura.lidas)
    /\ leitura.tipo \in {"primeira", "releitura"} /\ ~leitura.velha => Boa(leitura.lidas)

HistoricoInv == HistoricoTypeOK /\ ComPaginas /\ PaginasBoas

LEMMA SemOChatTipo ==
  ASSUME indice \in Seq(ChatDaLista), NEW c
  PROVE  SemOChat(c) \in Seq(ChatDaLista)
<1>1. ASSUME NEW i \in 1..Len(indice)
      PROVE  RemoveAt(indice, i) \in Seq(ChatDaLista)
  <2>1. SubSeq(indice, 1, i - 1) \in Seq(ChatDaLista)
    BY SubSeqProperties
  <2>2. SubSeq(indice, i + 1, Len(indice)) \in Seq(ChatDaLista)
    BY SubSeqProperties
  <2> QED
    BY <2>1, <2>2, ConcatProperties DEF RemoveAt
<1>2. CASE \E i \in 1..Len(indice) : indice[i] = c
  BY <1>1, <1>2 DEF SemOChat
<1>3. CASE ~\E i \in 1..Len(indice) : indice[i] = c
  BY <1>3 DEF SemOChat
<1> QED
  BY <1>2, <1>3

(* The page after the first n, of a list that has more.                    *)
LEMMA AteSeguinte ==
  ASSUME indice \in Seq(ChatDaLista), NEW n \in Nat
  PROVE  /\ Ate(n) \in Nat /\ Ate(n) <= Len(indice) /\ Ate(n) <= Ate(n + 1)
         /\ Ate(0) = 0
         /\ Ate(n) < Len(indice) => Ate(n) = n * ChatsPorPagina
<1> DEFINE a == n * ChatsPorPagina
           b == (n + 1) * ChatsPorPagina
<1>1. ChatsPorPagina \in Nat \ {0} /\ Len(indice) \in Nat
  BY PaginasAssumption
<1>2. a \in Nat /\ b = a + ChatsPorPagina
  BY <1>1
<1>3. Ate(0) = 0
  <2>1. 0 * ChatsPorPagina = 0
    BY <1>1
  <2> QED
    BY <1>1, <2>1 DEF Ate
<1>4. /\ Ate(n) = IF a < Len(indice) THEN a ELSE Len(indice)
      /\ Ate(n + 1) = IF b < Len(indice) THEN b ELSE Len(indice)
  BY DEF Ate
<1> HIDE DEF a, b
<1>5. Ate(n) \in Nat /\ Ate(n) <= Len(indice) /\ Ate(n) <= Ate(n + 1)
  BY <1>1, <1>2, <1>4
<1>6. Ate(n) < Len(indice) => Ate(n) = a
  BY <1>1, <1>2, <1>4
<1> QED
  BY <1>3, <1>5, <1>6 DEF a

LEMMA PaginaLida ==
  ASSUME indice \in Seq(ChatDaLista), NEW ps \in Folha, PageParam(ps) # FALSO
  PROVE  /\ Com(ps, ListarChats(PageParam(ps))) \in Folha
         /\ Com(ps, ListarChats(PageParam(ps))).numero = ps.numero + 1
         /\ Boa(ps) => Boa(Com(ps, ListarChats(PageParam(ps))))
<1> DEFINE n == ps.numero
           p == PageParam(ps)
           inicio == (p - 1) * ChatsPorPagina
           fim == IF inicio + ChatsPorPagina < Len(indice) THEN inicio + ChatsPorPagina
                  ELSE Len(indice)
           s == SubSeq(indice, inicio + 1, fim)
           lidas == Com(ps, ListarChats(p))
<1>1. n \in Nat /\ ps.chats \in Seq(ChatDaLista) /\ ps.total \in Nat /\ Len(indice) \in Nat
      /\ ChatsPorPagina \in Nat \ {0}
  BY PaginasAssumption DEF Folha
<1>2. p = n + 1
  BY <1>1 DEF PageParam, ProximaPagina
<1>3. inicio = n * ChatsPorPagina /\ inicio \in Nat
      /\ inicio + ChatsPorPagina = (n + 1) * ChatsPorPagina
  <2>1. p - 1 = n
    BY <1>1, <1>2
  <2> QED
    BY <1>1, <2>1
<1>4. fim = Ate(n + 1)
  BY <1>3 DEF Ate
<1>5. ListarChats(p) = [chats |-> s, total |-> Len(indice)]
  BY DEF ListarChats
<1> HIDE DEF inicio, fim, p
<1>6. fim \in Nat /\ fim <= Len(indice)
  <2>1. n + 1 \in Nat
    BY <1>1
  <2> QED
    BY <1>4, <2>1, AteSeguinte
<1>7. s \in Seq(ChatDaLista)
  BY <1>1, <1>3, <1>6, SubSeqProperties
<1> HIDE DEF s
<1>8. lidas = [chats |-> ps.chats \o s, numero |-> n + 1, total |-> Len(indice)]
  BY <1>5 DEF Com
<1>9. lidas \in Folha
  BY <1>1, <1>7, <1>8, ConcatProperties DEF Folha
<1>10. ASSUME Boa(ps)
       PROVE  Boa(lidas)
  <2>1. ps.chats = SubSeq(indice, 1, Ate(n)) /\ Ate(n) = n * ChatsPorPagina
        /\ Ate(n) \in Nat /\ Ate(n) <= fim
    <3>1. CASE n = 0
      <4>1. ps.chats = <<>> /\ Ate(0) = 0
        BY <1>1, <1>10, <3>1, AteSeguinte DEF Boa, SemPaginas
      <4>2. SubSeq(indice, 1, 0) = <<>>
        BY SubSeqEmpty
      <4>3. 0 * ChatsPorPagina = 0
        BY <1>1
      <4> QED
        BY <1>6, <3>1, <4>1, <4>2, <4>3
    <3>2. CASE n > 0
      <4>1. ps.chats = SubSeq(indice, 1, Ate(n)) /\ Len(ps.chats) < Len(indice)
        BY <1>1, <1>2, <1>10, <3>2 DEF Boa, PageParam, ProximaPagina, FALSO, p
      <4>2. Ate(n) \in Nat /\ Ate(n) <= Len(indice)
        BY <1>1, AteSeguinte
      <4>3. Len(ps.chats) = Ate(n)
        BY <1>1, <4>1, <4>2, SubSeqProperties
      <4> QED
        BY <1>1, <1>4, <4>1, <4>3, AteSeguinte
    <3> QED
      BY <1>1, <3>1, <3>2
  <2>2. ps.chats \o s = SubSeq(indice, 1, fim)
    <3> DEFINE k == Ate(n)
    <3>1. k \in 0..Len(indice) /\ fim \in k..Len(indice) /\ 1 \in 1..(Len(indice) + 1)
          /\ inicio = k /\ k \in (1 - 1)..Len(indice)
      BY <1>1, <1>3, <1>6, <2>1
    <3> HIDE DEF k
    <3>2. SubSeq(indice, 1, k) \o SubSeq(indice, k + 1, fim) = SubSeq(indice, 1, fim)
      BY <3>1, ConcatAdjacentSubSeq
    <3> QED
      BY <2>1, <3>1, <3>2 DEF s, k
  <2>3. lidas.chats = ps.chats \o s /\ lidas.numero = n + 1 /\ lidas.total = Len(indice)
    BY <1>8
  <2> HIDE DEF lidas
  <2>4. lidas.numero # 0
    BY <1>1, <2>3
  <2> QED
    BY <1>4, <2>2, <2>3, <2>4 DEF Boa
<1>11. lidas.numero = n + 1
  BY <1>8
<1> QED
  BY <1>9, <1>10, <1>11 DEF p

LEMMA HistoricoNoInicio == InitHistorico => HistoricoInv
<1> SUFFICES ASSUME InitHistorico PROVE HistoricoInv
  OBVIOUS
<1>1. indice \in Seq(ChatDaLista)
  <2>1. PICK S \in SUBSET ChatDaLista : indice \in SetToSeqs(S)
    BY DEF InitHistorico, SetToAllKPermutations
  <2>2. indice \in [1..Cardinality(S) -> S]
    BY <2>1 DEF SetToSeqs
  <2>3. IsFiniteSet(S)
    BY <2>1, PaginasAssumption, FS_Subset
  <2>4. Cardinality(S) \in Nat
    BY <2>3, FS_CardinalityType
  <2> QED
    BY <2>2, <2>4
<1>2. SemPaginas \in Folha
  BY DEF SemPaginas, Folha
<1>3. HistoricoTypeOK
  BY <1>1, <1>2 DEF InitHistorico, HistoricoTypeOK, Leitura, LeituraPossivel
<1>4. ComPaginas /\ PaginasBoas
  BY DEF InitHistorico, ComPaginas, PaginasBoas, Leitura, Boa, SemPaginas
<1> QED
  BY <1>3, <1>4 DEF HistoricoInv

LEMMA MudaPasso ==
  ASSUME HistoricoInv, NEW novo \in Seq(ChatDaLista), Muda(novo)
  PROVE  HistoricoInv'
BY DEF HistoricoInv, HistoricoTypeOK, ComPaginas, PaginasBoas, Muda

LEMMA Folhas ==
  ASSUME HistoricoInv
  PROVE  /\ pages \in Folha /\ pages.numero \in Nat /\ leitura \in LeituraPossivel
         /\ leitura.lidas \in Folha /\ leitura.velha \in BOOLEAN
         /\ SemPaginas \in Folha /\ Boa(SemPaginas)
         /\ SemLeitura \in LeituraPossivel /\ SemLeitura.tipo = "nenhuma" /\ ~SemLeitura.velha
<1>1. SemPaginas \in Folha /\ Boa(SemPaginas)
  BY DEF SemPaginas, Folha, Boa
<1>2. /\ SemLeitura \in LeituraPossivel /\ SemLeitura.tipo = "nenhuma" /\ ~SemLeitura.velha
  BY <1>1 DEF SemLeitura, Leitura, LeituraPossivel
<1> QED
  BY <1>1, <1>2 DEF HistoricoInv, HistoricoTypeOK, Folha, LeituraPossivel

LEMMA InvalidatePasso ==
  ASSUME HistoricoInv, InvalidateAndRefetchChats
  PROVE  HistoricoInv'
<1>1. /\ pendente' = FALSE /\ indice' = indice /\ pages' = pages /\ perdida' = perdida
      /\ mudancas' = mudancas
  BY DEF InvalidateAndRefetchChats
<1>2. ASSUME NEW tipo \in {"primeira", "releitura"}, NEW alvo \in Nat,
             leitura' = Leitura(tipo, SemPaginas, alvo), tipo = "releitura" => pages.numero > 0
      PROVE  HistoricoInv'
  <2>1. /\ leitura' \in LeituraPossivel /\ leitura'.tipo = tipo
        /\ leitura'.lidas = SemPaginas /\ leitura'.velha = FALSE
    BY <1>2, Folhas DEF Leitura, LeituraPossivel
  <2>2. HistoricoTypeOK'
    BY <1>1, <2>1 DEF HistoricoInv, HistoricoTypeOK
  <2>3. ComPaginas'
    BY <1>1, <1>2, <2>1 DEF ComPaginas
  <2>4. Boa(SemPaginas)'
    BY DEF Boa, SemPaginas
  <2>5. PaginasBoas'
    BY <1>1, <1>2, <2>1, <2>4 DEF PaginasBoas, Boa
  <2> QED
    BY <2>2, <2>3, <2>5 DEF HistoricoInv
<1>3. CASE pages.numero > 0 \/ ~EmLeitura
  <2>1. pages.numero \in Nat /\ 1 \in Nat
    BY Folhas
  <2>2. \/ leitura' = Leitura("releitura", SemPaginas, pages.numero) /\ pages.numero > 0
        \/ leitura' = Leitura("primeira", SemPaginas, 1)
    BY <1>3 DEF InvalidateAndRefetchChats
  <2> QED
    BY <1>2, <2>1, <2>2
<1>4. CASE ~(pages.numero > 0 \/ ~EmLeitura)
  <2>1. leitura' = [leitura EXCEPT !.velha = TRUE]
    BY <1>4 DEF InvalidateAndRefetchChats
  <2>2. /\ leitura' \in LeituraPossivel /\ leitura'.tipo = leitura.tipo
        /\ leitura'.velha = TRUE
    BY <2>1, Folhas DEF LeituraPossivel
  <2>3. leitura.tipo = "primeira"
    BY <1>4, Folhas DEF HistoricoInv, ComPaginas, EmLeitura, LeituraPossivel
  <2>4. HistoricoTypeOK'
    BY <1>1, <2>2 DEF HistoricoInv, HistoricoTypeOK
  <2>5. ComPaginas' /\ PaginasBoas'
    BY <2>2, <2>3 DEF ComPaginas, PaginasBoas
  <2> QED
    BY <2>4, <2>5 DEF HistoricoInv
<1> QED
  BY <1>3, <1>4

LEMMA ScrollPasso ==
  ASSUME HistoricoInv, HandleScroll
  PROVE  HistoricoInv'
<1> DEFINE alvo == pages.numero + 1
<1>1. /\ pages.numero > 0 /\ leitura' = Leitura("proxima", pages, alvo)
      /\ perdida' = (perdida \/ EmLeitura) /\ leitura.tipo # "proxima"
      /\ indice' = indice /\ pages' = pages /\ pendente' = pendente /\ mudancas' = mudancas
  BY DEF HandleScroll, HasNextPage
<1>2. alvo \in Nat
  BY Folhas
<1> HIDE DEF alvo
<1>3. /\ leitura' \in LeituraPossivel /\ leitura'.tipo = "proxima"
      /\ leitura'.lidas = pages /\ leitura'.velha = FALSE
  BY <1>1, <1>2, Folhas DEF Leitura, LeituraPossivel
<1>4. HistoricoTypeOK'
  BY <1>1, <1>3 DEF HistoricoInv, HistoricoTypeOK
<1>5. ComPaginas'
  BY <1>1, <1>3 DEF ComPaginas
<1>6. ~pendente /\ ~perdida' => Boa(pages)
  BY <1>1 DEF HistoricoInv, PaginasBoas, EmLeitura
<1>7. PaginasBoas'
  BY <1>1, <1>3, <1>6 DEF PaginasBoas, Boa, Ate
<1> QED
  BY <1>4, <1>5, <1>7 DEF HistoricoInv

LEMMA FetchPasso ==
  ASSUME HistoricoInv, FetchChats
  PROVE  HistoricoInv'
<1> DEFINE ps == leitura.lidas
           lidas == Com(ps, ListarChats(PageParam(ps)))
<1>1. /\ EmLeitura /\ PageParam(ps) # FALSO /\ leitura' = [leitura EXCEPT !.lidas = lidas]
      /\ UNCHANGED <<indice, pages, pendente, perdida, mudancas>>
  BY DEF FetchChats, Lendo
<1>2. lidas \in Folha /\ (Boa(ps) => Boa(lidas))
  BY <1>1, Folhas, PaginaLida DEF HistoricoInv, HistoricoTypeOK
<1> HIDE DEF lidas
<1>3. /\ leitura' \in LeituraPossivel /\ leitura'.tipo = leitura.tipo
      /\ leitura'.lidas = lidas /\ leitura'.velha = leitura.velha
  BY <1>1, <1>2, Folhas DEF LeituraPossivel
<1>4. HistoricoTypeOK'
  BY <1>1, <1>3 DEF HistoricoInv, HistoricoTypeOK
<1>5. ComPaginas'
  BY <1>1, <1>3 DEF HistoricoInv, ComPaginas
<1>6. PaginasBoas'
  BY <1>1, <1>2, <1>3 DEF HistoricoInv, PaginasBoas, Boa, Ate
<1> QED
  BY <1>4, <1>5, <1>6 DEF HistoricoInv

(* The reading is over: what is kept is what was loaded, or what it read.   *)
LEMMA FimDaLeitura ==
  ASSUME HistoricoInv, EmLeitura, leitura' = SemLeitura, perdida' \in BOOLEAN,
         UNCHANGED <<indice, pendente, mudancas>>, pages' \in Folha,
         ~pendente /\ ~perdida' => Boa(pages')
  PROVE  HistoricoInv'
<1>1. leitura' \in LeituraPossivel /\ leitura'.tipo = "nenhuma" /\ ~leitura'.velha
  BY Folhas
<1>2. HistoricoTypeOK'
  BY <1>1 DEF HistoricoInv, HistoricoTypeOK
<1>3. ComPaginas' /\ PaginasBoas'
  BY <1>1 DEF ComPaginas, PaginasBoas, Boa, Ate
<1> QED
  BY <1>2, <1>3 DEF HistoricoInv

LEMMA RecusadaPasso ==
  ASSUME HistoricoInv, PaginaRecusada
  PROVE  HistoricoInv'
<1>1. /\ EmLeitura /\ leitura' = SemLeitura /\ perdida' = TRUE
      /\ UNCHANGED <<indice, pages, pendente, mudancas>>
  BY DEF PaginaRecusada, Lendo
<1> QED
  BY <1>1, Folhas, FimDaLeitura

LEMMA FalhaPasso ==
  ASSUME HistoricoInv, LeituraFalha
  PROVE  HistoricoInv'
<1>1. /\ EmLeitura /\ leitura' = SemLeitura /\ perdida' = (perdida \/ leitura.tipo # "proxima")
      /\ UNCHANGED <<indice, pages, pendente, mudancas>>
  BY DEF LeituraFalha
<1>2. ~pendente /\ ~perdida' => Boa(pages')
  BY <1>1 DEF HistoricoInv, PaginasBoas
<1>3. perdida' \in BOOLEAN
  BY <1>1 DEF HistoricoInv, HistoricoTypeOK
<1> QED
  BY <1>1, <1>2, <1>3, Folhas, FimDaLeitura

LEMMA TerminaPasso ==
  ASSUME HistoricoInv, LeituraTermina
  PROVE  HistoricoInv'
<1>1. /\ EmLeitura /\ leitura' = SemLeitura /\ pages' = leitura.lidas
      /\ perdida' = IF leitura.tipo = "proxima" THEN perdida ELSE leitura.velha
      /\ UNCHANGED <<indice, pendente, mudancas>>
  BY DEF LeituraTermina
<1>2. leitura.tipo \in {"primeira", "releitura", "proxima"}
  BY <1>1, Folhas DEF EmLeitura, LeituraPossivel
<1>3. ~pendente /\ ~perdida' => Boa(leitura.lidas)
  BY <1>1, <1>2 DEF HistoricoInv, PaginasBoas
<1>4. perdida' \in BOOLEAN
  BY <1>1, Folhas DEF HistoricoInv, HistoricoTypeOK
<1> QED
  BY <1>1, <1>3, <1>4, Folhas, FimDaLeitura

LEMMA HistoricoPasso == HistoricoInv /\ [NextHistorico]_varsHistorico => HistoricoInv'
<1> SUFFICES ASSUME HistoricoInv, [NextHistorico]_varsHistorico PROVE HistoricoInv'
  OBVIOUS
<1>1. ASSUME NEW c \in ChatDaLista, Sobe(c) \/ Sai(c) PROVE HistoricoInv'
  <2>1. SemOChat(c) \in Seq(ChatDaLista)
    BY SemOChatTipo DEF HistoricoInv, HistoricoTypeOK
  <2>2. <<c>> \in Seq(ChatDaLista)
    BY <1>1
  <2>3. <<c>> \o SemOChat(c) \in Seq(ChatDaLista)
    BY <2>1, <2>2, ConcatProperties
  <2> QED
    BY <1>1, <2>1, <2>3, MudaPasso DEF Sobe, Sai
<1>2. CASE InvalidateAndRefetchChats
  BY <1>2, InvalidatePasso
<1>3. CASE HandleScroll
  BY <1>3, ScrollPasso
<1>4. CASE FetchChats
  BY <1>4, FetchPasso
<1>5. CASE PaginaRecusada
  BY <1>5, RecusadaPasso
<1>6. CASE LeituraFalha
  BY <1>6, FalhaPasso
<1>7. CASE LeituraTermina
  BY <1>7, TerminaPasso
<1>8. CASE UNCHANGED varsHistorico
  BY <1>8 DEF varsHistorico, HistoricoInv, HistoricoTypeOK, ComPaginas, PaginasBoas, Boa,
              Ate
<1> QED
  BY <1>1, <1>2, <1>3, <1>4, <1>5, <1>6, <1>7, <1>8 DEF NextHistorico

LEMMA HistoricoSemSaltos == HistoricoInv => ListaSemSaltos
<1> DEFINE n == pages.numero
           t == SubSeq(indice, 1, Ate(n))
<1> SUFFICES ASSUME HistoricoInv, ~EmLeitura, ~pendente, ~perdida
             PROVE  /\ IsPrefix(pages.chats, indice)
                    /\ n > 0 => (HasNextPage <=> Len(pages.chats) < Len(indice))
  BY DEF ListaSemSaltos, ChatsMostrados
<1>1. Boa(pages)
  BY DEF HistoricoInv, PaginasBoas, EmLeitura
<1>2. indice \in Seq(ChatDaLista) /\ n \in Nat /\ Len(indice) \in Nat
  BY Folhas DEF HistoricoInv, HistoricoTypeOK
<1>3. CASE n = 0
  <2>1. pages.chats = <<>>
    BY <1>1, <1>3 DEF Boa, SemPaginas
  <2>2. SubSeq(pages.chats, 1, 0) = <<>> /\ SubSeq(indice, 1, 0) = <<>> /\ Len(pages.chats) = 0
    BY <2>1, SubSeqEmpty
  <2> QED
    BY <1>2, <1>3, <2>2 DEF IsPrefix
<1>4. CASE n > 0
  <2>1. pages.chats = t /\ pages.total = Len(indice)
    BY <1>1, <1>4 DEF Boa
  <2>2. Ate(n) \in Nat /\ Ate(n) <= Len(indice)
    BY <1>2, AteSeguinte
  <2>3. t \in Seq(ChatDaLista) /\ Len(t) = Ate(n)
    BY <1>2, <2>2, SubSeqProperties
  <2>4. SubSeq(t, 1, Len(t)) = t
    BY <2>3, SubSeqFull
  <2>5. IsPrefix(t, indice)
    BY <2>2, <2>3, <2>4 DEF IsPrefix
  <2>6. HasNextPage <=> Len(pages.chats) < Len(indice)
    <3>1. n + 1 # 0
      BY <1>2
    <3> QED
      BY <1>4, <2>1, <3>1 DEF HasNextPage, ProximaPagina, FALSO
  <2> QED
    BY <2>1, <2>5, <2>6
<1> QED
  BY <1>2, <1>3, <1>4

\* At rest a list of the sidebar is the first chats of the index at the server, none skipped,
\* and scrolling brings more exactly when there are more, however many chats, pages and
\* changes of the index between two pages there were, unless the last reading was refused,
\* dropped or begun before the change (historyContentFunctions.ts:130-183).
THEOREM ListaSempreSemSaltos == SpecHistorico => []ListaSemSaltos
<1>1. InitHistorico => HistoricoInv
  BY HistoricoNoInicio
<1>2. HistoricoInv /\ [NextHistorico]_varsHistorico => HistoricoInv'
  BY HistoricoPasso
<1>3. HistoricoInv => ListaSemSaltos
  BY HistoricoSemSaltos
<1> QED
  BY <1>1, <1>2, <1>3, PTL DEF SpecHistorico

-----------------------------------------------------------------------------
(* The store of specialists.                                               *)

Cartao == [categoria : Categoria, numero : Nat]
PaginasPossiveis == [lidos : Seq(Cartao), numero : Nat, total : Nat]
ConsultaPossivel ==
  [pages : PaginasPossiveis, pedido : {"nenhum", "pedido", "listado"}, itens : Seq(Cartao)]

LojaTypeOK ==
  /\ especialistas \in [Categoria -> Nat]
  /\ aberta \in BOOLEAN
  /\ selectedCategory \in Categoria /\ filtro \in Chave
  /\ consultas \in [Chave -> ConsultaPossivel]
  /\ saltou \subseteq Chave
  /\ passosNaLoja \in Nat
  /\ DOMAIN especialistasPorTipo \subseteq Categoria
  /\ \A c \in DOMAIN especialistasPorTipo : especialistasPorTipo[c] \in Seq(Cartao)

\* The sequence s has the specialists of category c that follow the first n.
Seguem(s, c, n) == \A i \in 1..Len(s) : s[i] = [categoria |-> c, numero |-> n + i]

\* What a key loads is of its category.
DaCategoria ==
  \A k \in Chave :
    /\ \A i \in 1..Len(consultas[k].pages.lidos) :
         consultas[k].pages.lidos[i].categoria = CategoriaDe(k)
    /\ \A i \in 1..Len(consultas[k].itens) : consultas[k].itens[i].categoria = CategoriaDe(k)

\* The pages of a key of which none failed or was counted late, and the one being read.
PaginasCheias ==
  \A k \in Chave \ saltou :
    LET ps == consultas[k].pages
        n == Len(ps.lidos)
        itens == consultas[k].itens
        c == CategoriaDe(k)
    IN /\ Seguem(ps.lidos, c, 0) /\ n <= especialistas[c]
       /\ n <= ps.total /\ (n < ps.total => n = ps.numero * CartoesPorPagina)
       /\ ps.numero = 0 => n = 0
       /\ consultas[k].pedido # "nenhum" => ps.numero = 0 \/ n < ps.total
       /\ consultas[k].pedido = "listado" =>
            /\ Seguem(itens, c, n) /\ n + Len(itens) <= especialistas[c]
            /\ Len(itens) <= CartoesPorPagina

\* The tab on the screen, and what it shows.
AbaAtual ==
  /\ filtro \in {SemFiltro, selectedCategory}
  /\ filtro = SemFiltro => selectedCategory = MeusEspecialistas
  /\ selectedCategory \in DOMAIN especialistasPorTipo
  /\ aberta /\ consultas[ChaveAtual].pages.lidos # <<>> =>
       especialistasPorTipo[selectedCategory] = consultas[ChaveAtual].pages.lidos

\* The tabs of the categories of which no key failed or was counted late.
AbasBoas ==
  \A c \in DOMAIN especialistasPorTipo :
    (\A k \in saltou : CategoriaDe(k) # c) =>
      /\ Seguem(especialistasPorTipo[c], c, 0)
      /\ Len(especialistasPorTipo[c]) <= especialistas[c]

LojaInv == LojaTypeOK /\ DaCategoria /\ PaginasCheias /\ AbaAtual /\ AbasBoas

LEMMA CategoriaDaChave ==
  /\ \A k \in Chave : CategoriaDe(k) \in Categoria
  /\ \A c \in Categoria : c \in Chave /\ c # SemFiltro /\ CategoriaDe(c) = c
  /\ SemFiltro \in Chave /\ CategoriaDe(SemFiltro) = MeusEspecialistas
  /\ MeusEspecialistas \in Categoria
BY LojaAssumption DEF Chave, CategoriaDe

LEMMA ChaveDaAba ==
  ASSUME LojaInv
  PROVE  /\ ChaveAtual = filtro /\ ChaveAtual \in Chave
         /\ CategoriaDe(ChaveAtual) = selectedCategory
<1>1. CASE filtro = SemFiltro
  BY <1>1, CategoriaDaChave DEF LojaInv, AbaAtual, ChaveAtual, ChaveDe
<1>2. CASE filtro # SemFiltro
  BY <1>2, CategoriaDaChave DEF LojaInv, LojaTypeOK, AbaAtual, ChaveAtual, ChaveDe
<1> QED
  BY <1>1, <1>2

LEMMA ConsultaDe ==
  ASSUME LojaInv, NEW k \in Chave
  PROVE  /\ consultas[k] \in ConsultaPossivel /\ consultas[k].pages \in PaginasPossiveis
         /\ consultas[k].pages.lidos \in Seq(Cartao) /\ consultas[k].itens \in Seq(Cartao)
         /\ consultas[k].pages.numero \in Nat /\ consultas[k].pages.total \in Nat
         /\ consultas[k].pedido \in {"nenhum", "pedido", "listado"}
<1>1. consultas[k] \in ConsultaPossivel
  BY DEF LojaInv, LojaTypeOK
<1>2. consultas[k].pages \in PaginasPossiveis
  BY <1>1 DEF ConsultaPossivel
<1> QED
  BY <1>1, <1>2 DEF ConsultaPossivel, PaginasPossiveis

(* A step of the requests that reads nothing new.                          *)
LEMMA MesmasPaginas ==
  ASSUME LojaInv, consultas' \in [Chave -> ConsultaPossivel],
         saltou' = saltou, especialistas' = especialistas,
         \A k \in Chave :
           /\ consultas'[k].pages = consultas[k].pages
           /\ consultas'[k].itens \in {consultas[k].itens, <<>>}
           /\ \/ consultas'[k].pedido = "nenhum"
              \/ /\ consultas'[k].pedido = consultas[k].pedido
                 /\ consultas'[k].itens = consultas[k].itens
              \/ /\ consultas'[k].pedido = "pedido"
                 /\ \/ consultas[k].pages.numero = 0
                    \/ Len(consultas[k].pages.lidos) < consultas[k].pages.total
  PROVE  DaCategoria' /\ PaginasCheias'
<1>1. DaCategoria'
  BY DEF LojaInv, DaCategoria
<1>2. PaginasCheias'
  BY DEF LojaInv, PaginasCheias
<1> QED
  BY <1>1, <1>2

LEMMA PedeChaveDe ==
  ASSUME LojaInv, NEW k \in Chave
  PROVE  /\ PedeChave(k) \in [Chave -> ConsultaPossivel]
         /\ \A j \in Chave :
              /\ PedeChave(k)[j].pages = consultas[j].pages
              /\ PedeChave(k)[j].itens = consultas[j].itens
              /\ \/ PedeChave(k)[j].pedido = consultas[j].pedido
                 \/ PedeChave(k)[j].pedido = "pedido" /\ consultas[j].pages.numero = 0
<1> DEFINE q == [consultas[k] EXCEPT !.pedido = "pedido"]
<1>1. consultas \in [Chave -> ConsultaPossivel]
  BY DEF LojaInv, LojaTypeOK
<1>2. CASE consultas[k].pages.numero = 0 /\ consultas[k].pedido = "nenhum"
  <2>1. PedeChave(k) = [consultas EXCEPT ![k] = q]
    BY <1>2 DEF PedeChave
  <2>2. /\ q \in ConsultaPossivel /\ q.pages = consultas[k].pages /\ q.itens = consultas[k].itens
        /\ q.pedido = "pedido"
    BY <1>1 DEF ConsultaPossivel
  <2> HIDE DEF q
  <2> QED
    BY <1>1, <1>2, <2>1, <2>2
<1>3. CASE ~(consultas[k].pages.numero = 0 /\ consultas[k].pedido = "nenhum")
  BY <1>1, <1>3 DEF PedeChave
<1> QED
  BY <1>2, <1>3

\* The tab of c shows what was loaded, if anything was; the others stay.
Mostra(abas, r, c, ps) ==
  /\ DOMAIN r = DOMAIN abas
  /\ r[c] = IF ps.lidos = <<>> THEN abas[c] ELSE ps.lidos
  /\ \A d \in DOMAIN abas \ {c} : r[d] = abas[d]

LEMMA EfeitoDe ==
  ASSUME NEW abas, NEW c \in DOMAIN abas, NEW ps \in PaginasPossiveis,
         \A i \in 1..Len(ps.lidos) : ps.lidos[i].categoria = c
  PROVE  Mostra(abas, EfeitoDosDados(abas, c, ps), c, ps)
<1>1. CASE ps.lidos = <<>>
  BY <1>1 DEF EfeitoDosDados, Mostra
<1>2. CASE ps.lidos # <<>>
  <2>1. ps.lidos \in Seq(Cartao)
    BY DEF PaginasPossiveis
  <2>2. 1 \in 1..Len(ps.lidos)
    BY <1>2, <2>1
  <2>3. ps.lidos[1].categoria = c
    BY <2>2
  <2>4. EfeitoDosDados(abas, c, ps) = ComLista(abas, c, ps.lidos)
    BY <1>2, <2>3 DEF EfeitoDosDados
  <2> QED
    <3> DEFINE r == ComLista(abas, c, ps.lidos)
    <3>1. /\ DOMAIN r = DOMAIN abas \cup {c} /\ r[c] = ps.lidos
          /\ \A d \in DOMAIN abas \ {c} : r[d] = abas[d]
      BY DEF ComLista
    <3> HIDE DEF r
    <3>2. Mostra(abas, r, c, ps)
      BY <1>2, <3>1 DEF Mostra
    <3> QED
      BY <2>4, <3>2 DEF r
<1> QED
  BY <1>1, <1>2

LEMMA LojaNoInicio == InitLoja => LojaInv
<1> SUFFICES ASSUME InitLoja PROVE LojaInv
  OBVIOUS
<1>1. DOMAIN AbasNovas = {MeusEspecialistas} /\ AbasNovas[MeusEspecialistas] = <<>>
  BY DEF AbasNovas
<1>2. \A k \in Chave : consultas[k] = [pages |-> NadaLido, pedido |-> "nenhum", itens |-> <<>>]
  BY DEF InitLoja
<1>3. [pages |-> NadaLido, pedido |-> "nenhum", itens |-> <<>>] \in ConsultaPossivel
  BY DEF ConsultaPossivel, PaginasPossiveis, NadaLido
<1>4. LojaTypeOK
  <2> DEFINE q == [pages |-> NadaLido, pedido |-> "nenhum", itens |-> <<>>]
  <2>1. consultas \in [Chave -> ConsultaPossivel]
    <3>1. consultas = [k \in Chave |-> q] /\ q \in ConsultaPossivel
      BY <1>3 DEF InitLoja
    <3> HIDE DEF q
    <3> QED
      BY <3>1
  <2>2. especialistas \in [Categoria -> Nat]
    BY LojaAssumption DEF InitLoja
  <2>3. /\ DOMAIN especialistasPorTipo \subseteq Categoria
        /\ \A c \in DOMAIN especialistasPorTipo : especialistasPorTipo[c] \in Seq(Cartao)
    BY <1>1, LojaAssumption DEF InitLoja
  <2> QED
    BY <2>1, <2>2, <2>3, LojaAssumption DEF InitLoja, LojaTypeOK, Chave
<1>5. DaCategoria
  BY <1>2 DEF DaCategoria, NadaLido
<1>6. PaginasCheias
  <2>1. 0 * CartoesPorPagina = 0
    BY LojaAssumption
  <2>2. \A c \in Categoria : 0 <= especialistas[c]
    BY <1>4 DEF LojaTypeOK
  <2> QED
    <3>1. ASSUME NEW k \in Chave
          PROVE  /\ consultas[k].pages.lidos = <<>> /\ consultas[k].pages.numero = 0
                 /\ consultas[k].pages.total = 0 /\ consultas[k].pedido = "nenhum"
                 /\ Len(consultas[k].pages.lidos) = 0 /\ 0 <= especialistas[CategoriaDe(k)]
      BY <1>2, <2>2, CategoriaDaChave DEF NadaLido
    <3>2. \A c : Seguem(<<>>, c, 0)
      BY DEF Seguem
    <3>3. ASSUME NEW k \in Chave
          PROVE  LET ps == consultas[k].pages
                     n == Len(ps.lidos)
                     c == CategoriaDe(k)
                 IN /\ Seguem(ps.lidos, c, 0) /\ n <= especialistas[c]
                    /\ n <= ps.total /\ ~(n < ps.total) /\ n = 0
                    /\ consultas[k].pedido = "nenhum"
      BY <3>1, <3>2
    <3> QED
      BY <3>3 DEF PaginasCheias
<1>7. AbaAtual
  BY <1>1 DEF InitLoja, AbaAtual
<1>8. AbasBoas
  BY <1>1, <1>4 DEF InitLoja, AbasBoas, Seguem, LojaTypeOK
<1> QED
  BY <1>4, <1>5, <1>6, <1>7, <1>8 DEF LojaInv

(* The tab of key k is on the screen, with what k has loaded.              *)
LEMMA AbaMostrada ==
  ASSUME NEW abas, NEW k \in Chave, filtro' = k, selectedCategory' = CategoriaDe(k),
         consultas' \in [Chave -> ConsultaPossivel], PaginasCheias',
         DOMAIN abas \subseteq Categoria, CategoriaDe(k) \in DOMAIN abas,
         \A d \in DOMAIN abas :
           /\ abas[d] \in Seq(Cartao)
           /\ (\A j \in saltou' : CategoriaDe(j) # d) =>
                Seguem(abas[d], d, 0) /\ Len(abas[d]) <= especialistas'[d],
         Mostra(abas, especialistasPorTipo', CategoriaDe(k), consultas'[k].pages)
  PROVE  /\ DOMAIN especialistasPorTipo' \subseteq Categoria
         /\ \A d \in DOMAIN especialistasPorTipo' : especialistasPorTipo'[d] \in Seq(Cartao)
         /\ AbaAtual' /\ AbasBoas'
<1> DEFINE c == CategoriaDe(k)
           s == consultas'[k].pages.lidos
<1>1. /\ DOMAIN especialistasPorTipo' = DOMAIN abas
      /\ especialistasPorTipo'[c] = IF s = <<>> THEN abas[c] ELSE s
      /\ \A d \in DOMAIN abas \ {c} : especialistasPorTipo'[d] = abas[d]
  BY DEF Mostra
<1>2. s \in Seq(Cartao)
  <2>1. consultas'[k] \in ConsultaPossivel
    OBVIOUS
  <2> QED
    BY <2>1 DEF ConsultaPossivel, PaginasPossiveis
<1>3. k \notin saltou' => Seguem(s, c, 0) /\ Len(s) <= especialistas'[c]
  BY DEF PaginasCheias
<1>4. filtro' \in {SemFiltro, selectedCategory'}
      /\ (filtro' = SemFiltro => selectedCategory' = MeusEspecialistas)
      /\ ChaveAtual' = k
  BY CategoriaDaChave DEF CategoriaDe, ChaveAtual, ChaveDe
<1> HIDE DEF s
<1>5. \A d \in DOMAIN especialistasPorTipo' : especialistasPorTipo'[d] \in Seq(Cartao)
  BY <1>1, <1>2
<1>6. AbaAtual'
  BY <1>1, <1>4 DEF AbaAtual, s
<1>7. AbasBoas'
  <2>1. SUFFICES ASSUME NEW d \in DOMAIN abas, \A j \in saltou' : CategoriaDe(j) # d
                 PROVE  /\ Seguem(especialistasPorTipo'[d], d, 0)
                        /\ Len(especialistasPorTipo'[d]) <= especialistas'[d]
    BY <1>1 DEF AbasBoas
  <2>2. CASE d = c
    <3>1. k \notin saltou'
      BY <2>1, <2>2
    <3> QED
      BY <1>1, <1>3, <2>1, <2>2, <3>1
  <2>3. CASE d # c
    BY <1>1, <2>1, <2>3
  <2> QED
    BY <2>2, <2>3
<1> QED
  BY <1>1, <1>5, <1>6, <1>7

(* The tabs stay as they are.                                              *)
LEMMA AbaParada ==
  ASSUME LojaInv, UNCHANGED <<selectedCategory, filtro, especialistasPorTipo>>,
         aberta' => aberta /\ consultas'[ChaveAtual].pages = consultas[ChaveAtual].pages,
         saltou \subseteq saltou', especialistas' \in [Categoria -> Nat],
         \A c \in Categoria : especialistas[c] <= especialistas'[c]
  PROVE  AbaAtual' /\ AbasBoas'
<1>1. ChaveAtual' = ChaveAtual
  BY DEF ChaveAtual
<1>2. AbaAtual'
  BY <1>1 DEF LojaInv, AbaAtual
<1>3. AbasBoas'
  <2>1. SUFFICES ASSUME NEW d \in DOMAIN especialistasPorTipo, \A j \in saltou' : CategoriaDe(j) # d
                 PROVE  /\ Seguem(especialistasPorTipo[d], d, 0)
                        /\ Len(especialistasPorTipo[d]) <= especialistas'[d]
    BY DEF AbasBoas
  <2>2. /\ Seguem(especialistasPorTipo[d], d, 0)
        /\ Len(especialistasPorTipo[d]) <= especialistas[d]
    BY <2>1 DEF LojaInv, AbasBoas
  <2>3. d \in Categoria /\ especialistasPorTipo[d] \in Seq(Cartao)
    BY DEF LojaInv, LojaTypeOK
  <2>4. especialistas[d] \in Nat /\ especialistas'[d] \in Nat /\ Len(especialistasPorTipo[d]) \in Nat
    BY <2>3 DEF LojaInv, LojaTypeOK
  <2> QED
    BY <2>2, <2>3, <2>4
<1> QED
  BY <1>2, <1>3

LEMMA AbrePasso ==
  ASSUME LojaInv, passosNaLoja' \in Nat, AbreEspecialistas
  PROVE  LojaInv'
<1> DEFINE ps == consultas[SemFiltro].pages
<1>1. /\ aberta' = TRUE /\ selectedCategory' = MeusEspecialistas /\ filtro' = SemFiltro
      /\ especialistasPorTipo' = EfeitoDosDados(AbasNovas, MeusEspecialistas, ps)
      /\ consultas' = PedeChave(SemFiltro)
      /\ especialistas' = especialistas /\ saltou' = saltou
  BY DEF AbreEspecialistas
<1>2. /\ consultas' \in [Chave -> ConsultaPossivel]
      /\ \A j \in Chave :
           /\ consultas'[j].pages = consultas[j].pages
           /\ consultas'[j].itens = consultas[j].itens
           /\ \/ consultas'[j].pedido = consultas[j].pedido
              \/ consultas'[j].pedido = "pedido" /\ consultas[j].pages.numero = 0
  BY <1>1, PedeChaveDe, CategoriaDaChave
<1>3. DaCategoria' /\ PaginasCheias'
  BY <1>1, <1>2, MesmasPaginas
<1>4. ps \in PaginasPossiveis /\ \A i \in 1..Len(ps.lidos) : ps.lidos[i].categoria = MeusEspecialistas
  BY CategoriaDaChave, ConsultaDe DEF LojaInv, DaCategoria
<1>5. /\ DOMAIN AbasNovas = {MeusEspecialistas} /\ AbasNovas[MeusEspecialistas] = <<>>
      /\ MeusEspecialistas \in Categoria
  BY CategoriaDaChave DEF AbasNovas
<1>6. Mostra(AbasNovas, especialistasPorTipo', MeusEspecialistas, ps)
  BY <1>1, <1>4, <1>5, EfeitoDe
<1>7. /\ <<>> \in Seq(Cartao) /\ Len(<<>>) <= especialistas[MeusEspecialistas]
      /\ Seguem(<<>>, MeusEspecialistas, 0)
  BY <1>5 DEF LojaInv, LojaTypeOK, Seguem
<1>8. consultas'[SemFiltro].pages = ps
  BY <1>2, CategoriaDaChave
<1> HIDE DEF ps
<1>9. /\ DOMAIN especialistasPorTipo' \subseteq Categoria
      /\ \A d \in DOMAIN especialistasPorTipo' : especialistasPorTipo'[d] \in Seq(Cartao)
      /\ AbaAtual' /\ AbasBoas'
  BY <1>1, <1>2, <1>3, <1>5, <1>6, <1>7, <1>8, CategoriaDaChave, AbaMostrada
<1>10. LojaTypeOK'
  BY <1>1, <1>2, <1>9, CategoriaDaChave DEF LojaInv, LojaTypeOK
<1> QED
  BY <1>3, <1>9, <1>10 DEF LojaInv

LEMMA FechaPasso ==
  ASSUME LojaInv, passosNaLoja' \in Nat, FechaEspecialistas
  PROVE  LojaInv'
<1>1. /\ aberta' = FALSE
      /\ UNCHANGED <<especialistas, selectedCategory, filtro, especialistasPorTipo, consultas,
                     saltou>>
  BY DEF FechaEspecialistas
<1>2. LojaTypeOK'
  BY <1>1 DEF LojaInv, LojaTypeOK
<1>3. DaCategoria' /\ PaginasCheias'
  BY <1>1 DEF LojaInv, DaCategoria, PaginasCheias
<1>4. AbaAtual' /\ AbasBoas'
  BY <1>1 DEF LojaInv, AbaAtual, AbasBoas
<1> QED
  BY <1>2, <1>3, <1>4 DEF LojaInv

LEMMA AbaAbertaDe ==
  ASSUME LojaInv, NEW c \in Categoria
  PROVE  /\ DOMAIN AbaAberta(c) = DOMAIN especialistasPorTipo \cup {c}
         /\ \A d \in DOMAIN AbaAberta(c) :
              /\ AbaAberta(c)[d] \in Seq(Cartao)
              /\ (\A j \in saltou : CategoriaDe(j) # d) =>
                   Seguem(AbaAberta(c)[d], d, 0) /\ Len(AbaAberta(c)[d]) <= especialistas[d]
         /\ \A d \in DOMAIN especialistasPorTipo : AbaAberta(c)[d] = especialistasPorTipo[d]
<1>1. /\ DOMAIN AbaAberta(c) = DOMAIN especialistasPorTipo \cup {c}
      /\ \A d \in DOMAIN especialistasPorTipo : AbaAberta(c)[d] = especialistasPorTipo[d]
      /\ c \notin DOMAIN especialistasPorTipo => AbaAberta(c)[c] = <<>>
  BY DEF AbaAberta, ComLista
<1>2. <<>> \in Seq(Cartao) /\ Seguem(<<>>, c, 0) /\ Len(<<>>) <= especialistas[c]
  BY DEF LojaInv, LojaTypeOK, Seguem
<1>3. ASSUME NEW d \in DOMAIN especialistasPorTipo
      PROVE  /\ especialistasPorTipo[d] \in Seq(Cartao)
             /\ (\A j \in saltou : CategoriaDe(j) # d) =>
                  /\ Seguem(especialistasPorTipo[d], d, 0)
                  /\ Len(especialistasPorTipo[d]) <= especialistas[d]
  BY DEF LojaInv, LojaTypeOK, AbasBoas
<1> QED
  BY <1>1, <1>2, <1>3

LEMMA TabClickPasso ==
  ASSUME LojaInv, passosNaLoja' \in Nat, NEW c \in Categoria, HandleTabClick(c)
  PROVE  LojaInv'
<1> DEFINE ps == consultas[c].pages
           abas == AbaAberta(c)
<1>1. /\ aberta /\ aberta' = aberta /\ selectedCategory' = c /\ filtro' = c
      /\ especialistas' = especialistas /\ saltou' = saltou
      /\ IF c = ChaveAtual THEN especialistasPorTipo' = abas /\ consultas' = consultas
         ELSE /\ especialistasPorTipo' = EfeitoDosDados(abas, c, ps)
              /\ consultas' = PedeChave(c)
  BY DEF HandleTabClick
<1>2. c \in Chave /\ CategoriaDe(c) = c
  BY CategoriaDaChave
<1>3. /\ consultas' \in [Chave -> ConsultaPossivel]
      /\ \A j \in Chave :
           /\ consultas'[j].pages = consultas[j].pages
           /\ consultas'[j].itens = consultas[j].itens
           /\ \/ consultas'[j].pedido = consultas[j].pedido
              \/ consultas'[j].pedido = "pedido" /\ consultas[j].pages.numero = 0
  BY <1>1, <1>2, PedeChaveDe DEF LojaInv, LojaTypeOK
<1>4. DaCategoria' /\ PaginasCheias'
  BY <1>1, <1>3, MesmasPaginas
<1>5. ps \in PaginasPossiveis /\ \A i \in 1..Len(ps.lidos) : ps.lidos[i].categoria = c
  BY <1>2, ConsultaDe DEF LojaInv, DaCategoria
<1>6. /\ c \in DOMAIN abas /\ DOMAIN abas \subseteq Categoria
      /\ \A d \in DOMAIN abas :
           /\ abas[d] \in Seq(Cartao)
           /\ (\A j \in saltou : CategoriaDe(j) # d) =>
                Seguem(abas[d], d, 0) /\ Len(abas[d]) <= especialistas[d]
      /\ \A d \in DOMAIN especialistasPorTipo : abas[d] = especialistasPorTipo[d]
  BY AbaAbertaDe DEF LojaInv, LojaTypeOK
<1> HIDE DEF abas, ps
<1>7. Mostra(abas, especialistasPorTipo', c, ps)
  <2>1. CASE c = ChaveAtual
    <3>1. selectedCategory = c /\ c \in DOMAIN especialistasPorTipo
      BY <1>2, <2>1, ChaveDaAba DEF LojaInv, AbaAtual
    <3>2. ps.lidos # <<>> => especialistasPorTipo[c] = ps.lidos
      BY <1>1, <2>1, <3>1 DEF LojaInv, AbaAtual, ps
    <3> QED
      BY <1>1, <1>6, <2>1, <3>1, <3>2 DEF Mostra
  <2>2. CASE c # ChaveAtual
    BY <1>1, <1>5, <1>6, <2>2, EfeitoDe
  <2> QED
    BY <2>1, <2>2
<1>8. consultas'[c].pages = ps
  BY <1>2, <1>3 DEF ps
<1>9. /\ DOMAIN especialistasPorTipo' \subseteq Categoria
      /\ \A d \in DOMAIN especialistasPorTipo' : especialistasPorTipo'[d] \in Seq(Cartao)
      /\ AbaAtual' /\ AbasBoas'
  BY <1>1, <1>2, <1>3, <1>4, <1>6, <1>7, <1>8, AbaMostrada
<1>10. LojaTypeOK'
  BY <1>1, <1>2, <1>3, <1>9 DEF LojaInv, LojaTypeOK
<1> QED
  BY <1>4, <1>9, <1>10 DEF LojaInv

(* A request starts, or fails, and the tabs do not change.                  *)
LEMMA PedidoPasso ==
  ASSUME LojaInv, passosNaLoja' \in Nat, NEW k \in Chave, NEW x \in {"nenhum", "pedido"},
         x = "pedido" => TemVerMais(consultas[k].pages),
         consultas' = [consultas EXCEPT ![k] = [consultas[k] EXCEPT !.pedido = x, !.itens = <<>>]],
         UNCHANGED <<especialistas, aberta, selectedCategory, filtro, especialistasPorTipo, saltou>>
  PROVE  LojaInv'
<1> DEFINE q == [consultas[k] EXCEPT !.pedido = x, !.itens = <<>>]
<1>1. consultas \in [Chave -> ConsultaPossivel]
  BY DEF LojaInv, LojaTypeOK
<1>2. <<>> \in Seq(Cartao)
  OBVIOUS
<1>3. q \in ConsultaPossivel /\ q.pages = consultas[k].pages /\ q.pedido = x /\ q.itens = <<>>
  BY <1>1, <1>2 DEF ConsultaPossivel
<1>4. consultas' = [consultas EXCEPT ![k] = q]
  OBVIOUS
<1> HIDE DEF q
<1>5. /\ consultas' \in [Chave -> ConsultaPossivel] /\ consultas'[k] = q
      /\ \A j \in Chave \ {k} : consultas'[j] = consultas[j]
  BY <1>1, <1>3, <1>4
<1>6. \A j \in Chave :
        /\ consultas'[j].pages = consultas[j].pages
        /\ consultas'[j].itens \in {consultas[j].itens, <<>>}
        /\ \/ consultas'[j].pedido = "nenhum"
           \/ /\ consultas'[j].pedido = consultas[j].pedido
              /\ consultas'[j].itens = consultas[j].itens
           \/ /\ consultas'[j].pedido = "pedido"
              /\ \/ consultas[j].pages.numero = 0
                 \/ Len(consultas[j].pages.lidos) < consultas[j].pages.total
  BY <1>3, <1>5 DEF TemVerMais
<1>7. DaCategoria' /\ PaginasCheias'
  BY <1>5, <1>6, MesmasPaginas
<1>8. AbaAtual' /\ AbasBoas'
  <2>1. consultas'[ChaveAtual].pages = consultas[ChaveAtual].pages
    BY <1>6, ChaveDaAba
  <2>2. especialistas' \in [Categoria -> Nat] /\ \A c \in Categoria : especialistas[c] <= especialistas'[c]
    BY DEF LojaInv, LojaTypeOK
  <2> QED
    BY <2>1, <2>2, AbaParada
<1>9. LojaTypeOK'
  BY <1>5 DEF LojaInv, LojaTypeOK
<1> QED
  BY <1>7, <1>8, <1>9 DEF LojaInv

LEMMA NovoPasso ==
  ASSUME LojaInv, passosNaLoja' \in Nat, NEW c \in Categoria, EspecialistaNovo(c)
  PROVE  LojaInv'
<1>1. /\ especialistas' = [especialistas EXCEPT ![c] = especialistas[c] + 1]
      /\ UNCHANGED <<aberta, selectedCategory, filtro, especialistasPorTipo, consultas, saltou>>
  BY DEF EspecialistaNovo
<1>2. /\ especialistas' \in [Categoria -> Nat]
      /\ \A d \in Categoria : especialistas[d] <= especialistas'[d]
  BY <1>1 DEF LojaInv, LojaTypeOK
<1>3. LojaTypeOK'
  BY <1>1, <1>2 DEF LojaInv, LojaTypeOK
<1>4. DaCategoria'
  BY <1>1 DEF LojaInv, DaCategoria
<1>5. AbaAtual' /\ AbasBoas'
  BY <1>1, <1>2, AbaParada
<1>6. PaginasCheias'
  <2>1. SUFFICES ASSUME NEW k \in Chave \ saltou
                 PROVE  /\ Len(consultas[k].pages.lidos) <= especialistas'[CategoriaDe(k)]
                        /\ consultas[k].pedido = "listado" =>
                             Len(consultas[k].pages.lidos) + Len(consultas[k].itens)
                               <= especialistas'[CategoriaDe(k)]
    BY <1>1 DEF LojaInv, PaginasCheias
  <2> DEFINE n == Len(consultas[k].pages.lidos)
             m == Len(consultas[k].itens)
             d == CategoriaDe(k)
  <2>2. n \in Nat /\ m \in Nat
    BY ConsultaDe
  <2>3. n <= especialistas[d] /\ (consultas[k].pedido = "listado" => n + m <= especialistas[d])
    BY DEF LojaInv, PaginasCheias
  <2>4. d \in Categoria /\ especialistas[d] \in Nat /\ especialistas'[d] \in Nat
        /\ especialistas[d] <= especialistas'[d]
    BY <1>2, CategoriaDaChave DEF LojaInv, LojaTypeOK
  <2> HIDE DEF n, m, d
  <2>5. n <= especialistas'[d] /\ (consultas[k].pedido = "listado" => n + m <= especialistas'[d])
    BY <2>2, <2>3, <2>4
  <2> QED
    BY <2>5 DEF n, m, d
<1> QED
  BY <1>3, <1>4, <1>5, <1>6 DEF LojaInv

LEMMA FetchNextPasso ==
  ASSUME LojaInv, passosNaLoja' \in Nat, FetchNextPage
  PROVE  LojaInv'
<1> DEFINE k == ChaveAtual
<1>1. /\ TemVerMais(consultas[k].pages)
      /\ consultas' = [consultas EXCEPT ![k] =
                         [consultas[k] EXCEPT !.pedido = "pedido", !.itens = <<>>]]
      /\ UNCHANGED <<especialistas, aberta, selectedCategory, filtro, especialistasPorTipo, saltou>>
  <2>1. /\ TemVerMais(consultas[k].pages)
        /\ consultas' = [consultas EXCEPT ![k].pedido = "pedido", ![k].itens = <<>>]
        /\ UNCHANGED <<especialistas, aberta, selectedCategory, filtro, especialistasPorTipo, saltou>>
    BY DEF FetchNextPage
  <2>2. consultas \in [Chave -> ConsultaPossivel] /\ k \in Chave
    BY ChaveDaAba DEF LojaInv, LojaTypeOK
  <2> HIDE DEF k
  <2> QED
    BY <2>1, <2>2
<1>2. k \in Chave
  BY ChaveDaAba
<1> HIDE DEF k
<1> QED
  BY <1>1, <1>2, PedidoPasso

LEMMA FalhaConsultaPasso ==
  ASSUME LojaInv, passosNaLoja' \in Nat, NEW k \in Chave, FalhaConsulta(k)
  PROVE  LojaInv'
<1>1. /\ consultas' = [consultas EXCEPT ![k] =
                         [consultas[k] EXCEPT !.pedido = "nenhum", !.itens = <<>>]]
      /\ UNCHANGED <<especialistas, aberta, selectedCategory, filtro, especialistasPorTipo, saltou>>
  <2>1. /\ consultas' = [consultas EXCEPT ![k].pedido = "nenhum", ![k].itens = <<>>]
        /\ UNCHANGED <<especialistas, aberta, selectedCategory, filtro, especialistasPorTipo, saltou>>
    BY DEF FalhaConsulta
  <2>2. consultas \in [Chave -> ConsultaPossivel]
    BY DEF LojaInv, LojaTypeOK
  <2> QED
    BY <2>1, <2>2
<1> QED
  BY <1>1, PedidoPasso

(* The page the server reads.                                              *)
LEMMA PaginaDaLoja ==
  ASSUME NEW c \in Categoria, especialistas[c] \in Nat, NEW n \in Nat,
         NEW fim, fim = IF n + CartoesPorPagina < especialistas[c] THEN n + CartoesPorPagina
                        ELSE especialistas[c]
  PROVE  LET pagina == SubSeq(NaLoja(c), n + 1, fim)
         IN /\ pagina \in Seq(Cartao) /\ Seguem(pagina, c, n)
            /\ Len(pagina) <= CartoesPorPagina
            /\ n <= especialistas[c] => n + Len(pagina) <= especialistas[c]
<1> DEFINE s == NaLoja(c)
           pagina == SubSeq(s, n + 1, fim)
<1>1. /\ fim \in Nat /\ fim <= especialistas[c] /\ CartoesPorPagina \in Nat
      /\ fim <= n + CartoesPorPagina
  BY LojaAssumption
<1>2. \A i \in 1..especialistas[c] : s[i] = [categoria |-> c, numero |-> i]
  BY DEF NaLoja, Primeiros
<1>3. \A i \in (n + 1)..fim : s[i] \in Cartao
  <2>1. ASSUME NEW i \in (n + 1)..fim PROVE s[i] \in Cartao
    <3>1. i \in 1..especialistas[c] /\ i \in Nat
      BY <1>1
    <3>2. s[i] = [categoria |-> c, numero |-> i]
      BY <1>2, <3>1
    <3>3. [categoria |-> c, numero |-> i] \in Cartao
      BY <3>1 DEF Cartao
    <3> QED
      BY <3>2, <3>3
  <2> QED
    BY <2>1
<1> HIDE DEF s
<1>4. n + 1 \in Int /\ fim \in Int
  BY <1>1
<1>5. /\ pagina \in Seq(Cartao) /\ Len(pagina) = IF n + 1 <= fim THEN fim - (n + 1) + 1 ELSE 0
      /\ \A i \in 1..(fim - (n + 1) + 1) : pagina[i] = s[(n + 1) + i - 1]
  BY <1>3, <1>4, SubSeqProperties
<1> HIDE DEF pagina
<1>6. ASSUME NEW i \in 1..Len(pagina)
      PROVE  pagina[i] = [categoria |-> c, numero |-> n + i]
  <2>1. i \in 1..(fim - (n + 1) + 1) /\ (n + 1) + i - 1 = n + i /\ n + i \in 1..especialistas[c]
    BY <1>1, <1>5
  <2> QED
    BY <1>2, <1>5, <2>1
<1>7. Len(pagina) <= CartoesPorPagina /\ (n <= especialistas[c] => n + Len(pagina) <= especialistas[c])
  BY <1>1, <1>5
<1> QED
  BY <1>5, <1>6, <1>7 DEF Seguem, pagina, s

LEMMA ListarPasso ==
  ASSUME LojaInv, passosNaLoja' \in Nat, NEW k \in Chave, ListarEspecialistas(k)
  PROVE  LojaInv'
<1> DEFINE c == CategoriaDe(k)
           ps == consultas[k].pages
           inicio == ps.numero * CartoesPorPagina
           fim == IF inicio + CartoesPorPagina < especialistas[c] THEN inicio + CartoesPorPagina
                  ELSE especialistas[c]
           pagina == SubSeq(NaLoja(c), inicio + 1, fim)
<1>1. consultas[k].pedido = "pedido"
      /\ UNCHANGED <<especialistas, aberta, selectedCategory, filtro, especialistasPorTipo>>
  BY DEF ListarEspecialistas
<1>2. PICK itens \in {pagina, <<>>} :
        /\ consultas' = [consultas EXCEPT ![k].pedido = "listado", ![k].itens = itens]
        /\ saltou' = IF itens # pagina THEN saltou \cup {k} ELSE saltou
  BY DEF ListarEspecialistas
<1> DEFINE q == [consultas[k] EXCEPT !.pedido = "listado", !.itens = itens]
<1>3. /\ consultas \in [Chave -> ConsultaPossivel] /\ c \in Categoria /\ especialistas[c] \in Nat
      /\ ps.numero \in Nat
  BY CategoriaDaChave, ConsultaDe DEF LojaInv, LojaTypeOK
<1>4. inicio \in Nat
  BY <1>3, LojaAssumption
<1>5. /\ pagina \in Seq(Cartao) /\ Seguem(pagina, c, inicio) /\ Len(pagina) <= CartoesPorPagina
      /\ inicio <= especialistas[c] => inicio + Len(pagina) <= especialistas[c]
  <2> HIDE DEF inicio
  <2> QED
    BY <1>3, <1>4, PaginaDaLoja
<1> HIDE DEF pagina, inicio
<1>6. itens \in Seq(Cartao) /\ Seguem(itens, c, inicio)
  <2>1. CASE itens = pagina
    BY <1>5, <2>1
  <2>2. CASE itens = <<>>
    BY <2>2 DEF Seguem
  <2> QED
    BY <1>2, <2>1, <2>2
<1>7. /\ q \in ConsultaPossivel /\ q.pages = ps /\ q.pedido = "listado" /\ q.itens = itens
  BY <1>3, <1>6 DEF ConsultaPossivel
<1>8. consultas' = [consultas EXCEPT ![k] = q]
  BY <1>2, <1>3
<1> HIDE DEF q, ps
<1>9. /\ consultas' \in [Chave -> ConsultaPossivel] /\ consultas'[k] = q
      /\ \A j \in Chave \ {k} : consultas'[j] = consultas[j]
  BY <1>3, <1>7, <1>8
<1>10. LojaTypeOK'
  BY <1>1, <1>2, <1>9 DEF LojaInv, LojaTypeOK
<1>11. DaCategoria'
  <2>1. ASSUME NEW i \in 1..Len(itens) PROVE itens[i].categoria = c
    <3>1. itens[i] = [categoria |-> c, numero |-> inicio + i]
      BY <1>6 DEF Seguem
    <3> QED
      BY <3>1
  <2>2. \A i \in 1..Len(ps.lidos) : ps.lidos[i].categoria = c
    BY DEF LojaInv, DaCategoria, ps
  <2> QED
    BY <1>7, <1>9, <2>1, <2>2 DEF LojaInv, DaCategoria
<1>12. PaginasCheias'
  <2>1. \A j \in Chave \ saltou' : j # k => j \in Chave \ saltou
    BY <1>2
  <2>2. ASSUME k \notin saltou'
        PROVE  /\ Seguem(ps.lidos, c, 0) /\ Len(ps.lidos) <= especialistas[c]
               /\ Len(ps.lidos) <= ps.total
               /\ Len(ps.lidos) < ps.total => Len(ps.lidos) = inicio
               /\ ps.numero = 0 => Len(ps.lidos) = 0
               /\ ps.numero = 0 \/ Len(ps.lidos) < ps.total
               /\ itens = pagina
    BY <1>1, <1>2, <2>2 DEF LojaInv, PaginasCheias, ps, inicio
  <2>3. ASSUME k \notin saltou'
        PROVE  /\ Len(ps.lidos) = inicio
               /\ Seguem(itens, c, Len(ps.lidos)) /\ Len(ps.lidos) + Len(itens) <= especialistas[c]
               /\ Len(itens) <= CartoesPorPagina
    <3>1. ps.numero = 0 => inicio = 0
      BY LojaAssumption DEF inicio
    <3>2. Len(ps.lidos) = inicio
      BY <2>2, <2>3, <3>1
    <3> QED
      BY <1>5, <2>2, <2>3, <3>2
  <2> HIDE DEF c
  <2>4. ASSUME NEW j \in Chave \ saltou', j = k
        PROVE  LET qs == consultas'[j].pages
                   n == Len(qs.lidos)
                   its == consultas'[j].itens
                   d == CategoriaDe(j)
               IN /\ Seguem(qs.lidos, d, 0) /\ n <= especialistas'[d]
                  /\ n <= qs.total /\ (n < qs.total => n = qs.numero * CartoesPorPagina)
                  /\ qs.numero = 0 => n = 0
                  /\ qs.numero = 0 \/ n < qs.total
                  /\ Seguem(its, d, n) /\ n + Len(its) <= especialistas'[d]
                  /\ Len(its) <= CartoesPorPagina
    BY <1>1, <1>7, <1>9, <2>2, <2>3, <2>4 DEF c, inicio
  <2>5. ASSUME NEW j \in Chave \ saltou', j # k
        PROVE  j \in Chave \ saltou /\ consultas'[j] = consultas[j] /\ especialistas' = especialistas
    BY <1>1, <1>9, <2>1, <2>5
  <2> QED
    BY <2>4, <2>5 DEF LojaInv, PaginasCheias
<1>13. AbaAtual' /\ AbasBoas'
  <2>1. consultas'[ChaveAtual].pages = consultas[ChaveAtual].pages
    BY <1>7, <1>9, ChaveDaAba DEF ps
  <2>2. especialistas' \in [Categoria -> Nat] /\ \A d \in Categoria : especialistas[d] <= especialistas'[d]
    BY <1>1 DEF LojaInv, LojaTypeOK
  <2> QED
    BY <1>1, <1>2, <2>1, <2>2, AbaParada
<1> QED
  BY <1>10, <1>11, <1>12, <1>13 DEF LojaInv

LEMMA Juntas ==
  ASSUME NEW s \in Seq(Cartao), NEW t \in Seq(Cartao), NEW c
  PROVE  /\ s \o t \in Seq(Cartao) /\ Len(s \o t) = Len(s) + Len(t)
         /\ Len(s) \in Nat /\ Len(t) \in Nat
         /\ (\A i \in 1..Len(s) : s[i].categoria = c) /\ (\A i \in 1..Len(t) : t[i].categoria = c)
              => \A i \in 1..Len(s \o t) : (s \o t)[i].categoria = c
         /\ Seguem(s, c, 0) /\ Seguem(t, c, Len(s)) => Seguem(s \o t, c, 0)
<1> DEFINE u == s \o t
<1>1. /\ u \in Seq(Cartao) /\ Len(u) = Len(s) + Len(t)
      /\ \A i \in 1..Len(u) : u[i] = IF i <= Len(s) THEN s[i] ELSE t[i - Len(s)]
  BY ConcatProperties
<1>2. Len(s) \in Nat /\ Len(t) \in Nat
  OBVIOUS
<1> HIDE DEF u
<1>3. ASSUME NEW i \in 1..Len(u)
      PROVE  \/ i \in 1..Len(s) /\ u[i] = s[i]
             \/ i - Len(s) \in 1..Len(t) /\ u[i] = t[i - Len(s)] /\ Len(s) + (i - Len(s)) = i
  BY <1>1, <1>2
<1>4. ASSUME \A i \in 1..Len(s) : s[i].categoria = c, \A i \in 1..Len(t) : t[i].categoria = c
      PROVE  \A i \in 1..Len(u) : u[i].categoria = c
  BY <1>3, <1>4
<1>5. ASSUME Seguem(s, c, 0), Seguem(t, c, Len(s))
      PROVE  Seguem(u, c, 0)
  <2>1. SUFFICES ASSUME NEW i \in 1..Len(u)
                 PROVE  u[i] = [categoria |-> c, numero |-> 0 + i]
    BY DEF Seguem
  <2>2. 0 + i = i
    BY <1>1, <1>2
  <2>3. CASE i \in 1..Len(s) /\ u[i] = s[i]
    BY <1>5, <2>3 DEF Seguem
  <2>4. CASE i - Len(s) \in 1..Len(t) /\ u[i] = t[i - Len(s)] /\ Len(s) + (i - Len(s)) = i
    <3> DEFINE m == i - Len(s)
    <3>1. t[m] = [categoria |-> c, numero |-> Len(s) + m]
      <4> HIDE DEF m
      <4>1. m \in 1..Len(t)
        BY <2>4 DEF m
      <4> QED
        BY <1>5, <4>1 DEF Seguem
    <3> QED
      BY <2>2, <2>4, <3>1
  <2> QED
    BY <1>3, <2>3, <2>4
<1> QED
  BY <1>1, <1>2, <1>4, <1>5 DEF u

LEMMA TotalPasso ==
  ASSUME LojaInv, passosNaLoja' \in Nat, NEW k \in Chave, TotalEspecialistas(k)
  PROVE  LojaInv'
<1> DEFINE c == CategoriaDe(k)
           antes == consultas[k].pages
           itens == consultas[k].itens
           havia == antes.numero * CartoesPorPagina + Len(itens)
           lidos == antes.lidos \o itens
<1>1. consultas[k].pedido = "listado"
      /\ UNCHANGED <<especialistas, aberta, selectedCategory, filtro>>
  BY DEF TotalEspecialistas
<1>2. PICK total \in {especialistas[c], 0} :
        LET ps == [lidos |-> lidos, numero |-> antes.numero + 1, total |-> total]
        IN /\ consultas' = [consultas EXCEPT ![k] =
                              [pages |-> ps, pedido |-> "nenhum", itens |-> <<>>]]
           /\ especialistasPorTipo' =
                IF aberta /\ k = ChaveAtual
                THEN EfeitoDosDados(especialistasPorTipo, selectedCategory, ps)
                ELSE especialistasPorTipo
           /\ saltou' = IF total # especialistas[c]
                             \/ (Len(itens) < CartoesPorPagina /\ havia < total)
                        THEN saltou \cup {k} ELSE saltou
  BY DEF TotalEspecialistas
<1> DEFINE ps == [lidos |-> lidos, numero |-> antes.numero + 1, total |-> total]
           q == [pages |-> ps, pedido |-> "nenhum", itens |-> <<>>]
<1>3. /\ consultas \in [Chave -> ConsultaPossivel] /\ c \in Categoria /\ especialistas[c] \in Nat
      /\ antes.numero \in Nat /\ antes.lidos \in Seq(Cartao) /\ itens \in Seq(Cartao)
      /\ CartoesPorPagina \in Nat
  BY CategoriaDaChave, ConsultaDe, LojaAssumption DEF LojaInv, LojaTypeOK
<1>4. /\ lidos \in Seq(Cartao) /\ Len(lidos) = Len(antes.lidos) + Len(itens)
      /\ Len(antes.lidos) \in Nat /\ Len(itens) \in Nat
      /\ Seguem(antes.lidos, c, 0) /\ Seguem(itens, c, Len(antes.lidos)) => Seguem(lidos, c, 0)
  BY <1>3, Juntas
<1>5. \A i \in 1..Len(lidos) : lidos[i].categoria = c
  <2>1. /\ \A i \in 1..Len(antes.lidos) : antes.lidos[i].categoria = c
        /\ \A i \in 1..Len(itens) : itens[i].categoria = c
    BY DEF LojaInv, DaCategoria
  <2> QED
    BY <1>3, <2>1, Juntas
<1> HIDE DEF lidos
<1>6. total \in Nat
  BY <1>2, <1>3
<1>7. /\ ps \in PaginasPossiveis /\ ps.lidos = lidos /\ ps.numero = antes.numero + 1
      /\ ps.total = total
  BY <1>3, <1>4, <1>6 DEF PaginasPossiveis
<1>8. /\ consultas' = [consultas EXCEPT ![k] = q]
      /\ especialistasPorTipo' = IF aberta /\ k = ChaveAtual
                                 THEN EfeitoDosDados(especialistasPorTipo, selectedCategory, ps)
                                 ELSE especialistasPorTipo
      /\ saltou' = IF total # especialistas[c]
                        \/ (Len(itens) < CartoesPorPagina /\ havia < total)
                   THEN saltou \cup {k} ELSE saltou
  BY <1>2
<1> HIDE DEF ps
<1>9. <<>> \in Seq(Cartao)
  OBVIOUS
<1>10. /\ q \in ConsultaPossivel /\ q.pages = ps /\ q.pedido = "nenhum" /\ q.itens = <<>>
  BY <1>7, <1>9 DEF ConsultaPossivel
<1> HIDE DEF q
<1>11. /\ consultas' \in [Chave -> ConsultaPossivel] /\ consultas'[k] = q
       /\ \A j \in Chave \ {k} : consultas'[j] = consultas[j]
  BY <1>3, <1>8, <1>10
<1>12. DaCategoria'
  BY <1>5, <1>7, <1>10, <1>11 DEF LojaInv, DaCategoria
<1>13. PaginasCheias'
  <2>1. \A j \in Chave \ saltou' : j # k => j \in Chave \ saltou
    BY <1>8
  <2>2. ASSUME k \notin saltou'
        PROVE  /\ Seguem(antes.lidos, c, 0) /\ Seguem(itens, c, Len(antes.lidos))
               /\ Len(antes.lidos) + Len(itens) <= especialistas[c]
               /\ Len(antes.lidos) <= antes.total
               /\ Len(antes.lidos) < antes.total =>
                    Len(antes.lidos) = antes.numero * CartoesPorPagina
               /\ antes.numero = 0 => Len(antes.lidos) = 0
               /\ antes.numero = 0 \/ Len(antes.lidos) < antes.total
               /\ Len(itens) <= CartoesPorPagina
    <3>1. k \in Chave \ saltou
      BY <1>8, <2>2
    <3> QED
      BY <1>1, <3>1 DEF LojaInv, PaginasCheias
  <2>3. ASSUME k \notin saltou'
        PROVE  /\ total = especialistas[c]
               /\ ~(Len(itens) < CartoesPorPagina /\ havia < total)
    BY <1>8, <2>3
  <2>4. ASSUME k \notin saltou'
        PROVE  /\ Seguem(lidos, c, 0) /\ Len(lidos) <= especialistas[c]
               /\ Len(lidos) <= total
               /\ Len(lidos) < total => Len(lidos) = (antes.numero + 1) * CartoesPorPagina
    <3> DEFINE n == antes.numero * CartoesPorPagina
    <3>1. (antes.numero + 1) * CartoesPorPagina = n + CartoesPorPagina /\ n \in Nat
      BY <1>3
    <3>2. antes.numero = 0 => n = 0
      BY <1>3
    <3>3. havia = n + Len(itens)
      OBVIOUS
    <3> HIDE DEF n, havia
    <3>4. Len(antes.lidos) = n
      BY <2>2, <2>4, <3>2 DEF n
    <3>5. Len(lidos) = n + Len(itens)
      BY <1>4, <3>4
    <3>6. Len(lidos) <= total
      BY <1>4, <2>2, <2>3, <2>4
    <3>7. Len(lidos) < total => Len(itens) = CartoesPorPagina
      <4>1. havia = Len(lidos)
        BY <3>3, <3>5
      <4>2. Len(lidos) < total => ~(Len(itens) < CartoesPorPagina)
        BY <2>3, <2>4, <4>1
      <4> QED
        BY <1>3, <1>4, <2>2, <2>4, <4>2
    <3> QED
      BY <1>4, <2>2, <2>4, <3>1, <3>5, <3>6, <3>7
  <2>5. antes.numero + 1 # 0
    BY <1>3
  <2> HIDE DEF c
  <2>6. ASSUME NEW j \in Chave \ saltou', j = k
        PROVE  LET qs == consultas'[j].pages
                   n == Len(qs.lidos)
                   d == CategoriaDe(j)
               IN /\ Seguem(qs.lidos, d, 0) /\ n <= especialistas'[d]
                  /\ n <= qs.total /\ (n < qs.total => n = qs.numero * CartoesPorPagina)
                  /\ qs.numero # 0 /\ consultas'[j].pedido = "nenhum"
    BY <1>1, <1>7, <1>10, <1>11, <2>4, <2>5, <2>6 DEF c
  <2>7. ASSUME NEW j \in Chave \ saltou', j # k
        PROVE  j \in Chave \ saltou /\ consultas'[j] = consultas[j] /\ especialistas' = especialistas
    BY <1>1, <1>11, <2>1, <2>7
  <2> QED
    BY <2>6, <2>7 DEF LojaInv, PaginasCheias
<1>14. /\ DOMAIN especialistasPorTipo' \subseteq Categoria
       /\ \A d \in DOMAIN especialistasPorTipo' : especialistasPorTipo'[d] \in Seq(Cartao)
       /\ AbaAtual' /\ AbasBoas'
  <2> DEFINE abas == especialistasPorTipo
  <2>1. CASE aberta /\ k = ChaveAtual
    <3>1. c = selectedCategory /\ filtro = k
      BY <2>1, ChaveDaAba
    <3>2. c \in DOMAIN abas
      BY <3>1 DEF LojaInv, AbaAtual
    <3>3. especialistasPorTipo' = EfeitoDosDados(abas, c, ps)
      BY <1>8, <2>1, <3>1
    <3>4. \A i \in 1..Len(ps.lidos) : ps.lidos[i].categoria = c
      BY <1>5, <1>7
    <3> HIDE DEF c
    <3>5. Mostra(abas, especialistasPorTipo', c, consultas'[k].pages)
      BY <1>7, <1>10, <1>11, <3>2, <3>3, <3>4, EfeitoDe
    <3>6. DOMAIN abas \subseteq Categoria /\ filtro' = k /\ selectedCategory' = CategoriaDe(k)
          /\ CategoriaDe(k) \in DOMAIN abas
      BY <1>1, <3>1, <3>2 DEF LojaInv, LojaTypeOK, c
    <3>7. \A d \in DOMAIN abas :
            /\ abas[d] \in Seq(Cartao)
            /\ (\A j \in saltou' : CategoriaDe(j) # d) =>
                 Seguem(abas[d], d, 0) /\ Len(abas[d]) <= especialistas'[d]
      <4>1. saltou \subseteq saltou'
        BY <1>8
      <4> QED
        BY <1>1, <4>1 DEF LojaInv, LojaTypeOK, AbasBoas
    <3> HIDE DEF abas
    <3> QED
      BY <1>11, <1>13, <3>5, <3>6, <3>7, AbaMostrada DEF c
  <2>2. CASE ~(aberta /\ k = ChaveAtual)
    <3>1. UNCHANGED <<selectedCategory, filtro, especialistasPorTipo, aberta>>
      BY <1>1, <1>8, <2>2
    <3>2. aberta => consultas'[ChaveAtual].pages = consultas[ChaveAtual].pages
      BY <1>11, <2>2, ChaveDaAba
    <3>3. especialistas' \in [Categoria -> Nat] /\ \A d \in Categoria : especialistas[d] <= especialistas'[d]
      BY <1>1 DEF LojaInv, LojaTypeOK
    <3>4. saltou \subseteq saltou'
      BY <1>8
    <3> QED
      BY <3>1, <3>2, <3>3, <3>4, AbaParada DEF LojaInv, LojaTypeOK
  <2> QED
    BY <2>1, <2>2
<1>15. LojaTypeOK'
  BY <1>1, <1>8, <1>11, <1>14 DEF LojaInv, LojaTypeOK
<1> QED
  BY <1>12, <1>13, <1>14, <1>15 DEF LojaInv

LEMMA LojaPasso == LojaInv /\ [NextLoja]_varsLoja => LojaInv'
<1> SUFFICES ASSUME LojaInv, [NextLoja]_varsLoja PROVE LojaInv'
  OBVIOUS
<1>1. CASE NextLoja
  <2>1. passosNaLoja' \in Nat /\ PassoDaLoja
    BY <1>1 DEF NextLoja, LojaInv, LojaTypeOK
  <2>2. CASE AbreEspecialistas \/ FechaEspecialistas \/ FetchNextPage
    BY <2>1, <2>2, AbrePasso, FechaPasso, FetchNextPasso
  <2>3. ASSUME NEW c \in Categoria, HandleTabClick(c) \/ EspecialistaNovo(c)
        PROVE  LojaInv'
    BY <2>1, <2>3, TabClickPasso, NovoPasso
  <2>4. ASSUME NEW k \in Chave,
               ListarEspecialistas(k) \/ TotalEspecialistas(k) \/ FalhaConsulta(k)
        PROVE  LojaInv'
    BY <2>1, <2>4, ListarPasso, TotalPasso, FalhaConsultaPasso
  <2> QED
    BY <2>1, <2>2, <2>3, <2>4 DEF PassoDaLoja
<1>2. CASE UNCHANGED varsLoja
  <2>1. UNCHANGED <<especialistas, aberta, selectedCategory, filtro, especialistasPorTipo,
                    consultas, saltou, passosNaLoja>>
    BY <1>2 DEF varsLoja
  <2>2. LojaTypeOK' /\ DaCategoria' /\ PaginasCheias'
    BY <2>1 DEF LojaInv, LojaTypeOK, DaCategoria, PaginasCheias
  <2>3. AbaAtual' /\ AbasBoas'
    BY <2>1 DEF LojaInv, AbaAtual, AbasBoas, ChaveAtual
  <2> QED
    BY <2>2, <2>3 DEF LojaInv
<1> QED
  BY <1>1, <1>2

LEMMA LojaDaCategoria == LojaInv => CartoesDaCategoria
<1> DEFINE c == selectedCategory
           ps == consultas[ChaveAtual].pages
           s == especialistasPorTipo[c]
           t == NaLoja(c)
<1> SUFFICES ASSUME LojaInv, aberta, ps.numero > 0, \A k \in saltou : CategoriaDe(k) # c
             PROVE  /\ IsPrefix(s, t)
                    /\ ps.lidos # <<>> => s = ps.lidos
                    /\ ~TemVerMais(ps) => Len(ps.lidos) = ps.total
  BY DEF CartoesDaCategoria
<1>1. ChaveAtual \in Chave \ saltou
  BY ChaveDaAba
<1>2. ps.lidos # <<>> => s = ps.lidos
  BY DEF LojaInv, AbaAtual
<1>3. ~TemVerMais(ps) => Len(ps.lidos) = ps.total
  <2>1. Len(ps.lidos) <= ps.total
    BY <1>1 DEF LojaInv, PaginasCheias
  <2>2. Len(ps.lidos) \in Nat /\ ps.total \in Nat
    BY <1>1, ConsultaDe
  <2> QED
    BY <2>1, <2>2 DEF TemVerMais
<1>4. IsPrefix(s, t)
  <2>1. /\ s \in Seq(Cartao) /\ Seguem(s, c, 0) /\ Len(s) <= especialistas[c]
        /\ especialistas[c] \in Nat /\ c \in Categoria
    BY DEF LojaInv, LojaTypeOK, AbaAtual, AbasBoas
  <2> DEFINE m == especialistas[c]
             n == Len(s)
             u == SubSeq(t, 1, n)
  <2>2. \A i \in 1..m : t[i] = [categoria |-> c, numero |-> i]
    BY DEF NaLoja, Primeiros
  <2>3. t \in Seq(Cartao) /\ Len(t) = m
    <3>1. \A i \in 1..m : [categoria |-> c, numero |-> i] \in Cartao
      BY <2>1 DEF Cartao
    <3>2. t \in [1..m -> Cartao]
      BY <3>1 DEF NaLoja, Primeiros
    <3> HIDE DEF t, m
    <3>3. m \in Nat
      BY <2>1 DEF m
    <3> QED
      BY <3>2, <3>3
  <2>4. n \in Nat /\ m \in Nat /\ n <= m
    BY <2>1
  <2> HIDE DEF m, t, s, c
  <2>5. \A i \in 1..n : t[i] \in Cartao
    BY <2>3, <2>4
  <2>6. u \in Seq(Cartao) /\ Len(u) = n /\ \A i \in 1..n : u[i] = t[i]
    BY <2>4, <2>5, SubSeqProperties
  <2> HIDE DEF u
  <2>7. ASSUME NEW i \in 1..n PROVE u[i] = s[i]
    <3>1. i \in 1..m /\ 0 + i = i
      BY <2>4
    <3>2. s[i] = [categoria |-> c, numero |-> 0 + i]
      BY <2>1 DEF Seguem
    <3> QED
      BY <2>2, <2>6, <3>1, <3>2
  <2>8. u = s
    BY <2>1, <2>6, <2>7, SeqEqual
  <2>9. SubSeq(s, 1, n) = s
    BY <2>1, SubSeqFull
  <2> QED
    BY <2>3, <2>4, <2>8, <2>9 DEF IsPrefix, u
<1> QED
  BY <1>2, <1>3, <1>4

\* The tab on the screen shows the first specialists of its category, none skipped, all those
\* its query has loaded, and "Ver mais" until they are as many as the server counted, however
\* many categories, specialists and pages there are, unless a page of the category failed in
\* silence or was counted after it grew (GptStoreContent.tsx:82-119,
\* especialista_mongo.py:96-128).
THEOREM CartoesSempreDaCategoria == SpecLoja => []CartoesDaCategoria
<1>1. InitLoja => LojaInv
  BY LojaNoInicio
<1>2. LojaInv /\ [NextLoja]_varsLoja => LojaInv'
  BY LojaPasso
<1>3. LojaInv => CartoesDaCategoria
  BY LojaDaCategoria
<1> QED
  BY <1>1, <1>2, <1>3, PTL DEF SpecLoja

===============================================================================
