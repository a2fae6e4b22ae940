-------------------------- MODULE FileLibraryProofs --------------------------
(***************************************************************************)
(* FileLibrary has its types, and a file alive is in a folder alive, and   *)
(* two files of a folder have two names, but for the named races; and at   *)
(* rest the list of the sidebar is what the store has, but for what was    *)
(* excused; for any folders, files, names, requests and bounds.            *)
(***************************************************************************)
EXTENDS FileLibrary, TLAPS

-----------------------------------------------------------------------------
(* The list and its objects.                                               *)

LEMMA ConteudoTipo ==
  ASSUME NEW os \in SUBSET Objetos
  PROVE  EhLista(Conteudo(os))
<1>1. DOMAIN Conteudo(os) = {x.pasta : x \in os}
  BY DEF Conteudo
<1>2. ASSUME NEW p \in {x.pasta : x \in os}
      PROVE  Conteudo(os)[p] \subseteq Arquivo
  <2>1. \E x \in os : x.pasta = p
    BY <1>2
  <2>2. (CHOOSE x \in os : x.pasta = p) \in os
    BY <2>1
  <2> QED BY <2>2 DEF Conteudo, Objetos
<1> QED BY <1>1, <1>2 DEF EhLista, Objetos

LEMMA ListaTipo ==
  ASSUME objetos \subseteq Objetos
  PROVE  EhLista(Lista) /\ \A o \in Op : EhLista(Captura(o))
<1>1. \A o \in Op : {x \in objetos : o \in x.presos} \in SUBSET Objetos
  OBVIOUS
<1> QED BY <1>1, ConteudoTipo DEF Lista, Captura

LEMMA ObjetosTipo ==
  ASSUME NEW os \in SUBSET Objetos, NEW o \in Op
  PROVE  /\ Prende(os, o) \in SUBSET Objetos
         /\ Larga(os, o) \in SUBSET Objetos
         /\ \A p, as : as \in SUBSET Arquivo => NoLugar(os, o, p, as) \in SUBSET Objetos
<1>1. \A x \in Objetos, b \in SUBSET Op, as \in SUBSET Arquivo :
        /\ [x EXCEPT !.presos = b] \in Objetos
        /\ [x EXCEPT !.arquivos = as] \in Objetos
  BY DEF Objetos
<1>2. \A x \in Objetos : x.presos \cup {o} \in SUBSET Op /\ x.presos \ {o} \in SUBSET Op
  BY DEF Objetos
<1>3. Prende(os, o) \in SUBSET Objetos
  BY <1>1, <1>2 DEF Prende
<1>4. Larga(os, o) \in SUBSET Objetos
  <2>1. \A x \in os : [x EXCEPT !.presos = x.presos \ {o}] \in Objetos
    BY <1>1, <1>2
  <2>2. {[x EXCEPT !.presos = x.presos \ {o}] : x \in os} \subseteq Objetos
    BY <2>1
  <2> QED BY <2>2 DEF Larga, Alcancaveis
<1> QED BY <1>1, <1>3, <1>4 DEF NoLugar

LEMMA EscreveTipo ==
  ASSUME NEW os \in SUBSET Objetos, NEW nova, EhLista(nova), NEW copiadas
  PROVE  Escreve(os, nova, copiadas) \in SUBSET Objetos
<1>1. \A x \in Objetos : [x EXCEPT !.atual = FALSE] \in Objetos
  BY DEF Objetos
<1>2. \A p \in DOMAIN nova : Objeto(p, nova[p]) \in Objetos
  BY DEF EhLista, Objeto, Objetos
<1> QED BY <1>1, <1>2 DEF Escreve, Alcancaveis

LEMMA FeitoTipo ==
  ASSUME NEW l, EhLista(l), NEW r \in Pedidos
  PROVE  EhLista(Feito(l, r))
<1>0. r.feitos \subseteq Arquivo /\ r.pasta \in Pasta
  BY DEF Pedidos
<1>1. EhLista(Acrescenta(l, r.pasta, r.feitos))
  BY <1>0 DEF EhLista, Acrescenta
<1>2. EhLista(Movido(l, r))
  <2>1. CASE {r.pasta, r.origem} \subseteq DOMAIN l
    <3>1. DOMAIN Movido(l, r) = DOMAIN l
      BY <2>1 DEF Movido
    <3>2. ASSUME NEW p \in DOMAIN l PROVE Movido(l, r)[p] \subseteq l[p] \cup r.feitos
      BY <2>1 DEF Movido
    <3> QED BY <1>0, <3>1, <3>2 DEF EhLista
  <2>2. CASE ~({r.pasta, r.origem} \subseteq DOMAIN l)
    BY <2>2 DEF Movido
  <2> QED BY <2>1, <2>2
<1>3. EhLista(MovidosVarios(l, r))
  <2>1. DOMAIN MovidosVarios(l, r) = DOMAIN l
    BY DEF MovidosVarios
  <2>2. ASSUME NEW p \in DOMAIN l PROVE MovidosVarios(l, r)[p] \subseteq l[p] \cup r.feitos
    BY DEF MovidosVarios
  <2> QED BY <1>0, <2>1, <2>2 DEF EhLista
<1>4. EhLista(ComPasta(l, r.pasta))
  BY <1>0 DEF EhLista, ComPasta
<1>5. EhLista(SemPasta(l, r.pasta))
  BY DEF EhLista, SemPasta, Restrict
<1> QED BY <1>1, <1>2, <1>3, <1>4, <1>5 DEF Feito

LEMMA DifereTipo ==
  ASSUME NEW l1, NEW l2
  PROVE  Difere(l1, l2) \subseteq Pasta \cup Arquivo
BY DEF Difere

LEMMA ServidorTipo ==
  ASSUME TipoServidor
  PROVE  /\ EhLista(NoServidor) /\ SemRegistro.nome \in Nome
         /\ \A ps \in SUBSET Pasta : EhLista(Guardada(ps, {f \in Arquivo : Vivo(f)}))
<1>1. SemRegistro.nome \in Nome
  BY LibraryAssumption DEF SemRegistro
<1> QED BY <1>1 DEF EhLista, NoServidor, Guardada

-----------------------------------------------------------------------------
(* Types.                                                                  *)

LEMMA PedidoTipo ==
  ASSUME NEW t \in Tipo, NEW f \in Fases, NEW fs \in SUBSET Arquivo, NEW p \in Pasta,
         NEW q \in Pasta, NEW n \in Nome
  PROVE  Pedido(t, f, fs, p, q, n) \in Pedidos
BY LibraryAssumption DEF Pedido, OpLivre, Pedidos, Tipo, Item, Fases, SemRegistro

LEMMA LivreTipo == OpLivre \in Pedidos
BY LibraryAssumption DEF OpLivre, Pedidos, Tipo, Item, Fases, SemRegistro

LEMMA ComecaTipo ==
  ASSUME TypeOK, NEW o \in Op, NEW r \in Pedidos, Comeca(o, r), objetos' \in SUBSET Objetos
  PROVE  TypeOK'
<1>1. \A x \in Pedidos : Alvos(x) \subseteq Pasta \cup Arquivo /\ x.feitos \subseteq Arquivo
  BY DEF Alvos, Pedidos
<1>2. desculpa' \subseteq Pasta \cup Arquivo
  BY <1>1 DEF TypeOK, TipoTela, Comeca, EmCurso
<1>3. op' \in [Op -> Pedidos]
  BY DEF TypeOK, Comeca
<1>4. TipoServidor'
  BY DEF TypeOK, TipoServidor, Comeca, vServidor
<1>5. TipoTela'
  BY <1>2 DEF TypeOK, TipoTela, Comeca, EhLista
<1> QED BY <1>3, <1>4, <1>5 DEF TypeOK

LEMMA UsuarioTipo ==
  ASSUME TypeOK, NEW o \in Op, Usuario(o)
  PROVE  TypeOK'
<1> USE DEF Tipo, Item, Fases
<1>0. /\ objetos \in SUBSET Objetos
      /\ EhLista(Lista)
      /\ Prende(objetos, o) \in SUBSET Objetos
      /\ SemRegistro.nome \in Nome
  BY ListaTipo, ObjetosTipo, ServidorTipo DEF TypeOK, TipoTela
<1>1. ASSUME NEW p \in Pasta, NEW n \in Nome, Envia(o, p, n) PROVE TypeOK'
  BY <1>0, <1>1, PedidoTipo, ComecaTipo DEF Envia
<1>2. ASSUME NEW p \in Pasta, NEW q \in Pasta, NEW f \in Arquivo, MoveArquivo(o, q, p, f)
      PROVE  TypeOK'
  BY <1>0, <1>2, PedidoTipo, ComecaTipo DEF MoveArquivo
<1>3. ASSUME NEW p \in Pasta, NEW q \in Pasta, NEW fs \in SUBSET Arquivo,
             MoveVarios(o, q, p, fs) \/ Copia(o, q, p, fs)
      PROVE  TypeOK'
  BY <1>0, <1>3, PedidoTipo, ComecaTipo DEF MoveVarios, Copia
<1>4. ASSUME NEW q \in Pasta, NEW f \in Arquivo, NEW n \in Nome, Renomeia(o, q, f, n)
      PROVE  TypeOK'
  BY <1>0, <1>4, PedidoTipo, ComecaTipo DEF Renomeia
<1>5. ASSUME NEW q \in Pasta, NEW f \in Arquivo, NEW cs \in SUBSET Pasta, Exclui(o, q, f, cs)
      PROVE  TypeOK'
  <2>1. q \in DOMAIN Lista /\ Lista[q] \ {f} \in SUBSET Arquivo
    BY <1>0, <1>5 DEF Exclui, EhLista
  <2>2. EhLista([Lista EXCEPT ![q] = @ \ {f}])
    <3>1. ASSUME NEW p \in DOMAIN Lista
          PROVE  [Lista EXCEPT ![q] = @ \ {f}][p] \subseteq Lista[p]
      OBVIOUS
    <3> QED BY <1>0, <3>1 DEF EhLista
  <2>3. objetos' \in SUBSET Objetos
    <3> DEFINE os == NoLugar(Prende(objetos, o), o, q, Lista[q] \ {f})
    <3>1. os \in SUBSET Objetos
      BY <1>0, <2>1, ObjetosTipo
    <3>2. objetos' = Larga(Escreve(os, [Lista EXCEPT ![q] = @ \ {f}], cs \cup {q}), o)
      BY <1>5 DEF Exclui
    <3> HIDE DEF os
    <3> QED BY <3>1, <3>2, <2>2, EscreveTipo, ObjetosTipo
  <2>4. Comeca(o, Pedido("exclui", "grava", {f}, q, q, SemRegistro.nome))
    BY <1>5 DEF Exclui
  <2> QED BY <1>0, <2>3, <2>4, PedidoTipo, ComecaTipo
<1>6. ASSUME NEW q \in Pasta, NEW fs \in SUBSET Arquivo, ExcluiVarios(o, q, fs)
      PROVE  TypeOK'
  <2>1. Lista[q] \ fs \in SUBSET Arquivo
    BY <1>0, <1>6 DEF ExcluiVarios, EhLista
  <2> QED BY <1>0, <1>6, <2>1, ObjetosTipo, PedidoTipo, ComecaTipo DEF ExcluiVarios
<1>7. ASSUME NEW p \in Pasta, CriaPasta(o, p) PROVE TypeOK'
  BY <1>0, <1>7, PedidoTipo, ComecaTipo DEF CriaPasta
<1>8. ASSUME NEW p \in Pasta, ExcluiPasta(o, p) PROVE TypeOK'
  <2>1. Lista[p] \in SUBSET Arquivo
    BY <1>0, <1>8 DEF ExcluiPasta, EhLista
  <2>2. Pedido("excluiPasta", "grava", Lista[p], p, p, SemRegistro.nome) \in Pedidos
    BY <1>0, <2>1, PedidoTipo
  <2> QED BY <1>0, <1>8, <2>2, ComecaTipo DEF ExcluiPasta
<1>9. ASSUME NEW p \in Pasta, RenomeiaPasta(o, p) PROVE TypeOK'
  BY <1>0, <1>9, PedidoTipo, ComecaTipo DEF RenomeiaPasta
<1>10. MenuDoArquivo(o) => TypeOK'
  <2>1. \A f \in Arquivo : {f} \in SUBSET Arquivo
    OBVIOUS
  <2> QED BY <1>2, <1>3, <1>4, <1>5, <2>1 DEF MenuDoArquivo
<1>11. MenuDaPasta(o) => TypeOK'
  BY <1>3, <1>6, <1>8, <1>9 DEF MenuDaPasta
<1> QED BY <1>1, <1>7, <1>10, <1>11 DEF Usuario

LEMMA TelaFica ==
  ASSUME TipoTela, UNCHANGED vTela, falhas' = falhas \/ falhas' = falhas + 1
  PROVE  TipoTela'
BY DEF TipoTela, vTela, EhLista

LEMMA ServidorPasso ==
  ASSUME TypeOK, NEW o \in Op, Servidor(o) \/ PerdeResposta(o)
  PROVE  TypeOK'
<1> USE DEF TypeOK, Fases, Tipo, Item
<1>0. \A r \in Pedidos, f \in Arquivo :
        [r EXCEPT !.desde = @ \cup {f}] \in Pedidos
  BY DEF Pedidos
<1>1. op' \in [Op -> Pedidos]
  <2>0. ASSUME NEW r \in Pedidos PROVE Depois(r) \in Pedidos
    <3>1. CASE r.itens = {}
      BY <3>1 DEF Depois, Fim, Pedidos
    <3>2. CASE r.itens # {}
      BY <3>2 DEF Depois, Fim, Pedidos
    <3> QED BY <3>1, <3>2
  <2>1. ASSUME NEW r \in Pedidos, NEW fs \in SUBSET Arquivo
        PROVE  Depois([r EXCEPT !.feitos = fs]) \in Pedidos
    <3>1. [r EXCEPT !.feitos = fs] \in Pedidos
      BY DEF Pedidos
    <3> QED BY <3>1, <2>0
  <2>2. ASSUME NEW r \in Pedidos, NEW f \in Arquivo, Avanca(o, f, r)
        PROVE  op' \in [Op -> Pedidos]
    BY <1>0, <2>2 DEF Avanca
  <2>3. op[o] \in Pedidos
    OBVIOUS
  <2>4. CASE ConsultaItem(o)
    <3>1. PICK f \in op[o].itens :
            \/ op' = [op EXCEPT ![o].fase = "erro", ![o].falhou = TRUE]
            \/ op' = [op EXCEPT ![o].itens = op[o].itens \ {f},
                                ![o].fase = IF op[o].itens = {f} THEN Fim(op[o]) ELSE op[o].fase]
            \/ /\ Vivo(f)
               /\ op' = [op EXCEPT ![o].fase = "grava", ![o].item = {f},
                                   ![o].itens = op[o].itens \ {f}, ![o].desde = {},
                                   ![o].nome = arq[f].nome, ![o].st = arq[f].st]
      BY <2>4 DEF ConsultaItem
    <3>2. f \in Arquivo
      BY <2>3 DEF Pedidos
    <3>3. arq[f].nome \in Nome
      BY <3>2 DEF TipoServidor, Registros
    <3> QED BY <2>3, <3>1, <3>2, <3>3 DEF Pedidos, Vivo
  <2>5. CASE ConsultaEnvio(o)
    BY <2>3, <2>5 DEF ConsultaEnvio, Pedidos
  <2>6. CASE ConsultaNome(o)
    BY <2>3, <2>6 DEF ConsultaNome, Pedidos
  <2>7. CASE GravaMovido(o)
    <3>1. \A f \in op[o].item : f \in Arquivo /\ op[o].feitos \cup {f} \in SUBSET Arquivo
      BY <2>3 DEF Pedidos
    <3>2. PICK f \in op[o].item :
            \/ Avanca(o, f, Depois([op[o] EXCEPT !.feitos = op[o].feitos \cup {f}]))
            \/ op' = [op EXCEPT ![o] = Depois([op[o] EXCEPT !.falhou = TRUE])]
      BY <2>7 DEF GravaMovido
    <3>3. [op[o] EXCEPT !.falhou = TRUE] \in Pedidos
      BY <2>3 DEF Pedidos
    <3> QED BY <2>0, <2>1, <2>2, <2>3, <3>1, <3>2, <3>3
  <2>8. CASE GravaCopia(o)
    <3>1. \A g \in Arquivo : op[o].feitos \cup {g} \in SUBSET Arquivo
      BY <2>3 DEF Pedidos
    <3>2. \/ \E g \in Arquivo :
               Avanca(o, g, Depois([op[o] EXCEPT !.feitos = op[o].feitos \cup {g}]))
          \/ op' = [op EXCEPT ![o] = Depois(op[o])]
      BY <2>8 DEF GravaCopia
    <3> QED BY <2>1, <2>0, <2>2, <2>3, <3>1, <3>2
  <2>9. CASE GravaEnvio(o)
    <3>1. \A f \in Arquivo : [op[o] EXCEPT !.fase = "indexa", !.feitos = {f}] \in Pedidos
      BY <2>3 DEF Pedidos
    <3>2. [op EXCEPT ![o].fase = "ok"] \in [Op -> Pedidos]
      BY <2>3 DEF Pedidos
    <3> QED BY <2>2, <2>9, <3>1, <3>2 DEF GravaEnvio
  <2>10. CASE Indexa(o)
    BY <2>3, <2>10 DEF Indexa, Pedidos
  <2>11. CASE GravaNome(o)
    <3>1. [op[o] EXCEPT !.fase = "ok"] \in Pedidos /\ op[o].itens \subseteq Arquivo
      BY <2>3 DEF Pedidos
    <3> QED BY <2>2, <2>11, <3>1 DEF GravaNome
  <2>12. CASE GravaExclusao(o)
    BY <2>3, <2>12 DEF GravaExclusao, Pedidos
  <2>13. CASE GravaPasta(o)
    BY <2>3, <2>13 DEF GravaPasta, Pedidos
  <2>14. CASE RemoveFilhos(o)
    BY <2>3, <2>14 DEF RemoveFilhos, Pedidos
  <2>15. CASE RemovePasta(o)
    BY <2>3, <2>15 DEF RemovePasta, Pedidos
  <2>16. CASE PerdeResposta(o)
    BY <2>3, <2>16 DEF PerdeResposta, Pedidos
  <2>17. CASE EngoleNome(o)
    BY <2>3, <2>17 DEF EngoleNome, Pedidos
  <2> QED BY <2>4, <2>5, <2>6, <2>7, <2>8, <2>9, <2>10, <2>11, <2>12, <2>13, <2>14, <2>15,
             <2>16, <2>17 DEF Servidor
<1>2. TipoServidor'
  <2> USE DEF TipoServidor
  <2>1. op[o].pasta \in Pasta /\ op[o].nome \in Nome /\ op[o].st \in {"armazenado", "pronto"}
        /\ op[o].itens \subseteq Arquivo /\ op[o].item \subseteq Arquivo
        /\ op[o].feitos \subseteq Arquivo
    BY DEF Pedidos
  <2>2. ASSUME NEW f \in Arquivo, NEW gs PROVE Corre(f, gs, o) => corridas' \subseteq Arquivo
    BY DEF Corre
  <2>3. ASSUME NEW f \in Arquivo, NEW p PROVE Abriga(f, p) => desabrigados' \subseteq Arquivo
    BY DEF Abriga
  <2>4. ASSUME NEW fs, Removidos(fs) PROVE arq' \in [Arquivo -> Registros]
    BY <2>4 DEF Removidos, Registros
  <2>5. CASE GravaMovido(o)
    BY <2>1, <2>2, <2>3, <2>5 DEF GravaMovido, Registros
  <2>6. CASE GravaCopia(o)
    <3>1. [st |-> op[o].st, pasta |-> op[o].pasta, nome |-> op[o].nome] \in Registros
      BY <2>1 DEF Registros
    <3> QED BY <2>2, <2>3, <2>6, <3>1 DEF GravaCopia
  <2>7. CASE GravaEnvio(o)
    <3>1. [st |-> "armazenado", pasta |-> op[o].pasta, nome |-> op[o].nome] \in Registros
      BY <2>1 DEF Registros
    <3> QED BY <2>2, <2>3, <2>7, <3>1 DEF GravaEnvio
  <2>8. CASE Indexa(o)
    BY <2>1, <2>8 DEF Indexa, Registros
  <2>9. CASE GravaNome(o)
    BY <2>1, <2>2, <2>3, <2>9 DEF GravaNome, Registros
  <2>10. CASE GravaExclusao(o)
    BY <2>4, <2>10 DEF GravaExclusao
  <2>11. CASE GravaPasta(o)
    BY <2>1, <2>11 DEF GravaPasta
  <2>12. CASE RemoveFilhos(o)
    BY <2>4, <2>12 DEF RemoveFilhos, FilhosDe
  <2>13. CASE RemovePasta(o)
    BY <2>1, <2>13 DEF RemovePasta
  <2>14. CASE \/ ConsultaItem(o) \/ ConsultaEnvio(o) \/ ConsultaNome(o)
              \/ EngoleNome(o) \/ PerdeResposta(o)
    BY <2>14 DEF ConsultaItem, ConsultaEnvio, ConsultaNome, EngoleNome, PerdeResposta, vServidor
  <2> QED BY <2>5, <2>6, <2>7, <2>8, <2>9, <2>10, <2>11, <2>12, <2>13, <2>14 DEF Servidor
<1>3. TipoTela'
  <2>1. CASE GravaMovido(o)
    <3>1. op[o].item \subseteq Arquivo
      BY DEF Pedidos
    <3>2. /\ UNCHANGED <<objetos, listagem, acoes, listas>>
          /\ falhas' = falhas \/ falhas' = falhas + 1
          /\ \E f \in op[o].item : desculpa' \in {desculpa, desculpa \cup {f}}
      BY <2>1 DEF GravaMovido, Falha
    <3> QED BY <3>1, <3>2 DEF TipoTela, EhLista
  <2>2. CASE ~GravaMovido(o)
    <3>1. UNCHANGED vTela /\ (falhas' = falhas \/ falhas' = falhas + 1)
      BY <2>2 DEF Servidor, ConsultaItem, ConsultaEnvio, ConsultaNome, GravaCopia, GravaEnvio,
             Indexa, GravaNome, EngoleNome, GravaExclusao, GravaPasta, RemoveFilhos,
             RemovePasta, PerdeResposta, Falha
    <3> QED BY <3>1, TelaFica
  <2> QED BY <2>1, <2>2
<1> QED BY <1>1, <1>2, <1>3

LEMMA RespostaTipo ==
  ASSUME TypeOK, NEW o \in Op, NEW cs, Responde(o, cs) \/ RespondeSemLista(o)
  PROVE  TypeOK'
<1>1. op' \in [Op -> Pedidos]
  BY LivreTipo DEF TypeOK, Responde, RespondeSemLista
<1>2. op[o] \in Pedidos /\ EhLista(Lista) /\ EhLista(Captura(o)) /\ objetos \in SUBSET Objetos
  BY ListaTipo DEF TypeOK, TipoTela
<1>3. Incertos(op[o]) \subseteq Pasta \cup Arquivo
  BY <1>2 DEF Incertos, Alvos, Pedidos, FilhosDe
<1>4. desculpa' \subseteq Pasta \cup Arquivo
  BY <1>3, DifereTipo DEF TypeOK, TipoTela, Responde, RespondeSemLista
<1>5. objetos' \subseteq Objetos
  <2>1. CASE Responde(o, cs)
    <3> DEFINE nova == Feito(Captura(o), op[o])
    <3>1. EhLista(nova)
      BY <1>2, FeitoTipo
    <3>2. ASSUME op[o].pasta \in DOMAIN nova
          PROVE  NoLugar(objetos, o, op[o].pasta, nova[op[o].pasta]) \in SUBSET Objetos
      <4>1. nova[op[o].pasta] \in SUBSET Arquivo
        BY <3>1, <3>2 DEF EhLista
      <4> HIDE DEF nova
      <4> QED BY <1>2, <4>1, ObjetosTipo
    <3>3. \E os \in SUBSET Objetos : objetos' = Larga(Escreve(os, nova, cs), o)
      <4>1. CASE /\ op[o].tipo \in {"copia", "envia", "moveVarios"}
                 /\ op[o].pasta \in DOMAIN nova
        BY <2>1, <3>2, <4>1 DEF Responde
      <4>2. CASE ~(/\ op[o].tipo \in {"copia", "envia", "moveVarios"}
                   /\ op[o].pasta \in DOMAIN nova)
        BY <2>1, <1>2, <4>2 DEF Responde
      <4> QED BY <4>1, <4>2
    <3> HIDE DEF nova
    <3> QED BY <3>1, <3>3, EscreveTipo, ObjetosTipo
  <2>2. CASE RespondeSemLista(o)
    BY <1>2, <2>2, ObjetosTipo DEF RespondeSemLista
  <2> QED BY <2>1, <2>2
<1>6. TipoServidor'
  BY DEF TypeOK, TipoServidor, Responde, RespondeSemLista, vServidor
<1>7. TipoTela'
  BY <1>4, <1>5 DEF TypeOK, TipoTela, EhLista, Responde, RespondeSemLista
<1> QED BY <1>1, <1>6, <1>7 DEF TypeOK

LEMMA ListagemTipo ==
  ASSUME TypeOK, NEW cs, PedeLista \/ LePastas \/ LeArquivos \/ ChegaLista(cs)
  PROVE  TypeOK'
<1>0. EhLista(<<>>)
  BY DEF EhLista
<1>1. TipoServidor' /\ op' \in [Op -> Pedidos]
  BY DEF TypeOK, TipoServidor, PedeLista, LePastas, LeArquivos, ChegaLista, vServidor
<1>2. CASE PedeLista
  BY <1>0, <1>1, <1>2 DEF TypeOK, TipoTela, PedeLista, EhLista
<1>3. CASE LePastas
  <2>1. DOMAIN NoServidor \subseteq Pasta
    BY ServidorTipo DEF TypeOK, EhLista
  <2> QED BY <1>0, <1>1, <1>3, <2>1 DEF TypeOK, TipoTela, LePastas, EhLista
<1>4. CASE LeArquivos
  <2>1. EhLista(Guardada(listagem.pastas, {f \in Arquivo : Vivo(f)}))
    BY ServidorTipo DEF TypeOK, TipoTela
  <2> QED BY <1>1, <1>4, <2>1 DEF TypeOK, TipoTela, LeArquivos, EhLista
<1>5. CASE ChegaLista(cs)
  <2>1. objetos' \subseteq Objetos
    BY <1>5, EscreveTipo DEF TypeOK, TipoTela, ChegaLista
  <2>2. \A x \in Op : op[x].itens \subseteq Arquivo
    BY DEF TypeOK, Pedidos
  <2>3. UNION {op[x].itens : x \in {y \in EmCurso : op[y].tipo = "exclui"}} \subseteq Arquivo
    BY <2>2 DEF EmCurso
  <2>4. desculpa' \subseteq Pasta \cup Arquivo
    <3>1. Difere(listagem.lista, NoServidor) \subseteq Pasta \cup Arquivo
      BY DifereTipo
    <3>2. \A X : desculpa \cap X \subseteq Pasta \cup Arquivo
      BY DEF TypeOK, TipoTela
    <3> DEFINE E == UNION {op[x].itens : x \in {y \in EmCurso : op[y].tipo = "exclui"}}
               X == UNION {Alvos(op[x]) \cup op[x].feitos : x \in EmCurso}
    <3>3. desculpa' = Difere(listagem.lista, NoServidor) \cup E \cup (desculpa \cap X)
      BY <1>5 DEF ChegaLista
    <3>4. E \subseteq Pasta \cup Arquivo
      BY <2>3
    <3> HIDE DEF E, X
    <3> QED BY <3>1, <3>2, <3>3, <3>4
  <2> QED BY <1>0, <1>1, <1>5, <2>1, <2>4 DEF TypeOK, TipoTela, ChegaLista, EhLista
<1> QED BY <1>2, <1>3, <1>4, <1>5

LEMMA InicioTipo == Init => TypeOK
<1> SUFFICES ASSUME Init PROVE TypeOK
  OBVIOUS
<1>1. TipoServidor
  BY LibraryAssumption DEF Init, TipoServidor, Registros, SemRegistro
<1>2. op \in [Op -> Pedidos]
  BY LivreTipo DEF Init
<1>3. objetos \subseteq Objetos
  <2>1. EhLista(NoServidor)
    BY <1>1, ServidorTipo
  <2>2. \A p \in DOMAIN NoServidor : Objeto(p, NoServidor[p]) \in Objetos
    BY <2>1 DEF EhLista, Objeto, Objetos
  <2> QED BY <2>2 DEF Init
<1>4. TipoTela
  BY <1>3 DEF Init, TipoTela, EhLista
<1> QED BY <1>1, <1>2, <1>4 DEF TypeOK

LEMMA TipoPasso == TypeOK /\ [Next]_vars => TypeOK'
<1> SUFFICES ASSUME TypeOK, [Next]_vars PROVE TypeOK'
  OBVIOUS
<1>1. CASE UNCHANGED vars
  BY <1>1 DEF vars, vServidor, TypeOK, TipoServidor, TipoTela, EhLista
<1>2. CASE Next
  BY <1>2, UsuarioTipo, ServidorPasso, RespostaTipo, ListagemTipo DEF Next, Resposta
<1> QED BY <1>1, <1>2

\* The variables keep their types, whatever the folders, files, requests and bounds.
THEOREM Tipos == Spec => []TypeOK
BY InicioTipo, TipoPasso, PTL DEF Spec

-----------------------------------------------------------------------------
(* No file alive without its folder.                                       *)

\* Once the files of a folder were removed, one alive in it is a named race: what
\* the removal of the folder itself relies on.
Abrigo ==
  \A f \in Arquivo : (Vivo(f) /\ SemTeto(arq[f].pasta)) => f \in desabrigados

\* What a request knew when it checked its name: who has it now came since.  The file
\* a move checked has the name checked, or lost it to a rename.
Conferida(o) ==
  op[o].fase = "grava" =>
    /\ op[o].tipo \in Item \cup {"envia"} =>
         ComNome(op[o].nome, {op[o].pasta}) \subseteq op[o].desde
    /\ op[o].tipo = "renomeia" => ComNome(op[o].nome, Pasta) \subseteq op[o].desde
    /\ op[o].tipo \in {"move", "moveVarios"} =>
         \A f \in op[o].item : /\ arq[f].st # "livre"
                               /\ arq[f].nome = op[o].nome \/ f \in corridas
Conferidas == \A o \in Op : Conferida(o)

Inv == TypeOK /\ Abrigo /\ Conferidas /\ SemHomonimos

\* The other requests go on as they were, and may learn of a file.
OutrasFicam(o) ==
  \A x \in Op \ {o} :
    /\ op'[x].tipo = op[x].tipo /\ op'[x].fase = op[x].fase /\ op'[x].pasta = op[x].pasta
    /\ op'[x].nome = op[x].nome /\ op'[x].item = op[x].item
    /\ op[x].desde \subseteq op'[x].desde

LEMMA UmaSo ==
  ASSUME TypeOK, NEW o \in Op, NEW r,
         op' = [op EXCEPT ![o] = r] \/ \E f \in Arquivo : Avanca(o, f, r)
  PROVE  OutrasFicam(o) /\ op'[o] = r
BY DEF TypeOK, Pedidos, Avanca, OutrasFicam

LEMMA TetoFica ==
  ASSUME NEW o \in Op, OutrasFicam(o), UNCHANGED pastas, op'[o].fase # "pasta"
  PROVE  \A p : SemTeto(p)' => SemTeto(p)
BY DEF SemTeto, OutrasFicam

\* A step that writes no name and no folder.
NomesFicam ==
  /\ corridas \subseteq corridas'
  /\ \A f \in Arquivo : /\ arq'[f].nome = arq[f].nome /\ arq'[f].pasta = arq[f].pasta
                        /\ Vivo(f)' => Vivo(f)
                        /\ arq[f].st # "livre" => arq'[f].st # "livre"

LEMMA SemEscrita ==
  ASSUME Inv, NEW o \in Op, OutrasFicam(o), NomesFicam, Conferida(o)'
  PROVE  Conferidas' /\ SemHomonimos'
<1>1. ASSUME NEW x \in Op \ {o} PROVE Conferida(x)'
  <2>1. /\ op'[x].tipo = op[x].tipo /\ op'[x].fase = op[x].fase /\ op'[x].pasta = op[x].pasta
        /\ op'[x].nome = op[x].nome /\ op'[x].item = op[x].item
        /\ op[x].desde \subseteq op'[x].desde
    BY DEF OutrasFicam
  <2>2. Conferida(x)
    BY DEF Inv, Conferidas
  <2>3. op[x].item \subseteq Arquivo
    BY DEF Inv, TypeOK, Pedidos
  <2>4. ComNome(op[x].nome, {op[x].pasta})' \subseteq ComNome(op[x].nome, {op[x].pasta})
    BY <2>1 DEF ComNome, NomesFicam
  <2>5. ComNome(op[x].nome, Pasta)' \subseteq ComNome(op[x].nome, Pasta)
    BY <2>1 DEF ComNome, NomesFicam
  <2> QED BY <2>1, <2>2, <2>3, <2>4, <2>5 DEF Conferida, NomesFicam
<1>2. SemHomonimos'
  BY DEF Inv, SemHomonimos, NomesFicam
<1> QED BY <1>1, <1>2 DEF Conferidas

LEMMA AbrigoFica ==
  ASSUME Inv, NEW o \in Op, OutrasFicam(o), NomesFicam, UNCHANGED pastas,
         op'[o].fase # "pasta", desabrigados \subseteq desabrigados'
  PROVE  Abrigo'
BY TetoFica DEF Inv, Abrigo, NomesFicam

\* A write of f by o, which gives it a folder and a name.
Escrita(o, f) ==
  /\ UNCHANGED pastas /\ corridas \subseteq corridas'
  /\ \A g \in Arquivo \ {f} : arq'[g] = arq[g]
  /\ arq[f].st # "livre" => arq'[f].st # "livre"
  /\ Abriga(f, arq'[f].pasta)
  /\ \A g \in Arquivo \ {f} :
       Vivo(g) /\ arq[g].pasta = arq'[f].pasta /\ arq[g].nome = arq'[f].nome => f \in corridas'
  /\ \A x \in Op \ {o} :
       /\ f \in op'[x].desde
       /\ (op[x].fase = "grava" /\ f \in op[x].item /\ arq[f].st # "livre") =>
            f \in corridas' \/ arq'[f].nome = arq[f].nome
  /\ op'[o].fase \notin {"grava", "pasta"}

LEMMA EscritaSegura ==
  ASSUME Inv, NEW o \in Op, NEW f \in Arquivo, OutrasFicam(o), Escrita(o, f)
  PROVE  Abrigo' /\ Conferidas' /\ SemHomonimos'
<1>1. Abrigo'
  <2>1. \A p : SemTeto(p)' => SemTeto(p)
    BY TetoFica DEF Escrita
  <2>2. ASSUME NEW g \in Arquivo, Vivo(g)', SemTeto(arq[g].pasta)' PROVE g \in desabrigados'
    <3>0. \A p : p = arq'[g].pasta => SemTeto(p)'
      BY <2>2 DEF SemTeto
    <3>1. SemTeto(arq'[g].pasta)
      BY <2>1, <3>0
    <3>2. CASE g = f
      BY <3>1, <3>2 DEF Escrita, Abriga
    <3>3. CASE g # f
      <4>1. g \in desabrigados
        BY <2>2, <3>1, <3>3 DEF Inv, Abrigo, Escrita, Vivo
      <4> QED BY <3>3, <4>1 DEF Escrita, Abriga
    <3> QED BY <3>2, <3>3
  <2> QED BY <2>2 DEF Abrigo
<1>2. ASSUME NEW x \in Op PROVE Conferida(x)'
  <2>1. CASE x = o
    BY <2>1 DEF Escrita, Conferida
  <2>2. CASE x # o
    <3>1. /\ op'[x].tipo = op[x].tipo /\ op'[x].fase = op[x].fase /\ op'[x].pasta = op[x].pasta
          /\ op'[x].nome = op[x].nome /\ op'[x].item = op[x].item
          /\ op[x].desde \subseteq op'[x].desde /\ f \in op'[x].desde
      BY <2>2 DEF OutrasFicam, Escrita
    <3>2. Conferida(x) /\ op[x].item \subseteq Arquivo
      BY DEF Inv, Conferidas, TypeOK, Pedidos
    <3>3. ComNome(op[x].nome, {op[x].pasta})' \subseteq ComNome(op[x].nome, {op[x].pasta}) \cup {f}
      BY <3>1 DEF ComNome, Escrita, Vivo
    <3>4. ComNome(op[x].nome, Pasta)' \subseteq ComNome(op[x].nome, Pasta) \cup {f}
      BY <3>1 DEF ComNome, Escrita, Vivo
    <3>5. ASSUME op[x].fase = "grava", op[x].tipo \in {"move", "moveVarios"},
                 NEW g \in op[x].item
          PROVE  arq'[g].st # "livre" /\ (arq'[g].nome = op[x].nome \/ g \in corridas')
      <4>1. arq[g].st # "livre" /\ (arq[g].nome = op[x].nome \/ g \in corridas)
        BY <3>2, <3>5 DEF Conferida
      <4>2. CASE g = f
        BY <2>2, <3>5, <4>1, <4>2 DEF Escrita
      <4>3. CASE g # f
        BY <3>2, <4>1, <4>3 DEF Escrita
      <4> QED BY <4>2, <4>3
    <3> QED BY <3>1, <3>2, <3>3, <3>4, <3>5 DEF Conferida
  <2> QED BY <2>1, <2>2
<1>3. SemHomonimos'
  BY DEF Inv, SemHomonimos, Escrita, Vivo
<1> QED BY <1>1, <1>2, <1>3 DEF Conferidas

\* A step that leaves the store alone, and starts no write of a name.
LEMMA ServidorFica ==
  ASSUME Inv, NEW o \in Op, OutrasFicam(o), UNCHANGED vServidor,
         op'[o].fase # "pasta",
         op'[o].fase = "grava" => op'[o].tipo \notin Item \cup {"envia", "renomeia"}
  PROVE  Abrigo' /\ Conferidas' /\ SemHomonimos'
<1>1. NomesFicam /\ UNCHANGED pastas /\ desabrigados \subseteq desabrigados'
  BY DEF NomesFicam, vServidor, Vivo
<1>2. Conferida(o)'
  BY DEF Conferida, Item
<1> QED BY <1>1, <1>2, SemEscrita, AbrigoFica

LEMMA UsuarioSeguro ==
  ASSUME Inv, NEW o \in Op, Usuario(o)
  PROVE  Abrigo' /\ Conferidas' /\ SemHomonimos'
<1> DEFINE Comum(r) == /\ Comeca(o, r) /\ r.fase # "pasta"
                       /\ r.fase = "grava" => r.tipo \notin Item \cup {"envia", "renomeia"}
<1>1. \E r : Comum(r)
  <2>1. \A t, fs, p, q, n :
          /\ t \in Item \cup {"envia", "renomeia"} =>
               Pedido(t, "consulta", fs, p, q, n).fase = "consulta"
          /\ t \notin Item \cup {"envia", "renomeia"} =>
               /\ Pedido(t, "grava", fs, p, q, n).fase = "grava"
               /\ Pedido(t, "grava", fs, p, q, n).tipo = t
          /\ Pedido(t, "ok", fs, p, q, n).fase = "ok"
    BY DEF Pedido, OpLivre
  <2>2. \/ \E fs, p, q, n : \E t \in Item \cup {"envia", "renomeia"} :
             Comeca(o, Pedido(t, "consulta", fs, p, q, n))
        \/ \E fs, p, q, n : \E t \in {"exclui", "excluiVarios", "criaPasta", "excluiPasta"} :
             Comeca(o, Pedido(t, "grava", fs, p, q, n))
        \/ \E t, fs, p, q, n : Comeca(o, Pedido(t, "ok", fs, p, q, n))
    BY DEF Usuario, MenuDoArquivo, MenuDaPasta, Envia, MoveArquivo, MoveVarios, Copia, Renomeia,
           Exclui, ExcluiVarios, CriaPasta, ExcluiPasta, RenomeiaPasta, Item
  <2> QED BY <2>1, <2>2 DEF Item
<1>2. PICK r : Comum(r)
  BY <1>1
<1>3. OutrasFicam(o) /\ op'[o] = r
  BY <1>2, UmaSo DEF Comeca, Inv
<1> QED BY <1>2, <1>3, ServidorFica DEF Comeca

LEMMA ConsultaSegura ==
  ASSUME Inv, NEW o \in Op, ConsultaItem(o) \/ ConsultaEnvio(o) \/ ConsultaNome(o)
  PROVE  Abrigo' /\ Conferidas' /\ SemHomonimos'
<1>0. op[o] \in Pedidos /\ UNCHANGED vServidor
  BY DEF Inv, TypeOK, ConsultaItem, ConsultaEnvio, ConsultaNome
<1>1. OutrasFicam(o) /\ op'[o].fase # "pasta" /\ Conferida(o)'
  <2>1. CASE ConsultaItem(o)
    <3>1. PICK f \in op[o].itens :
            \/ op' = [op EXCEPT ![o].fase = "erro", ![o].falhou = TRUE]
            \/ op' = [op EXCEPT ![o].itens = op[o].itens \ {f},
                                ![o].fase = IF op[o].itens = {f} THEN Fim(op[o]) ELSE op[o].fase]
            \/ /\ Vivo(f) /\ ~Ocupado(arq[f].nome, {op[o].pasta})
               /\ op' = [op EXCEPT ![o].fase = "grava", ![o].item = {f},
                                   ![o].itens = op[o].itens \ {f}, ![o].desde = {},
                                   ![o].nome = arq[f].nome, ![o].st = arq[f].st]
      BY <2>1 DEF ConsultaItem
    <3>2. OutrasFicam(o)
      BY <3>1, UmaSo DEF Inv, TypeOK, OutrasFicam
    <3>0. op \in [Op -> Pedidos] /\ op[o].fase = "consulta" /\ op[o].tipo \in Item
      BY <2>1 DEF Inv, TypeOK, ConsultaItem
    <3>3. CASE op'[o].fase # "grava"
      <4>1. op'[o].fase \in {"erro", "ok", "consulta", "grava"}
        BY <1>0, <3>0, <3>1 DEF Pedidos, Fim
      <4> QED BY <3>2, <3>3, <4>1 DEF Conferida
    <3>4. CASE op'[o].fase = "grava"
      <4>1. /\ Vivo(f) /\ ComNome(arq[f].nome, {op[o].pasta}) = {}
            /\ op'[o].pasta = op[o].pasta /\ op'[o].nome = arq[f].nome /\ op'[o].item = {f}
            /\ op'[o].tipo = op[o].tipo
        <5>1. /\ Vivo(f) /\ ~Ocupado(arq[f].nome, {op[o].pasta})
              /\ op' = [op EXCEPT ![o].fase = "grava", ![o].item = {f},
                                  ![o].itens = op[o].itens \ {f}, ![o].desde = {},
                                  ![o].nome = arq[f].nome, ![o].st = arq[f].st]
          BY <1>0, <3>0, <3>1, <3>4 DEF Pedidos, Fim
        <5> QED BY <1>0, <3>0, <5>1 DEF Pedidos, Ocupado
      <4>2. ComNome(op[o].nome, {op[o].pasta})' = {}
        BY <1>0, <4>1 DEF ComNome, Vivo, vServidor
      <4>3. op'[o].tipo \in Item
        BY <2>1, <4>1 DEF ConsultaItem
      <4> QED BY <1>0, <3>2, <3>4, <4>1, <4>2, <4>3 DEF Conferida, Item, Vivo, vServidor
    <3> QED BY <3>3, <3>4
  <2>2. CASE ConsultaEnvio(o)
    <3>1. OutrasFicam(o)
      BY <2>2 DEF Inv, TypeOK, OutrasFicam, ConsultaEnvio
    <3>2. /\ op'[o].pasta = op[o].pasta /\ op'[o].nome = op[o].nome /\ op'[o].tipo = "envia"
          /\ op'[o].fase = IF Ocupado(op[o].nome, {op[o].pasta}) THEN "erro" ELSE "grava"
      BY <1>0, <2>2 DEF Inv, TypeOK, Pedidos, ConsultaEnvio
    <3>3. ComNome(op[o].nome, {op[o].pasta})' = ComNome(op[o].nome, {op[o].pasta})
      BY <1>0, <3>2 DEF ComNome, Vivo, vServidor
    <3> QED BY <3>1, <3>2, <3>3 DEF Conferida, Ocupado
  <2>3. CASE ConsultaNome(o)
    <3>1. OutrasFicam(o)
      BY <2>3 DEF Inv, TypeOK, OutrasFicam, ConsultaNome
    <3>2. /\ op'[o].nome = op[o].nome /\ op'[o].tipo = "renomeia"
          /\ op'[o].fase = IF Ocupado(op[o].nome, Pasta) THEN "erro" ELSE "grava"
      BY <1>0, <2>3 DEF Inv, TypeOK, Pedidos, ConsultaNome
    <3>3. ComNome(op[o].nome, Pasta)' = ComNome(op[o].nome, Pasta)
      BY <1>0, <3>2 DEF ComNome, Vivo, vServidor
    <3> QED BY <3>1, <3>2, <3>3 DEF Conferida, Ocupado, Item
  <2> QED BY <2>1, <2>2, <2>3
<1>2. NomesFicam /\ UNCHANGED pastas /\ desabrigados \subseteq desabrigados'
  BY <1>0 DEF NomesFicam, vServidor, Vivo
<1> QED BY <1>1, <1>2, SemEscrita, AbrigoFica

LEMMA GravaSegura ==
  ASSUME Inv, NEW o \in Op,
         GravaMovido(o) \/ GravaCopia(o) \/ GravaEnvio(o) \/ GravaNome(o)
  PROVE  Abrigo' /\ Conferidas' /\ SemHomonimos'
<1>0. op[o] \in Pedidos /\ Conferida(o) /\ UNCHANGED pastas
  BY DEF Inv, TypeOK, Conferidas, GravaMovido, GravaCopia, GravaEnvio, GravaNome
<1>1. \A r \in Pedidos : Depois(r).fase \notin {"grava", "pasta"}
  BY DEF Depois, Fim, Pedidos
<1>2. ASSUME NEW f \in Arquivo, NEW r, Avanca(o, f, r), r.fase \notin {"grava", "pasta"}
      PROVE  /\ OutrasFicam(o) /\ op'[o].fase \notin {"grava", "pasta"}
             /\ \A x \in Op \ {o} : f \in op'[x].desde
  <2>1. OutrasFicam(o) /\ op'[o] = r
    BY <1>2, UmaSo DEF Inv
  <2> QED BY <1>2, <2>1 DEF Avanca, Inv, TypeOK, Pedidos
<1>3. ASSUME NEW r, op' = [op EXCEPT ![o] = r], r.fase \notin {"grava", "pasta"},
             UNCHANGED vServidor
      PROVE  Abrigo' /\ Conferidas' /\ SemHomonimos'
  <2>1. OutrasFicam(o) /\ op'[o] = r
    BY <1>3, UmaSo DEF Inv
  <2> QED BY <1>3, <2>1, ServidorFica
<1>4. ASSUME NEW f \in Arquivo, NEW gs, Corre(f, gs, o), NEW g \in gs \ {f}, g \in op[o].desde
      PROVE  f \in corridas'
  BY <1>4 DEF Corre
<1>5. \A f \in Arquivo : \A gs : Corre(f, gs, o) => corridas \subseteq corridas'
  BY DEF Corre
<1>6. CASE GravaMovido(o)
  <2>1. PICK f \in op[o].item :
          \/ /\ IF Vivo(f)
                  THEN /\ arq' = [arq EXCEPT ![f].pasta = op[o].pasta]
                       /\ Corre(f, ComNome(arq[f].nome, {op[o].pasta}), o)
                       /\ Abriga(f, op[o].pasta)
                  ELSE UNCHANGED <<arq, corridas, desabrigados>>
             /\ Avanca(o, f, Depois([op[o] EXCEPT !.feitos = op[o].feitos \cup {f}]))
          \/ /\ op' = [op EXCEPT ![o] = Depois([op[o] EXCEPT !.falhou = TRUE])]
             /\ UNCHANGED <<arq, corridas, desabrigados>>
    BY <1>6 DEF GravaMovido
  <2>2. f \in Arquivo /\ [op[o] EXCEPT !.feitos = op[o].feitos \cup {f}] \in Pedidos
    BY <1>0 DEF Pedidos
  <2>3. CASE op' = [op EXCEPT ![o] = Depois([op[o] EXCEPT !.falhou = TRUE])]
             /\ UNCHANGED <<arq, corridas, desabrigados>>
    <3>1. [op[o] EXCEPT !.falhou = TRUE] \in Pedidos
      BY <1>0 DEF Pedidos
    <3> QED BY <1>0, <1>1, <1>3, <2>3, <3>1 DEF vServidor
  <2>4. CASE ~Vivo(f) /\ UNCHANGED <<arq, corridas, desabrigados>>
             /\ Avanca(o, f, Depois([op[o] EXCEPT !.feitos = op[o].feitos \cup {f}]))
    BY <1>0, <1>1, <1>2, <2>2, <2>4, ServidorFica DEF vServidor
  <2>5. CASE /\ Vivo(f) /\ arq' = [arq EXCEPT ![f].pasta = op[o].pasta]
             /\ Corre(f, ComNome(arq[f].nome, {op[o].pasta}), o)
             /\ Abriga(f, op[o].pasta)
             /\ Avanca(o, f, Depois([op[o] EXCEPT !.feitos = op[o].feitos \cup {f}]))
    <3>1. OutrasFicam(o) /\ op'[o].fase \notin {"grava", "pasta"}
          /\ \A x \in Op \ {o} : f \in op'[x].desde
      BY <1>1, <1>2, <2>2, <2>5
    <3>2. arq'[f].pasta = op[o].pasta /\ arq'[f].nome = arq[f].nome /\ arq'[f].st = arq[f].st
          /\ \A g \in Arquivo \ {f} : arq'[g] = arq[g]
      BY <2>2, <2>5 DEF Inv, TypeOK, TipoServidor, Registros
    <3>3. ASSUME NEW g \in Arquivo \ {f}, Vivo(g), arq[g].pasta = arq'[f].pasta,
                 arq[g].nome = arq'[f].nome
          PROVE  f \in corridas'
      <4>1. g \in ComNome(arq[f].nome, {op[o].pasta})
        BY <3>2, <3>3 DEF ComNome
      <4>2. arq[f].nome = op[o].nome \/ f \in corridas
        BY <1>0, <1>6 DEF Conferida, GravaMovido
      <4>3. ComNome(op[o].nome, {op[o].pasta}) \subseteq op[o].desde
        BY <1>0, <1>6 DEF Conferida, GravaMovido, Item
      <4>4. g \in op[o].desde \/ f \in corridas
        BY <4>1, <4>2, <4>3
      <4> QED BY <1>4, <1>5, <2>2, <2>5, <4>1, <4>4
    <3>4. Escrita(o, f)
      BY <1>0, <1>5, <2>2, <2>5, <3>1, <3>2, <3>3 DEF Escrita
    <3> QED BY <2>2, <3>1, <3>4, EscritaSegura
  <2> QED BY <2>1, <2>3, <2>4, <2>5
<1>7. CASE GravaCopia(o)
  <2>1. CASE op' = [op EXCEPT ![o] = Depois(op[o])] /\ UNCHANGED <<arq, corridas, desabrigados>>
    BY <1>0, <1>1, <1>3, <2>1 DEF vServidor
  <2>2. ASSUME NEW f \in Arquivo, arq[f].st = "livre",
               arq' = [arq EXCEPT ![f] = [st |-> op[o].st, pasta |-> op[o].pasta,
                                          nome |-> op[o].nome]],
               Corre(f, ComNome(op[o].nome, {op[o].pasta}), o), Abriga(f, op[o].pasta),
               Avanca(o, f, Depois([op[o] EXCEPT !.feitos = op[o].feitos \cup {f}]))
        PROVE  Abrigo' /\ Conferidas' /\ SemHomonimos'
    <3>0. [op[o] EXCEPT !.feitos = op[o].feitos \cup {f}] \in Pedidos
      BY <1>0 DEF Pedidos
    <3>1. OutrasFicam(o) /\ op'[o].fase \notin {"grava", "pasta"}
          /\ \A x \in Op \ {o} : f \in op'[x].desde
      BY <1>1, <1>2, <2>2, <3>0
    <3>2. arq'[f].pasta = op[o].pasta /\ arq'[f].nome = op[o].nome
          /\ \A g \in Arquivo \ {f} : arq'[g] = arq[g]
      BY <2>2 DEF Inv, TypeOK, TipoServidor
    <3>3. ComNome(op[o].nome, {op[o].pasta}) \subseteq op[o].desde
      BY <1>0, <1>7 DEF Conferida, GravaCopia, Item
    <3>4. \A g \in Arquivo \ {f} :
            Vivo(g) /\ arq[g].pasta = arq'[f].pasta /\ arq[g].nome = arq'[f].nome => f \in corridas'
      BY <1>4, <2>2, <3>2, <3>3 DEF ComNome
    <3>5. Escrita(o, f)
      BY <1>0, <1>5, <2>2, <3>1, <3>2, <3>4 DEF Escrita
    <3> QED BY <3>1, <3>5, EscritaSegura
  <2> QED BY <1>7, <2>1, <2>2 DEF GravaCopia
<1>8. CASE GravaEnvio(o)
  <2>1. CASE op' = [op EXCEPT ![o].fase = "ok"] /\ UNCHANGED <<arq, corridas, desabrigados>>
    <3>1. op' = [op EXCEPT ![o] = [op[o] EXCEPT !.fase = "ok"]]
      BY <2>1
    <3> QED BY <1>0, <1>3, <2>1, <3>1 DEF vServidor, Pedidos
  <2>2. ASSUME NEW f \in Arquivo, arq[f].st = "livre",
               arq' = [arq EXCEPT ![f] = [st |-> "armazenado", pasta |-> op[o].pasta,
                                          nome |-> op[o].nome]],
               Corre(f, ComNome(op[o].nome, {op[o].pasta}), o), Abriga(f, op[o].pasta),
               Avanca(o, f, [op[o] EXCEPT !.fase = "indexa", !.feitos = {f}])
        PROVE  Abrigo' /\ Conferidas' /\ SemHomonimos'
    <3>0. [op[o] EXCEPT !.fase = "indexa", !.feitos = {f}].fase = "indexa"
      BY <1>0 DEF Pedidos
    <3>1. OutrasFicam(o) /\ op'[o].fase \notin {"grava", "pasta"}
          /\ \A x \in Op \ {o} : f \in op'[x].desde
      BY <1>2, <2>2, <3>0
    <3>2. arq'[f].pasta = op[o].pasta /\ arq'[f].nome = op[o].nome
          /\ \A g \in Arquivo \ {f} : arq'[g] = arq[g]
      BY <2>2 DEF Inv, TypeOK, TipoServidor
    <3>3. ComNome(op[o].nome, {op[o].pasta}) \subseteq op[o].desde
      BY <1>0, <1>8 DEF Conferida, GravaEnvio
    <3>4. \A g \in Arquivo \ {f} :
            Vivo(g) /\ arq[g].pasta = arq'[f].pasta /\ arq[g].nome = arq'[f].nome => f \in corridas'
      BY <1>4, <2>2, <3>2, <3>3 DEF ComNome
    <3>5. Escrita(o, f)
      BY <1>0, <1>5, <2>2, <3>1, <3>2, <3>4 DEF Escrita
    <3> QED BY <3>1, <3>5, EscritaSegura
  <2> QED BY <1>8, <2>1, <2>2 DEF GravaEnvio
<1>9. CASE GravaNome(o)
  <2>1. PICK f \in op[o].itens :
          /\ arq' = [arq EXCEPT ![f].nome = op[o].nome]
          /\ IF \E x \in Op : op[x].fase = "grava" /\ f \in op[x].item
               THEN corridas' = corridas \cup {f}
               ELSE Corre(f, ComNome(op[o].nome, Pasta), o)
          /\ Abriga(f, arq[f].pasta)
          /\ Avanca(o, f, [op[o] EXCEPT !.fase = "ok"])
    BY <1>9 DEF GravaNome
  <2>2. f \in Arquivo /\ [op[o] EXCEPT !.fase = "ok"].fase = "ok"
    BY <1>0 DEF Pedidos
  <2>3. OutrasFicam(o) /\ op'[o].fase \notin {"grava", "pasta"}
        /\ \A x \in Op \ {o} : f \in op'[x].desde
    BY <1>2, <2>1, <2>2
  <2>4. arq'[f].pasta = arq[f].pasta /\ arq'[f].nome = op[o].nome /\ arq'[f].st = arq[f].st
        /\ \A g \in Arquivo \ {f} : arq'[g] = arq[g]
    BY <2>1, <2>2 DEF Inv, TypeOK, TipoServidor, Registros
  <2>5. ComNome(op[o].nome, Pasta) \subseteq op[o].desde
    BY <1>0, <1>9 DEF Conferida, GravaNome
  <2>6. corridas \subseteq corridas'
    BY <1>5, <2>1, <2>2
  <2>7. \A x \in Op : op[x].fase = "grava" /\ f \in op[x].item => f \in corridas'
    BY <2>1
  <2>8. ASSUME NEW g \in Arquivo \ {f}, Vivo(g), arq[g].nome = arq'[f].nome
        PROVE  f \in corridas'
    <3>1. arq[g].pasta \in Pasta
      BY DEF Inv, TypeOK, TipoServidor, Registros
    <3>2. g \in ComNome(op[o].nome, Pasta)
      BY <2>4, <2>8, <3>1 DEF ComNome
    <3> QED BY <1>4, <2>1, <2>2, <2>5, <3>2
  <2>9. Escrita(o, f)
    BY <1>0, <2>1, <2>2, <2>3, <2>4, <2>6, <2>7, <2>8 DEF Escrita
  <2> QED BY <2>2, <2>3, <2>9, EscritaSegura
<1> QED BY <1>6, <1>7, <1>8, <1>9

\* Removals, the end of an upload, and the writes of folders.
LEMMA RemocaoSegura ==
  ASSUME Inv, NEW o \in Op,
         \/ Indexa(o) \/ GravaExclusao(o) \/ GravaPasta(o) \/ RemoveFilhos(o) \/ RemovePasta(o)
         \/ EngoleNome(o) \/ PerdeResposta(o)
  PROVE  Abrigo' /\ Conferidas' /\ SemHomonimos'
<1>0. op \in [Op -> Pedidos] /\ op[o] \in Pedidos /\ arq \in [Arquivo -> Registros]
  BY DEF Inv, TypeOK, TipoServidor
<1>1. OutrasFicam(o) /\ op'[o].fase # "grava"
  <2>1. \E r \in Pedidos : op' = [op EXCEPT ![o] = r] /\ r.fase # "grava"
    <3>1. \A a \in {"ok", "erro", "pasta"}, b \in BOOLEAN :
            /\ [op[o] EXCEPT !.fase = a] \in Pedidos /\ [op[o] EXCEPT !.fase = a].fase # "grava"
            /\ [op[o] EXCEPT !.fase = a, !.falhou = b] \in Pedidos
            /\ [op[o] EXCEPT !.fase = a, !.falhou = b].fase # "grava"
      BY <1>0 DEF Pedidos, Fases
    <3>2. \E a \in {"ok", "erro", "pasta"} :
            \/ op' = [op EXCEPT ![o].fase = a]
            \/ op' = [op EXCEPT ![o].fase = a, ![o].falhou = TRUE]
      BY DEF Indexa, GravaExclusao, GravaPasta, RemoveFilhos, RemovePasta, EngoleNome,
             PerdeResposta
    <3>3. \A a \in {"ok", "erro", "pasta"} :
            /\ [op EXCEPT ![o].fase = a] = [op EXCEPT ![o] = [op[o] EXCEPT !.fase = a]]
            /\ [op EXCEPT ![o].fase = a, ![o].falhou = TRUE]
                 = [op EXCEPT ![o] = [op[o] EXCEPT !.fase = a, !.falhou = TRUE]]
      BY <1>0
    <3> QED BY <3>1, <3>2, <3>3
  <2> QED BY <2>1, UmaSo DEF Inv
<1>2. Conferida(o)'
  BY <1>1 DEF Conferida
<1>3. NomesFicam /\ desabrigados \subseteq desabrigados'
  <2>0. \A fs : Removidos(fs) => \A f \in Arquivo :
          arq'[f].nome = arq[f].nome /\ arq'[f].pasta = arq[f].pasta
          /\ arq'[f].st \in {arq[f].st, "removido"}
    BY <1>0 DEF Removidos, Registros
  <2>1. CASE Indexa(o)
    <3>1. PICK f \in op[o].feitos :
            \/ arq' = [arq EXCEPT ![f].st = IF Vivo(f) THEN "pronto" ELSE arq[f].st]
            \/ arq' = arq
            \/ arq' = [arq EXCEPT ![f].st = "removido"]
      BY <2>1 DEF Indexa
    <3>2. UNCHANGED <<corridas, desabrigados>>
      BY <2>1 DEF Indexa
    <3>3. \A g \in Arquivo : /\ arq'[g].nome = arq[g].nome /\ arq'[g].pasta = arq[g].pasta
                             /\ \/ arq'[g].st \in {arq[g].st, "removido"}
                                \/ Vivo(g) /\ arq'[g].st = "pronto"
      BY <1>0, <3>1 DEF Registros
    <3> QED BY <3>2, <3>3 DEF NomesFicam, Vivo
  <2>2. CASE GravaExclusao(o)
    BY <2>0, <2>2 DEF GravaExclusao, NomesFicam, Vivo
  <2>3. CASE GravaPasta(o)
    BY <2>3 DEF GravaPasta, NomesFicam, Vivo
  <2>4. CASE RemoveFilhos(o)
    BY <2>0, <2>4 DEF RemoveFilhos, NomesFicam, Vivo
  <2>5. CASE RemovePasta(o)
    BY <2>5 DEF RemovePasta, NomesFicam, Vivo
  <2>6. CASE EngoleNome(o) \/ PerdeResposta(o)
    BY <2>6 DEF EngoleNome, PerdeResposta, NomesFicam, Vivo, vServidor
  <2> QED BY <2>1, <2>2, <2>3, <2>4, <2>5, <2>6
<1>4. Abrigo'
  <2>1. CASE Indexa(o) \/ GravaExclusao(o) \/ EngoleNome(o) \/ PerdeResposta(o)
    <3>1. UNCHANGED pastas /\ op'[o].fase # "pasta"
      BY <1>0, <2>1 DEF Indexa, GravaExclusao, EngoleNome, PerdeResposta, vServidor, Pedidos
    <3> QED BY <1>1, <1>3, <3>1, AbrigoFica
  <2>2. CASE GravaPasta(o) \/ RemovePasta(o)
    <3>1. op'[o].fase # "pasta" /\ op[o].pasta \in Pasta
          /\ pastas \in [Pasta -> {"livre", "viva", "removida"}]
      BY <1>0, <2>2 DEF GravaPasta, RemovePasta, Pedidos, Inv, TypeOK, TipoServidor
    <3>2. \A p \in Pasta : SemTeto(p)' => SemTeto(p)
      <4>1. CASE GravaPasta(o)
        BY <1>1, <3>1, <4>1 DEF SemTeto, OutrasFicam, GravaPasta
      <4>2. CASE RemovePasta(o)
        BY <1>1, <3>1, <4>2 DEF SemTeto, OutrasFicam, RemovePasta
      <4> QED BY <2>2, <4>1, <4>2
    <3>3. \A f \in Arquivo : arq'[f].pasta \in Pasta
      BY <1>0, <1>3 DEF NomesFicam, Registros
    <3> QED BY <1>3, <3>2, <3>3 DEF Inv, Abrigo, NomesFicam
  <2>3. CASE RemoveFilhos(o)
    <3>1. \A p \in Pasta \ {op[o].pasta} : SemTeto(p)' => SemTeto(p)
      <4>1. op'[o].pasta = op[o].pasta /\ UNCHANGED pastas
        BY <1>0, <2>3 DEF RemoveFilhos, Pedidos
      <4> QED BY <1>1, <4>1 DEF SemTeto, OutrasFicam
    <3>2. ASSUME NEW f \in Arquivo, Vivo(f)', arq[f].pasta = op[o].pasta
          PROVE  f \in desabrigados'
      <4>1. f \in FilhosDe(op[o].pasta)
        BY <1>3, <3>2 DEF FilhosDe, NomesFicam, Vivo
      <4>2. ~Removidos(FilhosDe(op[o].pasta))
        BY <1>0, <3>2, <4>1 DEF Removidos, Vivo, Registros
      <4> QED BY <2>3, <4>1, <4>2 DEF RemoveFilhos
    <3>3. \A f \in Arquivo : arq'[f].pasta = arq[f].pasta /\ arq[f].pasta \in Pasta
      BY <1>0, <1>3 DEF NomesFicam, Registros
    <3> QED BY <1>3, <3>1, <3>2, <3>3 DEF Inv, Abrigo, NomesFicam
  <2> QED BY <2>1, <2>2, <2>3
<1> QED BY <1>1, <1>2, <1>3, <1>4, SemEscrita

LEMMA RespostaSegura ==
  ASSUME Inv, NEW o \in Op, NEW cs, Responde(o, cs) \/ RespondeSemLista(o)
  PROVE  Abrigo' /\ Conferidas' /\ SemHomonimos'
<1>1. op' = [op EXCEPT ![o] = OpLivre] /\ UNCHANGED vServidor
  BY DEF Responde, RespondeSemLista
<1>2. OutrasFicam(o) /\ op'[o] = OpLivre
  BY <1>1, UmaSo DEF Inv
<1> QED BY <1>1, <1>2, ServidorFica DEF OpLivre

\* What the requests and the store give the properties.
LEMMA InvFica ==
  ASSUME Inv, UNCHANGED <<vServidor, op>>
  PROVE  Abrigo' /\ Conferidas' /\ SemHomonimos'
BY DEF Inv, Abrigo, Conferidas, Conferida, SemHomonimos, SemTeto, ComNome, Vivo, vServidor

LEMMA Indutiva == Spec => []Inv
<1>1. Init => Inv
  <2> SUFFICES ASSUME Init, TypeOK PROVE Inv
    BY InicioTipo
  <2>1. \A f \in Arquivo : Vivo(f) => pastas[arq[f].pasta] = "viva"
    BY DEF Init, Vivo, SemRegistro
  <2>2. \A o \in Op : op[o].fase = "livre"
    BY DEF Init, OpLivre
  <2> QED BY <2>1, <2>2 DEF Init, Inv, Abrigo, SemTeto, Conferidas, Conferida, SemHomonimos
<1>2. Inv /\ [Next]_vars => Inv'
  <2> SUFFICES ASSUME Inv, [Next]_vars PROVE Inv'
    OBVIOUS
  <2>1. TypeOK'
    BY TipoPasso DEF Inv
  <2>2. Abrigo' /\ Conferidas' /\ SemHomonimos'
    <3>1. CASE UNCHANGED <<vServidor, op>>
      BY <3>1, InvFica
    <3>2. ASSUME NEW o \in Op, Usuario(o) \/ Servidor(o) \/ Resposta(o)
          PROVE  Abrigo' /\ Conferidas' /\ SemHomonimos'
      BY <3>2, UsuarioSeguro, ConsultaSegura, GravaSegura, RemocaoSegura, RespostaSegura
         DEF Servidor, Resposta
    <3> QED BY <3>1, <3>2 DEF Next, vars, PedeLista, LePastas, LeArquivos, ChegaLista
  <2> QED BY <2>1, <2>2 DEF Inv
<1> QED BY <1>1, <1>2, PTL DEF Spec

\* Deleting a folder leaves no file alive in it, but for those written to it during
\* its deletion or after, and those whose removal failed.
THEOREM Orfaos == Spec => []SemOrfaos
<1>1. Inv => SemOrfaos
  BY DEF Inv, Abrigo, SemTeto, SemOrfaos
<1> QED BY <1>1, Indutiva, PTL

\* Two files of a folder have one name only if it was taken between the check and
\* the write of a request.
THEOREM Homonimos == Spec => []SemHomonimos
<1>1. Inv => SemHomonimos
  BY DEF Inv
<1> QED BY <1>1, Indutiva, PTL

-----------------------------------------------------------------------------
(* The list of the sidebar: its folders, and where it shows a file.        *)

Onde(l, f) == {p \in DOMAIN l : f \in l[p]}

\* At most one object of a folder is in the list, and in what a request holds.
Unicas(os) == \A x, y \in os : x.pasta = y.pasta => x = y
Boa(os) ==
  \A x, y \in os :
    (x.pasta = y.pasta /\ ((x.atual /\ y.atual) \/ x.presos \cap y.presos # {})) => x = y

LEMMA OndeConteudo ==
  ASSUME NEW os, Unicas(os), NEW f
  PROVE  /\ DOMAIN Conteudo(os) = {x.pasta : x \in os}
         /\ Onde(Conteudo(os), f) = {x.pasta : x \in {y \in os : f \in y.arquivos}}
<1>1. DOMAIN Conteudo(os) = {x.pasta : x \in os}
  BY DEF Conteudo
<1>2. ASSUME NEW x \in os PROVE Conteudo(os)[x.pasta] = x.arquivos
  <2>1. (CHOOSE y \in os : y.pasta = x.pasta) = x
    BY DEF Unicas
  <2> QED BY <2>1 DEF Conteudo
<1>3. ASSUME NEW p
      PROVE  p \in Onde(Conteudo(os), f) <=> \E x \in os : x.pasta = p /\ f \in x.arquivos
  BY <1>1, <1>2 DEF Onde
<1> QED BY <1>1, <1>3 DEF Onde

LEMMA OndeLista ==
  ASSUME Boa(objetos), NEW f
  PROVE  /\ DOMAIN Lista = {x.pasta : x \in {y \in objetos : y.atual}}
         /\ Onde(Lista, f) = {x.pasta : x \in {y \in objetos : y.atual /\ f \in y.arquivos}}
<1> DEFINE os == {y \in objetos : y.atual}
<1>1. Unicas(os)
  BY DEF Boa, Unicas
<1>2. {y \in os : f \in y.arquivos} = {y \in objetos : y.atual /\ f \in y.arquivos}
  OBVIOUS
<1>3. Lista = Conteudo(os)
  BY DEF Lista
<1> HIDE DEF os
<1>4. /\ DOMAIN Lista = {x.pasta : x \in os}
      /\ Onde(Lista, f) = {x.pasta : x \in {y \in os : f \in y.arquivos}}
  BY <1>1, <1>3, OndeConteudo
<1> QED BY <1>2, <1>4 DEF os

LEMMA OndeCaptura ==
  ASSUME Boa(objetos), NEW o, NEW f
  PROVE  /\ DOMAIN Captura(o) = {x.pasta : x \in {y \in objetos : o \in y.presos}}
         /\ Onde(Captura(o), f) = {x.pasta : x \in {y \in objetos : o \in y.presos /\ f \in y.arquivos}}
<1> DEFINE os == {y \in objetos : o \in y.presos}
<1>1. Unicas(os)
  BY DEF Boa, Unicas
<1>2. {y \in os : f \in y.arquivos} = {y \in objetos : o \in y.presos /\ f \in y.arquivos}
  OBVIOUS
<1>3. Captura(o) = Conteudo(os)
  BY DEF Captura
<1> HIDE DEF os
<1>4. /\ DOMAIN Conteudo(os) = {x.pasta : x \in os}
      /\ Onde(Conteudo(os), f) = {x.pasta : x \in {y \in os : f \in y.arquivos}}
  BY <1>1, OndeConteudo
<1> QED BY <1>2, <1>3, <1>4 DEF os

-----------------------------------------------------------------------------
(* What the operators on objects do to the list, and to what requests hold. *)

\* The list of a set of objects.
Visivel(os, f) == {x.pasta : x \in {y \in os : y.atual /\ f \in y.arquivos}}
Pastas(os) == {x.pasta : x \in {y \in os : y.atual}}

\* All that u held it still holds, and nothing more but fs.
Segura(os, os2, u, fs) ==
  /\ \A x \in os : u \in x.presos => \E y \in os2 : u \in y.presos /\ y.pasta = x.pasta
  /\ \A y \in os2 : u \in y.presos =>
       \E x \in os : u \in x.presos /\ y.pasta = x.pasta /\ y.arquivos \subseteq x.arquivos \cup fs

\* Every object of os has one of os2 with the same folder and files in the list.
Repete(os, os2) ==
  \A x \in os : x.atual => \E y \in os2 : y.atual /\ y.pasta = x.pasta /\ y.arquivos = x.arquivos

LEMMA MesmosPares ==
  ASSUME NEW os, NEW os2, Repete(os, os2), Repete(os2, os)
  PROVE  Pastas(os) = Pastas(os2) /\ \A f : Visivel(os, f) = Visivel(os2, f)
<1>1. \A p : p \in Pastas(os) <=> p \in Pastas(os2)
  BY DEF Pastas, Repete
<1>2. ASSUME NEW f PROVE Visivel(os, f) = Visivel(os2, f)
  <2>1. \A p : p \in Visivel(os, f) <=> p \in Visivel(os2, f)
    BY DEF Visivel, Repete
  <2> QED BY <2>1 DEF Visivel
<1>3. Pastas(os) = Pastas(os2)
  BY <1>1 DEF Pastas
<1> QED BY <1>2, <1>3

LEMMA AoPrender ==
  ASSUME NEW os \in SUBSET Objetos, Boa(os), NEW o \in Op, \A x \in os : o \notin x.presos
  PROVE  /\ Boa(Prende(os, o))
         /\ Pastas(Prende(os, o)) = Pastas(os)
         /\ \A f : Visivel(Prende(os, o), f) = Visivel(os, f)
         /\ \A u \in Op \ {o} : Segura(os, Prende(os, o), u, {})
         /\ \A x \in Prende(os, o) :
              /\ o \in x.presos <=> x.atual
              /\ \E y \in os : x.pasta = y.pasta /\ x.arquivos = y.arquivos /\ x.atual = y.atual
                               /\ x.presos \subseteq y.presos \cup {o}
<1> DEFINE P(x) == IF x.atual THEN [x EXCEPT !.presos = x.presos \cup {o}] ELSE x
           ns == {P(x) : x \in os}
<1>0. Prende(os, o) = ns
  BY DEF Prende
<1>1. ASSUME NEW x \in os
      PROVE  /\ P(x).pasta = x.pasta /\ P(x).arquivos = x.arquivos /\ P(x).atual = x.atual
             /\ P(x).presos = IF x.atual THEN x.presos \cup {o} ELSE x.presos
             /\ P(x) \in ns /\ o \notin x.presos
  BY DEF Objetos
<1>2. \A y \in ns : \E x \in os : y = P(x)
  OBVIOUS
<1> HIDE DEF P, ns
<1>3. Boa(ns)
  <2> SUFFICES ASSUME NEW x \in ns, NEW y \in ns, x.pasta = y.pasta,
                      (x.atual /\ y.atual) \/ x.presos \cap y.presos # {}
               PROVE  x = y
    BY DEF Boa
  <2>1. PICK a \in os : x = P(a)
    BY <1>2
  <2>2. PICK b \in os : y = P(b)
    BY <1>2
  <2>3. a.pasta = b.pasta /\ ((a.atual /\ b.atual) \/ a.presos \cap b.presos # {})
    BY <1>1, <2>1, <2>2
  <2> QED BY <2>1, <2>2, <2>3 DEF Boa
<1>4. Pastas(ns) = Pastas(os) /\ \A f : Visivel(ns, f) = Visivel(os, f)
  <2>1. Repete(ns, os) /\ Repete(os, ns)
    BY <1>1, <1>2 DEF Repete
  <2> QED BY <2>1, MesmosPares
<1>5. \A u \in Op \ {o} : Segura(os, ns, u, {})
  BY <1>1, <1>2 DEF Segura
<1>6. ASSUME NEW x \in ns
      PROVE  /\ o \in x.presos <=> x.atual
             /\ \E y \in os : x.pasta = y.pasta /\ x.arquivos = y.arquivos /\ x.atual = y.atual
                              /\ x.presos \subseteq y.presos \cup {o}
  <2>1. PICK a \in os : x = P(a)
    BY <1>2
  <2>2. o \in x.presos <=> x.atual
    BY <1>1, <2>1
  <2> QED BY <1>1, <2>1, <2>2
<1> QED BY <1>0, <1>3, <1>4, <1>5, <1>6
Largada(os, ns, o) ==
  /\ Boa(ns) /\ Pastas(ns) = Pastas(os)
  /\ \A f : Visivel(ns, f) = Visivel(os, f)
  /\ \A u \in Op \ {o} : Segura(os, ns, u, {})
  /\ \A x \in ns :
       /\ o \notin x.presos
       /\ \E y \in os : x.pasta = y.pasta /\ x.arquivos = y.arquivos /\ x.presos \subseteq y.presos

LEMMA AoLargar ==
  ASSUME NEW os \in SUBSET Objetos, Boa(os), NEW o \in Op, NEW ns, ns = Larga(os, o)
  PROVE  Largada(os, ns, o)
<1> DEFINE P(x) == [x EXCEPT !.presos = x.presos \ {o}]
<1>1. ASSUME NEW x \in os
      PROVE  /\ P(x).pasta = x.pasta /\ P(x).arquivos = x.arquivos /\ P(x).atual = x.atual
             /\ P(x).presos = x.presos \ {o}
             /\ x.presos \subseteq Op
  BY DEF Objetos
<1>2. /\ \A y \in ns : \E x \in os : y = P(x)
      /\ \A x \in os : P(x).atual \/ P(x).presos # {} => P(x) \in ns
  <2> DEFINE im == {P(x) : x \in os}
  <2>1. ns = {x \in im : x.atual \/ x.presos # {}}
    BY DEF Larga, Alcancaveis
  <2> QED BY <2>1
<1> HIDE DEF P
<1>3. Boa(ns)
  <2> SUFFICES ASSUME NEW x \in ns, NEW y \in ns, x.pasta = y.pasta,
                      (x.atual /\ y.atual) \/ x.presos \cap y.presos # {}
               PROVE  x = y
    BY DEF Boa
  <2>1. PICK a \in os : x = P(a)
    BY <1>2
  <2>2. PICK b \in os : y = P(b)
    BY <1>2
  <2>3. a.pasta = b.pasta /\ ((a.atual /\ b.atual) \/ a.presos \cap b.presos # {})
    BY <1>1, <2>1, <2>2
  <2> QED BY <2>1, <2>2, <2>3 DEF Boa
<1>4. Pastas(ns) = Pastas(os) /\ \A f : Visivel(ns, f) = Visivel(os, f)
  <2>1. Repete(ns, os) /\ Repete(os, ns)
    BY <1>1, <1>2 DEF Repete
  <2> QED BY <2>1, MesmosPares
<1>5. ASSUME NEW u \in Op \ {o} PROVE Segura(os, ns, u, {})
  <2>1. ASSUME NEW x \in os, u \in x.presos
        PROVE  \E y \in ns : u \in y.presos /\ y.pasta = x.pasta
    <3>1. u \in P(x).presos
      BY <1>1, <2>1
    <3> QED BY <1>1, <1>2, <3>1
  <2>2. ASSUME NEW y \in ns, u \in y.presos
        PROVE  \E x \in os : u \in x.presos /\ y.pasta = x.pasta /\ y.arquivos \subseteq x.arquivos \cup {}
    BY <1>1, <1>2, <2>2
  <2> QED BY <2>1, <2>2 DEF Segura
<1>6. ASSUME NEW x \in ns
      PROVE  /\ o \notin x.presos
             /\ \E y \in os : x.pasta = y.pasta /\ x.arquivos = y.arquivos
                              /\ x.presos \subseteq y.presos
  BY <1>1, <1>2
<1> QED BY <1>3, <1>4, <1>5, <1>6 DEF Largada

\* The object of p that o holds gets the files as, which it had but for fs.
Trocada(os, ns, o, p, as, fs) ==
  /\ Boa(ns)
  /\ \A u \in Op : Segura(os, ns, u, fs)
  /\ \A x \in ns : \E y \in os :
       /\ x.pasta = y.pasta /\ x.presos = y.presos /\ (x.atual <=> y.atual)
       /\ x.arquivos = IF o \in y.presos /\ y.pasta = p THEN as ELSE y.arquivos
  /\ \A y \in os : \E x \in ns :
       /\ x.pasta = y.pasta /\ x.presos = y.presos /\ (x.atual <=> y.atual)
       /\ x.arquivos = IF o \in y.presos /\ y.pasta = p THEN as ELSE y.arquivos

LEMMA AoTrocar ==
  ASSUME NEW os \in SUBSET Objetos, Boa(os), NEW o \in Op, NEW p, NEW as \in SUBSET Arquivo,
         NEW fs, \A x \in os : o \in x.presos /\ x.pasta = p => as \subseteq x.arquivos \cup fs,
         NEW ns, ns = NoLugar(os, o, p, as)
  PROVE  Trocada(os, ns, o, p, as, fs)
<1> DEFINE P(x) == IF o \in x.presos /\ x.pasta = p THEN [x EXCEPT !.arquivos = as] ELSE x
<1>1. ASSUME NEW x \in os
      PROVE  /\ P(x).pasta = x.pasta /\ P(x).atual = x.atual /\ P(x).presos = x.presos
             /\ P(x).arquivos = IF o \in x.presos /\ x.pasta = p THEN as ELSE x.arquivos
  BY DEF Objetos
<1>2. (\A y \in ns : \E x \in os : y = P(x)) /\ \A x \in os : P(x) \in ns
  BY DEF NoLugar
<1> HIDE DEF P
<1>3. Boa(ns)
  <2> SUFFICES ASSUME NEW x \in ns, NEW y \in ns, x.pasta = y.pasta,
                      (x.atual /\ y.atual) \/ x.presos \cap y.presos # {}
               PROVE  x = y
    BY DEF Boa
  <2>1. PICK a \in os : x = P(a)
    BY <1>2
  <2>2. PICK b \in os : y = P(b)
    BY <1>2
  <2>3. a.pasta = b.pasta /\ ((a.atual /\ b.atual) \/ a.presos \cap b.presos # {})
    BY <1>1, <2>1, <2>2
  <2> QED BY <2>1, <2>2, <2>3 DEF Boa
<1>4. ASSUME NEW u \in Op PROVE Segura(os, ns, u, fs)
  <2>1. ASSUME NEW x \in os, u \in x.presos
        PROVE  \E y \in ns : u \in y.presos /\ y.pasta = x.pasta
    BY <1>1, <1>2, <2>1
  <2>2. ASSUME NEW y \in ns, u \in y.presos
        PROVE  \E x \in os : u \in x.presos /\ y.pasta = x.pasta /\ y.arquivos \subseteq x.arquivos \cup fs
    BY <1>1, <1>2, <2>2
  <2> QED BY <2>1, <2>2 DEF Segura
<1>5. ASSUME NEW x \in ns
      PROVE  \E y \in os : /\ x.pasta = y.pasta /\ x.presos = y.presos /\ (x.atual <=> y.atual)
                           /\ x.arquivos = IF o \in y.presos /\ y.pasta = p THEN as ELSE y.arquivos
  <2>1. PICK y \in os : x = P(y)
    BY <1>2
  <2>2. /\ x.pasta = y.pasta /\ x.presos = y.presos /\ (x.atual <=> y.atual)
        /\ x.arquivos = IF o \in y.presos /\ y.pasta = p THEN as ELSE y.arquivos
    BY <1>1, <2>1
  <2> QED BY <2>2
<1>6. ASSUME NEW y \in os
      PROVE  \E x \in ns : /\ x.pasta = y.pasta /\ x.presos = y.presos /\ (x.atual <=> y.atual)
                           /\ x.arquivos = IF o \in y.presos /\ y.pasta = p THEN as ELSE y.arquivos
  <2>1. P(y) \in ns
    BY <1>2
  <2> QED BY <1>1, <2>1
<1> QED BY <1>3, <1>4, <1>5, <1>6 DEF Trocada

Reescrita(os, ns, nova) ==
  /\ Boa(ns) /\ Pastas(ns) = DOMAIN nova
  /\ \A f : Visivel(ns, f) = Onde(nova, f)
  /\ \A u \in Op : Segura(os, ns, u, {})
  /\ \A x \in ns :
       \/ \E y \in os : x.pasta = y.pasta /\ x.arquivos = y.arquivos /\ x.presos = y.presos
       \/ x.pasta \in DOMAIN nova /\ x.arquivos = nova[x.pasta] /\ x.presos = {}

LEMMA AoEscrever ==
  ASSUME NEW os \in SUBSET Objetos, Boa(os), NEW nova, EhLista(nova), NEW cs,
         NEW ns, ns = Escreve(os, nova, cs)
  PROVE  Reescrita(os, ns, nova)
<1> DEFINE F == {x \in os : x.atual /\ x.pasta \in DOMAIN nova \ cs /\ x.arquivos = nova[x.pasta]}
           V(x) == [x EXCEPT !.atual = FALSE]
           N(p) == Objeto(p, nova[p])
<1>1. ns = {x \in F \cup {V(x) : x \in os \ F} \cup {N(p) : p \in DOMAIN nova \ {x.pasta : x \in F}} :
              x.atual \/ x.presos # {}}
  BY DEF Escreve, Alcancaveis
<1>2. ASSUME NEW x \in os
      PROVE  /\ V(x).pasta = x.pasta /\ V(x).arquivos = x.arquivos /\ V(x).presos = x.presos
             /\ ~V(x).atual
  BY DEF Objetos
<1>3. ASSUME NEW p
      PROVE  N(p).pasta = p /\ N(p).arquivos = nova[p] /\ N(p).presos = {} /\ N(p).atual
  BY DEF Objeto
<1>4. ASSUME NEW x \in ns
      PROVE  \/ x \in F
             \/ \E y \in os \ F : x = V(y)
             \/ \E p \in DOMAIN nova \ {y.pasta : y \in F} : x = N(p)
  BY <1>1
<1>5. /\ \A x \in F : x \in ns /\ x \in os /\ x.atual /\ x.pasta \in DOMAIN nova
                        /\ x.arquivos = nova[x.pasta]
      /\ \A y \in os \ F : y.presos # {} => V(y) \in ns
      /\ \A p \in DOMAIN nova \ {y.pasta : y \in F} : N(p) \in ns
  BY <1>1, <1>2, <1>3
<1> HIDE DEF F, V, N
<1>6. Boa(ns)
  <2> SUFFICES ASSUME NEW x \in ns, NEW y \in ns, x.pasta = y.pasta,
                      (x.atual /\ y.atual) \/ x.presos \cap y.presos # {}
               PROVE  x = y
    BY DEF Boa
  <2>1. CASE x.atual /\ y.atual
    <3>1. x \in F \/ \E p \in DOMAIN nova \ {z.pasta : z \in F} : x = N(p)
      BY <1>2, <1>4, <2>1
    <3>2. y \in F \/ \E p \in DOMAIN nova \ {z.pasta : z \in F} : y = N(p)
      BY <1>2, <1>4, <2>1
    <3>3. CASE x \in F /\ y \in F
      BY <1>5, <3>3 DEF Boa
    <3>4. CASE ~(x \in F /\ y \in F)
      BY <1>3, <3>1, <3>2, <3>4
    <3> QED BY <3>3, <3>4
  <2>2. CASE x.presos \cap y.presos # {}
    <3>1. (x \in F \/ \E z \in os \ F : x = V(z)) /\ (y \in F \/ \E z \in os \ F : y = V(z))
      BY <1>3, <1>4, <2>2
    <3>2. CASE x \in F /\ y \in F
      BY <1>5, <2>2, <3>2 DEF Boa
    <3>3. ASSUME x \in F, NEW b \in os \ F, y = V(b) PROVE FALSE
      <4>1. x \in os /\ x.pasta = b.pasta /\ x.presos \cap b.presos # {}
        BY <1>2, <1>5, <2>2, <3>3
      <4> QED BY <3>3, <4>1 DEF Boa
    <3>4. ASSUME y \in F, NEW a \in os \ F, x = V(a) PROVE FALSE
      <4>1. y \in os /\ y.pasta = a.pasta /\ y.presos \cap a.presos # {}
        BY <1>2, <1>5, <2>2, <3>4
      <4> QED BY <3>4, <4>1 DEF Boa
    <3>5. ASSUME NEW a \in os \ F, x = V(a), NEW b \in os \ F, y = V(b) PROVE x = y
      <4>1. a.pasta = b.pasta /\ a.presos \cap b.presos # {}
        BY <1>2, <2>2, <3>5
      <4>2. a = b
        BY <4>1 DEF Boa
      <4> QED BY <3>5, <4>2
    <3> QED BY <3>1, <3>2, <3>3, <3>4, <3>5
  <2> QED BY <2>1, <2>2
<1>7. \A x \in ns : x.atual => x.pasta \in DOMAIN nova /\ x.arquivos = nova[x.pasta]
  BY <1>2, <1>3, <1>4, <1>5
<1>8. \A p \in DOMAIN nova : \E x \in ns : x.atual /\ x.pasta = p /\ x.arquivos = nova[p]
  BY <1>3, <1>5
<1>9. Pastas(ns) = DOMAIN nova
  BY <1>7, <1>8 DEF Pastas
<1>10. ASSUME NEW f PROVE Visivel(ns, f) = Onde(nova, f)
  <2>1. \A p : p \in Visivel(ns, f) <=> p \in Onde(nova, f)
    BY <1>7, <1>8 DEF Visivel, Onde
  <2> QED BY <2>1 DEF Visivel, Onde
<1>11. ASSUME NEW u \in Op PROVE Segura(os, ns, u, {})
  <2>1. ASSUME NEW x \in os, u \in x.presos
        PROVE  \E y \in ns : u \in y.presos /\ y.pasta = x.pasta
    BY <1>2, <1>5, <2>1
  <2>2. ASSUME NEW y \in ns, u \in y.presos
        PROVE  \E x \in os : u \in x.presos /\ y.pasta = x.pasta /\ y.arquivos \subseteq x.arquivos \cup {}
    BY <1>2, <1>3, <1>4, <1>5, <2>2
  <2> QED BY <2>1, <2>2 DEF Segura
<1>12. ASSUME NEW x \in ns
       PROVE  \/ \E y \in os : x.pasta = y.pasta /\ x.arquivos = y.arquivos /\ x.presos = y.presos
              \/ x.pasta \in DOMAIN nova /\ x.arquivos = nova[x.pasta] /\ x.presos = {}
  BY <1>2, <1>3, <1>4, <1>5
<1> QED BY <1>6, <1>9, <1>10, <1>11, <1>12 DEF Reescrita

-----------------------------------------------------------------------------
(* The list and the store agree on what no request is about to change.     *)

Movem == {"move", "moveVarios"}
Apagam == {"exclui", "excluiVarios"}
Escrevem == Item \cup {"envia"}

\* What a request may change: its targets, and what it made or moved.
EmJogo(r) == Alvos(r) \cup r.feitos
Ids(r) == r.itens \cup r.item \cup r.feitos

Mostra(f) == Visivel(objetos, f)
Mostradas == Pastas(objetos)

FormaDe(r) ==
  /\ r.fase = "livre" => Ids(r) = {} /\ r.tipo = "envia" /\ r.pasta = Raiz
  /\ r.feitos # {} => r.tipo \in Escrevem
  /\ (r.fase = "erro" /\ (r.feitos # {} \/ r.tipo \in Apagam \cup {"excluiPasta"})) => r.falhou
  /\ (r.tipo = "envia" /\ r.fase \in {"consulta", "grava"}) => r.feitos = {}
  /\ r.fase = "indexa" => r.tipo = "envia"
  /\ r.tipo \in Movem => r.pasta # r.origem
Forma == \A o \in Op : FormaDe(op[o])

\* What a request that will write files to the list holds.
Retem(o, p) == \E x \in objetos : o \in x.presos /\ x.pasta = p
Presas ==
  /\ Boa(objetos)
  /\ \A x \in objetos : \A o \in x.presos : op[o].fase # "livre"
  /\ \A o \in Op : (op[o].tipo \in Escrevem /\ op[o].fase # "livre") =>
       Retem(o, op[o].pasta) /\ (op[o].tipo \in Movem => Retem(o, op[o].origem))

\* An id that was not given yet is nowhere.
Usados ==
  \A f \in Arquivo : arq[f].st = "livre" =>
    /\ \A x \in objetos : f \notin x.arquivos
    /\ \A o \in Op : f \notin Ids(op[o])
    /\ Onde(listagem.lista, f) = {}
Novas ==
  /\ pastas[Raiz] # "livre"
  /\ \A p \in Pasta : pastas[p] = "livre" =>
       /\ \A x \in objetos : x.pasta # p
       /\ p \notin listagem.pastas /\ p \notin DOMAIN listagem.lista
       /\ \A o \in Op : op[o].tipo # "criaPasta" => op[o].pasta # p
       /\ \A f \in Arquivo : arq[f].pasta # p

DePasta(o) ==
  /\ op[o].tipo = "criaPasta" =>
       /\ op[o].fase \in {"grava", "ok", "erro"}
       /\ op[o].fase = "grava" \/ (op[o].fase = "erro" /\ ~op[o].falhou) => pastas[op[o].pasta] = "livre"
       /\ op[o].fase = "ok" =>
            pastas[op[o].pasta] = "viva" \/ (pastas[op[o].pasta] = "removida" /\ op[o].pasta \in desculpa)
       /\ \A x \in Op \ {o} : op[x].tipo = "criaPasta" => op[x].pasta # op[o].pasta
  /\ op[o].tipo = "excluiPasta" /\ op[o].fase = "ok" /\ ~op[o].falhou =>
       pastas[op[o].pasta] = "removida"
DePastas == \A o \in Op : DePasta(o)

\* Two requests over the same thing are a dispute.
Disputa == \A a, b \in Op : a # b => EmJogo(op[a]) \cap EmJogo(op[b]) \subseteq desculpa

\* A folder shown and gone, or the reverse, is that of a request to be answered.
Respondera(t, p) ==
  \E o \in Op : op[o].tipo = t /\ op[o].fase \in {"ok", "erro"} /\ op[o].pasta = p
Lados ==
  \A p \in Pasta \ desculpa :
    /\ (p \in Mostradas /\ pastas[p] # "viva") => Respondera("excluiPasta", p)
    /\ (p \notin Mostradas /\ pastas[p] = "viva") => Respondera("criaPasta", p)

\* The files of p are removed, or were.
Condenada(p) ==
  \/ pastas[p] # "viva"
  \/ \E o \in Op : /\ op[o].tipo = "excluiPasta" /\ op[o].pasta = p
                   /\ op[o].fase \in {"pasta", "ok", "erro"}

\* A file no request has at hand is shown in its folder, or rightly nowhere.
Aberto(f) ==
  \E o \in Op : f \in op[o].feitos \/ (op[o].tipo \in Apagam /\ f \in op[o].itens)
Certo(f) ==
  /\ \A p \in Mostra(f) : p = arq[f].pasta
  /\ Vivo(f) /\ Mostra(f) = {} => pastas[arq[f].pasta] # "viva"
  /\ ~Vivo(f) /\ Mostra(f) # {} => Condenada(arq[f].pasta)
Certos == \A f \in Arquivo \ desculpa : ~Aberto(f) => Certo(f)

\* What a request will tell the list is so.
Feita(o) ==
  op[o].fase # "erro" =>
    \A f \in op[o].feitos \ desculpa :
      /\ arq[f].pasta = op[o].pasta /\ (Vivo(f) \/ Condenada(op[o].pasta))
      /\ \A p \in Mostra(f) : p = op[o].pasta \/ (op[o].tipo \in Movem /\ p = op[o].origem)
AMover(o) ==
  op[o].tipo \in Movem =>
    \A f \in (op[o].itens \cup op[o].item) \ (op[o].feitos \cup desculpa) :
      arq[f].pasta = op[o].origem
Apagada(o) ==
  op[o].tipo \in Apagam =>
    \A f \in op[o].itens \ desculpa :
      /\ (op[o].fase = "ok" /\ ~op[o].falhou) => ~Vivo(f)
      /\ op[o].tipo = "exclui" => Mostra(f) = {}
      /\ op[o].tipo = "excluiVarios" => \A x \in objetos : o \in x.presos => f \notin x.arquivos
Promessas == \A o \in Op : Feita(o) /\ AMover(o) /\ Apagada(o)

Acordo == Forma /\ Presas /\ Usados /\ Novas /\ DePastas /\ Disputa /\ Lados /\ Certos /\ Promessas

-----------------------------------------------------------------------------
(* A step of the backend.                                                  *)

Mesmo(x) ==
  /\ op'[x].tipo = op[x].tipo /\ op'[x].fase = op[x].fase /\ op'[x].falhou = op[x].falhou
  /\ op'[x].pasta = op[x].pasta /\ op'[x].origem = op[x].origem
  /\ op'[x].itens = op[x].itens /\ op'[x].item = op[x].item /\ op'[x].feitos = op[x].feitos

\* The request o goes on.
Anda(o) ==
  /\ \A x \in Op \ {o} : Mesmo(x)
  /\ op[o].fase \notin {"livre", "erro"} /\ op'[o].fase # "livre"
  /\ op'[o].tipo = op[o].tipo /\ op'[o].pasta = op[o].pasta /\ op'[o].origem = op[o].origem
  /\ op[o].falhou => op'[o].falhou
  /\ op'[o].itens \subseteq op[o].itens /\ op'[o].item \subseteq op[o].itens \cup op[o].item
  /\ op[o].tipo \in Apagam => op'[o].itens = op[o].itens
  /\ op[o].feitos \subseteq op'[o].feitos
  /\ \A f \in op'[o].feitos : f \in Ids(op[o]) \/ (f \in Arquivo /\ arq[f].st = "livre")
  /\ op[o].fase = "ok" => op'[o].fase = "erro"
  /\ op[o].tipo = "excluiPasta" => op'[o].fase \in {"pasta", "ok", "erro"}
  /\ FormaDe(op'[o])

\* What becomes of a file: nothing the list should know of, the removal of its folder,
\* or what o does to it.
Igual(f) ==
  /\ Vivo(f)' <=> Vivo(f)
  /\ arq'[f].pasta = arq[f].pasta /\ (arq'[f].st = "livre" <=> arq[f].st = "livre")
Morre(o, f) ==
  /\ Vivo(f) /\ ~Vivo(f)' /\ arq'[f].st # "livre" /\ arq'[f].pasta = arq[f].pasta
  /\ op[o].tipo = "excluiPasta" /\ op[o].pasta = arq[f].pasta /\ op'[o].fase = "pasta"
Muda(o, f) ==
  /\ arq'[f].st # "livre" /\ arq'[f].pasta \in {arq[f].pasta, op[o].pasta}
  /\ f \in Ids(op[o]) \/ arq[f].st = "livre"
  /\ f \in op'[o].feitos \/ (op[o].tipo \in Apagam /\ f \in op[o].itens)
  /\ f \in op'[o].feitos /\ op'[o].fase # "erro" => arq'[f].pasta = op[o].pasta /\ Vivo(f)'
Arquivos(o) ==
  /\ \A f \in Arquivo : Igual(f) \/ Morre(o, f) \/ Muda(o, f)
  /\ \A f \in op'[o].feitos : f \in Ids(op[o]) \/ arq'[f].st # "livre"
  /\ \A f \in op'[o].feitos \ (op[o].feitos \cup desculpa') :
       /\ arq'[f].pasta = op[o].pasta /\ Vivo(f)'
       /\ arq[f].st = "livre" \/ (op[o].tipo \in Movem /\ f \in op[o].item)
  /\ op[o].tipo \in Apagam /\ op'[o].fase = "ok" /\ ~op'[o].falhou =>
       \A f \in op[o].itens : ~Vivo(f)'

DasPastas(o) ==
  \/ /\ pastas' = pastas
     /\ op[o].tipo = "criaPasta" => op'[o].fase = "erro" /\ (op'[o].falhou \/ op[o].fase = "grava")
     /\ op[o].tipo = "excluiPasta" /\ op'[o].fase = "ok" => op'[o].falhou
  \/ /\ op[o].tipo = "excluiPasta" /\ op'[o].fase = "ok"
     /\ pastas' = [pastas EXCEPT ![op[o].pasta] = "removida"]
  \/ /\ op[o].tipo = "criaPasta" /\ op[o].fase = "grava" /\ op'[o].fase = "ok"
     /\ pastas' = [pastas EXCEPT ![op[o].pasta] = "viva"]

Atende(o) ==
  /\ UNCHANGED <<objetos, listagem>> /\ desculpa \subseteq desculpa'
  /\ Anda(o) /\ Arquivos(o) /\ DasPastas(o)

\* What a folder doomed, and one not alive, stay.
LEMMA CondenadaFica ==
  ASSUME TypeOK, Acordo, NEW o \in Op, Atende(o), NEW p \in Pasta, pastas[p] # "livre"
  PROVE  /\ pastas[p] # "viva" => pastas'[p] # "viva"
         /\ Condenada(p) => Condenada(p)'
<1>1. pastas[p] # "viva" => pastas'[p] # "viva"
  <2> SUFFICES ASSUME pastas[p] # "viva" PROVE pastas'[p] # "viva"
    OBVIOUS
  <2>1. pastas \in [Pasta -> {"livre", "viva", "removida"}] /\ op[o].pasta \in Pasta
    BY DEF TypeOK, TipoServidor, Pedidos
  <2>2. op[o].tipo = "criaPasta" /\ op[o].fase = "grava" => pastas[op[o].pasta] = "livre"
    BY DEF Acordo, DePastas, DePasta
  <2> QED BY <2>1, <2>2 DEF Atende, DasPastas
<1>2. ASSUME NEW x \in Op, op[x].tipo = "excluiPasta", op[x].pasta = p,
             op[x].fase \in {"pasta", "ok", "erro"}
      PROVE  op'[x].tipo = "excluiPasta" /\ op'[x].pasta = p /\ op'[x].fase \in {"pasta", "ok", "erro"}
  BY <1>2 DEF Atende, Anda, Mesmo
<1> QED BY <1>1, <1>2 DEF Condenada

LEMMA EmJogoAnda ==
  ASSUME TypeOK, TypeOK', NEW o \in Op, Anda(o)
  PROVE  /\ \A x \in Op \ {o} : EmJogo(op'[x]) = EmJogo(op[x]) /\ Ids(op'[x]) = Ids(op[x])
         /\ \A f \in Ids(op'[o]) : f \in Ids(op[o]) \/ (f \in Arquivo /\ arq[f].st = "livre")
         /\ \A f \in EmJogo(op'[o]) : f \in EmJogo(op[o]) \/ (f \in Arquivo /\ arq[f].st = "livre")
<1>1. ASSUME NEW x \in Op \ {o} PROVE EmJogo(op'[x]) = EmJogo(op[x]) /\ Ids(op'[x]) = Ids(op[x])
  <2>1. Mesmo(x)
    BY DEF Anda
  <2> QED BY <2>1 DEF Mesmo, EmJogo, Alvos, Ids
<1>2. ASSUME NEW f \in Ids(op'[o]) PROVE f \in Ids(op[o]) \/ (f \in Arquivo /\ arq[f].st = "livre")
  BY DEF Anda, Ids
<1>3. ASSUME NEW f \in EmJogo(op'[o])
      PROVE  f \in EmJogo(op[o]) \/ (f \in Arquivo /\ arq[f].st = "livre")
  <2>1. CASE f \in Ids(op'[o])
    BY <1>2, <2>1 DEF Ids, EmJogo, Alvos
  <2>2. CASE f \notin Ids(op'[o])
    BY <2>2 DEF Anda, Ids, EmJogo, Alvos
  <2> QED BY <2>1, <2>2
<1> QED BY <1>1, <1>2, <1>3

\* An id in no request is not in dispute with a folder.
LEMMA IdsJogo ==
  ASSUME TypeOK, NEW x \in Op, NEW f \in Arquivo
  PROVE  f \in EmJogo(op[x]) <=> f \in Ids(op[x])
<1>1. op[x].pasta \in Pasta
  BY DEF TypeOK, Pedidos
<1> QED BY <1>1, LibraryAssumption DEF EmJogo, Alvos, Ids

LEMMA AtendeRequisicoes ==
  ASSUME TypeOK, TypeOK', Acordo, NEW o \in Op, Atende(o)
  PROVE  Forma' /\ Presas' /\ Usados' /\ Disputa'
<1>1. Forma'
  <2>1. ASSUME NEW x \in Op \ {o} PROVE FormaDe(op'[x])
    <3>1. Mesmo(x) /\ FormaDe(op[x]) /\ Ids(op'[x]) = Ids(op[x])
      BY EmJogoAnda DEF Acordo, Forma, Atende, Anda
    <3> QED BY <3>1 DEF Mesmo, FormaDe
  <2> QED BY <2>1 DEF Forma, Atende, Anda
<1>2. Presas'
  <2>1. Boa(objetos')
    BY DEF Acordo, Presas, Atende
  <2>2. \A x \in Op : op[x].fase # "livre" <=> op'[x].fase # "livre"
    BY DEF Atende, Anda, Mesmo
  <2>3. \A x \in Op : op'[x].tipo = op[x].tipo /\ op'[x].pasta = op[x].pasta
                      /\ op'[x].origem = op[x].origem
    BY DEF Atende, Anda, Mesmo
  <2>4. objetos \subseteq Objetos /\ objetos' = objetos
    BY DEF TypeOK, TipoTela, Atende
  <2>5. \A x \in objetos : \A u \in x.presos : op'[u].fase # "livre"
    BY <2>2, <2>4 DEF Acordo, Presas, Objetos
  <2>6. \A u \in Op : (op'[u].tipo \in Escrevem /\ op'[u].fase # "livre") =>
          Retem(u, op'[u].pasta) /\ (op'[u].tipo \in Movem => Retem(u, op'[u].origem))
    BY <2>2, <2>3 DEF Acordo, Presas
  <2> QED BY <2>1, <2>4, <2>5, <2>6 DEF Presas, Retem
<1>3. \A f \in Arquivo : arq'[f].st = "livre" => arq[f].st = "livre" /\ Igual(f)
  BY DEF Atende, Arquivos, Igual, Morre, Muda
<1>4. Usados'
  <2> SUFFICES ASSUME NEW f \in Arquivo, arq'[f].st = "livre"
               PROVE  /\ \A x \in objetos' : f \notin x.arquivos
                      /\ \A x \in Op : f \notin Ids(op'[x])
                      /\ Onde(listagem'.lista, f) = {}
    BY DEF Usados
  <2>1. /\ \A x \in objetos : f \notin x.arquivos
        /\ \A x \in Op : f \notin Ids(op[x])
        /\ Onde(listagem.lista, f) = {}
    BY <1>3 DEF Acordo, Usados
  <2>2. f \notin op'[o].feitos
    BY <2>1 DEF Atende, Arquivos
  <2>3. \A x \in Op : f \notin Ids(op'[x])
    BY <2>1, <2>2, EmJogoAnda DEF Atende, Anda, Ids
  <2> QED BY <2>1, <2>3 DEF Atende
<1>5. Disputa'
  <2> SUFFICES ASSUME NEW a \in Op, NEW b \in Op, a # b, NEW f \in EmJogo(op'[a]) \cap EmJogo(op'[b])
               PROVE  f \in desculpa'
    BY DEF Disputa
  <2>1. f \in EmJogo(op[a]) \cap EmJogo(op[b]) => f \in desculpa'
    BY DEF Acordo, Disputa, Atende
  <2>2. ASSUME f \in Arquivo, arq[f].st = "livre" PROVE \A x \in Op : f \notin EmJogo(op[x])
    BY <2>2, IdsJogo DEF Acordo, Usados
  <2>3. ASSUME NEW x \in {a, b} PROVE f \in EmJogo(op[x]) \/ (f \in Arquivo /\ arq[f].st = "livre")
    BY EmJogoAnda DEF Atende
  <2> QED BY <2>1, <2>2, <2>3, EmJogoAnda DEF Atende
<1> QED BY <1>1, <1>2, <1>4, <1>5

LEMMA AtendePastas ==
  ASSUME TypeOK, TypeOK', Acordo, NEW o \in Op, Atende(o)
  PROVE  Novas' /\ DePastas' /\ Lados'
<1>0. /\ pastas \in [Pasta -> {"livre", "viva", "removida"}] /\ op \in [Op -> Pedidos]
      /\ \A x \in Op : op[x].pasta \in Pasta
  BY DEF TypeOK, TipoServidor, Pedidos
<1>1. \A x \in Op \ {o} : Mesmo(x)
  BY DEF Atende, Anda
<1>2. op'[o].tipo = op[o].tipo /\ op'[o].pasta = op[o].pasta
  BY DEF Atende, Anda
<1>3. UNCHANGED <<objetos, listagem>> /\ desculpa \subseteq desculpa' /\ DasPastas(o)
  BY DEF Atende
<1>4. /\ op[o].tipo # "criaPasta" => pastas[op[o].pasta] # "livre"
      /\ op[o].tipo = "criaPasta" /\ op[o].fase = "grava" => pastas[op[o].pasta] = "livre"
  BY <1>0 DEF Acordo, Novas, DePastas, DePasta
<1>5. ASSUME NEW p \in Pasta
      PROVE  /\ pastas'[p] = "livre" => pastas[p] = "livre"
             /\ pastas'[p] = pastas[p] \/ p = op[o].pasta
             /\ pastas[p] = "removida" => pastas'[p] = "removida"
             /\ pastas[p] = "viva" => pastas'[p] \in {"viva", "removida"}
  BY <1>0, <1>3, <1>4 DEF DasPastas
<1>6. Novas'
  <2>1. pastas'[Raiz] # "livre"
    BY <1>5, LibraryAssumption DEF Acordo, Novas
  <2>2. ASSUME NEW p \in Pasta, pastas'[p] = "livre"
        PROVE  /\ \A x \in objetos' : x.pasta # p
               /\ p \notin listagem'.pastas /\ p \notin DOMAIN listagem'.lista
               /\ \A x \in Op : op'[x].tipo # "criaPasta" => op'[x].pasta # p
               /\ \A f \in Arquivo : arq'[f].pasta # p
    <3>0. pastas[p] = "livre"
      BY <1>5, <2>2
    <3>1. /\ \A x \in objetos : x.pasta # p
          /\ p \notin listagem.pastas /\ p \notin DOMAIN listagem.lista
          /\ \A x \in Op : op[x].tipo # "criaPasta" => op[x].pasta # p
          /\ \A f \in Arquivo : arq[f].pasta # p
      BY <3>0 DEF Acordo, Novas
    <3>2. \A x \in Op : op'[x].tipo # "criaPasta" => op'[x].pasta # p
      BY <3>1, <1>1, <1>2 DEF Mesmo
    <3>3. ASSUME NEW f \in Arquivo PROVE arq'[f].pasta # p
      <4>1. Igual(f) \/ Morre(o, f) \/ Muda(o, f)
        BY DEF Atende, Arquivos
      <4>2. Muda(o, f) => op[o].tipo # "criaPasta" \/ arq'[f].pasta = arq[f].pasta
        <5>1. FormaDe(op'[o])
          BY DEF Atende, Anda
        <5> QED BY <5>1, <1>2 DEF Muda, FormaDe, Escrevem, Item, Apagam
      <4> QED BY <3>1, <4>1, <4>2 DEF Igual, Morre, Muda
    <3> QED BY <3>1, <3>2, <3>3, <1>3
  <2> QED BY <2>1, <2>2 DEF Novas
<1>7. ASSUME NEW x \in Op PROVE DePasta(x)'
  <2>0. DePasta(x) /\ DePasta(o)
    BY DEF Acordo, DePastas
  <2>1. op'[x].tipo = op[x].tipo /\ op'[x].pasta = op[x].pasta
    BY <1>1, <1>2 DEF Mesmo
  <2>2. \A y \in Op : op'[y].tipo = op[y].tipo /\ op'[y].pasta = op[y].pasta
    BY <1>1, <1>2 DEF Mesmo
  <2>3. CASE x = o
    <3>1. op'[o].tipo = "criaPasta" =>
            /\ op'[o].fase \in {"grava", "ok", "erro"}
            /\ op'[o].fase = "grava" \/ (op'[o].fase = "erro" /\ ~op'[o].falhou) =>
                 pastas'[op'[o].pasta] = "livre"
            /\ op'[o].fase = "ok" => pastas'[op'[o].pasta] = "viva"
      BY <1>0, <1>2, <1>3, <1>4 DEF DasPastas
    <3>2. op'[o].tipo = "excluiPasta" /\ op'[o].fase = "ok" /\ ~op'[o].falhou =>
            pastas'[op'[o].pasta] = "removida"
      BY <1>0, <1>2, <1>3 DEF DasPastas
    <3> QED BY <2>0, <2>2, <2>3, <3>1, <3>2 DEF DePasta
  <2>4. CASE x # o
    <3>1. Mesmo(x)
      BY <1>1, <2>4
    <3>2. ASSUME op[x].tipo = "criaPasta", op[x].pasta = op[o].pasta
          PROVE  pastas' = pastas \/ (op[o].tipo = "excluiPasta" /\ pastas[op[x].pasta] # "livre")
      BY <1>3, <1>4, <2>0, <2>4, <3>2 DEF DasPastas, DePasta
    <3>3. op[x].tipo = "criaPasta" /\ op[o].tipo = "excluiPasta" /\ op[x].pasta = op[o].pasta =>
            op[x].pasta \in desculpa'
      <4>1. EmJogo(op[x]) \cap EmJogo(op[o]) \subseteq desculpa'
        BY <1>3, <2>4 DEF Acordo, Disputa
      <4> QED BY <4>1 DEF EmJogo, Alvos
    <3>4. op[x].tipo = "criaPasta" =>
            /\ pastas[op[x].pasta] = "livre" => pastas'[op[x].pasta] = "livre"
            /\ pastas[op[x].pasta] = "viva" =>
                 pastas'[op[x].pasta] = "viva" \/ (pastas'[op[x].pasta] = "removida"
                     /\ op[x].pasta \in desculpa')
      BY <1>0, <1>5, <3>2, <3>3, <1>3 DEF DasPastas
    <3> QED BY <1>0, <1>5, <1>3, <2>0, <2>2, <3>1, <3>4 DEF DePasta, Mesmo
  <2> QED BY <2>3, <2>4
<1>8. Lados'
  <2> SUFFICES ASSUME NEW p \in Pasta \ desculpa'
               PROVE  /\ (p \in Mostradas' /\ pastas'[p] # "viva") => Respondera("excluiPasta", p)'
                      /\ (p \notin Mostradas' /\ pastas'[p] = "viva") => Respondera("criaPasta", p)'
    BY DEF Lados
  <2>0. Mostradas' = Mostradas
    BY <1>3 DEF Mostradas
  <2>1. \A t : Respondera(t, p) => Respondera(t, p)'
    <3>1. \A x \in Op : op[x].fase \in {"ok", "erro"} => op'[x].fase \in {"ok", "erro"}
      BY DEF Atende, Anda, Mesmo
    <3>2. \A x \in Op : op'[x].tipo = op[x].tipo /\ op'[x].pasta = op[x].pasta
      BY <1>1, <1>2 DEF Mesmo
    <3> QED BY <3>1, <3>2 DEF Respondera
  <2>2. /\ (p \in Mostradas /\ pastas[p] # "viva") => Respondera("excluiPasta", p)
        /\ (p \notin Mostradas /\ pastas[p] = "viva") => Respondera("criaPasta", p)
    BY <1>3 DEF Acordo, Lados
  <2>3. pastas'[p] # "viva" /\ pastas[p] = "viva" => Respondera("excluiPasta", p)'
    BY <1>0, <1>2, <1>3 DEF DasPastas, Respondera
  <2>4. pastas'[p] = "viva" /\ pastas[p] # "viva" => Respondera("criaPasta", p)'
    BY <1>0, <1>2, <1>3 DEF DasPastas, Respondera
  <2> QED BY <2>0, <2>1, <2>2, <2>3, <2>4
<1> QED BY <1>6, <1>7, <1>8 DEF DePastas

LEMMA AtendeArquivos ==
  ASSUME TypeOK, TypeOK', Acordo, NEW o \in Op, Atende(o)
  PROVE  Certos' /\ Promessas'
<1>0. /\ \A f \in Arquivo : arq[f].pasta \in Pasta
      /\ \A x \in Op : op[x].pasta \in Pasta /\ op[x].itens \subseteq Arquivo
                       /\ op[x].item \subseteq Arquivo /\ op[x].feitos \subseteq Arquivo
      /\ \A x \in Op : op'[x].itens \subseteq Arquivo
                       /\ op'[x].item \subseteq Arquivo /\ op'[x].feitos \subseteq Arquivo
  BY DEF TypeOK, TipoServidor, Registros, Pedidos
<1>1. \A f : Mostra(f)' = Mostra(f)
  BY DEF Atende, Mostra
<1>2. \A f \in Arquivo : Igual(f) \/ Morre(o, f) \/ Muda(o, f)
  BY DEF Atende, Arquivos
<1>3. desculpa \subseteq desculpa' /\ objetos' = objetos
  BY DEF Atende
<1>4. \A x \in Op \ {o} : Mesmo(x)
  BY DEF Atende, Anda
<1>5. op'[o].tipo = op[o].tipo /\ op'[o].pasta = op[o].pasta /\ op'[o].origem = op[o].origem
  BY DEF Atende, Anda
<1>6. /\ \A f \in Arquivo : pastas[arq[f].pasta] # "livre"
      /\ \A x \in Op : op[x].tipo # "criaPasta" => pastas[op[x].pasta] # "livre"
  BY <1>0 DEF Acordo, Novas
\* A file whose folder is being emptied.
<1>7. ASSUME NEW f \in Arquivo, Morre(o, f), NEW p, p = arq[f].pasta PROVE Condenada(p)'
  BY <1>7, <1>5 DEF Morre, Condenada
<1>8. \A f \in Arquivo : Aberto(f) => Aberto(f)'
  <2>1. \A x \in Op : /\ op[x].feitos \subseteq op'[x].feitos /\ op'[x].tipo = op[x].tipo
                      /\ op[x].tipo \in Apagam => op'[x].itens = op[x].itens
    BY <1>4 DEF Atende, Anda, Mesmo
  <2> QED BY <2>1 DEF Aberto
<1>9. Certos'
  <2> SUFFICES ASSUME NEW f \in Arquivo, f \notin desculpa', ~Aberto(f)' PROVE Certo(f)'
    BY DEF Certos
  <2>1. ~Muda(o, f)
    <3>1. op[o].tipo \in Apagam => op'[o].itens = op[o].itens
      BY DEF Atende, Anda
    <3> QED BY <1>5, <3>1 DEF Muda, Aberto
  <2>2. Certo(f)
    BY <1>8, <1>3 DEF Acordo, Certos
  <2>3. arq'[f].pasta = arq[f].pasta
    BY <1>2, <2>1 DEF Igual, Morre
  <2>4. PICK p \in Pasta : p = arq[f].pasta
    BY <1>0
  <2>5. (pastas[p] # "viva" => pastas'[p] # "viva") /\ (Condenada(p) => Condenada(p)')
    BY <2>4, <1>6, CondenadaFica
  <2>6. /\ \A q \in Mostra(f) : q = p
        /\ Vivo(f) /\ Mostra(f) = {} => pastas[p] # "viva"
        /\ ~Vivo(f) /\ Mostra(f) # {} => Condenada(p)
    BY <2>2, <2>4 DEF Certo
  <2>7. \/ Vivo(f)' <=> Vivo(f)
        \/ ~Vivo(f)' /\ Condenada(p)'
    <3>1. CASE Igual(f)
      BY <3>1 DEF Igual
    <3>2. CASE Morre(o, f)
      BY <2>4, <3>2, <1>7 DEF Morre
    <3> QED BY <1>2, <2>1, <3>1, <3>2
  <2>8. p = arq'[f].pasta
    BY <2>3, <2>4
  <2>9. /\ \A q \in Mostra(f)' : q = p
        /\ Vivo(f)' /\ Mostra(f)' = {} => pastas'[p] # "viva"
        /\ ~Vivo(f)' /\ Mostra(f)' # {} => Condenada(p)'
    BY <2>5, <2>6, <2>7, <1>1
  <2>10. Condenada(p)' => Condenada(arq[f].pasta)'
    BY <2>8 DEF Condenada
  <2>11. ~Vivo(f)' /\ Mostra(f)' # {} => Condenada(arq[f].pasta)'
    BY <2>9, <2>10
  <2> QED BY <2>8, <2>9, <2>11 DEF Certo
\* The files of other requests.
<1>10. ASSUME NEW x \in Op \ {o}, NEW f \in Ids(op[x]) \ desculpa'
      PROVE  f \in Arquivo /\ (Igual(f) \/ Morre(o, f))
  <2>1. f \in Arquivo
    BY <1>0 DEF Ids
  <2>2. f \notin Ids(op[o])
    BY <2>1, <1>10, <1>3, IdsJogo DEF Acordo, Disputa
  <2>3. arq[f].st # "livre"
    BY <2>1, <1>10 DEF Acordo, Usados
  <2> QED BY <1>2, <2>1, <2>2, <2>3 DEF Muda
<1>11. ASSUME NEW x \in Op, NEW f \in Arquivo, Igual(f) \/ Morre(o, f), op[x].tipo # "criaPasta",
             arq[f].pasta = op[x].pasta, Vivo(f) \/ Condenada(op[x].pasta)
      PROVE  /\ arq'[f].pasta = op[x].pasta
             /\ \A p : p = op[x].pasta => Vivo(f)' \/ Condenada(p)'
  <2>1. arq'[f].pasta = op[x].pasta
    BY <1>11 DEF Igual, Morre
  <2>2. ASSUME NEW p, p = op[x].pasta PROVE Vivo(f)' \/ Condenada(p)'
    <3>1. Condenada(p) => Condenada(p)'
      BY <1>0, <1>11, <1>6, <2>2, CondenadaFica
    <3>2. CASE Igual(f)
      BY <1>11, <2>2, <3>1, <3>2 DEF Igual
    <3>3. CASE Morre(o, f)
      BY <1>7, <1>11, <2>2, <3>3
    <3> QED BY <1>11, <3>2, <3>3
  <2> QED BY <2>1, <2>2
<1>12. \A x \in Op : op[x].feitos # {} => op[x].tipo # "criaPasta"
  BY DEF Acordo, Forma, FormaDe, Escrevem, Item
<1>13. ASSUME NEW x \in Op \ {o} PROVE Feita(x)' /\ AMover(x)' /\ Apagada(x)'
  <2>0. Mesmo(x) /\ Feita(x) /\ AMover(x) /\ Apagada(x)
    BY <1>4 DEF Acordo, Promessas
  <2>1. Feita(x)'
    <3> SUFFICES ASSUME op'[x].fase # "erro", NEW f \in op'[x].feitos \ desculpa'
                 PROVE  /\ arq'[f].pasta = op'[x].pasta /\ (Vivo(f)' \/ Condenada(op[x].pasta)')
                        /\ \A p \in Mostra(f)' : p = op'[x].pasta
                             \/ (op'[x].tipo \in Movem /\ p = op'[x].origem)
      BY DEF Feita
    <3>1. f \in op[x].feitos \ desculpa' /\ f \in Ids(op[x]) /\ op[x].fase # "erro"
      BY <2>0 DEF Mesmo, Ids
    <3>2. f \in Arquivo /\ (Igual(f) \/ Morre(o, f))
      BY <1>10, <3>1
    <3>3. /\ arq[f].pasta = op[x].pasta /\ (Vivo(f) \/ Condenada(op[x].pasta))
          /\ \A p \in Mostra(f) : p = op[x].pasta \/ (op[x].tipo \in Movem /\ p = op[x].origem)
      BY <2>0, <3>1, <1>3 DEF Feita
    <3>4. arq'[f].pasta = op[x].pasta /\ \A p : p = op[x].pasta => Vivo(f)' \/ Condenada(p)'
      BY <1>11, <1>12, <3>1, <3>2, <3>3
    <3>5. Vivo(f)' \/ Condenada(op[x].pasta)'
      <4>1. op'[x].pasta = op[x].pasta
        BY <2>0 DEF Mesmo
      <4>2. CASE Vivo(f)'
        BY <4>2
      <4>3. CASE ~Vivo(f)'
        BY <3>4, <4>1, <4>3 DEF Condenada
      <4> QED BY <4>2, <4>3
    <3> QED BY <2>0, <3>3, <3>4, <3>5, <1>1 DEF Mesmo
  <2>2. AMover(x)'
    <3> SUFFICES ASSUME op'[x].tipo \in Movem,
                        NEW f \in (op'[x].itens \cup op'[x].item) \ (op'[x].feitos \cup desculpa')
                 PROVE  arq'[f].pasta = op'[x].origem
      BY DEF AMover
    <3>1. f \in (op[x].itens \cup op[x].item) \ (op[x].feitos \cup desculpa') /\ op[x].tipo \in Movem
      BY <2>0 DEF Mesmo
    <3>2. arq[f].pasta = op[x].origem
      BY <2>0, <3>1, <1>3 DEF AMover
    <3>3. Igual(f) \/ Morre(o, f)
      BY <1>10, <3>1 DEF Ids
    <3> QED BY <2>0, <3>2, <3>3 DEF Igual, Morre, Mesmo
  <2>3. Apagada(x)'
    <3> SUFFICES ASSUME op'[x].tipo \in Apagam, NEW f \in op'[x].itens \ desculpa'
                 PROVE  /\ (op'[x].fase = "ok" /\ ~op'[x].falhou) => ~Vivo(f)'
                        /\ op'[x].tipo = "exclui" => Mostra(f)' = {}
                        /\ op'[x].tipo = "excluiVarios" =>
                             \A y \in objetos' : x \in y.presos => f \notin y.arquivos
      BY DEF Apagada
    <3>1. f \in op[x].itens \ desculpa' /\ op[x].tipo \in Apagam
      BY <2>0 DEF Mesmo
    <3>2. /\ (op[x].fase = "ok" /\ ~op[x].falhou) => ~Vivo(f)
          /\ op[x].tipo = "exclui" => Mostra(f) = {}
          /\ op[x].tipo = "excluiVarios" => \A y \in objetos : x \in y.presos => f \notin y.arquivos
      BY <2>0, <3>1, <1>3 DEF Apagada
    <3>3. ~Vivo(f) => ~Vivo(f)'
      BY <1>10, <3>1 DEF Ids, Igual, Morre
    <3> QED BY <2>0, <3>2, <3>3, <1>1, <1>3 DEF Mesmo
  <2> QED BY <2>1, <2>2, <2>3
<1>14. Feita(o) /\ AMover(o) /\ Apagada(o)
  BY DEF Acordo, Promessas
<1>15. Feita(o)'
  <2> SUFFICES ASSUME op'[o].fase # "erro", NEW f \in op'[o].feitos \ desculpa'
               PROVE  /\ arq'[f].pasta = op'[o].pasta /\ (Vivo(f)' \/ Condenada(op[o].pasta)')
                      /\ \A p \in Mostra(f)' : p = op'[o].pasta
                           \/ (op'[o].tipo \in Movem /\ p = op'[o].origem)
    BY DEF Feita
  <2>0. f \in Arquivo /\ op[o].fase # "erro"
    BY <1>0 DEF Atende, Anda
  <2>1. arq'[f].pasta = op[o].pasta /\ \A p : p = op[o].pasta => Vivo(f)' \/ Condenada(p)'
    <3>1. CASE Muda(o, f) \/ f \notin op[o].feitos
      BY <3>1 DEF Muda, Atende, Arquivos
    <3>2. CASE ~Muda(o, f) /\ f \in op[o].feitos
      <4>1. arq[f].pasta = op[o].pasta /\ (Vivo(f) \/ Condenada(op[o].pasta))
        BY <1>14, <1>3, <2>0, <3>2 DEF Feita
      <4> QED BY <1>11, <1>12, <1>2, <2>0, <3>2, <4>1
    <3> QED BY <3>1, <3>2
  <2>2. Vivo(f)' \/ Condenada(op[o].pasta)'
    <3>1. CASE Vivo(f)'
      BY <3>1
    <3>2. CASE ~Vivo(f)'
      BY <2>1, <1>5, <3>2 DEF Condenada
    <3> QED BY <3>1, <3>2
  <2>3. \A p \in Mostra(f) : p = op[o].pasta \/ (op[o].tipo \in Movem /\ p = op[o].origem)
    <3>1. CASE f \in op[o].feitos
      BY <1>14, <1>3, <2>0, <3>1 DEF Feita
    <3>2. CASE arq[f].st = "livre"
      <4>1. \A x \in objetos : f \notin x.arquivos
        BY <2>0, <3>2 DEF Acordo, Usados
      <4> QED BY <4>1 DEF Mostra, Visivel
    <3>3. CASE f \notin op[o].feitos /\ op[o].tipo \in Movem /\ f \in op[o].item
      <4>1. arq[f].pasta = op[o].origem
        BY <1>14, <1>3, <3>3 DEF AMover
      <4>2. ~Aberto(f)
        <5> SUFFICES ASSUME NEW x \in Op, f \in op[x].feitos \/ (op[x].tipo \in Apagam /\ f \in op[x].itens)
                     PROVE  FALSE
          BY DEF Aberto
        <5>1. x # o
          BY <3>3 DEF Movem, Apagam
        <5>2. f \in EmJogo(op[x]) \cap EmJogo(op[o])
          BY <3>3 DEF EmJogo, Alvos
        <5> QED BY <5>1, <5>2, <1>3 DEF Acordo, Disputa
      <4>3. Certo(f)
        BY <4>2, <2>0, <1>3 DEF Acordo, Certos
      <4> QED BY <3>3, <4>1, <4>3 DEF Certo
    <3> QED BY <3>1, <3>2, <3>3 DEF Atende, Arquivos
  <2> QED BY <2>1, <2>2, <2>3, <1>1, <1>5
<1>16. AMover(o)'
  <2> SUFFICES ASSUME op'[o].tipo \in Movem,
                      NEW f \in (op'[o].itens \cup op'[o].item) \ (op'[o].feitos \cup desculpa')
               PROVE  arq'[f].pasta = op'[o].origem
    BY DEF AMover
  <2>1. f \in (op[o].itens \cup op[o].item) \ (op[o].feitos \cup desculpa') /\ op[o].tipo \in Movem
    BY <1>5 DEF Atende, Anda
  <2>2. arq[f].pasta = op[o].origem
    BY <1>14, <2>1, <1>3 DEF AMover
  <2>3. ~Muda(o, f) /\ f \in Arquivo
    BY <1>0, <2>1 DEF Muda, Movem, Apagam
  <2> QED BY <1>2, <1>5, <2>2, <2>3 DEF Igual, Morre
<1>17. Apagada(o)'
  <2> SUFFICES ASSUME op'[o].tipo \in Apagam, NEW f \in op'[o].itens \ desculpa'
               PROVE  /\ (op'[o].fase = "ok" /\ ~op'[o].falhou) => ~Vivo(f)'
                      /\ op'[o].tipo = "exclui" => Mostra(f)' = {}
                      /\ op'[o].tipo = "excluiVarios" =>
                           \A y \in objetos' : o \in y.presos => f \notin y.arquivos
    BY DEF Apagada
  <2>1. f \in op[o].itens \ desculpa' /\ op[o].tipo \in Apagam
    BY <1>5 DEF Atende, Anda
  <2>2. (op'[o].fase = "ok" /\ ~op'[o].falhou) => ~Vivo(f)'
    BY <2>1 DEF Atende, Arquivos
  <2>3. /\ op[o].tipo = "exclui" => Mostra(f) = {}
        /\ op[o].tipo = "excluiVarios" => \A y \in objetos : o \in y.presos => f \notin y.arquivos
    BY <1>14, <2>1, <1>3 DEF Apagada
  <2> QED BY <2>2, <2>3, <1>1, <1>3, <1>5
<1> QED BY <1>9, <1>13, <1>15, <1>16, <1>17 DEF Promessas

-----------------------------------------------------------------------------
(* Each write of the backend is such a step.                               *)

LEMMA SoUm ==
  ASSUME TypeOK, NEW o \in Op, NEW r,
         op' = [op EXCEPT ![o] = r] \/ \E f \in Arquivo : Avanca(o, f, r)
  PROVE  op'[o] = r /\ \A x \in Op \ {o} : Mesmo(x)
BY DEF TypeOK, Pedidos, Avanca, Mesmo

\* o goes to the phase a.
Passa(o, a, b) ==
  /\ \A x \in Op \ {o} : Mesmo(x)
  /\ op'[o].tipo = op[o].tipo /\ op'[o].pasta = op[o].pasta /\ op'[o].origem = op[o].origem
  /\ op'[o].feitos = op[o].feitos /\ op'[o].itens = op[o].itens /\ op'[o].item = op[o].item
  /\ op'[o].fase = a /\ op'[o].falhou = b

LEMMA SoFase ==
  ASSUME TypeOK, NEW o \in Op, NEW a
  PROVE  /\ op' = [op EXCEPT ![o].fase = a] => Passa(o, a, op[o].falhou)
         /\ op' = [op EXCEPT ![o].desde = {}, ![o].fase = a] => Passa(o, a, op[o].falhou)
         /\ op' = [op EXCEPT ![o].fase = a, ![o].falhou = TRUE] => Passa(o, a, TRUE)
<1>0. op \in [Op -> Pedidos]
  BY DEF TypeOK
<1>1. ASSUME op' = [op EXCEPT ![o].fase = a] PROVE Passa(o, a, op[o].falhou)
  BY <1>0, <1>1 DEF Passa, Mesmo, Pedidos
<1>2. ASSUME op' = [op EXCEPT ![o].desde = {}, ![o].fase = a] PROVE Passa(o, a, op[o].falhou)
  BY <1>0, <1>2 DEF Passa, Mesmo, Pedidos
<1>3. ASSUME op' = [op EXCEPT ![o].fase = a, ![o].falhou = TRUE] PROVE Passa(o, a, TRUE)
  BY <1>0, <1>3 DEF Passa, Mesmo, Pedidos
<1> QED BY <1>1, <1>2, <1>3

LEMMA FaseAnda ==
  ASSUME NEW o \in Op, NEW a \in {"grava", "pasta", "ok", "erro"}, NEW b \in BOOLEAN, Passa(o, a, b),
         FormaDe(op[o]), op[o].fase \notin {"livre", "erro"}, op[o].falhou => b,
         op[o].fase = "ok" => a = "erro", op[o].tipo = "excluiPasta" => a # "grava",
         a = "erro" => b \/ (op[o].feitos = {} /\ op[o].tipo \notin Apagam \cup {"excluiPasta"}),
         op[o].tipo = "envia" /\ a = "grava" => op[o].feitos = {}
  PROVE  Anda(o)
<1>1. FormaDe(op'[o])
  BY DEF Passa, FormaDe
<1> QED BY <1>1 DEF Passa, Anda, Ids

\* A step that changes neither files nor folders, and no list.
LEMMA SemMudanca ==
  ASSUME TypeOK, NEW o \in Op, UNCHANGED <<vServidor, objetos, listagem, desculpa>>, Anda(o),
         op'[o].feitos = op[o].feitos,
         op[o].tipo \in Apagam /\ op'[o].fase = "ok" => op'[o].falhou,
         op[o].tipo = "criaPasta" => op'[o].fase = "erro" /\ (op'[o].falhou \/ op[o].fase = "grava"),
         op[o].tipo = "excluiPasta" /\ op'[o].fase = "ok" => op'[o].falhou
  PROVE  Atende(o)
<1>1. \A f \in Arquivo : Igual(f)
  BY DEF Igual, Vivo, vServidor
<1>2. Arquivos(o)
  BY <1>1 DEF Arquivos, Ids
<1> QED BY <1>2 DEF Atende, DasPastas, vServidor

LEMMA AtendeConsulta ==
  ASSUME TypeOK, Acordo, NEW o \in Op,
         ConsultaItem(o) \/ ConsultaEnvio(o) \/ ConsultaNome(o) \/ EngoleNome(o) \/ PerdeResposta(o)
  PROVE  Atende(o)
<1>0. /\ op[o] \in Pedidos /\ FormaDe(op[o]) /\ UNCHANGED <<vServidor, objetos, listagem, desculpa>>
      /\ op \in [Op -> Pedidos] /\ op[o].falhou \in BOOLEAN
  BY DEF TypeOK, Acordo, Forma, ConsultaItem, ConsultaEnvio, ConsultaNome, EngoleNome,
         PerdeResposta, vTela, Pedidos
<1>1. CASE ConsultaItem(o)
  <2>0. op[o].fase = "consulta" /\ op[o].tipo \in Item
    BY <1>1 DEF ConsultaItem
  <2>1. PICK f \in op[o].itens :
          \/ op' = [op EXCEPT ![o].fase = "erro", ![o].falhou = TRUE]
          \/ op' = [op EXCEPT ![o].itens = op[o].itens \ {f},
                              ![o].fase = IF op[o].itens = {f} THEN Fim(op[o]) ELSE op[o].fase]
          \/ op' = [op EXCEPT ![o].fase = "grava", ![o].item = {f},
                              ![o].itens = op[o].itens \ {f}, ![o].desde = {},
                              ![o].nome = arq[f].nome, ![o].st = arq[f].st]
    BY <1>1 DEF ConsultaItem
  <2>2. /\ \A x \in Op \ {o} : Mesmo(x)
        /\ op'[o].tipo = op[o].tipo /\ op'[o].pasta = op[o].pasta /\ op'[o].origem = op[o].origem
        /\ op'[o].feitos = op[o].feitos /\ op'[o].itens \subseteq op[o].itens
        /\ op'[o].item \subseteq op[o].itens \cup op[o].item
        /\ op[o].falhou => op'[o].falhou
        /\ op'[o].fase \in {"erro", "ok", "consulta", "grava"}
        /\ op'[o].fase = "erro" => op'[o].falhou
    <3>1. CASE op' = [op EXCEPT ![o].fase = "erro", ![o].falhou = TRUE]
      BY <3>1, SoFase DEF Passa
    <3>2. CASE op' = [op EXCEPT ![o].itens = op[o].itens \ {f},
                                ![o].fase = IF op[o].itens = {f} THEN Fim(op[o]) ELSE op[o].fase]
      BY <1>0, <2>0, <3>2 DEF Pedidos, Mesmo, Fim
    <3>3. CASE op' = [op EXCEPT ![o].fase = "grava", ![o].item = {f},
                                ![o].itens = op[o].itens \ {f}, ![o].desde = {},
                                ![o].nome = arq[f].nome, ![o].st = arq[f].st]
      BY <1>0, <3>3 DEF Pedidos, Mesmo
    <3> QED BY <2>1, <3>1, <3>2, <3>3
  <2>3. FormaDe(op'[o])
    BY <1>0, <2>0, <2>2 DEF FormaDe, Item
  <2>4. Anda(o)
    BY <2>0, <2>2, <2>3 DEF Anda, Item, Apagam, Ids
  <2> QED BY <1>0, <2>0, <2>2, <2>4, SemMudanca DEF Item, Apagam
<1>2. CASE ConsultaEnvio(o)
  <2>1. PICK a \in {"erro", "grava"} : Passa(o, a, op[o].falhou)
    BY <1>2, SoFase DEF ConsultaEnvio
  <2>2. op[o].fase = "consulta" /\ op[o].tipo = "envia" /\ op[o].feitos = {}
    BY <1>0, <1>2 DEF ConsultaEnvio, FormaDe
  <2>3. Anda(o)
    BY <1>0, <2>1, <2>2, FaseAnda DEF Apagam
  <2> QED BY <1>0, <2>1, <2>2, <2>3, SemMudanca DEF Passa, Apagam
<1>3. CASE ConsultaNome(o)
  <2>1. PICK a \in {"erro", "grava"} : Passa(o, a, op[o].falhou)
    BY <1>3, SoFase DEF ConsultaNome
  <2>2. op[o].fase = "consulta" /\ op[o].tipo = "renomeia" /\ op[o].feitos = {}
    BY <1>0, <1>3 DEF ConsultaNome, FormaDe, Escrevem, Item
  <2>3. Anda(o)
    BY <1>0, <2>1, <2>2, FaseAnda DEF Apagam
  <2> QED BY <1>0, <2>1, <2>2, <2>3, SemMudanca DEF Passa, Apagam
<1>4. CASE EngoleNome(o)
  <2>1. Passa(o, "ok", TRUE)
    BY <1>4, SoFase DEF EngoleNome
  <2>2. op[o].fase \in {"consulta", "grava"} /\ op[o].tipo = "renomeia"
    BY <1>4 DEF EngoleNome
  <2>3. Anda(o)
    BY <1>0, <2>1, <2>2, FaseAnda DEF Apagam
  <2> QED BY <1>0, <2>1, <2>2, <2>3, SemMudanca DEF Passa, Apagam
<1>5. CASE PerdeResposta(o)
  <2>1. Passa(o, "erro", TRUE) /\ op[o].fase = "ok"
    BY <1>5, SoFase DEF PerdeResposta
  <2>2. Anda(o)
    BY <1>0, <2>1, FaseAnda
  <2> QED BY <1>0, <2>1, <2>2, SemMudanca DEF Passa, Apagam
<1> QED BY <1>1, <1>2, <1>3, <1>4, <1>5

LEMMA AtendeMovido ==
  ASSUME TypeOK, Acordo, NEW o \in Op, GravaMovido(o)
  PROVE  Atende(o)
<1>0. /\ op[o] \in Pedidos /\ FormaDe(op[o]) /\ UNCHANGED <<pastas, objetos, listagem>>
      /\ op \in [Op -> Pedidos] /\ arq \in [Arquivo -> Registros] /\ desculpa \subseteq desculpa'
      /\ op[o].fase = "grava" /\ op[o].tipo \in Movem
      /\ op[o].item \subseteq Arquivo
  BY DEF TypeOK, TipoServidor, Acordo, Forma, GravaMovido, Movem, Pedidos
<1>1. PICK f \in op[o].item :
        \/ /\ Vivo(f) /\ arq' = [arq EXCEPT ![f].pasta = op[o].pasta]
           /\ Avanca(o, f, Depois([op[o] EXCEPT !.feitos = op[o].feitos \cup {f}]))
        \/ /\ ~Vivo(f) /\ desculpa' = desculpa \cup {f} /\ arq' = arq
           /\ Avanca(o, f, Depois([op[o] EXCEPT !.feitos = op[o].feitos \cup {f}]))
        \/ /\ op' = [op EXCEPT ![o] = Depois([op[o] EXCEPT !.falhou = TRUE])]
           /\ arq' = arq
  BY DEF GravaMovido
<1>2. DasPastas(o)
  BY <1>0 DEF DasPastas, Movem
<1>3. CASE /\ op' = [op EXCEPT ![o] = Depois([op[o] EXCEPT !.falhou = TRUE])]
           /\ arq' = arq
  <2>1. PICK r : r = Depois([op[o] EXCEPT !.falhou = TRUE])
    OBVIOUS
  <2>2. op'[o] = r /\ \A x \in Op \ {o} : Mesmo(x)
    BY <1>0, <1>3, <2>1, SoUm
  <2>3. /\ r.tipo = op[o].tipo /\ r.pasta = op[o].pasta /\ r.origem = op[o].origem
        /\ r.itens = op[o].itens /\ r.item = {} /\ r.feitos = op[o].feitos
        /\ r.falhou = TRUE /\ r.fase \in {"erro", "consulta"}
    BY <1>0, <2>1 DEF Depois, Fim, Pedidos
  <2>4. FormaDe(r)
    BY <1>0, <2>3 DEF FormaDe, Movem, Escrevem, Item, Apagam
  <2>5. Anda(o)
    BY <1>0, <2>2, <2>3, <2>4 DEF Anda, Movem, Ids
  <2>6. Arquivos(o)
    BY <1>0, <1>3, <2>2, <2>3 DEF Arquivos, Igual, Vivo, Ids, Apagam, Movem
  <2> QED BY <1>0, <1>2, <2>5, <2>6 DEF Atende
<1>4. CASE Avanca(o, f, Depois([op[o] EXCEPT !.feitos = op[o].feitos \cup {f}]))
  <2>1. PICK r : r = Depois([op[o] EXCEPT !.feitos = op[o].feitos \cup {f}])
    OBVIOUS
  <2>2. op'[o] = r /\ \A x \in Op \ {o} : Mesmo(x)
    BY <1>0, <1>4, <2>1, SoUm
  <2>3. /\ r.tipo = op[o].tipo /\ r.pasta = op[o].pasta /\ r.origem = op[o].origem
        /\ r.itens = op[o].itens /\ r.item = {} /\ r.feitos = op[o].feitos \cup {f}
        /\ r.falhou = op[o].falhou /\ r.fase \in {"ok", "erro", "consulta"}
        /\ r.fase = "erro" => r.falhou
    BY <1>0, <2>1 DEF Depois, Fim, Pedidos
  <2>4. FormaDe(r)
    BY <1>0, <2>3 DEF FormaDe, Movem, Escrevem, Item, Apagam
  <2>5. Anda(o)
    BY <1>0, <2>2, <2>3, <2>4 DEF Anda, Movem, Ids
  <2>6. f \in Arquivo /\ f \in Ids(op[o])
    BY <1>0 DEF Ids
  <2>7. CASE Vivo(f) /\ arq' = [arq EXCEPT ![f].pasta = op[o].pasta]
    <3>1. /\ arq'[f].st = arq[f].st /\ arq'[f].pasta = op[o].pasta
          /\ \A g \in Arquivo \ {f} : arq'[g] = arq[g]
      BY <1>0, <2>6, <2>7 DEF Registros
    <3>2. Vivo(f)' /\ arq'[f].st # "livre"
      BY <2>7, <3>1 DEF Vivo
    <3>3. Muda(o, f)
      BY <2>2, <2>3, <2>6, <3>1, <3>2 DEF Muda
    <3>4. \A g \in Arquivo \ {f} : Igual(g)
      BY <3>1 DEF Igual, Vivo
    <3>5. \A g \in op'[o].feitos : g \in Ids(op[o])
      BY <2>2, <2>3, <2>6 DEF Ids
    <3>6. \A g \in op'[o].feitos \ (op[o].feitos \cup desculpa') : g = f
      BY <2>2, <2>3
    <3>7. op[o].tipo \notin Apagam
      BY <1>0 DEF Movem, Apagam
    <3> QED BY <1>0, <1>2, <2>5, <3>1, <3>2, <3>3, <3>4, <3>5, <3>6, <3>7 DEF Atende, Arquivos
  <2>8. CASE ~Vivo(f) /\ desculpa' = desculpa \cup {f} /\ arq' = arq
    <3>1. \A g \in Arquivo : Igual(g)
      BY <2>8 DEF Igual, Vivo
    <3>2. op'[o].feitos \ (op[o].feitos \cup desculpa') = {} /\ \A g \in op'[o].feitos : g \in Ids(op[o])
      BY <2>2, <2>3, <2>6, <2>8 DEF Ids
    <3>3. Arquivos(o)
      BY <1>0, <3>1, <3>2 DEF Arquivos, Movem, Apagam
    <3> QED BY <1>0, <1>2, <2>5, <3>3 DEF Atende
  <2>9. CASE op' = [op EXCEPT ![o] = Depois([op[o] EXCEPT !.falhou = TRUE])] /\ arq' = arq
    BY <1>3, <2>9
  <2> QED BY <1>1, <2>7, <2>8, <2>9
<1> QED BY <1>1, <1>3, <1>4

\* A new file of o.
LEMMA AtendeNovo ==
  ASSUME TypeOK, Acordo, NEW o \in Op, UNCHANGED <<pastas, objetos, listagem, desculpa>>,
         op[o].tipo \in {"copia", "envia"}, Anda(o),
         NEW f \in Arquivo, arq[f].st = "livre", op'[o].feitos = op[o].feitos \cup {f},
         NEW a \in Registros, arq' = [arq EXCEPT ![f] = a], a.pasta = op[o].pasta,
         a.st \in {"armazenado", "pronto"}
  PROVE  Atende(o)
<1>0. arq \in [Arquivo -> Registros]
  BY DEF TypeOK, TipoServidor
<1>1. arq'[f] = a /\ \A g \in Arquivo \ {f} : arq'[g] = arq[g]
  BY <1>0
<1>2. Vivo(f)' /\ arq'[f].st # "livre" /\ arq'[f].pasta = op[o].pasta
  BY <1>1 DEF Vivo
<1>3. Muda(o, f)
  BY <1>2 DEF Muda
<1>4. \A g \in Arquivo \ {f} : Igual(g)
  BY <1>1 DEF Igual, Vivo
<1>5. \A g \in op'[o].feitos : g = f \/ (g \in op[o].feitos /\ g \in Ids(op[o]))
  BY DEF Ids
<1>6. Arquivos(o)
  BY <1>2, <1>3, <1>4, <1>5 DEF Arquivos, Apagam
<1> QED BY <1>6 DEF Atende, DasPastas

LEMMA AtendeCopia ==
  ASSUME TypeOK, Acordo, NEW o \in Op, GravaCopia(o)
  PROVE  Atende(o)
<1>0. /\ op[o] \in Pedidos /\ FormaDe(op[o]) /\ UNCHANGED <<pastas, objetos, listagem, desculpa>>
      /\ op \in [Op -> Pedidos] /\ arq \in [Arquivo -> Registros]
      /\ op[o].fase = "grava" /\ op[o].tipo = "copia"
  BY DEF TypeOK, TipoServidor, Acordo, Forma, GravaCopia, vTela
<1>1. CASE op' = [op EXCEPT ![o] = Depois(op[o])] /\ arq' = arq
  <2>1. op'[o] = Depois(op[o]) /\ \A x \in Op \ {o} : Mesmo(x)
    BY <1>0, <1>1, SoUm
  <2>2. PICK r : r = Depois(op[o])
    OBVIOUS
  <2>3. /\ r.tipo = op[o].tipo /\ r.pasta = op[o].pasta /\ r.origem = op[o].origem
        /\ r.itens = op[o].itens /\ r.item = {} /\ r.feitos = op[o].feitos
        /\ r.falhou = op[o].falhou /\ r.fase \in {"ok", "erro", "consulta"}
        /\ r.fase = "erro" => r.falhou
    BY <1>0, <2>2 DEF Depois, Fim, Pedidos
  <2>4. FormaDe(r)
    BY <1>0, <2>3 DEF FormaDe, Movem, Escrevem, Item, Apagam
  <2>5. Anda(o)
    BY <1>0, <2>1, <2>2, <2>3, <2>4 DEF Anda, Apagam, Ids
  <2>6. Arquivos(o)
    BY <1>0, <1>1, <2>1, <2>2, <2>3 DEF Arquivos, Igual, Vivo, Ids, Apagam
  <2> QED BY <1>0, <2>5, <2>6 DEF Atende, DasPastas
<1>2. ASSUME NEW f \in Arquivo, arq[f].st = "livre",
             arq' = [arq EXCEPT ![f] = [st |-> op[o].st, pasta |-> op[o].pasta, nome |-> op[o].nome]],
             Avanca(o, f, Depois([op[o] EXCEPT !.feitos = op[o].feitos \cup {f}]))
      PROVE  Atende(o)
  <2>1. PICK r : r = Depois([op[o] EXCEPT !.feitos = op[o].feitos \cup {f}])
    OBVIOUS
  <2>2. op'[o] = r /\ \A x \in Op \ {o} : Mesmo(x)
    BY <1>2, <2>1, SoUm
  <2>3. /\ r.tipo = op[o].tipo /\ r.pasta = op[o].pasta /\ r.origem = op[o].origem
        /\ r.itens = op[o].itens /\ r.item = {} /\ r.feitos = op[o].feitos \cup {f}
        /\ r.falhou = op[o].falhou /\ r.fase \in {"ok", "erro", "consulta"}
        /\ r.fase = "erro" => r.falhou
    BY <1>0, <2>1 DEF Depois, Fim, Pedidos
  <2>4. FormaDe(r)
    BY <1>0, <2>3 DEF FormaDe, Movem, Escrevem, Item, Apagam
  <2>5. Anda(o)
    BY <1>0, <1>2, <2>2, <2>3, <2>4 DEF Anda, Apagam, Ids
  <2>6. PICK a : a = [st |-> op[o].st, pasta |-> op[o].pasta, nome |-> op[o].nome]
    OBVIOUS
  <2>7. a \in Registros /\ a.pasta = op[o].pasta /\ a.st \in {"armazenado", "pronto"}
    BY <1>0, <2>6 DEF Registros, Pedidos
  <2>8. arq' = [arq EXCEPT ![f] = a]
    BY <1>2, <2>6
  <2> QED BY <1>0, <1>2, <2>2, <2>3, <2>5, <2>7, <2>8, AtendeNovo
<1> QED BY <1>1, <1>2 DEF GravaCopia

LEMMA AtendeEnvio ==
  ASSUME TypeOK, Acordo, NEW o \in Op, GravaEnvio(o)
  PROVE  Atende(o)
<1>0. /\ op[o] \in Pedidos /\ FormaDe(op[o]) /\ UNCHANGED <<pastas, objetos, listagem, desculpa>>
      /\ op \in [Op -> Pedidos] /\ arq \in [Arquivo -> Registros]
      /\ op[o].fase = "grava" /\ op[o].tipo = "envia" /\ op[o].feitos = {}
  BY DEF TypeOK, TipoServidor, Acordo, Forma, FormaDe, GravaEnvio, vTela
<1>1. CASE op' = [op EXCEPT ![o].fase = "ok"] /\ UNCHANGED <<arq, corridas, desabrigados>>
  <2>1. Passa(o, "ok", op[o].falhou) /\ op[o].falhou \in BOOLEAN
    BY <1>0, <1>1, SoFase DEF Pedidos
  <2>2. Anda(o)
    BY <1>0, <2>1, FaseAnda
  <2> QED BY <1>0, <1>1, <2>1, <2>2, SemMudanca DEF Passa, Apagam, vServidor
<1>2. ASSUME NEW f \in Arquivo, arq[f].st = "livre",
             arq' = [arq EXCEPT ![f] = [st |-> "armazenado", pasta |-> op[o].pasta,
                                        nome |-> op[o].nome]],
             Avanca(o, f, [op[o] EXCEPT !.fase = "indexa", !.feitos = {f}])
      PROVE  Atende(o)
  <2>1. PICK r : r = [op[o] EXCEPT !.fase = "indexa", !.feitos = {f}]
    OBVIOUS
  <2>2. op'[o] = r /\ \A x \in Op \ {o} : Mesmo(x)
    BY <1>2, <2>1, SoUm
  <2>3. /\ r.tipo = op[o].tipo /\ r.pasta = op[o].pasta /\ r.origem = op[o].origem
        /\ r.itens = op[o].itens /\ r.item = op[o].item /\ r.feitos = {f}
        /\ r.falhou = op[o].falhou /\ r.fase = "indexa"
    BY <1>0, <2>1 DEF Pedidos
  <2>4. FormaDe(r)
    BY <1>0, <2>3 DEF FormaDe, Movem, Escrevem, Item, Apagam
  <2>5. Anda(o)
    BY <1>0, <1>2, <2>2, <2>3, <2>4 DEF Anda, Apagam, Ids
  <2>6. PICK a : a = [st |-> "armazenado", pasta |-> op[o].pasta, nome |-> op[o].nome]
    OBVIOUS
  <2>7. a \in Registros /\ a.pasta = op[o].pasta /\ a.st \in {"armazenado", "pronto"}
    BY <1>0, <2>6 DEF Registros, Pedidos
  <2>8. arq' = [arq EXCEPT ![f] = a]
    BY <1>2, <2>6
  <2> QED BY <1>0, <1>2, <2>2, <2>3, <2>5, <2>7, <2>8, AtendeNovo
<1> QED BY <1>1, <1>2 DEF GravaEnvio

LEMMA AtendeNome ==
  ASSUME TypeOK, Acordo, NEW o \in Op, GravaNome(o)
  PROVE  Atende(o)
<1>0. /\ op[o] \in Pedidos /\ FormaDe(op[o]) /\ UNCHANGED <<pastas, objetos, listagem, desculpa>>
      /\ op \in [Op -> Pedidos] /\ arq \in [Arquivo -> Registros]
      /\ op[o].fase = "grava" /\ op[o].tipo = "renomeia" /\ op[o].itens \subseteq Arquivo
  BY DEF TypeOK, TipoServidor, Acordo, Forma, GravaNome, vTela, Pedidos
<1>1. PICK f \in op[o].itens : /\ arq' = [arq EXCEPT ![f].nome = op[o].nome]
                               /\ Avanca(o, f, [op[o] EXCEPT !.fase = "ok"])
  BY DEF GravaNome
<1>2. \A g \in Arquivo : Igual(g)
  BY <1>0, <1>1 DEF Igual, Vivo, Registros
<1>3. PICK r : r = [op[o] EXCEPT !.fase = "ok"]
  OBVIOUS
<1>4. op'[o] = r /\ \A x \in Op \ {o} : Mesmo(x)
  BY <1>0, <1>1, <1>3, SoUm
<1>5. /\ r.tipo = op[o].tipo /\ r.pasta = op[o].pasta /\ r.origem = op[o].origem
      /\ r.itens = op[o].itens /\ r.item = op[o].item /\ r.feitos = op[o].feitos
      /\ r.falhou = op[o].falhou /\ r.fase = "ok"
  BY <1>0, <1>3 DEF Pedidos
<1>6. Passa(o, "ok", op[o].falhou) /\ op[o].falhou \in BOOLEAN
  BY <1>0, <1>4, <1>5 DEF Passa, Pedidos
<1>7. Anda(o)
  BY <1>0, <1>6, FaseAnda
<1>8. Arquivos(o)
  BY <1>0, <1>2, <1>4, <1>5 DEF Arquivos, Ids, Apagam
<1> QED BY <1>0, <1>7, <1>8 DEF Atende, DasPastas

LEMMA AtendeIndexa ==
  ASSUME TypeOK, Acordo, NEW o \in Op, Indexa(o)
  PROVE  Atende(o)
<1>0. /\ op[o] \in Pedidos /\ FormaDe(op[o]) /\ UNCHANGED <<pastas, objetos, listagem, desculpa>>
      /\ op \in [Op -> Pedidos] /\ arq \in [Arquivo -> Registros]
      /\ op[o].fase = "indexa" /\ op[o].tipo = "envia"
      /\ op[o].feitos \subseteq Arquivo /\ op[o].falhou \in BOOLEAN
      /\ \A f \in op[o].feitos : arq[f].st # "livre"
  BY DEF TypeOK, TipoServidor, Acordo, Forma, FormaDe, Usados, Ids, Indexa, vTela, Pedidos
<1>1. PICK f \in op[o].feitos :
        \/ /\ arq' = [arq EXCEPT ![f].st = IF Vivo(f) THEN "pronto" ELSE arq[f].st]
           /\ op' = [op EXCEPT ![o].fase = "ok"]
        \/ /\ op' = [op EXCEPT ![o].fase = "ok"] /\ arq' = arq
        \/ /\ arq' \in {arq, [arq EXCEPT ![f].st = "removido"]}
           /\ op' = [op EXCEPT ![o].fase = "erro", ![o].falhou = TRUE]
  BY DEF Indexa
<1>2. PICK a \in {"ok", "erro"} : Passa(o, a, a = "erro" \/ op[o].falhou)
  BY <1>0, <1>1, SoFase
<1>3. Anda(o)
  BY <1>0, <1>2, FaseAnda
<1>4. \A g \in Arquivo : Igual(g) \/ Muda(o, g)
  <2>1. CASE arq' = [arq EXCEPT ![f].st = IF Vivo(f) THEN "pronto" ELSE arq[f].st]
    <3>1. \A g \in Arquivo : /\ arq'[g].pasta = arq[g].pasta
                             /\ arq'[g].st = IF g = f /\ Vivo(f) THEN "pronto" ELSE arq[g].st
      BY <1>0, <2>1 DEF Registros
    <3> QED BY <3>1 DEF Igual, Vivo
  <2>2. CASE arq' = arq
    BY <2>2 DEF Igual, Vivo
  <2>3. CASE /\ arq' = [arq EXCEPT ![f].st = "removido"]
             /\ op' = [op EXCEPT ![o].fase = "erro", ![o].falhou = TRUE]
    <3>1. \A g \in Arquivo : /\ arq'[g].pasta = arq[g].pasta
                             /\ arq'[g].st = IF g = f THEN "removido" ELSE arq[g].st
      BY <1>0, <2>3 DEF Registros
    <3>2. op'[o].fase = "erro" /\ op'[o].feitos = op[o].feitos
      BY <2>3, SoFase DEF Passa
    <3>3. Muda(o, f)
      BY <1>0, <3>1, <3>2 DEF Muda, Ids
    <3>4. \A g \in Arquivo \ {f} : Igual(g)
      BY <3>1 DEF Igual, Vivo
    <3> QED BY <3>3, <3>4
  <2> QED BY <1>1, <2>1, <2>2, <2>3
<1>5. Arquivos(o)
  BY <1>0, <1>2, <1>4 DEF Arquivos, Passa, Ids, Apagam
<1> QED BY <1>0, <1>3, <1>5 DEF Atende, DasPastas

LEMMA AtendeExclusao ==
  ASSUME TypeOK, Acordo, NEW o \in Op, GravaExclusao(o)
  PROVE  Atende(o)
<1>0. /\ op[o] \in Pedidos /\ FormaDe(op[o]) /\ UNCHANGED <<pastas, objetos, listagem, desculpa>>
      /\ op \in [Op -> Pedidos] /\ arq \in [Arquivo -> Registros]
      /\ op[o].fase = "grava" /\ op[o].tipo \in Apagam
      /\ op[o].itens \subseteq Arquivo /\ op[o].falhou \in BOOLEAN
      /\ \A f \in op[o].itens : arq[f].st # "livre"
      /\ op[o].feitos = {}
  BY DEF TypeOK, TipoServidor, Acordo, Forma, FormaDe, Usados, Ids, GravaExclusao, vTela, Pedidos,
         Apagam, Escrevem, Item
<1>1. CASE Removidos(op[o].itens) /\ op' = [op EXCEPT ![o].fase = "ok"]
  <2>1. Passa(o, "ok", op[o].falhou)
    BY <1>1, SoFase
  <2>2. Anda(o)
    BY <1>0, <2>1, FaseAnda DEF Apagam
  <2>3. \A f \in Arquivo : /\ arq'[f].pasta = arq[f].pasta
                           /\ arq'[f].st = IF f \in op[o].itens THEN "removido" ELSE arq[f].st
    BY <1>0, <1>1 DEF Removidos, Registros
  <2>4. \A f \in Arquivo : Igual(f) \/ Muda(o, f)
    BY <1>0, <2>1, <2>3 DEF Igual, Muda, Vivo, Ids, Passa
  <2>5. \A f \in op[o].itens : ~Vivo(f)'
    BY <1>0, <2>3 DEF Vivo
  <2>6. Arquivos(o)
    BY <1>0, <2>1, <2>4, <2>5 DEF Arquivos, Passa
  <2> QED BY <1>0, <2>2, <2>6 DEF Atende, DasPastas, Apagam
<1>2. CASE UNCHANGED arq /\ op' = [op EXCEPT ![o].fase = "ok", ![o].falhou = TRUE]
  <2>1. Passa(o, "ok", TRUE)
    BY <1>2, SoFase
  <2>2. Anda(o)
    BY <1>0, <2>1, FaseAnda DEF Apagam
  <2>3. Arquivos(o)
    BY <1>0, <1>2, <2>1 DEF Arquivos, Passa, Igual, Vivo
  <2> QED BY <1>0, <2>2, <2>3 DEF Atende, DasPastas, Apagam
<1> QED BY <1>1, <1>2 DEF GravaExclusao

LEMMA AtendeDePasta ==
  ASSUME TypeOK, Acordo, NEW o \in Op, GravaPasta(o) \/ RemoveFilhos(o) \/ RemovePasta(o)
  PROVE  Atende(o)
<1>0. /\ op[o] \in Pedidos /\ FormaDe(op[o]) /\ UNCHANGED <<objetos, listagem, desculpa>>
      /\ op \in [Op -> Pedidos] /\ arq \in [Arquivo -> Registros]
      /\ op[o].falhou \in BOOLEAN
  BY DEF TypeOK, TipoServidor, Acordo, Forma, FormaDe, GravaPasta, RemoveFilhos, RemovePasta, vTela,
         Pedidos
<1>1. ASSUME NEW a, NEW b, Passa(o, a, b), op[o].tipo \in {"criaPasta", "excluiPasta"}, arq' = arq
      PROVE  Arquivos(o)
  BY <1>1 DEF Arquivos, Passa, Igual, Vivo, Ids, Apagam
<1>2. CASE GravaPasta(o)
  <2>0. /\ op[o].fase = "grava" /\ op[o].tipo = "criaPasta" /\ op[o].feitos = {}
        /\ UNCHANGED arq
    BY <1>0, <1>2 DEF GravaPasta, FormaDe, Escrevem, Item
  <2>1. CASE pastas' = [pastas EXCEPT ![op[o].pasta] = "viva"] /\ op' = [op EXCEPT ![o].fase = "ok"]
    <3>1. Passa(o, "ok", op[o].falhou)
      BY <2>1, SoFase
    <3>2. Anda(o)
      BY <1>0, <2>0, <3>1, FaseAnda
    <3>3. DasPastas(o)
      BY <2>0, <2>1, <3>1 DEF DasPastas, Passa
    <3> QED BY <1>0, <1>1, <2>0, <3>1, <3>2, <3>3 DEF Atende
  <2>2. CASE UNCHANGED pastas /\ op' = [op EXCEPT ![o].fase = "erro"]
    <3>1. Passa(o, "erro", op[o].falhou)
      BY <2>2, SoFase
    <3>2. Anda(o)
      BY <1>0, <2>0, <3>1, FaseAnda DEF Apagam
    <3>3. DasPastas(o)
      BY <2>0, <2>2, <3>1 DEF DasPastas, Passa
    <3> QED BY <1>0, <1>1, <2>0, <3>1, <3>2, <3>3 DEF Atende
  <2> QED BY <1>2, <2>1, <2>2 DEF GravaPasta
<1>3. CASE RemoveFilhos(o)
  <2>0. /\ op[o].fase = "grava" /\ op[o].tipo = "excluiPasta" /\ UNCHANGED pastas
    BY <1>3 DEF RemoveFilhos
  <2>1. CASE Removidos(FilhosDe(op[o].pasta)) /\ op' = [op EXCEPT ![o].fase = "pasta"]
    <3>1. Passa(o, "pasta", op[o].falhou)
      BY <2>1, SoFase
    <3>2. Anda(o)
      BY <1>0, <2>0, <3>1, FaseAnda
    <3>3. DasPastas(o)
      BY <2>0, <2>1, <3>1 DEF DasPastas, Passa
    <3>4. \A f \in Arquivo : /\ arq'[f].pasta = arq[f].pasta
                             /\ arq'[f].st = IF f \in FilhosDe(op[o].pasta) THEN "removido" ELSE arq[f].st
      BY <1>0, <2>1 DEF Removidos, Registros
    <3>5. \A f \in Arquivo : Igual(f) \/ Morre(o, f)
      BY <2>0, <3>1, <3>4 DEF Igual, Morre, Vivo, FilhosDe, Passa
    <3>6. Arquivos(o)
      BY <2>0, <3>1, <3>5 DEF Arquivos, Passa, Ids, Apagam
    <3> QED BY <1>0, <3>2, <3>3, <3>6 DEF Atende
  <2>2. CASE UNCHANGED arq /\ op' = [op EXCEPT ![o].fase = "pasta", ![o].falhou = TRUE]
    <3>1. Passa(o, "pasta", TRUE)
      BY <2>2, SoFase
    <3>2. Anda(o)
      BY <1>0, <2>0, <3>1, FaseAnda
    <3>3. DasPastas(o)
      BY <2>0, <2>2, <3>1 DEF DasPastas, Passa
    <3> QED BY <1>0, <1>1, <2>0, <2>2, <3>1, <3>2, <3>3 DEF Atende
  <2> QED BY <1>3, <2>1, <2>2 DEF RemoveFilhos
<1>4. CASE RemovePasta(o)
  <2>0. op[o].fase = "pasta" /\ op[o].tipo = "excluiPasta" /\ UNCHANGED arq
    BY <1>4 DEF RemovePasta
  <2>1. CASE pastas' = [pastas EXCEPT ![op[o].pasta] = "removida"] /\ op' = [op EXCEPT ![o].fase = "ok"]
    <3>1. Passa(o, "ok", op[o].falhou)
      BY <2>1, SoFase
    <3>2. Anda(o)
      BY <1>0, <2>0, <3>1, FaseAnda
    <3>3. DasPastas(o)
      BY <2>0, <2>1, <3>1 DEF DasPastas, Passa
    <3> QED BY <1>0, <1>1, <2>0, <3>1, <3>2, <3>3 DEF Atende
  <2>2. CASE UNCHANGED pastas /\ op' = [op EXCEPT ![o].fase = "ok", ![o].falhou = TRUE]
    <3>1. Passa(o, "ok", TRUE)
      BY <2>2, SoFase
    <3>2. Anda(o)
      BY <1>0, <2>0, <3>1, FaseAnda
    <3>3. DasPastas(o)
      BY <2>0, <2>2, <3>1 DEF DasPastas, Passa
    <3> QED BY <1>0, <1>1, <2>0, <3>1, <3>2, <3>3 DEF Atende
  <2> QED BY <1>4, <2>1, <2>2 DEF RemovePasta
<1> QED BY <1>2, <1>3, <1>4

LEMMA AtendeFaz ==
  ASSUME TypeOK, TypeOK', Acordo, NEW o \in Op, Servidor(o) \/ PerdeResposta(o)
  PROVE  Acordo'
<1>1. Atende(o)
  BY AtendeConsulta, AtendeMovido, AtendeCopia, AtendeEnvio, AtendeNome, AtendeIndexa,
     AtendeExclusao, AtendeDePasta DEF Servidor
<1> QED BY <1>1, AtendeRequisicoes, AtendePastas, AtendeArquivos DEF Acordo

-----------------------------------------------------------------------------
(* The user starts a request.                                              *)

\* The user starts r: nothing enters the list, and only what r deletes leaves it.
Inicia(o, r) ==
  /\ Comeca(o, r) /\ r \in Pedidos /\ FormaDe(r)
  /\ op[o].fase = "livre" /\ r.fase \notin {"livre", "erro"} /\ r.feitos = {} /\ r.item = {}
  /\ r.tipo \in Apagam \cup {"criaPasta", "excluiPasta"} => r.fase = "grava"
  /\ r.tipo = "criaPasta" =>
       pastas[r.pasta] = "livre" /\ \A x \in EmCurso : op[x].tipo # "criaPasta" \/ op[x].pasta # r.pasta
  /\ r.tipo # "criaPasta" => r.pasta \in Mostradas
  /\ r.tipo \in Movem => r.origem \in Mostradas
  /\ \A f \in r.itens : r.origem \in Mostra(f)
ListaInicia(o, r) ==
  /\ Boa(objetos') /\ Pastas(objetos') = Mostradas
  /\ \A f : Visivel(objetos', f) = Mostra(f) \/ (r.tipo \in Apagam /\ f \in r.itens)
  /\ \A u \in Op \ {o} : Segura(objetos, objetos', u, {})
  /\ \A x \in objetos' : \E y \in objetos :
       x.pasta = y.pasta /\ x.arquivos \subseteq y.arquivos /\ x.presos \subseteq y.presos \cup {o}
  /\ r.tipo \in Escrevem => \A p \in Mostradas : \E x \in objetos' : o \in x.presos /\ x.pasta = p
  /\ r.tipo \in Apagam => \A f \in r.itens : Mostra(f) \subseteq {r.origem} =>
       /\ r.tipo = "exclui" => Visivel(objetos', f) = {}
       /\ r.tipo = "excluiVarios" => \A x \in objetos' : o \in x.presos => f \notin x.arquivos

LEMMA MostraMostradas ==
  ASSUME NEW f, NEW p \in Mostra(f) PROVE p \in Mostradas
BY DEF Mostra, Mostradas, Visivel, Pastas

LEMMA IniciaFaz ==
  ASSUME TypeOK, TypeOK', Acordo, NEW o \in Op, NEW r, Inicia(o, r), ListaInicia(o, r)
  PROVE  Acordo'
<1>0. /\ op' = [op EXCEPT ![o] = r] /\ UNCHANGED <<vServidor, listagem>>
      /\ op \in [Op -> Pedidos] /\ r \in Pedidos /\ objetos \subseteq Objetos
      /\ op[o].fase = "livre" /\ r.fase \notin {"livre", "erro"} /\ r.feitos = {} /\ r.item = {}
      /\ r.itens \subseteq Arquivo /\ r.pasta \in Pasta
  BY DEF Inicia, Comeca, TypeOK, TipoTela, Pedidos
<1>1. op'[o] = r /\ \A x \in Op \ {o} : op'[x] = op[x]
  BY <1>0
<1>2. Ids(op[o]) = {} /\ op[o].tipo = "envia" /\ EmJogo(op[o]) = {}
  BY <1>0 DEF Acordo, Forma, FormaDe, Ids, EmJogo, Alvos
<1>3. desculpa \subseteq desculpa'
  BY DEF Inicia, Comeca
<1>4. ASSUME NEW x \in Op \ {o} PROVE EmJogo(r) \cap EmJogo(op[x]) \subseteq desculpa'
  <2>1. EmJogo(r) = Alvos(r)
    BY <1>0 DEF EmJogo
  <2>2. CASE x \in EmCurso
    BY <2>1, <2>2 DEF Inicia, Comeca, EmJogo
  <2>3. CASE x \notin EmCurso
    BY <2>3 DEF Acordo, Forma, FormaDe, EmCurso, Ids, EmJogo, Alvos
  <2> QED BY <2>2, <2>3
<1>5. \A f \in r.itens : \E x \in objetos : f \in x.arquivos
  BY DEF Inicia, Mostra, Visivel
\* A file that is not disputed with r is shown where it was.
<1>6. ASSUME NEW f \in r.itens \ desculpa'
      PROVE  f \in Arquivo /\ ~Aberto(f) /\ Certo(f) /\ arq[f].pasta = r.origem
               /\ Mostra(f) \subseteq {r.origem}
  <2>1. ~Aberto(f)
    <3> SUFFICES ASSUME NEW x \in Op, f \in op[x].feitos \/ (op[x].tipo \in Apagam /\ f \in op[x].itens)
                 PROVE  FALSE
      BY DEF Aberto
    <3>1. x # o
      BY <1>2 DEF Ids
    <3>2. f \in EmJogo(r) \cap EmJogo(op[x])
      BY DEF EmJogo, Alvos
    <3> QED BY <1>4, <3>1, <3>2
  <2>2. f \in Arquivo /\ Certo(f)
    BY <1>0, <1>3, <2>1 DEF Acordo, Certos
  <2>3. r.origem \in Mostra(f)
    BY DEF Inicia
  <2> QED BY <2>1, <2>2, <2>3 DEF Certo
<1>7. \A p : Condenada(p) => Condenada(p)'
  BY <1>0, <1>1 DEF Condenada, vServidor
<1>8. \A f \in Arquivo : Vivo(f)' <=> Vivo(f)
  BY <1>0 DEF Vivo, vServidor
<1>9. \A f : Mostra(f)' = Mostra(f) \/ (r.tipo \in Apagam /\ f \in r.itens)
  BY DEF ListaInicia, Mostra
<1>10. Forma'
  BY <1>1 DEF Acordo, Forma, Inicia
<1>11. Presas'
  <2>1. \A x \in objetos' : \A u \in x.presos : op'[u].fase # "livre"
    <3> SUFFICES ASSUME NEW x \in objetos', NEW u \in x.presos PROVE op'[u].fase # "livre"
      OBVIOUS
    <3>1. PICK y \in objetos : x.presos \subseteq y.presos \cup {o}
      BY DEF ListaInicia
    <3>2. y.presos \subseteq Op /\ \A v \in y.presos : op[v].fase # "livre"
      BY <1>0 DEF Acordo, Presas, Objetos
    <3> QED BY <1>0, <1>1, <3>1, <3>2
  <2>2. ASSUME NEW u \in Op, op'[u].tipo \in Escrevem, op'[u].fase # "livre"
        PROVE  /\ \E x \in objetos' : u \in x.presos /\ x.pasta = op'[u].pasta
               /\ op'[u].tipo \in Movem => \E x \in objetos' : u \in x.presos /\ x.pasta = op'[u].origem
    <3>1. CASE u = o
      <4>1. r.pasta \in Mostradas
        BY <1>1, <2>2, <3>1 DEF Inicia, Escrevem, Item
      <4>2. r.tipo \in Movem => r.origem \in Mostradas
        BY <1>1, <3>1 DEF Inicia
      <4> QED BY <1>1, <2>2, <3>1, <4>1, <4>2 DEF ListaInicia
    <3>2. CASE u # o
      <4>1. /\ \E x \in objetos : u \in x.presos /\ x.pasta = op[u].pasta
            /\ op[u].tipo \in Movem => \E x \in objetos : u \in x.presos /\ x.pasta = op[u].origem
        BY <1>1, <2>2, <3>2 DEF Acordo, Presas, Retem
      <4>2. \A x \in objetos : u \in x.presos => \E y \in objetos' : u \in y.presos /\ y.pasta = x.pasta
        BY <3>2 DEF ListaInicia, Segura
      <4>3. \A p : (\E x \in objetos : u \in x.presos /\ x.pasta = p) =>
                      \E y \in objetos' : u \in y.presos /\ y.pasta = p
        BY <4>2
      <4> QED BY <1>1, <3>2, <4>1, <4>3
    <3> QED BY <3>1, <3>2
  <2> QED BY <2>1, <2>2 DEF ListaInicia, Presas, Retem
<1>12. Usados'
  <2> SUFFICES ASSUME NEW f \in Arquivo, arq[f].st = "livre"
               PROVE  /\ \A x \in objetos' : f \notin x.arquivos
                      /\ \A x \in Op : f \notin Ids(op'[x])
                      /\ Onde(listagem.lista, f) = {}
    BY <1>0 DEF Usados, vServidor
  <2>1. /\ \A x \in objetos : f \notin x.arquivos
        /\ \A x \in Op : f \notin Ids(op[x])
        /\ Onde(listagem.lista, f) = {}
    BY DEF Acordo, Usados
  <2>2. f \notin Ids(r)
    BY <1>0, <1>5, <2>1 DEF Ids
  <2> QED BY <1>1, <2>1, <2>2 DEF ListaInicia
<1>13. Novas'
  <2> SUFFICES ASSUME NEW p \in Pasta, pastas[p] = "livre"
               PROVE  /\ \A x \in objetos' : x.pasta # p
                      /\ \A x \in Op : op'[x].tipo # "criaPasta" => op'[x].pasta # p
    BY <1>0 DEF Acordo, Novas, vServidor
  <2>1. /\ \A x \in objetos : x.pasta # p
        /\ \A x \in Op : op[x].tipo # "criaPasta" => op[x].pasta # p
    BY DEF Acordo, Novas
  <2>2. p \notin Mostradas
    BY <2>1 DEF Mostradas, Pastas
  <2> QED BY <1>1, <2>1, <2>2 DEF ListaInicia, Inicia
<1>14. DePastas'
  <2>1. ASSUME NEW x \in Op, x # o PROVE DePasta(x)'
    <3>1. DePasta(x) /\ op'[x] = op[x]
      BY <1>1, <2>1 DEF Acordo, DePastas
    <3>2. r.tipo = "criaPasta" /\ op[x].tipo = "criaPasta" => op[x].pasta # r.pasta
      <4>1. op[x].tipo = "criaPasta" => x \in EmCurso
        BY DEF Acordo, Forma, FormaDe, EmCurso
      <4> QED BY <4>1 DEF Inicia
    <3> QED BY <1>0, <1>1, <1>3, <3>1, <3>2 DEF DePasta, vServidor
  <2>2. DePasta(o)'
    <3>1. \A x \in Op \ {o} : r.tipo = "criaPasta" /\ op[x].tipo = "criaPasta" => op[x].pasta # r.pasta
      <4>1. \A x \in Op : op[x].tipo = "criaPasta" => x \in EmCurso
        BY DEF Acordo, Forma, FormaDe, EmCurso
      <4> QED BY <4>1 DEF Inicia
    <3> QED BY <1>0, <1>1, <3>1 DEF DePasta, vServidor, Inicia
  <2> QED BY <2>1, <2>2 DEF DePastas
<1>15. Disputa'
  <2>1. \A a, b \in Op \ {o} : a # b => EmJogo(op'[a]) \cap EmJogo(op'[b]) \subseteq desculpa'
    BY <1>1, <1>3 DEF Acordo, Disputa
  <2>2. \A x \in Op \ {o} : EmJogo(op'[o]) \cap EmJogo(op'[x]) \subseteq desculpa'
    BY <1>1, <1>4
  <2> QED BY <2>1, <2>2 DEF Disputa
<1>16. Lados'
  <2>1. \A t, p : Respondera(t, p) => Respondera(t, p)'
    BY <1>0, <1>1 DEF Respondera
  <2>2. Mostradas' = Mostradas
    BY DEF ListaInicia, Mostradas
  <2> QED BY <1>0, <1>3, <2>1, <2>2 DEF Acordo, Lados, vServidor
<1>17. Certos'
  <2> SUFFICES ASSUME NEW f \in Arquivo, f \notin desculpa', ~Aberto(f)' PROVE Certo(f)'
    BY DEF Certos
  <2>1. ~Aberto(f)
    BY <1>1, <1>2 DEF Aberto, Ids
  <2>2. ~(r.tipo \in Apagam /\ f \in r.itens)
    BY <1>1 DEF Aberto
  <2>3. Certo(f)
    BY <1>3, <2>1 DEF Acordo, Certos
  <2>4. Mostra(f)' = Mostra(f)
    BY <1>9, <2>2
  <2>5. Condenada(arq[f].pasta) => Condenada(arq[f].pasta)'
    <3>1. PICK p : p = arq[f].pasta
      OBVIOUS
    <3>2. p = arq'[f].pasta
      BY <3>1, <1>0 DEF vServidor
    <3>3. Condenada(p)' => Condenada(arq[f].pasta)'
      BY <3>2 DEF Condenada
    <3>4. Condenada(arq[f].pasta) => Condenada(p)
      BY <3>1
    <3> QED BY <1>7, <3>3, <3>4
  <2> QED BY <1>0, <1>8, <2>3, <2>4, <2>5 DEF Certo, vServidor
<1>18. ASSUME NEW x \in Op \ {o} PROVE Feita(x)' /\ AMover(x)' /\ Apagada(x)'
  <2>0. op'[x] = op[x] /\ Feita(x) /\ AMover(x) /\ Apagada(x)
    BY <1>1 DEF Acordo, Promessas
  <2>1. \A f \in Ids(op[x]) \ desculpa' : Mostra(f)' = Mostra(f)
    <3>1. \A f \in Ids(op[x]) : f \in EmJogo(op[x])
      BY DEF Ids, EmJogo, Alvos
    <3>2. \A f \in r.itens : f \in EmJogo(r)
      BY DEF EmJogo, Alvos
    <3> QED BY <1>4, <1>9, <3>1, <3>2
  <2>2. Condenada(op[x].pasta) => Condenada(op[x].pasta)'
    <3>1. PICK p : p = op[x].pasta
      OBVIOUS
    <3>2. p = op'[x].pasta
      BY <3>1, <2>0
    <3>3. Condenada(p)' => Condenada(op[x].pasta)'
      BY <3>2 DEF Condenada
    <3>4. Condenada(op[x].pasta) => Condenada(p)
      BY <3>1
    <3> QED BY <1>7, <3>3, <3>4
  <2>3. op[x].feitos \subseteq Arquivo /\ op[x].itens \subseteq Arquivo
    BY <1>0 DEF Pedidos
  <2>4. Feita(x)'
    BY <1>0, <1>3, <1>8, <2>0, <2>1, <2>2, <2>3 DEF Feita, vServidor, Ids
  <2>5. AMover(x)'
    BY <1>0, <1>3, <2>0 DEF AMover, vServidor
  <2>6. Apagada(x)'
    <3> SUFFICES ASSUME op[x].tipo \in Apagam, NEW f \in op[x].itens \ desculpa'
                 PROVE  /\ (op[x].fase = "ok" /\ ~op[x].falhou) => ~Vivo(f)'
                        /\ op[x].tipo = "exclui" => Mostra(f)' = {}
                        /\ op[x].tipo = "excluiVarios" =>
                             \A y \in objetos' : x \in y.presos => f \notin y.arquivos
      BY <2>0 DEF Apagada
    <3>1. /\ (op[x].fase = "ok" /\ ~op[x].falhou) => ~Vivo(f)
          /\ op[x].tipo = "exclui" => Mostra(f) = {}
          /\ op[x].tipo = "excluiVarios" => \A y \in objetos : x \in y.presos => f \notin y.arquivos
      BY <2>0, <1>3 DEF Apagada
    <3>2. \A y \in objetos' : x \in y.presos =>
            \E z \in objetos : x \in z.presos /\ y.arquivos \subseteq z.arquivos \cup {}
      BY DEF ListaInicia, Segura
    <3>3. Mostra(f)' = Mostra(f)
      BY <2>1 DEF Ids
    <3> QED BY <1>8, <2>3, <3>1, <3>2, <3>3
  <2> QED BY <2>4, <2>5, <2>6
<1>19. Feita(o)' /\ AMover(o)' /\ Apagada(o)'
  <2>1. Feita(o)'
    BY <1>0, <1>1 DEF Feita
  <2>2. AMover(o)'
    BY <1>0, <1>1, <1>6 DEF AMover, vServidor
  <2>3. Apagada(o)'
    <3> SUFFICES ASSUME r.tipo \in Apagam, NEW f \in r.itens \ desculpa'
                 PROVE  /\ (r.fase = "ok" /\ ~r.falhou) => ~Vivo(f)'
                        /\ r.tipo = "exclui" => Mostra(f)' = {}
                        /\ r.tipo = "excluiVarios" =>
                             \A y \in objetos' : o \in y.presos => f \notin y.arquivos
      BY <1>1 DEF Apagada
    <3>1. Mostra(f) \subseteq {r.origem}
      BY <1>6
    <3>2. r.fase = "grava"
      BY DEF Inicia
    <3> QED BY <3>1, <3>2 DEF ListaInicia, Mostra
  <2> QED BY <2>1, <2>2, <2>3
<1> QED BY <1>10, <1>11, <1>12, <1>13, <1>14, <1>15, <1>16, <1>17, <1>18, <1>19 DEF Acordo, Promessas

LEMMA ListaMostra ==
  ASSUME Boa(objetos)
  PROVE  /\ DOMAIN Lista = Mostradas
         /\ \A f : Onde(Lista, f) = Mostra(f)
         /\ \A f, p : p \in Mostra(f) <=> p \in DOMAIN Lista /\ f \in Lista[p]
         /\ \A x \in objetos : x.atual => \A f : f \in x.arquivos <=> f \in Lista[x.pasta]
<1>1. DOMAIN Lista = Mostradas
  BY OndeLista DEF Mostradas, Pastas
<1>2. \A f : Onde(Lista, f) = Mostra(f)
  BY OndeLista DEF Mostra, Visivel
<1>3. \A f, p : p \in Mostra(f) <=> p \in DOMAIN Lista /\ f \in Lista[p]
  BY <1>2 DEF Onde
<1>4. ASSUME NEW x \in objetos, x.atual, NEW f PROVE f \in x.arquivos <=> f \in Lista[x.pasta]
  <2>1. x.pasta \in DOMAIN Lista
    BY <1>1, <1>4 DEF Mostradas, Pastas
  <2>2. f \in x.arquivos <=> x.pasta \in Mostra(f)
    BY <1>4 DEF Mostra, Visivel, Boa
  <2> QED BY <1>3, <2>1, <2>2
<1> QED BY <1>1, <1>2, <1>3, <1>4

LEMMA SeguraSegue ==
  ASSUME NEW os, NEW os2, NEW os3, NEW u, NEW fs, Segura(os, os2, u, fs), Segura(os2, os3, u, {})
  PROVE  Segura(os, os3, u, fs)
<1>1. ASSUME NEW x \in os, u \in x.presos PROVE \E z \in os3 : u \in z.presos /\ z.pasta = x.pasta
  BY <1>1 DEF Segura
<1>2. ASSUME NEW z \in os3, u \in z.presos
      PROVE  \E x \in os : u \in x.presos /\ z.pasta = x.pasta /\ z.arquivos \subseteq x.arquivos \cup fs
  <2>1. PICK y \in os2 : u \in y.presos /\ z.pasta = y.pasta /\ z.arquivos \subseteq y.arquivos \cup {}
    BY <1>2 DEF Segura
  <2>2. PICK x \in os : u \in x.presos /\ y.pasta = x.pasta /\ y.arquivos \subseteq x.arquivos \cup fs
    BY <2>1 DEF Segura
  <2> QED BY <2>1, <2>2
<1> QED BY <1>1, <1>2 DEF Segura

LEMMA Prendem ==
  ASSUME TypeOK, Acordo, NEW o \in Op, op[o].fase = "livre"
  PROVE  /\ objetos \in SUBSET Objetos /\ Boa(objetos)
         /\ \A x \in objetos : o \notin x.presos
         /\ Prende(objetos, o) \in SUBSET Objetos
BY ObjetosTipo DEF TypeOK, TipoTela, Acordo, Presas

LEMMA PrendeInicia ==
  ASSUME TypeOK, Acordo, NEW o \in Op, op[o].fase = "livre", NEW r, r.tipo \notin Apagam,
         objetos' = Prende(objetos, o)
  PROVE  ListaInicia(o, r)
<1> DEFINE os == Prende(objetos, o)
<1>1. /\ Boa(os) /\ Pastas(os) = Pastas(objetos)
      /\ \A f : Visivel(os, f) = Visivel(objetos, f)
      /\ \A u \in Op \ {o} : Segura(objetos, os, u, {})
      /\ \A x \in os :
           /\ o \in x.presos <=> x.atual
           /\ \E y \in objetos : x.pasta = y.pasta /\ x.arquivos = y.arquivos /\ x.atual = y.atual
                            /\ x.presos \subseteq y.presos \cup {o}
  BY Prendem, AoPrender
<1> HIDE DEF os
<1>2. objetos' = os
  BY DEF os
<1>3. \A p \in Mostradas : \E x \in os : o \in x.presos /\ x.pasta = p
  BY <1>1 DEF Mostradas, Pastas
<1>4. \A x \in os : \E y \in objetos :
         x.pasta = y.pasta /\ x.arquivos \subseteq y.arquivos /\ x.presos \subseteq y.presos \cup {o}
  BY <1>1
<1> QED BY <1>1, <1>2, <1>3, <1>4 DEF ListaInicia, Mostra, Mostradas

\* The list captured by o loses the files fs of q.
Tirada(os, o, q, fs) ==
  /\ os \in SUBSET Objetos /\ Boa(os) /\ Pastas(os) = Mostradas
  /\ \A f : f \notin fs => Visivel(os, f) = Mostra(f)
  /\ \A u \in Op \ {o} : Segura(objetos, os, u, {})
  /\ \A x \in os : \E y \in objetos :
       x.pasta = y.pasta /\ x.arquivos \subseteq y.arquivos /\ x.presos \subseteq y.presos \cup {o}
  /\ \A f \in fs : Mostra(f) \subseteq {q} =>
       \A x \in os : o \in x.presos => f \notin x.arquivos

LEMMA TiraInicia ==
  ASSUME TypeOK, Acordo, NEW o \in Op, op[o].fase = "livre", NEW q \in DOMAIN Lista,
         NEW fs \in SUBSET Arquivo, NEW os, os = NoLugar(Prende(objetos, o), o, q, Lista[q] \ fs)
  PROVE  Tirada(os, o, q, fs)
<1>0. /\ objetos \in SUBSET Objetos /\ Boa(objetos) /\ \A x \in objetos : o \notin x.presos
      /\ Prende(objetos, o) \in SUBSET Objetos /\ EhLista(Lista)
  BY Prendem, ListaTipo DEF TypeOK, TipoTela
<1>1. PICK ps : ps = Prende(objetos, o)
  OBVIOUS
<1>2. /\ ps \in SUBSET Objetos /\ Boa(ps) /\ Pastas(ps) = Pastas(objetos)
      /\ \A f : Visivel(ps, f) = Visivel(objetos, f)
      /\ \A u \in Op \ {o} : Segura(objetos, ps, u, {})
      /\ \A x \in ps :
           /\ o \in x.presos <=> x.atual
           /\ \E y \in objetos : x.pasta = y.pasta /\ x.arquivos = y.arquivos /\ (x.atual <=> y.atual)
                            /\ x.presos \subseteq y.presos \cup {o}
  BY <1>0, <1>1, AoPrender
<1>3. PICK as : as = Lista[q] \ fs
  OBVIOUS
<1>4. as \in SUBSET Arquivo
  BY <1>0, <1>3 DEF EhLista
\* What is held is the list.
<1>5. ASSUME NEW x \in ps, o \in x.presos PROVE \A f : f \in x.arquivos <=> f \in Lista[x.pasta]
  <2>1. PICK y \in objetos : x.pasta = y.pasta /\ x.arquivos = y.arquivos /\ y.atual
    BY <1>2, <1>5
  <2> QED BY <1>0, <2>1, ListaMostra
<1>6. \A x \in ps : o \in x.presos /\ x.pasta = q => as \subseteq x.arquivos \cup {}
  BY <1>3, <1>5
<1>7. os = NoLugar(ps, o, q, as)
  BY <1>1, <1>3
<1>8. Trocada(ps, os, o, q, as, {})
  <2>1. PICK v : v = {}
    OBVIOUS
  <2>2. \A x \in ps : o \in x.presos /\ x.pasta = q => as \subseteq x.arquivos \cup v
    BY <1>6, <2>1
  <2>3. Trocada(ps, os, o, q, as, v)
    BY <1>2, <1>4, <1>7, <2>2, AoTrocar
  <2> QED BY <2>1, <2>3
<1>9. /\ Boa(os)
      /\ \A u \in Op : Segura(ps, os, u, {})
      /\ \A x \in os :
           \E y \in ps : /\ x.pasta = y.pasta /\ x.presos = y.presos /\ (x.atual <=> y.atual)
                        /\ x.arquivos = IF o \in y.presos /\ y.pasta = q THEN as ELSE y.arquivos
      /\ \A y \in ps : \E x \in os :
           /\ x.pasta = y.pasta /\ x.presos = y.presos /\ (x.atual <=> y.atual)
           /\ x.arquivos = IF o \in y.presos /\ y.pasta = q THEN as ELSE y.arquivos
  BY <1>8 DEF Trocada
<1>10. os \in SUBSET Objetos
  BY <1>2, <1>4, <1>7, ObjetosTipo
<1>11. Pastas(os) = Mostradas
  <2>0. /\ \A x \in os : \E y \in ps : x.pasta = y.pasta /\ (x.atual <=> y.atual)
        /\ \A y \in ps : \E x \in os : x.pasta = y.pasta /\ (x.atual <=> y.atual)
    BY <1>9
  <2>1. ASSUME NEW x \in os, x.atual PROVE x.pasta \in Pastas(ps)
    <3>1. PICK y \in ps : x.pasta = y.pasta /\ y.atual
      BY <2>0, <2>1
    <3> QED BY <3>1 DEF Pastas
  <2>2. \A p : p \in Pastas(ps) => p \in Pastas(os)
    BY <2>0 DEF Pastas
  <2> QED BY <1>2, <2>1, <2>2 DEF Pastas, Mostradas
<1>12. ASSUME NEW f, f \notin fs PROVE Visivel(os, f) = Mostra(f)
  <2>1. \A y \in ps : o \in y.presos /\ y.pasta = q => (f \in as <=> f \in y.arquivos)
    BY <1>3, <1>5, <1>12
  <2>2. /\ \A x \in os : \E y \in ps : x.pasta = y.pasta /\ (x.atual <=> y.atual)
                                        /\ (f \in x.arquivos <=> f \in y.arquivos)
        /\ \A y \in ps : \E x \in os : x.pasta = y.pasta /\ (x.atual <=> y.atual)
                                        /\ (f \in x.arquivos <=> f \in y.arquivos)
    <3>1. ASSUME NEW x \in os
          PROVE  \E y \in ps : x.pasta = y.pasta /\ (x.atual <=> y.atual)
                               /\ (f \in x.arquivos <=> f \in y.arquivos)
      <4>1. PICK y \in ps : /\ x.pasta = y.pasta /\ x.presos = y.presos /\ (x.atual <=> y.atual)
                            /\ x.arquivos = IF o \in y.presos /\ y.pasta = q THEN as ELSE y.arquivos
        BY <1>9
      <4> QED BY <2>1, <4>1
    <3>2. ASSUME NEW y \in ps
          PROVE  \E x \in os : x.pasta = y.pasta /\ (x.atual <=> y.atual)
                               /\ (f \in x.arquivos <=> f \in y.arquivos)
      <4>1. PICK x \in os : /\ x.pasta = y.pasta /\ x.presos = y.presos /\ (x.atual <=> y.atual)
                            /\ x.arquivos = IF o \in y.presos /\ y.pasta = q THEN as ELSE y.arquivos
        BY <1>9
      <4> QED BY <2>1, <4>1
    <3> QED BY <3>1, <3>2
  <2>3. ASSUME NEW x \in os, x.atual, f \in x.arquivos PROVE x.pasta \in Visivel(ps, f)
    <3>1. PICK y \in ps : x.pasta = y.pasta /\ y.atual /\ f \in y.arquivos
      BY <2>2, <2>3
    <3> QED BY <3>1 DEF Visivel
  <2>4. \A p : p \in Visivel(ps, f) => p \in Visivel(os, f)
    BY <2>2 DEF Visivel
  <2> QED BY <1>2, <2>3, <2>4 DEF Visivel, Mostra
<1>13. ASSUME NEW u \in Op \ {o} PROVE Segura(objetos, os, u, {})
  BY <1>2, <1>9, SeguraSegue
<1>14. ASSUME NEW x \in os
       PROVE  \E y \in objetos :
                x.pasta = y.pasta /\ x.arquivos \subseteq y.arquivos /\ x.presos \subseteq y.presos \cup {o}
  <2>1. PICK z \in ps : /\ x.pasta = z.pasta /\ x.presos = z.presos
                        /\ x.arquivos = IF o \in z.presos /\ z.pasta = q THEN as ELSE z.arquivos
    BY <1>9
  <2>2. x.arquivos \subseteq z.arquivos
    BY <1>6, <2>1
  <2>3. PICK y \in objetos : z.pasta = y.pasta /\ z.arquivos = y.arquivos
                            /\ z.presos \subseteq y.presos \cup {o}
    BY <1>2
  <2> QED BY <2>1, <2>2, <2>3
<1>15. ASSUME NEW f \in fs, Mostra(f) \subseteq {q}, NEW x \in os, o \in x.presos
       PROVE  f \notin x.arquivos
  <2>1. PICK z \in ps : /\ x.pasta = z.pasta /\ x.presos = z.presos
                        /\ x.arquivos = IF o \in z.presos /\ z.pasta = q THEN as ELSE z.arquivos
    BY <1>9
  <2>2. CASE z.pasta = q
    BY <1>3, <1>15, <2>1, <2>2
  <2>3. CASE z.pasta # q
    <3>1. PICK y \in objetos : z.pasta = y.pasta /\ z.arquivos = y.arquivos /\ y.atual
      BY <1>2, <1>15, <2>1
    <3>2. f \notin y.arquivos
      BY <1>15, <2>3, <3>1 DEF Mostra, Visivel
    <3> QED BY <2>1, <2>3, <3>1, <3>2
  <2> QED BY <2>2, <2>3
<1> QED BY <1>9, <1>10, <1>11, <1>12, <1>13, <1>14, <1>15 DEF Tirada

LEMMA ExcluiVariosInicia ==
  ASSUME TypeOK, Acordo, NEW o \in Op, op[o].fase = "livre", NEW q \in DOMAIN Lista,
         NEW fs \in SUBSET Arquivo, objetos' = NoLugar(Prende(objetos, o), o, q, Lista[q] \ fs),
         NEW r, r.tipo = "excluiVarios", r.itens = fs, r.origem = q
  PROVE  ListaInicia(o, r)
<1>1. PICK os : os = NoLugar(Prende(objetos, o), o, q, Lista[q] \ fs)
  OBVIOUS
<1>2. Tirada(os, o, q, fs)
  BY <1>1, TiraInicia
<1>3. objetos' = os
  BY <1>1
<1> QED BY <1>2, <1>3 DEF Tirada, ListaInicia, Apagam, Escrevem, Item

LEMMA ExcluiInicia ==
  ASSUME TypeOK, Acordo, NEW o \in Op, op[o].fase = "livre", NEW q \in DOMAIN Lista,
         NEW f \in Arquivo, NEW cs,
         objetos' = Larga(Escreve(NoLugar(Prende(objetos, o), o, q, Lista[q] \ {f}),
                                  [Lista EXCEPT ![q] = Lista[q] \ {f}], cs), o),
         NEW r, r.tipo = "exclui", r.itens = {f}, r.origem = q
  PROVE  ListaInicia(o, r)
<1>1. PICK os : os = NoLugar(Prende(objetos, o), o, q, Lista[q] \ {f})
  OBVIOUS
<1>2. /\ os \in SUBSET Objetos /\ Boa(os) /\ Pastas(os) = Mostradas
      /\ \A u \in Op \ {o} : Segura(objetos, os, u, {})
      /\ \A x \in os : \E y \in objetos :
           x.pasta = y.pasta /\ x.arquivos \subseteq y.arquivos /\ x.presos \subseteq y.presos \cup {o}
  <2>1. PICK fs : fs = {f}
    OBVIOUS
  <2>2. fs \in SUBSET Arquivo /\ os = NoLugar(Prende(objetos, o), o, q, Lista[q] \ fs)
    BY <1>1, <2>1
  <2>3. Tirada(os, o, q, fs)
    BY <2>2, TiraInicia
  <2> QED BY <2>3 DEF Tirada
<1>3. PICK nova : nova = [Lista EXCEPT ![q] = Lista[q] \ {f}]
  OBVIOUS
<1>4. /\ DOMAIN nova = DOMAIN Lista
      /\ \A p \in DOMAIN Lista : nova[p] = IF p = q THEN Lista[q] \ {f} ELSE Lista[p]
  BY <1>3
<1>5. EhLista(nova)
  BY <1>4, ListaTipo DEF EhLista, TypeOK, TipoTela
<1>6. PICK ws : ws = Escreve(os, nova, cs)
  OBVIOUS
<1>7. /\ Boa(ws) /\ Pastas(ws) = DOMAIN nova
      /\ \A g : Visivel(ws, g) = Onde(nova, g)
      /\ \A u \in Op : Segura(os, ws, u, {})
      /\ \A x \in ws :
           \/ \E y \in os : x.pasta = y.pasta /\ x.arquivos = y.arquivos /\ x.presos = y.presos
           \/ x.pasta \in DOMAIN nova /\ x.arquivos = nova[x.pasta] /\ x.presos = {}
  <2>1. Reescrita(os, ws, nova)
    BY <1>2, <1>5, <1>6, AoEscrever
  <2> QED BY <2>1 DEF Reescrita
<1>8. ws \in SUBSET Objetos
  BY <1>2, <1>5, <1>6, EscreveTipo
<1>9. PICK ls : ls = Larga(ws, o)
  OBVIOUS
<1>10. /\ Boa(ls) /\ Pastas(ls) = Pastas(ws)
       /\ \A g : Visivel(ls, g) = Visivel(ws, g)
       /\ \A u \in Op \ {o} : Segura(ws, ls, u, {})
       /\ \A x \in ls :
            /\ o \notin x.presos
            /\ \E y \in ws : x.pasta = y.pasta /\ x.arquivos = y.arquivos
                             /\ x.presos \subseteq y.presos
  <2>1. Largada(ws, ls, o)
    BY <1>7, <1>8, <1>9, AoLargar
  <2> QED BY <2>1 DEF Largada
<1>11. objetos' = ls
  BY <1>1, <1>3, <1>6, <1>9
<1>12. Boa(objetos)
  BY DEF Acordo, Presas
<1>13. ASSUME NEW g, g # f PROVE Onde(nova, g) = Mostra(g)
  <2>1. \A p : p \in Onde(nova, g) <=> p \in Onde(Lista, g)
    BY <1>4, <1>13 DEF Onde
  <2>2. Onde(nova, g) = Onde(Lista, g)
    BY <2>1 DEF Onde
  <2> QED BY <1>12, <2>2, ListaMostra
<1>14. Mostra(f) \subseteq {q} => Onde(nova, f) = {}
  <2>1. Mostra(f) = Onde(Lista, f)
    BY <1>12, ListaMostra
  <2> QED BY <1>4, <2>1 DEF Onde
<1>15. ASSUME NEW u \in Op \ {o} PROVE Segura(objetos, ls, u, {})
  <2>1. Segura(objetos, ws, u, {})
    BY <1>2, <1>7, SeguraSegue
  <2> QED BY <1>10, <2>1, SeguraSegue
<1>16. ASSUME NEW x \in ls
       PROVE  \E y \in objetos :
                x.pasta = y.pasta /\ x.arquivos \subseteq y.arquivos /\ x.presos \subseteq y.presos \cup {o}
  <2>1. PICK y \in ws : x.pasta = y.pasta /\ x.arquivos = y.arquivos /\ x.presos \subseteq y.presos
    BY <1>10
  <2>2. ASSUME NEW z \in os, y.pasta = z.pasta, y.arquivos = z.arquivos, y.presos = z.presos
        PROVE  \E w \in objetos :
                 x.pasta = w.pasta /\ x.arquivos \subseteq w.arquivos /\ x.presos \subseteq w.presos \cup {o}
    BY <1>2, <2>1, <2>2
  <2>3. ASSUME y.pasta \in DOMAIN nova, y.arquivos = nova[y.pasta], y.presos = {}
        PROVE  \E w \in objetos :
                 x.pasta = w.pasta /\ x.arquivos \subseteq w.arquivos /\ x.presos \subseteq w.presos \cup {o}
    <3>1. y.pasta \in Mostradas /\ y.pasta \in DOMAIN Lista
      BY <1>4, <1>12, <2>3, ListaMostra
    <3>2. PICK w \in objetos : w.atual /\ w.pasta = y.pasta
      BY <3>1 DEF Mostradas, Pastas
    <3>3. \A g : g \in w.arquivos <=> g \in Lista[w.pasta]
      BY <1>12, <3>2, ListaMostra
    <3>4. y.arquivos \subseteq Lista[y.pasta]
      BY <1>4, <2>3, <3>1
    <3>5. x.arquivos \subseteq w.arquivos
      BY <2>1, <3>2, <3>3, <3>4
    <3> QED BY <2>1, <2>3, <3>2, <3>5
  <2> QED BY <1>7, <2>2, <2>3
<1>17. Pastas(ls) = Mostradas
  BY <1>4, <1>7, <1>10, <1>12, ListaMostra
<1>18. \A g : Visivel(ls, g) = Mostra(g) \/ g = f
  BY <1>7, <1>10, <1>13
<1>19. Mostra(f) \subseteq {q} => Visivel(ls, f) = {}
  BY <1>7, <1>10, <1>14
<1>20. r.tipo \in Apagam /\ r.tipo \notin Escrevem /\ r.tipo # "excluiVarios"
  BY DEF Apagam, Escrevem, Item
<1>21. \A x \in objetos' : \E y \in objetos :
         x.pasta = y.pasta /\ x.arquivos \subseteq y.arquivos /\ x.presos \subseteq y.presos \cup {o}
  BY <1>11, <1>16
<1>22. Boa(objetos') /\ Pastas(objetos') = Mostradas
  BY <1>10, <1>11, <1>17
<1>23. \A u \in Op \ {o} : Segura(objetos, objetos', u, {})
  BY <1>11, <1>15
<1>24. \A g : Visivel(objetos', g) = Mostra(g) \/ (r.tipo \in Apagam /\ g \in r.itens)
  BY <1>11, <1>18, <1>20
<1>25. \A g \in r.itens : Mostra(g) \subseteq {r.origem} => Visivel(objetos', g) = {}
  BY <1>11, <1>19
<1> QED BY <1>20, <1>22, <1>24, <1>25, <1>21, <1>23 DEF ListaInicia

LEMMA PedidoInicia ==
  ASSUME TypeOK, Acordo, NEW o \in Op, op[o].fase = "livre",
         NEW t \in Tipo, NEW a \in {"consulta", "grava", "ok"}, NEW fs \in SUBSET Arquivo,
         NEW p \in Pasta, NEW q \in Pasta, NEW n \in Nome,
         NEW r, r = Pedido(t, a, fs, p, q, n), Comeca(o, r),
         t \in Apagam \cup {"criaPasta", "excluiPasta"} => a = "grava",
         t = "criaPasta" =>
           pastas[p] = "livre" /\ \A x \in EmCurso : op[x].tipo # "criaPasta" \/ op[x].pasta # p,
         t # "criaPasta" => p \in DOMAIN Lista,
         t \in Movem => q \in DOMAIN Lista /\ p # q,
         fs # {} => q \in DOMAIN Lista /\ fs \subseteq Lista[q]
  PROVE  Inicia(o, r) /\ r.tipo = t /\ r.itens = fs /\ r.origem = q
<1>1. /\ r.tipo = t /\ r.fase = a /\ r.itens = fs /\ r.pasta = p /\ r.origem = q
      /\ r.item = {} /\ r.feitos = {} /\ r.falhou = FALSE
  BY DEF Pedido, OpLivre
<1>2. r \in Pedidos
  BY PedidoTipo DEF Fases
<1>3. FormaDe(r)
  BY <1>1 DEF FormaDe
<1>4. /\ DOMAIN Lista = Mostradas
      /\ \A f, x : x \in Mostra(f) <=> x \in DOMAIN Lista /\ f \in Lista[x]
  BY ListaMostra DEF Acordo, Presas
<1>5. \A f \in r.itens : r.origem \in Mostra(f)
  BY <1>1, <1>4
<1>6. /\ r.tipo # "criaPasta" => r.pasta \in Mostradas
      /\ r.tipo \in Movem => r.origem \in Mostradas
  BY <1>1, <1>4
<1>7. r.tipo = "criaPasta" =>
        pastas[r.pasta] = "livre" /\ \A x \in EmCurso : op[x].tipo # "criaPasta" \/ op[x].pasta # r.pasta
  BY <1>1
<1> QED BY <1>1, <1>2, <1>3, <1>5, <1>6, <1>7 DEF Inicia

\* A request that deletes no file leaves the list as it is.
LEMMA SoPrende ==
  ASSUME TypeOK, TypeOK', Acordo, NEW o \in Op, NEW r, Inicia(o, r), r.tipo \notin Apagam,
         objetos' = Prende(objetos, o)
  PROVE  Acordo'
<1>1. op[o].fase = "livre"
  BY DEF Inicia
<1>2. ListaInicia(o, r)
  BY <1>1, PrendeInicia
<1> QED BY <1>2, IniciaFaz

LEMMA UsuarioFaz ==
  ASSUME TypeOK, TypeOK', Acordo, NEW o \in Op, Usuario(o)
  PROVE  Acordo'
<1> DEFINE n0 == SemRegistro.nome
<1>0. /\ n0 \in Nome /\ EhLista(Lista)
      /\ \A p \in DOMAIN Lista : p \in Pasta /\ Lista[p] \in SUBSET Arquivo
  BY ListaTipo, ServidorTipo DEF TypeOK, TipoTela, EhLista
<1> HIDE DEF n0
<1>1. ASSUME NEW p \in Pasta, NEW n \in Nome, Envia(o, p, n) PROVE Acordo'
  <2>1. PICK r : r = Pedido("envia", "consulta", {}, p, p, n)
    OBVIOUS
  <2>2. /\ Comeca(o, r) /\ op[o].fase = "livre" /\ objetos' = Prende(objetos, o)
        /\ p \in DOMAIN Lista
    BY <1>1, <2>1 DEF Envia, Pode
  <2>3. /\ {} \in SUBSET Arquivo
        /\ "envia" \in Tipo
        /\ "envia" \notin Apagam \cup {"criaPasta", "excluiPasta"}
        /\ "envia" \notin Movem
    BY DEF Tipo, Item, Apagam, Movem
  <2>4. Inicia(o, r) /\ r.tipo = "envia"
    BY <2>1, <2>2, <2>3, PedidoInicia
  <2> QED BY <2>2, <2>4, SoPrende DEF Apagam
<1>2. ASSUME NEW p \in Pasta, CriaPasta(o, p) PROVE Acordo'
  <2>1. PICK r : r = Pedido("criaPasta", "grava", {}, p, p, n0)
    OBVIOUS
  <2>2. /\ Comeca(o, r) /\ op[o].fase = "livre" /\ objetos' = Prende(objetos, o)
        /\ pastas[p] = "livre" /\ \A x \in EmCurso : op[x].tipo # "criaPasta" \/ op[x].pasta # p
    BY <1>2, <2>1 DEF CriaPasta, Pode, n0
  <2>3. /\ {} \in SUBSET Arquivo
        /\ "criaPasta" \in Tipo
        /\ "criaPasta" \notin Movem
    BY DEF Tipo, Item, Apagam, Movem
  <2>4. Inicia(o, r) /\ r.tipo = "criaPasta"
    BY <1>0, <2>1, <2>2, <2>3, PedidoInicia
  <2> QED BY <2>2, <2>4, SoPrende DEF Apagam
<1>3. ASSUME NEW p \in Pasta, NEW q \in Pasta, NEW f \in Arquivo, MoveArquivo(o, q, p, f)
      PROVE  Acordo'
  <2>0. PICK fs : fs = {f}
    OBVIOUS
  <2>1. PICK r : r = Pedido("move", "consulta", fs, p, q, n0)
    OBVIOUS
  <2>2. /\ Comeca(o, r) /\ op[o].fase = "livre" /\ objetos' = Prende(objetos, o)
        /\ {p, q} \subseteq DOMAIN Lista /\ p # q /\ f \in Lista[q]
    BY <1>3, <2>0, <2>1 DEF MoveArquivo, Pode, n0
  <2>3. fs \in SUBSET Arquivo /\ fs \subseteq Lista[q]
    BY <2>0, <2>2
  <2>4. Inicia(o, r) /\ r.tipo = "move"
    BY <1>0, <2>1, <2>2, <2>3, PedidoInicia DEF Tipo, Item, Apagam, Movem
  <2> QED BY <2>2, <2>4, SoPrende DEF Apagam
<1>4. ASSUME NEW p \in Pasta, NEW q \in Pasta, NEW fs \in SUBSET Arquivo, MoveVarios(o, q, p, fs)
      PROVE  Acordo'
  <2>1. PICK r : r = Pedido("moveVarios", "consulta", fs, p, q, n0)
    OBVIOUS
  <2>2. /\ Comeca(o, r) /\ op[o].fase = "livre" /\ objetos' = Prende(objetos, o)
        /\ {p, q} \subseteq DOMAIN Lista /\ p # q /\ fs \subseteq Lista[q]
    BY <1>4, <2>1 DEF MoveVarios, Pode, n0
  <2>3. Inicia(o, r) /\ r.tipo = "moveVarios"
    BY <1>0, <2>1, <2>2, PedidoInicia DEF Tipo, Item, Apagam, Movem
  <2> QED BY <2>2, <2>3, SoPrende DEF Apagam
<1>5. ASSUME NEW p \in Pasta, NEW q \in Pasta, NEW fs \in SUBSET Arquivo, Copia(o, q, p, fs)
      PROVE  Acordo'
  <2>1. PICK r : r = Pedido("copia", "consulta", fs, p, q, n0)
    OBVIOUS
  <2>2. /\ Comeca(o, r) /\ op[o].fase = "livre" /\ objetos' = Prende(objetos, o)
        /\ {p, q} \subseteq DOMAIN Lista /\ fs \subseteq Lista[q]
    BY <1>5, <2>1 DEF Copia, Pode, n0
  <2>3. /\ "copia" \in Tipo
        /\ "copia" \notin Apagam \cup {"criaPasta", "excluiPasta"}
        /\ "copia" \notin Movem
    BY DEF Tipo, Item, Apagam, Movem
  <2>4. Inicia(o, r) /\ r.tipo = "copia"
    BY <1>0, <2>1, <2>2, <2>3, PedidoInicia
  <2> QED BY <2>2, <2>4, SoPrende DEF Apagam
<1>6. ASSUME NEW q \in Pasta, NEW f \in Arquivo, NEW n \in Nome, Renomeia(o, q, f, n) PROVE Acordo'
  <2>0. PICK fs : fs = {f}
    OBVIOUS
  <2>1. PICK r : r = Pedido("renomeia", "consulta", fs, q, q, n)
    OBVIOUS
  <2>2. /\ Comeca(o, r) /\ op[o].fase = "livre" /\ objetos' = Prende(objetos, o)
        /\ q \in DOMAIN Lista /\ f \in Lista[q]
    BY <1>6, <2>0, <2>1 DEF Renomeia, Pode
  <2>3. fs \in SUBSET Arquivo /\ fs \subseteq Lista[q]
    BY <2>0, <2>2
  <2>4. /\ "renomeia" \in Tipo
        /\ "renomeia" \notin Apagam \cup {"criaPasta", "excluiPasta"}
        /\ "renomeia" \notin Movem
    BY DEF Tipo, Item, Apagam, Movem
  <2>5. Inicia(o, r) /\ r.tipo = "renomeia"
    BY <2>1, <2>2, <2>3, <2>4, PedidoInicia
  <2> QED BY <2>2, <2>5, SoPrende DEF Apagam
<1>7. ASSUME NEW p \in Pasta, RenomeiaPasta(o, p) PROVE Acordo'
  <2>1. PICK r : r = Pedido("renomeiaPasta", "ok", {}, p, p, n0)
    OBVIOUS
  <2>2. /\ Comeca(o, r) /\ op[o].fase = "livre" /\ objetos' = Prende(objetos, o)
        /\ p \in DOMAIN Lista
    BY <1>7, <2>1 DEF RenomeiaPasta, Pode, n0
  <2>3. /\ {} \in SUBSET Arquivo
        /\ "renomeiaPasta" \in Tipo
        /\ "renomeiaPasta" \notin Apagam \cup {"criaPasta", "excluiPasta"}
        /\ "renomeiaPasta" \notin Movem
    BY DEF Tipo, Item, Apagam, Movem
  <2>4. Inicia(o, r) /\ r.tipo = "renomeiaPasta"
    BY <1>0, <2>1, <2>2, <2>3, PedidoInicia
  <2> QED BY <2>2, <2>4, SoPrende DEF Apagam
<1>8. ASSUME NEW p \in Pasta, ExcluiPasta(o, p) PROVE Acordo'
  <2>0. PICK fs : fs = Lista[p]
    OBVIOUS
  <2>1. PICK r : r = Pedido("excluiPasta", "grava", fs, p, p, n0)
    OBVIOUS
  <2>2. /\ Comeca(o, r) /\ op[o].fase = "livre" /\ objetos' = Prende(objetos, o)
        /\ p \in DOMAIN Lista
    BY <1>8, <2>0, <2>1 DEF ExcluiPasta, Pode, n0
  <2>3. fs \in SUBSET Arquivo /\ fs \subseteq Lista[p]
    BY <1>0, <2>0, <2>2
  <2>4. /\ "excluiPasta" \in Tipo
        /\ "excluiPasta" \notin Movem
    BY DEF Tipo, Item, Apagam, Movem
  <2>5. Inicia(o, r) /\ r.tipo = "excluiPasta"
    BY <1>0, <2>1, <2>2, <2>3, <2>4, PedidoInicia
  <2> QED BY <2>2, <2>5, SoPrende DEF Apagam
<1>9. ASSUME NEW q \in Pasta, NEW fs \in SUBSET Arquivo, ExcluiVarios(o, q, fs) PROVE Acordo'
  <2>1. PICK r : r = Pedido("excluiVarios", "grava", fs, q, q, n0)
    OBVIOUS
  <2>2. /\ Comeca(o, r) /\ op[o].fase = "livre" /\ q \in DOMAIN Lista /\ fs \subseteq Lista[q]
        /\ objetos' = NoLugar(Prende(objetos, o), o, q, Lista[q] \ fs)
    BY <1>9, <2>1 DEF ExcluiVarios, Pode, n0
  <2>3. /\ "excluiVarios" \in Tipo
        /\ "excluiVarios" \notin Movem
    BY DEF Tipo, Item, Apagam, Movem
  <2>4. Inicia(o, r) /\ r.tipo = "excluiVarios" /\ r.itens = fs /\ r.origem = q
    BY <1>0, <2>1, <2>2, <2>3, PedidoInicia
  <2>5. ListaInicia(o, r)
    BY <2>2, <2>4, ExcluiVariosInicia
  <2> QED BY <2>4, <2>5, IniciaFaz
<1>10. ASSUME NEW q \in Pasta, NEW f \in Arquivo, NEW cs, Exclui(o, q, f, cs) PROVE Acordo'
  <2>0. PICK fs : fs = {f}
    OBVIOUS
  <2>1. PICK r : r = Pedido("exclui", "grava", fs, q, q, n0)
    OBVIOUS
  <2>2. /\ Comeca(o, r) /\ op[o].fase = "livre" /\ q \in DOMAIN Lista /\ f \in Lista[q]
        /\ objetos' = Larga(Escreve(NoLugar(Prende(objetos, o), o, q, Lista[q] \ {f}),
                                    [Lista EXCEPT ![q] = Lista[q] \ {f}], cs \cup {q}), o)
    BY <1>10, <2>0, <2>1 DEF Exclui, Pode, n0
  <2>3. fs \in SUBSET Arquivo /\ fs \subseteq Lista[q]
    BY <2>0, <2>2
  <2>4. /\ "exclui" \in Tipo
        /\ "exclui" \notin Movem
    BY DEF Tipo, Item, Apagam, Movem
  <2>5. Inicia(o, r) /\ r.tipo = "exclui" /\ r.itens = {f} /\ r.origem = q
    BY <1>0, <2>0, <2>1, <2>2, <2>3, <2>4, PedidoInicia
  <2>6. ListaInicia(o, r)
    BY <2>2, <2>5, ExcluiInicia
  <2> QED BY <2>5, <2>6, IniciaFaz
<1>11. CASE MenuDoArquivo(o)
  <2>1. \A f \in Arquivo : {f} \in SUBSET Arquivo
    OBVIOUS
  <2> QED BY <1>3, <1>5, <1>6, <1>10, <1>11, <2>1 DEF MenuDoArquivo
<1>12. CASE MenuDaPasta(o)
  BY <1>4, <1>5, <1>7, <1>8, <1>9, <1>12 DEF MenuDaPasta
<1> QED BY <1>1, <1>2, <1>11, <1>12 DEF Usuario

-----------------------------------------------------------------------------
(* The answers.                                                            *)

\* The request o is answered.
Encerra(o) ==
  /\ op' = [op EXCEPT ![o] = OpLivre] /\ UNCHANGED <<vServidor, listagem>>
  /\ op[o].fase \in {"ok", "erro"}
  /\ desculpa \subseteq desculpa' /\ Incertos(op[o]) \subseteq desculpa'

\* The list is told of what o did, and of nothing else.
Tira(o) == IF op[o].tipo = "excluiPasta" /\ op[o].fase = "ok" THEN {op[o].pasta} ELSE {}
Poe(o) == IF op[o].tipo = "criaPasta" /\ op[o].fase = "ok" THEN {op[o].pasta} ELSE {}
ListaEncerra(o) ==
  /\ Boa(objetos') /\ \A x \in objetos' : o \notin x.presos
  /\ \A u \in Op \ {o} : Segura(objetos, objetos', u, op[o].feitos)
  /\ \A x \in objetos' :
       /\ \A f \in x.arquivos : f \in op[o].feitos \/ \E y \in objetos : f \in y.arquivos
       /\ x.pasta \in Poe(o) \/ \E y \in objetos : y.pasta = x.pasta
  /\ \A p \in Pasta \ desculpa' :
       p \in Pastas(objetos') <=> (p \in Mostradas /\ p \notin Tira(o)) \/ p \in Poe(o)
  /\ \A f \in Arquivo \ desculpa' :
       /\ f \in op[o].feitos =>
            op[o].fase = "ok" /\ Visivel(objetos', f) = {op[o].pasta}
       /\ f \notin op[o].feitos => Visivel(objetos', f) = Mostra(f) \ Tira(o)
       /\ op[o].tipo = "excluiVarios" /\ op[o].fase = "ok" /\ f \in op[o].itens =>
            Visivel(objetos', f) = {}

LEMMA CondenadaEncerra ==
  ASSUME TypeOK, Acordo, NEW o \in Op, Encerra(o), NEW f \in Arquivo \ desculpa',
         arq[f].st # "livre", NEW p, p = arq[f].pasta, Condenada(p)
  PROVE  Condenada(p)'
<1>0. /\ op \in [Op -> Pedidos] /\ pastas' = pastas /\ \A x \in Op \ {o} : op'[x] = op[x]
  BY DEF TypeOK, Encerra, vServidor
<1>1. CASE pastas[p] # "viva"
  BY <1>0, <1>1 DEF Condenada
<1>2. ASSUME NEW x \in Op, op[x].tipo = "excluiPasta", op[x].pasta = p,
             op[x].fase \in {"pasta", "ok", "erro"}
      PROVE  Condenada(p)'
  <2>1. CASE x # o
    BY <1>0, <1>2, <2>1 DEF Condenada
  <2>2. CASE x = o
    <3>1. f \notin Incertos(op[o])
      BY DEF Encerra
    <3>2. ~op[o].falhou
      BY <1>2, <2>2, <3>1 DEF Incertos, FilhosDe
    <3>3. op[o].fase = "ok"
      BY <1>2, <2>2, <3>2 DEF Encerra, Acordo, Forma, FormaDe
    <3>4. pastas[p] = "removida"
      BY <1>2, <2>2, <3>2, <3>3 DEF Acordo, DePastas, DePasta
    <3> QED BY <1>0, <3>4 DEF Condenada
  <2> QED BY <2>1, <2>2
<1> QED BY <1>1, <1>2 DEF Condenada

LEMMA EncerraFaz ==
  ASSUME TypeOK, TypeOK', Acordo, NEW o \in Op, Encerra(o), ListaEncerra(o)
  PROVE  Acordo'
<1>0. /\ op \in [Op -> Pedidos] /\ objetos \subseteq Objetos
      /\ arq' = arq /\ pastas' = pastas /\ listagem' = listagem
      /\ desculpa \subseteq desculpa' /\ Incertos(op[o]) \subseteq desculpa'
      /\ op[o].fase \in {"ok", "erro"}
      /\ \A x \in Op : op[x].itens \subseteq Arquivo /\ op[x].feitos \subseteq Arquivo
      /\ \A f \in Arquivo : arq[f].pasta \in Pasta
  BY DEF TypeOK, TipoTela, TipoServidor, Registros, Encerra, vServidor, Pedidos
<1>1. op'[o] = OpLivre /\ \A x \in Op \ {o} : op'[x] = op[x]
  BY <1>0 DEF Encerra
<1>2. /\ OpLivre.tipo = "envia" /\ OpLivre.fase = "livre" /\ OpLivre.pasta = Raiz
      /\ OpLivre.itens = {} /\ OpLivre.item = {} /\ OpLivre.feitos = {}
  BY DEF OpLivre
<1>3. Ids(OpLivre) = {} /\ EmJogo(OpLivre) = {}
  BY <1>2 DEF Ids, EmJogo, Alvos
<1>4. \A f \in Arquivo : Vivo(f)' <=> Vivo(f)
  BY <1>0 DEF Vivo
\* What was done, and is not told of as failed.
<1>5. op[o].falhou => EmJogo(op[o]) \subseteq desculpa'
  BY <1>0 DEF Incertos, EmJogo
<1>6. \A f \in Arquivo \ desculpa' :
        /\ f \in op[o].feitos => Mostra(f)' = {op[o].pasta}
        /\ f \notin op[o].feitos => Mostra(f)' = Mostra(f) \ Tira(o)
  BY DEF ListaEncerra, Mostra
<1>7. \A f \in Arquivo : Vivo(f) => arq[f].st # "livre"
  BY DEF Vivo
<1>8. Forma'
  <2>1. FormaDe(OpLivre)
    BY <1>2, <1>3 DEF FormaDe, Movem
  <2> QED BY <1>1, <2>1 DEF Acordo, Forma
<1>9. Presas'
  <2>1. \A x \in objetos' : \A u \in x.presos : op'[u].fase # "livre"
    <3> SUFFICES ASSUME NEW x \in objetos', NEW u \in x.presos PROVE op'[u].fase # "livre"
      OBVIOUS
    <3>1. u \in Op \ {o}
      BY DEF ListaEncerra, TypeOK, TipoTela, Objetos
    <3>2. PICK y \in objetos : u \in y.presos
      BY <3>1 DEF ListaEncerra, Segura
    <3> QED BY <1>1, <3>1, <3>2 DEF Acordo, Presas
  <2>2. ASSUME NEW u \in Op, op'[u].tipo \in Escrevem, op'[u].fase # "livre"
        PROVE  /\ \E x \in objetos' : u \in x.presos /\ x.pasta = op'[u].pasta
               /\ op'[u].tipo \in Movem => \E x \in objetos' : u \in x.presos /\ x.pasta = op'[u].origem
    <3>1. u # o
      BY <1>1, <1>2, <2>2
    <3>2. /\ \E x \in objetos : u \in x.presos /\ x.pasta = op[u].pasta
          /\ op[u].tipo \in Movem => \E x \in objetos : u \in x.presos /\ x.pasta = op[u].origem
      BY <1>1, <2>2, <3>1 DEF Acordo, Presas, Retem
    <3>3. \A x \in objetos : u \in x.presos => \E y \in objetos' : u \in y.presos /\ y.pasta = x.pasta
      BY <3>1 DEF ListaEncerra, Segura
    <3>4. \A p : (\E x \in objetos : u \in x.presos /\ x.pasta = p) =>
                    \E y \in objetos' : u \in y.presos /\ y.pasta = p
      BY <3>3
    <3> QED BY <1>1, <3>1, <3>2, <3>4
  <2> QED BY <2>1, <2>2 DEF ListaEncerra, Presas, Retem
<1>10. Usados'
  <2> SUFFICES ASSUME NEW f \in Arquivo, arq[f].st = "livre"
               PROVE  /\ \A x \in objetos' : f \notin x.arquivos
                      /\ \A x \in Op : f \notin Ids(op'[x])
                      /\ Onde(listagem.lista, f) = {}
    BY <1>0 DEF Usados
  <2>1. /\ \A x \in objetos : f \notin x.arquivos
        /\ \A x \in Op : f \notin Ids(op[x])
        /\ Onde(listagem.lista, f) = {}
    BY DEF Acordo, Usados
  <2>2. f \notin op[o].feitos
    BY <2>1 DEF Ids
  <2> QED BY <1>1, <1>3, <2>1, <2>2 DEF ListaEncerra
<1>11. Novas'
  <2>0. pastas[Raiz] # "livre"
    BY DEF Acordo, Novas
  <2> SUFFICES ASSUME NEW p \in Pasta, pastas[p] = "livre"
               PROVE  /\ \A x \in objetos' : x.pasta # p
                      /\ \A x \in Op : op'[x].tipo # "criaPasta" => op'[x].pasta # p
    BY <1>0 DEF Acordo, Novas
  <2>1. /\ \A x \in objetos : x.pasta # p
        /\ \A x \in Op : op[x].tipo # "criaPasta" => op[x].pasta # p
    BY DEF Acordo, Novas
  <2>2. p \notin Poe(o)
    BY DEF Poe, Acordo, DePastas, DePasta
  <2> QED BY <1>1, <1>2, <2>0, <2>1, <2>2 DEF ListaEncerra
<1>12. DePastas'
  <2>1. ASSUME NEW x \in Op, x # o PROVE DePasta(x)'
    <3>1. DePasta(x) /\ op'[x] = op[x]
      BY <1>1, <2>1 DEF Acordo, DePastas
    <3> QED BY <1>0, <1>1, <1>2, <3>1 DEF DePasta
  <2>2. DePasta(o)'
    BY <1>1, <1>2 DEF DePasta
  <2> QED BY <2>1, <2>2 DEF DePastas
<1>13. Disputa'
  BY <1>0, <1>1, <1>3 DEF Acordo, Disputa
<1>14. Lados'
  <2> SUFFICES ASSUME NEW p \in Pasta \ desculpa'
               PROVE  /\ (p \in Mostradas' /\ pastas[p] # "viva") => Respondera("excluiPasta", p)'
                      /\ (p \notin Mostradas' /\ pastas[p] = "viva") => Respondera("criaPasta", p)'
    BY <1>0 DEF Lados
  <2>1. /\ (p \in Mostradas /\ pastas[p] # "viva") => Respondera("excluiPasta", p)
        /\ (p \notin Mostradas /\ pastas[p] = "viva") => Respondera("criaPasta", p)
    BY <1>0 DEF Acordo, Lados
  <2>2. p \in Mostradas' <=> (p \in Mostradas /\ p \notin Tira(o)) \/ p \in Poe(o)
    BY DEF ListaEncerra, Mostradas
  <2>3. ASSUME NEW t, Respondera(t, p), ~(op[o].tipo = t /\ op[o].pasta = p)
        PROVE  Respondera(t, p)'
    BY <1>1, <2>3 DEF Respondera
  <2>4. op[o].tipo \in {"criaPasta", "excluiPasta"} /\ op[o].pasta = p => ~op[o].falhou
    BY <1>5 DEF EmJogo, Alvos
  <2>5. op[o].tipo = "excluiPasta" /\ op[o].pasta = p =>
          op[o].fase = "ok" /\ pastas[p] = "removida" /\ p \in Tira(o) /\ p \notin Poe(o)
    BY <1>0, <2>4 DEF Acordo, Forma, FormaDe, DePastas, DePasta, Tira, Poe
  <2>6. op[o].tipo = "criaPasta" /\ op[o].pasta = p =>
          \/ op[o].fase = "ok" /\ pastas[p] = "viva" /\ p \in Poe(o)
          \/ op[o].fase = "erro" /\ pastas[p] = "livre"
    BY <1>0, <2>4 DEF Acordo, DePastas, DePasta, Poe
  <2>7. /\ p \in Tira(o) => op[o].tipo = "excluiPasta" /\ op[o].pasta = p
        /\ p \in Poe(o) => op[o].tipo = "criaPasta" /\ op[o].pasta = p /\ op[o].fase = "ok"
    BY DEF Tira, Poe
  <2>8. ASSUME p \in Mostradas', pastas[p] # "viva" PROVE Respondera("excluiPasta", p)'
    <3>1. p \notin Poe(o)
      BY <2>6, <2>7, <2>8
    <3>2. p \in Mostradas /\ p \notin Tira(o)
      BY <2>2, <2>8, <3>1
    <3> QED BY <2>1, <2>3, <2>5, <2>8, <3>2
  <2>9. ASSUME p \notin Mostradas', pastas[p] = "viva" PROVE Respondera("criaPasta", p)'
    <3>1. p \notin Mostradas /\ p \notin Poe(o)
      BY <2>2, <2>5, <2>7, <2>9
    <3>2. ~(op[o].tipo = "criaPasta" /\ op[o].pasta = p)
      BY <2>6, <2>9, <3>1
    <3> QED BY <2>1, <2>3, <2>9, <3>1, <3>2
  <2> QED BY <2>8, <2>9
<1>15. Certos'
  <2> SUFFICES ASSUME NEW f \in Arquivo \ desculpa', ~Aberto(f)' PROVE Certo(f)'
    BY DEF Certos
  <2>0. PICK p : p = arq[f].pasta
    OBVIOUS
  <2> SUFFICES /\ \A q \in Mostra(f)' : q = p
               /\ Vivo(f) /\ Mostra(f)' = {} => pastas[p] # "viva"
               /\ ~Vivo(f) /\ Mostra(f)' # {} => Condenada(p)'
    <3>1. p = arq'[f].pasta
      BY <1>0, <2>0
    <3>2. Condenada(p)' => Condenada(arq[f].pasta)'
      BY <3>1 DEF Condenada
    <3> QED BY <1>0, <1>4, <2>0, <3>1, <3>2 DEF Certo
  <2>1. \A x \in Op \ {o} : f \notin op[x].feitos /\ ~(op[x].tipo \in Apagam /\ f \in op[x].itens)
    BY <1>1 DEF Aberto
  <2>2. arq[f].st # "livre" /\ Condenada(p) => Condenada(p)'
    BY <2>0, CondenadaEncerra
  <2>3. CASE f \in op[o].feitos
    <3>1. /\ Mostra(f)' = {op[o].pasta} /\ op[o].fase = "ok"
      BY <1>6, <2>3 DEF ListaEncerra
    <3>2. p = op[o].pasta /\ (Vivo(f) \/ Condenada(op[o].pasta))
      BY <1>0, <2>0, <2>3, <3>1 DEF Acordo, Promessas, Feita
    <3>3. arq[f].st # "livre"
      BY <2>3 DEF Acordo, Usados, Ids
    <3> QED BY <2>2, <3>1, <3>2, <3>3
  <2>4. CASE f \notin op[o].feitos /\ op[o].tipo \in Apagam /\ f \in op[o].itens
    <3>1. ~op[o].falhou
      BY <1>5, <2>4 DEF EmJogo, Alvos
    <3>2. op[o].fase = "ok"
      BY <1>0, <2>4, <3>1 DEF Acordo, Forma, FormaDe
    <3>3. ~Vivo(f) /\ (op[o].tipo = "exclui" => Mostra(f) = {})
      BY <1>0, <2>4, <3>1, <3>2 DEF Acordo, Promessas, Apagada
    <3>4. Mostra(f)' = {}
      BY <1>6, <2>4, <3>2, <3>3 DEF ListaEncerra, Mostra, Apagam
    <3> QED BY <3>3, <3>4
  <2>5. CASE f \notin op[o].feitos /\ ~(op[o].tipo \in Apagam /\ f \in op[o].itens)
    <3>1. Certo(f)
      <4>1. ~Aberto(f)
        BY <2>1, <2>5 DEF Aberto
      <4> QED BY <1>0, <4>1 DEF Acordo, Certos
    <3>2. /\ \A q \in Mostra(f) : q = p
          /\ Vivo(f) /\ Mostra(f) = {} => pastas[p] # "viva"
      BY <2>0, <3>1 DEF Certo
    <3>3. ~Vivo(f) /\ Mostra(f) # {} => Condenada(p)
      <4>1. Condenada(arq[f].pasta) => Condenada(p)
        BY <2>0
      <4> QED BY <3>1, <4>1 DEF Certo
    <3>4. Mostra(f)' = Mostra(f) \ Tira(o)
      BY <1>6, <2>5
    <3>5. ASSUME Vivo(f), Mostra(f)' = {}, Mostra(f) # {} PROVE pastas[p] # "viva"
      <4>1. p \in Tira(o)
        BY <3>2, <3>4, <3>5
      <4>2. op[o].tipo = "excluiPasta" /\ op[o].fase = "ok" /\ op[o].pasta = p
        BY <4>1 DEF Tira
      <4>3. ~op[o].falhou
        BY <1>0, <1>7, <2>0, <3>5, <4>2 DEF Incertos, FilhosDe
      <4> QED BY <4>2, <4>3 DEF Acordo, DePastas, DePasta
    <3>6. ASSUME ~Vivo(f), Mostra(f)' # {} PROVE Condenada(p)'
      <4>1. Mostra(f) # {}
        BY <3>4, <3>6
      <4>2. arq[f].st # "livre"
        BY <4>1 DEF Acordo, Usados, Mostra, Visivel
      <4> QED BY <2>2, <3>3, <3>6, <4>1, <4>2
    <3> QED BY <3>2, <3>4, <3>5, <3>6
  <2> QED BY <2>3, <2>4, <2>5
<1>16. ASSUME NEW x \in Op \ {o} PROVE Feita(x)' /\ AMover(x)' /\ Apagada(x)'
  <2>0. op'[x] = op[x] /\ Feita(x) /\ AMover(x) /\ Apagada(x)
    BY <1>1 DEF Acordo, Promessas
  <2>1. \A f \in Ids(op[x]) \ desculpa' : f \notin op[o].feitos
    BY <1>0 DEF Ids, EmJogo, Alvos, Acordo, Disputa
  <2>2. \A f \in (op[x].feitos \cup op[x].itens) \ desculpa' : Mostra(f)' \subseteq Mostra(f)
    BY <1>0, <1>6, <2>1 DEF Ids
  <2>3. Feita(x)'
    <3>0. PICK p : p = op[x].pasta
      OBVIOUS
    <3> SUFFICES ASSUME op[x].fase # "erro", NEW f \in op[x].feitos \ desculpa'
                 PROVE  /\ arq[f].pasta = p /\ (Vivo(f) \/ Condenada(p)')
                        /\ \A q \in Mostra(f)' : q = p \/ (op[x].tipo \in Movem /\ q = op[x].origem)
      <4>1. p = op'[x].pasta
        BY <2>0, <3>0
      <4>2. Condenada(p)' => Condenada(op[x].pasta)'
        BY <4>1 DEF Condenada
      <4> QED BY <1>0, <1>4, <2>0, <3>0, <4>1, <4>2 DEF Feita
    <3>1. /\ arq[f].pasta = p /\ (Vivo(f) \/ Condenada(op[x].pasta))
          /\ \A q \in Mostra(f) : q = p \/ (op[x].tipo \in Movem /\ q = op[x].origem)
      BY <1>0, <2>0, <3>0 DEF Feita
    <3>2. Condenada(op[x].pasta) => Condenada(p)
      BY <3>0
    <3>3. arq[f].st # "livre" /\ f \in Arquivo
      BY <1>0 DEF Acordo, Usados, Ids
    <3>4. Condenada(p) => Condenada(p)'
      BY <3>1, <3>3, CondenadaEncerra
    <3> QED BY <2>2, <3>1, <3>2, <3>4
  <2>4. AMover(x)'
    BY <1>0, <2>0 DEF AMover
  <2>5. Apagada(x)'
    <3> SUFFICES ASSUME op[x].tipo \in Apagam, NEW f \in op[x].itens \ desculpa'
                 PROVE  /\ (op[x].fase = "ok" /\ ~op[x].falhou) => ~Vivo(f)'
                        /\ op[x].tipo = "exclui" => Mostra(f)' = {}
                        /\ op[x].tipo = "excluiVarios" =>
                             \A y \in objetos' : x \in y.presos => f \notin y.arquivos
      BY <2>0 DEF Apagada
    <3>1. /\ (op[x].fase = "ok" /\ ~op[x].falhou) => ~Vivo(f)
          /\ op[x].tipo = "exclui" => Mostra(f) = {}
          /\ op[x].tipo = "excluiVarios" => \A y \in objetos : x \in y.presos => f \notin y.arquivos
      BY <1>0, <2>0 DEF Apagada
    <3>2. \A y \in objetos' : x \in y.presos =>
            \E z \in objetos : x \in z.presos /\ y.arquivos \subseteq z.arquivos \cup op[o].feitos
      BY DEF ListaEncerra, Segura
    <3>3. f \notin op[o].feitos /\ Mostra(f)' \subseteq Mostra(f)
      BY <2>1, <2>2 DEF Ids
    <3> QED BY <1>0, <1>4, <3>1, <3>2, <3>3
  <2> QED BY <2>3, <2>4, <2>5
<1>17. Feita(o)' /\ AMover(o)' /\ Apagada(o)'
  BY <1>1, <1>2 DEF Feita, AMover, Apagada
<1> QED BY <1>8, <1>9, <1>10, <1>11, <1>12, <1>13, <1>14, <1>15, <1>16, <1>17 DEF Acordo, Promessas

LEMMA SemListaFaz ==
  ASSUME TypeOK, TypeOK', Acordo, NEW o \in Op, RespondeSemLista(o)
  PROVE  Acordo'
<1>0. FormaDe(op[o]) /\ Boa(objetos) /\ objetos \in SUBSET Objetos
  BY DEF Acordo, Forma, Presas, TypeOK, TipoTela
<1>1. Encerra(o)
  BY DEF Encerra, RespondeSemLista
<1>2. Largada(objetos, objetos', o)
  BY <1>0, AoLargar DEF RespondeSemLista
<1>3. Tira(o) = {} /\ Poe(o) = {}
  BY DEF RespondeSemLista, Tira, Poe, Item
<1>4. \A f \in op[o].feitos : f \in desculpa'
  <2> SUFFICES ASSUME NEW f \in op[o].feitos PROVE f \in desculpa'
    OBVIOUS
  <2>1. op[o].tipo # "exclui"
    BY <1>0 DEF FormaDe, Escrevem, Item
  <2>2. op[o].fase = "erro"
    BY <2>1 DEF RespondeSemLista
  <2>3. op[o].falhou
    BY <1>0, <2>2 DEF FormaDe
  <2> QED BY <1>1, <2>3 DEF Encerra, Incertos
<1>5. ~(op[o].tipo = "excluiVarios" /\ op[o].fase = "ok")
  BY DEF RespondeSemLista, Item
<1>6. ASSUME NEW u \in Op \ {o} PROVE Segura(objetos, objetos', u, op[o].feitos)
  <2>1. Segura(objetos, objetos', u, {})
    BY <1>2 DEF Largada
  <2> QED BY <2>1 DEF Segura
<1>7. /\ Boa(objetos') /\ \A x \in objetos' : o \notin x.presos
      /\ \A x \in objetos' : \E y \in objetos : x.pasta = y.pasta /\ x.arquivos = y.arquivos
      /\ Pastas(objetos') = Mostradas /\ \A f : Visivel(objetos', f) = Mostra(f)
  BY <1>2 DEF Largada, Mostradas, Mostra
<1>8. ListaEncerra(o)
  BY <1>3, <1>4, <1>5, <1>6, <1>7 DEF ListaEncerra
<1> QED BY <1>1, <1>8, EncerraFaz

\* What an answer does to a list.
LEMMA FeitoDe ==
  ASSUME NEW l, NEW r \in Pedidos, r.pasta # r.origem \/ r.tipo \notin Movem, NEW f
  PROVE  /\ \A q : q \in DOMAIN Feito(l, r) <=>
                     \/ q \in DOMAIN l /\ ~(r.tipo = "excluiPasta" /\ q = r.pasta)
                     \/ r.tipo = "criaPasta" /\ q = r.pasta
         /\ f \notin r.feitos =>
              \A q : q \in Onde(Feito(l, r), f) <=>
                       q \in Onde(l, f) /\ ~(r.tipo = "excluiPasta" /\ q = r.pasta)
         /\ f \in r.feitos /\ r.tipo \in Escrevem =>
              /\ \A q \in Onde(Feito(l, r), f) : q = r.pasta \/ q \in Onde(l, f)
              /\ r.pasta \in DOMAIN l /\ (r.tipo \in Movem => r.origem \in DOMAIN l) =>
                   r.pasta \in Onde(Feito(l, r), f)
              /\ r.pasta \in DOMAIN l /\ r.tipo \in Movem => r.origem \notin Onde(Feito(l, r), f)
<1>1. r.tipo \in Tipo
  BY DEF Pedidos
<1>2. CASE r.tipo = "move"
  <2>1. Feito(l, r) = Movido(l, r)
    BY <1>2 DEF Feito
  <2>2. CASE {r.pasta, r.origem} \subseteq DOMAIN l
    <3>1. /\ DOMAIN Movido(l, r) = DOMAIN l
          /\ Movido(l, r)[r.pasta] = l[r.pasta] \cup r.feitos
          /\ Movido(l, r)[r.origem] = l[r.origem] \ r.feitos
          /\ \A q \in DOMAIN l \ {r.pasta, r.origem} : Movido(l, r)[q] = l[q]
      BY <1>2, <2>2 DEF Movido, Movem
    <3> QED BY <1>2, <2>1, <2>2, <3>1 DEF Onde, Movem
  <2>3. CASE ~({r.pasta, r.origem} \subseteq DOMAIN l)
    <3>1. Feito(l, r) = l
      BY <2>1, <2>3 DEF Movido
    <3> QED BY <1>2, <2>3, <3>1 DEF Onde, Movem
  <2> QED BY <2>2, <2>3
<1>3. CASE r.tipo = "moveVarios"
  <2>1. Feito(l, r) = MovidosVarios(l, r)
    BY <1>3 DEF Feito
  <2>2. /\ DOMAIN MovidosVarios(l, r) = DOMAIN l
        /\ \A q \in DOMAIN l : MovidosVarios(l, r)[q] =
             IF q = r.pasta THEN l[q] \cup r.feitos
             ELSE IF q = r.origem THEN l[q] \ r.feitos ELSE l[q]
    BY <1>3 DEF MovidosVarios, Movem
  <2> QED BY <1>3, <2>1, <2>2 DEF Onde, Movem
<1>4. CASE r.tipo \in {"copia", "envia"}
  <2>1. Feito(l, r) = Acrescenta(l, r.pasta, r.feitos)
    BY <1>4 DEF Feito
  <2>2. /\ DOMAIN Feito(l, r) = DOMAIN l
        /\ \A q \in DOMAIN l : Feito(l, r)[q] = IF q = r.pasta THEN l[q] \cup r.feitos ELSE l[q]
    BY <2>1 DEF Acrescenta
  <2> QED BY <1>4, <2>2 DEF Onde, Movem
<1>5. CASE r.tipo = "criaPasta"
  <2>1. Feito(l, r) = ComPasta(l, r.pasta)
    BY <1>5 DEF Feito
  <2>2. /\ DOMAIN Feito(l, r) = DOMAIN l \cup {r.pasta}
        /\ \A q \in DOMAIN Feito(l, r) : Feito(l, r)[q] = IF q \in DOMAIN l THEN l[q] ELSE {}
    BY <2>1 DEF ComPasta
  <2> QED BY <1>5, <2>2 DEF Onde, Movem, Escrevem, Item
<1>6. CASE r.tipo = "excluiPasta"
  <2>1. Feito(l, r) = SemPasta(l, r.pasta)
    BY <1>6 DEF Feito
  <2>2. /\ DOMAIN Feito(l, r) = DOMAIN l \ {r.pasta}
        /\ \A q \in DOMAIN Feito(l, r) : Feito(l, r)[q] = l[q]
    BY <2>1 DEF SemPasta, Restrict
  <2> QED BY <1>6, <2>2 DEF Onde, Movem, Escrevem, Item
<1>7. CASE r.tipo \in {"renomeia", "renomeiaPasta", "exclui", "excluiVarios"}
  <2>1. Feito(l, r) = l
    BY <1>7 DEF Feito
  <2> QED BY <1>7, <2>1 DEF Movem, Escrevem, Item
<1> QED BY <1>1, <1>2, <1>3, <1>4, <1>5, <1>6, <1>7 DEF Tipo, Item

\* What o holds, changed at once or not, before the list is written.
NaHora(os, o) ==
  /\ os \in SUBSET Objetos /\ Boa(os)
  /\ \A u \in Op : Segura(objetos, os, u, op[o].feitos)
  /\ \A x \in os : \E y \in objetos :
       x.pasta = y.pasta /\ x.arquivos \subseteq y.arquivos \cup op[o].feitos

LEMMA NaHoraFaz ==
  ASSUME TypeOK, Acordo, NEW o \in Op, NEW nova, nova = Feito(Captura(o), op[o]), NEW b \in BOOLEAN,
         b => op[o].pasta \in DOMAIN nova,
         NEW os, os = IF b THEN NoLugar(objetos, o, op[o].pasta, nova[op[o].pasta]) ELSE objetos
  PROVE  NaHora(os, o)
<1>0. /\ objetos \in SUBSET Objetos /\ Boa(objetos) /\ op[o] \in Pedidos /\ EhLista(Captura(o))
      /\ op[o].pasta # op[o].origem \/ op[o].tipo \notin Movem
  BY ListaTipo DEF TypeOK, TipoTela, Acordo, Presas, Forma, FormaDe
<1>1. CASE ~b
  <2>1. os = objetos
    BY <1>1
  <2> QED BY <1>0, <2>1 DEF NaHora, Segura
<1>2. CASE b
  <2>1. PICK as : as = nova[op[o].pasta]
    OBVIOUS
  <2>2. PICK p : p = op[o].pasta
    OBVIOUS
  <2>3. PICK fs : fs = op[o].feitos
    OBVIOUS
  <2>4. os = NoLugar(objetos, o, p, as) /\ p \in DOMAIN nova
    BY <1>2, <2>1, <2>2
  <2>5. as \in SUBSET Arquivo
    BY <1>0, <2>1, <2>2, <2>4, FeitoTipo DEF EhLista
  <2>6. ASSUME NEW x \in objetos, o \in x.presos, x.pasta = p, NEW f \in as, f \notin fs
        PROVE  f \in x.arquivos
    <3>1. p \in Onde(nova, f)
      BY <2>1, <2>2, <2>4, <2>6 DEF Onde
    <3>2. p \in Onde(Captura(o), f)
      BY <1>0, <2>3, <2>6, <3>1, FeitoDe
    <3>3. Onde(Captura(o), f) = {y.pasta : y \in {z \in objetos : o \in z.presos /\ f \in z.arquivos}}
      BY <1>0, OndeCaptura
    <3>4. PICK y \in objetos : o \in y.presos /\ f \in y.arquivos /\ y.pasta = p
      BY <3>2, <3>3
    <3> QED BY <1>0, <2>6, <3>4 DEF Boa
  <2>7. \A x \in objetos : o \in x.presos /\ x.pasta = p => as \subseteq x.arquivos \cup fs
    BY <2>6
  <2>8. Trocada(objetos, os, o, p, as, fs)
    BY <1>0, <2>4, <2>5, <2>7, AoTrocar
  <2>9. os \in SUBSET Objetos
    BY <1>0, <2>4, <2>5, ObjetosTipo
  <2>10. ASSUME NEW x \in os
         PROVE  \E y \in objetos : x.pasta = y.pasta /\ x.arquivos \subseteq y.arquivos \cup fs
    <3>1. PICK y \in objetos :
            /\ x.pasta = y.pasta
            /\ x.arquivos = IF o \in y.presos /\ y.pasta = p THEN as ELSE y.arquivos
      BY <2>8 DEF Trocada
    <3> QED BY <2>7, <3>1
  <2> QED BY <2>3, <2>8, <2>9, <2>10 DEF NaHora, Trocada
<1> QED BY <1>1, <1>2

LEMMA RespondeFaz ==
  ASSUME TypeOK, TypeOK', Acordo, NEW o \in Op, NEW cs, Responde(o, cs)
  PROVE  Acordo'
<1>0. /\ objetos \in SUBSET Objetos /\ Boa(objetos) /\ op[o] \in Pedidos
      /\ EhLista(Captura(o)) /\ EhLista(Lista) /\ FormaDe(op[o])
      /\ op[o].pasta # op[o].origem \/ op[o].tipo \notin Movem
      /\ op[o].feitos \subseteq Arquivo /\ op[o].itens \subseteq Arquivo /\ op[o].pasta \in Pasta
  BY ListaTipo DEF TypeOK, TipoTela, Acordo, Presas, Forma, FormaDe, Pedidos
<1>1. PICK nova : nova = Feito(Captura(o), op[o])
  OBVIOUS
<1>2. PICK dela : dela = Feito(Lista, op[o])
  OBVIOUS
<1>3. PICK b \in BOOLEAN :
        b <=> (op[o].tipo \in {"copia", "envia", "moveVarios"} /\ op[o].pasta \in DOMAIN nova)
  OBVIOUS
<1>4. PICK os : os = IF b THEN NoLugar(objetos, o, op[o].pasta, nova[op[o].pasta]) ELSE objetos
  OBVIOUS
<1>5. PICK ws : ws = Escreve(os, nova, cs)
  OBVIOUS
<1>6. PICK ls : ls = Larga(ws, o)
  OBVIOUS
<1>7. /\ op[o].fase = "ok" /\ op[o].tipo # "exclui" /\ objetos' = ls
      /\ desculpa' = desculpa \cup Incertos(op[o]) \cup Difere(nova, dela)
      /\ op' = [op EXCEPT ![o] = OpLivre] /\ UNCHANGED <<vServidor, listagem>>
  BY <1>1, <1>2, <1>3, <1>4, <1>5, <1>6 DEF Responde
<1>8. Encerra(o)
  BY <1>7 DEF Encerra
<1>9. NaHora(os, o)
  BY <1>1, <1>3, <1>4, NaHoraFaz
<1>10. EhLista(nova)
  BY <1>0, <1>1, FeitoTipo
<1>11. Reescrita(os, ws, nova)
  BY <1>5, <1>9, <1>10, AoEscrever DEF NaHora
<1>12. Largada(ws, ls, o)
  <2>1. ws \in SUBSET Objetos
    BY <1>5, <1>9, <1>10, EscreveTipo DEF NaHora
  <2>2. Boa(ws)
    BY <1>11 DEF Reescrita
  <2> QED BY <1>6, <2>1, <2>2, AoLargar
\* The list is now what o made of what it holds.
<1>13. /\ Boa(ls) /\ Pastas(ls) = DOMAIN nova /\ \A f : Visivel(ls, f) = Onde(nova, f)
       /\ \A x \in ls : o \notin x.presos
  BY <1>11, <1>12 DEF Reescrita, Largada
<1>14. ASSUME NEW u \in Op \ {o} PROVE Segura(objetos, ls, u, op[o].feitos)
  <2>1. Segura(objetos, os, u, op[o].feitos) /\ Segura(os, ws, u, {}) /\ Segura(ws, ls, u, {})
    BY <1>9, <1>11, <1>12 DEF NaHora, Reescrita, Largada
  <2>2. Segura(objetos, ws, u, op[o].feitos)
    BY <2>1, SeguraSegue
  <2> QED BY <2>1, <2>2, SeguraSegue
\* What it holds comes from what there is.
<1>15. /\ DOMAIN Captura(o) = {x.pasta : x \in {y \in objetos : o \in y.presos}}
       /\ \A f : Onde(Captura(o), f) =
                   {x.pasta : x \in {y \in objetos : o \in y.presos /\ f \in y.arquivos}}
  BY <1>0, OndeCaptura
<1>16. \A p \in DOMAIN nova : p \in Poe(o) \/ p \in DOMAIN Captura(o)
  BY <1>0, <1>1, <1>7, FeitoDe DEF Poe
<1>17. \A f, p : p \in Onde(nova, f) => f \in op[o].feitos \/ p \in Onde(Captura(o), f)
  BY <1>0, <1>1, FeitoDe
<1>18. ASSUME NEW x \in ls
       PROVE  /\ \A f \in x.arquivos : f \in op[o].feitos \/ \E y \in objetos : f \in y.arquivos
              /\ x.pasta \in Poe(o) \/ \E y \in objetos : y.pasta = x.pasta
  <2>1. PICK y \in ws : x.pasta = y.pasta /\ x.arquivos = y.arquivos
    BY <1>12 DEF Largada
  <2>2. CASE \E z \in os : y.pasta = z.pasta /\ y.arquivos = z.arquivos
    BY <1>9, <2>1, <2>2 DEF NaHora
  <2>3. CASE y.pasta \in DOMAIN nova /\ y.arquivos = nova[y.pasta]
    <3>1. \A f \in x.arquivos : f \in op[o].feitos \/ x.pasta \in Onde(Captura(o), f)
      BY <1>17, <2>1, <2>3 DEF Onde
    <3>2. x.pasta \in Poe(o) \/ x.pasta \in DOMAIN Captura(o)
      BY <1>16, <2>1, <2>3
    <3> QED BY <1>15, <3>1, <3>2
  <2> QED BY <1>11, <2>2, <2>3 DEF Reescrita
\* What it was right about is as if it had worked on the list.
<1>19. /\ DOMAIN Lista = Mostradas /\ \A f : Onde(Lista, f) = Mostra(f)
  BY <1>0, ListaMostra
<1>20. \A x \in (Pasta \cup Arquivo) \ desculpa' :
         (x \in DOMAIN nova <=> x \in DOMAIN dela) /\ Onde(nova, x) = Onde(dela, x)
  BY <1>7 DEF Difere, Onde
<1>21. ASSUME NEW p \in Pasta \ desculpa'
       PROVE  p \in Pastas(ls) <=> (p \in Mostradas /\ p \notin Tira(o)) \/ p \in Poe(o)
  <2>1. p \in DOMAIN dela <=>
          \/ p \in DOMAIN Lista /\ ~(op[o].tipo = "excluiPasta" /\ p = op[o].pasta)
          \/ op[o].tipo = "criaPasta" /\ p = op[o].pasta
    BY <1>0, <1>2, FeitoDe
  <2> QED BY <1>7, <1>13, <1>19, <1>20, <2>1 DEF Tira, Poe
<1>22. ASSUME NEW f \in Arquivo \ desculpa', f \notin op[o].feitos
       PROVE  Visivel(ls, f) = Mostra(f) \ Tira(o)
  <2>1. \A p : p \in Onde(dela, f) <=>
                 p \in Onde(Lista, f) /\ ~(op[o].tipo = "excluiPasta" /\ p = op[o].pasta)
    BY <1>0, <1>2, <1>22, FeitoDe
  <2>2. Visivel(ls, f) = Onde(dela, f)
    BY <1>13, <1>20
  <2>3. \A p : p \in Visivel(ls, f) <=> p \in Mostra(f) \ Tira(o)
    BY <1>7, <1>19, <2>1, <2>2 DEF Tira
  <2> QED BY <2>3 DEF Visivel
<1>23. ASSUME NEW f \in Arquivo \ desculpa', f \in op[o].feitos
       PROVE  Visivel(ls, f) = {op[o].pasta}
  <2>1. op[o].tipo \in Escrevem
    BY <1>0, <1>23 DEF FormaDe
  <2>2. Retem(o, op[o].pasta) /\ (op[o].tipo \in Movem => Retem(o, op[o].origem))
    BY <1>7, <2>1 DEF Acordo, Presas
  <2>3. op[o].pasta \in DOMAIN Captura(o) /\ (op[o].tipo \in Movem => op[o].origem \in DOMAIN Captura(o))
    BY <1>15, <2>2 DEF Retem
  <2>4. op[o].pasta \in Onde(nova, f)
    BY <1>0, <1>1, <1>23, <2>1, <2>3, FeitoDe
  <2>5. op[o].pasta \in Onde(dela, f)
    BY <1>20, <2>4
  <2>6. op[o].pasta \in DOMAIN Lista
    <3>1. op[o].pasta \in DOMAIN dela /\ op[o].tipo # "criaPasta"
      BY <2>1, <2>5 DEF Onde, Escrevem, Item
    <3> QED BY <1>0, <1>2, <3>1, FeitoDe
  <2>7. /\ \A q \in Onde(dela, f) : q = op[o].pasta \/ q \in Onde(Lista, f)
        /\ op[o].tipo \in Movem => op[o].origem \notin Onde(dela, f)
    BY <1>0, <1>2, <1>23, <2>1, <2>6, FeitoDe
  <2>8. \A q \in Mostra(f) : q = op[o].pasta \/ (op[o].tipo \in Movem /\ q = op[o].origem)
    BY <1>7, <1>8, <1>23 DEF Acordo, Promessas, Feita
  <2>9. \A q : q \in Onde(dela, f) <=> q = op[o].pasta
    BY <1>19, <2>5, <2>7, <2>8
  <2>10. Visivel(ls, f) = Onde(dela, f)
    BY <1>13, <1>20
  <2> QED BY <2>9, <2>10 DEF Visivel
<1>24. ASSUME NEW f \in Arquivo \ desculpa', op[o].tipo = "excluiVarios", f \in op[o].itens
       PROVE  Visivel(ls, f) = {}
  <2>1. \A x \in objetos : o \in x.presos => f \notin x.arquivos
    BY <1>7, <1>24 DEF Acordo, Promessas, Apagada, Apagam
  <2>2. f \notin op[o].feitos
    BY <1>0, <1>24 DEF FormaDe, Escrevem, Item
  <2>3. Onde(nova, f) = {}
    BY <1>15, <1>17, <2>1, <2>2
  <2> QED BY <1>13, <2>3
<1>25. ListaEncerra(o)
  BY <1>7, <1>13, <1>14, <1>18, <1>21, <1>22, <1>23, <1>24 DEF ListaEncerra
<1> QED BY <1>8, <1>25, EncerraFaz

-----------------------------------------------------------------------------
(* The listing.                                                            *)

LEMMA OndeServidor ==
  /\ DOMAIN NoServidor = {p \in Pasta : pastas[p] = "viva"}
  /\ \A f, p : p \in Onde(NoServidor, f) <=>
                 p \in Pasta /\ pastas[p] = "viva" /\ f \in Arquivo /\ Vivo(f) /\ arq[f].pasta = p
<1>1. /\ DOMAIN NoServidor = {p \in Pasta : pastas[p] = "viva"}
      /\ \A p \in DOMAIN NoServidor : NoServidor[p] = {f \in {g \in Arquivo : Vivo(g)} : arq[f].pasta = p}
  BY DEF NoServidor, Guardada
<1> QED BY <1>1 DEF Onde


\* A step of which only the listing may know.
LEMMA ParadaFaz ==
  ASSUME TypeOK, Acordo, UNCHANGED <<arq, pastas, objetos, op, desculpa>>,
         \A f \in Arquivo : arq[f].st = "livre" => Onde(listagem'.lista, f) = {},
         \A p \in Pasta : pastas[p] = "livre" =>
           p \notin listagem'.pastas /\ p \notin DOMAIN listagem'.lista
  PROVE  Acordo'
<1>0. arq' = arq /\ pastas' = pastas /\ objetos' = objetos /\ op' = op /\ desculpa' = desculpa
  OBVIOUS
<1>1. \A f \in Arquivo : Vivo(f)' <=> Vivo(f)
  BY <1>0 DEF Vivo
<1>2. Forma' /\ Presas' /\ DePastas' /\ Disputa'
  BY <1>0 DEF Acordo, Forma, FormaDe, Presas, Retem, DePastas, DePasta, Disputa
<1>3. \A f : Mostra(f)' = Mostra(f)
  BY <1>0 DEF Mostra
<1>4. Mostradas' = Mostradas
  BY <1>0 DEF Mostradas
<1>5. Lados'
  <2>1. \A t, p : Respondera(t, p)' <=> Respondera(t, p)
    BY <1>0 DEF Respondera
  <2> QED BY <1>0, <1>4, <2>1 DEF Acordo, Lados
<1>6. \A p : Condenada(p)' <=> Condenada(p)
  BY <1>0 DEF Condenada
<1>7. ASSUME NEW f \in Arquivo, Certo(f) PROVE Certo(f)'
  <2>1. PICK p : p = arq[f].pasta
    OBVIOUS
  <2>2. Condenada(arq[f].pasta) <=> Condenada(p)
    BY <2>1
  <2>3. p = arq'[f].pasta
    BY <1>0, <2>1
  <2>4. Condenada(p)' => Condenada(arq[f].pasta)'
    BY <2>3 DEF Condenada
  <2> QED BY <1>0, <1>1, <1>3, <1>6, <1>7, <2>1, <2>2, <2>3, <2>4 DEF Certo
<1>8. Certos'
  BY <1>0, <1>7 DEF Acordo, Certos, Aberto
<1>9. ASSUME NEW o \in Op PROVE Feita(o)' /\ AMover(o)' /\ Apagada(o)'
  <2>0. /\ op[o].feitos \subseteq Arquivo /\ op[o].itens \subseteq Arquivo
        /\ Feita(o) /\ AMover(o) /\ Apagada(o)
    BY DEF TypeOK, Pedidos, Acordo, Promessas
  <2>1. Feita(o)'
    <3>1. PICK p : p = op[o].pasta
      OBVIOUS
    <3>2. Condenada(op[o].pasta) <=> Condenada(p)
      BY <3>1
    <3>3. p = op'[o].pasta
      BY <1>0, <3>1
    <3>4. Condenada(p)' => Condenada(op[o].pasta)'
      BY <3>3 DEF Condenada
    <3> QED BY <1>0, <1>1, <1>3, <1>6, <2>0, <3>1, <3>2, <3>3, <3>4 DEF Feita
  <2>2. AMover(o)'
    BY <1>0, <2>0 DEF AMover
  <2>3. Apagada(o)'
    BY <1>0, <1>1, <1>3, <2>0 DEF Apagada
  <2> QED BY <2>1, <2>2, <2>3
<1>10. Usados' /\ Novas'
  BY <1>0 DEF Acordo, Usados, Novas, Ids
<1> QED BY <1>2, <1>5, <1>8, <1>9, <1>10 DEF Acordo, Promessas

\* The listing on its way.
LEMMA ListagemFaz ==
  ASSUME TypeOK, Acordo, PedeLista \/ LePastas \/ LeArquivos
  PROVE  Acordo'
<1>1. ASSUME NEW f \in Arquivo, arq[f].st = "livre" PROVE Onde(listagem'.lista, f) = {}
  <2>0. ~Vivo(f) /\ Onde(listagem.lista, f) = {}
    BY <1>1 DEF Vivo, Acordo, Usados
  <2>1. CASE PedeLista \/ LePastas
    <3>1. listagem'.lista = <<>>
      BY <2>1 DEF PedeLista, LePastas
    <3> QED BY <3>1 DEF Onde
  <2>2. CASE LeArquivos
    <3>1. listagem'.lista = Guardada(listagem.pastas, {g \in Arquivo : Vivo(g)})
      BY <2>2 DEF LeArquivos
    <3> QED BY <2>0, <3>1 DEF Guardada, Onde
  <2> QED BY <2>1, <2>2
<1>2. ASSUME NEW p \in Pasta, pastas[p] = "livre"
       PROVE  p \notin listagem'.pastas /\ p \notin DOMAIN listagem'.lista
  <2>0. p \notin listagem.pastas
    BY <1>2 DEF Acordo, Novas
  <2>1. CASE PedeLista
    <3>1. listagem'.pastas = {} /\ listagem'.lista = <<>>
      BY <2>1 DEF PedeLista
    <3> QED BY <3>1
  <2>2. CASE LePastas
    <3>1. listagem'.pastas = DOMAIN NoServidor /\ listagem'.lista = <<>>
      BY <2>2 DEF LePastas
    <3> QED BY <1>2, <3>1, OndeServidor
  <2>3. CASE LeArquivos
    <3>1. /\ listagem'.pastas = {}
          /\ listagem'.lista = Guardada(listagem.pastas, {g \in Arquivo : Vivo(g)})
      BY <2>3 DEF LeArquivos
    <3> QED BY <2>0, <3>1 DEF Guardada
  <2> QED BY <2>1, <2>2, <2>3
<1>3. UNCHANGED <<arq, pastas, objetos, op, desculpa>>
  BY DEF PedeLista, LePastas, LeArquivos, vServidor
<1> QED BY <1>1, <1>2, <1>3, ParadaFaz

LEMMA ChegaFaz ==
  ASSUME TypeOK, TypeOK', Acordo, NEW cs, ChegaLista(cs)
  PROVE  Acordo'
<1>0. /\ arq' = arq /\ pastas' = pastas /\ op' = op
      /\ listagem' = [fase |-> "parada", pastas |-> {}, lista |-> <<>>]
      /\ \A f \in Arquivo : arq[f].pasta \in Pasta
      /\ \A o \in Op : op[o].itens \subseteq Arquivo /\ op[o].feitos \subseteq Arquivo
  BY DEF ChegaLista, vServidor, TypeOK, TipoServidor, Registros, Pedidos
<1>1. PICK nova : nova = listagem.lista
  OBVIOUS
<1>2. Reescrita(objetos, objetos', nova)
  <2>1. objetos \in SUBSET Objetos /\ Boa(objetos) /\ EhLista(nova)
    BY <1>1 DEF TypeOK, TipoTela, Acordo, Presas
  <2>2. objetos' = Escreve(objetos, nova, cs)
    BY <1>1 DEF ChegaLista
  <2> QED BY <2>1, <2>2, AoEscrever
<1>3. /\ Boa(objetos') /\ Mostradas' = DOMAIN nova /\ \A f : Mostra(f)' = Onde(nova, f)
      /\ \A u \in Op : Segura(objetos, objetos', u, {})
      /\ \A x \in objetos' :
           \/ \E y \in objetos : x.pasta = y.pasta /\ x.arquivos = y.arquivos
           \/ x.pasta \in DOMAIN nova /\ x.arquivos = nova[x.pasta]
  BY <1>2 DEF Reescrita, Mostradas, Mostra
\* Outside what is excused the list is that of the store.
<1>4. \A x \in (Pasta \cup Arquivo) \ desculpa' :
        (x \in DOMAIN nova <=> x \in DOMAIN NoServidor) /\ Onde(nova, x) = Onde(NoServidor, x)
  BY <1>1 DEF ChegaLista, Difere, Onde
\* What was excused of a request in flight still is.
<1>5. ASSUME NEW o \in Op, NEW f \in EmJogo(op[o])
      PROVE  o \in EmCurso /\ (f \in desculpa => f \in desculpa')
  <2>1. o \in EmCurso
    BY DEF Acordo, Forma, FormaDe, EmCurso, EmJogo, Alvos, Ids
  <2> QED BY <2>1 DEF ChegaLista, EmJogo
<1>6. \A o \in Op : \A f \in Ids(op[o]) : f \in EmJogo(op[o])
  BY DEF Ids, EmJogo, Alvos
<1>7. \A f \in Arquivo : Vivo(f)' <=> Vivo(f)
  BY <1>0 DEF Vivo
<1>8. \A p : Condenada(p)' <=> Condenada(p)
  BY <1>0 DEF Condenada
<1>9. Forma'
  BY <1>0 DEF Acordo, Forma, FormaDe
<1>10. Presas'
  <2>1. ASSUME NEW x \in objetos', NEW u \in x.presos PROVE op'[u].fase # "livre"
    <3>1. u \in Op
      BY <2>1 DEF TypeOK, TipoTela, Objetos
    <3>2. PICK y \in objetos : u \in y.presos
      BY <1>3, <2>1, <3>1 DEF Segura
    <3> QED BY <1>0, <3>2 DEF Acordo, Presas
  <2>2. ASSUME NEW u \in Op, NEW p, \E x \in objetos : u \in x.presos /\ x.pasta = p
        PROVE  \E x \in objetos' : u \in x.presos /\ x.pasta = p
    BY <1>3, <2>2 DEF Segura
  <2>3. \A u \in Op : (op[u].tipo \in Escrevem /\ op[u].fase # "livre") =>
          /\ \E x \in objetos' : u \in x.presos /\ x.pasta = op[u].pasta
          /\ op[u].tipo \in Movem => \E x \in objetos' : u \in x.presos /\ x.pasta = op[u].origem
    BY <2>2 DEF Acordo, Presas, Retem
  <2> QED BY <1>0, <1>3, <2>1, <2>3 DEF Presas, Retem
<1>11. Usados'
  <2> SUFFICES ASSUME NEW f \in Arquivo, arq[f].st = "livre"
               PROVE  /\ \A x \in objetos' : f \notin x.arquivos
                      /\ \A x \in Op : f \notin Ids(op[x])
                      /\ Onde(listagem'.lista, f) = {}
    BY <1>0 DEF Usados, Ids
  <2>1. /\ \A x \in objetos : f \notin x.arquivos
        /\ \A x \in Op : f \notin Ids(op[x])
        /\ Onde(nova, f) = {}
    BY <1>1 DEF Acordo, Usados
  <2>2. Onde(listagem'.lista, f) = {}
    BY <1>0 DEF Onde
  <2>3. \A p \in DOMAIN nova : f \notin nova[p]
    BY <2>1 DEF Onde
  <2> QED BY <1>3, <2>1, <2>2, <2>3
<1>12. Novas'
  <2> SUFFICES ASSUME NEW p \in Pasta, pastas[p] = "livre"
               PROVE  \A x \in objetos' : x.pasta # p
    BY <1>0 DEF Acordo, Novas
  <2>1. (\A x \in objetos : x.pasta # p) /\ p \notin DOMAIN nova
    BY <1>1 DEF Acordo, Novas
  <2> QED BY <1>3, <2>1
<1>13. DePastas'
  <2> SUFFICES ASSUME NEW o \in Op PROVE DePasta(o)'
    BY DEF DePastas
  <2>1. DePasta(o)
    BY DEF Acordo, DePastas
  <2>2. op[o].tipo = "criaPasta" /\ op[o].pasta \in desculpa => op[o].pasta \in desculpa'
    BY <1>5 DEF EmJogo, Alvos
  <2> QED BY <1>0, <2>1, <2>2 DEF DePasta
<1>14. Disputa'
  <2>1. \A a, b \in Op : a # b => EmJogo(op[a]) \cap EmJogo(op[b]) \subseteq desculpa'
    BY <1>5 DEF Acordo, Disputa
  <2> QED BY <1>0, <2>1 DEF Disputa, EmJogo, Alvos
<1>15. Lados'
  <2>1. \A p \in Pasta \ desculpa' : p \in Mostradas' <=> pastas[p] = "viva"
    BY <1>3, <1>4, OndeServidor
  <2> QED BY <1>0, <2>1 DEF Lados
\* Where a file outside what is excused is shown.
<1>16. \A f \in Arquivo \ desculpa' : \A p : p \in Mostra(f)' <=>
         p \in Pasta /\ pastas[p] = "viva" /\ Vivo(f) /\ arq[f].pasta = p
  BY <1>3, <1>4, OndeServidor
<1>17. Certos'
  BY <1>0, <1>7, <1>16 DEF Certos, Certo
<1>18. ASSUME NEW o \in Op PROVE Feita(o)' /\ AMover(o)' /\ Apagada(o)'
  <2>0. Feita(o) /\ AMover(o) /\ Apagada(o)
    BY DEF Acordo, Promessas
  <2>1. \A f \in Ids(op[o]) \ desculpa' : f \notin desculpa /\ o \in EmCurso
    BY <1>5, <1>6
  <2>2. Feita(o)'
    <3>0. PICK p : p = op[o].pasta
      OBVIOUS
    <3> SUFFICES ASSUME op[o].fase # "erro", NEW f \in op[o].feitos \ desculpa'
                 PROVE  /\ arq[f].pasta = p /\ (Vivo(f) \/ Condenada(p)')
                        /\ \A q \in Mostra(f)' : q = p
      <4>1. p = op'[o].pasta
        BY <1>0, <3>0
      <4>2. Condenada(p)' => Condenada(op[o].pasta)'
        BY <4>1 DEF Condenada
      <4> QED BY <1>0, <1>7, <3>0, <4>1, <4>2 DEF Feita
    <3>1. f \notin desculpa
      BY <2>1 DEF Ids
    <3>2. arq[f].pasta = p /\ (Vivo(f) \/ Condenada(op[o].pasta))
      BY <2>0, <3>0, <3>1 DEF Feita
    <3>3. Condenada(op[o].pasta) => Condenada(p)
      BY <3>0
    <3> QED BY <1>0, <1>8, <1>16, <3>2, <3>3
  <2>3. AMover(o)'
    BY <1>0, <2>0, <2>1 DEF AMover, Ids
  <2>4. Apagada(o)'
    <3> SUFFICES ASSUME op[o].tipo \in Apagam, NEW f \in op[o].itens \ desculpa'
                 PROVE  /\ (op[o].fase = "ok" /\ ~op[o].falhou) => ~Vivo(f)'
                        /\ op[o].tipo = "exclui" => Mostra(f)' = {}
                        /\ op[o].tipo = "excluiVarios" =>
                             \A y \in objetos' : o \in y.presos => f \notin y.arquivos
      BY <1>0 DEF Apagada
    <3>1. f \notin desculpa /\ o \in EmCurso
      BY <2>1 DEF Ids
    <3>2. op[o].tipo # "exclui"
      BY <3>1 DEF ChegaLista
    <3>3. /\ (op[o].fase = "ok" /\ ~op[o].falhou) => ~Vivo(f)
          /\ op[o].tipo = "excluiVarios" => \A y \in objetos : o \in y.presos => f \notin y.arquivos
      BY <2>0, <3>1 DEF Apagada
    <3>4. \A y \in objetos' : o \in y.presos =>
            \E z \in objetos : o \in z.presos /\ y.arquivos \subseteq z.arquivos \cup {}
      BY <1>3 DEF Segura
    <3> QED BY <1>0, <1>7, <3>2, <3>3, <3>4
  <2> QED BY <2>2, <2>3, <2>4
<1> QED BY <1>9, <1>10, <1>11, <1>12, <1>13, <1>14, <1>15, <1>17, <1>18 DEF Acordo, Promessas

-----------------------------------------------------------------------------
(* The list is faithful.                                                   *)

LEMMA AcordoInicio == Init => Acordo
<1> SUFFICES ASSUME Init PROVE Acordo
  OBVIOUS
<1>0. TypeOK
  BY InicioTipo
<1>1. /\ \A o \in Op : op[o] = OpLivre
      /\ OpLivre.tipo = "envia" /\ OpLivre.fase = "livre" /\ OpLivre.pasta = Raiz
      /\ OpLivre.itens = {} /\ OpLivre.item = {} /\ OpLivre.feitos = {}
  BY DEF Init, OpLivre
<1>2. Ids(OpLivre) = {} /\ EmJogo(OpLivre) = {}
  BY <1>1 DEF Ids, EmJogo, Alvos
<1>3. pastas[Raiz] = "viva" /\ desculpa = {} /\ listagem.pastas = {} /\ listagem.lista = <<>>
  BY DEF Init
<1>4. \A f \in Arquivo : pastas[arq[f].pasta] = "viva" /\ (arq[f].st = "livre" => ~Vivo(f))
  BY <1>3 DEF Init, Vivo, SemRegistro
<1>5. /\ \A x \in objetos : /\ x.pasta \in DOMAIN NoServidor /\ x.arquivos = NoServidor[x.pasta]
                            /\ x.presos = {} /\ x.atual /\ x = Objeto(x.pasta, x.arquivos)
      /\ \A p \in DOMAIN NoServidor : \E x \in objetos :
           x.pasta = p /\ x.arquivos = NoServidor[p] /\ x.presos = {} /\ x.atual
  <2>1. objetos = {Objeto(p, NoServidor[p]) : p \in DOMAIN NoServidor}
    BY DEF Init
  <2>2. \A p, as : /\ Objeto(p, as).pasta = p /\ Objeto(p, as).arquivos = as
                   /\ Objeto(p, as).presos = {} /\ Objeto(p, as).atual
    BY DEF Objeto
  <2> QED BY <2>1, <2>2
<1>6. Boa(objetos)
  BY <1>5 DEF Boa
<1>7. Mostradas = DOMAIN NoServidor
  BY <1>5 DEF Mostradas, Pastas
<1>8. \A f, p : p \in Mostra(f) <=> p \in Onde(NoServidor, f)
  BY <1>5 DEF Mostra, Visivel, Onde
<1>9. Forma
  BY <1>1, <1>2 DEF Forma, FormaDe, Movem
<1>10. Presas
  BY <1>1, <1>5, <1>6 DEF Presas
<1>11. Usados
  <2> SUFFICES ASSUME NEW f \in Arquivo, arq[f].st = "livre"
               PROVE  /\ \A x \in objetos : f \notin x.arquivos
                      /\ Onde(listagem.lista, f) = {}
    BY <1>1, <1>2 DEF Usados
  <2>1. \A p \in DOMAIN NoServidor : f \notin NoServidor[p]
    BY <1>4, OndeServidor DEF Onde
  <2> QED BY <1>3, <1>5, <2>1 DEF Onde
<1>12. Novas
  BY <1>1, <1>3, <1>4, <1>5, OndeServidor DEF Novas
<1>13. DePastas
  BY <1>1 DEF DePastas, DePasta
<1>14. Disputa
  BY <1>1, <1>2 DEF Disputa
<1>15. Lados
  BY <1>7, OndeServidor DEF Lados
<1>16. Certos
  <2> SUFFICES ASSUME NEW f \in Arquivo PROVE Certo(f)
    BY DEF Certos
  <2>1. arq[f].pasta \in Pasta
    BY <1>0 DEF TypeOK, TipoServidor, Registros
  <2> QED BY <1>8, <2>1, OndeServidor DEF Certo
<1>17. Promessas
  BY <1>1 DEF Promessas, Feita, AMover, Apagada
<1> QED BY <1>9, <1>10, <1>11, <1>12, <1>13, <1>14, <1>15, <1>16, <1>17 DEF Acordo

LEMMA AcordoPasso ==
  ASSUME TypeOK, Acordo, [Next]_vars
  PROVE  Acordo'
<1>0. TypeOK'
  BY TipoPasso
<1>1. CASE UNCHANGED vars
  <2>1. /\ arq' = arq /\ pastas' = pastas /\ objetos' = objetos /\ op' = op /\ desculpa' = desculpa
        /\ listagem' = listagem
    BY <1>1 DEF vars, vServidor
  <2>2. /\ \A f \in Arquivo : arq[f].st = "livre" => Onde(listagem'.lista, f) = {}
        /\ \A p \in Pasta : pastas[p] = "livre" =>
             p \notin listagem'.pastas /\ p \notin DOMAIN listagem'.lista
    BY <2>1 DEF Acordo, Usados, Novas
  <2> QED BY <2>1, <2>2, ParadaFaz
<1>2. ASSUME NEW o \in Op, Usuario(o) PROVE Acordo'
  BY <1>0, <1>2, UsuarioFaz
<1>3. ASSUME NEW o \in Op, Servidor(o) \/ Resposta(o) PROVE Acordo'
  BY <1>0, <1>3, AtendeFaz, SemListaFaz, RespondeFaz DEF Resposta
<1>4. CASE PedeLista \/ LePastas \/ LeArquivos
  BY <1>0, <1>4, ListagemFaz
<1>5. ASSUME NEW cs, ChegaLista(cs) PROVE Acordo'
  BY <1>0, <1>5, ChegaFaz
<1> QED BY <1>1, <1>2, <1>3, <1>4, <1>5 DEF Next

\* At rest, what the list and the store do not agree on is excused.
LEMMA EmRepouso ==
  ASSUME Inv, Acordo
  PROVE  ListaFiel
<1> SUFFICES ASSUME EmCurso = {}, NEW x \in Difere(Lista, NoServidor),
                    x \notin desculpa, x \notin desabrigados, x \notin Fantasmas
             PROVE  FALSE
  BY DEF ListaFiel
<1>0. /\ TypeOK /\ \A o \in Op : op[o].fase = "livre" /\ Ids(op[o]) = {}
      /\ DOMAIN Lista = Mostradas /\ \A f : Onde(Lista, f) = Mostra(f)
      /\ EhLista(Lista) /\ EhLista(NoServidor)
  BY ListaMostra, ListaTipo, ServidorTipo
     DEF Inv, TypeOK, TipoTela, Acordo, Presas, Forma, FormaDe, EmCurso
<1>1. \A p \in Pasta \ desculpa : p \in Mostradas <=> pastas[p] = "viva"
  <2>1. \A t, p : ~Respondera(t, p)
    BY <1>0 DEF Respondera
  <2>2. ASSUME NEW p \in Pasta PROVE pastas[p] = "viva" \/ pastas[p] # "viva"
    OBVIOUS
  <2> QED BY <2>1, <2>2 DEF Acordo, Lados
<1>2. CASE x \in Pasta
  <2>1. x \in DOMAIN Lista <=> x \in DOMAIN NoServidor
    BY <1>0, <1>1, <1>2, OndeServidor
  <2>2. Onde(Lista, x) = {} /\ Onde(NoServidor, x) = {}
    BY <1>0, <1>2, LibraryAssumption DEF Onde, EhLista
  <2> QED BY <2>1, <2>2 DEF Difere, Onde
<1>3. CASE x \in Arquivo
  <2>0. PICK p : p = arq[x].pasta
    OBVIOUS
  <2>1. p \in Pasta /\ x \notin Pasta
    BY <1>0, <1>3, <2>0, LibraryAssumption DEF TypeOK, TipoServidor, Registros
  <2>2. Onde(Lista, x) # Onde(NoServidor, x)
    BY <1>0, <2>1 DEF Difere, Onde, EhLista
  <2>3. Certo(x)
    <3>1. ~Aberto(x)
      BY <1>0 DEF Aberto, Ids
    <3> QED BY <1>3, <3>1 DEF Acordo, Certos
  <2>4. \A q \in Mostra(x) : q = p
    BY <2>0, <2>3 DEF Certo
  <2>5. CASE Vivo(x)
    <3>1. pastas[p] = "viva"
      BY <1>3, <2>0, <2>5 DEF Inv, Abrigo, SemTeto
    <3>2. Mostra(x) # {}
      BY <2>0, <2>3, <2>5, <3>1 DEF Certo
    <3>3. \A q : q \in Onde(NoServidor, x) <=> q = p
      BY <1>3, <2>0, <2>1, <2>5, <3>1, OndeServidor
    <3>4. \A q : q \in Mostra(x) <=> q \in Onde(NoServidor, x)
      BY <2>4, <3>2, <3>3
    <3> QED BY <1>0, <2>2, <3>4 DEF Onde
  <2>6. CASE ~Vivo(x)
    <3>1. Onde(NoServidor, x) = {}
      BY <2>6, OndeServidor
    <3>2. p \in Mostra(x)
      BY <1>0, <2>2, <2>4, <3>1
    <3>3. pastas[p] # "viva"
      <4>1. Condenada(arq[x].pasta)
        BY <2>3, <2>6, <3>2 DEF Certo
      <4>2. Condenada(p)
        BY <2>0, <4>1
      <4> QED BY <1>0, <4>2 DEF Condenada
    <3>4. p \in Mostradas
      BY <3>2, MostraMostradas
    <3>5. p \in desculpa
      BY <1>1, <2>1, <3>3, <3>4
    <3>6. x \in Lista[p] /\ p \in (desculpa \cap DOMAIN Lista) \ DOMAIN NoServidor
      BY <1>0, <3>2, <3>3, <3>4, <3>5, OndeServidor DEF Onde
    <3> QED BY <3>6 DEF Fantasmas
  <2> QED BY <2>5, <2>6
<1> QED BY <1>2, <1>3 DEF Difere

LEMMA AcordoSempre == Spec => []Acordo
<1>1. TypeOK /\ Acordo /\ [Next]_vars => Acordo'
  BY AcordoPasso
<1> QED BY <1>1, AcordoInicio, Tipos, PTL DEF Spec

\* Between requests the sidebar shows what the store has, but for what was excused.
THEOREM SidebarShowsTheStore == Spec => []ListaFiel
<1>1. Inv /\ Acordo => ListaFiel
  BY EmRepouso
<1> QED BY <1>1, Indutiva, AcordoSempre, PTL
=============================================================================
