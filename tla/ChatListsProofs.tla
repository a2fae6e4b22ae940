-------------------------- MODULE ChatListsProofs ---------------------------
(* Theorems about ChatLists, for any number of chats, links and requests.  *)
EXTENDS ChatLists, TLAPS

LEMMA InicioOK == Init => TypeOK
<1> SUFFICES ASSUME Init PROVE TypeOK
  OBVIOUS
<1>1. TipoLoja
  BY ListsAssumption DEF Init, TipoLoja
<1>2. TipoElo
  BY DEF Init, TipoElo, Livre, Ativo
<1>3. TipoOp
  BY DEF Init, TipoOp, OpLivre, Pedidos, Tipo, DeUm, DeVarios, Fases, Lista, Historico
<1>4. TipoConta
  BY DEF Init, TipoConta, Aba
<1> QED
  BY <1>1, <1>2, <1>3, <1>4 DEF TypeOK

(* The store changes by an update, a refresh or a message.                 *)
LEMMA TipoLojaPasso ==
  ASSUME TypeOK, [Next]_vars
  PROVE  TipoLoja'
<1> USE DEF TypeOK, TipoLoja, vLoja
<1>1. CASE UNCHANGED vLoja
  BY <1>1
<1>2. ASSUME NEW o \in Op, AtualizaES(o)
      PROVE  TipoLoja'
  <2> DEFINE alvo == {c \in op[o].chats : Casa(op[o], indice[c]) /\ c \notin sujo}
  <2>1. op[o] \in Pedidos /\ alvo \subseteq Chat
    BY DEF TipoOp, Pedidos
  <2>2. CASE UNCHANGED <<doc, sujo>>
    BY <1>2, <2>2 DEF AtualizaES
  <2>3. CASE /\ doc' = [c \in Chat |-> IF c \in alvo THEN Muda(op[o], doc[c]) ELSE doc[c]]
             /\ sujo' = sujo \cup alvo
    <3>1. ASSUME NEW c \in Chat
          PROVE  Muda(op[o], doc[c]) \in Documento
      BY <2>1 DEF Muda, Documento, Pedidos
    <3> QED
      BY <1>2, <2>1, <2>3, <3>1 DEF AtualizaES
  <2> QED
    BY <1>2, <2>2, <2>3 DEF AtualizaES
<1>3. CASE Refresca
  BY <1>3 DEF Refresca
<1>4. ASSUME NEW c \in Chat, GravaMensagem(c)
      PROVE  TipoLoja'
  BY <1>4 DEF GravaMensagem
<1>5. ASSUME NEW l \in Lista, Le(l) \/ Chega(l)
      PROVE  UNCHANGED vLoja
  BY <1>5 DEF Le, Chega
<1>6. ASSUME NEW a \in Aba, TrocaAba(a)
      PROVE  UNCHANGED vLoja
  BY <1>6 DEF TrocaAba
<1>7. ASSUME NEW o \in Op, Usuario(o)
      PROVE  UNCHANGED vLoja
  BY <1>7 DEF Usuario, Fixa, Arquiva, ApagaChat, Desarquiva, Compartilha, EmVarios, Inicia
<1>8. ASSUME NEW o \in Op, Servidor(o), ~AtualizaES(o)
      PROVE  UNCHANGED vLoja
  BY <1>8 DEF Servidor, Procura, RevogaElos, ConsultaElo, InsereElo, AtualizaElo
<1>9. ASSUME NEW o \in Op, Resposta(o)
      PROVE  UNCHANGED vLoja
  BY <1>9 DEF Resposta, PerdeResposta, RespondeHistorico, RespondeArquiva,
     RespondeDesarquiva, RespondeApagaArquivado, RespondeDesarquivaTodos, RespondeSemLista
<1>10. ASSUME NEW ks \in SUBSET Link, RevogaNaAba(ks)
       PROVE  UNCHANGED vLoja
  BY <1>10 DEF RevogaNaAba
<1>11. CASE UNCHANGED vars
  BY <1>11 DEF vars
<1> QED
  BY <1>1, <1>2, <1>3, <1>4, <1>5, <1>6, <1>7, <1>8, <1>9, <1>10, <1>11 DEF Next

(* A link changes when it is made or revoked, and as ShareLink says.       *)
LEMMA EloPasso ==
  ASSUME TypeOK, [Next]_vars
  PROVE  TipoElo' /\ [SL!Next]_elo
<1> DEFINE Certo == TipoElo' /\ [SL!Next]_elo
<1>0. TipoElo
  BY DEF TypeOK
<1>1. UNCHANGED elo => Certo
  BY <1>0 DEF TipoElo
<1>2. ASSUME NEW ks \in SUBSET Link, ks \subseteq ElosDe(Chat), Revoga(ks)
      PROVE  Certo
  <2>1. \A k \in ks : elo[k].st = "ativo"
    BY <1>2 DEF ElosDe
  <2>2. SL!Revoga(ks)
    BY <1>2, <2>1 DEF SL!Revoga, Revoga
  <2>3. TipoElo'
    BY <1>0, <1>2 DEF Revoga, TipoElo
  <2> QED
    BY <2>2, <2>3 DEF SL!Next
<1>3. ASSUME NEW o \in Op, RevogaElos(o)
      PROVE  Certo
  <2>1. ElosDe(op[o].chats) \subseteq ElosDe(Chat) /\ ElosDe(op[o].chats) \in SUBSET Link
    BY DEF ElosDe, TypeOK, TipoOp, Pedidos
  <2> QED
    BY <1>1, <1>2, <1>3, <2>1 DEF RevogaElos
<1>4. ASSUME NEW o \in Op, InsereElo(o)
      PROVE  Certo
  <2>1. PICK k \in Link, c \in op[o].chats :
          elo[k] = Livre /\ elo' = [elo EXCEPT ![k] = Ativo({c})]
    BY <1>4 DEF InsereElo
  <2>2. c \in Chat
    BY DEF TypeOK, TipoOp, Pedidos
  <2>3. SL!Cria(k, c)
    BY <2>1, <2>2 DEF SL!Cria, SL!Livre, SL!Ativo, Livre, Ativo
  <2>4. TipoElo'
    BY <1>0, <2>1, <2>2 DEF TipoElo, Ativo
  <2> QED
    BY <2>2, <2>3, <2>4 DEF SL!Next
<1>5. ASSUME NEW ks \in SUBSET Link, RevogaNaAba(ks)
      PROVE  Certo
  BY <1>2, <1>5 DEF RevogaNaAba
<1>6. ASSUME NEW l \in Lista, Le(l) \/ Chega(l)
      PROVE  UNCHANGED elo
  BY <1>6 DEF Le, Chega
<1>7. ASSUME NEW a \in Aba, TrocaAba(a)
      PROVE  UNCHANGED elo
  BY <1>7 DEF TrocaAba
<1>8. ASSUME NEW o \in Op, Usuario(o)
      PROVE  UNCHANGED elo
  BY <1>8 DEF Usuario, Fixa, Arquiva, ApagaChat, Desarquiva, Compartilha, EmVarios, Inicia
<1>9. ASSUME NEW o \in Op, Procura(o) \/ AtualizaES(o) \/ ConsultaElo(o) \/ AtualizaElo(o)
      PROVE  UNCHANGED elo
  BY <1>9 DEF Procura, AtualizaES, ConsultaElo, AtualizaElo
<1>10. ASSUME NEW o \in Op, Resposta(o)
       PROVE  UNCHANGED elo
  BY <1>10 DEF Resposta, PerdeResposta, RespondeHistorico, RespondeArquiva,
     RespondeDesarquiva, RespondeApagaArquivado, RespondeDesarquivaTodos, RespondeSemLista
<1>11. Refresca \/ (\E c \in Chat : GravaMensagem(c)) \/ UNCHANGED vars => UNCHANGED elo
  BY DEF Refresca, GravaMensagem, vars
<1> HIDE DEF Certo
<1> QED
  <2>1. Certo
    BY <1>1, <1>3, <1>4, <1>5, <1>6, <1>7, <1>8, <1>9, <1>10, <1>11 DEF Next, Servidor
  <2> QED
    BY <2>1 DEF Certo

(* A request keeps its type whatever its phase.                            *)
LEMMA FaseTipo ==
  ASSUME TipoOp, NEW o \in Op, NEW f \in Fases, Fase(o, f)
  PROVE  TipoOp'
BY DEF TipoOp, Fase, Pedidos

LEMMA TerminaTipo ==
  ASSUME TipoOp, NEW o \in Op, Termina(o)
  PROVE  TipoOp'
BY DEF TipoOp, Termina, OpLivre, Pedidos, Tipo, DeUm, DeVarios, Fases, Lista, Historico

LEMMA IniciaTipo ==
  ASSUME TipoOp, NEW o \in Op, NEW t \in Tipo, NEW f \in Fases, NEW cs \in SUBSET Chat,
         NEW v \in BOOLEAN, NEW l \in Lista, Inicia(o, Pedido(t, f, cs, v, l))
  PROVE  TipoOp'
BY DEF TipoOp, Inicia, Pedido, Pedidos

LEMMA SoltaTipo ==
  ASSUME NEW r \in Pedidos
  PROVE  Solta(r) \in Pedidos
BY DEF Solta, Pedidos

LEMMA TipoOpPasso ==
  ASSUME TypeOK, [Next]_vars
  PROVE  TipoOp'
<1>0. TipoOp /\ Historico \subseteq Lista /\ "archiveChats" \in Lista
  BY DEF TypeOK, Lista
<1>1. UNCHANGED op => TipoOp'
  BY <1>0 DEF TipoOp
<1> USE DEF Tipo, DeUm, DeVarios, Fases
<1>2. ASSUME NEW l \in Lista, Chega(l)
      PROVE  TipoOp'
  <2> DEFINE muda == ~lista[l].carregada \/ lista[l].itens # busca[l].itens
  <2>1. op' = [o \in Op |-> IF muda /\ op[o].lista = l /\ op[o].tipo \in DeUm
                           THEN [op[o] EXCEPT !.preso = FALSE] ELSE op[o]]
    BY <1>2 DEF Chega
  <2> HIDE DEF muda
  <2>2. \A r \in Pedidos : [r EXCEPT !.preso = FALSE] \in Pedidos
    BY DEF Pedidos
  <2> QED
    BY <1>0, <2>1, <2>2 DEF TipoOp
<1>3. ASSUME NEW a \in Aba, TrocaAba(a)
      PROVE  TipoOp'
  BY <1>0, <1>3, SoltaTipo DEF TrocaAba, TipoOp
<1>4. ASSUME NEW o \in Op, Usuario(o)
      PROVE  TipoOp'
  <2>1. ASSUME NEW c \in Chat, NEW l \in Lista, Fixa(o, c, l)
        PROVE  TipoOp'
    <3>1. Inicia(o, Pedido("fixa", "es", {c}, ~lista[l].itens[c].fixado, l))
      BY <2>1 DEF Fixa
    <3> QED
      BY <1>0, <3>1, IniciaTipo
  <2>2. ASSUME NEW c \in Chat, NEW l \in Lista, Arquiva(o, c, l)
        PROVE  TipoOp'
    <3>1. Inicia(o, Pedido("arquiva", "es", {c}, ~lista[l].itens[c].arquivado, l))
      BY <2>2 DEF Arquiva
    <3> QED
      BY <1>0, <3>1, IniciaTipo
  <2>3. ASSUME NEW c \in Chat, NEW l \in Lista, ApagaChat(o, c, l)
        PROVE  TipoOp'
    <3>1. Inicia(o, Pedido("apaga", "es", {c}, TRUE, l))
      BY <2>3 DEF ApagaChat
    <3> QED
      BY <1>0, <3>1, IniciaTipo
  <2>4. ASSUME NEW c \in Chat, Desarquiva(o, c)
        PROVE  TipoOp'
    <3>1. Inicia(o, Pedido("arquiva", "es", {c}, ~vista[c].arquivado, "archiveChats"))
      BY <2>4 DEF Desarquiva
    <3> QED
      BY <1>0, <3>1, IniciaTipo
  <2>5. ASSUME NEW c \in Chat, Compartilha(o, c)
        PROVE  TipoOp'
    <3>1. Inicia(o, Pedido("compartilha", "consulta", {c}, FALSE, "recentChats"))
      BY <2>5 DEF Compartilha
    <3> QED
      BY <1>0, <3>1, IniciaTipo DEF Historico
  <2>6. ASSUME NEW t \in DeVarios, NEW l \in Lista, EmVarios(o, t, l)
        PROVE  TipoOp'
    <3>1. Inicia(o, Pedido(t, "procura", {}, FALSE, l))
      BY <2>6 DEF EmVarios
    <3> QED
      BY <1>0, <3>1, IniciaTipo
  <2> QED
    BY <1>4, <2>1, <2>2, <2>3, <2>4, <2>5, <2>6 DEF Usuario
<1>5. ASSUME NEW o \in Op, Procura(o)
      PROVE  TipoOp'
  <2>1. DOMAIN Visao(op[o].lista, indice) \in SUBSET Chat
    BY DEF Visao
  <2>2. PICK cs \in SUBSET Chat : op' = [op EXCEPT ![o].fase = "es", ![o].chats = cs]
    BY <1>5, <2>1 DEF Procura
  <2>3. \A r \in Pedidos : [r EXCEPT !.fase = "es", !.chats = cs] \in Pedidos
    BY DEF Pedidos
  <2> QED
    BY <1>0, <2>2, <2>3 DEF TipoOp
<1>6. ASSUME NEW o \in Op, AtualizaES(o)
      PROVE  TipoOp'
  <2>1. PICK responde \in BOOLEAN : Fase(o, IF responde THEN Seguinte(op[o]) ELSE "erro")
    BY <1>6 DEF AtualizaES
  <2> QED
    BY <1>0, <2>1, FaseTipo DEF Seguinte
<1>7. ASSUME NEW o \in Op, RevogaElos(o)
      PROVE  TipoOp'
  BY <1>0, <1>7, FaseTipo DEF RevogaElos
<1>8. ASSUME NEW o \in Op, ConsultaElo(o)
      PROVE  TipoOp'
  <2>1. ASSUME NEW k \in ElosDe(op[o].chats),
               op' = [op EXCEPT ![o].fase = "atualiza", ![o].elos = {k}]
        PROVE  TipoOp'
    <3>1. k \in Link
      BY DEF ElosDe
    <3>2. \A r \in Pedidos : [r EXCEPT !.fase = "atualiza", !.elos = {k}] \in Pedidos
      BY <3>1 DEF Pedidos
    <3> QED
      BY <1>0, <2>1, <3>2 DEF TipoOp
  <2> QED
    BY <1>0, <1>8, <2>1, FaseTipo DEF ConsultaElo
<1>9. ASSUME NEW o \in Op, InsereElo(o) \/ AtualizaElo(o) \/ PerdeResposta(o)
      PROVE  TipoOp'
  BY <1>0, <1>9, FaseTipo DEF InsereElo, AtualizaElo, PerdeResposta
<1>10. ASSUME NEW o \in Op, RespondeDesarquiva(o)
       PROVE  TipoOp'
  <2>1. op' = [x \in Op |-> IF x = o THEN OpLivre ELSE Solta(op[x])]
    BY <1>10 DEF RespondeDesarquiva
  <2>2. OpLivre \in Pedidos
    BY DEF OpLivre, Pedidos, Lista, Historico
  <2> QED
    BY <1>0, <2>1, <2>2, SoltaTipo DEF TipoOp
<1>11. ASSUME NEW o \in Op, Resposta(o), ~PerdeResposta(o), ~RespondeDesarquiva(o)
       PROVE  TipoOp'
  <2>1. Termina(o)
    BY <1>11 DEF Resposta, RespondeHistorico, RespondeArquiva, RespondeApagaArquivado,
       RespondeDesarquivaTodos, RespondeSemLista
  <2> QED
    BY <1>0, <2>1, TerminaTipo
<1>12. ASSUME NEW l \in Lista, Le(l)
       PROVE  UNCHANGED op
  BY <1>12 DEF Le
<1>13. ASSUME NEW ks \in SUBSET Link, RevogaNaAba(ks)
       PROVE  UNCHANGED op
  BY <1>13 DEF RevogaNaAba
<1>14. Refresca \/ (\E c \in Chat : GravaMensagem(c)) \/ UNCHANGED vars => UNCHANGED op
  BY DEF Refresca, GravaMensagem, vars
<1> QED
  BY <1>1, <1>2, <1>3, <1>4, <1>5, <1>6, <1>7, <1>8, <1>9, <1>10, <1>11, <1>12, <1>13,
     <1>14 DEF Next, Servidor, Resposta

LEMMA DesculpaTipo ==
  ASSUME TipoConta, NEW ls, Desculpa(ls)
  PROVE  desculpa' \in [Lista -> BOOLEAN]
BY DEF Desculpa

LEMMA TipoContaPasso ==
  ASSUME TypeOK, [Next]_vars
  PROVE  TipoConta'
<1>0. TipoConta /\ TipoOp
  BY DEF TypeOK
<1>1. UNCHANGED <<aba, vConta, vFantasma>> => TipoConta'
  BY <1>0 DEF TipoConta, vConta, vFantasma, vElos
<1>2. ASSUME NEW l \in Lista, Le(l) \/ Chega(l)
      PROVE  TipoConta'
  BY <1>0, <1>2 DEF Le, Chega, TipoConta, vConta, vElos
<1>3. ASSUME NEW a \in Aba, TrocaAba(a)
      PROVE  TipoConta'
  <2>1. desculpa' \in [Lista -> BOOLEAN]
    BY <1>0, <1>3, DesculpaTipo DEF TrocaAba, Monta
  <2> QED
    BY <1>0, <1>3, <2>1 DEF TrocaAba, Monta, TipoConta, vConta, vElos
<1>4. ASSUME NEW o \in Op, Usuario(o)
      PROVE  TipoConta'
  <2>1. acoes' = acoes + 1 /\ UNCHANGED <<falhas, aba>>
    BY <1>4 DEF Usuario, Fixa, Arquiva, ApagaChat, Desarquiva, Compartilha, EmVarios,
       Inicia, vTela
  <2>2. CASE UNCHANGED vFantasma
    BY <1>0, <2>1, <2>2 DEF TipoConta, vFantasma, vElos
  <2>3. ASSUME NEW c \in Chat, Compartilha(o, c)
        PROVE  TipoConta'
    <3>1. sobrepostos' \subseteq Chat
      BY <1>0, <2>3 DEF Compartilha, TipoConta
    <3> QED
      BY <1>0, <2>1, <2>3, <3>1 DEF Compartilha, TipoConta
  <2> QED
    BY <1>4, <2>2, <2>3 DEF Usuario, Fixa, Arquiva, ApagaChat, Desarquiva, EmVarios
<1>5. ASSUME NEW o \in Op, Servidor(o)
      PROVE  TipoConta'
  <2>1. op[o].chats \subseteq Chat
    BY <1>0 DEF TipoOp, Pedidos
  <2>2. CASE AtualizaES(o)
    <3> DEFINE alvo == {c \in op[o].chats : Casa(op[o], indice[c]) /\ c \notin sujo}
    <3>1. PICK responde \in BOOLEAN : falhas' = falhas + (IF responde THEN 0 ELSE 1)
      BY <2>2 DEF AtualizaES
    <3>2. falhas' \in Nat
      BY <1>0, <3>1 DEF TipoConta
    <3>3. interrompidas' \subseteq interrompidas \cup alvo /\ alvo \subseteq op[o].chats
      BY <2>2 DEF AtualizaES
    <3>4. ignoradas' \subseteq ignoradas \cup op[o].chats
      BY <2>2 DEF AtualizaES
    <3>5. UNCHANGED <<aba, acoes, desculpa, tardios, sobrepostos>>
      BY <2>2 DEF AtualizaES, vTela
    <3> QED
      BY <1>0, <2>1, <3>2, <3>3, <3>4, <3>5 DEF TipoConta
  <2>3. CASE RevogaElos(o)
    <3>1. falhas' \in Nat /\ interrompidas' \subseteq Chat
      BY <1>0, <2>1, <2>3 DEF RevogaElos, TipoConta
    <3> QED
      BY <1>0, <2>3, <3>1 DEF RevogaElos, TipoConta, vTela
  <2>4. CASE ConsultaElo(o)
    <3>1. falhas' \in Nat /\ sobrepostos' \subseteq Chat
      BY <1>0, <2>1, <2>4 DEF ConsultaElo, TipoConta
    <3> QED
      BY <1>0, <2>4, <3>1 DEF ConsultaElo, TipoConta, vTela
  <2>5. CASE InsereElo(o)
    <3>1. tardios' \subseteq Link
      BY <1>0, <2>5 DEF InsereElo, TipoConta
    <3> QED
      BY <1>0, <2>5, <3>1 DEF InsereElo, TipoConta, vTela, vConta
  <2>6. CASE Procura(o) \/ AtualizaElo(o)
    BY <1>1, <2>6 DEF Procura, AtualizaElo, vTela
  <2> QED
    BY <1>5, <2>2, <2>3, <2>4, <2>5, <2>6 DEF Servidor
<1>6. ASSUME NEW o \in Op, Resposta(o)
      PROVE  TipoConta'
  <2>1. UNCHANGED <<acoes, ignoradas, vElos>>
    BY <1>6 DEF Resposta, PerdeResposta, RespondeHistorico, RespondeArquiva,
       RespondeDesarquiva, RespondeApagaArquivado, RespondeDesarquivaTodos,
       RespondeSemLista, vConta, vFantasma
  <2>2. falhas' \in Nat
    <3>1. CASE PerdeResposta(o)
      BY <1>0, <3>1 DEF PerdeResposta, TipoConta
    <3>2. CASE ~PerdeResposta(o)
      <4>1. UNCHANGED vConta
        BY <1>6, <3>2 DEF Resposta, RespondeHistorico, RespondeArquiva, RespondeDesarquiva,
           RespondeApagaArquivado, RespondeDesarquivaTodos, RespondeSemLista
      <4> QED
        BY <1>0, <4>1 DEF TipoConta, vConta
    <3> QED
      BY <3>1, <3>2
  <2>3. aba' \in Aba
    <3>1. CASE RespondeDesarquiva(o)
      BY <3>1 DEF RespondeDesarquiva, Aba
    <3>2. CASE ~RespondeDesarquiva(o)
      BY <1>0, <1>6, <3>2 DEF Resposta, PerdeResposta, RespondeHistorico, RespondeArquiva,
         RespondeApagaArquivado, RespondeDesarquivaTodos, RespondeSemLista, vTela, TipoConta
    <3> QED
      BY <3>1, <3>2
  <2>4. UNCHANGED desculpa \/ \E ls : Desculpa(ls)
    BY <1>6 DEF Resposta, PerdeResposta, RespondeHistorico, RespondeArquiva,
       RespondeDesarquiva, RespondeApagaArquivado, RespondeDesarquivaTodos,
       RespondeSemLista, vFantasma
  <2>5. desculpa' \in [Lista -> BOOLEAN]
    BY <1>0, <2>4, DesculpaTipo DEF TipoConta
  <2> QED
    BY <1>0, <2>1, <2>2, <2>3, <2>5 DEF TipoConta, vElos
<1>7. ASSUME NEW ks \in SUBSET Link, RevogaNaAba(ks)
      PROVE  TipoConta'
  BY <1>0, <1>7 DEF RevogaNaAba, vTela, vFantasma, vElos, TipoConta
<1>8. ASSUME NEW c \in Chat, GravaMensagem(c)
      PROVE  TipoConta'
  <2>1. UNCHANGED desculpa \/ \E ls : Desculpa(ls)
    BY <1>8 DEF GravaMensagem
  <2>2. desculpa' \in [Lista -> BOOLEAN]
    BY <1>0, <2>1, DesculpaTipo DEF TipoConta
  <2> QED
    BY <1>0, <1>8, <2>2 DEF GravaMensagem, vElos, TipoConta
<1>9. Refresca \/ UNCHANGED vars => TipoConta'
  BY <1>1 DEF Refresca, vars, vTela
<1> QED
  BY <1>2, <1>3, <1>4, <1>5, <1>6, <1>7, <1>8, <1>9 DEF Next

(* The stores, the links and the requests keep their types.                *)
THEOREM Tipos == Spec => []TypeOK
<1>1. TypeOK /\ [Next]_vars => TypeOK'
  BY TipoLojaPasso, EloPasso, TipoOpPasso, TipoContaPasso DEF TypeOK
<1> QED
  BY <1>1, InicioOK, PTL DEF Spec

(* What a step leaves alone.                                               *)
LEMMA SoQuatroMudam ==
  ASSUME [Next]_vars,
         ~\E o \in Op : AtualizaES(o) \/ RevogaElos(o) \/ InsereElo(o),
         ~\E ks \in SUBSET Link : RevogaNaAba(ks),
         ~Refresca
  PROVE  UNCHANGED <<doc, elo, interrompidas, tardios>>
<1> USE DEF vLoja, vFantasma, vElos
<1>1. ASSUME NEW l \in Lista, Le(l) \/ Chega(l)
      PROVE  UNCHANGED <<doc, elo, interrompidas, tardios>>
  BY <1>1 DEF Le, Chega
<1>2. ASSUME NEW a \in Aba, TrocaAba(a)
      PROVE  UNCHANGED <<doc, elo, interrompidas, tardios>>
  BY <1>2 DEF TrocaAba
<1>3. ASSUME NEW o \in Op, Usuario(o)
      PROVE  UNCHANGED <<doc, elo, interrompidas, tardios>>
  BY <1>3 DEF Usuario, Fixa, Arquiva, ApagaChat, Desarquiva, Compartilha, EmVarios, Inicia
<1>4. ASSUME NEW o \in Op, Procura(o) \/ ConsultaElo(o) \/ AtualizaElo(o)
      PROVE  UNCHANGED <<doc, elo, interrompidas, tardios>>
  BY <1>4 DEF Procura, ConsultaElo, AtualizaElo
<1>5. ASSUME NEW o \in Op, Resposta(o)
      PROVE  UNCHANGED <<doc, elo, interrompidas, tardios>>
  BY <1>5 DEF Resposta, PerdeResposta, RespondeHistorico, RespondeArquiva,
     RespondeDesarquiva, RespondeApagaArquivado, RespondeDesarquivaTodos, RespondeSemLista
<1>6. (\E c \in Chat : GravaMensagem(c)) \/ UNCHANGED vars =>
        UNCHANGED <<doc, elo, interrompidas, tardios>>
  BY DEF GravaMensagem, vars
<1> QED
  BY <1>1, <1>2, <1>3, <1>4, <1>5, <1>6 DEF Next, Servidor

(* A deletion that goes on to the links keeps its chats until they are     *)
(* revoked.                                                                *)
NoMongo(c) == \E o \in Op : op[o].fase = "mongo" /\ c \in op[o].chats

LEMMA MongoFica ==
  ASSUME TypeOK, [Next]_vars, NEW o \in Op, op[o].fase = "mongo", ~RevogaElos(o)
  PROVE  op'[o].fase = "mongo" /\ op'[o].chats = op[o].chats
<1>0. TipoOp
  BY DEF TypeOK
<1>1. UNCHANGED op => op'[o].fase = "mongo" /\ op'[o].chats = op[o].chats
  OBVIOUS
<1> DEFINE Fica == op'[o].fase = "mongo" /\ op'[o].chats = op[o].chats
<1>2. ASSUME NEW l \in Lista, Chega(l)
      PROVE  Fica
  <2>1. \A r \in Pedidos : [r EXCEPT !.preso = FALSE].fase = r.fase
                           /\ [r EXCEPT !.preso = FALSE].chats = r.chats
    BY DEF Pedidos
  <2>2. op'[o] \in {op[o], [op[o] EXCEPT !.preso = FALSE]}
    BY <1>2 DEF Chega
  <2> QED
    BY <1>0, <2>1, <2>2 DEF TipoOp
<1>3. ASSUME NEW r \in Pedidos
      PROVE  Solta(r).fase = r.fase /\ Solta(r).chats = r.chats
  BY DEF Solta, Pedidos
<1>4. ASSUME NEW a \in Aba, TrocaAba(a)
      PROVE  Fica
  BY <1>0, <1>3, <1>4 DEF TrocaAba, TipoOp
<1>5. ASSUME NEW x \in Op, x # o, NEW f, Fase(x, f)
      PROVE  Fica
  BY <1>0, <1>5 DEF Fase, TipoOp
<1>6. ASSUME NEW x \in Op, Usuario(x)
      PROVE  Fica
  <2>1. x # o /\ \E r : op' = [op EXCEPT ![x] = r]
    BY <1>6 DEF Usuario, Fixa, Arquiva, ApagaChat, Desarquiva, Compartilha, EmVarios, Inicia
  <2> QED
    BY <1>0, <2>1 DEF TipoOp
<1>7. ASSUME NEW x \in Op, Procura(x)
      PROVE  Fica
  <2>1. x # o
    BY <1>7 DEF Procura
  <2> QED
    BY <1>0, <1>7, <2>1 DEF Procura, TipoOp
<1>8. ASSUME NEW x \in Op, AtualizaES(x)
      PROVE  Fica
  <2>1. x # o /\ \E f : Fase(x, f)
    BY <1>8 DEF AtualizaES
  <2> QED
    BY <1>5, <2>1
<1>9. ASSUME NEW x \in Op, ConsultaElo(x)
      PROVE  Fica
  <2>1. x # o
    BY <1>9 DEF ConsultaElo
  <2>2. CASE \E f : Fase(x, f)
    BY <1>5, <2>1, <2>2
  <2>3. ASSUME NEW k, op' = [op EXCEPT ![x].fase = "atualiza", ![x].elos = {k}]
        PROVE  Fica
    BY <1>0, <2>1, <2>3 DEF TipoOp
  <2> QED
    BY <1>9, <2>2, <2>3 DEF ConsultaElo
<1>10. ASSUME NEW x \in Op, RevogaElos(x) \/ InsereElo(x) \/ AtualizaElo(x) \/ PerdeResposta(x)
       PROVE  Fica
  <2>1. x # o
    BY <1>10 DEF InsereElo, AtualizaElo, PerdeResposta
  <2>2. \E f : Fase(x, f)
    BY <1>10 DEF RevogaElos, InsereElo, AtualizaElo, PerdeResposta
  <2> QED
    BY <1>5, <2>1, <2>2
<1>11. ASSUME NEW x \in Op, Resposta(x), ~PerdeResposta(x)
       PROVE  Fica
  <2>1. x # o
    BY <1>11 DEF Resposta, RespondeHistorico, RespondeArquiva, RespondeDesarquiva,
       RespondeApagaArquivado, RespondeDesarquivaTodos, RespondeSemLista
  <2>2. CASE RespondeDesarquiva(x)
    BY <1>0, <1>3, <2>1, <2>2 DEF RespondeDesarquiva, TipoOp
  <2>3. CASE ~RespondeDesarquiva(x)
    <3>1. Termina(x)
      BY <1>11, <2>3 DEF Resposta, RespondeHistorico, RespondeArquiva,
         RespondeApagaArquivado, RespondeDesarquivaTodos, RespondeSemLista
    <3> QED
      BY <1>0, <2>1, <3>1 DEF Termina, TipoOp
  <2> QED
    BY <2>2, <2>3
<1>12. ASSUME NEW l \in Lista, Le(l)
       PROVE  UNCHANGED op
  BY <1>12 DEF Le
<1>13. ASSUME NEW ks \in SUBSET Link, RevogaNaAba(ks)
       PROVE  UNCHANGED op
  BY <1>13 DEF RevogaNaAba
<1>14. Refresca \/ (\E c \in Chat : GravaMensagem(c)) \/ UNCHANGED vars => UNCHANGED op
  BY DEF Refresca, GravaMensagem, vars
<1> HIDE DEF Fica
<1> QED
  <2>1. Fica
    BY <1>1, <1>2, <1>4, <1>6, <1>7, <1>8, <1>9, <1>10, <1>11, <1>12, <1>13, <1>14
       DEF Next, Servidor, Fica
  <2> QED
    BY <2>1 DEF Fica

(* A link is for one chat.                                                 *)
UmChat == \A k \in Link : \E c : elo[k].chats \subseteq {c}

LEMMA UmChatPasso ==
  ASSUME TypeOK, UmChat, [SL!Next]_elo
  PROVE  UmChat'
<1>1. CASE UNCHANGED elo
  BY <1>1 DEF UmChat
<1>2. ASSUME NEW k \in Link, NEW c \in Chat, SL!Cria(k, c)
      PROVE  UmChat'
  BY <1>2 DEF UmChat, SL!Cria, SL!Ativo, TypeOK, TipoElo
<1>3. ASSUME NEW ks \in SUBSET Link, SL!Revoga(ks)
      PROVE  UmChat'
  <2>1. \A k \in Link : elo'[k].chats = elo[k].chats
    BY <1>3 DEF SL!Revoga, TypeOK, TipoElo
  <2> QED
    BY <2>1 DEF UmChat
<1> QED
  BY <1>1, <1>2, <1>3 DEF SL!Next

LEMMA UmChatInicio == Init => UmChat
<1> SUFFICES ASSUME Init, NEW k \in Link
             PROVE  \E c : elo[k].chats \subseteq {c}
  BY DEF UmChat
<1>1. elo[k] = Livre \/ \E c \in Chat : elo[k] = Ativo({c})
  BY DEF Init
<1>2. CASE elo[k] = Livre
  BY <1>2 DEF Livre
<1>3. ASSUME NEW c \in Chat, elo[k] = Ativo({c})
      PROVE  \E x : elo[k].chats \subseteq {x}
  <2>1. elo[k].chats \subseteq {c}
    BY <1>3 DEF Ativo
  <2> QED
    BY <2>1
<1> QED
  BY <1>1, <1>2, <1>3

(* The links of a deleted chat: every step keeps what ExclusaoRevoga says. *)
LEMMA ExclusaoPasso ==
  ASSUME TypeOK, UmChat, ExclusaoRevoga, [Next]_vars
  PROVE  ExclusaoRevoga'
<1> SUFFICES ASSUME NEW k \in Link, NEW c \in elo'[k].chats,
                    elo'[k].st = "ativo", doc'[c].apagado,
                    c \notin interrompidas', k \notin tardios'
             PROVE  NoMongo(c)'
  BY DEF ExclusaoRevoga, NoMongo
<1>0. TipoElo' /\ TipoOp /\ c \in Chat
  BY EloPasso DEF TypeOK, TipoElo
<1>1. ASSUME elo[k].st = "ativo", c \in elo[k].chats, doc[c].apagado,
             c \notin interrompidas, k \notin tardios,
             ~\E o \in Op : RevogaElos(o)
      PROVE  NoMongo(c)'
  BY <1>1, MongoFica DEF ExclusaoRevoga, NoMongo
<1>2. CASE UNCHANGED <<doc, elo, interrompidas, tardios>> /\ ~\E o \in Op : RevogaElos(o)
  BY <1>1, <1>2
<1>3. ASSUME NEW o \in Op, AtualizaES(o)
      PROVE  NoMongo(c)'
  <2> DEFINE r == op[o]
             alvo == {x \in r.chats : Casa(r, indice[x]) /\ x \notin sujo}
  <2>1. /\ op[o].fase = "es"
        /\ UNCHANGED <<elo, tardios>> /\ interrompidas \subseteq interrompidas'
    BY <1>3 DEF AtualizaES
  <2>2. CASE doc[c].apagado
    <3>1. PICK x \in Op : op[x].fase = "mongo" /\ c \in op[x].chats
      BY <2>1, <2>2 DEF ExclusaoRevoga
    <3>2. x # o /\ \E f : Fase(o, f)
      BY <1>3, <2>1, <3>1 DEF AtualizaES
    <3>3. op'[x] = op[x]
      BY <1>0, <3>2 DEF Fase, TipoOp
    <3> QED
      BY <3>1, <3>3 DEF NoMongo
  <2>3. CASE ~doc[c].apagado
    <3>1. PICK escreve \in BOOLEAN, responde \in BOOLEAN :
            /\ IF escreve
                 THEN doc' = [x \in Chat |-> IF x \in alvo THEN Muda(r, doc[x]) ELSE doc[x]]
                 ELSE UNCHANGED doc
            /\ Fase(o, IF responde THEN Seguinte(r) ELSE "erro")
            /\ interrompidas' = interrompidas \cup
                 (IF escreve /\ ~responde /\ r.tipo \in Apaga THEN alvo ELSE {})
      BY <1>3 DEF AtualizaES
    <3>2. escreve /\ c \in alvo /\ Muda(r, doc[c]).apagado
      BY <1>0, <2>3, <3>1
    <3>3. r.tipo \in Apaga
      <4>1. doc[c] \in Documento
        BY <1>0 DEF TypeOK, TipoLoja
      <4> QED
        BY <2>3, <3>2, <4>1 DEF Muda, Documento
    <3>4. responde
      BY <3>1, <3>2, <3>3
    <3>5. Fase(o, "mongo")
      BY <3>1, <3>2, <3>3, <3>4 DEF Seguinte
    <3>6. op'[o].fase = "mongo" /\ op'[o].chats = op[o].chats
      BY <1>0, <3>5 DEF Fase, TipoOp, Pedidos
    <3> QED
      BY <3>2, <3>6 DEF NoMongo
  <2> QED
    BY <2>2, <2>3
<1>4. ASSUME NEW o \in Op, RevogaElos(o)
      PROVE  NoMongo(c)'
  <2>1. UNCHANGED <<doc, tardios>> /\ interrompidas \subseteq interrompidas' /\ \E f : Fase(o, f)
    BY <1>4 DEF RevogaElos, vLoja
  <2>2. ASSUME NEW x \in Op, x # o, op[x].fase = "mongo", c \in op[x].chats
        PROVE  NoMongo(c)'
    <3>1. op'[x] = op[x]
      BY <1>0, <2>1, <2>2 DEF Fase, TipoOp
    <3> QED
      BY <2>2, <3>1 DEF NoMongo
  <2>3. CASE UNCHANGED elo /\ interrompidas' = interrompidas \cup op[o].chats
    BY <2>1, <2>2, <2>3 DEF ExclusaoRevoga
  <2>4. CASE Revoga(ElosDe(op[o].chats))
    <3>1. k \notin ElosDe(op[o].chats) /\ elo'[k] = elo[k]
      BY <1>0, <2>4 DEF Revoga, TypeOK, TipoElo
    <3>2. PICK x \in Op : op[x].fase = "mongo" /\ c \in op[x].chats
      BY <2>1, <3>1 DEF ExclusaoRevoga
    <3>3. x # o
      BY <3>1, <3>2 DEF ElosDe, UmChat
    <3> QED
      BY <2>2, <3>2, <3>3
  <2> QED
    BY <1>4, <2>3, <2>4 DEF RevogaElos
<1>5. ASSUME NEW o \in Op, InsereElo(o), ~\E x \in Op : RevogaElos(x)
      PROVE  NoMongo(c)'
  <2>1. PICK j \in Link, d \in op[o].chats :
          /\ elo' = [elo EXCEPT ![j] = Ativo({d})]
          /\ tardios' = tardios \cup (IF doc[d].apagado THEN {j} ELSE {})
    BY <1>5 DEF InsereElo
  <2>2. UNCHANGED <<doc, interrompidas>>
    BY <1>5 DEF InsereElo, vLoja
  <2>3. k # j
    BY <1>0, <2>1, <2>2 DEF Ativo, TypeOK, TipoElo
  <2>4. elo'[k] = elo[k]
    BY <2>1, <2>3 DEF TypeOK, TipoElo
  <2> QED
    BY <1>1, <1>5, <2>1, <2>2, <2>4
<1>6. ASSUME NEW ks \in SUBSET Link, RevogaNaAba(ks), ~\E x \in Op : RevogaElos(x)
      PROVE  NoMongo(c)'
  <2>1. elo'[k] = elo[k] /\ UNCHANGED <<doc, interrompidas, tardios>>
    BY <1>0, <1>6 DEF RevogaNaAba, Revoga, vLoja, vFantasma, vElos, TypeOK, TipoElo
  <2> QED
    BY <1>1, <1>6, <2>1
<1>7. CASE Refresca /\ ~\E x \in Op : RevogaElos(x)
  <2>1. UNCHANGED <<doc, elo, interrompidas, tardios>>
    BY <1>7 DEF Refresca, vFantasma, vElos
  <2> QED
    BY <1>2, <1>7, <2>1
<1> QED
  BY <1>2, <1>3, <1>4, <1>5, <1>6, <1>7, SoQuatroMudam

(* A link of a deleted chat is on its way to be revoked, for any number of *)
(* chats, links and requests at once, except where ExclusaoRevoga says.    *)
THEOREM Exclusao == Spec => []ExclusaoRevoga
<1> DEFINE Inv == TypeOK /\ UmChat /\ ExclusaoRevoga
<1>1. Init => Inv
  <2>1. Init => ExclusaoRevoga
    <3> SUFFICES ASSUME Init, NEW k \in Link, NEW c \in elo[k].chats
                 PROVE  ~doc[c].apagado
      BY DEF ExclusaoRevoga
    <3>1. c \in Chat
      BY InicioOK DEF TypeOK, TipoElo
    <3> QED
      BY <3>1, ListsAssumption DEF Init
  <2> QED
    BY <2>1, InicioOK, UmChatInicio
<1>2. Inv /\ [Next]_vars => Inv'
  <2> SUFFICES ASSUME Inv, [Next]_vars
               PROVE  Inv'
    OBVIOUS
  <2>1. TypeOK'
    BY TipoLojaPasso, EloPasso, TipoOpPasso, TipoContaPasso DEF TypeOK
  <2>2. UmChat'
    BY EloPasso, UmChatPasso
  <2> QED
    BY <2>1, <2>2, ExclusaoPasso
<1> QED
  BY <1>1, <1>2, PTL DEF Spec

(* The links do what ShareLink promises: made once, for one chat, and a    *)
(* revoked one never comes back.                                           *)
THEOREM Elos == Spec => EloEspecificado
<1>1. Init => SL!Init
  BY DEF Init, SL!Init, Livre, Ativo, SL!Livre, SL!Ativo
<1>2. TypeOK /\ [Next]_vars => [SL!Next]_elo
  BY EloPasso
<1> QED
  BY <1>1, <1>2, Tipos, PTL DEF Spec, EloEspecificado, SL!Spec

(* The query of a sharing, its insertion and its update belong to requests *)
(* that share one chat; the searches and the writes to other requests.     *)
PartilhaUm ==
  \A o \in Op :
    /\ op[o].fase \in {"consulta", "insere", "atualiza"} => op[o].tipo = "compartilha"
    /\ op[o].fase \in {"procura", "es", "mongo"} => op[o].tipo # "compartilha"
    /\ op[o].tipo = "compartilha" => \E c : op[o].chats = {c}

(* A request about to insert found no link, unless the two ran at once.    *)
SemElo ==
  \A o \in Op : op[o].fase = "insere" =>
    \A c \in op[o].chats : \A k \in Link :
      (elo[k].st = "ativo" /\ c \in elo[k].chats) => c \in sobrepostos

(* Two requests in flight that share one chat are known.                   *)
Partilhando(o) == op[o].fase # "livre" /\ op[o].tipo = "compartilha"
DuasPartilhas ==
  \A o1, o2 \in Op : (o1 # o2 /\ Partilhando(o1) /\ Partilhando(o2)) =>
    op[o1].chats \cap op[o2].chats \subseteq sobrepostos

(* What a step does to one request.                                        *)
MesmoPedido(o) == op'[o].tipo = op[o].tipo /\ op'[o].chats = op[o].chats
Passa(o) ==
  \/ MesmoPedido(o) /\ op'[o].fase = op[o].fase
  \/ op'[o] = OpLivre
  \/ op'[o].tipo # "compartilha" /\ op'[o].fase \in {"procura", "es", "mongo", "ok", "erro"}
  \/ MesmoPedido(o) /\ op[o].fase # "livre" /\ op'[o].fase \in {"ok", "erro"}
  \/ MesmoPedido(o) /\ ConsultaElo(o) /\ op'[o].fase \in {"insere", "atualiza"}
  \/ \E c \in Chat : /\ Compartilha(o, c)
                     /\ op'[o] = Pedido("compartilha", "consulta", {c}, FALSE, "recentChats")

LEMMA PedidoPasso ==
  ASSUME TypeOK, PartilhaUm, [Next]_vars, NEW o \in Op
  PROVE  Passa(o)
<1>0. TipoOp /\ op[o] \in Pedidos
  BY DEF TypeOK, TipoOp
<1>1. op'[o] = op[o] => Passa(o)
  BY DEF Passa, MesmoPedido
<1>2. ASSUME NEW x \in Op, x # o, NEW r, op' = [op EXCEPT ![x] = r]
      PROVE  Passa(o)
  BY <1>0, <1>1, <1>2 DEF TipoOp
<1>3. ASSUME NEW f, Fase(o, f), f \in {"ok", "erro"}, op[o].fase # "livre"
      PROVE  Passa(o)
  <2>1. op'[o].fase = f /\ MesmoPedido(o)
    BY <1>0, <1>3 DEF Fase, Pedidos, MesmoPedido, TipoOp
  <2> QED
    BY <1>3, <2>1 DEF Passa
<1>4. ASSUME NEW x \in Op, x # o, NEW f, Fase(x, f)
      PROVE  Passa(o)
  <2>1. op'[o] = op[o]
    BY <1>0, <1>4 DEF Fase, TipoOp
  <2> QED
    BY <1>1, <2>1
<1>5. ASSUME NEW r \in Pedidos
      PROVE  /\ Solta(r).fase = r.fase /\ Solta(r).chats = r.chats /\ Solta(r).tipo = r.tipo
             /\ [r EXCEPT !.preso = FALSE].fase = r.fase
             /\ [r EXCEPT !.preso = FALSE].chats = r.chats
             /\ [r EXCEPT !.preso = FALSE].tipo = r.tipo
  BY DEF Solta, Pedidos
<1>6. ASSUME NEW l \in Lista, Chega(l)
      PROVE  Passa(o)
  <2>1. op'[o] \in {op[o], [op[o] EXCEPT !.preso = FALSE]}
    BY <1>6 DEF Chega
  <2> QED
    BY <1>0, <1>5, <2>1 DEF Passa, MesmoPedido
<1>7. ASSUME NEW a \in Aba, TrocaAba(a)
      PROVE  Passa(o)
  BY <1>0, <1>5, <1>7 DEF TrocaAba, Passa, MesmoPedido
<1>8. ASSUME NEW x \in Op, Usuario(x)
      PROVE  Passa(o)
  <2>1. CASE x # o
    <3>1. \E r : op' = [op EXCEPT ![x] = r]
      BY <1>8 DEF Usuario, Fixa, Arquiva, ApagaChat, Desarquiva, Compartilha, EmVarios, Inicia
    <3> QED
      BY <1>2, <2>1, <3>1
  <2>2. CASE x = o
    <3>1. ASSUME NEW c \in Chat, Compartilha(o, c)
          PROVE  Passa(o)
      <4>1. op'[o] = Pedido("compartilha", "consulta", {c}, FALSE, "recentChats")
        BY <1>0, <3>1 DEF Compartilha, Inicia, TipoOp
      <4> QED
        BY <3>1, <4>1 DEF Passa
    <3>2. ASSUME ~\E c \in Chat : Compartilha(o, c)
          PROVE  Passa(o)
      <4> DEFINE Outro == \E t \in Tipo \ {"compartilha"}, f \in {"procura", "es"} : \E cs, v, l :
                            op' = [op EXCEPT ![o] = Pedido(t, f, cs, v, l)]
      <4>1. ASSUME NEW t \in Tipo, t # "compartilha", NEW f \in {"procura", "es"},
                   NEW cs, NEW v, NEW l, Inicia(o, Pedido(t, f, cs, v, l))
            PROVE  Outro
        BY <4>1 DEF Inicia
      <4> HIDE DEF Outro
      <4> USE DEF Tipo, DeUm, DeVarios
      <4>2. ASSUME NEW c \in Chat, NEW l \in Lista, Fixa(o, c, l)
            PROVE  Outro
        <5>1. Inicia(o, Pedido("fixa", "es", {c}, ~lista[l].itens[c].fixado, l))
          BY <4>2 DEF Fixa
        <5> QED
          BY <4>1, <5>1
      <4>3. ASSUME NEW c \in Chat, NEW l \in Lista, Arquiva(o, c, l) \/ ApagaChat(o, c, l)
            PROVE  Outro
        <5>1. \/ Inicia(o, Pedido("arquiva", "es", {c}, ~lista[l].itens[c].arquivado, l))
              \/ Inicia(o, Pedido("apaga", "es", {c}, TRUE, l))
          BY <4>3 DEF Arquiva, ApagaChat
        <5> QED
          BY <4>1, <5>1
      <4>4. ASSUME NEW c \in Chat, Desarquiva(o, c)
            PROVE  Outro
        <5>1. Inicia(o, Pedido("arquiva", "es", {c}, ~vista[c].arquivado, "archiveChats"))
          BY <4>4 DEF Desarquiva
        <5> QED
          BY <4>1, <5>1
      <4>5. ASSUME NEW t \in DeVarios, NEW l \in Lista, EmVarios(o, t, l)
            PROVE  Outro
        BY <4>1, <4>5 DEF EmVarios
      <4>6. Outro
        BY <1>8, <2>2, <3>2, <4>1, <4>2, <4>3, <4>4, <4>5 DEF Usuario
      <4>7. PICK t \in Tipo \ {"compartilha"}, f \in {"procura", "es"} : \E cs, v, l :
              op'[o] = Pedido(t, f, cs, v, l)
        BY <1>0, <4>6 DEF TipoOp, Outro
      <4> QED
        BY <4>7 DEF Passa, Pedido
    <3> QED
      BY <3>1, <3>2
  <2> QED
    BY <2>1, <2>2
<1>9. ASSUME NEW x \in Op, Procura(x)
      PROVE  Passa(o)
  <2>1. CASE x = o
    <3>1. op'[o].fase = "es" /\ op'[o].tipo = op[o].tipo
      BY <1>0, <1>9, <2>1 DEF Procura, TipoOp, Pedidos
    <3> QED
      BY <1>9, <2>1, <3>1 DEF Procura, Passa, PartilhaUm
  <2>2. CASE x # o
    BY <1>0, <1>1, <1>9, <2>2 DEF Procura, TipoOp
  <2> QED
    BY <2>1, <2>2
<1>10. ASSUME NEW x \in Op, AtualizaES(x)
       PROVE  Passa(o)
  <2>1. op[x].fase = "es" /\ \E f \in {"mongo", "ok", "erro"} : Fase(x, f)
    BY <1>10 DEF AtualizaES, Seguinte
  <2>2. CASE x = o
    <3>1. op'[o].fase \in {"mongo", "ok", "erro"} /\ op'[o].tipo = op[o].tipo
      BY <1>0, <2>1, <2>2 DEF Fase, TipoOp, Pedidos
    <3> QED
      BY <2>1, <2>2, <3>1 DEF Passa, PartilhaUm
  <2> QED
    BY <1>4, <2>1, <2>2
<1>11. ASSUME NEW x \in Op, RevogaElos(x) \/ InsereElo(x) \/ AtualizaElo(x) \/ PerdeResposta(x)
       PROVE  Passa(o)
  <2>1. op[x].fase # "livre" /\ \E f \in {"ok", "erro"} : Fase(x, f)
    BY <1>11 DEF RevogaElos, InsereElo, AtualizaElo, PerdeResposta
  <2> QED
    BY <1>3, <1>4, <2>1
<1>12. ASSUME NEW x \in Op, ConsultaElo(x)
       PROVE  Passa(o)
  <2>1. CASE Fase(x, "insere")
    <3>1. CASE x = o
      BY <1>0, <1>12, <2>1, <3>1 DEF Fase, TipoOp, Pedidos, Passa, MesmoPedido
    <3> QED
      BY <1>4, <2>1, <3>1
  <2>2. ASSUME NEW k, op' = [op EXCEPT ![x].fase = "atualiza", ![x].elos = {k}]
        PROVE  Passa(o)
    <3>1. CASE x = o
      BY <1>0, <1>12, <2>2, <3>1 DEF TipoOp, Pedidos, Passa, MesmoPedido
    <3>2. CASE x # o
      BY <1>0, <1>1, <2>2, <3>2 DEF TipoOp
    <3> QED
      BY <3>1, <3>2
  <2> QED
    BY <1>12, <2>1, <2>2 DEF ConsultaElo
<1>13. ASSUME NEW x \in Op, Resposta(x), ~PerdeResposta(x)
       PROVE  Passa(o)
  <2>1. CASE RespondeDesarquiva(x)
    <3>1. op'[o] \in {OpLivre, Solta(op[o])}
      BY <2>1 DEF RespondeDesarquiva
    <3> QED
      BY <1>0, <1>5, <3>1 DEF Passa, MesmoPedido
  <2>2. CASE ~RespondeDesarquiva(x)
    <3>1. Termina(x)
      BY <1>13, <2>2 DEF Resposta, RespondeHistorico, RespondeArquiva,
         RespondeApagaArquivado, RespondeDesarquivaTodos, RespondeSemLista
    <3>2. op'[o] \in {OpLivre, op[o]}
      BY <1>0, <3>1 DEF Termina, TipoOp
    <3> QED
      BY <1>1, <3>2 DEF Passa
  <2> QED
    BY <2>1, <2>2
<1>14. ASSUME NEW l \in Lista, Le(l)
       PROVE  UNCHANGED op
  BY <1>14 DEF Le
<1>15. ASSUME NEW ks \in SUBSET Link, RevogaNaAba(ks)
       PROVE  UNCHANGED op
  BY <1>15 DEF RevogaNaAba
<1>16. Refresca \/ (\E c \in Chat : GravaMensagem(c)) \/ UNCHANGED vars => UNCHANGED op
  BY DEF Refresca, GravaMensagem, vars
<1> QED
  BY <1>1, <1>6, <1>7, <1>8, <1>9, <1>10, <1>11, <1>12, <1>13, <1>14, <1>15, <1>16
     DEF Next, Servidor

LEMMA PartilhaUmPasso ==
  ASSUME TypeOK, PartilhaUm, [Next]_vars
  PROVE  PartilhaUm'
<1> SUFFICES ASSUME NEW o \in Op
             PROVE  /\ op'[o].fase \in {"consulta", "insere", "atualiza"} =>
                         op'[o].tipo = "compartilha"
                    /\ op'[o].fase \in {"procura", "es", "mongo"} =>
                         op'[o].tipo # "compartilha"
                    /\ op'[o].tipo = "compartilha" => \E c : op'[o].chats = {c}
  BY DEF PartilhaUm
<1>1. Passa(o)
  BY PedidoPasso
<1>2. ConsultaElo(o) => op[o].fase = "consulta"
  BY DEF ConsultaElo
<1>3. OpLivre.fase = "livre" /\ OpLivre.tipo = "fixa"
  BY DEF OpLivre
<1>4. ASSUME NEW c, op'[o] = Pedido("compartilha", "consulta", {c}, FALSE, "recentChats")
      PROVE  op'[o].tipo = "compartilha" /\ op'[o].fase = "consulta" /\ op'[o].chats = {c}
  BY <1>4 DEF Pedido
<1>5. CASE \E c \in Chat : op'[o] = Pedido("compartilha", "consulta", {c}, FALSE, "recentChats")
  BY <1>4, <1>5
<1>6. CASE ~\E c \in Chat : op'[o] = Pedido("compartilha", "consulta", {c}, FALSE, "recentChats")
  BY <1>1, <1>2, <1>3, <1>6 DEF PartilhaUm, Passa, MesmoPedido
<1> QED
  BY <1>5, <1>6

(* A chat once shared twice at once stays known.                           *)
LEMMA SobrepostosCrescem ==
  ASSUME [Next]_vars
  PROVE  sobrepostos \subseteq sobrepostos'
<1> USE DEF vFantasma, vElos
<1>1. ASSUME NEW l \in Lista, Le(l) \/ Chega(l)
      PROVE  UNCHANGED sobrepostos
  BY <1>1 DEF Le, Chega
<1>2. ASSUME NEW a \in Aba, TrocaAba(a)
      PROVE  UNCHANGED sobrepostos
  BY <1>2 DEF TrocaAba
<1>3. ASSUME NEW o \in Op, Usuario(o)
      PROVE  sobrepostos \subseteq sobrepostos'
  BY <1>3 DEF Usuario, Fixa, Arquiva, ApagaChat, Desarquiva, Compartilha, EmVarios
<1>4. ASSUME NEW o \in Op, Servidor(o)
      PROVE  sobrepostos \subseteq sobrepostos'
  BY <1>4 DEF Servidor, Procura, AtualizaES, RevogaElos, ConsultaElo, InsereElo, AtualizaElo
<1>5. ASSUME NEW o \in Op, Resposta(o)
      PROVE  UNCHANGED sobrepostos
  BY <1>5 DEF Resposta, PerdeResposta, RespondeHistorico, RespondeArquiva,
     RespondeDesarquiva, RespondeApagaArquivado, RespondeDesarquivaTodos, RespondeSemLista
<1>6. ASSUME NEW ks \in SUBSET Link, RevogaNaAba(ks)
      PROVE  UNCHANGED sobrepostos
  BY <1>6 DEF RevogaNaAba
<1>7. Refresca \/ (\E c \in Chat : GravaMensagem(c)) \/ UNCHANGED vars => UNCHANGED sobrepostos
  BY DEF Refresca, GravaMensagem, vars
<1> QED
  BY <1>1, <1>2, <1>3, <1>4, <1>5, <1>6, <1>7 DEF Next

(* An active link was active before, or has just been inserted.            *)
LEMMA EloNovo ==
  ASSUME TypeOK, [Next]_vars, NEW k \in Link, elo'[k].st = "ativo"
  PROVE  \/ elo[k].st = "ativo" /\ elo'[k].chats = elo[k].chats
         \/ \E o \in Op, c \in Chat : /\ InsereElo(o) /\ c \in op[o].chats
                                      /\ elo' = [elo EXCEPT ![k] = Ativo({c})]
<1>0. TipoElo /\ TipoOp
  BY DEF TypeOK
<1> DEFINE Velho == elo[k].st = "ativo" /\ elo'[k].chats = elo[k].chats
<1>1. ASSUME NEW ks, Revoga(ks)
      PROVE  Velho
  <2>1. elo'[k] \in {elo[k], [elo[k] EXCEPT !.st = "removido"]}
    BY <1>1 DEF Revoga
  <2> QED
    BY <1>0, <2>1 DEF TipoElo
<1>2. ASSUME NEW o \in Op, RevogaElos(o)
      PROVE  Velho
  BY <1>1, <1>2 DEF RevogaElos
<1>3. ASSUME NEW ks \in SUBSET Link, RevogaNaAba(ks)
      PROVE  Velho
  BY <1>1, <1>3 DEF RevogaNaAba
<1>4. ASSUME NEW o \in Op, InsereElo(o)
      PROVE  \/ Velho
             \/ \E c \in Chat : c \in op[o].chats /\ elo' = [elo EXCEPT ![k] = Ativo({c})]
  <2>1. PICK j \in Link, c \in op[o].chats : elo' = [elo EXCEPT ![j] = Ativo({c})]
    BY <1>4 DEF InsereElo
  <2>2. c \in Chat
    BY <1>0 DEF TipoOp, Pedidos
  <2>3. j # k => elo'[k] = elo[k]
    BY <1>0, <2>1 DEF TipoElo
  <2> QED
    BY <2>1, <2>2, <2>3
<1>5. CASE Refresca
  BY <1>5 DEF Refresca
<1>6. ASSUME NEW o \in Op, AtualizaES(o)
      PROVE  UNCHANGED elo
  BY <1>6 DEF AtualizaES
<1> QED
  BY <1>2, <1>3, <1>4, <1>5, <1>6, SoQuatroMudam

LEMMA DuasPartilhasPasso ==
  ASSUME TypeOK, PartilhaUm, DuasPartilhas, [Next]_vars
  PROVE  DuasPartilhas'
<1> SUFFICES ASSUME NEW o1 \in Op, NEW o2 \in Op, o1 # o2, NEW c,
                    op'[o1].fase # "livre", op'[o1].tipo = "compartilha",
                    op'[o2].fase # "livre", op'[o2].tipo = "compartilha",
                    c \in op'[o1].chats, c \in op'[o2].chats
             PROVE  c \in sobrepostos'
  BY DEF DuasPartilhas, Partilhando
<1>0. TipoOp /\ sobrepostos \subseteq sobrepostos' /\ PartilhaUm'
  BY SobrepostosCrescem, PartilhaUmPasso DEF TypeOK
<1> DEFINE Velha(o) == Partilhando(o) /\ op'[o].chats = op[o].chats
<1>1. ASSUME NEW o \in Op, op'[o].fase # "livre", op'[o].tipo = "compartilha"
      PROVE  Velha(o) \/ \E x \in Chat : Compartilha(o, x)
  <2>1. Passa(o)
    BY PedidoPasso
  <2>2. ConsultaElo(o) => op[o].fase # "livre"
    BY DEF ConsultaElo
  <2>3. op'[o] # OpLivre
    BY <1>1 DEF OpLivre
  <2> QED
    BY <1>1, <2>1, <2>2, <2>3 DEF Passa, MesmoPedido, Partilhando
<1>2. ASSUME NEW o \in Op, NEW p \in Op, o # p, NEW x \in Chat, Compartilha(o, x),
             op'[p].fase # "livre", op'[p].tipo = "compartilha",
             c \in op'[o].chats, c \in op'[p].chats
      PROVE  c \in sobrepostos'
  <2>1. op'[p] = op[p] /\ op'[o] = Pedido("compartilha", "consulta", {x}, FALSE, "recentChats")
    BY <1>0, <1>2 DEF Compartilha, Inicia, TipoOp
  <2>2. c = x
    BY <1>2, <2>1 DEF Pedido
  <2>3. op[p].chats = {x}
    BY <1>2, <2>1, <2>2 DEF PartilhaUm
  <2>4. p \in EmCurso
    BY <1>2, <2>1 DEF EmCurso
  <2> QED
    BY <1>2, <2>1, <2>2, <2>3, <2>4 DEF Compartilha
<1>3. CASE Velha(o1) /\ Velha(o2)
  BY <1>0, <1>3 DEF DuasPartilhas
<1> QED
  BY <1>1, <1>2, <1>3

LEMMA SemEloPasso ==
  ASSUME TypeOK, UmChat, PartilhaUm, DuasPartilhas, SemElo, [Next]_vars
  PROVE  SemElo'
<1> SUFFICES ASSUME NEW o \in Op, op'[o].fase = "insere", NEW c \in op'[o].chats,
                    NEW k \in Link, elo'[k].st = "ativo", c \in elo'[k].chats,
                    c \notin sobrepostos'
             PROVE  FALSE
  BY DEF SemElo
<1>0. TipoOp /\ TipoElo /\ c \notin sobrepostos
  BY SobrepostosCrescem DEF TypeOK
<1>1. Passa(o)
  BY PedidoPasso
<1>2. CASE MesmoPedido(o) /\ op[o].fase = "insere"
  <2>1. ~(elo[k].st = "ativo" /\ c \in elo[k].chats)
    BY <1>0, <1>2 DEF SemElo, MesmoPedido
  <2>2. PICK p \in Op, x \in Chat : /\ InsereElo(p) /\ x \in op[p].chats
                                    /\ elo' = [elo EXCEPT ![k] = Ativo({x})]
    BY <2>1, EloNovo
  <2>3. c = x
    BY <1>0, <2>2 DEF Ativo, TipoElo
  <2>4. p # o
    <3>1. p = o => op'[o].fase = "ok"
      BY <1>0, <2>2 DEF InsereElo, Fase, TipoOp, Pedidos
    <3> QED
      BY <3>1
  <2>5. Partilhando(o) /\ Partilhando(p)
    BY <1>2, <2>2 DEF InsereElo, PartilhaUm, Partilhando
  <2> QED
    BY <1>0, <1>2, <2>2, <2>3, <2>4, <2>5 DEF DuasPartilhas, MesmoPedido
<1>3. CASE MesmoPedido(o) /\ ConsultaElo(o)
  <2>1. UNCHANGED elo
    BY <1>3 DEF ConsultaElo
  <2>2. op[o].chats = {c}
    BY <1>3 DEF ConsultaElo, PartilhaUm, MesmoPedido
  <2>3. k \in ElosDe(op[o].chats)
    BY <2>1, <2>2 DEF ElosDe, UmChat
  <2>4. ASSUME NEW j, op' = [op EXCEPT ![o].fase = "atualiza", ![o].elos = {j}]
        PROVE  FALSE
    <3>1. op'[o].fase = "atualiza"
      BY <1>0, <2>4 DEF TipoOp, Pedidos
    <3> QED
      BY <3>1
  <2> QED
    BY <1>3, <2>2, <2>3, <2>4 DEF ConsultaElo
<1>4. op'[o] # OpLivre
  BY DEF OpLivre
<1>5. ASSUME NEW x, op'[o] = Pedido("compartilha", "consulta", {x}, FALSE, "recentChats")
      PROVE  FALSE
  BY <1>5 DEF Pedido
<1> QED
  BY <1>1, <1>2, <1>3, <1>4, <1>5 DEF Passa

LEMMA UmEloPasso ==
  ASSUME TypeOK, SemElo, UmElo, [Next]_vars
  PROVE  UmElo'
<1> SUFFICES ASSUME NEW k1 \in Link, NEW k2 \in Link, k1 # k2, NEW c,
                    elo'[k1].st = "ativo", elo'[k2].st = "ativo",
                    c \in elo'[k1].chats, c \in elo'[k2].chats
             PROVE  c \in sobrepostos'
  BY DEF UmElo
<1>0. TipoElo /\ sobrepostos \subseteq sobrepostos'
  BY SobrepostosCrescem DEF TypeOK
<1> DEFINE Velho(k) == elo[k].st = "ativo" /\ elo'[k].chats = elo[k].chats
<1>1. ASSUME NEW k \in Link, NEW j \in Link, k # j, elo'[k].st = "ativo", elo'[j].st = "ativo",
             c \in elo'[k].chats, c \in elo'[j].chats, ~Velho(k)
      PROVE  c \in sobrepostos'
  <2>1. PICK o \in Op, x \in Chat : /\ InsereElo(o) /\ x \in op[o].chats
                                    /\ elo' = [elo EXCEPT ![k] = Ativo({x})]
    BY <1>1, EloNovo
  <2>2. c = x
    BY <1>0, <1>1, <2>1 DEF Ativo, TipoElo
  <2>3. elo'[j] = elo[j]
    BY <1>0, <1>1, <2>1 DEF TipoElo
  <2> QED
    BY <1>0, <1>1, <2>1, <2>2, <2>3 DEF InsereElo, SemElo
<1>2. CASE Velho(k1) /\ Velho(k2)
  BY <1>0, <1>2 DEF UmElo
<1> QED
  BY <1>1, <1>2

(* A chat has one active link, for any number of chats, links and requests *)
(* at once, unless two requests shared it together or a query failed.      *)
THEOREM OneLinkPerChat == Spec => []UmElo
<1> DEFINE Inv == TypeOK /\ UmChat /\ PartilhaUm /\ DuasPartilhas /\ SemElo /\ UmElo
<1>1. Init => Inv
  <2> SUFFICES ASSUME Init
               PROVE  Inv
    OBVIOUS
  <2>1. \A o \in Op : op[o].fase = "livre" /\ op[o].tipo = "fixa"
    BY DEF Init, OpLivre
  <2>2. PartilhaUm /\ DuasPartilhas /\ SemElo
    BY <2>1 DEF PartilhaUm, DuasPartilhas, SemElo, Partilhando
  <2>3. ASSUME NEW k1 \in Link, NEW k2 \in Link, k1 # k2, NEW c,
               elo[k1].st = "ativo", elo[k2].st = "ativo",
               c \in elo[k1].chats, c \in elo[k2].chats
        PROVE  FALSE
    <3>1. ASSUME NEW k \in Link
          PROVE  elo[k] = Livre \/ \E x \in Chat : elo[k] = Ativo({x})
      BY DEF Init
    <3>2. elo[k1] # Livre /\ elo[k2] # Livre
      BY <2>3 DEF Livre
    <3>3. PICK x \in Chat, y \in Chat : elo[k1] = Ativo({x}) /\ elo[k2] = Ativo({y})
      BY <3>1, <3>2
    <3>4. x = c /\ y = c
      BY <2>3, <3>3 DEF Ativo
    <3>5. elo[k1] = elo[k2]
      BY <3>3, <3>4
    <3> QED
      BY <2>3, <3>2, <3>5 DEF Init
  <2>4. UmElo
    BY <2>3 DEF UmElo
  <2> QED
    BY <2>2, <2>4, InicioOK, UmChatInicio
<1>2. Inv /\ [Next]_vars => Inv'
  <2> SUFFICES ASSUME Inv, [Next]_vars
               PROVE  Inv'
    OBVIOUS
  <2>1. TypeOK'
    BY TipoLojaPasso, EloPasso, TipoOpPasso, TipoContaPasso DEF TypeOK
  <2>2. UmChat'
    BY EloPasso, UmChatPasso
  <2> QED
    BY <2>1, <2>2, PartilhaUmPasso, DuasPartilhasPasso, SemEloPasso, UmEloPasso
<1> QED
  BY <1>1, <1>2, PTL DEF Spec

-----------------------------------------------------------------------------
(* The lists of the interface against the store.                           *)

(* What a list holds, what its fetch brings, and the copy of the archive.  *)
Item == [fixado : BOOLEAN, arquivado : BOOLEAN]
Itens == UNION {[cs -> Item] : cs \in SUBSET Chat}
Cache == [carregada : BOOLEAN, velha : BOOLEAN, itens : Itens]
TipoTela ==
  /\ lista \in [Lista -> Cache]
  /\ busca \in [Lista -> [fase : {"parada", "pedida", "lida"}, itens : Itens]]
  /\ vista \in Itens

LEMMA ItensTipo ==
  ASSUME NEW f
  PROVE  /\ f \in Itens => DOMAIN f \subseteq Chat /\ (\A c \in DOMAIN f : f[c] \in Item)
         /\ \A cs \in SUBSET Chat : f \in [cs -> Item] => f \in Itens
BY DEF Itens

LEMMA VazioTipo == <<>> \in Itens
<1>1. <<>> \in [{} -> Item]
  OBVIOUS
<1> QED
  BY <1>1, ItensTipo

LEMMA VisaoTipo ==
  ASSUME NEW docs \in [Chat -> Documento], NEW l
  PROVE  Visao(l, docs) \in Itens
<1> DEFINE cs == {x \in Chat : Pertence(l, docs[x])}
           v == [c \in cs |-> [fixado |-> docs[c].fixado, arquivado |-> docs[c].arquivado]]
<1>1. cs \in SUBSET Chat
  OBVIOUS
<1>2. \A c \in cs : [fixado |-> docs[c].fixado, arquivado |-> docs[c].arquivado] \in Item
  BY DEF Documento, Item
<1> HIDE DEF cs
<1>3. v \in [cs -> Item]
  BY <1>2
<1>4. Visao(l, docs) = v
  BY DEF Visao, cs
<1> HIDE DEF v
<1> QED
  BY <1>1, <1>3, <1>4, ItensTipo

(* Objects changed in place keep the chats of their list.                  *)
LEMMA MudaItens ==
  ASSUME NEW f \in Itens, NEW g, DOMAIN g = DOMAIN f, g = [c \in DOMAIN f |-> g[c]],
         \A c \in DOMAIN f : g[c] \in Item
  PROVE  g \in Itens
<1>1. DOMAIN f \in SUBSET Chat
  BY ItensTipo
<1>2. g \in [DOMAIN f -> Item]
  OBVIOUS
<1> QED
  BY <1>1, <1>2, ItensTipo

LEMMA TelaInicio == Init => TipoTela
<1> SUFFICES ASSUME Init PROVE TipoTela
  OBVIOUS
<1>1. doc \in [Chat -> Documento]
  BY ListsAssumption DEF Init
<1>2. \A l \in Lista : Visao(l, doc) \in Itens
  BY <1>1, VisaoTipo
<1> QED
  BY <1>2, VazioTipo DEF Init, TipoTela, Vazia, Cache

LEMMA InvalidaTipo ==
  ASSUME TipoTela, NEW ts \in [Lista -> Cache], NEW ls, NEW bs, InvalidaEm(ts, ls, bs)
  PROVE  /\ lista' \in [Lista -> Cache]
         /\ busca' \in [Lista -> [fase : {"parada", "pedida", "lida"}, itens : Itens]]
<1>1. \A l \in Lista : [ts[l] EXCEPT !.velha = TRUE] \in Cache
  BY DEF Cache
<1>2. \A l \in Lista : Rebusca(busca[l], l) \in [fase : {"parada", "pedida", "lida"}, itens : Itens]
  BY VazioTipo DEF Rebusca, TipoTela
<1> QED
  BY <1>1, <1>2 DEF InvalidaEm, TipoTela

LEMMA MexeTipo ==
  ASSUME TipoTela, NEW o \in Op, NEW v \in BOOLEAN
  PROVE  /\ Mexe(o, v) \in [Lista -> Cache]
         /\ \A l \in Lista : /\ l # op[o].lista => Mexe(o, v)[l] = lista[l]
                             /\ Mexe(o, v)[l].carregada = lista[l].carregada
<1> DEFINE r == op[o]
           Item1(l, c) == IF c \in r.chats THEN [lista[l].itens[c] EXCEPT !.arquivado = v]
                          ELSE lista[l].itens[c]
           Novos(l) == [c \in DOMAIN lista[l].itens |-> Item1(l, c)]
<1>1. ASSUME NEW l \in Lista
      PROVE  /\ Novos(l) \in Itens
             /\ [lista[l] EXCEPT !.itens = Novos(l)] \in Cache
             /\ [lista[l] EXCEPT !.itens = Novos(l)].carregada = lista[l].carregada
  <2>1. lista[l].itens \in Itens /\ lista[l] \in Cache
    BY DEF TipoTela, Cache
  <2>2. \A c \in DOMAIN lista[l].itens : lista[l].itens[c] \in Item
    BY <2>1, ItensTipo
  <2>3. \A c \in DOMAIN lista[l].itens : Item1(l, c) \in Item
    BY <2>2 DEF Item
  <2>4. Novos(l) \in Itens
    <3> HIDE DEF Item1
    <3> QED
      BY <2>1, <2>3, MudaItens
  <2> HIDE DEF Novos
  <2> QED
    BY <2>1, <2>4 DEF Cache
<1>2. \A l \in Lista : Mexe(o, v)[l] = IF l = r.lista /\ r.preso /\ r.chats \subseteq DOMAIN lista[l].itens
                                       THEN [lista[l] EXCEPT !.itens = Novos(l)] ELSE lista[l]
  BY DEF Mexe
<1>3. Mexe(o, v) = [l \in Lista |-> Mexe(o, v)[l]]
  BY DEF Mexe
<1> HIDE DEF Novos, r
<1>4. \A l \in Lista : Mexe(o, v)[l] \in Cache
  BY <1>1, <1>2 DEF TipoTela
<1> QED
  BY <1>1, <1>2, <1>3, <1>4 DEF r

LEMMA TelaPasso ==
  ASSUME TypeOK, TipoTela, [Next]_vars
  PROVE  TipoTela'
<1> DEFINE Buscas == [fase : {"parada", "pedida", "lida"}, itens : Itens]
<1>0. /\ lista \in [Lista -> Cache] /\ busca \in [Lista -> Buscas] /\ vista \in Itens
      /\ doc \in [Chat -> Documento] /\ indice \in [Chat -> Documento]
  BY DEF TipoTela, TypeOK, TipoLoja
<1>1. UNCHANGED <<lista, busca, vista>> => TipoTela'
  BY <1>0 DEF TipoTela
<1>2. ASSUME NEW l \in Lista
      PROVE  /\ lista[l] \in Cache /\ lista[l].itens \in Itens /\ busca[l].itens \in Itens
             /\ \A c \in DOMAIN lista[l].itens : lista[l].itens[c] \in Item
  BY <1>0, ItensTipo DEF Cache
<1>3. ASSUME NEW ts \in [Lista -> Cache], NEW ls, NEW bs, InvalidaEm(ts, ls, bs), vista' \in Itens
      PROVE  TipoTela'
  BY <1>3, InvalidaTipo DEF TipoTela
<1>4. <<>> \in Itens
  BY VazioTipo
<1>5. ASSUME NEW l \in Lista, Le(l)
      PROVE  TipoTela'
  <2>1. Visao(l, indice) \in Itens
    BY <1>0, VisaoTipo
  <2>2. [fase |-> "lida", itens |-> Visao(l, indice)] \in Buscas
    BY <2>1
  <2> HIDE DEF Buscas
  <2>3. busca' \in [Lista -> Buscas]
    BY <1>0, <1>5, <2>2 DEF Le
  <2> QED
    BY <1>0, <1>5, <2>3 DEF Le, TipoTela, Buscas
<1>6. ASSUME NEW l \in Lista, Chega(l)
      PROVE  TipoTela'
  <2>1. [carregada |-> TRUE, velha |-> FALSE, itens |-> busca[l].itens] \in Cache
    BY <1>2 DEF Cache
  <2>2. BuscaParada \in Buscas
    BY <1>4 DEF BuscaParada
  <2>3. vista' \in Itens
    BY <1>0, <1>2, <1>6 DEF Chega
  <2>4. lista' \in [Lista -> Cache]
    BY <1>0, <1>6, <2>1 DEF Chega
  <2> HIDE DEF Buscas
  <2>5. busca' \in [Lista -> Buscas]
    BY <1>0, <1>6, <2>2 DEF Chega
  <2> QED
    BY <2>3, <2>4, <2>5 DEF TipoTela, Buscas
<1>7. ASSUME NEW a \in Aba, TrocaAba(a)
      PROVE  TipoTela'
  <2>1. vista' \in Itens
    BY <1>2, <1>4, <1>7 DEF TrocaAba, Monta, Lista
  <2>2. \E ls, bs : InvalidaEm(lista, ls, bs)
    BY <1>7 DEF TrocaAba, Monta, Invalida
  <2> QED
    BY <1>0, <1>3, <2>1, <2>2
<1>8. ASSUME NEW o \in Op, Usuario(o)
      PROVE  TipoTela'
  <2>1. ASSUME NEW c \in Chat, NEW l \in Lista, Fixa(o, c, l)
        PROVE  TipoTela'
    <3> DEFINE v == ~lista[l].itens[c].fixado
               i == [lista[l].itens[c] EXCEPT !.fixado = v]
               g == [lista[l].itens EXCEPT ![c] = i]
               r == [lista[l] EXCEPT !.itens = g]
    <3>1. c \in DOMAIN lista[l].itens
      BY <2>1 DEF Fixa
    <3>2. i \in Item
      BY <1>2, <3>1 DEF Item
    <3>3. lista' = [lista EXCEPT ![l] = r]
      BY <2>1 DEF Fixa
    <3> HIDE DEF i
    <3>4. g \in Itens
      BY <1>2, <3>1, <3>2, MudaItens
    <3> HIDE DEF g
    <3>5. r \in Cache
      BY <1>2, <3>4 DEF Cache
    <3> HIDE DEF r
    <3>6. lista' \in [Lista -> Cache]
      BY <1>0, <3>3, <3>5
    <3> QED
      BY <1>0, <2>1, <3>6 DEF Fixa, TipoTela
  <2>2. ASSUME NEW c \in Chat, NEW l \in Lista, ApagaChat(o, c, l)
        PROVE  TipoTela'
    <3>1. Restrict(vista, DOMAIN vista \ {c}) \in Itens
      <4>1. Restrict(vista, DOMAIN vista \ {c}) \in [DOMAIN vista \ {c} -> Item]
        BY <1>0, ItensTipo DEF Restrict
      <4>2. DOMAIN vista \ {c} \in SUBSET Chat
        BY <1>0, ItensTipo
      <4> QED
        BY <4>1, <4>2, ItensTipo
    <3> QED
      BY <1>0, <2>2, <3>1 DEF ApagaChat, TipoTela
  <2>3. ASSUME ~\E c \in Chat, l \in Lista : Fixa(o, c, l) \/ ApagaChat(o, c, l)
        PROVE  UNCHANGED <<lista, busca, vista>>
    BY <1>8, <2>3 DEF Usuario, Arquiva, Desarquiva, Compartilha, EmVarios, vTela
  <2> QED
    BY <1>1, <2>1, <2>2, <2>3
<1>9. ASSUME NEW o \in Op, Servidor(o) \/ PerdeResposta(o)
      PROVE  UNCHANGED <<lista, busca, vista>>
  BY <1>9 DEF Servidor, Procura, AtualizaES, RevogaElos, ConsultaElo, InsereElo, AtualizaElo,
     PerdeResposta, vTela
<1>10. ASSUME NEW o \in Op, RespondeHistorico(o) \/ RespondeApagaArquivado(o)
       PROVE  TipoTela'
  <2>1. \E ls, bs : InvalidaEm(lista, ls, bs)
    BY <1>10 DEF RespondeHistorico, RespondeApagaArquivado, Invalida
  <2>2. vista' = vista
    BY <1>10 DEF RespondeHistorico, RespondeApagaArquivado
  <2> QED
    BY <1>0, <1>3, <2>1, <2>2
<1>11. ASSUME NEW o \in Op, RespondeArquiva(o) \/ RespondeDesarquiva(o)
       PROVE  TipoTela'
  <2>1. op[o].valor \in BOOLEAN /\ FALSE \in BOOLEAN
    BY DEF TypeOK, TipoOp, Pedidos
  <2>2. \E v \in BOOLEAN : \E ls, bs : InvalidaEm(Mexe(o, v), ls, bs)
    BY <1>11, <2>1 DEF RespondeArquiva, RespondeDesarquiva
  <2>3. vista' \in {vista, <<>>}
    BY <1>11 DEF RespondeArquiva, RespondeDesarquiva
  <2> QED
    BY <1>0, <1>3, <1>4, <2>2, <2>3, MexeTipo
<1>12. ASSUME NEW o \in Op, RespondeDesarquivaTodos(o)
       PROVE  TipoTela'
  <2> DEFINE g == [c \in DOMAIN vista |-> [vista[c] EXCEPT !.arquivado = FALSE]]
  <2>1. \A c \in DOMAIN vista : [vista[c] EXCEPT !.arquivado = FALSE] \in Item
    BY <1>0, ItensTipo DEF Item
  <2>2. g \in Itens
    BY <1>0, <2>1, MudaItens
  <2>3. vista' \in {vista, g}
    BY <1>12 DEF RespondeDesarquivaTodos
  <2>4. \E ls, bs : InvalidaEm(lista, ls, bs)
    BY <1>12 DEF RespondeDesarquivaTodos, Invalida
  <2> HIDE DEF g
  <2> QED
    BY <1>0, <1>3, <2>2, <2>3, <2>4
<1>13. ASSUME NEW o \in Op, RespondeSemLista(o)
       PROVE  UNCHANGED <<lista, busca, vista>>
  BY <1>13 DEF RespondeSemLista, vTela
<1>14. ASSUME NEW c \in Chat, GravaMensagem(c)
       PROVE  TipoTela'
  <2>1. vista' = vista /\ (UNCHANGED <<lista, busca>> \/ \E ls, bs : InvalidaEm(lista, ls, bs))
    BY <1>14 DEF GravaMensagem, Invalida
  <2> QED
    BY <1>0, <1>1, <1>3, <2>1
<1>15. ASSUME NEW ks \in SUBSET Link, RevogaNaAba(ks)
       PROVE  UNCHANGED <<lista, busca, vista>>
  BY <1>15 DEF RevogaNaAba, vTela
<1>16. Refresca \/ UNCHANGED vars => UNCHANGED <<lista, busca, vista>>
  BY DEF Refresca, vars, vTela
<1> HIDE DEF Buscas
<1> QED
  BY <1>1, <1>5, <1>6, <1>7, <1>8, <1>9, <1>10, <1>11, <1>12, <1>13, <1>14, <1>15, <1>16
     DEF Next, Resposta

(* The index is behind the store only on the chats written since.          *)
Limpo == \A c \in Chat \ sujo : indice[c] = doc[c]

(* The list of the archive is loaded from the start.                       *)
ArquivoCarregado == lista["archiveChats"].carregada

LEMMA LimpoPasso ==
  ASSUME TypeOK, Limpo, [Next]_vars
  PROVE  Limpo'
<1>1. UNCHANGED vLoja => Limpo'
  BY DEF Limpo, vLoja
<1>2. ASSUME NEW o \in Op, AtualizaES(o)
      PROVE  Limpo'
  <2>1. indice' = indice /\ doc \in [Chat -> Documento]
    BY <1>2 DEF AtualizaES, TypeOK, TipoLoja
  <2>2. \/ UNCHANGED <<doc, sujo>>
        \/ \E cs : /\ sujo' = sujo \cup cs
                   /\ doc' = [c \in Chat |-> IF c \in cs THEN Muda(op[o], doc[c]) ELSE doc[c]]
    BY <1>2 DEF AtualizaES
  <2> QED
    BY <2>1, <2>2 DEF Limpo
<1>3. CASE Refresca
  BY <1>3 DEF Refresca, Limpo
<1>4. ASSUME NEW c \in Chat, GravaMensagem(c)
      PROVE  Limpo'
  BY <1>4 DEF GravaMensagem, Limpo
<1>5. ASSUME NEW l \in Lista, Le(l) \/ Chega(l)
      PROVE  UNCHANGED vLoja
  BY <1>5 DEF Le, Chega
<1>6. ASSUME NEW a \in Aba, TrocaAba(a)
      PROVE  UNCHANGED vLoja
  BY <1>6 DEF TrocaAba
<1>7. ASSUME NEW o \in Op, Usuario(o)
      PROVE  UNCHANGED vLoja
  BY <1>7 DEF Usuario, Fixa, Arquiva, ApagaChat, Desarquiva, Compartilha, EmVarios, Inicia
<1>8. ASSUME NEW o \in Op, Servidor(o), ~AtualizaES(o)
      PROVE  UNCHANGED vLoja
  BY <1>8 DEF Servidor, Procura, RevogaElos, ConsultaElo, InsereElo, AtualizaElo
<1>9. ASSUME NEW o \in Op, Resposta(o)
      PROVE  UNCHANGED vLoja
  BY <1>9 DEF Resposta, PerdeResposta, RespondeHistorico, RespondeArquiva,
     RespondeDesarquiva, RespondeApagaArquivado, RespondeDesarquivaTodos, RespondeSemLista
<1>10. ASSUME NEW ks \in SUBSET Link, RevogaNaAba(ks)
       PROVE  UNCHANGED vLoja
  BY <1>10 DEF RevogaNaAba
<1>11. CASE UNCHANGED vars
  BY <1>1, <1>11 DEF vars
<1> QED
  BY <1>1, <1>2, <1>3, <1>4, <1>5, <1>6, <1>7, <1>8, <1>9, <1>10, <1>11 DEF Next

(* The requests whose answer, whatever it is, tells a list that it may be  *)
(* old; no other changes what the list should say.                         *)
Afeta(r, l) ==
  /\ r.fase # "livre" /\ r.tipo # "compartilha"
  /\ r.tipo \in {"fixa", "desafixaTodos"} => l \in Historico
Quieta(l) == \A o \in Op : ~Afeta(op[o], l)

(* A list none of them is about says what the store says, or its fetch     *)
(* will, unless its ghost says why not.                                    *)
Dia(l) ==
  Quieta(l) /\ ~desculpa[l] =>
    /\ busca[l].fase = "parada" /\ lista[l].carregada /\ ~lista[l].velha =>
         lista[l].itens = Visao(l, doc)
    /\ busca[l].fase = "lida" => busca[l].itens = Visao(l, doc)

(* Two ways to keep it: the list is told, or nothing about it changes.     *)
Avisada(l) ==
  \/ busca'[l].fase = "pedida" \/ desculpa'[l]
  \/ busca'[l].fase = "parada" /\ lista'[l].velha
Igual(l) ==
  lista'[l] = lista[l] /\ busca'[l] = busca[l] /\ (desculpa[l] => desculpa'[l])
Restam(l) == \A o \in Op : Afeta(op[o], l) => Afeta(op'[o], l)
MesmaVisao(l) == Visao(l, doc') = Visao(l, doc)

LEMMA DiaAvisada ==
  ASSUME NEW l, Avisada(l)
  PROVE  Dia(l)'
BY DEF Dia, Avisada

LEMMA DiaIgual ==
  ASSUME NEW l, Dia(l), Igual(l), Restam(l), MesmaVisao(l)
  PROVE  Dia(l)'
<1>1. Quieta(l)' => Quieta(l)
  BY DEF Restam, Quieta
<1> QED
  BY <1>1 DEF Dia, Igual, MesmaVisao

LEMMA DiaOcupada ==
  ASSUME NEW l, NEW o \in Op, Afeta(op'[o], l)
  PROVE  Dia(l)'
BY DEF Dia, Quieta

(* An invalidation tells every list it names, and the ghost every fetch it *)
(* did not start again.                                                    *)
LEMMA InvalidaAvisa ==
  ASSUME TypeOK, TipoTela, NEW ts, NEW ls, NEW bs, NEW cs, NEW xs, cs \subseteq bs,
         InvalidaEm(ts, ls, bs), Desculpa(xs), Perdida(ls, cs) \subseteq xs, NEW l \in Lista,
         ts[l] \in Cache
  PROVE  \/ Avisada(l)
         \/ /\ l \notin ls /\ l \notin xs
            /\ lista'[l] = ts[l] /\ busca'[l] = busca[l] /\ (desculpa[l] => desculpa'[l])
<1>1. desculpa'[l] <=> busca'[l].fase # "pedida" /\ (desculpa[l] \/ l \in xs)
  BY DEF Desculpa
<1>2. /\ lista'[l] = IF l \in ls THEN [ts[l] EXCEPT !.velha = TRUE] ELSE ts[l]
      /\ busca'[l] = IF l \in bs THEN Rebusca(busca[l], l) ELSE busca[l]
  BY DEF InvalidaEm
<1>3. CASE busca'[l].fase = "pedida"
  BY <1>3 DEF Avisada
<1>4. CASE busca'[l].fase # "pedida" /\ l \in xs
  BY <1>1, <1>4 DEF Avisada
<1>5. CASE busca'[l].fase # "pedida" /\ l \notin xs
  <2>1. busca'[l] = busca[l] /\ (l \in bs => busca[l].fase # "parada" /\ ~lista[l].carregada)
    BY <1>2, <1>5 DEF Rebusca
  <2>2. CASE l \in ls
    <3>1. busca[l].fase = "parada"
      BY <1>5, <2>1, <2>2 DEF Perdida
    <3>2. lista'[l].velha
      BY <1>2, <2>2 DEF Cache
    <3> QED
      BY <2>1, <3>1, <3>2 DEF Avisada
  <2>3. CASE l \notin ls
    BY <1>1, <1>2, <1>5, <2>1, <2>3
  <2> QED
    BY <2>2, <2>3
<1> QED
  BY <1>3, <1>4, <1>5

LEMMA ArquivoPasso ==
  ASSUME TypeOK, TipoTela, ArquivoCarregado, [Next]_vars
  PROVE  ArquivoCarregado'
<1> DEFINE a == "archiveChats"
<1>0. a \in Lista /\ a \notin Historico /\ lista \in [Lista -> Cache] /\ lista[a].carregada
  BY DEF Lista, Historico, TipoTela, ArquivoCarregado
<1>1. lista' = lista => ArquivoCarregado'
  BY DEF ArquivoCarregado
<1>2. ASSUME NEW ts \in [Lista -> Cache], ts[a].carregada, NEW ls, NEW bs, InvalidaEm(ts, ls, bs)
      PROVE  ArquivoCarregado'
  <2>1. lista'[a] \in {ts[a], [ts[a] EXCEPT !.velha = TRUE]} /\ ts[a] \in Cache
    BY <1>0, <1>2 DEF InvalidaEm
  <2> QED
    BY <1>2, <2>1 DEF ArquivoCarregado, Cache
<1>3. ASSUME NEW l \in Lista, Chega(l)
      PROVE  ArquivoCarregado'
  BY <1>0, <1>3 DEF Chega, ArquivoCarregado
<1>4. ASSUME NEW o \in Op, NEW c \in Chat, NEW l \in Lista, Fixa(o, c, l)
      PROVE  ArquivoCarregado'
  <2>1. l \in Historico /\ \E r : lista' = [lista EXCEPT ![l] = r]
    BY <1>4 DEF Fixa
  <2> QED
    BY <1>0, <2>1 DEF ArquivoCarregado
<1>5. ASSUME NEW o \in Op, Resposta(o)
      PROVE  ArquivoCarregado'
  <2>1. op[o].valor \in BOOLEAN /\ FALSE \in BOOLEAN
    BY DEF TypeOK, TipoOp, Pedidos
  <2>2. CASE PerdeResposta(o) \/ RespondeSemLista(o)
    BY <1>1, <2>2 DEF PerdeResposta, RespondeSemLista, vTela
  <2>3. CASE RespondeHistorico(o) \/ RespondeApagaArquivado(o) \/ RespondeDesarquivaTodos(o)
    <3>1. \E ls, bs : InvalidaEm(lista, ls, bs)
      BY <2>3 DEF RespondeHistorico, RespondeApagaArquivado, RespondeDesarquivaTodos, Invalida
    <3> QED
      BY <1>0, <1>2, <3>1
  <2>4. CASE RespondeArquiva(o) \/ RespondeDesarquiva(o)
    <3>1. \E v \in BOOLEAN : \E ls, bs : InvalidaEm(Mexe(o, v), ls, bs)
      BY <2>1, <2>4 DEF RespondeArquiva, RespondeDesarquiva
    <3> QED
      BY <1>0, <1>2, <3>1, MexeTipo
  <2> QED
    BY <1>5, <2>2, <2>3, <2>4 DEF Resposta
<1>6. ASSUME NEW x \in Aba, TrocaAba(x)
      PROVE  ArquivoCarregado'
  BY <1>0, <1>2, <1>6 DEF TrocaAba, Monta, Invalida
<1>7. ASSUME NEW c \in Chat, GravaMensagem(c)
      PROVE  ArquivoCarregado'
  BY <1>0, <1>1, <1>2, <1>7 DEF GravaMensagem, Invalida
<1>8. ASSUME NEW o \in Op, Usuario(o), ~\E c \in Chat, l \in Lista : Fixa(o, c, l)
      PROVE  lista' = lista
  BY <1>8 DEF Usuario, Arquiva, ApagaChat, Desarquiva, Compartilha, EmVarios, vTela
<1>9. ASSUME NEW o \in Op, Servidor(o)
      PROVE  lista' = lista
  BY <1>9 DEF Servidor, Procura, AtualizaES, RevogaElos, ConsultaElo, InsereElo, AtualizaElo, vTela
<1>10. ASSUME NEW ks \in SUBSET Link, RevogaNaAba(ks)
       PROVE  lista' = lista
  BY <1>10 DEF RevogaNaAba, vTela
<1>11. (\E l \in Lista : Le(l)) \/ Refresca \/ UNCHANGED vars => lista' = lista
  BY DEF Le, Refresca, vars, vTela
<1> QED
  BY <1>1, <1>3, <1>4, <1>5, <1>6, <1>7, <1>8, <1>9, <1>10, <1>11 DEF Next

(* The requests in flight stay so, unless they end.                        *)
LEMMA FaseResta ==
  ASSUME TipoOp, NEW x \in Op, NEW f, f # "livre", Fase(x, f), NEW l
  PROVE  Restam(l)
<1>1. op'[x].fase = f /\ op'[x].tipo = op[x].tipo
  BY DEF Fase, TipoOp, Pedidos
<1>2. \A o \in Op \ {x} : op'[o] = op[o]
  BY DEF Fase, TipoOp
<1> QED
  BY <1>1, <1>2 DEF Restam, Afeta

LEMMA TerminaResta ==
  ASSUME TipoOp, NEW x \in Op, NEW l, ~Afeta(op[x], l),
         \A o \in Op \ {x} : op'[o] \in {op[o], Solta(op[o])}
  PROVE  Restam(l)
<1>1. \A r \in Pedidos : Solta(r).fase = r.fase /\ Solta(r).tipo = r.tipo
  BY DEF Solta, Pedidos
<1>2. ASSUME NEW o \in Op, o # x
      PROVE  op'[o].fase = op[o].fase /\ op'[o].tipo = op[o].tipo
  BY <1>1, <1>2 DEF TipoOp
<1> QED
  BY <1>2 DEF Restam, Afeta

LEMMA SoltaResta ==
  ASSUME TipoOp, NEW l,
         \A o \in Op : op'[o] \in {op[o], Solta(op[o]), [op[o] EXCEPT !.preso = FALSE]}
  PROVE  Restam(l)
<1>1. \A r \in Pedidos : /\ Solta(r).fase = r.fase /\ Solta(r).tipo = r.tipo
                         /\ [r EXCEPT !.preso = FALSE].fase = r.fase
                         /\ [r EXCEPT !.preso = FALSE].tipo = r.tipo
  BY DEF Solta, Pedidos
<1>2. ASSUME NEW o \in Op
      PROVE  op'[o].fase = op[o].fase /\ op'[o].tipo = op[o].tipo
  BY <1>1, <1>2 DEF TipoOp
<1> QED
  BY <1>2 DEF Restam, Afeta

(* An update changes what a list should say only if its request affects    *)
(* the list.                                                               *)
LEMMA AtualizaVisao ==
  ASSUME TypeOK, PartilhaUm, Limpo, NEW o \in Op, AtualizaES(o), NEW l \in Lista,
         ~Afeta(op[o], l)
  PROVE  MesmaVisao(l)
<1> DEFINE r == op[o]
           alvo == {c \in r.chats : Casa(r, indice[c]) /\ c \notin sujo}
<1>1. /\ r.fase = "es" /\ r.tipo # "compartilha" /\ r \in Pedidos
      /\ doc \in [Chat -> Documento]
  BY DEF AtualizaES, PartilhaUm, TypeOK, TipoLoja, TipoOp
<1>2. r.tipo \in {"fixa", "desafixaTodos"} /\ l = "archiveChats"
  BY <1>1 DEF Afeta, Lista
<1>3. CASE doc' = doc
  BY <1>3 DEF MesmaVisao
<1>4. CASE doc' = [c \in Chat |-> IF c \in alvo THEN Muda(r, doc[c]) ELSE doc[c]]
  <2>1. ASSUME NEW c \in Chat, c \in alvo
        PROVE  ~Pertence(l, doc[c]) /\ ~Pertence(l, doc'[c])
    <3>1. Casa(r, indice[c]) /\ indice[c] = doc[c]
      BY <2>1 DEF Limpo
    <3>2. ~doc[c].arquivado
      BY <1>2, <3>1 DEF Casa, Apaga
    <3>3. doc'[c] = [doc[c] EXCEPT !.fixado = r.valor]
      BY <1>2, <1>4, <2>1 DEF Muda, Apaga
    <3>4. ~doc'[c].arquivado
      BY <1>1, <3>2, <3>3 DEF Documento
    <3> QED
      BY <1>2, <3>2, <3>4 DEF Pertence
  <2>2. \A c \in Chat : c \notin alvo => doc'[c] = doc[c]
    BY <1>4
  <2> HIDE DEF alvo
  <2>3. {x \in Chat : Pertence(l, doc'[x])} = {x \in Chat : Pertence(l, doc[x])}
    BY <2>1, <2>2
  <2>4. \A c \in {x \in Chat : Pertence(l, doc[x])} : doc'[c] = doc[c]
    BY <2>1, <2>2
  <2> QED
    BY <2>3, <2>4 DEF MesmaVisao, Visao
<1> QED
  BY <1>3, <1>4 DEF AtualizaES

(* The answers.                                                            *)
LEMMA DiaResposta ==
  ASSUME TypeOK, TipoTela, ArquivoCarregado, NEW l \in Lista, Dia(l), NEW x \in Op, Resposta(x)
  PROVE  Dia(l)'
<1> DEFINE r == op[x]
           a == "archiveChats"
<1>0. /\ TipoOp /\ lista[l] \in Cache /\ lista \in [Lista -> Cache]
      /\ Lista = Historico \cup {a} /\ a \notin Historico
  BY DEF TypeOK, TipoTela, Lista, Historico
<1>1. MesmaVisao(l)
  <2>1. doc' = doc
    BY DEF Resposta, PerdeResposta, RespondeHistorico, RespondeArquiva, RespondeDesarquiva,
       RespondeApagaArquivado, RespondeDesarquivaTodos, RespondeSemLista, vLoja
  <2> QED
    BY <2>1 DEF MesmaVisao
<1>2. ASSUME Termina(x), ~Afeta(r, l)
      PROVE  Restam(l)
  <2>1. \A o \in Op \ {x} : op'[o] = op[o]
    BY <1>0, <1>2 DEF Termina, TipoOp
  <2> QED
    BY <1>0, <1>2, <2>1, TerminaResta
<1>3. CASE PerdeResposta(x)
  <2>1. Restam(l)
    BY <1>0, <1>3, FaseResta DEF PerdeResposta
  <2>2. Igual(l)
    BY <1>3 DEF PerdeResposta, Igual, vTela, vFantasma
  <2> QED
    BY <1>1, <2>1, <2>2, DiaIgual
<1>4. CASE RespondeHistorico(x)
  <2> DEFINE xs == Perdida(Historico, Historico) \cup (IF r.tipo \in Apaga THEN {a} ELSE {})
  <2>1. InvalidaEm(lista, Historico, Historico) /\ Desculpa(xs) /\ Termina(x)
    BY <1>4 DEF RespondeHistorico, Invalida, Atualizadas
  <2>2. Perdida(Historico, Historico) \subseteq xs
    OBVIOUS
  <2>3. r.tipo \in Apaga => a \in xs
    OBVIOUS
  <2> HIDE DEF xs
  <2>4. \/ Avisada(l)
        \/ /\ l \notin Historico /\ l \notin xs
           /\ lista'[l] = lista[l] /\ busca'[l] = busca[l] /\ (desculpa[l] => desculpa'[l])
    BY <1>0, <2>1, <2>2, InvalidaAvisa
  <2>5. ASSUME l \notin Historico, l \notin xs
        PROVE  ~Afeta(r, l)
    <3>1. r.tipo \in {"fixa", "desafixaTodos"}
      BY <1>0, <1>4, <2>3, <2>5 DEF RespondeHistorico, Apaga
    <3> QED
      BY <2>5, <3>1 DEF Afeta
  <2> QED
    BY <1>1, <1>2, <2>1, <2>4, <2>5, DiaAvisada, DiaIgual DEF Igual
<1>5. CASE RespondeArquiva(x)
  <2> DEFINE cs == Historico \cap Montadas(aba)
             xs == {a} \cup Perdida(Historico, cs)
  <2>1. InvalidaEm(Mexe(x, r.valor), Historico, cs) /\ Desculpa(xs)
    BY <1>5 DEF RespondeArquiva
  <2>2. Mexe(x, r.valor)[l] \in Cache
    BY <1>0, MexeTipo DEF TipoOp, Pedidos
  <2>3. Perdida(Historico, cs) \subseteq xs /\ a \in xs
    OBVIOUS
  <2> HIDE DEF xs, cs
  <2>4. \/ Avisada(l)
        \/ /\ l \notin Historico /\ l \notin xs
    BY <1>0, <2>1, <2>2, <2>3, InvalidaAvisa
  <2> QED
    BY <1>0, <2>3, <2>4, DiaAvisada
<1>6. CASE RespondeDesarquiva(x)
  <2> DEFINE ok == r.fase = "ok"
             antes == IF ok THEN Historico ELSE {}
             monta == aba # "history"
             bs == (antes \cap Montadas(aba)) \cup
                   (IF monta THEN {"archiveChats"} \cup
                      {k \in Historico : busca[k].fase = "parada" /\
                                         (ok \/ ~lista[k].carregada \/ lista[k].velha)}
                    ELSE {})
             ls == antes \cup (IF monta THEN {a} ELSE {})
             cs == antes \cap Montadas(aba)
             ts == Mexe(x, FALSE)
             xs == IF ok THEN {a} \cup Perdida(antes, cs) ELSE Lista
  <2>1. InvalidaEm(ts, ls, bs) /\ Desculpa(xs)
    BY <1>6 DEF RespondeDesarquiva
  <2>2. ts[l] \in Cache
    BY <1>0, MexeTipo
  <2>3. Perdida(ls, cs) \subseteq xs
    <3>1. Perdida(ls, cs) \subseteq ls
      BY DEF Perdida
    <3>2. \A k \in Perdida(ls, cs) : k \in antes => k \in Perdida(antes, cs)
      BY DEF Perdida
    <3> QED
      BY <1>0, <3>1, <3>2
  <2>4. cs \subseteq bs
    OBVIOUS
  <2>5. l \in ls \/ l \in xs
    BY <1>0
  <2> HIDE DEF xs, ls, bs, cs, ts
  <2> QED
    <3>1. Avisada(l) \/ (l \notin ls /\ l \notin xs)
      BY <2>1, <2>2, <2>3, <2>4, InvalidaAvisa
    <3> QED
      BY <2>5, <3>1, DiaAvisada
<1>7. CASE RespondeApagaArquivado(x)
  <2>1. InvalidaEm(lista, {a}, {a}) /\ Desculpa(Historico)
    BY <1>7 DEF RespondeApagaArquivado, Invalida
  <2>2. Perdida({a}, {a}) \subseteq Historico
    BY DEF Perdida, ArquivoCarregado
  <2>3. Avisada(l) \/ (l \notin {a} /\ l \notin Historico)
    BY <1>0, <2>1, <2>2, InvalidaAvisa
  <2> QED
    BY <1>0, <2>3, DiaAvisada
<1>8. CASE RespondeDesarquivaTodos(x)
  <2> DEFINE xs == IF r.fase = "ok" THEN Historico ELSE Lista
  <2>1. InvalidaEm(lista, {a}, {a}) /\ Desculpa(xs)
    BY <1>8 DEF RespondeDesarquivaTodos, Invalida
  <2>2. Perdida({a}, {a}) \subseteq xs
    BY DEF Perdida, ArquivoCarregado
  <2>3. l \in {a} \/ l \in xs
    BY <1>0
  <2> HIDE DEF xs
  <2>4. Avisada(l) \/ (l \notin {a} /\ l \notin xs)
    BY <1>0, <2>1, <2>2, InvalidaAvisa
  <2> QED
    BY <2>3, <2>4, DiaAvisada
<1>9. CASE RespondeSemLista(x)
  <2>1. Termina(x) /\ UNCHANGED <<lista, busca>>
    BY <1>9 DEF RespondeSemLista, vTela
  <2>2. CASE r.tipo = "compartilha" /\ UNCHANGED desculpa
    <3>1. ~Afeta(r, l)
      BY <2>2 DEF Afeta
    <3> QED
      BY <1>1, <1>2, <2>1, <2>2, <3>1, DiaIgual DEF Igual
  <2>3. CASE Desculpa(Lista)
    BY <2>3, DiaAvisada DEF Desculpa, Avisada
  <2> QED
    BY <1>9, <2>2, <2>3 DEF RespondeSemLista
<1> QED
  BY <1>3, <1>4, <1>5, <1>6, <1>7, <1>8, <1>9 DEF Resposta

(* What the other steps do to the requests in flight.                      *)
LEMMA IniciaResta ==
  ASSUME TipoOp, NEW x \in Op, NEW p, Inicia(x, p), NEW l
  PROVE  Restam(l)
<1>1. op[x].fase = "livre"
  BY DEF Inicia
<1>2. \A o \in Op \ {x} : op'[o] = op[o]
  BY DEF Inicia, TipoOp
<1> QED
  BY <1>1, <1>2 DEF Restam, Afeta

LEMMA DiaUsuario ==
  ASSUME TypeOK, TipoTela, NEW l \in Lista, Dia(l), NEW o \in Op, Usuario(o)
  PROVE  Dia(l)'
<1>0. TipoOp /\ lista \in [Lista -> Cache]
  BY DEF TypeOK, TipoTela
<1>1. Restam(l)
  <2>1. \E p : Inicia(o, p)
    BY DEF Usuario, Fixa, Arquiva, ApagaChat, Desarquiva, Compartilha, EmVarios
  <2> QED
    BY <1>0, <2>1, IniciaResta
<1>2. MesmaVisao(l)
  BY DEF MesmaVisao, Usuario, Fixa, Arquiva, ApagaChat, Desarquiva, Compartilha, EmVarios,
     Inicia, vLoja
<1>3. ASSUME NEW c \in Chat, NEW k \in Lista, Fixa(o, c, k)
      PROVE  Dia(l)'
  <2>1. CASE k = l
    <3>1. k \in Historico /\ \E v : op' = [op EXCEPT ![o] = Pedido("fixa", "es", {c}, v, k)]
      BY <1>3 DEF Fixa, Inicia
    <3>2. op'[o].fase = "es" /\ op'[o].tipo = "fixa"
      BY <1>0, <3>1 DEF TipoOp, Pedido
    <3> QED
      BY <2>1, <3>1, <3>2, DiaOcupada DEF Afeta
  <2>2. CASE k # l
    <3>1. lista'[l] = lista[l]
      <4>1. \E r : lista' = [lista EXCEPT ![k] = r]
        BY <1>3 DEF Fixa
      <4> QED
        BY <1>0, <2>2, <4>1
    <3>2. Igual(l)
      BY <1>3, <3>1 DEF Fixa, Igual, vFantasma
    <3> QED
      BY <1>1, <1>2, <3>2, DiaIgual
  <2> QED
    BY <2>1, <2>2
<1>4. ASSUME ~\E c \in Chat, k \in Lista : Fixa(o, c, k)
      PROVE  Igual(l)
  BY <1>4 DEF Usuario, Arquiva, ApagaChat, Desarquiva, Compartilha, EmVarios, Igual, vTela, vFantasma
<1> QED
  BY <1>1, <1>2, <1>3, <1>4, DiaIgual

LEMMA DiaServidor ==
  ASSUME TypeOK, TipoTela, PartilhaUm, Limpo, NEW l \in Lista, Dia(l), NEW o \in Op, Servidor(o)
  PROVE  Dia(l)'
<1>0. TipoOp
  BY DEF TypeOK
<1>1. Igual(l)
  BY DEF Servidor, Procura, AtualizaES, RevogaElos, ConsultaElo, InsereElo, AtualizaElo,
     Igual, vTela, vFantasma
<1>2. Restam(l)
  <2>1. ASSUME NEW f, f # "livre", Fase(o, f)
        PROVE  Restam(l)
    BY <1>0, <2>1, FaseResta
  <2>2. CASE Procura(o)
    <3>1. /\ op[o].fase = "procura"
          /\ \E cs : op' = [op EXCEPT ![o].fase = "es", ![o].chats = cs]
      BY <2>2 DEF Procura
    <3>2. op'[o].fase = "es" /\ op'[o].tipo = op[o].tipo
      BY <1>0, <3>1 DEF TipoOp, Pedidos
    <3>3. \A x \in Op \ {o} : op'[x] = op[x]
      BY <1>0, <3>1 DEF TipoOp
    <3> QED
      BY <3>2, <3>3 DEF Restam, Afeta
  <2>3. CASE AtualizaES(o)
    BY <2>1, <2>3 DEF AtualizaES, Seguinte
  <2>4. CASE RevogaElos(o) \/ InsereElo(o) \/ AtualizaElo(o)
    BY <2>1, <2>4 DEF RevogaElos, InsereElo, AtualizaElo
  <2>5. CASE ConsultaElo(o)
    <3>1. ASSUME NEW k, op' = [op EXCEPT ![o].fase = "atualiza", ![o].elos = {k}]
          PROVE  Restam(l)
      <4>1. op'[o].fase = "atualiza" /\ op'[o].tipo = op[o].tipo
        BY <1>0, <3>1 DEF TipoOp, Pedidos
      <4>2. \A x \in Op \ {o} : op'[x] = op[x]
        BY <1>0, <3>1 DEF TipoOp
      <4> QED
        BY <4>1, <4>2 DEF Restam, Afeta
    <3> QED
      BY <2>1, <2>5, <3>1 DEF ConsultaElo
  <2> QED
    BY <2>2, <2>3, <2>4, <2>5 DEF Servidor
<1>3. CASE AtualizaES(o)
  <2>1. CASE Afeta(op[o], l)
    <3>1. Afeta(op'[o], l)
      BY <1>2, <2>1 DEF Restam
    <3> QED
      BY <3>1, DiaOcupada
  <2>2. CASE ~Afeta(op[o], l)
    BY <1>1, <1>2, <1>3, <2>2, AtualizaVisao, DiaIgual
  <2> QED
    BY <2>1, <2>2
<1>4. CASE ~AtualizaES(o)
  <2>1. MesmaVisao(l)
    BY <1>4 DEF Servidor, Procura, RevogaElos, ConsultaElo, InsereElo, AtualizaElo,
       MesmaVisao, vLoja
  <2> QED
    BY <1>1, <1>2, <2>1, DiaIgual
<1> QED
  BY <1>3, <1>4

LEMMA DiaPasso ==
  ASSUME TypeOK, TipoTela, ArquivoCarregado, Limpo, PartilhaUm, NEW l \in Lista, Dia(l),
         [Next]_vars
  PROVE  Dia(l)'
<1> DEFINE a == "archiveChats"
<1>0. /\ TipoOp /\ lista[l] \in Cache /\ lista \in [Lista -> Cache]
      /\ a \in Lista /\ a \notin Historico
      /\ busca \in [Lista -> [fase : {"parada", "pedida", "lida"}, itens : Itens]]
      /\ desculpa \in [Lista -> BOOLEAN]
      /\ indice \in [Chat -> Documento] /\ doc \in [Chat -> Documento]
  BY DEF TypeOK, TipoTela, Lista, Historico, TipoConta, TipoLoja
<1>1. ASSUME UNCHANGED op
      PROVE  Restam(l)
  BY <1>1 DEF Restam
<1>2. UNCHANGED doc => MesmaVisao(l)
  BY DEF MesmaVisao
<1>3. ASSUME NEW k \in Lista, Le(k)
      PROVE  Dia(l)'
  <2>1. CASE k = l
    <3>1. /\ busca'[l].fase = "lida" /\ busca'[l].itens = Visao(l, indice)
          /\ (desculpa'[l] <=> sujo # {}) /\ UNCHANGED doc
      BY <1>0, <1>3, <2>1 DEF Le, vLoja
    <3>2. ASSUME ~desculpa'[l]
          PROVE  Visao(l, indice) = Visao(l, doc)
      <4>1. \A c \in Chat : indice[c] = doc[c]
        BY <3>1, <3>2 DEF Limpo
      <4>2. indice = doc
        BY <1>0, <4>1
      <4> QED
        BY <4>2
    <3>3. MesmaVisao(l)
      BY <1>2, <3>1
    <3> QED
      BY <3>1, <3>2, <3>3 DEF Dia, MesmaVisao
  <2>2. CASE k # l
    BY <1>0, <1>1, <1>2, <1>3, <2>2, DiaIgual DEF Le, Igual, vLoja
  <2> QED
    BY <2>1, <2>2
<1>4. ASSUME NEW k \in Lista, Chega(k)
      PROVE  Dia(l)'
  <2> DEFINE muda == ~lista[k].carregada \/ lista[k].itens # busca[k].itens
  <2>1. \A o \in Op : op'[o] \in {op[o], Solta(op[o]), [op[o] EXCEPT !.preso = FALSE]}
    <3>1. op' = [o \in Op |-> IF muda /\ op[o].lista = k /\ op[o].tipo \in DeUm
                             THEN [op[o] EXCEPT !.preso = FALSE] ELSE op[o]]
      BY <1>4 DEF Chega
    <3> HIDE DEF muda
    <3> QED
      BY <3>1
  <2>2. Restam(l)
    BY <1>0, <2>1, SoltaResta
  <2>3. MesmaVisao(l) /\ desculpa' = desculpa
    BY <1>2, <1>4 DEF Chega, vLoja
  <2>4. CASE k = l
    <3>1. /\ busca[l].fase = "lida" /\ busca'[l].fase = "parada"
          /\ lista'[l].itens = busca[l].itens
      BY <1>0, <1>4, <2>4 DEF Chega, BuscaParada
    <3>2. Quieta(l)' => Quieta(l)
      BY <2>2 DEF Restam, Quieta
    <3> QED
      BY <2>3, <3>1, <3>2 DEF Dia, MesmaVisao
  <2>5. CASE k # l
    <3>1. Igual(l)
      BY <1>0, <1>4, <2>3, <2>5 DEF Chega, Igual
    <3> QED
      BY <2>2, <2>3, <3>1, DiaIgual
  <2> QED
    BY <2>4, <2>5
<1>5. ASSUME NEW x \in Aba, TrocaAba(x)
      PROVE  Dia(l)'
  <2> DEFINE bs == {a} \cup {k \in Historico : x = "history" /\ busca[k].fase = "parada"
                                               /\ (~lista[k].carregada \/ lista[k].velha)}
             cs == {a}
             xs == Perdida(cs, cs)
  <2>1. InvalidaEm(lista, cs, bs) /\ Desculpa(xs)
    BY <1>5 DEF TrocaAba, Monta, Invalida
  <2>2. cs \subseteq bs /\ Perdida(cs, cs) \subseteq xs
    OBVIOUS
  <2>3. Avisada(l) \/ Igual(l)
    <3> HIDE DEF bs, cs, xs
    <3>1. \/ Avisada(l)
          \/ /\ l \notin cs /\ l \notin xs
             /\ lista'[l] = lista[l] /\ busca'[l] = busca[l] /\ (desculpa[l] => desculpa'[l])
      <4>1. lista[l] \in Cache
        BY <1>0
      <4> QED
        BY ONLY TypeOK, TipoTela, l \in Lista, <2>1, <2>2, <4>1, InvalidaAvisa, Zenon
    <3> QED
      BY <3>1 DEF Igual
  <2>4. Restam(l)
    <3>1. \A o \in Op : op'[o] \in {op[o], Solta(op[o]), [op[o] EXCEPT !.preso = FALSE]}
      BY <1>5 DEF TrocaAba
    <3> QED
      BY <1>0, <3>1, SoltaResta
  <2>5. MesmaVisao(l)
    BY <1>2, <1>5 DEF TrocaAba, vLoja
  <2> QED
    BY <2>3, <2>4, <2>5, DiaAvisada, DiaIgual
<1>6. ASSUME NEW c \in Chat, GravaMensagem(c)
      PROVE  Dia(l)'
  <2> DEFINE h == {"recentChats"}
             xs == Perdida(h, h)
  <2>1. UNCHANGED <<op, doc>>
    BY <1>6 DEF GravaMensagem
  <2>2. Avisada(l) \/ Igual(l)
    <3>1. CASE InvalidaEm(lista, h, h) /\ Desculpa(xs)
      <4>1. h \subseteq h /\ Perdida(h, h) \subseteq xs
        OBVIOUS
      <4> HIDE DEF h, xs
      <4>2. \/ Avisada(l)
            \/ /\ l \notin h /\ l \notin xs
               /\ lista'[l] = lista[l] /\ busca'[l] = busca[l] /\ (desculpa[l] => desculpa'[l])
        BY <1>0, <3>1, <4>1, InvalidaAvisa
      <4> QED
        BY <4>2 DEF Igual
    <3>2. CASE UNCHANGED <<lista, busca, desculpa>>
      BY <3>2 DEF Igual
    <3> QED
      BY <1>6, <3>1, <3>2 DEF GravaMensagem, Invalida
  <2> QED
    BY <1>1, <1>2, <2>1, <2>2, DiaAvisada, DiaIgual
<1>7. ASSUME NEW ks \in SUBSET Link, RevogaNaAba(ks)
      PROVE  Dia(l)'
  BY <1>1, <1>2, <1>7, DiaIgual DEF RevogaNaAba, Igual, vTela, vLoja, vFantasma
<1>8. CASE Refresca \/ UNCHANGED vars
  <2>1. UNCHANGED <<op, doc, vTela, vFantasma>>
    BY <1>8 DEF Refresca, vars, vLoja
  <2> QED
    BY <1>1, <1>2, <2>1, DiaIgual DEF Igual, vTela, vFantasma
<1> QED
  BY <1>3, <1>4, <1>5, <1>6, <1>7, <1>8, DiaUsuario, DiaServidor, DiaResposta DEF Next

(* The copy the archive tab shows has the chats of its list, but for those *)
(* deleted, being deleted or missed by an update, and says of each what    *)
(* the list says, or that it is no longer archived.                        *)
SoApaga(o) == op[o].fase = "es" /\ op[o].tipo = "apaga"
Sai(c) ==
  c \in ignoradas \/ doc[c].apagado \/ \E o \in Op : SoApaga(o) /\ c \in op[o].chats
DaLista == lista["archiveChats"].itens
Copia ==
  aba = "archive" =>
    /\ DOMAIN vista \subseteq DOMAIN DaLista
    /\ \A c \in DOMAIN vista : vista[c] = DaLista[c] \/ ~vista[c].arquivado
    /\ \A c \in DOMAIN DaLista \ DOMAIN vista : Sai(c)

LEMMA IgnoradasCrescem ==
  ASSUME [Next]_vars
  PROVE  ignoradas \subseteq ignoradas'
<1> USE DEF vFantasma
<1>1. ASSUME NEW l \in Lista, Le(l) \/ Chega(l)
      PROVE  UNCHANGED ignoradas
  BY <1>1 DEF Le, Chega
<1>2. ASSUME NEW x \in Aba, TrocaAba(x)
      PROVE  UNCHANGED ignoradas
  BY <1>2 DEF TrocaAba
<1>3. ASSUME NEW o \in Op, Usuario(o)
      PROVE  UNCHANGED ignoradas
  BY <1>3 DEF Usuario, Fixa, Arquiva, ApagaChat, Desarquiva, Compartilha, EmVarios
<1>4. ASSUME NEW o \in Op, Servidor(o)
      PROVE  ignoradas \subseteq ignoradas'
  BY <1>4 DEF Servidor, Procura, AtualizaES, RevogaElos, ConsultaElo, InsereElo, AtualizaElo
<1>5. ASSUME NEW o \in Op, Resposta(o)
      PROVE  UNCHANGED ignoradas
  BY <1>5 DEF Resposta, PerdeResposta, RespondeHistorico, RespondeArquiva,
     RespondeDesarquiva, RespondeApagaArquivado, RespondeDesarquivaTodos, RespondeSemLista
<1>6. ASSUME NEW ks \in SUBSET Link, RevogaNaAba(ks)
      PROVE  UNCHANGED ignoradas
  BY <1>6 DEF RevogaNaAba
<1>7. Refresca \/ (\E c \in Chat : GravaMensagem(c)) \/ UNCHANGED vars => UNCHANGED ignoradas
  BY DEF Refresca, GravaMensagem, vars
<1> QED
  BY <1>1, <1>2, <1>3, <1>4, <1>5, <1>6, <1>7 DEF Next

(* A deleted chat stays deleted.                                           *)
LEMMA ApagadoFica ==
  ASSUME TypeOK, [Next]_vars, NEW c \in Chat, doc[c].apagado
  PROVE  doc'[c].apagado
<1>0. doc[c] \in Documento
  BY DEF TypeOK, TipoLoja
<1>1. ASSUME NEW o \in Op, AtualizaES(o)
      PROVE  doc'[c].apagado
  <2>1. Muda(op[o], doc[c]).apagado
    BY <1>0 DEF Muda, Documento
  <2>2. doc'[c] \in {doc[c], Muda(op[o], doc[c])}
    BY <1>1 DEF AtualizaES
  <2> QED
    BY <2>1, <2>2
<1>2. ASSUME NEW o \in Op, RevogaElos(o) \/ InsereElo(o)
      PROVE  doc' = doc
  BY <1>2 DEF RevogaElos, InsereElo, vLoja
<1>3. ASSUME NEW ks \in SUBSET Link, RevogaNaAba(ks)
      PROVE  doc' = doc
  BY <1>3 DEF RevogaNaAba, vLoja
<1>4. Refresca => doc' = doc
  BY DEF Refresca
<1> QED
  BY <1>1, <1>2, <1>3, <1>4, SoQuatroMudam

(* A request waits for its update.                                         *)
LEMMA EsperaES ==
  ASSUME TypeOK, [Next]_vars, NEW o \in Op, op[o].fase = "es", ~AtualizaES(o)
  PROVE  op'[o].fase = "es" /\ MesmoPedido(o)
<1>0. TipoOp
  BY DEF TypeOK
<1> DEFINE Fica == op'[o].fase = "es" /\ MesmoPedido(o)
<1>1. op'[o] = op[o] => Fica
  BY DEF MesmoPedido
<1>2. ASSUME NEW r \in Pedidos
      PROVE  /\ Solta(r).fase = r.fase /\ Solta(r).chats = r.chats /\ Solta(r).tipo = r.tipo
             /\ [r EXCEPT !.preso = FALSE].fase = r.fase
             /\ [r EXCEPT !.preso = FALSE].chats = r.chats
             /\ [r EXCEPT !.preso = FALSE].tipo = r.tipo
  BY DEF Solta, Pedidos
<1>3. ASSUME op'[o] \in {op[o], Solta(op[o]), [op[o] EXCEPT !.preso = FALSE]}
      PROVE  Fica
  BY <1>0, <1>2, <1>3 DEF TipoOp, MesmoPedido
<1>4. ASSUME NEW x \in Op, x # o, NEW r, op' = [op EXCEPT ![x] = r]
      PROVE  Fica
  BY <1>0, <1>1, <1>4 DEF TipoOp
<1>5. ASSUME NEW x \in Op, x # o, NEW f, Fase(x, f)
      PROVE  Fica
  BY <1>0, <1>1, <1>5 DEF Fase, TipoOp
<1>6. ASSUME NEW l \in Lista, Chega(l)
      PROVE  Fica
  BY <1>3, <1>6 DEF Chega
<1>7. ASSUME NEW x \in Aba, TrocaAba(x)
      PROVE  Fica
  BY <1>3, <1>7 DEF TrocaAba
<1>8. ASSUME NEW x \in Op, Usuario(x)
      PROVE  Fica
  <2>1. x # o /\ \E r : op' = [op EXCEPT ![x] = r]
    BY <1>8 DEF Usuario, Fixa, Arquiva, ApagaChat, Desarquiva, Compartilha, EmVarios, Inicia
  <2> QED
    BY <1>4, <2>1
<1>9. ASSUME NEW x \in Op, Servidor(x)
      PROVE  Fica
  <2>1. x # o
    BY <1>9 DEF Servidor, Procura, RevogaElos, ConsultaElo, InsereElo, AtualizaElo
  <2>2. CASE Procura(x)
    BY <1>0, <1>1, <2>1, <2>2 DEF Procura, TipoOp
  <2>3. ASSUME NEW k, op' = [op EXCEPT ![x].fase = "atualiza", ![x].elos = {k}]
        PROVE  Fica
    BY <1>0, <1>1, <2>1, <2>3 DEF TipoOp
  <2>4. CASE ConsultaElo(x)
    BY <1>5, <2>1, <2>3, <2>4 DEF ConsultaElo
  <2>5. CASE AtualizaES(x) \/ RevogaElos(x) \/ InsereElo(x) \/ AtualizaElo(x)
    BY <1>5, <2>1, <2>5 DEF AtualizaES, RevogaElos, InsereElo, AtualizaElo
  <2> QED
    BY <1>9, <2>2, <2>4, <2>5 DEF Servidor
<1>10. ASSUME NEW x \in Op, Resposta(x)
       PROVE  Fica
  <2>1. x # o
    BY <1>10 DEF Resposta, PerdeResposta, RespondeHistorico, RespondeArquiva,
       RespondeDesarquiva, RespondeApagaArquivado, RespondeDesarquivaTodos, RespondeSemLista
  <2>2. CASE RespondeDesarquiva(x)
    BY <1>3, <2>1, <2>2 DEF RespondeDesarquiva
  <2>3. CASE PerdeResposta(x)
    BY <1>5, <2>1, <2>3 DEF PerdeResposta
  <2>4. CASE ~RespondeDesarquiva(x) /\ ~PerdeResposta(x)
    <3>1. Termina(x)
      BY <1>10, <2>4 DEF Resposta, RespondeHistorico, RespondeArquiva,
         RespondeApagaArquivado, RespondeDesarquivaTodos, RespondeSemLista
    <3> QED
      BY <1>4, <2>1, <3>1 DEF Termina
  <2> QED
    BY <2>2, <2>3, <2>4
<1>11. ASSUME NEW l \in Lista, Le(l)
       PROVE  UNCHANGED op
  BY <1>11 DEF Le
<1>12. ASSUME NEW ks \in SUBSET Link, RevogaNaAba(ks)
       PROVE  UNCHANGED op
  BY <1>12 DEF RevogaNaAba
<1>13. Refresca \/ (\E c \in Chat : GravaMensagem(c)) \/ UNCHANGED vars => UNCHANGED op
  BY DEF Refresca, GravaMensagem, vars
<1> HIDE DEF Fica
<1>14. Fica
  BY <1>1, <1>6, <1>7, <1>8, <1>9, <1>10, <1>11, <1>12, <1>13 DEF Next
<1> QED
  BY <1>14 DEF Fica

LEMMA SaiPasso ==
  ASSUME TypeOK, Limpo, [Next]_vars, NEW c \in Chat, Sai(c)
  PROVE  Sai(c)'
<1>1. CASE c \in ignoradas
  BY <1>1, IgnoradasCrescem DEF Sai
<1>2. CASE doc[c].apagado
  BY <1>2, ApagadoFica DEF Sai
<1>3. ASSUME NEW o \in Op, SoApaga(o), c \in op[o].chats
      PROVE  Sai(c)'
  <2>1. CASE ~AtualizaES(o)
    <3>1. op'[o].fase = "es" /\ MesmoPedido(o)
      BY <1>3, <2>1, EsperaES DEF SoApaga
    <3> QED
      BY <1>3, <3>1 DEF SoApaga, MesmoPedido, Sai
  <2>2. CASE AtualizaES(o)
    <3> DEFINE r == op[o]
               alvo == {x \in r.chats : Casa(r, indice[x]) /\ x \notin sujo}
    <3>1. /\ r.tipo \in Apaga
          /\ \A d : Casa(r, d) <=> ~d.apagado
      BY <1>3 DEF SoApaga, Apaga, Casa
    <3>2. CASE ignoradas' = ignoradas \cup r.chats
      BY <1>3, <3>2 DEF Sai
    <3>3. CASE /\ doc' = [x \in Chat |-> IF x \in alvo THEN Muda(r, doc[x]) ELSE doc[x]]
               /\ ignoradas' = ignoradas \cup (r.chats \cap sujo)
      <4>1. CASE c \in sujo
        BY <1>3, <3>3, <4>1 DEF Sai
      <4>2. CASE c \notin sujo /\ indice[c].apagado
        <5>1. doc[c].apagado
          BY <4>2 DEF Limpo
        <5> QED
          BY <5>1, ApagadoFica DEF Sai
      <4>3. CASE c \in alvo
        <5>1. doc[c] \in Documento
          BY DEF TypeOK, TipoLoja
        <5>2. Muda(r, doc[c]).apagado
          BY <1>3, <5>1 DEF SoApaga, Apaga, Muda, Documento
        <5>3. doc'[c] = Muda(r, doc[c])
          <6> HIDE DEF alvo, r
          <6> QED
            BY <3>3, <4>3
        <5>4. doc'[c].apagado
          BY <5>2, <5>3
        <5> QED
          BY <5>4 DEF Sai
      <4> QED
        BY <1>3, <3>1, <4>1, <4>2, <4>3
    <3> QED
      BY <2>2, <3>2, <3>3 DEF AtualizaES
  <2> QED
    BY <2>1, <2>2
<1> QED
  BY <1>1, <1>2, <1>3 DEF Sai

LEMMA CopiaIgual ==
  ASSUME Copia, UNCHANGED <<aba, vista>>, DaLista' = DaLista, DOMAIN DaLista \subseteq Chat,
         \A c \in Chat : Sai(c) => Sai(c)'
  PROVE  Copia'
BY DEF Copia

LEMMA InvalidaItens ==
  ASSUME NEW ts, ts["archiveChats"] \in Cache, NEW ls, NEW bs, InvalidaEm(ts, ls, bs)
  PROVE  DaLista' = ts["archiveChats"].itens
<1> DEFINE l == "archiveChats"
<1>1. lista'[l] \in {ts[l], [ts[l] EXCEPT !.velha = TRUE]}
  BY DEF InvalidaEm, Lista
<1>2. [ts[l] EXCEPT !.velha = TRUE].itens = ts[l].itens
  BY DEF Cache
<1> QED
  BY <1>1, <1>2 DEF DaLista

LEMMA CopiaPasso ==
  ASSUME TypeOK, TipoTela, Limpo, Copia, [Next]_vars
  PROVE  Copia'
<1> DEFINE a == "archiveChats"
<1>0. /\ a \in Lista /\ a \notin Historico /\ lista \in [Lista -> Cache] /\ lista[a] \in Cache
      /\ vista \in Itens /\ DOMAIN DaLista \subseteq Chat /\ DOMAIN vista \subseteq Chat
      /\ \A c \in Chat : Sai(c) => Sai(c)'
      /\ TipoOp
  <2>1. lista[a] \in Cache /\ DaLista \in Itens
    BY DEF TipoTela, Lista, Cache, DaLista
  <2> QED
    BY <2>1, SaiPasso, ItensTipo DEF TipoTela, Lista, Historico, TypeOK
<1>1. UNCHANGED <<lista, vista, aba>> => Copia'
  BY <1>0, CopiaIgual DEF DaLista
<1>2. ASSUME NEW ls, NEW bs, InvalidaEm(lista, ls, bs)
      PROVE  DaLista' = DaLista
  BY <1>0, <1>2, InvalidaItens DEF DaLista
<1>3. aba' # "archive" \/ vista' = DaLista' => Copia'
  BY DEF Copia
<1>4. ASSUME NEW l \in Lista, Chega(l)
      PROVE  Copia'
  <2>1. CASE l = a
    <3>1. DaLista' = busca[a].itens
      BY <1>0, <1>4, <2>1 DEF Chega, DaLista
    <3>2. CASE ~lista[a].carregada \/ lista[a].itens # busca[a].itens
      <4>1. aba' = aba /\ (aba = "archive" => vista' = busca[a].itens)
        BY <1>4, <2>1, <3>2 DEF Chega
      <4> QED
        BY <1>3, <3>1, <4>1
    <3>3. CASE lista[a].carregada /\ lista[a].itens = busca[a].itens
      <4>1. UNCHANGED <<aba, vista>> /\ DaLista' = DaLista
        BY <1>4, <2>1, <3>1, <3>3 DEF Chega, DaLista
      <4> QED
        BY <1>0, <4>1, CopiaIgual
    <3> QED
      BY <1>0, <3>2, <3>3 DEF Cache
  <2>2. CASE l # a
    <3>1. UNCHANGED <<aba, vista>> /\ DaLista' = DaLista
      BY <1>0, <1>4, <2>2 DEF Chega, DaLista
    <3> QED
      BY <1>0, <3>1, CopiaIgual
  <2> QED
    BY <2>1, <2>2
<1>5. ASSUME NEW x \in Aba, TrocaAba(x)
      PROVE  Copia'
  <2>1. DaLista' = DaLista
    BY <1>2, <1>5 DEF TrocaAba, Monta, Invalida
  <2>2. aba' = "archive" => vista' = DaLista
    BY <1>5 DEF TrocaAba, Monta, DaLista
  <2> QED
    BY <1>3, <2>1, <2>2
<1>6. ASSUME NEW o \in Op, Usuario(o)
      PROVE  Copia'
  <2>1. CASE \E c \in Chat, l \in Lista : Fixa(o, c, l)
    <3>1. aba' = "history"
      BY <2>1 DEF Fixa
    <3> QED
      BY <1>3, <3>1
  <2>2. ASSUME NEW c \in Chat, NEW l \in Lista, ApagaChat(o, c, l)
        PROVE  Copia'
    <3>1. UNCHANGED <<lista, aba>>
      BY <2>2 DEF ApagaChat
    <3>2. CASE vista' = Restrict(vista, DOMAIN vista \ {c})
      <4>1. /\ DOMAIN vista' = DOMAIN vista \ {c}
            /\ \A x \in DOMAIN vista' : vista'[x] = vista[x]
        BY <3>2 DEF Restrict
      <4>2. Sai(c)'
        <5>1. op' = [op EXCEPT ![o] = Pedido("apaga", "es", {c}, TRUE, l)]
          BY <2>2 DEF ApagaChat, Inicia
        <5>2. op'[o] = Pedido("apaga", "es", {c}, TRUE, l)
          BY <1>0, <5>1 DEF TipoOp
        <5> QED
          BY <5>2 DEF Sai, SoApaga, Pedido
      <4>3. DaLista' = DaLista
        BY <3>1 DEF DaLista
      <4> QED
        BY <1>0, <3>1, <4>1, <4>2, <4>3 DEF Copia
    <3> QED
      BY <1>1, <2>2, <3>1, <3>2 DEF ApagaChat
  <2>3. CASE ~(\E c \in Chat, l \in Lista : Fixa(o, c, l) \/ ApagaChat(o, c, l))
    <3>1. UNCHANGED <<lista, vista, aba>>
      BY <1>6, <2>3 DEF Usuario, Arquiva, Desarquiva, Compartilha, EmVarios, vTela
    <3> QED
      BY <1>1, <3>1
  <2> QED
    BY <2>1, <2>2, <2>3
<1>7. ASSUME NEW o \in Op, Servidor(o)
      PROVE  UNCHANGED <<lista, vista, aba>>
  BY <1>7 DEF Servidor, Procura, AtualizaES, RevogaElos, ConsultaElo, InsereElo, AtualizaElo, vTela
<1>8. ASSUME NEW o \in Op, Resposta(o)
      PROVE  Copia'
  <2>1. CASE PerdeResposta(o) \/ RespondeSemLista(o)
    BY <1>1, <2>1 DEF PerdeResposta, RespondeSemLista, vTela
  <2>2. CASE RespondeHistorico(o) \/ RespondeApagaArquivado(o)
    <3>1. UNCHANGED <<aba, vista>> /\ \E ls, bs : InvalidaEm(lista, ls, bs)
      BY <2>2 DEF RespondeHistorico, RespondeApagaArquivado, Invalida
    <3>2. DaLista' = DaLista
      BY <1>2, <3>1
    <3> QED
      BY <1>0, <3>1, <3>2, CopiaIgual
  <2>3. CASE RespondeArquiva(o)
    <3> DEFINE ts == Mexe(o, op[o].valor)
    <3>1. /\ UNCHANGED <<aba, vista>> /\ op[o].lista \in Historico
          /\ \E ls, bs : InvalidaEm(ts, ls, bs)
      BY <2>3 DEF RespondeArquiva
    <3>2. op[o].valor \in BOOLEAN
      BY <1>0 DEF TipoOp, Pedidos
    <3>3. ts[a] = lista[a]
      BY <1>0, <3>1, <3>2, MexeTipo
    <3> HIDE DEF ts
    <3>4. DaLista' = DaLista
      BY <1>0, <3>1, <3>3, InvalidaItens DEF DaLista
    <3> QED
      BY <1>0, <3>1, <3>4, CopiaIgual
  <2>4. CASE RespondeDesarquiva(o)
    <3>1. aba' = "history"
      BY <2>4 DEF RespondeDesarquiva
    <3> QED
      BY <1>3, <3>1
  <2>5. CASE RespondeDesarquivaTodos(o)
    <3>1. aba' = aba /\ \E ls, bs : InvalidaEm(lista, ls, bs)
      BY <2>5 DEF RespondeDesarquivaTodos, Invalida
    <3>2. DaLista' = DaLista
      BY <1>2, <3>1
    <3>3. CASE vista' = vista
      BY <1>0, <3>1, <3>2, <3>3, CopiaIgual
    <3>4. CASE vista' = [c \in DOMAIN vista |-> [vista[c] EXCEPT !.arquivado = FALSE]]
      <4>1. \A c \in DOMAIN vista : [vista[c] EXCEPT !.arquivado = FALSE].arquivado = FALSE
        BY <1>0, ItensTipo DEF Item
      <4>2. DOMAIN vista' = DOMAIN vista /\ \A c \in DOMAIN vista' : ~vista'[c].arquivado
        BY <3>4, <4>1
      <4> QED
        BY <1>0, <3>1, <3>2, <4>2 DEF Copia
    <3> QED
      BY <2>5, <3>3, <3>4 DEF RespondeDesarquivaTodos
  <2> QED
    BY <1>8, <2>1, <2>2, <2>3, <2>4, <2>5 DEF Resposta
<1>9. ASSUME NEW c \in Chat, GravaMensagem(c)
      PROVE  Copia'
  <2>1. UNCHANGED <<aba, vista>> /\ (lista' = lista \/ \E ls, bs : InvalidaEm(lista, ls, bs))
    BY <1>9 DEF GravaMensagem, Invalida
  <2>2. DaLista' = DaLista
    BY <1>2, <2>1 DEF DaLista
  <2> QED
    BY <1>0, <2>1, <2>2, CopiaIgual
<1>10. ASSUME NEW l \in Lista, Le(l)
       PROVE  UNCHANGED <<lista, vista, aba>>
  BY <1>10 DEF Le
<1>11. ASSUME NEW ks \in SUBSET Link, RevogaNaAba(ks)
       PROVE  UNCHANGED <<lista, vista, aba>>
  BY <1>11 DEF RevogaNaAba, vTela
<1>12. Refresca \/ UNCHANGED vars => UNCHANGED <<lista, vista, aba>>
  BY DEF Refresca, vars, vTela
<1> QED
  BY <1>1, <1>4, <1>5, <1>6, <1>7, <1>8, <1>9, <1>10, <1>11, <1>12 DEF Next

LEMMA EmDia ==
  ASSUME \A l \in Lista : Dia(l), TipoTela, Copia
  PROVE  ListasEmDia
<1> SUFFICES ASSUME EmCurso = {}, \A l \in Lista : busca[l].fase = "parada",
                    NEW l \in Montadas(aba),
                    lista[l].carregada, ~lista[l].velha, ~desculpa[l]
             PROVE  /\ lista[l].itens = Visao(l, doc)
                    /\ (l = "archiveChats" /\ aba = "archive" /\ ignoradas = {}) =>
                         /\ DOMAIN vista = DOMAIN Visao(l, doc)
                         /\ \A c \in DOMAIN vista :
                              vista[c] # Visao(l, doc)[c] => ~vista[c].arquivado
  BY DEF ListasEmDia
<1>1. l \in Lista /\ \A o \in Op : op[o].fase = "livre"
  BY DEF Montadas, Lista, EmCurso
<1>2. lista[l].itens = Visao(l, doc)
  BY <1>1 DEF Dia, Quieta, Afeta
<1>3. ASSUME l = "archiveChats", aba = "archive", ignoradas = {}
      PROVE  /\ DOMAIN vista = DOMAIN DaLista
             /\ \A c \in DOMAIN vista : vista[c] # DaLista[c] => ~vista[c].arquivado
  <2>1. ASSUME NEW c \in DOMAIN DaLista, Sai(c)
        PROVE  FALSE
    <3>1. doc[c].apagado
      BY <1>1, <1>3, <2>1 DEF Sai, SoApaga
    <3>2. c \in DOMAIN Visao(l, doc)
      BY <1>2, <1>3, <2>1 DEF DaLista
    <3>3. Pertence(l, doc[c])
      BY <3>2 DEF Visao
    <3> QED
      BY <3>1, <3>3 DEF Pertence
  <2> QED
    BY <1>3, <2>1 DEF Copia
<1> QED
  BY <1>2, <1>3 DEF DaLista

(* Every list the tab shows says what the store says once all is at rest,  *)
(* for any number of chats and requests, but for what the ghosts name.     *)
THEOREM ListsUpToDate == Spec => []ListasEmDia
<1> DEFINE Inv == /\ TypeOK /\ PartilhaUm /\ TipoTela /\ ArquivoCarregado /\ Limpo /\ Copia
                  /\ \A l \in Lista : Dia(l)
<1>1. Init => Inv
  <2> SUFFICES ASSUME Init
               PROVE  Inv
    OBVIOUS
  <2>1. PartilhaUm
    <3>1. \A o \in Op : op[o].fase = "livre" /\ op[o].tipo = "fixa"
      BY DEF Init, OpLivre
    <3> QED
      BY <3>1 DEF PartilhaUm
  <2>2. ArquivoCarregado /\ Limpo /\ Copia
    BY DEF Init, ArquivoCarregado, Limpo, Copia, Historico, Lista
  <2>3. ASSUME NEW l \in Lista
        PROVE  Dia(l)
    <3>1. CASE l \in Historico
      BY <3>1 DEF Init, Dia, Vazia
    <3>2. CASE l \notin Historico
      <4>1. l = "archiveChats"
        BY <3>2 DEF Lista
      <4> QED
        BY <3>2, <4>1 DEF Init, Dia
    <3> QED
      BY <3>1, <3>2
  <2> QED
    BY <2>1, <2>2, <2>3, InicioOK, TelaInicio
<1>2. Inv /\ [Next]_vars => Inv'
  <2> SUFFICES ASSUME Inv, [Next]_vars
               PROVE  Inv'
    OBVIOUS
  <2>1. TypeOK'
    BY TipoLojaPasso, EloPasso, TipoOpPasso, TipoContaPasso DEF TypeOK
  <2>2. PartilhaUm' /\ TipoTela' /\ ArquivoCarregado' /\ Limpo' /\ Copia'
    BY PartilhaUmPasso, TelaPasso, ArquivoPasso, LimpoPasso, CopiaPasso
  <2>3. ASSUME NEW l \in Lista
        PROVE  Dia(l)'
    BY DiaPasso
  <2> QED
    BY <2>1, <2>2, <2>3
<1>3. Inv => ListasEmDia
  BY EmDia
<1> QED
  BY <1>1, <1>2, <1>3, PTL DEF Spec
=============================================================================
