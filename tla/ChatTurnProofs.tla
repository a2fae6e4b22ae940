--------------------------- MODULE ChatTurnProofs ---------------------------
(***************************************************************************)
(* Machine-checked proofs about ChatTurn, for every number of turns, chats *)
(* and pods and every mix of requests.                                     *)
(***************************************************************************)
EXTENDS ChatTurn, FiniteSetTheorems, SequenceTheorems, TLAPS

\* The history length a search yields is a natural number.
LEMMA NaoSistemaNat ==
  ASSUME NEW s, NEW n \in Int
  PROVE  NaoSistema(s, n) \in Nat
<1>1. IsFiniteSet(1..n)
  BY FS_Interval
<1>2. {i \in 1..n : s[i].papel # "SYSTEM"} \in SUBSET (1..n)
  OBVIOUS
<1>3. IsFiniteSet({i \in 1..n : s[i].papel # "SYSTEM"})
  BY <1>1, <1>2, FS_Subset
<1> QED
  BY <1>3, FS_CardinalityType DEF NaoSistema

\* What a turn writes is a message.
LEMMA MensagemTipo ==
  ASSUME TypeOK, NEW t \in Turn, NEW k \in 1..3
  PROVE  Mensagem(t, k) \in Mensagens
<1>1. Papeis[k] \in {"SYSTEM", "USER", "ASSISTANT"}
  BY DEF Papeis
<1>2. historico[t] + k \in Nat
  BY DEF TypeOK, TipoCodigo
<1>3. chamadas[t] \in Nat /\ minutoPreparo[t] \in Nat /\ minutoRegistro[t] \in Nat
  BY DEF TypeOK, TipoCodigo, TipoLLM
<1> QED
  BY <1>1, <1>2, <1>3 DEF Mensagem, Mensagens

\* Writing the next message of a turn appends one message to its chat.
LEMMA GravaTipo ==
  ASSUME TypeOK, NEW t \in Turn, Grava(chat[t], Mensagem(t, gravadas[t] + 1))
  PROVE  /\ gravadas[t] + 1 \in 1..3
         /\ Mensagem(t, gravadas[t] + 1) \in Mensagens
         /\ mensagens' \in [Chat -> Seq(Mensagens)]
         /\ \A c \in Chat :
              mensagens'[c] = IF c = chat[t]
                              THEN Append(mensagens[c],
                                          Mensagem(t, gravadas[t] + 1))
                              ELSE mensagens[c]
<1> DEFINE m == Mensagem(t, gravadas[t] + 1)
<1>1. gravadas[t] + 1 \in 1..3
  BY DEF TypeOK, TipoGrava
<1>2. m \in Mensagens
  BY <1>1, MensagemTipo
<1>3. mensagens \in [Chat -> Seq(Mensagens)]
  BY DEF TypeOK, TipoElastic
<1>4. mensagens' = [mensagens EXCEPT ![chat[t]] = Append(@, m)]
  BY DEF Grava
<1> HIDE DEF m
<1>5. \A c \in Chat : Append(mensagens[c], m) \in Seq(Mensagens)
  BY <1>2, <1>3, AppendProperties
<1>6. mensagens' = [c \in Chat |-> IF c = chat[t] THEN Append(mensagens[c], m)
                                   ELSE mensagens[c]]
  BY <1>3, <1>4
<1>7. mensagens' \in [Chat -> Seq(Mensagens)]
  BY <1>3, <1>5, <1>6
<1> QED
  BY <1>1, <1>2, <1>6, <1>7 DEF m

\* Recording a reaction changes the feedback of one message of the chat of the
\* turn, the first one with the code of the turn's answer.
LEMMA FeedbackTipo ==
  ASSUME TypeOK, NEW t \in Turn, AdicionarFeedback(t)
  PROVE  /\ chat[t] \in Chat
         /\ mensagens' \in [Chat -> Seq(Mensagens)]
         /\ \A c \in Chat :
              /\ Len(mensagens'[c]) = Len(mensagens[c])
              /\ \A j \in 1..Len(mensagens[c]) :
                   /\ mensagens'[c][j].turno = mensagens[c][j].turno
                   /\ mensagens'[c][j].papel = mensagens[c][j].papel
                   /\ mensagens'[c][j].minuto = mensagens[c][j].minuto
                   /\ mensagens'[c][j].indice = mensagens[c][j].indice
                   /\ mensagens'[c][j].chamada = mensagens[c][j].chamada
         /\ \E i \in 1..Len(mensagens[chat[t]]) :
              /\ MesmoCodigo(mensagens[chat[t]][i], Mensagem(t, 3))
              /\ \A j \in 1..Len(mensagens[chat[t]]) :
                   MesmoCodigo(mensagens[chat[t]][j], Mensagem(t, 3)) => i <= j
              /\ \A c \in Chat : \A j \in 1..Len(mensagens[c]) :
                   mensagens'[c][j].feedback =
                     IF c = chat[t] /\ j = i THEN {t}
                     ELSE mensagens[c][j].feedback
<1> DEFINE s == mensagens[chat[t]]
           com == {i \in 1..Len(s) : MesmoCodigo(s[i], Mensagem(t, 3))}
<1>0. chat[t] \in Chat
  BY DEF AdicionarFeedback, CodigoNaTela, Executando, TypeOK, TipoTurno
<1>1. s \in Seq(Mensagens) /\ mensagens \in [Chat -> Seq(Mensagens)]
  BY <1>0 DEF TypeOK, TipoElastic
<1>2. PICK i \in com :
        /\ \A j \in com : i <= j
        /\ mensagens' = [mensagens EXCEPT ![chat[t]][i].feedback = {t}]
  BY DEF AdicionarFeedback
<1> DEFINE m == [s[i] EXCEPT !.feedback = {t}]
           r == [s EXCEPT ![i] = m]
<1>3. mensagens' = [mensagens EXCEPT ![chat[t]] = r]
  BY <1>2
<1>4. s[i] \in Mensagens
  BY <1>1, <1>2, ElementOfSeq
<1>5. /\ m \in Mensagens
      /\ m.turno = s[i].turno /\ m.papel = s[i].papel
      /\ m.minuto = s[i].minuto /\ m.indice = s[i].indice
      /\ m.chamada = s[i].chamada /\ m.feedback = {t}
  BY <1>4 DEF Mensagens
<1>6. /\ r \in Seq(Mensagens) /\ Len(r) = Len(s)
      /\ \A j \in 1..Len(s) : r[j] = IF j = i THEN m ELSE s[j]
  BY <1>1, <1>2, <1>5, ExceptSeq
<1> HIDE DEF m, r
<1>7. mensagens' \in [Chat -> Seq(Mensagens)]
  BY <1>1, <1>3, <1>6
<1>8. \A c \in Chat : mensagens'[c] = IF c = chat[t] THEN r ELSE mensagens[c]
  BY <1>1, <1>3
<1>9. \A c \in Chat :
        /\ Len(mensagens'[c]) = Len(mensagens[c])
        /\ \A j \in 1..Len(mensagens[c]) :
             mensagens'[c][j] = IF c = chat[t] /\ j = i THEN m ELSE mensagens[c][j]
  BY <1>6, <1>8
<1>10. i \in 1..Len(s) /\ MesmoCodigo(s[i], Mensagem(t, 3))
  BY <1>2
<1>11. \A j \in 1..Len(s) : MesmoCodigo(s[j], Mensagem(t, 3)) => i <= j
  BY <1>2
<1>12. \A c \in Chat : \A j \in 1..Len(mensagens[c]) :
         /\ mensagens'[c][j].turno = mensagens[c][j].turno
         /\ mensagens'[c][j].papel = mensagens[c][j].papel
         /\ mensagens'[c][j].minuto = mensagens[c][j].minuto
         /\ mensagens'[c][j].indice = mensagens[c][j].indice
         /\ mensagens'[c][j].chamada = mensagens[c][j].chamada
         /\ mensagens'[c][j].feedback = IF c = chat[t] /\ j = i THEN {t}
                                        ELSE mensagens[c][j].feedback
  BY <1>5, <1>9
<1> HIDE DEF com
<1>13. \E k \in 1..Len(s) :
         /\ MesmoCodigo(s[k], Mensagem(t, 3))
         /\ \A j \in 1..Len(s) : MesmoCodigo(s[j], Mensagem(t, 3)) => k <= j
         /\ \A c \in Chat : \A j \in 1..Len(mensagens[c]) :
              mensagens'[c][j].feedback = IF c = chat[t] /\ j = k THEN {t}
                                         ELSE mensagens[c][j].feedback
  BY <1>10, <1>11, <1>12
<1> QED
  BY <1>0, <1>7, <1>9, <1>12, <1>13

\* Every step keeps the types.
LEMMA TypeOKPasso ==
  ASSUME TypeOK, [Next]_vars
  PROVE  TypeOK'
<1> USE DEF TypeOK
<1>1. CASE UNCHANGED vars
  BY <1>1 DEF TipoTurno, TipoCodigo, TipoLLM, TipoGrava, TipoParada,
     TipoElastic, vars, vCodigo, vLLM, vGrava, vParada, vElastic
<1>2. ASSUME NEW t \in Turn, ProtectedPrompt(t)
      PROVE  TypeOK'
  <2>1. TipoTurno'
    <3>1. CASE pc' = [pc EXCEPT ![t] = "criar"] /\ UNCHANGED chat
      BY <1>2, <3>1 DEF ProtectedPrompt, Fases, TipoTurno
    <3>2. ASSUME NEW c \in existentes, chat' = [chat EXCEPT ![t] = c],
                 pc' = [pc EXCEPT ![t] = "carregar"]
          PROVE  TipoTurno'
      BY <1>2, <3>2, ChatAssumption
      DEF ProtectedPrompt, Fases, TipoTurno, TipoElastic
    <3> QED
      BY <1>2, <3>1, <3>2 DEF ProtectedPrompt
  <2> QED
    BY <1>2, <2>1 DEF ProtectedPrompt, TipoCodigo, TipoLLM, TipoGrava,
       TipoParada, TipoElastic, vCodigo, vLLM, vGrava, vParada, vElastic
<1>3. ASSUME NEW t \in Turn, CriarNovoChat(t)
      PROVE  TypeOK'
  BY <1>3, ChatAssumption DEF CriarNovoChat, Fases, TipoTurno, TipoCodigo, TipoLLM,
     TipoGrava, TipoParada, TipoElastic, vCodigo, vLLM, vGrava, vParada
<1>4. ASSUME NEW t \in Turn, CarregarHistorico(t)
      PROVE  TypeOK'
  <2>1. chat[t] \in Chat
    BY <1>4 DEF CarregarHistorico, TipoTurno
  <2>2. NaoSistema(mensagens[chat[t]], visivel[chat[t]]) \in Nat
    BY <2>1, NaoSistemaNat DEF TipoElastic
  <2>3. TipoCodigo'
    BY <1>4, <2>2 DEF CarregarHistorico, TipoCodigo
  <2>4. TipoTurno'
    BY <1>4 DEF CarregarHistorico, TipoTurno, Fases
  <2> QED
    BY <1>4, <2>3, <2>4 DEF CarregarHistorico, TipoLLM, TipoGrava, TipoParada,
       TipoElastic, vLLM, vGrava, vParada, vElastic
<1>5. ASSUME NEW t \in Turn, Falha(t)
      PROVE  TypeOK'
  BY <1>5 DEF Falha, Fases, TipoTurno, TipoCodigo, TipoLLM,
     TipoGrava, TipoParada, TipoElastic, vCodigo, vLLM, vGrava, vParada
<1>6. ASSUME NEW t \in Turn, PreparaPrompt(t) \/ RegistrarMensagens(t)
      PROVE  TypeOK'
  <2>1. TipoTurno' /\ TipoCodigo'
    <3>1. CASE PreparaPrompt(t)
      BY <3>1 DEF PreparaPrompt, Fases, TipoTurno, TipoCodigo
    <3>2. CASE RegistrarMensagens(t)
      BY <3>2 DEF RegistrarMensagens, Fases, TipoTurno, TipoCodigo
    <3> QED
      BY <1>6, <3>1, <3>2
  <2> QED
    BY <1>6, <2>1 DEF PreparaPrompt, RegistrarMensagens, TipoLLM, TipoGrava,
       TipoParada, TipoElastic, vLLM, vGrava, vParada, vElastic
<1>7. ASSUME NEW t \in Turn, CriaTask(t)
      PROVE  TypeOK'
  BY <1>7 DEF CriaTask, Registra, Fases, TipoTurno, TipoCodigo, TipoLLM, TipoGrava,
     TipoParada, TipoElastic, vCodigo, vLLM, vGrava, vElastic
<1>8. ASSUME NEW t \in Turn, NEW comTexto \in BOOLEAN, NEW fim \in BOOLEAN,
             OnLlmEnd(t, comTexto, fim)
      PROVE  TypeOK'
  <2>1. TipoTurno' /\ TipoParada'
    BY <1>8 DEF OnLlmEnd, Prossegue, Solta, Fases, TipoTurno, TipoParada
  <2>2. chamadas' \in [Turn -> Nat] /\ texto' \in [Turn -> BOOLEAN]
        /\ ultima' \in [Turn -> BOOLEAN]
    BY <1>8 DEF OnLlmEnd, TipoLLM
  <2>3. isToolCall' \in [Turn -> BOOLEAN]
    <3>1. CASE UNCHANGED isToolCall
      BY <3>1 DEF TipoLLM
    <3>2. CASE isToolCall' = [isToolCall EXCEPT
                                ![t] = @ \/ (comTexto /\ IsWithTools(t))]
      <4> DEFINE v == isToolCall[t] \/ (comTexto /\ IsWithTools(t))
      <4>1. v \in BOOLEAN
        OBVIOUS
      <4>2. isToolCall' = [isToolCall EXCEPT ![t] = v]
        BY <3>2
      <4> HIDE DEF v
      <4> QED
        BY <4>1, <4>2 DEF TipoLLM
    <3> QED
      BY <1>8, <3>1, <3>2 DEF OnLlmEnd
  <2> QED
    BY <1>8, <2>1, <2>2, <2>3 DEF OnLlmEnd, TipoCodigo, TipoLLM, TipoGrava,
       TipoElastic, vCodigo, vGrava, vElastic
<1>9. ASSUME NEW t \in Turn, ErroLLM(t)
      PROVE  TypeOK'
  BY <1>9 DEF ErroLLM, Solta, Fases, TipoTurno, TipoCodigo, TipoLLM, TipoGrava,
     TipoParada, TipoElastic, vCodigo, vLLM, vGrava, vElastic
<1>10. ASSUME NEW t \in Turn, AdicionarMensagem(t)
       PROVE  TypeOK'
  <2>1. mensagens' \in [Chat -> Seq(Mensagens)]
    BY <1>10, GravaTipo DEF AdicionarMensagem
  <2>2. TipoElastic'
    BY <1>10, <2>1 DEF AdicionarMensagem, TipoElastic
  <2>3. TipoTurno' /\ TipoParada'
    BY <1>10 DEF AdicionarMensagem, Prossegue, Solta, Fases, TipoTurno, TipoParada
  <2>4. TipoGrava' /\ TipoLLM'
    <3>1. CASE gravadas[t] < 2
      <4>1. gravadas[t] + 1 \in 0..2
        BY <3>1 DEF TipoGrava
      <4> QED
        BY <1>10, <3>1, <4>1 DEF AdicionarMensagem, TipoGrava, TipoLLM
    <3>2. CASE ~(gravadas[t] < 2)
      <4>1. TipoGrava'
        BY <1>10, <3>2 DEF AdicionarMensagem, TipoGrava
      <4>2. isToolCall' = [isToolCall EXCEPT ![t] = FALSE]
        BY <1>10, <3>2 DEF AdicionarMensagem
      <4>3. isToolCall' \in [Turn -> BOOLEAN]
        BY <4>2, Zenon DEF TipoLLM
      <4> QED
        BY <1>10, <4>1, <4>3 DEF AdicionarMensagem, TipoLLM
    <3> QED
      BY <3>1, <3>2
  <2> QED
    BY <1>10, <2>2, <2>3, <2>4 DEF AdicionarMensagem, TipoCodigo, vCodigo
<1>11. ASSUME NEW t \in Turn, FalhaGravacao(t)
       PROVE  TypeOK'
  <2>1. mensagens' \in [Chat -> Seq(Mensagens)]
    BY <1>11, GravaTipo DEF FalhaGravacao, TipoElastic
  <2>2. TipoElastic'
    BY <1>11, <2>1 DEF FalhaGravacao, TipoElastic
  <2> QED
    BY <1>11, <2>2 DEF FalhaGravacao, Prossegue, Solta, Fases, TipoTurno,
       TipoCodigo, TipoLLM, TipoGrava, TipoParada, vCodigo, vLLM
<1>12. ASSUME NEW t \in Turn, PararProcessamentoResposta(t)
       PROVE  TypeOK'
  BY <1>12 DEF PararProcessamentoResposta, TipoTurno, TipoCodigo, TipoLLM,
     TipoGrava, TipoParada, TipoElastic, vCodigo, vLLM, vGrava, vElastic
<1>13. ASSUME NEW p \in Pod, NEW t \in Turn, Escuta(p, t)
       PROVE  TypeOK'
  <2>1. TipoParada'
    <3>1. CASE CancelaTask(p, t)
      <4>1. canal' \in [Pod -> SUBSET Turn] /\ pedidas' \in SUBSET Turn
        BY <3>1 DEF CancelaTask, Consome, TipoParada
      <4>2. tasks_registry' \in [Pod -> SUBSET Turn]
        BY <3>1 DEF CancelaTask, TipoParada
      <4>3. \/ UNCHANGED cancelada
            \/ cancelada' = [cancelada EXCEPT ![t] = TRUE]
        BY <3>1 DEF CancelaTask
      <4>4. cancelada' \in [Turn -> BOOLEAN]
        BY <4>3, Zenon DEF TipoParada
      <4> QED
        BY <4>1, <4>2, <4>4 DEF TipoParada
    <3>2. CASE CancelaTaskFalha(p, t)
      BY <3>2 DEF CancelaTaskFalha, Consome, TipoParada
    <3> QED
      BY <1>13, <3>1, <3>2 DEF Escuta
  <2> QED
    BY <1>13, <2>1 DEF Escuta, CancelaTask, CancelaTaskFalha, TipoTurno,
       TipoCodigo, TipoLLM, TipoGrava, TipoElastic, vCodigo, vLLM, vGrava,
       vElastic
<1>14. ASSUME NEW t \in Turn, TaskCancelada(t)
       PROVE  TypeOK'
  <2>1. mensagens' \in [Chat -> Seq(Mensagens)]
    BY <1>14, GravaTipo DEF TaskCancelada, TipoElastic
  <2>2. TipoElastic'
    BY <1>14, <2>1 DEF TaskCancelada, TipoElastic
  <2> QED
    BY <1>14, <2>2 DEF TaskCancelada, Executando, Fases, TipoTurno, TipoCodigo,
       TipoLLM, TipoGrava, TipoParada, vCodigo, vLLM, vGrava
<1>15. ASSUME NEW t \in Turn, AdicionarFeedback(t)
       PROVE  TypeOK'
  <2>1. mensagens' \in [Chat -> Seq(Mensagens)]
    BY <1>15, FeedbackTipo
  <2>2. TipoElastic'
    BY <1>15, <2>1 DEF AdicionarFeedback, TipoElastic
  <2> QED
    BY <1>15, <2>2 DEF AdicionarFeedback, TipoTurno, TipoCodigo, TipoLLM,
       TipoGrava, TipoParada, vCodigo, vLLM, vGrava, vParada
<1>16. ASSUME NEW c \in Chat, Refresh(c)
       PROVE  TypeOK'
  <2>1. Len(mensagens[c]) \in Nat
    BY LenProperties DEF TipoElastic
  <2> QED
    BY <1>16, <2>1 DEF Refresh, TipoTurno, TipoCodigo, TipoLLM, TipoGrava,
       TipoParada, TipoElastic, vCodigo, vLLM, vGrava, vParada
<1>17. CASE Tick
  BY <1>17 DEF Tick, TipoTurno, TipoCodigo, TipoLLM, TipoGrava, TipoParada,
     TipoElastic, vCodigo, vLLM, vGrava, vParada, vElastic
<1>18. ASSUME NEW p \in Caem, QuedaPod(p)
       PROVE  TypeOK'
  <2>1. TipoTurno'
    BY <1>18 DEF QuedaPod, Fases, TipoTurno
  <2>2. TipoParada'
    BY <1>18 DEF QuedaPod, TipoParada
  <2> QED
    BY <1>18, <2>1, <2>2 DEF QuedaPod, TipoCodigo, TipoLLM, TipoGrava,
       TipoElastic, vCodigo, vLLM, vGrava, vElastic
<1>19. ASSUME NEW t \in Turn, OnLlmNewToken(t)
       PROVE  TypeOK'
  BY <1>19 DEF OnLlmNewToken, TipoTurno, TipoCodigo, TipoLLM, TipoGrava, TipoParada,
     TipoElastic, vCodigo, vGrava, vParada, vElastic
<1> QED
  BY <1>1, <1>2, <1>3, <1>4, <1>5, <1>6, <1>7, <1>8, <1>9, <1>10, <1>11, <1>12,
     <1>13, <1>14, <1>15, <1>16, <1>17, <1>18, <1>19
  DEF Next, Restante, Etapa, ModeloResponde, Usuario, Ambiente

\* Type correctness of every behaviour of the turns.
THEOREM TypeCorrect == Spec => []TypeOK
<1>1. Init => TypeOK
  BY EntradasAssumption DEF Init, TypeOK, TipoTurno, TipoCodigo, TipoLLM,
     TipoGrava, TipoParada, TipoElastic, Fases
<1>2. TypeOK /\ [Next]_vars => TypeOK'
  BY TypeOKPasso
<1> QED
  BY <1>1, <1>2, PTL DEF Spec

-----------------------------------------------------------------------------
(* The store: messages are only appended, by a turn that is writing        *)

\* Every message of c stays in its place, with its turn, role, code and call.
Mantem(c) ==
  /\ Len(mensagens'[c]) >= Len(mensagens[c])
  /\ \A j \in 1..Len(mensagens[c]) :
       /\ mensagens'[c][j].turno = mensagens[c][j].turno
       /\ mensagens'[c][j].papel = mensagens[c][j].papel
       /\ mensagens'[c][j].minuto = mensagens[c][j].minuto
       /\ mensagens'[c][j].indice = mensagens[c][j].indice
       /\ mensagens'[c][j].chamada = mensagens[c][j].chamada

\* The step appends to c the next message of the turn t.
Escreve(c, t) ==
  /\ AdicionarMensagem(t) \/ FalhaGravacao(t) \/ TaskCancelada(t)
  /\ pc[t] = "gravando" /\ chat[t] = c
  /\ Len(mensagens'[c]) = Len(mensagens[c]) + 1
  /\ mensagens'[c][Len(mensagens[c]) + 1] = Mensagem(t, gravadas[t] + 1)

EscreveOuNao(c) == \/ Len(mensagens'[c]) = Len(mensagens[c])
                   \/ \E t \in Turn : Escreve(c, t)

\* A write keeps what is stored and adds one message.
LEMMA EscritaMantem ==
  ASSUME TypeOK, NEW t \in Turn, pc[t] = "gravando",
         AdicionarMensagem(t) \/ FalhaGravacao(t) \/ TaskCancelada(t),
         Grava(chat[t], Mensagem(t, gravadas[t] + 1)), NEW c \in Chat
  PROVE  Mantem(c) /\ EscreveOuNao(c)
<1> DEFINE m == Mensagem(t, gravadas[t] + 1)
<1>1. m \in Mensagens /\ mensagens[c] \in Seq(Mensagens)
  BY GravaTipo DEF TypeOK, TipoElastic
<1>2. mensagens'[c] = IF c = chat[t] THEN Append(mensagens[c], m)
                      ELSE mensagens[c]
  BY GravaTipo
<1>3. Len(mensagens[c]) \in Nat
  BY <1>1, LenProperties
<1> HIDE DEF m
<1>4. CASE c = chat[t]
  <2>1. /\ Len(mensagens'[c]) = Len(mensagens[c]) + 1
        /\ \A j \in 1..Len(mensagens[c]) : mensagens'[c][j] = mensagens[c][j]
        /\ mensagens'[c][Len(mensagens[c]) + 1] = m
    BY <1>1, <1>2, <1>4, AppendProperties
  <2>2. Mantem(c)
    BY <1>3, <2>1 DEF Mantem
  <2>3. Escreve(c, t)
    BY <1>4, <2>1 DEF Escreve, m
  <2> QED
    BY <2>2, <2>3 DEF EscreveOuNao
<1>5. CASE c # chat[t]
  BY <1>2, <1>3, <1>5 DEF Mantem, EscreveOuNao
<1> QED
  BY <1>4, <1>5

\* Every step keeps the messages and appends at most one to a chat.
LEMMA MensagensPasso ==
  ASSUME TypeOK, [Next]_vars, NEW c \in Chat
  PROVE  Mantem(c) /\ EscreveOuNao(c)
<1>1. Len(mensagens[c]) \in Nat
  BY LenProperties DEF TypeOK, TipoElastic
<1>2. CASE UNCHANGED mensagens
  BY <1>1, <1>2 DEF Mantem, EscreveOuNao
<1>3. ASSUME NEW t \in Turn, AdicionarMensagem(t)
      PROVE  Mantem(c) /\ EscreveOuNao(c)
  BY <1>3, EscritaMantem DEF AdicionarMensagem
<1>4. ASSUME NEW t \in Turn, FalhaGravacao(t)
      PROVE  Mantem(c) /\ EscreveOuNao(c)
  BY <1>2, <1>4, EscritaMantem DEF FalhaGravacao
<1>5. ASSUME NEW t \in Turn, TaskCancelada(t)
      PROVE  Mantem(c) /\ EscreveOuNao(c)
  BY <1>2, <1>5, EscritaMantem DEF TaskCancelada
<1>6. ASSUME NEW t \in Turn, AdicionarFeedback(t)
      PROVE  Mantem(c) /\ EscreveOuNao(c)
  <2>1. /\ Len(mensagens'[c]) = Len(mensagens[c])
        /\ \A j \in 1..Len(mensagens[c]) :
             /\ mensagens'[c][j].turno = mensagens[c][j].turno
             /\ mensagens'[c][j].papel = mensagens[c][j].papel
             /\ mensagens'[c][j].minuto = mensagens[c][j].minuto
             /\ mensagens'[c][j].indice = mensagens[c][j].indice
             /\ mensagens'[c][j].chamada = mensagens[c][j].chamada
    BY <1>6, FeedbackTipo
  <2> QED
    BY <1>1, <2>1 DEF Mantem, EscreveOuNao
<1>7. \/ UNCHANGED mensagens
      \/ \E t \in Turn : \/ AdicionarMensagem(t) \/ FalhaGravacao(t)
                         \/ TaskCancelada(t) \/ AdicionarFeedback(t)
  BY DEF vars, vElastic, Next, Restante, Etapa, ModeloResponde, Usuario,
     Ambiente, Escuta, ProtectedPrompt, CriarNovoChat, CarregarHistorico,
     Falha, PreparaPrompt, RegistrarMensagens, CriaTask, OnLlmNewToken, OnLlmEnd, ErroLLM,
     PararProcessamentoResposta, CancelaTask, CancelaTaskFalha, Refresh, Tick,
     QuedaPod
<1> QED
  BY <1>2, <1>3, <1>4, <1>5, <1>6, <1>7

-----------------------------------------------------------------------------
(* No answer without its question                                          *)

\* How far a turn that is writing has come is what the chat holds of it.
GravadasNoChat ==
  \A t \in Turn :
    LET s == mensagens[chat[t]]
    IN /\ pc[t] \notin {"gravando", "parada", "falhou"} => gravadas[t] = 0
       /\ pc[t] = "gravando" /\ gravadas[t] >= 1 =>
            \E j \in 1..Len(s) : s[j].turno = t /\ s[j].papel = "SYSTEM"
       /\ pc[t] = "gravando" /\ gravadas[t] >= 2 => TemPergunta(s, Len(s), t)

\* What a step does to the progress of one turn.
Avanca(u) ==
  /\ pc'[u] \notin {"gravando", "parada", "falhou"} => gravadas'[u] = 0
  /\ pc'[u] = "gravando" =>
       \/ gravadas'[u] = 0
       \/ pc[u] = "gravando" /\ gravadas'[u] = gravadas[u] /\ chat'[u] = chat[u]
       \/ AdicionarMensagem(u) /\ gravadas'[u] = gravadas[u] + 1

LEMMA AvancaPasso ==
  ASSUME TypeOK, GravadasNoChat, [Next]_vars, NEW u \in Turn
  PROVE  Avanca(u)
<1> USE DEF Avanca
<1>0. pc \in [Turn -> Fases] /\ gravadas \in [Turn -> 0..2]
      /\ chat \in [Turn -> Chat \cup {SemChat}]
      /\ (pc[u] \notin {"gravando", "parada", "falhou"} => gravadas[u] = 0)
  BY DEF TypeOK, TipoTurno, TipoGrava, GravadasNoChat
<1>1. CASE UNCHANGED vars
  BY <1>0, <1>1 DEF vars, vGrava
<1>2. ASSUME NEW t \in Turn, ProtectedPrompt(t)
      PROVE  Avanca(u)
  BY <1>0, <1>2 DEF ProtectedPrompt, vGrava
<1>3. ASSUME NEW t \in Turn, CriarNovoChat(t) \/ CarregarHistorico(t) \/ Falha(t)
      PROVE  Avanca(u)
  BY <1>0, <1>3 DEF CriarNovoChat, CarregarHistorico, Falha, vGrava
<1>4. ASSUME NEW t \in Turn, PreparaPrompt(t) \/ RegistrarMensagens(t) \/ CriaTask(t)
      PROVE  Avanca(u)
  BY <1>0, <1>4 DEF PreparaPrompt, RegistrarMensagens, CriaTask, vGrava
<1>5. ASSUME NEW t \in Turn, NEW comTexto \in BOOLEAN, NEW fim \in BOOLEAN,
             OnLlmEnd(t, comTexto, fim)
      PROVE  Avanca(u)
  BY <1>0, <1>5 DEF OnLlmEnd, Prossegue, vGrava
<1>6. ASSUME NEW t \in Turn, ErroLLM(t)
      PROVE  Avanca(u)
  BY <1>0, <1>6 DEF ErroLLM, vGrava
<1>7. ASSUME NEW t \in Turn, AdicionarMensagem(t)
      PROVE  Avanca(u)
  <2>1. CASE t = u
    BY <1>0, <1>7, <2>1 DEF AdicionarMensagem, Prossegue
  <2>2. CASE t # u
    BY <1>0, <1>7, <2>2 DEF AdicionarMensagem, Prossegue
  <2> QED
    BY <2>1, <2>2
<1>8. ASSUME NEW t \in Turn, FalhaGravacao(t)
      PROVE  Avanca(u)
  BY <1>0, <1>8 DEF FalhaGravacao, Prossegue
<1>9. ASSUME NEW t \in Turn, TaskCancelada(t)
      PROVE  Avanca(u)
  BY <1>0, <1>9 DEF TaskCancelada, vGrava
<1>10. CASE UNCHANGED <<pc, gravadas, chat>>
  BY <1>0, <1>10
<1>11. ASSUME NEW p \in Caem, QuedaPod(p)
       PROVE  Avanca(u)
  BY <1>0, <1>11 DEF QuedaPod, Ativo, Encerradas, vGrava
<1>12. (\E t \in Turn : Usuario(t)) \/ (\E p \in Pod, t \in Turn : Escuta(p, t))
       \/ (\E c \in Chat : Refresh(c)) \/ Tick \/ (\E t \in Turn : OnLlmNewToken(t))
         => UNCHANGED <<pc, gravadas, chat>>
  BY DEF Usuario, OnLlmNewToken, Escuta, PararProcessamentoResposta, AdicionarFeedback,
     CancelaTask, CancelaTaskFalha, Refresh, Tick, vGrava
<1> QED
  BY <1>1, <1>2, <1>3, <1>4, <1>5, <1>6, <1>7, <1>8, <1>9, <1>10, <1>11, <1>12
  DEF Next, Restante, Etapa, ModeloResponde, Ambiente

\* A question stays a question of the chat when the chat grows.
LEMMA TemPerguntaMantem ==
  ASSUME NEW c \in Chat, Mantem(c), Len(mensagens[c]) \in Nat,
         NEW n \in Nat, n <= Len(mensagens[c])
  PROVE  \A t : \A k \in Nat :
           n <= k /\ TemPergunta(mensagens[c], n, t)
             => TemPergunta(mensagens'[c], k, t)
<1> SUFFICES ASSUME NEW t, NEW k \in Nat, n <= k,
                    TemPergunta(mensagens[c], n, t)
             PROVE  TemPergunta(mensagens'[c], k, t)
  OBVIOUS
<1>1. PICK i, j \in 1..n :
        /\ i < j /\ mensagens[c][i].turno = t /\ mensagens[c][j].turno = t
        /\ mensagens[c][i].papel = "SYSTEM" /\ mensagens[c][j].papel = "USER"
  BY DEF TemPergunta
<1>2. i \in 1..Len(mensagens[c]) /\ j \in 1..Len(mensagens[c])
  OBVIOUS
<1>3. /\ mensagens'[c][i].turno = t /\ mensagens'[c][j].turno = t
      /\ mensagens'[c][i].papel = "SYSTEM" /\ mensagens'[c][j].papel = "USER"
  BY <1>1, <1>2 DEF Mantem
<1> QED
  BY <1>1, <1>3 DEF TemPergunta

\* The fields of what a turn writes.
LEMMA MensagemCampos ==
  ASSUME TypeOK, NEW t \in Turn, NEW k \in 1..3
  PROVE  /\ Mensagem(t, k).turno = t
         /\ Mensagem(t, k).papel = Papeis[k]
         /\ Mensagem(t, k).indice = historico[t] + k
         /\ Mensagem(t, k).feedback = {}
         /\ Mensagem(t, k).chamada = IF k = 3 THEN chamadas[t] ELSE 0
         /\ Mensagem(t, k).minuto = IF k = 1 THEN minutoPreparo[t]
                                    ELSE minutoRegistro[t]
  BY DEF Mensagem

LEMMA GravadasNoChatPasso ==
  ASSUME TypeOK, TypeOK', GravadasNoChat, [Next]_vars
  PROVE  GravadasNoChat'
<1> SUFFICES ASSUME NEW t \in Turn
             PROVE
               LET s == mensagens'[chat'[t]]
               IN /\ pc'[t] \notin {"gravando", "parada", "falhou"} => gravadas'[t] = 0
                  /\ pc'[t] = "gravando" /\ gravadas'[t] >= 1 =>
                       \E j \in 1..Len(s) : s[j].turno = t /\ s[j].papel = "SYSTEM"
                  /\ pc'[t] = "gravando" /\ gravadas'[t] >= 2 => TemPergunta(s, Len(s), t)
  BY DEF GravadasNoChat
<1> DEFINE c == chat'[t]
           s == mensagens'[c]
<1>1. Avanca(t)
  BY AvancaPasso
<1>2. CASE ~(pc'[t] = "gravando" /\ gravadas'[t] >= 1)
  BY <1>1, <1>2 DEF Avanca, TypeOK, TipoGrava
<1>3. CASE pc'[t] = "gravando" /\ gravadas'[t] >= 1
  <2>1. c \in Chat
    BY <1>3 DEF TypeOK, TipoTurno
  <2>2. Mantem(c)
    BY <2>1, MensagensPasso
  <2>3. /\ mensagens[c] \in Seq(Mensagens) /\ mensagens'[c] \in Seq(Mensagens)
        /\ Len(mensagens[c]) \in Nat /\ Len(mensagens'[c]) \in Nat
    BY <2>1, LenProperties DEF TypeOK, TipoElastic
  <2>4. Len(mensagens[c]) <= Len(mensagens'[c])
    BY <2>2, <2>3 DEF Mantem
  <2>5. CASE pc[t] = "gravando" /\ gravadas'[t] = gravadas[t] /\ chat'[t] = chat[t]
    <3>1. PICK j \in 1..Len(mensagens[c]) :
            mensagens[c][j].turno = t /\ mensagens[c][j].papel = "SYSTEM"
      BY <1>3, <2>5 DEF GravadasNoChat
    <3>2. j \in 1..Len(s) /\ s[j].turno = t /\ s[j].papel = "SYSTEM"
      BY <2>2, <2>3, <2>4, <3>1 DEF Mantem
    <3>3. gravadas'[t] >= 2 => TemPergunta(mensagens[c], Len(mensagens[c]), t)
      BY <2>5 DEF GravadasNoChat
    <3>4. gravadas'[t] >= 2 => TemPergunta(s, Len(s), t)
      <4>1. Len(mensagens[c]) <= Len(mensagens[c])
        BY <2>3
      <4> QED
        BY <2>1, <2>2, <2>3, <2>4, <3>3, <4>1, TemPerguntaMantem, Zenon
    <3> QED
      BY <1>1, <1>3, <3>2, <3>4 DEF Avanca
  <2>6. CASE AdicionarMensagem(t) /\ gravadas'[t] = gravadas[t] + 1
    <3>1. gravadas[t] \in 0..2 /\ gravadas'[t] \in 0..2
      BY DEF TypeOK, TipoGrava
    <3>2. pc[t] = "gravando" /\ c = chat[t]
      BY <2>6 DEF AdicionarMensagem
    <3>3. /\ Mensagem(t, gravadas[t] + 1) \in Mensagens
          /\ s = Append(mensagens[c], Mensagem(t, gravadas[t] + 1))
      BY <2>1, <2>6, <3>2, GravaTipo DEF AdicionarMensagem
    <3>4. /\ Len(s) = Len(mensagens[c]) + 1
          /\ s[Len(s)] = Mensagem(t, gravadas[t] + 1)
      BY <2>3, <3>3, AppendProperties
    <3>5. s[Len(s)].turno = t /\ s[Len(s)].papel = Papeis[gravadas[t] + 1]
      BY <3>1, <3>4, MensagemCampos
    <3>6. CASE gravadas[t] = 0
      BY <1>1, <1>3, <2>3, <2>6, <3>4, <3>5, <3>6 DEF Avanca, Papeis
    <3>7. CASE gravadas[t] = 1
      <4>1. PICK j \in 1..Len(mensagens[c]) :
              mensagens[c][j].turno = t /\ mensagens[c][j].papel = "SYSTEM"
        BY <3>2, <3>7 DEF GravadasNoChat
      <4>2. j \in 1..Len(s) /\ s[j].turno = t /\ s[j].papel = "SYSTEM" /\ j < Len(s)
        BY <2>2, <2>3, <3>4, <4>1 DEF Mantem
      <4>3. s[Len(s)].papel = "USER" /\ Len(s) \in 1..Len(s)
        BY <2>3, <3>4, <3>5, <3>7 DEF Papeis
      <4>4. TemPergunta(s, Len(s), t)
        BY <3>5, <4>2, <4>3 DEF TemPergunta
      <4> QED
        BY <1>1, <1>3, <4>2, <4>4 DEF Avanca
    <3> QED
      BY <2>6, <3>1, <3>6, <3>7
  <2> QED
    BY <1>1, <1>3, <2>5, <2>6 DEF Avanca
<1> QED
  BY <1>2, <1>3

\* What is stored never loses its question, and a new answer has one.
LEMMA RespostaTemPerguntaPasso ==
  ASSUME TypeOK, TypeOK', GravadasNoChat, RespostaTemPergunta, [Next]_vars
  PROVE  RespostaTemPergunta'
<1> SUFFICES ASSUME NEW c \in Chat, NEW i \in 1..Len(mensagens'[c]),
                    mensagens'[c][i].papel = "ASSISTANT"
             PROVE  TemPergunta(mensagens'[c], i - 1, mensagens'[c][i].turno)
  BY DEF RespostaTemPergunta
<1>1. Mantem(c) /\ EscreveOuNao(c)
  BY MensagensPasso
<1>2. Len(mensagens[c]) \in Nat /\ Len(mensagens'[c]) \in Nat
  BY LenProperties DEF TypeOK, TipoElastic
<1>3. CASE i \in 1..Len(mensagens[c])
  <2>1. /\ mensagens'[c][i].papel = mensagens[c][i].papel
        /\ mensagens'[c][i].turno = mensagens[c][i].turno
    BY <1>1, <1>3 DEF Mantem
  <2>2. TemPergunta(mensagens[c], i - 1, mensagens[c][i].turno)
    BY <1>3, <2>1 DEF RespostaTemPergunta
  <2>3. i - 1 \in Nat /\ i - 1 <= Len(mensagens[c]) /\ i - 1 <= i - 1
    BY <1>2, <1>3
  <2> QED
    BY <1>1, <1>2, <2>1, <2>2, <2>3, TemPerguntaMantem, Zenon
<1>4. CASE i \notin 1..Len(mensagens[c])
  <2>1. PICK t \in Turn : Escreve(c, t)
    BY <1>1, <1>2, <1>4 DEF EscreveOuNao
  <2>2. i = Len(mensagens[c]) + 1
    BY <1>2, <1>4, <2>1 DEF Escreve
  <2>3. gravadas[t] \in 0..2 /\ gravadas[t] + 1 \in 1..3
    BY DEF TypeOK, TipoGrava
  <2>4. /\ mensagens'[c][i].turno = t
        /\ mensagens'[c][i].papel = Papeis[gravadas[t] + 1]
    BY <2>1, <2>2, <2>3, MensagemCampos DEF Escreve
  <2>5. gravadas[t] = 2
    <3>1. Papeis[gravadas[t] + 1] = "ASSISTANT"
      BY <2>4
    <3>2. Papeis[1] = "SYSTEM" /\ Papeis[2] = "USER"
      BY DEF Papeis
    <3> QED
      BY <2>3, <3>1, <3>2
  <2>6. TemPergunta(mensagens[c], Len(mensagens[c]), t)
    BY <2>1, <2>5 DEF Escreve, GravadasNoChat
  <2>7. i - 1 = Len(mensagens[c])
    BY <1>2, <2>2
  <2> QED
    <3>1. TemPergunta(mensagens'[c], Len(mensagens[c]), t)
      <4>1. Len(mensagens[c]) <= Len(mensagens[c])
        BY <1>2
      <4> QED
        BY <1>1, <1>2, <2>6, <4>1, TemPerguntaMantem, Zenon
    <3> QED
      BY <2>4, <2>7, <3>1
<1> QED
  BY <1>3, <1>4

\* In every behaviour an ASSISTANT message of a chat is preceded by the SYSTEM
\* and the USER message of its turn, whatever writes fail and turns are stopped.
THEOREM AnswersHaveQuestions == Spec => []RespostaTemPergunta
<1>1. Init => TypeOK /\ GravadasNoChat /\ RespostaTemPergunta
  <2>1. Init => TypeOK
    BY EntradasAssumption DEF Init, TypeOK, TipoTurno, TipoCodigo, TipoLLM,
       TipoGrava, TipoParada, TipoElastic, Fases
  <2>2. Init => GravadasNoChat
    BY DEF Init, GravadasNoChat
  <2>3. Init => RespostaTemPergunta
    BY DEF Init, RespostaTemPergunta
  <2> QED
    BY <2>1, <2>2, <2>3
<1>2. TypeOK /\ GravadasNoChat /\ RespostaTemPergunta /\ [Next]_vars
        => TypeOK' /\ GravadasNoChat' /\ RespostaTemPergunta'
  BY TypeOKPasso, GravadasNoChatPasso, RespostaTemPerguntaPasso
<1> QED
  BY <1>1, <1>2, PTL DEF Spec

-----------------------------------------------------------------------------
(* The registry of tasks and the stops                                     *)

CanalPedido == \A p \in Pod : canal[p] \subseteq pedidas
Registro == RegistroCoerente /\ CanalPedido

LEMMA EntradaTipo ==
  ASSUME TypeOK, NEW u \in Turn
  PROVE  entrada[u].pod \in Pod
BY EntradasAssumption DEF TypeOK, TipoTurno

\* Steps that neither start nor end a task nor touch stops or the registry.
LEMMA RegistroParado ==
  ASSUME TypeOK, Registro, UNCHANGED <<entrada, vParada>>,
         \A u \in Turn :
           /\ pc'[u] \in Executando <=> pc[u] \in Executando
           /\ pc'[u] = "parada" => pc[u] = "parada"
  PROVE  Registro'
BY DEF Registro, RegistroCoerente, CanalPedido, Registrada, vParada

\* The task of t, not cancelled, goes on or ends.
LEMMA RegistroProssegue ==
  ASSUME TypeOK, Registro, NEW t \in Turn, pc[t] \in Executando, ~cancelada[t],
         NEW f \in Fases, f # "parada",
         pc' = [pc EXCEPT ![t] = f],
         IF f \in Executando THEN UNCHANGED tasks_registry ELSE Solta(t),
         UNCHANGED <<entrada, canal, pedidas, cancelada>>
  PROVE  Registro'
<1>1. \A u \in Turn : entrada[u].pod \in Pod
  BY EntradaTipo
<1>2. pc \in [Turn -> Fases] /\ tasks_registry \in [Pod -> SUBSET Turn]
  BY DEF TypeOK, TipoTurno, TipoParada
<1>3. CanalPedido'
  BY DEF Registro, CanalPedido
<1>4. CASE f \in Executando
  BY <1>2, <1>3, <1>4 DEF Registro, RegistroCoerente, Registrada
<1>5. CASE f \notin Executando
  <2>1. \A u \in Turn : Registrada(u)' <=> Registrada(u) /\ u # t
    BY <1>1, <1>2, <1>5 DEF Solta, Registrada
  <2>2. \A p \in Pod : tasks_registry'[p] \subseteq tasks_registry[p]
    BY <1>2, <1>5 DEF Solta
  <2>3. \A u \in Turn : pc'[u] = IF u = t THEN f ELSE pc[u]
    BY <1>2
  <2> QED
    BY <1>3, <1>5, <2>1, <2>2, <2>3 DEF Registro, RegistroCoerente
<1> QED
  BY <1>4, <1>5

LEMMA RegistroPasso ==
  ASSUME TypeOK, Registro, [Next]_vars
  PROVE  Registro'
<1>0. /\ pc \in [Turn -> Fases] /\ tasks_registry \in [Pod -> SUBSET Turn]
      /\ canal \in [Pod -> SUBSET Turn] /\ cancelada \in [Turn -> BOOLEAN]
      /\ \A u \in Turn : entrada[u].pod \in Pod
  BY EntradaTipo DEF TypeOK, TipoTurno, TipoParada
<1>1. CASE UNCHANGED vars
  BY <1>1, RegistroParado DEF vars
<1>2. ASSUME NEW t \in Turn,
             \/ ProtectedPrompt(t) \/ CriarNovoChat(t) \/ CarregarHistorico(t)
             \/ Falha(t) \/ PreparaPrompt(t) \/ RegistrarMensagens(t)
      PROVE  Registro'
  <2>1. /\ UNCHANGED <<entrada, vParada>>
        /\ pc[t] \notin Executando
        /\ \E f \in Fases \ (Executando \cup {"parada"}) : pc' = [pc EXCEPT ![t] = f]
    BY <1>2 DEF ProtectedPrompt, CriarNovoChat, CarregarHistorico, Falha,
       PreparaPrompt, RegistrarMensagens, Executando, Fases
  <2> QED
    BY <1>0, <2>1, RegistroParado
<1>3. ASSUME NEW t \in Turn, CriaTask(t)
      PROVE  Registro'
  <2>1. \A u \in Turn : pc'[u] = IF u = t THEN "gerando" ELSE pc[u]
    BY <1>0, <1>3 DEF CriaTask
  <2>2. pc[t] \notin Executando /\ pc[t] # "parada" /\ pc[t] = "despachar"
    BY <1>3 DEF CriaTask, Executando
  <2>3. ~Registrada(t) /\ ~cancelada[t]
    BY <2>2 DEF Registro, RegistroCoerente
  <2>4. UNCHANGED <<entrada, canal, pedidas, cancelada>>
    BY <1>3 DEF CriaTask
  <2>5. \A p \in Pod : tasks_registry'[p] =
          IF p = entrada[t].pod /\ entrada[t].rota # "plana"
          THEN tasks_registry[p] \cup {t} ELSE tasks_registry[p]
    BY <1>0, <1>3 DEF CriaTask, Registra
  <2>6. RegistroCoerente'
    <3>1. \A u \in Turn :
            Registrada(u)' <=> Registrada(u) \/ (u = t /\ entrada[t].rota # "plana")
      BY <1>0, <2>4, <2>5 DEF Registrada
    <3>2. "gerando" \in Executando /\ "gerando" # "parada"
      BY DEF Executando
    <3>3. \A u \in Turn : pc'[u] \in Executando /\ entrada'[u].rota # "plana"
                            <=> Registrada(u)' \/ cancelada'[u]
      BY <2>1, <2>2, <2>3, <2>4, <3>1, <3>2 DEF Registro, RegistroCoerente
    <3>4. \A p \in Pod : \A u \in tasks_registry'[p] :
            entrada'[u].pod = p /\ ~cancelada'[u]
      <4> SUFFICES ASSUME NEW p \in Pod, NEW u \in tasks_registry'[p]
                   PROVE  entrada[u].pod = p /\ ~cancelada[u]
        BY <2>4
      <4>1. CASE u \in tasks_registry[p]
        BY <4>1 DEF Registro, RegistroCoerente
      <4>2. CASE u \notin tasks_registry[p]
        <5>1. p = entrada[t].pod /\ u = t
          BY <2>5, <4>2
        <5> QED
          BY <2>3, <5>1
      <4> QED
        BY <4>1, <4>2
    <3>5. \A u \in Turn : cancelada'[u] \/ pc'[u] = "parada" => u \in pedidas'
      BY <2>1, <2>4, <3>2 DEF Registro, RegistroCoerente
    <3> QED
      BY <3>3, <3>4, <3>5 DEF RegistroCoerente
  <2>7. CanalPedido'
    BY <2>4 DEF Registro, CanalPedido
  <2> QED
    BY <2>6, <2>7 DEF Registro
<1>4. ASSUME NEW t \in Turn, NEW comTexto \in BOOLEAN, NEW fim \in BOOLEAN,
             OnLlmEnd(t, comTexto, fim)
      PROVE  Registro'
  <2>1. \E f \in {"gravando", "gerando", "respondida"} :
          /\ pc' = [pc EXCEPT ![t] = f]
          /\ IF f \in Executando THEN UNCHANGED tasks_registry ELSE Solta(t)
    BY <1>4 DEF OnLlmEnd, Prossegue, Executando
  <2>2. /\ pc[t] \in Executando /\ ~cancelada[t]
        /\ UNCHANGED <<entrada, canal, pedidas, cancelada>>
    BY <1>4 DEF OnLlmEnd, Executando
  <2> QED
    BY <2>1, <2>2, RegistroProssegue DEF Fases
<1>5. ASSUME NEW t \in Turn, ErroLLM(t)
      PROVE  Registro'
  <2>1. /\ pc[t] \in Executando /\ ~cancelada[t]
        /\ UNCHANGED <<entrada, canal, pedidas, cancelada>>
        /\ pc' = [pc EXCEPT ![t] = "falhou"] /\ Solta(t)
    BY <1>5 DEF ErroLLM, Executando
  <2>2. "falhou" \in Fases /\ "falhou" \notin Executando
    BY DEF Fases, Executando
  <2> QED
    BY <2>1, <2>2, RegistroProssegue
<1>6. ASSUME NEW t \in Turn, AdicionarMensagem(t) \/ FalhaGravacao(t)
      PROVE  Registro'
  <2>1. pc = [pc EXCEPT ![t] = pc[t]]
    BY <1>0
  <2>2. \E f \in {"gravando", "gerando", "respondida"} :
          /\ pc' = [pc EXCEPT ![t] = f]
          /\ IF f \in Executando THEN UNCHANGED tasks_registry ELSE Solta(t)
    BY <1>6, <2>1 DEF AdicionarMensagem, FalhaGravacao, Prossegue, Executando
  <2>3. /\ pc[t] \in Executando /\ ~cancelada[t]
        /\ UNCHANGED <<entrada, canal, pedidas, cancelada>>
    BY <1>6 DEF AdicionarMensagem, FalhaGravacao, Executando
  <2> QED
    BY <2>2, <2>3, RegistroProssegue DEF Fases
<1>7. ASSUME NEW t \in Turn, PararProcessamentoResposta(t)
      PROVE  Registro'
  <2>1. UNCHANGED <<pc, entrada, tasks_registry, cancelada>>
    BY <1>7 DEF PararProcessamentoResposta
  <2>2. pedidas' = pedidas \cup {t}
        /\ \A p \in Pod : canal'[p] \subseteq canal[p] \cup {t}
    BY <1>7 DEF PararProcessamentoResposta
  <2>3. RegistroCoerente'
    BY <2>1, <2>2 DEF Registro, RegistroCoerente, Registrada
  <2>4. CanalPedido'
    BY <2>2 DEF Registro, CanalPedido
  <2> QED
    BY <2>3, <2>4 DEF Registro
<1>8. ASSUME NEW p \in Pod, NEW t \in Turn, Escuta(p, t)
      PROVE  Registro'
  <2>1. /\ t \in pedidas
        /\ UNCHANGED <<pc, entrada, pedidas>>
        /\ \A q \in Pod : canal'[q] \subseteq canal[q]
    BY <1>0, <1>8 DEF Escuta, CancelaTask, CancelaTaskFalha, Consome, Registro,
       CanalPedido
  <2>2. CanalPedido'
    BY <2>1 DEF Registro, CanalPedido
  <2>3. CASE UNCHANGED <<cancelada, tasks_registry>>
    BY <2>1, <2>2, <2>3 DEF Registro, RegistroCoerente, Registrada
  <2>4. CASE /\ t \in tasks_registry[p]
             /\ cancelada' = [cancelada EXCEPT ![t] = TRUE]
             /\ tasks_registry' = [tasks_registry EXCEPT ![p] = @ \ {t}]
    <3>1. entrada[t].pod = p
      BY <2>4 DEF Registro, RegistroCoerente
    <3>2. \A u \in Turn : cancelada'[u] <=> u = t \/ cancelada[u]
      BY <1>0, <2>4
    <3>3. \A q \in Pod : tasks_registry'[q] = tasks_registry[q] \ (IF q = p THEN {t} ELSE {})
      BY <1>0, <2>4
    <3>4. \A u \in Turn : Registrada(u)' <=> Registrada(u) /\ u # t
      BY <1>0, <2>1, <3>1, <3>3 DEF Registrada
    <3>5. Registrada(t)
      BY <2>4, <3>1 DEF Registrada
    <3>6. \A q \in Pod : \A u \in tasks_registry'[q] :
            entrada'[u].pod = q /\ ~cancelada'[u]
      BY <1>0, <2>1, <3>1, <3>2, <3>3 DEF Registro, RegistroCoerente
    <3>7. \A u \in Turn : cancelada'[u] \/ pc'[u] = "parada" => u \in pedidas'
      BY <2>1, <3>2 DEF Registro, RegistroCoerente
    <3>8. \A u \in Turn : pc'[u] \in Executando /\ entrada'[u].rota # "plana"
                            <=> Registrada(u)' \/ cancelada'[u]
      BY <2>1, <3>2, <3>4, <3>5 DEF Registro, RegistroCoerente
    <3> QED
      BY <2>2, <3>6, <3>7, <3>8 DEF Registro, RegistroCoerente
  <2> QED
    BY <1>8, <2>3, <2>4 DEF Escuta, CancelaTask, CancelaTaskFalha
<1>9. ASSUME NEW t \in Turn, TaskCancelada(t)
      PROVE  Registro'
  <2>1. UNCHANGED <<entrada, tasks_registry, canal, pedidas>> /\ cancelada[t]
    BY <1>9 DEF TaskCancelada
  <2>2. \A u \in Turn : /\ pc'[u] = IF u = t THEN "parada" ELSE pc[u]
                        /\ cancelada'[u] <=> cancelada[u] /\ u # t
    BY <1>0, <1>9 DEF TaskCancelada
  <2>3. ~Registrada(t) /\ t \in pedidas
    BY <1>0, <2>1 DEF Registro, RegistroCoerente, Registrada
  <2>4. RegistroCoerente'
    BY <1>0, <2>1, <2>2, <2>3 DEF Registro, RegistroCoerente, Registrada, Executando
  <2>5. CanalPedido'
    BY <2>1 DEF Registro, CanalPedido
  <2> QED
    BY <2>4, <2>5 DEF Registro
<1>10. ASSUME UNCHANGED <<pc, entrada, vParada>>
       PROVE  Registro'
  BY <1>10, RegistroParado
<1>11. ASSUME NEW p \in Pod, QuedaPod(p)
       PROVE  Registro'
  <2>1. UNCHANGED <<entrada, pedidas>>
    BY <1>11 DEF QuedaPod
  <2>2. \A u \in Turn :
          /\ pc'[u] = IF Ativo(u) /\ entrada[u].pod = p THEN "falhou" ELSE pc[u]
          /\ cancelada'[u] <=> cancelada[u] /\ entrada[u].pod # p
    BY <1>11 DEF QuedaPod
  <2>3. \A q \in Pod : /\ tasks_registry'[q] = IF q = p THEN {} ELSE tasks_registry[q]
                       /\ canal'[q] \subseteq canal[q]
    BY <1>0, <1>11 DEF QuedaPod
  <2>4. \A u \in Turn : Registrada(u)' <=> Registrada(u) /\ entrada[u].pod # p
    BY <1>0, <2>1, <2>3 DEF Registrada
  <2>5. \A u \in Turn : pc[u] \in Executando => Ativo(u)
    BY DEF Executando, Ativo, Encerradas
  <2>6. "falhou" \notin Executando /\ "falhou" # "parada"
    BY DEF Executando
  <2>7. \A u \in Turn : pc'[u] \in Executando /\ entrada'[u].rota # "plana"
                          <=> Registrada(u)' \/ cancelada'[u]
    BY <2>1, <2>2, <2>4, <2>5, <2>6 DEF Registro, RegistroCoerente
  <2>8. \A q \in Pod : \A u \in tasks_registry'[q] :
          entrada'[u].pod = q /\ ~cancelada'[u]
    BY <1>0, <2>1, <2>2, <2>3 DEF Registro, RegistroCoerente
  <2>9. \A u \in Turn : cancelada'[u] \/ pc'[u] = "parada" => u \in pedidas'
    BY <2>1, <2>2, <2>6 DEF Registro, RegistroCoerente
  <2>10. CanalPedido'
    BY <2>1, <2>3 DEF Registro, CanalPedido
  <2> QED
    BY <2>7, <2>8, <2>9, <2>10 DEF Registro, RegistroCoerente
<1>12. (\E t \in Turn : AdicionarFeedback(t)) \/ (\E c \in Chat : Refresh(c)) \/ Tick
         => UNCHANGED <<pc, entrada, vParada>>
  BY DEF AdicionarFeedback, Refresh, Tick
<1>13. ASSUME NEW t \in Turn, OnLlmNewToken(t)
       PROVE  Registro'
  BY <1>13, RegistroParado DEF OnLlmNewToken
<1> QED
  BY <1>1, <1>2, <1>3, <1>4, <1>5, <1>6, <1>7, <1>8, <1>9, <1>10, <1>11, <1>12,
     <1>13, BoundsAssumption
  DEF Next, Restante, Etapa, ModeloResponde, Usuario, Ambiente

\* In every behaviour each streaming task that runs is registered on its pod or
\* already cancelled, the registry holds no other task, and only turns whose
\* stop was published are cancelled.
THEOREM RegistryIsExact == Spec => []RegistroCoerente
<1>1. Init => TypeOK
  BY EntradasAssumption DEF Init, TypeOK, TipoTurno, TipoCodigo, TipoLLM,
     TipoGrava, TipoParada, TipoElastic, Fases
<1>2. Init => Registro
  BY EntradasAssumption DEF Init, Registro, RegistroCoerente, CanalPedido,
     Registrada, Executando
<1>3. TypeOK /\ Registro /\ [Next]_vars => TypeOK' /\ Registro'
  BY TypeOKPasso, RegistroPasso
<1>4. Registro => RegistroCoerente
  BY DEF Registro
<1> QED
  BY <1>1, <1>2, <1>3, <1>4, PTL DEF Spec

\* A stop its pod consumes while a streaming turn runs cancels the turn, unless
\* another task is being registered at that moment.  (A turn on the route that
\* does not stream has no such theorem.)
THEOREM StopsTakeEffect == Spec => ParadaTemEfeito
<1> DEFINE Efeito(t) == entrada[t].rota # "plana" => ~ParadaPerdida(t)
<1>1. Init => TypeOK
  BY EntradasAssumption DEF Init, TypeOK, TipoTurno, TipoCodigo, TipoLLM,
     TipoGrava, TipoParada, TipoElastic, Fases
<1>2. Init => Registro
  BY EntradasAssumption DEF Init, Registro, RegistroCoerente, CanalPedido,
     Registrada, Executando
<1>3. TypeOK /\ Registro /\ [Next]_vars => TypeOK' /\ Registro'
  BY TypeOKPasso, RegistroPasso
<1>4. TypeOK /\ Registro /\ [Next]_vars => \A t \in Turn : Efeito(t)
  <2> SUFFICES ASSUME TypeOK, Registro, [Next]_vars, NEW t \in Turn,
                      entrada[t].rota # "plana",
                      pc[t] \in Executando, t \in canal[entrada[t].pod],
                      t \notin canal'[entrada[t].pod],
                      ~Registrando(entrada[t].pod)
               PROVE  cancelada'[t] \/ pc'[t] \in Encerradas
    BY DEF ParadaPerdida
  <2> DEFINE p == entrada[t].pod
  <2>1. p \in Pod /\ entrada[t].rota # "plana"
    BY EntradaTipo DEF TypeOK, TipoTurno
  <2>2. canal \in [Pod -> SUBSET Turn] /\ cancelada \in [Turn -> BOOLEAN]
    BY DEF TypeOK, TipoParada
  <2>3. \/ \E q \in Pod, u \in Turn : Escuta(q, u)
        \/ \E q \in Pod : QuedaPod(q)
    <3>1. canal' # canal
      OBVIOUS
    <3>2. ASSUME NEW u \in Turn, PararProcessamentoResposta(u)
          PROVE  FALSE
      BY <2>1, <3>2 DEF PararProcessamentoResposta
    <3>3. ASSUME NEW u \in Turn, Etapa(u) \/ ModeloResponde(u) \/ AdicionarFeedback(u)
                                   \/ ProtectedPrompt(u)
          PROVE  canal' = canal
      BY <3>3 DEF Etapa, ModeloResponde, AdicionarFeedback, ProtectedPrompt,
         CriarNovoChat, CarregarHistorico, Falha, PreparaPrompt,
         RegistrarMensagens, CriaTask, OnLlmNewToken, OnLlmEnd, ErroLLM, AdicionarMensagem,
         FalhaGravacao, TaskCancelada, vParada
    <3>4. (\E c \in Chat : Refresh(c)) \/ Tick \/ UNCHANGED vars => canal' = canal
      BY DEF Refresh, Tick, vars, vParada
    <3> QED
      BY <3>1, <3>2, <3>3, <3>4, BoundsAssumption
      DEF Next, Restante, Usuario, Ambiente
  <2>4. ASSUME NEW q \in Pod, NEW u \in Turn, Escuta(q, u)
        PROVE  cancelada'[t]
    <3>1. u = t /\ q = p
      BY <2>1, <2>2, <2>4 DEF Escuta, CancelaTask, CancelaTaskFalha, Consome
    <3>2. CancelaTask(p, t)
      BY <2>4, <3>1 DEF Escuta, CancelaTaskFalha, Registrando
    <3>3. Registrada(t) \/ cancelada[t]
      BY <2>1 DEF Registro, RegistroCoerente
    <3> QED
      BY <2>2, <3>2, <3>3 DEF CancelaTask, Registrada
  <2>5. ASSUME NEW q \in Pod, QuedaPod(q)
        PROVE  pc'[t] \in Encerradas
    <3>1. q = p
      BY <2>1, <2>2, <2>5 DEF QuedaPod
    <3>2. Ativo(t)
      BY DEF Ativo, Executando, Encerradas
    <3> QED
      BY <2>5, <3>1, <3>2 DEF QuedaPod, Encerradas
  <2> QED
    BY <2>3, <2>4, <2>5
<1>5. TypeOK /\ Registro /\ [Next]_vars =>
        [\A t \in Turn : Efeito(t)]_vars
  BY <1>4
<1> QED
  BY <1>1, <1>2, <1>3, <1>5, PTL DEF Spec, ParadaTemEfeito

-----------------------------------------------------------------------------
(* The text of a model call is stored, and stored once                     *)

\* The phases a turn may be in once it wrote a message.
Lancada == Executando \cup Encerradas

\* A step keeps the request of a turn and, once its task was created, its chat
\* and codes; only the end of a model call makes it write another answer.
Continua(u) ==
  /\ entrada'[u] = entrada[u]
  /\ pc[u] \in Lancada =>
       /\ pc'[u] \in Lancada /\ chat'[u] = chat[u]
       /\ historico'[u] = historico[u]
       /\ minutoPreparo'[u] = minutoPreparo[u]
       /\ minutoRegistro'[u] = minutoRegistro[u]
  /\ chamadas[u] <= chamadas'[u]
  /\ pc'[u] = "gravando" =>
       \/ pc[u] = "gravando" /\ chamadas'[u] = chamadas[u]
       \/ pc[u] = "gerando" /\ chamadas'[u] = chamadas[u] + 1

LEMMA ContinuaPasso ==
  ASSUME TypeOK, [Next]_vars, NEW u \in Turn
  PROVE  Continua(u)
<1> USE DEF Continua, Lancada, Executando, Encerradas
<1>0. /\ pc \in [Turn -> Fases] /\ chamadas \in [Turn -> Nat]
      /\ chat \in [Turn -> Chat \cup {SemChat}]
      /\ historico \in [Turn -> Nat] /\ minutoPreparo \in [Turn -> Nat]
      /\ minutoRegistro \in [Turn -> Nat]
  BY DEF TypeOK, TipoTurno, TipoCodigo, TipoLLM
<1>1. CASE UNCHANGED <<pc, entrada, chat, vCodigo, chamadas>>
  BY <1>0, <1>1 DEF vCodigo
<1>2. ASSUME NEW t \in Turn, ProtectedPrompt(t)
      PROVE  Continua(u)
  BY <1>0, <1>2 DEF ProtectedPrompt, vCodigo, vLLM
<1>3. ASSUME NEW t \in Turn, CriarNovoChat(t) \/ CarregarHistorico(t) \/ Falha(t)
      PROVE  Continua(u)
  BY <1>0, <1>3 DEF CriarNovoChat, CarregarHistorico, Falha, vCodigo, vLLM
<1>4. ASSUME NEW t \in Turn, PreparaPrompt(t) \/ RegistrarMensagens(t) \/ CriaTask(t)
      PROVE  Continua(u)
  BY <1>0, <1>4 DEF PreparaPrompt, RegistrarMensagens, CriaTask, vCodigo, vLLM
<1>5. ASSUME NEW t \in Turn, NEW comTexto \in BOOLEAN, NEW fim \in BOOLEAN,
             OnLlmEnd(t, comTexto, fim)
      PROVE  Continua(u)
  BY <1>0, <1>5 DEF OnLlmEnd, Prossegue, vCodigo
<1>6. ASSUME NEW t \in Turn, ErroLLM(t) \/ FalhaGravacao(t) \/ TaskCancelada(t)
      PROVE  Continua(u)
  BY <1>0, <1>6 DEF ErroLLM, FalhaGravacao, TaskCancelada, Prossegue, vCodigo, vLLM
<1>7. ASSUME NEW t \in Turn, AdicionarMensagem(t)
      PROVE  Continua(u)
  BY <1>0, <1>7 DEF AdicionarMensagem, Prossegue, vCodigo
<1>8. ASSUME NEW p \in Caem, QuedaPod(p)
      PROVE  Continua(u)
  BY <1>0, <1>8 DEF QuedaPod, Ativo, vCodigo, vLLM
<1>9. (\E t \in Turn : Usuario(t)) \/ (\E p \in Pod, t \in Turn : Escuta(p, t))
      \/ (\E c \in Chat : Refresh(c)) \/ Tick \/ UNCHANGED vars
      \/ (\E t \in Turn : OnLlmNewToken(t))
        => UNCHANGED <<pc, entrada, chat, vCodigo, chamadas>>
  BY DEF Usuario, OnLlmNewToken, Escuta, PararProcessamentoResposta, AdicionarFeedback,
     CancelaTask, CancelaTaskFalha, Refresh, Tick, vars, vLLM, vCodigo
<1> QED
  BY <1>1, <1>2, <1>3, <1>4, <1>5, <1>6, <1>7, <1>8, <1>9
  DEF Next, Restante, Etapa, ModeloResponde, Ambiente

\* A stored message was there before the step, or the step wrote it.
LEMMA VelhaOuNova ==
  ASSUME TypeOK, TypeOK', [Next]_vars, NEW c \in Chat, NEW i \in 1..Len(mensagens'[c])
  PROVE  /\ mensagens'[c][i] \in Mensagens
         /\ Len(mensagens[c]) \in Nat /\ Len(mensagens'[c]) \in Nat
         /\ \/ /\ i \in 1..Len(mensagens[c])
               /\ mensagens[c][i] \in Mensagens
               /\ mensagens'[c][i].turno = mensagens[c][i].turno
               /\ mensagens'[c][i].papel = mensagens[c][i].papel
               /\ mensagens'[c][i].minuto = mensagens[c][i].minuto
               /\ mensagens'[c][i].indice = mensagens[c][i].indice
               /\ mensagens'[c][i].chamada = mensagens[c][i].chamada
            \/ /\ i = Len(mensagens[c]) + 1
               /\ \E t \in Turn : /\ Escreve(c, t) /\ gravadas[t] + 1 \in 1..3
                                  /\ mensagens'[c][i] = Mensagem(t, gravadas[t] + 1)
<1>1. Mantem(c) /\ EscreveOuNao(c)
  BY MensagensPasso
<1>2. mensagens[c] \in Seq(Mensagens) /\ mensagens'[c] \in Seq(Mensagens)
  BY DEF TypeOK, TipoElastic
<1>3. Len(mensagens[c]) \in Nat /\ Len(mensagens'[c]) \in Nat
  BY <1>2, LenProperties
<1>4. mensagens'[c][i] \in Mensagens
  BY <1>2, ElementOfSeq
<1>5. CASE i \in 1..Len(mensagens[c])
  <2>1. mensagens[c][i] \in Mensagens
    BY <1>2, <1>5, ElementOfSeq
  <2> QED
    BY <1>1, <1>3, <1>4, <1>5, <2>1 DEF Mantem
<1>6. CASE i \notin 1..Len(mensagens[c])
  <2>1. PICK t \in Turn : Escreve(c, t)
    BY <1>1, <1>3, <1>6 DEF EscreveOuNao
  <2>2. i = Len(mensagens[c]) + 1
    BY <1>3, <1>6, <2>1 DEF Escreve
  <2>3. mensagens'[c][i] = Mensagem(t, gravadas[t] + 1)
    BY <2>1, <2>2 DEF Escreve
  <2>4. gravadas[t] + 1 \in 1..3
    BY DEF TypeOK, TipoGrava
  <2> QED
    BY <1>3, <1>4, <2>1, <2>2, <2>3, <2>4
<1> QED
  BY <1>5, <1>6

\* A message is of the chat its turn was sent to, and of one of its model calls.
Autoria ==
  \A c \in Chat : \A i \in 1..Len(mensagens[c]) :
    LET m == mensagens[c][i]
    IN /\ chat[m.turno] = c /\ pc[m.turno] \in Lancada
       /\ m.chamada <= chamadas[m.turno]

\* The answer being written is not stored yet.
AindaNao ==
  \A t \in Turn : pc[t] = "gravando" =>
    \A c \in Chat : \A i \in 1..Len(mensagens[c]) :
      ~ /\ mensagens[c][i].turno = t /\ mensagens[c][i].papel = "ASSISTANT"
        /\ mensagens[c][i].chamada = chamadas[t]

LEMMA AutoriaPasso ==
  ASSUME TypeOK, TypeOK', Autoria, [Next]_vars
  PROVE  Autoria'
<1> SUFFICES ASSUME NEW c \in Chat, NEW i \in 1..Len(mensagens'[c])
             PROVE  LET m == mensagens'[c][i]
                    IN /\ chat'[m.turno] = c /\ pc'[m.turno] \in Lancada
                       /\ m.chamada <= chamadas'[m.turno]
  BY DEF Autoria
<1>0. chamadas \in [Turn -> Nat] /\ chamadas' \in [Turn -> Nat]
  BY DEF TypeOK, TipoLLM
<1>1. CASE /\ i \in 1..Len(mensagens[c]) /\ mensagens[c][i] \in Mensagens
           /\ mensagens'[c][i].turno = mensagens[c][i].turno
           /\ mensagens'[c][i].chamada = mensagens[c][i].chamada
  <2> DEFINE m == mensagens[c][i]
  <2>1. m.turno \in Turn /\ m.chamada \in Nat
    BY <1>1 DEF Mensagens
  <2>2. chat[m.turno] = c /\ pc[m.turno] \in Lancada /\ m.chamada <= chamadas[m.turno]
    BY <1>1 DEF Autoria
  <2>3. Continua(m.turno)
    BY <2>1, ContinuaPasso
  <2> QED
    BY <1>0, <1>1, <2>1, <2>2, <2>3 DEF Continua
<1>2. ASSUME NEW t \in Turn, Escreve(c, t), gravadas[t] + 1 \in 1..3,
             mensagens'[c][i] = Mensagem(t, gravadas[t] + 1)
      PROVE  LET m == mensagens'[c][i]
             IN /\ chat'[m.turno] = c /\ pc'[m.turno] \in Lancada
                /\ m.chamada <= chamadas'[m.turno]
  <2>1. /\ mensagens'[c][i].turno = t
        /\ mensagens'[c][i].chamada \in {0, chamadas[t]}
    BY <1>2, MensagemCampos
  <2>2. pc[t] \in Lancada /\ chat[t] = c
    BY <1>2 DEF Escreve, Lancada, Executando
  <2>3. Continua(t)
    BY ContinuaPasso
  <2> QED
    BY <1>0, <2>1, <2>2, <2>3 DEF Continua
<1> QED
  BY <1>1, <1>2, VelhaOuNova

\* A turn that goes on writing did not write its answer in the step.
LEMMA EscreveAntes ==
  ASSUME TypeOK, NEW c \in Chat, NEW t \in Turn, Escreve(c, t),
         pc'[t] = "gravando"
  PROVE  Papeis[gravadas[t] + 1] # "ASSISTANT"
<1>1. gravadas[t] \in 0..2 /\ pc \in [Turn -> Fases]
  BY DEF TypeOK, TipoTurno, TipoGrava
<1>2. AdicionarMensagem(t) /\ gravadas[t] < 2
  BY <1>1 DEF Escreve, AdicionarMensagem, FalhaGravacao, TaskCancelada, Prossegue
<1> QED
  BY <1>1, <1>2 DEF Papeis

LEMMA AindaNaoPasso ==
  ASSUME TypeOK, TypeOK', Autoria, AindaNao, [Next]_vars
  PROVE  AindaNao'
<1> SUFFICES ASSUME NEW t \in Turn, pc'[t] = "gravando", NEW c \in Chat,
                    NEW i \in 1..Len(mensagens'[c]),
                    mensagens'[c][i].turno = t,
                    mensagens'[c][i].papel = "ASSISTANT",
                    mensagens'[c][i].chamada = chamadas'[t]
             PROVE  FALSE
  BY DEF AindaNao
<1>0. chamadas \in [Turn -> Nat]
  BY DEF TypeOK, TipoLLM
<1>1. Continua(t)
  BY ContinuaPasso
<1>2. CASE /\ i \in 1..Len(mensagens[c]) /\ mensagens[c][i] \in Mensagens
           /\ mensagens'[c][i].turno = mensagens[c][i].turno
           /\ mensagens'[c][i].papel = mensagens[c][i].papel
           /\ mensagens'[c][i].chamada = mensagens[c][i].chamada
  <2>1. mensagens[c][i].chamada <= chamadas[t]
    BY <1>2 DEF Autoria
  <2>2. mensagens[c][i].chamada = chamadas'[t]
    BY <1>2
  <2>3. CASE pc[t] = "gravando" /\ chamadas'[t] = chamadas[t]
    BY <1>2, <2>3 DEF AindaNao
  <2>4. CASE chamadas'[t] = chamadas[t] + 1
    BY <1>0, <2>1, <2>2, <2>4
  <2> QED
    BY <1>1, <2>3, <2>4 DEF Continua
<1>3. ASSUME NEW u \in Turn, Escreve(c, u), gravadas[u] + 1 \in 1..3,
             mensagens'[c][i] = Mensagem(u, gravadas[u] + 1)
      PROVE  FALSE
  BY <1>3, MensagemCampos, EscreveAntes
<1> QED
  BY <1>2, <1>3, VelhaOuNova

\* What is stored of a call stays the only one of it.
LEMMA UmaVezPasso ==
  ASSUME TypeOK, TypeOK', Autoria, Autoria', AindaNao, ChamadaGravadaUmaVez,
         [Next]_vars
  PROVE  ChamadaGravadaUmaVez'
<1> SUFFICES ASSUME NEW c \in Chat, NEW d \in Chat,
                    NEW i \in 1..Len(mensagens'[c]), NEW j \in 1..Len(mensagens'[d]),
                    mensagens'[c][i].papel = "ASSISTANT",
                    mensagens'[d][j].papel = "ASSISTANT",
                    mensagens'[c][i].turno = mensagens'[d][j].turno,
                    mensagens'[c][i].chamada = mensagens'[d][j].chamada
             PROVE  c = chat'[mensagens'[c][i].turno] /\ c = d /\ i = j
  BY DEF ChamadaGravadaUmaVez
<1> DEFINE Velha(e, k) == /\ k \in 1..Len(mensagens[e])
                          /\ mensagens'[e][k].turno = mensagens[e][k].turno
                          /\ mensagens'[e][k].papel = mensagens[e][k].papel
                          /\ mensagens'[e][k].chamada = mensagens[e][k].chamada
           Nova(e, k) == /\ k = Len(mensagens[e]) + 1
                         /\ \E t \in Turn : /\ Escreve(e, t) /\ gravadas[t] + 1 \in 1..3
                                            /\ mensagens'[e][k] = Mensagem(t, gravadas[t] + 1)
<1>1. /\ Velha(c, i) \/ Nova(c, i)
      /\ Velha(d, j) \/ Nova(d, j)
  BY VelhaOuNova
<1>2. c = chat'[mensagens'[c][i].turno] /\ d = chat'[mensagens'[d][j].turno]
  BY DEF Autoria
<1>3. c = d
  BY <1>2
<1>4. ASSUME NEW e \in Chat, NEW k \in 1..Len(mensagens'[e]), Nova(e, k),
             mensagens'[e][k].papel = "ASSISTANT"
      PROVE  \E t \in Turn : /\ pc[t] = "gravando"
                             /\ mensagens'[e][k].turno = t
                             /\ mensagens'[e][k].chamada = chamadas[t]
  <2>1. PICK t \in Turn : /\ Escreve(e, t) /\ gravadas[t] + 1 \in 1..3
                          /\ mensagens'[e][k] = Mensagem(t, gravadas[t] + 1)
    BY <1>4
  <2>2. Papeis[gravadas[t] + 1] = "ASSISTANT"
    BY <1>4, <2>1, MensagemCampos
  <2>3. gravadas[t] + 1 = 3
    BY <2>1, <2>2 DEF Papeis
  <2> QED
    BY <2>1, <2>3, MensagemCampos DEF Escreve
<1>5. ASSUME NEW e \in Chat, NEW k \in 1..Len(mensagens'[e]), Nova(e, k),
             NEW f \in Chat, NEW l \in 1..Len(mensagens'[f]), Velha(f, l),
             mensagens'[e][k].papel = "ASSISTANT",
             mensagens'[f][l].papel = "ASSISTANT",
             mensagens'[e][k].turno = mensagens'[f][l].turno,
             mensagens'[e][k].chamada = mensagens'[f][l].chamada
      PROVE  FALSE
  <2>1. PICK t \in Turn : /\ pc[t] = "gravando"
                          /\ mensagens'[e][k].turno = t
                          /\ mensagens'[e][k].chamada = chamadas[t]
    BY <1>4, <1>5
  <2>2. /\ mensagens[f][l].turno = t /\ mensagens[f][l].papel = "ASSISTANT"
        /\ mensagens[f][l].chamada = chamadas[t]
    BY <1>5, <2>1
  <2> QED
    BY <1>5, <2>1, <2>2 DEF AindaNao
<1>6. CASE Velha(c, i) /\ Velha(d, j)
  <2>1. i = j
    BY <1>6 DEF ChamadaGravadaUmaVez
  <2> QED
    BY <1>2, <1>3, <2>1
<1>7. CASE Nova(c, i) /\ Nova(d, j)
  BY <1>2, <1>3, <1>7
<1>8. ~(Nova(c, i) /\ Velha(d, j)) /\ ~(Velha(c, i) /\ Nova(d, j))
  BY <1>5
<1> QED
  BY <1>1, <1>6, <1>7, <1>8

\* In every behaviour the text of one model call becomes at most one ASSISTANT
\* message, of the chat its turn was sent to: whatever writes fail, half applied
\* or not, and whatever stops, restarts and other turns of the chat come between.
THEOREM CallsStoredOnce == Spec => []ChamadaGravadaUmaVez
<1> DEFINE Inv == TypeOK /\ Autoria /\ AindaNao /\ ChamadaGravadaUmaVez
<1>1. Init => Inv
  <2>1. Init => TypeOK
    BY EntradasAssumption DEF Init, TypeOK, TipoTurno, TipoCodigo, TipoLLM,
       TipoGrava, TipoParada, TipoElastic, Fases
  <2>2. Init => Autoria /\ AindaNao /\ ChamadaGravadaUmaVez
    BY DEF Init, Autoria, AindaNao, ChamadaGravadaUmaVez
  <2> QED
    BY <2>1, <2>2
<1>2. Inv /\ [Next]_vars => Inv'
  BY TypeOKPasso, AutoriaPasso, AindaNaoPasso, UmaVezPasso
<1> QED
  BY <1>1, <1>2, PTL DEF Spec

-----------------------------------------------------------------------------
(* The last text of a model without the tool flag is stored                *)

\* Only a model with the Bedrock flag ever waits for the call of a tool.
SemMarca == \A t \in Turn : ~IsWithTools(t) => ~isToolCall[t]

LEMMA SemMarcaPasso ==
  ASSUME TypeOK, SemMarca, [Next]_vars
  PROVE  SemMarca'
<1> SUFFICES ASSUME NEW u \in Turn, ~IsWithTools(u)'
             PROVE  ~isToolCall'[u]
  BY DEF SemMarca
<1>0. isToolCall \in [Turn -> BOOLEAN]
  BY DEF TypeOK, TipoLLM
<1>1. entrada'[u] = entrada[u]
  BY ContinuaPasso DEF Continua
<1>2. ~IsWithTools(u) /\ ~isToolCall[u]
  BY <1>1 DEF IsWithTools, SemMarca
<1>3. CASE UNCHANGED isToolCall
  BY <1>2, <1>3
<1>4. ASSUME NEW t \in Turn, NEW comTexto \in BOOLEAN, NEW fim \in BOOLEAN,
             OnLlmEnd(t, comTexto, fim)
      PROVE  ~isToolCall'[u]
  <2>1. CASE isToolCall' = [isToolCall EXCEPT
                              ![t] = @ \/ (comTexto /\ IsWithTools(t))]
    <3>1. CASE t = u
      <4>1. isToolCall'[u] = (isToolCall[u] \/ (comTexto /\ IsWithTools(u)))
        BY <1>0, <2>1, <3>1, Zenon
      <4> QED
        BY <1>2, <4>1
    <3>2. CASE t # u
      <4>1. isToolCall'[u] = isToolCall[u]
        BY <1>0, <2>1, <3>2, Zenon
      <4> QED
        BY <1>2, <4>1
    <3> QED
      BY <3>1, <3>2
  <2> QED
    BY <1>2, <1>4, <2>1 DEF OnLlmEnd
<1>5. ASSUME NEW t \in Turn, AdicionarMensagem(t)
      PROVE  ~isToolCall'[u]
  <2>1. CASE isToolCall' = [isToolCall EXCEPT ![t] = FALSE]
    BY <1>0, <1>2, <2>1, Zenon
  <2> QED
    BY <1>2, <1>5, <2>1 DEF AdicionarMensagem
<1>6. \/ UNCHANGED isToolCall
      \/ \E t \in Turn : AdicionarMensagem(t)
      \/ \E t \in Turn : \E comTexto, fim \in BOOLEAN : OnLlmEnd(t, comTexto, fim)
  BY DEF vars, vLLM, Next, Restante, Etapa, ModeloResponde, Usuario,
     Ambiente, Escuta, ProtectedPrompt, CriarNovoChat, CarregarHistorico,
     Falha, PreparaPrompt, RegistrarMensagens, CriaTask, OnLlmNewToken, ErroLLM,
     FalhaGravacao, TaskCancelada, AdicionarFeedback, PararProcessamentoResposta,
     CancelaTask, CancelaTaskFalha, Refresh, Tick, QuedaPod
<1> QED
  BY <1>3, <1>4, <1>5, <1>6

\* How a turn whose writes all worked comes to be answered with a text.
Responde(u) ==
  \/ /\ pc[u] = "respondida" /\ texto[u] /\ ~gravacaoFalhou[u]
     /\ chat'[u] = chat[u] /\ chamadas'[u] = chamadas[u]
  \/ /\ AdicionarMensagem(u) /\ gravadas[u] = 2
     /\ chat'[u] = chat[u] /\ chamadas'[u] = chamadas[u]

LEMMA RespondePasso ==
  ASSUME TypeOK, SemMarca, [Next]_vars, NEW u \in Turn,
         pc'[u] = "respondida", texto'[u], ~gravacaoFalhou'[u], ~IsWithTools(u)
  PROVE  Responde(u)
<1> USE DEF Responde
<1>0. /\ pc \in [Turn -> Fases] /\ chamadas \in [Turn -> Nat]
      /\ gravadas \in [Turn -> 0..2] /\ chat \in [Turn -> Chat \cup {SemChat}]
      /\ texto \in [Turn -> BOOLEAN] /\ gravacaoFalhou \in [Turn -> BOOLEAN]
  BY DEF TypeOK, TipoTurno, TipoLLM, TipoGrava
<1>1. CASE UNCHANGED <<pc, chat, chamadas, texto, gravacaoFalhou>>
  BY <1>1
<1>2. ASSUME NEW t \in Turn,
             \/ ProtectedPrompt(t) \/ CriarNovoChat(t) \/ CarregarHistorico(t)
             \/ Falha(t) \/ PreparaPrompt(t) \/ RegistrarMensagens(t) \/ CriaTask(t)
      PROVE  Responde(u)
  BY <1>0, <1>2 DEF ProtectedPrompt, CriarNovoChat, CarregarHistorico, Falha,
     PreparaPrompt, RegistrarMensagens, CriaTask, vLLM, vGrava
<1>3. ASSUME NEW t \in Turn, NEW comTexto \in BOOLEAN, NEW fim \in BOOLEAN,
             OnLlmEnd(t, comTexto, fim)
      PROVE  Responde(u)
  <2>1. CASE t # u
    BY <1>0, <1>3, <2>1 DEF OnLlmEnd, Prossegue, vGrava
  <2>2. CASE t = u
    <3>1. texto'[u] = comTexto
      BY <1>0, <1>3, <2>2 DEF OnLlmEnd
    <3>2. ~isToolCall[u]
      BY DEF SemMarca
    <3>3. Persiste(u, comTexto)
      BY <3>1, <3>2 DEF Persiste
    <3>4. pc'[u] = "gravando"
      BY <1>0, <1>3, <2>2, <3>3 DEF OnLlmEnd
    <3> QED
      BY <3>4
  <2> QED
    BY <2>1, <2>2
<1>4. ASSUME NEW t \in Turn, ErroLLM(t) \/ TaskCancelada(t)
      PROVE  Responde(u)
  BY <1>0, <1>4 DEF ErroLLM, TaskCancelada, vLLM, vGrava
<1>5. ASSUME NEW t \in Turn, AdicionarMensagem(t)
      PROVE  Responde(u)
  BY <1>0, <1>5 DEF AdicionarMensagem, Prossegue
<1>6. ASSUME NEW t \in Turn, FalhaGravacao(t)
      PROVE  Responde(u)
  <2>1. CASE t = u
    <3>1. gravacaoFalhou'[u]
      BY <1>0, <1>6, <2>1 DEF FalhaGravacao
    <3> QED
      BY <3>1
  <2>2. CASE t # u
    BY <1>0, <1>6, <2>2 DEF FalhaGravacao, Prossegue, vLLM
  <2> QED
    BY <2>1, <2>2
<1>7. ASSUME NEW p \in Caem, QuedaPod(p)
      PROVE  Responde(u)
  BY <1>0, <1>7 DEF QuedaPod, Ativo, vLLM, vGrava
<1>8. (\E t \in Turn : Usuario(t)) \/ (\E p \in Pod, t \in Turn : Escuta(p, t))
      \/ (\E c \in Chat : Refresh(c)) \/ Tick \/ UNCHANGED vars
      \/ (\E t \in Turn : OnLlmNewToken(t))
        => UNCHANGED <<pc, chat, chamadas, texto, gravacaoFalhou>>
  BY DEF Usuario, OnLlmNewToken, Escuta, PararProcessamentoResposta, AdicionarFeedback,
     CancelaTask, CancelaTaskFalha, Refresh, Tick, vars, vLLM, vGrava
<1> QED
  BY <1>1, <1>2, <1>3, <1>4, <1>5, <1>6, <1>7, <1>8
  DEF Next, Restante, Etapa, ModeloResponde, Ambiente

LEMMA RespostaGravadaPasso ==
  ASSUME TypeOK, TypeOK', SemMarca, RespostaGravada, [Next]_vars
  PROVE  RespostaGravada'
<1> SUFFICES ASSUME NEW t \in Turn, pc'[t] = "respondida", texto'[t],
                    ~IsWithTools(t)', ~gravacaoFalhou'[t]
             PROVE  \E i \in 1..Len(mensagens'[chat'[t]]) :
                      LET m == mensagens'[chat'[t]][i]
                      IN /\ m.turno = t /\ m.papel = "ASSISTANT"
                         /\ m.chamada = chamadas'[t]
  BY DEF RespostaGravada
<1> DEFINE c == chat'[t]
<1>1. entrada'[t] = entrada[t]
  BY ContinuaPasso DEF Continua
<1>2. ~IsWithTools(t)
  BY <1>1 DEF IsWithTools
<1>3. Responde(t)
  BY <1>2, RespondePasso
<1>4. c \in Chat /\ chat[t] = c
  BY <1>3 DEF Responde, TypeOK, TipoTurno
<1>5. Mantem(c)
  BY <1>4, MensagensPasso
<1>6. /\ mensagens[c] \in Seq(Mensagens)
      /\ Len(mensagens[c]) \in Nat /\ Len(mensagens'[c]) \in Nat
  BY <1>4, LenProperties DEF TypeOK, TipoElastic
<1>7. CASE pc[t] = "respondida" /\ texto[t] /\ ~gravacaoFalhou[t] /\ chamadas'[t] = chamadas[t]
  <2>1. PICK i \in 1..Len(mensagens[c]) :
          /\ mensagens[c][i].turno = t /\ mensagens[c][i].papel = "ASSISTANT"
          /\ mensagens[c][i].chamada = chamadas[t]
    BY <1>2, <1>4, <1>7 DEF RespostaGravada
  <2>2. i \in 1..Len(mensagens'[c])
    BY <1>5, <1>6 DEF Mantem
  <2>3. /\ mensagens'[c][i].turno = t /\ mensagens'[c][i].papel = "ASSISTANT"
        /\ mensagens'[c][i].chamada = chamadas'[t]
    BY <1>5, <1>7, <2>1 DEF Mantem
  <2> QED
    BY <2>2, <2>3
<1>8. CASE AdicionarMensagem(t) /\ gravadas[t] = 2 /\ chamadas'[t] = chamadas[t]
  <2>1. /\ Mensagem(t, 3) \in Mensagens
        /\ mensagens'[c] = Append(mensagens[c], Mensagem(t, 3))
    <3>1. gravadas[t] + 1 = 3 /\ Grava(chat[t], Mensagem(t, gravadas[t] + 1))
      BY <1>8 DEF AdicionarMensagem
    <3> QED
      BY <1>4, <3>1, GravaTipo
  <2>2. /\ Len(mensagens'[c]) = Len(mensagens[c]) + 1
        /\ mensagens'[c][Len(mensagens[c]) + 1] = Mensagem(t, 3)
    BY <1>6, <2>1, AppendProperties
  <2>3. /\ Mensagem(t, 3).turno = t /\ Mensagem(t, 3).papel = "ASSISTANT"
        /\ Mensagem(t, 3).chamada = chamadas'[t]
    BY <1>8, MensagemCampos DEF Papeis
  <2>4. Len(mensagens[c]) + 1 \in 1..Len(mensagens'[c])
    BY <1>6, <2>2
  <2> QED
    BY <2>2, <2>3, <2>4
<1> QED
  BY <1>3, <1>7, <1>8 DEF Responde

\* In every behaviour a turn of a model without the Bedrock tool flag that ends
\* answered has the last text of the model stored, unless a write of it failed:
\* no interleaving of turns, stops and restarts makes on_llm_end skip it.
THEOREM AnswersAreStored == Spec => []RespostaGravada
<1> DEFINE Inv == TypeOK /\ SemMarca /\ RespostaGravada
<1>1. Init => Inv
  <2>1. Init => TypeOK
    BY EntradasAssumption DEF Init, TypeOK, TipoTurno, TipoCodigo, TipoLLM,
       TipoGrava, TipoParada, TipoElastic, Fases
  <2>2. Init => SemMarca /\ RespostaGravada
    BY DEF Init, SemMarca, RespostaGravada
  <2> QED
    BY <2>1, <2>2
<1>2. Inv /\ [Next]_vars => Inv'
  BY TypeOKPasso, SemMarcaPasso, RespostaGravadaPasso
<1> QED
  BY <1>1, <1>2, PTL DEF Spec

-----------------------------------------------------------------------------
(* Where reactions land, whatever turns interleave                         *)

\* The phases of an active turn that has its history.
Preparado(t) ==
  pc[t] \in {"preparar", "registrar", "despachar", "gerando", "gravando"}

\* The turn stays, or goes on with the chat and the history it has.
Segue(u) ==
  /\ chat'[u] = chat[u] /\ historico'[u] = historico[u]
  /\ \/ pc'[u] = pc[u]
     \/ pc[u] \in {"criar", "carregar"} /\ pc'[u] = "falhou"
     \/ Preparado(u) /\ pc'[u] \in {"registrar", "despachar"} \cup Lancada

PassoDe(u) ==
  \/ Segue(u) \/ CarregarHistorico(u) \/ CriarNovoChat(u)
  \/ ProtectedPrompt(u)

LEMMA TurnoPasso ==
  ASSUME TypeOK, [Next]_vars, NEW u \in Turn
  PROVE  PassoDe(u)
<1> USE DEF PassoDe, Segue, Preparado, Lancada, Executando, Encerradas
<1>0. /\ pc \in [Turn -> Fases] /\ historico \in [Turn -> Nat]
      /\ chat \in [Turn -> Chat \cup {SemChat}]
  BY DEF TypeOK, TipoTurno, TipoCodigo
<1>1. CASE UNCHANGED <<pc, chat, historico>>
  BY <1>1
<1>2. ASSUME NEW t \in Turn, ProtectedPrompt(t)
      PROVE  PassoDe(u)
  <2>1. CASE t # u
    BY <1>0, <1>2, <2>1 DEF ProtectedPrompt, vCodigo
  <2> QED
    BY <1>2, <2>1
<1>3. ASSUME NEW t \in Turn, CriarNovoChat(t) \/ CarregarHistorico(t)
      PROVE  PassoDe(u)
  <2>1. CASE t # u
    BY <1>0, <1>3, <2>1 DEF CriarNovoChat, CarregarHistorico, vCodigo
  <2> QED
    BY <1>3, <2>1
<1>4. ASSUME NEW t \in Turn,
             Falha(t) \/ PreparaPrompt(t) \/ RegistrarMensagens(t) \/ CriaTask(t)
      PROVE  Segue(u)
  BY <1>0, <1>4 DEF Falha, PreparaPrompt, RegistrarMensagens, CriaTask, vCodigo
<1>5. ASSUME NEW t \in Turn, NEW comTexto \in BOOLEAN, NEW fim \in BOOLEAN,
             OnLlmEnd(t, comTexto, fim)
      PROVE  Segue(u)
  BY <1>0, <1>5 DEF OnLlmEnd, Prossegue, vCodigo
<1>6. ASSUME NEW t \in Turn, ErroLLM(t) \/ FalhaGravacao(t) \/ TaskCancelada(t)
      PROVE  Segue(u)
  BY <1>0, <1>6 DEF ErroLLM, FalhaGravacao, TaskCancelada, Prossegue, vCodigo
<1>7. ASSUME NEW t \in Turn, AdicionarMensagem(t)
      PROVE  Segue(u)
  BY <1>0, <1>7 DEF AdicionarMensagem, Prossegue, vCodigo
<1>8. ASSUME NEW p \in Caem, QuedaPod(p)
      PROVE  Segue(u)
  <2>1. Ativo(u) => pc[u] \in {"criar", "carregar"} \/ Preparado(u)
    BY <1>0 DEF Ativo, Fases
  <2>2. pc'[u] = IF Ativo(u) /\ entrada[u].pod = p THEN "falhou" ELSE pc[u]
    BY <1>8 DEF QuedaPod
  <2> QED
    BY <1>8, <2>1, <2>2 DEF QuedaPod, vCodigo
<1>9. (\E t \in Turn : Usuario(t)) \/ (\E p \in Pod, t \in Turn : Escuta(p, t))
      \/ (\E c \in Chat : Refresh(c)) \/ Tick \/ UNCHANGED vars
      \/ (\E t \in Turn : OnLlmNewToken(t))
        => UNCHANGED <<pc, chat, historico>>
  BY DEF Usuario, OnLlmNewToken, Escuta, PararProcessamentoResposta, AdicionarFeedback,
     CancelaTask, CancelaTaskFalha, Refresh, Tick, vars, vCodigo
<1> QED
  BY <1>1, <1>2, <1>3, <1>4, <1>5, <1>6, <1>7, <1>8, <1>9
  DEF Next, Restante, Etapa, ModeloResponde, Ambiente

\* Chats are never deleted here, and what a search sees of a chat changes only
\* by a refresh of it.
LEMMA ElasticPasso ==
  ASSUME TypeOK, [Next]_vars, NEW c \in Chat
  PROVE  /\ existentes \subseteq existentes'
         /\ \/ visivel'[c] = visivel[c]
            \/ mensagens' = mensagens /\ visivel'[c] = Len(mensagens[c])
<1>1. CASE UNCHANGED <<existentes, visivel>>
  BY <1>1
<1>2. ASSUME NEW t \in Turn, CriarNovoChat(t) \/ Falha(t)
      PROVE  existentes \subseteq existentes' /\ visivel' = visivel
  BY <1>2 DEF CriarNovoChat, Falha
<1>3. ASSUME NEW d \in Chat, Refresh(d)
      PROVE  /\ existentes' = existentes /\ mensagens' = mensagens
             /\ visivel'[c] = visivel[c] \/ visivel'[c] = Len(mensagens[c])
  BY <1>3 DEF Refresh, TypeOK, TipoElastic
<1>4. \/ UNCHANGED <<existentes, visivel>>
      \/ \E t \in Turn : CriarNovoChat(t) \/ Falha(t)
      \/ \E d \in Chat : Refresh(d)
  BY DEF vars, vElastic, Next, Restante, Etapa, ModeloResponde, Usuario,
     Ambiente, Escuta, ProtectedPrompt, CarregarHistorico, PreparaPrompt,
     RegistrarMensagens, CriaTask, OnLlmNewToken, OnLlmEnd, ErroLLM, AdicionarMensagem,
     FalhaGravacao, TaskCancelada, AdicionarFeedback,
     PararProcessamentoResposta, CancelaTask, CancelaTaskFalha, Tick, QuedaPod
<1> QED
  BY <1>1, <1>2, <1>3, <1>4

\* The history is empty until it is loaded.
SemHistorico ==
  \A t \in Turn : pc[t] \in {"ocioso", "criar", "carregar"} => historico[t] = 0

LEMMA SemHistoricoPasso ==
  ASSUME TypeOK, SemHistorico, [Next]_vars
  PROVE  SemHistorico'
<1> SUFFICES ASSUME NEW t \in Turn, pc'[t] \in {"ocioso", "criar", "carregar"}
             PROVE  historico'[t] = 0
  BY DEF SemHistorico
<1>0. pc \in [Turn -> Fases]
  BY DEF TypeOK, TipoTurno
<1>1. CASE Segue(t)
  BY <1>1 DEF Segue, SemHistorico, Preparado, Lancada, Executando, Encerradas
<1>2. CASE CarregarHistorico(t)
  BY <1>0, <1>2 DEF CarregarHistorico
<1>3. CASE CriarNovoChat(t)
  BY <1>0, <1>3 DEF CriarNovoChat
<1>4. CASE ProtectedPrompt(t)
  BY <1>0, <1>4 DEF ProtectedPrompt, SemHistorico, vCodigo
<1> QED
  BY <1>1, <1>2, <1>3, <1>4, TurnoPasso DEF PassoDe

\* A search sees no more messages than there are.
VisivelAte == \A c \in Chat : visivel[c] <= Len(mensagens[c])

LEMMA VisivelAtePasso ==
  ASSUME TypeOK, VisivelAte, [Next]_vars
  PROVE  VisivelAte'
<1> SUFFICES ASSUME NEW c \in Chat
             PROVE  visivel'[c] <= Len(mensagens'[c])
  BY DEF VisivelAte
<1>1. Len(mensagens[c]) \in Nat /\ visivel[c] \in Int
  BY LenProperties DEF TypeOK, TipoElastic
<1>2. \/ Len(mensagens'[c]) = Len(mensagens[c])
      \/ Len(mensagens'[c]) = Len(mensagens[c]) + 1
  BY MensagensPasso DEF EscreveOuNao, Escreve
<1>3. visivel[c] <= Len(mensagens[c])
  BY DEF VisivelAte
<1>4. \/ visivel'[c] = visivel[c]
      \/ visivel'[c] = Len(mensagens[c])
  BY ElasticPasso
<1> QED
  BY <1>1, <1>2, <1>3, <1>4

\* The role and the code of a message are those its turn stamped.
Codigo ==
  \A c \in Chat : \A i \in 1..Len(mensagens[c]) :
    LET m == mensagens[c][i]
        t == m.turno
    IN /\ chat[t] = c /\ pc[t] \in Lancada
       /\ \E k \in 1..3 :
            /\ m.papel = Papeis[k] /\ m.indice = historico[t] + k
            /\ m.minuto = IF k = 1 THEN minutoPreparo[t] ELSE minutoRegistro[t]

LEMMA CodigoPasso ==
  ASSUME TypeOK, TypeOK', Codigo, [Next]_vars
  PROVE  Codigo'
<1> SUFFICES ASSUME NEW c \in Chat, NEW i \in 1..Len(mensagens'[c])
             PROVE  LET m == mensagens'[c][i]
                        t == m.turno
                    IN /\ chat'[t] = c /\ pc'[t] \in Lancada
                       /\ \E k \in 1..3 :
                            /\ m.papel = Papeis[k] /\ m.indice = historico'[t] + k
                            /\ m.minuto = IF k = 1 THEN minutoPreparo'[t]
                                          ELSE minutoRegistro'[t]
  BY DEF Codigo
<1> DEFINE n == mensagens'[c][i]
<1>1. CASE /\ i \in 1..Len(mensagens[c]) /\ mensagens[c][i] \in Mensagens
           /\ n.turno = mensagens[c][i].turno
           /\ n.papel = mensagens[c][i].papel
           /\ n.minuto = mensagens[c][i].minuto
           /\ n.indice = mensagens[c][i].indice
  <2> DEFINE m == mensagens[c][i]
             t == m.turno
  <2>1. t \in Turn
    BY <1>1 DEF Mensagens
  <2>2. chat[t] = c /\ pc[t] \in Lancada
    BY <1>1 DEF Codigo
  <2>3. PICK k \in 1..3 :
          /\ m.papel = Papeis[k] /\ m.indice = historico[t] + k
          /\ m.minuto = IF k = 1 THEN minutoPreparo[t] ELSE minutoRegistro[t]
    BY <1>1 DEF Codigo
  <2>4. /\ chat'[t] = chat[t] /\ pc'[t] \in Lancada
        /\ historico'[t] = historico[t]
        /\ minutoPreparo'[t] = minutoPreparo[t]
        /\ minutoRegistro'[t] = minutoRegistro[t]
    BY <2>1, <2>2, ContinuaPasso DEF Continua
  <2>5. /\ n.papel = Papeis[k] /\ n.indice = historico'[t] + k
        /\ n.minuto = IF k = 1 THEN minutoPreparo'[t] ELSE minutoRegistro'[t]
    BY <1>1, <2>3, <2>4
  <2> QED
    BY <1>1, <2>2, <2>4, <2>5
<1>2. ASSUME NEW t \in Turn, Escreve(c, t), gravadas[t] + 1 \in 1..3,
             n = Mensagem(t, gravadas[t] + 1)
      PROVE  /\ chat'[n.turno] = c /\ pc'[n.turno] \in Lancada
             /\ \E k \in 1..3 :
                  /\ n.papel = Papeis[k] /\ n.indice = historico'[n.turno] + k
                  /\ n.minuto = IF k = 1 THEN minutoPreparo'[n.turno]
                                ELSE minutoRegistro'[n.turno]
  <2> DEFINE k == gravadas[t] + 1
  <2>1. /\ n.turno = t /\ n.papel = Papeis[k] /\ n.indice = historico[t] + k
        /\ n.minuto = IF k = 1 THEN minutoPreparo[t] ELSE minutoRegistro[t]
    BY <1>2, MensagemCampos
  <2>2. pc[t] \in Lancada /\ chat[t] = c
    BY <1>2 DEF Escreve, Lancada, Executando
  <2>3. /\ chat'[t] = chat[t] /\ pc'[t] \in Lancada
        /\ historico'[t] = historico[t]
        /\ minutoPreparo'[t] = minutoPreparo[t]
        /\ minutoRegistro'[t] = minutoRegistro[t]
    BY <2>2, ContinuaPasso DEF Continua
  <2> HIDE DEF k
  <2>4. k \in 1..3
    BY <1>2 DEF k
  <2> QED
    BY <2>1, <2>2, <2>3, <2>4
<1> QED
  BY <1>1, <1>2, VelhaOuNova

-----------------------------------------------------------------------------
(* The index in a code never runs ahead of the messages of the chat        *)

LEMMA NaoSistemaFinito ==
  ASSUME NEW s, NEW n \in Nat
  PROVE  IsFiniteSet({i \in 1..n : s[i].papel # "SYSTEM"})
<1>1. IsFiniteSet(1..n)
  BY FS_Interval
<1>2. {i \in 1..n : s[i].papel # "SYSTEM"} \in SUBSET (1..n)
  OBVIOUS
<1> QED
  BY <1>1, <1>2, FS_Subset

\* The length of the history depends on the roles only.
LEMMA NaoSistemaIgual ==
  ASSUME NEW s, NEW r, NEW n \in Nat, \A i \in 1..n : s[i].papel = r[i].papel
  PROVE  NaoSistema(s, n) = NaoSistema(r, n)
<1>1. {i \in 1..n : s[i].papel # "SYSTEM"} = {i \in 1..n : r[i].papel # "SYSTEM"}
  OBVIOUS
<1> QED
  BY <1>1 DEF NaoSistema

\* One more message counts, unless it is a SYSTEM one.
LEMMA NaoSistemaMais ==
  ASSUME NEW s, NEW n \in Nat
  PROVE  NaoSistema(s, n + 1) =
           NaoSistema(s, n) + (IF s[n + 1].papel = "SYSTEM" THEN 0 ELSE 1)
<1> DEFINE S == {i \in 1..n : s[i].papel # "SYSTEM"}
           T == {i \in 1..(n + 1) : s[i].papel # "SYSTEM"}
<1>1. IsFiniteSet(S)
  BY NaoSistemaFinito
<1>2. n + 1 \notin S
  OBVIOUS
<1>3. CASE s[n + 1].papel = "SYSTEM"
  <2>1. T = S
    BY <1>3
  <2>2. Cardinality(S) \in Nat
    BY <1>1, FS_CardinalityType
  <2>3. Cardinality(T) = Cardinality(S) + 0
    <3> HIDE DEF S, T
    <3> QED
      BY <2>1, <2>2
  <2> QED
    BY <1>3, <2>3 DEF NaoSistema
<1>4. CASE s[n + 1].papel # "SYSTEM"
  <2>1. T = S \cup {n + 1}
    BY <1>4
  <2>2. Cardinality(T) = Cardinality(S) + 1
    <3> HIDE DEF S, T
    <3> QED
      BY <1>1, <1>2, <2>1, FS_AddElement
  <2> QED
    BY <1>4, <2>2 DEF NaoSistema
<1> QED
  BY <1>3, <1>4

\* More messages, no shorter a history.
LEMMA NaoSistemaCresce ==
  ASSUME NEW s, NEW n \in Int, NEW m \in Nat, n <= m
  PROVE  NaoSistema(s, n) <= NaoSistema(s, m)
<1> DEFINE S == {i \in 1..n : s[i].papel # "SYSTEM"}
           T == {i \in 1..m : s[i].papel # "SYSTEM"}
<1>1. IsFiniteSet(T)
  BY NaoSistemaFinito
<1>2. S \in SUBSET T
  OBVIOUS
<1>3. Cardinality(S) <= Cardinality(T)
  <2> HIDE DEF S, T
  <2> QED
    BY <1>1, <1>2, FS_Subset
<1> QED
  BY <1>3 DEF NaoSistema

\* The messages of a chat that the history of a prompt is built from.
Todas(c) == NaoSistema(mensagens[c], Len(mensagens[c]))

\* A step leaves their number as it is, or adds one.
LEMMA TodasPasso ==
  ASSUME TypeOK, TypeOK', [Next]_vars, NEW c \in Chat
  PROVE  /\ Todas(c) \in Nat /\ Todas(c)' \in Nat
         /\ \/ Len(mensagens'[c]) = Len(mensagens[c]) /\ Todas(c)' = Todas(c)
            \/ \E t \in Turn :
                 /\ Escreve(c, t) /\ gravadas[t] \in 0..2
                 /\ Todas(c)' = Todas(c) + (IF gravadas[t] = 0 THEN 0 ELSE 1)
<1>0. Len(mensagens[c]) \in Nat /\ Len(mensagens'[c]) \in Nat
  BY LenProperties DEF TypeOK, TipoElastic
<1>1. Todas(c) \in Nat /\ Todas(c)' \in Nat
  <2>1. NaoSistema(mensagens[c], Len(mensagens[c])) \in Nat
    BY <1>0, NaoSistemaNat
  <2>2. NaoSistema(mensagens'[c], Len(mensagens'[c])) \in Nat
    BY <1>0, NaoSistemaNat
  <2> QED
    BY <2>1, <2>2 DEF Todas
<1>2. NaoSistema(mensagens'[c], Len(mensagens[c])) = Todas(c)
  BY <1>0, MensagensPasso, NaoSistemaIgual DEF Mantem, Todas
<1>3. CASE Len(mensagens'[c]) = Len(mensagens[c])
  BY <1>1, <1>2, <1>3 DEF Todas
<1>4. ASSUME NEW t \in Turn, Escreve(c, t)
      PROVE  /\ gravadas[t] \in 0..2
             /\ Todas(c)' = Todas(c) + (IF gravadas[t] = 0 THEN 0 ELSE 1)
  <2> DEFINE n == Len(mensagens[c])
  <2>1. gravadas[t] \in 0..2
    BY DEF TypeOK, TipoGrava
  <2>2. mensagens'[c][n + 1].papel = Papeis[gravadas[t] + 1]
    BY <1>4, <2>1, MensagemCampos DEF Escreve
  <2>3. mensagens'[c][n + 1].papel = "SYSTEM" <=> gravadas[t] = 0
    BY <2>1, <2>2 DEF Papeis
  <2>4. Len(mensagens'[c]) = n + 1
    BY <1>4 DEF Escreve
  <2>5. NaoSistema(mensagens'[c], n + 1) =
          NaoSistema(mensagens'[c], n)
            + (IF mensagens'[c][n + 1].papel = "SYSTEM" THEN 0 ELSE 1)
    BY <1>0, NaoSistemaMais
  <2> QED
    BY <1>2, <2>1, <2>3, <2>4, <2>5 DEF Todas
<1> QED
  BY <1>1, <1>3, <1>4, MensagensPasso DEF EscreveOuNao

\* The turn that writes to c is told by what it writes.
LEMMA QuemEscreve ==
  ASSUME TypeOK, TypeOK', [Next]_vars, NEW c \in Chat, NEW t \in Turn, NEW k \in 1..3,
         mensagens'[c][Len(mensagens[c]) + 1] = Mensagem(t, k),
         Len(mensagens'[c]) # Len(mensagens[c])
  PROVE  Todas(c)' = Todas(c) + (IF k = 1 THEN 0 ELSE 1)
<1>1. PICK u \in Turn :
        /\ Escreve(c, u) /\ gravadas[u] \in 0..2
        /\ Todas(c)' = Todas(c) + (IF gravadas[u] = 0 THEN 0 ELSE 1)
  BY TodasPasso
<1>2. gravadas[u] + 1 \in 1..3
  BY <1>1
<1>3. Mensagem(u, gravadas[u] + 1) = Mensagem(t, k)
  BY <1>1 DEF Escreve
<1>4. /\ Mensagem(u, gravadas[u] + 1).papel = Papeis[gravadas[u] + 1]
      /\ Mensagem(t, k).papel = Papeis[k]
  BY <1>2, MensagemCampos
<1>5. Papeis[gravadas[u] + 1] = Papeis[k]
  BY <1>3, <1>4
<1>6. gravadas[u] = 0 <=> k = 1
  BY <1>1, <1>5 DEF Papeis
<1> QED
  BY <1>1, <1>6

\* A code counts at most one message more than its chat has up to the message,
\* and a turn that has its history goes on counting from no more than the chat
\* has.
Contagem ==
  /\ \A c \in Chat : \A i \in 1..Len(mensagens[c]) :
       mensagens[c][i].indice <= NaoSistema(mensagens[c], i) + 1
  /\ \A t \in Turn : Preparado(t) /\ chat[t] \in Chat =>
       historico[t] + (IF pc[t] = "gravando" /\ gravadas[t] = 2 THEN 1 ELSE 0)
         <= Todas(chat[t])

LEMMA ContagemPasso ==
  ASSUME TypeOK, TypeOK', SemHistorico, VisivelAte, GravadasNoChat, Contagem,
         [Next]_vars
  PROVE  Contagem'
<1>1. /\ pc \in [Turn -> Fases] /\ historico \in [Turn -> Nat]
      /\ gravadas \in [Turn -> 0..2] /\ gravadas' \in [Turn -> 0..2]
      /\ chat \in [Turn -> Chat \cup {SemChat}]
  BY DEF TypeOK, TipoTurno, TipoCodigo, TipoGrava
<1>2. \A c \in Chat : /\ Todas(c) \in Nat /\ Todas(c)' \in Nat
                      /\ Todas(c) <= Todas(c)'
  BY TodasPasso
<1>3. ASSUME NEW c \in Chat, NEW i \in 1..Len(mensagens'[c])
      PROVE  mensagens'[c][i].indice <= NaoSistema(mensagens'[c], i) + 1
  <2>1. CASE /\ i \in 1..Len(mensagens[c]) /\ mensagens[c][i] \in Mensagens
             /\ mensagens'[c][i].indice = mensagens[c][i].indice
    <3>1. mensagens[c][i].indice <= NaoSistema(mensagens[c], i) + 1
      BY <2>1 DEF Contagem
    <3>2. \A j \in 1..i : mensagens'[c][j].papel = mensagens[c][j].papel
      <4>1. Len(mensagens[c]) \in Nat
        BY LenProperties DEF TypeOK, TipoElastic
      <4>2. \A j \in 1..i : j \in 1..Len(mensagens[c])
        BY <2>1, <4>1
      <4> QED
        BY <4>2, MensagensPasso DEF Mantem
    <3>3. NaoSistema(mensagens'[c], i) = NaoSistema(mensagens[c], i)
      BY <3>2, NaoSistemaIgual
    <3> QED
      BY <2>1, <3>1, <3>3
  <2>2. ASSUME NEW t \in Turn, Escreve(c, t), i = Len(mensagens[c]) + 1,
               mensagens'[c][i] = Mensagem(t, gravadas[t] + 1)
        PROVE  mensagens'[c][i].indice <= NaoSistema(mensagens'[c], i) + 1
    <3>0. NaoSistema(mensagens'[c], i) = Todas(c)'
      BY <2>2 DEF Escreve, Todas
    <3>1. gravadas[t] \in 0..2 /\ historico[t] \in Nat
      BY <1>1
    <3>2. mensagens'[c][i].indice = historico[t] + gravadas[t] + 1
      BY <2>2, <3>1, MensagemCampos
    <3>3. historico[t] + (IF gravadas[t] = 2 THEN 1 ELSE 0) <= Todas(c)
      BY <2>2 DEF Escreve, Preparado, Contagem
    <3>4. Todas(c)' = Todas(c) + (IF gravadas[t] = 0 THEN 0 ELSE 1)
      <4>1. Len(mensagens'[c]) # Len(mensagens[c])
        BY <2>2, VelhaOuNova
      <4>2. gravadas[t] + 1 \in 1..3 /\ (gravadas[t] + 1 = 1 <=> gravadas[t] = 0)
        BY <3>1
      <4> QED
        BY <2>2, <4>1, <4>2, QuemEscreve
    <3>5. mensagens'[c][i].indice <= Todas(c)' + 1
      BY <1>2, <3>1, <3>2, <3>3, <3>4
    <3> QED
      BY <3>0, <3>5
  <2> QED
    BY <2>1, <2>2, VelhaOuNova
<1>4. ASSUME NEW t \in Turn, NEW c \in Chat, Preparado(t)', chat'[t] = c
      PROVE  historico'[t] + (IF pc'[t] = "gravando" /\ gravadas'[t] = 2 THEN 1 ELSE 0)
               <= Todas(c)'
  <2>1. CASE Segue(t)
    <3>1. Preparado(t) /\ chat[t] = c /\ historico'[t] = historico[t]
      BY <1>4, <2>1 DEF Segue, Preparado, Lancada, Executando, Encerradas
    <3>2. historico[t] <= Todas(c)
      BY <1>1, <1>2, <1>4, <3>1 DEF Contagem
    <3>3. CASE ~(pc'[t] = "gravando" /\ gravadas'[t] = 2)
      BY <1>1, <1>2, <1>4, <3>1, <3>2, <3>3
    <3>4. CASE pc'[t] = "gravando" /\ gravadas'[t] = 2
      <4>1. Avanca(t)
        BY AvancaPasso
      <4>2. CASE pc[t] = "gravando" /\ gravadas'[t] = gravadas[t]
        BY <1>1, <1>2, <1>4, <3>1, <3>4, <4>2 DEF Contagem
      <4>3. CASE AdicionarMensagem(t) /\ gravadas'[t] = gravadas[t] + 1
        <5>1. gravadas[t] = 1 /\ pc[t] = "gravando"
          BY <1>1, <3>4, <4>3 DEF AdicionarMensagem
        <5>2. Grava(chat[t], Mensagem(t, gravadas[t] + 1))
          BY <4>3 DEF AdicionarMensagem
        <5>3. /\ Mensagem(t, 2) \in Mensagens
              /\ mensagens'[c] = Append(mensagens[c], Mensagem(t, 2))
          <6>1. gravadas[t] + 1 = 2
            BY <5>1
          <6>2. /\ Mensagem(t, gravadas[t] + 1) \in Mensagens
                /\ mensagens'[c] = Append(mensagens[c], Mensagem(t, gravadas[t] + 1))
            BY <3>1, <5>2, GravaTipo
          <6> QED
            BY <6>1, <6>2
        <5>4. mensagens[c] \in Seq(Mensagens) /\ Len(mensagens[c]) \in Nat
          BY <1>4, LenProperties DEF TypeOK, TipoElastic
        <5>5. /\ Len(mensagens'[c]) = Len(mensagens[c]) + 1
              /\ mensagens'[c][Len(mensagens[c]) + 1] = Mensagem(t, 2)
          BY <5>3, <5>4, AppendProperties
        <5>6. Todas(c)' = Todas(c) + 1
          <6>1. Len(mensagens'[c]) # Len(mensagens[c])
            BY <5>4, <5>5
          <6> QED
            BY <5>5, <6>1, QuemEscreve
        <5> QED
          BY <1>1, <1>2, <1>4, <3>1, <3>2, <5>6
      <4> QED
        BY <3>4, <4>1, <4>2, <4>3 DEF Avanca
    <3> QED
      BY <3>3, <3>4
  <2>2. CASE CarregarHistorico(t)
    <3>1. /\ pc[t] = "carregar" /\ pc'[t] = "preparar" /\ chat[t] = c
          /\ mensagens' = mensagens
          /\ historico'[t] = NaoSistema(mensagens[c], visivel[c])
      <4>1. /\ pc[t] = "carregar" /\ chat' = chat /\ mensagens' = mensagens
            /\ pc' = [pc EXCEPT ![t] = "preparar"]
            /\ historico' = [historico EXCEPT
                 ![t] = NaoSistema(mensagens[chat[t]], visivel[chat[t]])]
        BY <2>2 DEF CarregarHistorico, vElastic
      <4> QED
        BY <1>1, <1>4, <4>1
    <3>2. visivel[c] <= Len(mensagens[c])
      BY DEF VisivelAte
    <3>3. /\ visivel[c] \in Int /\ Len(mensagens[c]) \in Nat
      BY LenProperties DEF TypeOK, TipoElastic
    <3>4. historico'[t] <= Todas(c) /\ Todas(c)' = Todas(c)
      BY <3>1, <3>2, <3>3, NaoSistemaCresce DEF Todas
    <3>5. historico'[t] \in Nat
      BY DEF TypeOK, TipoCodigo
    <3> QED
      BY <1>2, <1>4, <3>1, <3>4, <3>5
  <2>3. CASE CriarNovoChat(t)
    <3>1. pc'[t] = "preparar" /\ historico'[t] = 0
      BY <1>1, <2>3 DEF CriarNovoChat, SemHistorico, vCodigo
    <3> QED
      BY <1>2, <1>4, <3>1
  <2>4. ~ProtectedPrompt(t)
    BY <1>1, <1>4 DEF ProtectedPrompt, Preparado
  <2> QED
    BY <2>1, <2>2, <2>3, <2>4, TurnoPasso DEF PassoDe
<1> QED
  BY <1>3, <1>4 DEF Contagem

-----------------------------------------------------------------------------
(* The reaction                                                            *)

\* Only a reaction changes the feedback of a stored message, and a message is
\* written without any.
LEMMA ReacaoPasso ==
  ASSUME TypeOK, TypeOK', [Next]_vars, ~ \E u \in Turn : AdicionarFeedback(u),
         NEW c \in Chat, NEW i \in 1..Len(mensagens'[c]), NEW t \in mensagens'[c][i].feedback
  PROVE  i \in 1..Len(mensagens[c]) /\ t \in mensagens[c][i].feedback
<1>1. CASE UNCHANGED mensagens
  BY <1>1
<1>2. ASSUME NEW u \in Turn, Grava(chat[u], Mensagem(u, gravadas[u] + 1))
      PROVE  i \in 1..Len(mensagens[c]) /\ t \in mensagens[c][i].feedback
  <2> DEFINE m == Mensagem(u, gravadas[u] + 1)
  <2>1. /\ m \in Mensagens /\ m.feedback = {}
        /\ mensagens'[c] = IF c = chat[u] THEN Append(mensagens[c], m) ELSE mensagens[c]
    BY <1>2, GravaTipo, MensagemCampos
  <2>2. mensagens[c] \in Seq(Mensagens) /\ Len(mensagens[c]) \in Nat
    BY LenProperties DEF TypeOK, TipoElastic
  <2> HIDE DEF m
  <2>3. CASE c = chat[u]
    <3>1. /\ Len(mensagens'[c]) = Len(mensagens[c]) + 1
          /\ \A j \in 1..Len(mensagens[c]) : mensagens'[c][j] = mensagens[c][j]
          /\ mensagens'[c][Len(mensagens[c]) + 1] = m
      BY <2>1, <2>2, <2>3, AppendProperties
    <3>2. i # Len(mensagens[c]) + 1
      BY <2>1, <3>1
    <3>3. i \in 1..Len(mensagens[c])
      BY <2>2, <3>1, <3>2
    <3> QED
      BY <3>1, <3>3
  <2>4. CASE c # chat[u]
    BY <2>1, <2>4
  <2> QED
    BY <2>3, <2>4
<1>3. \/ UNCHANGED mensagens
      \/ \E u \in Turn : Grava(chat[u], Mensagem(u, gravadas[u] + 1))
  BY DEF vars, vElastic, Next, Restante, Etapa, ModeloResponde, Usuario,
     Ambiente, Escuta, ProtectedPrompt, CriarNovoChat, CarregarHistorico,
     Falha, PreparaPrompt, RegistrarMensagens, CriaTask, OnLlmNewToken, OnLlmEnd, ErroLLM,
     AdicionarMensagem, FalhaGravacao, TaskCancelada,
     PararProcessamentoResposta, CancelaTask, CancelaTaskFalha, Refresh, Tick,
     QuedaPod
<1> QED
  BY <1>1, <1>2, <1>3

\* A reaction is of a turn whose task was started, on a message of its chat with
\* the index of its answer, and on none after the answer.
Reagiu ==
  \A c \in Chat : \A i \in 1..Len(mensagens[c]) :
    \A t \in mensagens[c][i].feedback :
      /\ t \in Turn /\ chat[t] = c /\ pc[t] \in Lancada
      /\ mensagens[c][i].indice = historico[t] + 3
      /\ \A j \in 1..Len(mensagens[c]) :
           mensagens[c][j].turno = t /\ mensagens[c][j].papel = "ASSISTANT" => i <= j

\* The answers of a turn carry the code the user's reaction is sent with.
LEMMA RespostaTemCodigo ==
  ASSUME TypeOK, Codigo, NEW c \in Chat, NEW j \in 1..Len(mensagens[c]), NEW u \in Turn,
         mensagens[c][j].turno = u, mensagens[c][j].papel = "ASSISTANT"
  PROVE  MesmoCodigo(mensagens[c][j], Mensagem(u, 3))
<1>1. PICK n \in 1..3 :
        /\ mensagens[c][j].papel = Papeis[n] /\ mensagens[c][j].indice = historico[u] + n
        /\ mensagens[c][j].minuto = IF n = 1 THEN minutoPreparo[u] ELSE minutoRegistro[u]
  BY DEF Codigo
<1>2. n = 3
  BY <1>1 DEF Papeis
<1>3. /\ Mensagem(u, 3).indice = historico[u] + 3
      /\ Mensagem(u, 3).minuto = minutoRegistro[u]
  BY MensagemCampos
<1> QED
  BY <1>1, <1>2, <1>3 DEF MesmoCodigo

LEMMA ReagiuPasso ==
  ASSUME TypeOK, TypeOK', Codigo, Reagiu, [Next]_vars
  PROVE  Reagiu'
<1>1. ASSUME NEW u \in Turn, AdicionarFeedback(u)
      PROVE  Reagiu'
  <2>1. \A c \in Chat :
          /\ Len(mensagens'[c]) = Len(mensagens[c])
          /\ \A j \in 1..Len(mensagens[c]) :
               /\ mensagens'[c][j].turno = mensagens[c][j].turno
               /\ mensagens'[c][j].papel = mensagens[c][j].papel
               /\ mensagens'[c][j].indice = mensagens[c][j].indice
    BY <1>1, FeedbackTipo
  <2>2. PICK r \in 1..Len(mensagens[chat[u]]) :
          /\ MesmoCodigo(mensagens[chat[u]][r], Mensagem(u, 3))
          /\ \A j \in 1..Len(mensagens[chat[u]]) :
               MesmoCodigo(mensagens[chat[u]][j], Mensagem(u, 3)) => r <= j
          /\ \A c \in Chat : \A j \in 1..Len(mensagens[c]) :
               mensagens'[c][j].feedback = IF c = chat[u] /\ j = r THEN {u}
                                           ELSE mensagens[c][j].feedback
    BY <1>1, FeedbackTipo
  <2>3. UNCHANGED <<pc, chat, historico>> /\ pc[u] \in Lancada
    BY <1>1 DEF AdicionarFeedback, CodigoNaTela, vCodigo, Lancada, Encerradas
  <2>4. ASSUME NEW c \in Chat, NEW i \in 1..Len(mensagens[c]),
               NEW t \in mensagens'[c][i].feedback
        PROVE  /\ t \in Turn /\ chat[t] = c /\ pc[t] \in Lancada
               /\ mensagens[c][i].indice = historico[t] + 3
               /\ \A j \in 1..Len(mensagens[c]) :
                    mensagens[c][j].turno = t /\ mensagens[c][j].papel = "ASSISTANT" => i <= j
    <3>1. CASE c = chat[u] /\ i = r
      <4>1. t = u
        BY <2>2, <3>1
      <4>2. mensagens[c][i].indice = historico[u] + 3
        BY <2>2, <3>1, MensagemCampos DEF MesmoCodigo
      <4>3. \A j \in 1..Len(mensagens[c]) :
              mensagens[c][j].turno = u /\ mensagens[c][j].papel = "ASSISTANT" => i <= j
        BY <2>2, <3>1, RespostaTemCodigo
      <4> QED
        BY <2>3, <3>1, <4>1, <4>2, <4>3
    <3>2. CASE ~(c = chat[u] /\ i = r)
      BY <2>2, <2>4, <3>2 DEF Reagiu
    <3> QED
      BY <3>1, <3>2
  <2> QED
    BY <2>1, <2>3, <2>4 DEF Reagiu
<1>2. CASE ~ \E u \in Turn : AdicionarFeedback(u)
  <2> SUFFICES ASSUME NEW c \in Chat, NEW i \in 1..Len(mensagens'[c]),
                      NEW t \in mensagens'[c][i].feedback
               PROVE  /\ t \in Turn /\ chat'[t] = c /\ pc'[t] \in Lancada
                      /\ mensagens'[c][i].indice = historico'[t] + 3
                      /\ \A j \in 1..Len(mensagens'[c]) :
                           mensagens'[c][j].turno = t /\ mensagens'[c][j].papel = "ASSISTANT"
                             => i <= j
    BY DEF Reagiu
  <2>1. i \in 1..Len(mensagens[c]) /\ t \in mensagens[c][i].feedback
    BY <1>2, ReacaoPasso
  <2>2. /\ t \in Turn /\ chat[t] = c /\ pc[t] \in Lancada
        /\ mensagens[c][i].indice = historico[t] + 3
    BY <2>1 DEF Reagiu
  <2>3. chat'[t] = c /\ pc'[t] \in Lancada /\ historico'[t] = historico[t]
    BY <2>2, ContinuaPasso DEF Continua
  <2>4. mensagens'[c][i].indice = mensagens[c][i].indice
    BY <2>1, MensagensPasso DEF Mantem
  <2>5. ASSUME NEW j \in 1..Len(mensagens'[c]),
               mensagens'[c][j].turno = t, mensagens'[c][j].papel = "ASSISTANT"
        PROVE  i <= j
    <3>1. CASE /\ j \in 1..Len(mensagens[c])
               /\ mensagens'[c][j].turno = mensagens[c][j].turno
               /\ mensagens'[c][j].papel = mensagens[c][j].papel
      BY <2>1, <2>5, <3>1 DEF Reagiu
    <3>2. CASE j = Len(mensagens[c]) + 1
      BY <2>1, <3>2, VelhaOuNova
    <3> QED
      BY <3>1, <3>2, VelhaOuNova
  <2> QED
    BY <2>2, <2>3, <2>4, <2>5
<1> QED
  BY <1>1, <1>2

\* In every behaviour, with turns of several tabs interleaved, an index that
\* lags, writes that fail, stops and restarts, a reaction to the answer of a turn
\* is never recorded on a message the turn found in its history, nor on one stored
\* after the answer: the codes, a minute and a count, confine it to what was stored
\* since the history was loaded and up to the answer.
THEOREM ReactionsStayWithinTurn == Spec => []ReacaoAposHistorico
<1> DEFINE Inv == /\ TypeOK /\ GravadasNoChat /\ SemHistorico /\ VisivelAte
                  /\ Codigo /\ Contagem /\ Reagiu
<1>1. Init => Inv
  <2> SUFFICES ASSUME Init
               PROVE  Inv
    OBVIOUS
  <2>1. TypeOK
    BY EntradasAssumption DEF Init, TypeOK, TipoTurno, TipoCodigo, TipoLLM,
       TipoGrava, TipoParada, TipoElastic, Fases
  <2>2. GravadasNoChat /\ SemHistorico /\ VisivelAte
    BY DEF Init, GravadasNoChat, SemHistorico, VisivelAte
  <2>3. Codigo /\ Contagem /\ Reagiu
    BY DEF Init, Codigo, Contagem, Reagiu, Preparado
  <2> QED
    BY <2>1, <2>2, <2>3
<1>2. Inv /\ [Next]_vars => Inv'
  <2> SUFFICES ASSUME Inv, [Next]_vars
               PROVE  Inv'
    OBVIOUS
  <2>1. TypeOK' /\ GravadasNoChat'
    BY TypeOKPasso, GravadasNoChatPasso
  <2>2. SemHistorico' /\ VisivelAte'
    BY SemHistoricoPasso, VisivelAtePasso
  <2>3. Codigo' /\ Contagem' /\ Reagiu'
    BY <2>1, CodigoPasso, ContagemPasso, ReagiuPasso
  <2> QED
    BY <2>1, <2>2, <2>3
<1>3. Inv => ReacaoAposHistorico
  <2> SUFFICES ASSUME Inv, NEW c \in Chat, NEW i \in 1..Len(mensagens[c]),
                      NEW t \in mensagens[c][i].feedback
               PROVE  NaoSistema(mensagens[c], i) >= historico[t] + 2
    BY DEF ReacaoAposHistorico, Reagiu
  <2>1. t \in Turn /\ mensagens[c][i].indice = historico[t] + 3
    BY DEF Reagiu
  <2>2. historico[t] \in Nat
    BY <2>1 DEF TypeOK, TipoCodigo
  <2>3. mensagens[c][i].indice <= NaoSistema(mensagens[c], i) + 1
    BY DEF Contagem
  <2>4. NaoSistema(mensagens[c], i) \in Nat
    BY NaoSistemaNat
  <2> QED
    BY <2>1, <2>2, <2>3, <2>4
<1> QED
  BY <1>1, <1>2, <1>3, PTL DEF Spec

=============================================================================
