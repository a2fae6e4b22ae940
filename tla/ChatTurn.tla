------------------------------ MODULE ChatTurn ------------------------------
(***************************************************************************)
(* One chat turn of the ChatTCU backend, from POST /chats/prompt to the    *)
(* last message stored, with the stop broadcast that may cancel it.        *)
(*                                                                         *)
(* A turn loads the history of its chat (or creates the chat), stamps the  *)
(* codes of its three messages, starts an asyncio task that runs the       *)
(* model, and every non blank text the model ends with may store the three *)
(* messages SYSTEM, USER, ASSISTANT, one Elasticsearch request after the   *)
(* other.  Several turns of several browser tabs interleave at every       *)
(* await; the Redis listener thread of each pod interleaves with them.     *)
(*                                                                         *)
(* Abstracted: the text of the messages (a message remembers which model   *)
(* call produced it), the retrieval of documents (PreparaPrompt is one     *)
(* step), and data_ultima_iteracao.  A finished task leaves the registry   *)
(* with its last step: the registry holds weak references, and cancelling  *)
(* a finished task does nothing.                                           *)
(***************************************************************************)
EXTENDS Integers, Sequences, FiniteSets

CONSTANTS
  Turn,         \* the prompts sent, each with its correlacao_chamada_id
  Chat,         \* ids Elasticsearch may give to chats
  SemChat,      \* chat_id = None
  Pod,          \* backend processes
  Entradas,     \* the kinds of request considered
  MaxChamadas,  \* bound: model calls of one agent run (max_iterations)
  MaxMinuto,    \* bound: wall clock, in minutes
  Param,        \* bound: turns whose user may press stop
  Reagem,       \* bound: turns whose user may react to the answer
  Caem          \* bound: pods that may restart

Rotas == {"agente", "cadeia", "plana"}

ASSUME ChatAssumption == SemChat \notin Chat
ASSUME EntradasAssumption ==
  Entradas \subseteq [rota : Rotas, claude : BOOLEAN, pod : Pod]
ASSUME BoundsAssumption ==
  /\ MaxChamadas \in Nat \ {0} /\ MaxMinuto \in Nat
  /\ Param \subseteq Turn /\ Reagem \subseteq Turn /\ Caem \subseteq Pod

VARIABLES
  pc,              \* where the coroutine of the turn is suspended
  entrada,         \* the request: route, model family, pod that got it
  chat,            \* self.chat_id
  historico,       \* len(self.historico)
  minutoPreparo,   \* minute in the code of the SYSTEM message
  minutoRegistro,  \* minute in the codes of the USER and ASSISTANT ones
  gravadas,        \* messages of [msg, msg1, msg2] stored in this pass
  isToolCall,      \* callback.is_tool_call
  chamadas,        \* model calls finished
  texto,           \* the last model call ended with a non blank text
  ultima,          \* ... and was the last one of the run
  comCodigo,       \* turns of which a chunk, with the codes, reached the page
  gravacaoFalhou,  \* a write of the turn raised (the error is swallowed)
  cancelada,       \* task.cancel() called, CancelledError not yet raised
  existentes,      \* chats stored
  mensagens,       \* chat -> its stored messages
  visivel,         \* chat -> messages a search sees, -1 before any refresh
  tasks_registry,  \* pod -> turns whose task is registered
  canal,           \* pod -> stops its subscription has not consumed
  pedidas,         \* stops published
  minuto           \* the clock

vCodigo  == <<historico, minutoPreparo, minutoRegistro>>
vLLM     == <<isToolCall, chamadas, texto, ultima, comCodigo>>
vGrava   == <<gravadas, gravacaoFalhou>>
vParada  == <<tasks_registry, canal, pedidas, cancelada>>
vElastic == <<existentes, mensagens, visivel>>
vars == <<pc, entrada, chat, vCodigo, vLLM, vGrava, vParada, vElastic, minuto>>

Fases == {"ocioso", "criar", "carregar", "preparar", "registrar", "despachar",
          "gerando", "gravando", "respondida", "parada", "falhou"}
\* Faulty: the answer stored before the question.
PapeisTrocados == <<"SYSTEM", "ASSISTANT", "USER">>
Papeis == <<"SYSTEM", "USER", "ASSISTANT">>
Encerradas == {"respondida", "parada", "falhou"}
Executando == {"gerando", "gravando"}
Ativo(t) == pc[t] \notin Encerradas \cup {"ocioso"}

\* Only ChatBedrockConverse sets is_with_tools, and only for an executor.
IsWithTools(t) == entrada[t].claude /\ entrada[t].rota = "agente"
Registrada(t) == t \in tasks_registry[entrada[t].pod]

\* The k-th message of the turn, with the code the turn stamped on it.
Mensagem(t, k) ==
  [turno  |-> t,
   papel  |-> Papeis[k],
   minuto |-> IF k = 1 THEN minutoPreparo[t] ELSE minutoRegistro[t],
   indice |-> historico[t] + k,
   chamada |-> IF k = 3 THEN chamadas[t] ELSE 0,
   feedback |-> {}]

\* Faulty: codes without the index of the message.
MesmoMinuto(m, n) == m.minuto = n.minuto
MesmoCodigo(m, n) == m.minuto = n.minuto /\ m.indice = n.indice

\* Messages of the first n of s that the history of a prompt is built from.
NaoSistema(s, n) == Cardinality({i \in 1..n : s[i].papel # "SYSTEM"})

Grava(c, m) == mensagens' = [mensagens EXCEPT ![c] = Append(@, m)]

\* Faulty: the registry keeps tasks that ended, as strong references would.
RegistroIntacto(t) == UNCHANGED tasks_registry

\* The streaming routes register the task they create, _get_response does not.
Registra(t) ==
  tasks_registry' = IF entrada[t].rota = "plana" THEN tasks_registry
                    ELSE [tasks_registry EXCEPT ![entrada[t].pod] = @ \cup {t}]
Solta(t) ==
  tasks_registry' = [tasks_registry EXCEPT ![entrada[t].pod] = @ \ {t}]

Init ==
  /\ pc = [t \in Turn |-> "ocioso"]
  /\ entrada \in [Turn -> Entradas]
  /\ chat = [t \in Turn |-> SemChat]
  /\ historico = [t \in Turn |-> 0]
  /\ minutoPreparo = [t \in Turn |-> 0]
  /\ minutoRegistro = [t \in Turn |-> 0]
  /\ gravadas = [t \in Turn |-> 0]
  /\ isToolCall = [t \in Turn |-> FALSE]
  /\ chamadas = [t \in Turn |-> 0]
  /\ texto = [t \in Turn |-> FALSE]
  /\ ultima = [t \in Turn |-> FALSE]
  /\ comCodigo = {}
  /\ gravacaoFalhou = [t \in Turn |-> FALSE]
  /\ cancelada = [t \in Turn |-> FALSE]
  /\ existentes = {}
  /\ mensagens = [c \in Chat |-> <<>>]
  /\ visivel = [c \in Chat |-> -1]
  /\ tasks_registry = [p \in Pod |-> {}]
  /\ canal = [p \in Pod |-> {}]
  /\ pedidas = {}
  /\ minuto = 0

-----------------------------------------------------------------------------
(* The request: protected_prompt, executar_prompt, AgentCore.executar_prompt *)

\* chat_id is None for a new chat, else a chat of the user's history.
ProtectedPrompt(t) ==
  /\ pc[t] = "ocioso"
  /\ \/ pc' = [pc EXCEPT ![t] = "criar"] /\ UNCHANGED chat
     \/ \E c \in existentes : /\ chat' = [chat EXCEPT ![t] = c]
                              /\ pc' = [pc EXCEPT ![t] = "carregar"]
  /\ UNCHANGED <<entrada, vCodigo, vLLM, vGrava, vParada, vElastic, minuto>>

\* Faulty: the id of the new chat is not kept.
CriarSemGuardarId(t) ==
  /\ pc[t] = "criar"
  /\ \E c \in Chat \ existentes : existentes' = existentes \cup {c}
  /\ pc' = [pc EXCEPT ![t] = "preparar"]
  /\ UNCHANGED <<entrada, chat, vCodigo, vLLM, vGrava, vParada, mensagens,
                 visivel, minuto>>

CriarNovoChat(t) ==
  /\ pc[t] = "criar"
  /\ \E c \in Chat \ existentes :
       /\ existentes' = existentes \cup {c}
       /\ chat' = [chat EXCEPT ![t] = c]
  /\ pc' = [pc EXCEPT ![t] = "preparar"]
  /\ UNCHANGED <<entrada, vCodigo, vLLM, vGrava, vParada, mensagens, visivel,
                 minuto>>

\* The history comes from a search, so from the last refresh of the index.
CarregarHistorico(t) ==
  /\ pc[t] = "carregar"
  /\ visivel[chat[t]] >= 0
  /\ historico' = [historico EXCEPT
                     ![t] = NaoSistema(mensagens[chat[t]], visivel[chat[t]])]
  /\ pc' = [pc EXCEPT ![t] = "preparar"]
  /\ UNCHANGED <<entrada, chat, minutoPreparo, minutoRegistro, vLLM, vGrava,
                 vParada, vElastic, minuto>>

\* Quota, Elasticsearch (a chat not yet indexed included), retrieval or prompt
\* errors end the request; a chat whose creation got no answer stays stored.
Falha(t) ==
  /\ pc[t] \in {"criar", "carregar", "preparar", "registrar", "despachar"}
  /\ \/ UNCHANGED existentes
     \/ /\ pc[t] = "criar"
        /\ \E c \in Chat \ existentes : existentes' = existentes \cup {c}
  /\ pc' = [pc EXCEPT ![t] = "falhou"]
  /\ UNCHANGED <<entrada, chat, vCodigo, vLLM, vGrava, vParada, mensagens,
                 visivel, minuto>>

PreparaPrompt(t) ==
  /\ pc[t] = "preparar"
  /\ minutoPreparo' = [minutoPreparo EXCEPT ![t] = minuto]
  /\ pc' = [pc EXCEPT ![t] = "registrar"]
  /\ UNCHANGED <<entrada, chat, historico, minutoRegistro, vLLM, vGrava,
                 vParada, vElastic, minuto>>

RegistrarMensagens(t) ==
  /\ pc[t] = "registrar"
  /\ minutoRegistro' = [minutoRegistro EXCEPT ![t] = minuto]
  /\ pc' = [pc EXCEPT ![t] = "despachar"]
  /\ UNCHANGED <<entrada, chat, historico, minutoPreparo, vLLM, vGrava,
                 vParada, vElastic, minuto>>

CriaTask(t) ==
  /\ pc[t] = "despachar"
  /\ pc' = [pc EXCEPT ![t] = "gerando"]
  /\ Registra(t)
  /\ UNCHANGED <<entrada, chat, vCodigo, vLLM, vGrava, canal, pedidas,
                 cancelada, vElastic, minuto>>

-----------------------------------------------------------------------------
(* The model and its callback: ChatAsyncIteratorCallbackHandler            *)

\* The task ends with the last model call, else the agent goes on.
Prossegue(t, fim) ==
  /\ pc' = [pc EXCEPT ![t] = IF fim THEN "respondida" ELSE "gerando"]
  /\ IF fim THEN Solta(t) ELSE UNCHANGED tasks_registry

\* Faulty: only a call marked as a tool call is stored.
PersisteSoTool(t, comTexto) == comTexto /\ isToolCall[t]

\* is_tool_call is None or TRUE; on_tool_call, which would set it, has no caller.
Persiste(t, comTexto) ==
  comTexto /\ (IsWithTools(t) <=> isToolCall[t])

\* The first token of a streaming turn: its chunk takes the codes to the page.
OnLlmNewToken(t) ==
  /\ pc[t] = "gerando" /\ ~cancelada[t]
  /\ entrada[t].rota # "plana" /\ t \notin comCodigo
  /\ comCodigo' = comCodigo \cup {t}
  /\ UNCHANGED <<pc, entrada, chat, vCodigo, isToolCall, chamadas, texto, ultima,
                 vGrava, vParada, vElastic, minuto>>

\* A model call ends; a text that streams came as tokens.  Only an agent calls
\* the model more than once.
OnLlmEnd(t, comTexto, fim) ==
  /\ pc[t] = "gerando" /\ ~cancelada[t]
  /\ comTexto => t \in comCodigo \/ entrada[t].rota = "plana"
  /\ fim \/ (entrada[t].rota = "agente" /\ chamadas[t] + 1 < MaxChamadas)
  /\ chamadas' = [chamadas EXCEPT ![t] = @ + 1]
  /\ texto' = [texto EXCEPT ![t] = comTexto]
  /\ ultima' = [ultima EXCEPT ![t] = fim]
  /\ IF Persiste(t, comTexto)
       THEN /\ pc' = [pc EXCEPT ![t] = "gravando"]
            /\ UNCHANGED <<isToolCall, tasks_registry>>
       ELSE /\ isToolCall' = [isToolCall EXCEPT
                                ![t] = @ \/ (comTexto /\ IsWithTools(t))]
            /\ Prossegue(t, fim)
  /\ UNCHANGED <<entrada, chat, vCodigo, vGrava, comCodigo, canal, pedidas,
                 cancelada, vElastic, minuto>>

\* The model or a tool raises: the stream ends with an error chunk.
ErroLLM(t) ==
  /\ pc[t] = "gerando" /\ ~cancelada[t]
  /\ pc' = [pc EXCEPT ![t] = "falhou"]
  /\ Solta(t)
  /\ UNCHANGED <<entrada, chat, vCodigo, vLLM, vGrava, canal, pedidas,
                 cancelada, vElastic, minuto>>

\* One message appended; after the third _handle_resposta clears is_tool_call.
AdicionarMensagem(t) ==
  /\ pc[t] = "gravando" /\ ~cancelada[t]
  /\ Grava(chat[t], Mensagem(t, gravadas[t] + 1))
  /\ IF gravadas[t] < 2
       THEN /\ gravadas' = [gravadas EXCEPT ![t] = @ + 1]
            /\ UNCHANGED <<pc, tasks_registry, isToolCall>>
       ELSE /\ gravadas' = [gravadas EXCEPT ![t] = 0]
            /\ isToolCall' = [isToolCall EXCEPT ![t] = FALSE]
            /\ Prossegue(t, ultima[t])
  /\ UNCHANGED <<entrada, chat, vCodigo, chamadas, texto, ultima, comCodigo,
                 gravacaoFalhou, canal, pedidas, cancelada, existentes,
                 visivel, minuto>>

\* Faulty: a failed write is skipped, or is sent again.
FalhaPula(t) ==
  /\ pc[t] = "gravando" /\ ~cancelada[t] /\ gravadas[t] < 2
  /\ gravadas' = [gravadas EXCEPT ![t] = @ + 1]
  /\ UNCHANGED <<pc, entrada, chat, vCodigo, vLLM, gravacaoFalhou, vParada,
                 vElastic, minuto>>
FalhaRepete(t) ==
  /\ pc[t] = "gravando" /\ ~cancelada[t] /\ ~gravacaoFalhou[t]
  /\ Grava(chat[t], Mensagem(t, gravadas[t] + 1))
  /\ gravacaoFalhou' = [gravacaoFalhou EXCEPT ![t] = TRUE]
  /\ UNCHANGED <<pc, entrada, chat, vCodigo, vLLM, gravadas, vParada,
                 existentes, visivel, minuto>>

\* The request fails, applied or not.  The exception leaves the rest of the
\* pass unwritten, and langchain only logs it: the run goes on.
FalhaGravacao(t) ==
  /\ pc[t] = "gravando" /\ ~cancelada[t]
  /\ \/ UNCHANGED mensagens
     \/ Grava(chat[t], Mensagem(t, gravadas[t] + 1))
  /\ gravadas' = [gravadas EXCEPT ![t] = 0]
  /\ gravacaoFalhou' = [gravacaoFalhou EXCEPT ![t] = TRUE]
  /\ Prossegue(t, ultima[t])
  /\ UNCHANGED <<entrada, chat, vCodigo, vLLM, canal, pedidas, cancelada,
                 existentes, visivel, minuto>>

-----------------------------------------------------------------------------
(* The stop broadcast: parar_processamento_resposta, ChatStop              *)

\* Redis hands the stop to the subscriptions that are up, to no other.
PararProcessamentoResposta(t) ==
  /\ pc[t] # "ocioso" /\ t \in Param \ pedidas
  /\ pedidas' = pedidas \cup {t}
  /\ \E up \in SUBSET Pod :
       canal' = [p \in Pod |-> IF p \in up THEN canal[p] \cup {t} ELSE canal[p]]
  /\ UNCHANGED <<pc, entrada, chat, vCodigo, vLLM, vGrava, tasks_registry,
                 cancelada, vElastic, minuto>>

Consome(p, t) == t \in canal[p] /\ canal' = [canal EXCEPT ![p] = @ \ {t}]

\* Faulty: the name of the task is not the id of the stop.
NomeTrocado(p, t) ==
  /\ Consome(p, t)
  /\ UNCHANGED <<pc, entrada, chat, vCodigo, vLLM, vGrava, tasks_registry,
                 pedidas, cancelada, vElastic, minuto>>

\* The listener thread looks the task up by name; unknown names are ignored.
CancelaTask(p, t) ==
  /\ Consome(p, t)
  /\ IF t \in tasks_registry[p]
       THEN /\ cancelada' = [cancelada EXCEPT ![t] = TRUE]
            /\ tasks_registry' = [tasks_registry EXCEPT ![p] = @ \ {t}]
       ELSE UNCHANGED <<cancelada, tasks_registry>>
  /\ UNCHANGED <<pc, entrada, chat, vCodigo, vLLM, vGrava, pedidas, vElastic,
                 minuto>>

\* A task registered while the listener iterates over the registry makes the
\* iteration raise; cancela_task logs the error and the stop is lost.
CancelaTaskFalha(p, t) ==
  /\ Consome(p, t)
  /\ \E u \in Turn : /\ entrada[u].pod = p /\ entrada[u].rota # "plana"
                     /\ pc[u] = "despachar"
  /\ UNCHANGED <<pc, entrada, chat, vCodigo, vLLM, vGrava, tasks_registry,
                 pedidas, cancelada, vElastic, minuto>>

\* CancelledError at the await; a write in flight may still be applied.
TaskCancelada(t) ==
  /\ pc[t] \in Executando /\ cancelada[t]
  /\ \/ UNCHANGED mensagens
     \/ /\ pc[t] = "gravando"
        /\ Grava(chat[t], Mensagem(t, gravadas[t] + 1))
  /\ pc' = [pc EXCEPT ![t] = "parada"]
  /\ cancelada' = [cancelada EXCEPT ![t] = FALSE]
  /\ UNCHANGED <<entrada, chat, vCodigo, vLLM, vGrava, tasks_registry, canal,
                 pedidas, existentes, visivel, minuto>>

-----------------------------------------------------------------------------
(* Reactions, the index, the clock and crashes                             *)

\* The page has the code of the answer: of a chunk, or of the one response of
\* the route that does not stream.  An error chunk takes the answer off it.
CodigoNaTela(t) ==
  /\ pc[t] \in Executando \cup {"respondida", "parada"}
  /\ t \in comCodigo \/ (entrada[t].rota = "plana" /\ pc[t] = "respondida")

\* The user reacts to an answer shown, be it still under way; the first message
\* of the chat with its code gets the feedback, and it is no error if none has.
AdicionarFeedback(t) ==
  /\ t \in Reagem /\ CodigoNaTela(t)
  /\ LET s == mensagens[chat[t]]
         com == {i \in 1..Len(s) : MesmoCodigo(s[i], Mensagem(t, 3))}
     IN \E i \in com :
          /\ \A j \in com : i <= j
          /\ s[i].feedback # {t}
          /\ mensagens' = [mensagens EXCEPT ![chat[t]][i].feedback = {t}]
  /\ UNCHANGED <<pc, entrada, chat, vCodigo, vLLM, vGrava, vParada,
                 existentes, visivel, minuto>>

Refresh(c) ==
  /\ c \in existentes /\ visivel[c] # Len(mensagens[c])
  /\ visivel' = [visivel EXCEPT ![c] = Len(mensagens[c])]
  /\ UNCHANGED <<pc, entrada, chat, vCodigo, vLLM, vGrava, vParada,
                 existentes, mensagens, minuto>>

Tick ==
  /\ minuto < MaxMinuto
  /\ minuto' = minuto + 1
  /\ UNCHANGED <<pc, entrada, chat, vCodigo, vLLM, vGrava, vParada, vElastic>>

\* A pod restarts: its turns, its registry and its subscription are gone.
QuedaPod(p) ==
  /\ \E t \in Turn : Ativo(t) /\ entrada[t].pod = p
  /\ pc' = [t \in Turn |-> IF Ativo(t) /\ entrada[t].pod = p THEN "falhou"
                           ELSE pc[t]]
  /\ cancelada' = [t \in Turn |-> cancelada[t] /\ entrada[t].pod # p]
  /\ tasks_registry' = [tasks_registry EXCEPT ![p] = {}]
  /\ canal' = [canal EXCEPT ![p] = {}]
  /\ UNCHANGED <<entrada, chat, vCodigo, vLLM, vGrava, pedidas, vElastic,
                 minuto>>

\* Steps of the pod's event loop that need no answer from the model.
Etapa(t) ==
  \/ CriarNovoChat(t) \/ CarregarHistorico(t) \/ Falha(t) \/ PreparaPrompt(t)
  \/ RegistrarMensagens(t) \/ CriaTask(t) \/ AdicionarMensagem(t)
  \/ FalhaGravacao(t) \/ TaskCancelada(t)
ModeloResponde(t) ==
  \/ OnLlmNewToken(t) \/ ErroLLM(t)
  \/ \E comTexto, fim \in BOOLEAN : OnLlmEnd(t, comTexto, fim)
Escuta(p, t) == CancelaTask(p, t) \/ CancelaTaskFalha(p, t)
Usuario(t) == PararProcessamentoResposta(t) \/ AdicionarFeedback(t)
Ambiente == (\E c \in Chat : Refresh(c)) \/ Tick \/ (\E p \in Caem : QuedaPod(p))

Restante ==
  \/ \E t \in Turn : Etapa(t) \/ ModeloResponde(t) \/ Usuario(t)
  \/ \E p \in Pod, t \in Turn : Escuta(p, t)
  \/ Ambiente
Next == (\E t \in Turn : ProtectedPrompt(t)) \/ Restante
Spec == Init /\ [][Next]_vars

\* The discipline one tab of the interface keeps: one turn of a chat at a time,
\* begun after the index shows the turn before.
ProtectedPromptEmSequencia(t) ==
  /\ ProtectedPrompt(t)
  /\ \A c \in Chat : chat'[t] = c =>
       visivel[c] = Len(mensagens[c]) /\ \A u \in Turn : chat[u] = c => ~Ativo(u)
NextEmSequencia ==
  (\E t \in Turn : ProtectedPromptEmSequencia(t)) \/ Restante
SpecEmSequencia == Init /\ [][NextEmSequencia]_vars

\* The event loops and the listeners keep running; the model may hang.
JusticaDoLaco ==
  /\ \A t \in Turn : WF_vars(Etapa(t))
  /\ \A p \in Pod, t \in Turn : WF_vars(Escuta(p, t))
FairSpec == Spec /\ JusticaDoLaco

-----------------------------------------------------------------------------
(* Properties                                                              *)

Mensagens == [turno : Turn, papel : {"SYSTEM", "USER", "ASSISTANT"},
              minuto : Nat, indice : Nat, chamada : Nat,
              feedback : SUBSET Turn]

TipoTurno ==
  /\ pc \in [Turn -> Fases]
  /\ entrada \in [Turn -> Entradas]
  /\ chat \in [Turn -> Chat \cup {SemChat}]
  /\ \A t \in Turn : chat[t] = SemChat => pc[t] \in {"ocioso", "criar", "falhou"}
TipoCodigo ==
  /\ historico \in [Turn -> Nat]
  /\ minutoPreparo \in [Turn -> Nat]
  /\ minutoRegistro \in [Turn -> Nat]
TipoLLM ==
  /\ isToolCall \in [Turn -> BOOLEAN]
  /\ chamadas \in [Turn -> Nat]
  /\ texto \in [Turn -> BOOLEAN]
  /\ ultima \in [Turn -> BOOLEAN]
  /\ comCodigo \in SUBSET Turn
TipoGrava ==
  /\ gravadas \in [Turn -> 0..2]
  /\ gravacaoFalhou \in [Turn -> BOOLEAN]
TipoParada ==
  /\ tasks_registry \in [Pod -> SUBSET Turn]
  /\ canal \in [Pod -> SUBSET Turn]
  /\ pedidas \in SUBSET Turn
  /\ cancelada \in [Turn -> BOOLEAN]
TipoElastic ==
  /\ existentes \in SUBSET Chat
  /\ mensagens \in [Chat -> Seq(Mensagens)]
  /\ visivel \in [Chat -> Int]

TypeOK == /\ TipoTurno /\ TipoCodigo /\ TipoLLM /\ TipoGrava /\ TipoParada
          /\ TipoElastic /\ minuto \in Nat

\* The first n messages of s hold the SYSTEM and then the USER message of t.
TemPergunta(s, n, t) ==
  \E j, k \in 1..n : /\ j < k /\ s[j].turno = t /\ s[k].turno = t
                     /\ s[j].papel = "SYSTEM" /\ s[k].papel = "USER"

\* An ASSISTANT message is stored after the SYSTEM and the USER message of its
\* own turn, whatever writes fail, tasks are stopped and turns interleave.
RespostaTemPergunta ==
  \A c \in Chat : \A i \in 1..Len(mensagens[c]) :
    mensagens[c][i].papel = "ASSISTANT" =>
      TemPergunta(mensagens[c], i - 1, mensagens[c][i].turno)

\* The last text a model without the Bedrock tool flag answers with is stored,
\* unless a write of the turn failed.  (With the flag it may never be.)
RespostaGravada ==
  \A t \in Turn :
    pc[t] = "respondida" /\ texto[t] /\ ~IsWithTools(t) /\ ~gravacaoFalhou[t]
      => \E i \in 1..Len(mensagens[chat[t]]) :
           LET m == mensagens[chat[t]][i]
           IN m.turno = t /\ m.papel = "ASSISTANT" /\ m.chamada = chamadas[t]

\* The text of one model call becomes at most one ASSISTANT message, of the
\* chat the turn was sent to.
ChamadaGravadaUmaVez ==
  \A c, d \in Chat :
    \A i \in 1..Len(mensagens[c]), j \in 1..Len(mensagens[d]) :
      LET m == mensagens[c][i]
          n == mensagens[d][j]
      IN m.papel = "ASSISTANT" /\ n.papel = "ASSISTANT" /\ m.turno = n.turno
         /\ m.chamada = n.chamada => c = chat[m.turno] /\ c = d /\ i = j

\* A streaming task that runs can always be stopped: it is registered on its
\* pod or already cancelled; and the registry holds nothing else.
RegistroCoerente ==
  /\ \A t \in Turn : pc[t] \in Executando /\ entrada[t].rota # "plana"
                       <=> Registrada(t) \/ cancelada[t]
  /\ \A p \in Pod : \A t \in tasks_registry[p] :
       entrada[t].pod = p /\ ~cancelada[t]
  /\ \A t \in Turn : cancelada[t] \/ pc[t] = "parada" => t \in pedidas

\* A reaction to the answer of t, be there turns of other tabs, an index that
\* lags, failed writes or answers not stored, is never recorded on a message that
\* was in the history t was built from (two messages that count, one of them a
\* question, lie between), nor on one stored after the answer itself.
ReacaoAposHistorico ==
  \A c \in Chat : \A i \in 1..Len(mensagens[c]) :
    \A t \in mensagens[c][i].feedback :
      /\ NaoSistema(mensagens[c], i) >= historico[t] + 2
      /\ \A j \in 1..Len(mensagens[c]) :
           mensagens[c][j].turno = t /\ mensagens[c][j].papel = "ASSISTANT" => i <= j

\* The feedback route's promise, "registers the user's reaction to a message":
\* the reaction to a text the model answered with, no write of which failed, is
\* never recorded on a message of another turn.  It fails of a model with the
\* Bedrock tool flag, whose text is not stored: the next turn reuses its code.
\* Turns of two tabs, which SpecEmSequencia leaves out, may share codes as well.
ReacaoNoTurno ==
  \A c \in Chat : \A i \in 1..Len(mensagens[c]) :
    \A t \in mensagens[c][i].feedback :
      pc[t] = "respondida" /\ texto[t] /\ ~gravacaoFalhou[t]
        => mensagens[c][i].turno = t

Registrando(p) ==
  \E u \in Turn : entrada[u].pod = p /\ pc[u] = "despachar"

\* The pod that is running t consumes its stop and neither cancels nor ends t,
\* nor is registering another task.
ParadaPerdida(t) ==
  LET p == entrada[t].pod
  IN /\ pc[t] \in Executando /\ t \in canal[p] /\ t \notin canal'[p]
     /\ ~cancelada'[t] /\ pc'[t] \notin Encerradas /\ ~Registrando(p)

\* A stop consumed by the pod of a turn that streams stops the turn, unless
\* another task of the pod is being registered.
ParadaTemEfeito ==
  [][\A t \in Turn : entrada[t].rota # "plana" => ~ParadaPerdida(t)]_vars

\* The stop endpoint's promise, "an event that will stop the processing of the
\* answer": the same of every route.  It fails where the task is not registered.
ParadaPrometida == [][\A t \in Turn : ~ParadaPerdida(t)]_vars

\* A stop delivered to the pod of a registered turn ends the turn even when the
\* model never answers, unless another task of the pod is being registered.
ParadaEncerra ==
  \A t \in Turn :
    Registrada(t) /\ t \in canal[entrada[t].pod]
      ~> pc[t] \in Encerradas \/ Registrando(entrada[t].pod)
=============================================================================
