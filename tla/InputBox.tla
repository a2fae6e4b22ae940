------------------------------ MODULE InputBox ------------------------------
(***************************************************************************)
(* The agent, the model and the limit of words the next message is sent    *)
(* with, and those the screen shows.                                       *)
(*                                                                         *)
(* Agent and model are kept twice, in the cache of their lists, where they *)
(* are read when a message is sent, and in the state of the page, which is *)
(* shown.  Menus, mentions, the effects of a chat that appears and the     *)
(* answer of the list of models change one, the other or both.  Left out:  *)
(* which chat appears (ChatPage), which files (FileSelection), images,     *)
(* shared chats, and an error of the list of agents.                       *)
(***************************************************************************)
EXTENDS Integers

CONSTANTS
  Agente,     \* agents of the list
  Automatico, \* the one without value
  Geral,      \* CONHECIMENTOGERAL, which the o1 models need
  Modelo,     \* models of the list
  Gpt4o,      \* MODELO_PADRAO
  O1, Claude, \* sets of models
  Salvo,      \* bound: chats of the server
  Contagem,   \* bound: counts of words
  Nenhum,     \* nothing selected
  Vazio,      \* the list of models was never loaded
  Cru         \* the list as the server sent it, which no code can read

VARIABLES
  agenteNoCache,
  selectedAgent,      \* shown
  modeloNoCache,
  modeloSelecionado,  \* shown
  isModelLocked,
  maxWords,
  contadorInput,
  modelChats,         \* the query: whether it fetches, and whether it must
  chatNaCaixa,
  loja,               \* the store is in the place of ChatBox
  filesSelected       \* whether there are chips

vAgente == <<agenteNoCache, selectedAgent>>
vModelo == <<modeloNoCache, modeloSelecionado, maxWords>>
varsCaixa == <<vAgente, vModelo, isModelLocked, contadorInput, modelChats, chatNaCaixa, loja,
          filesSelected>>

MaxDe(m) == IF m \in Claude THEN 95000 ELSE 60000

\* The last message's agent and model, and how many words the chat has.
Ultima(agente, modelo, palavras) == [agente |-> agente, modelo |-> modelo, palavras |-> palavras]
SemMensagem == Ultima(Nenhum, Nenhum, 0)

\* Counts are numbers, a saved chat has the fields of a last message, and a list that
\* cannot be read is no model.
ASSUME CaixaAssumption ==
  /\ Nenhum \notin Modelo /\ Vazio \notin Modelo
  /\ Contagem \subseteq Nat
  /\ \A s \in Salvo : /\ s.ultima = Ultima(s.ultima.agente, s.ultima.modelo, s.ultima.palavras)
                      /\ s.ultima.palavras \in Nat

\* agente, modelo: those of the chat, which only a chat used here has.
\* anterior: the last message before the one being answered.
CaixaVazia == [fase |-> "nenhum", ultima |-> SemMensagem, agente |-> Nenhum, modelo |-> Nenhum,
            anterior |-> SemMensagem]
Recebido(u) == [CaixaVazia EXCEPT !.fase = "ocioso", !.ultima = u]

IsLoading(chat) == chat.fase = "enviado"
IsChatLoadingNaCaixa == chatNaCaixa.fase \in {"enviado", "fluxo"}
Arquivado(chat) == chat.fase = "arquivado"
Montado(chat, naLoja) == ~naLoja /\ ~Arquivado(chat)
InputBoxMontado == Montado(chatNaCaixa, loja)

InitCaixa ==
  /\ agenteNoCache = Automatico /\ selectedAgent = Automatico
  /\ modeloNoCache = Vazio /\ modeloSelecionado = Gpt4o
  /\ isModelLocked = FALSE /\ maxWords = 60000 /\ contadorInput = 0
  /\ modelChats = [busca |-> TRUE, invalida |-> FALSE]
  /\ chatNaCaixa = CaixaVazia /\ loja = FALSE /\ filesSelected = FALSE

-----------------------------------------------------------------------------
(* The effects of a chat that appears, in their order.                     *)

\* getAgentByValue.
GetAgentByValue(a) == IF a \in Agente THEN a ELSE Nenhum

\* ChatBox: the agent of the last message, or the chat's.
AgenteDo(chat) == IF chat.ultima.agente # Nenhum THEN chat.ultima.agente
                  ELSE IF chat.agente # Nenhum THEN chat.agente ELSE Automatico

\* ChatPage: whether the effect of the o1 models runs.  Any change of the tabs runs it.
EfeitoO1(chat, aba) ==
  /\ chat.modelo \in O1
  /\ aba \/ chat.modelo # chatNaCaixa.modelo \/ IsLoading(chat) # IsLoading(chatNaCaixa)

\* The agent of a chat is selected in both places, but one that left the list leaves
\* the cache as it was.  Then a chat used with an o1 model shows the general agent,
\* without telling the cache, and locks it.
EfeitosDoAgente(chat, naLoja) ==
  LET a == IF ~naLoja /\ chat.ultima # SemMensagem THEN GetAgentByValue(AgenteDo(chat))
           ELSE selectedAgent
      o1 == EfeitoO1(chat, naLoja # loja)
  IN /\ agenteNoCache' = IF naLoja \/ chat.ultima = SemMensagem \/ a = Nenhum
                         THEN agenteNoCache ELSE a
     /\ selectedAgent' = IF o1 THEN Geral ELSE a
     /\ isModelLocked' = (isModelLocked \/ o1)

\* SelectModelChat: the model of the last message, when it is another than before or
\* the box is new.
MudaModelo(chat, novo) ==
  /\ chat.ultima.modelo # Nenhum /\ modeloNoCache # Vazio
  /\ novo \/ chat.ultima.modelo # chatNaCaixa.ultima.modelo

\* A new box starts at the default model and limit, and so does the limit without chat.
EfeitosDoModelo(chat, novo) ==
  LET m == chat.ultima.modelo
      maximo == IF novo \/ chat.fase = "nenhum" THEN 60000 ELSE maxWords
  IN IF MudaModelo(chat, novo)
     THEN /\ modeloNoCache' = IF m \in Modelo THEN m ELSE Nenhum
          /\ modeloSelecionado' = m
          /\ maxWords' = IF m \in Modelo THEN MaxDe(m) ELSE maximo
     ELSE /\ modeloSelecionado' = IF novo THEN Gpt4o ELSE modeloSelecionado
          /\ maxWords' = maximo
          /\ UNCHANGED modeloNoCache

\* The chips become the files of the last message, if there is one.
EfeitosDosArquivos(chat) ==
  filesSelected' \in IF chat.fase = "nenhum" THEN {FALSE}
                     ELSE IF chat.ultima = SemMensagem THEN {filesSelected} ELSE BOOLEAN

\* A new box asks for the list of models if it was never loaded, or was invalidated.
Pede(novo, invalida) ==
  modelChats' = IF novo /\ (invalida \/ modeloNoCache = Vazio)
                THEN [busca |-> TRUE, invalida |-> FALSE]
                ELSE [modelChats EXCEPT !.invalida = invalida]

\* What is shown below ChatBox.  The page dies if the raw list is needed.
EfeitosDaCaixa(chat, naLoja, invalida) ==
  LET novo == ~InputBoxMontado
  IN IF Montado(chat, naLoja)
     THEN /\ modeloNoCache = Cru => ~MudaModelo(chat, novo)
          /\ EfeitosDoModelo(chat, novo) /\ EfeitosDosArquivos(chat) /\ Pede(novo, invalida)
          /\ contadorInput' = chat.ultima.palavras
     ELSE Pede(FALSE, invalida) /\ UNCHANGED <<vModelo, contadorInput, filesSelected>>

\* A chat appears, or ChatBox does.
Mostra(chat, naLoja) ==
  /\ chatNaCaixa' = chat /\ loja' = naLoja
  /\ EfeitosDoAgente(chat, naLoja)
  /\ EfeitosDaCaixa(chat, naLoja, modelChats.invalida)

-----------------------------------------------------------------------------
(* Chats and tabs.                                                         *)

\* A chat of the server, which knows its agent and model by its messages only.
Abre(u, arquivado) ==
  Mostra([CaixaVazia EXCEPT !.fase = IF arquivado THEN "arquivado" ELSE "ocioso",
                            !.ultima = u], loja)

\* handleNewChat, alone or by the accordion of agents: nothing of the last chat stays
\* selected, and the list of models is asked again, now or by the next box.
HandleNewChatNaCaixa(a) ==
  /\ a # Automatico => ~Arquivado(chatNaCaixa) /\ ~IsLoading(chatNaCaixa)
  /\ agenteNoCache' = a /\ selectedAgent' = a /\ isModelLocked' = FALSE
  /\ chatNaCaixa' = CaixaVazia /\ UNCHANGED loja
  /\ IF loja \/ chatNaCaixa.fase = "nenhum"
     THEN filesSelected' = FALSE /\ UNCHANGED <<vModelo, contadorInput>>
     ELSE /\ EfeitosDoModelo(CaixaVazia, ~InputBoxMontado) /\ EfeitosDosArquivos(CaixaVazia)
          /\ contadorInput' = 0
  /\ modelChats' = IF loja THEN [modelChats EXCEPT !.invalida = TRUE]
                   ELSE [busca |-> TRUE, invalida |-> FALSE]

\* The store replaces ChatBox, and ChatBox the store.
TrocaLoja == Mostra(chatNaCaixa, ~loja)

\* Another tab.
TrocaAba ==
  /\ EfeitoO1(chatNaCaixa, TRUE)
  /\ selectedAgent' = Geral /\ isModelLocked' = TRUE
  /\ UNCHANGED <<agenteNoCache, vModelo, contadorInput, modelChats, chatNaCaixa, loja,
                 filesSelected>>

-----------------------------------------------------------------------------
(* The list of models.                                                     *)

\* onSuccess, which only a mounted box has: the list is read and the model of the
\* last message, or the default one, selected.
Carrega ==
  LET m == IF chatNaCaixa.ultima.modelo = Nenhum THEN Gpt4o ELSE chatNaCaixa.ultima.modelo
  IN /\ modelChats.busca /\ modelChats' = [busca |-> FALSE, invalida |-> FALSE]
     /\ IF InputBoxMontado
        THEN /\ modeloNoCache' = IF m \in Modelo THEN m ELSE Nenhum
             /\ modeloSelecionado' = IF m \in Modelo THEN m ELSE Gpt4o
        ELSE modeloNoCache' = Cru /\ UNCHANGED modeloSelecionado
     /\ UNCHANGED <<vAgente, maxWords, isModelLocked, contadorInput, chatNaCaixa, loja,
                    filesSelected>>

NaoCarrega ==
  /\ modelChats.busca /\ modelChats' = [busca |-> FALSE, invalida |-> TRUE]
  /\ UNCHANGED <<vAgente, vModelo, isModelLocked, contadorInput, chatNaCaixa, loja,
                    filesSelected>>

\* isModelDisabled.
IsModelDisabled(m) == contadorInput >= MaxDe(m)

\* An o1 model takes the general agent and locks it; another returns the cache, but
\* not the screen, to the automatic one.
AgenteDoModelo(m) ==
  /\ agenteNoCache' = IF m \in O1 THEN Geral ELSE Automatico
  /\ selectedAgent' = IF m \in O1 THEN Geral ELSE selectedAgent
  /\ isModelLocked' = (m \in O1)

Selecionavel(m) ==
  /\ InputBoxMontado /\ ~IsChatLoadingNaCaixa /\ ~IsModelDisabled(m)
  /\ modeloNoCache \notin {Vazio, Cru}

\* Faulty: the limit of the box is not told.
SemLimite(m) ==
  /\ Selecionavel(m)
  /\ modeloNoCache' = m /\ modeloSelecionado' = m
  /\ AgenteDoModelo(m)
  /\ UNCHANGED <<maxWords, contadorInput, modelChats, chatNaCaixa, loja,
                 filesSelected>>

\* Faulty: the cache keeps the model of before.
SoNaTela(m) ==
  /\ Selecionavel(m)
  /\ modeloSelecionado' = m /\ maxWords' = MaxDe(m)
  /\ AgenteDoModelo(m)
  /\ UNCHANGED <<modeloNoCache, contadorInput, modelChats, chatNaCaixa, loja,
                 filesSelected>>

\* handleSelect of SelectModelChat.
SelectModel(m) ==
  /\ Selecionavel(m)
  /\ modeloNoCache' = m /\ modeloSelecionado' = m /\ maxWords' = MaxDe(m)
  /\ AgenteDoModelo(m)
  /\ UNCHANGED <<contadorInput, modelChats, chatNaCaixa, loja,
                 filesSelected>>

-----------------------------------------------------------------------------
(* Agents and files.                                                       *)

\* atualizaAgenteSelecionadoNoCache and setSelectedAgent.
Escolhe(a) ==
  /\ agenteNoCache' = a /\ selectedAgent' = a
  /\ UNCHANGED <<vModelo, isModelLocked, contadorInput, modelChats, chatNaCaixa, loja>>

\* handleSelect of SelectAgent, and its button back to the automatic agent.
SelectAgent(a) ==
  /\ InputBoxMontado /\ ~IsChatLoadingNaCaixa /\ ~filesSelected /\ ~isModelLocked
  /\ contadorInput < maxWords
  /\ Escolhe(a) /\ UNCHANGED filesSelected

\* A mention in the text: no lock and no stream stop it.
Menciona(a) ==
  /\ InputBoxMontado /\ ~filesSelected
  /\ Escolhe(a) /\ UNCHANGED filesSelected

\* handleFileSelection of the files tab: files are for the automatic agent.
HandleFileSelection ==
  /\ ~loja /\ filesSelected' \in BOOLEAN
  /\ IF selectedAgent \in {Automatico, Nenhum}
     THEN UNCHANGED <<vAgente, vModelo, isModelLocked, contadorInput, modelChats, chatNaCaixa,
                      loja>>
     ELSE Escolhe(Automatico)

\* Chips taken out.
RetiraChips ==
  /\ InputBoxMontado /\ filesSelected /\ filesSelected' = FALSE
  /\ UNCHANGED <<vAgente, vModelo, isModelLocked, contadorInput, modelChats, chatNaCaixa, loja>>

-----------------------------------------------------------------------------
(* Messages.                                                               *)

\* handleChangePrompt: the words of the chat and of the text.
HandleChangePrompt(n) ==
  /\ InputBoxMontado /\ contadorInput < maxWords
  /\ n >= chatNaCaixa.ultima.palavras
  /\ contadorInput' = n
  /\ UNCHANGED <<vAgente, vModelo, isModelLocked, modelChats, chatNaCaixa, loja, filesSelected>>

\* canSendMessage; nothing is sent if the list of models cannot be read.
CanSendMessage ==
  /\ InputBoxMontado /\ ~IsChatLoadingNaCaixa
  /\ contadorInput > 0 /\ contadorInput <= maxWords
  /\ modeloNoCache # Cru

GetSelectedModel == IF modeloNoCache \in Modelo THEN modeloNoCache ELSE Nenhum

\* submitChatMessage: agent and model are those of the caches.
SubmitChatMessageNaCaixa ==
  /\ CanSendMessage
  /\ Mostra([fase |-> "enviado", ultima |-> Ultima(Nenhum, GetSelectedModel, contadorInput),
             agente |-> agenteNoCache, modelo |-> GetSelectedModel,
             anterior |-> chatNaCaixa.ultima], FALSE)

\* The first answer changes the chat in place.
PrimeiraResposta ==
  /\ chatNaCaixa.fase = "enviado"
  /\ chatNaCaixa' = [chatNaCaixa EXCEPT !.fase = "fluxo"]
  /\ IF chatNaCaixa.modelo \in O1 THEN selectedAgent' = Geral /\ isModelLocked' = TRUE
     ELSE UNCHANGED <<selectedAgent, isModelLocked>>
  /\ UNCHANGED <<agenteNoCache, vModelo, contadorInput, modelChats, loja, filesSelected>>

\* updateChatStream at the end.
TerminaNaCaixa ==
  /\ chatNaCaixa.fase = "fluxo"
  /\ Mostra([chatNaCaixa EXCEPT !.fase = "ocioso", !.anterior = SemMensagem], loja)

\* handleErrorResponse: the messages leave, and the chat keeps their agent and model.
HandleErrorResponseNaCaixa ==
  /\ chatNaCaixa.fase = "enviado"
  /\ Mostra([chatNaCaixa EXCEPT !.fase = "ocioso", !.ultima = chatNaCaixa.anterior,
                               !.anterior = SemMensagem], loja)

\* handleStopChat before the first answer.
HandleStopChatNaCaixa ==
  /\ chatNaCaixa.fase = "enviado" /\ ~loja
  /\ chatNaCaixa' = [chatNaCaixa EXCEPT !.fase = "ocioso", !.anterior = SemMensagem]
  /\ UNCHANGED <<vAgente, vModelo, isModelLocked, contadorInput, modelChats, loja, filesSelected>>

NextCaixa ==
  \/ \E s \in Salvo : Abre(s.ultima, s.arquivado)
  \/ \E a \in Agente : HandleNewChatNaCaixa(a) \/ SelectAgent(a) \/ Menciona(a)
  \/ \E m \in Modelo : SelectModel(m)
  \/ \E n \in Contagem : HandleChangePrompt(n)
  \/ TrocaLoja \/ TrocaAba \/ Carrega \/ NaoCarrega \/ HandleFileSelection \/ RetiraChips
  \/ SubmitChatMessageNaCaixa \/ PrimeiraResposta \/ TerminaNaCaixa
  \/ HandleErrorResponseNaCaixa \/ HandleStopChatNaCaixa

SpecCaixa == InitCaixa /\ [][NextCaixa]_varsCaixa

-----------------------------------------------------------------------------
(* Properties.                                                             *)

\* A message goes to the specialist and to the model the screen shows, whatever chat,
\* answer or box came in between.  Another specialist gets it only when the choice of a
\* model or of an o1 chat left the two apart, to the automatic one or under the lock, or
\* when the one shown left the list (SelectModelChat.tsx:129-139, ChatPage.tsx:201-205,
\* ChatBox.tsx:110-121); another model, only when the default is shown by a box that is
\* new or has no list, or the one shown left the list (SelectModelChat.tsx:55-97, 108-123).
AgenteEModeloMostrados ==
  CanSendMessage =>
    /\ agenteNoCache # selectedAgent =>
         \/ agenteNoCache = Automatico
         \/ selectedAgent = Nenhum
         \/ selectedAgent = Geral /\ isModelLocked
    /\ modeloNoCache # modeloSelecionado =>
         modeloSelecionado = Gpt4o \/ modeloSelecionado \notin Modelo

\* What is sent fits the model, though models change after the text is written.  Only
\* a list read again may bring a model with the limit of another, the default one or
\* that of the last message, and one that left the list has none; a chat whose messages
\* were never stored, or were taken off, leaves both as they were (InputBox.tsx:207-229,
\* 301-308, SelectModelChat.tsx:55-97).
LimiteDoModelo ==
  CanSendMessage /\ contadorInput > MaxDe(modeloNoCache) =>
    \/ modeloNoCache \in {Gpt4o, chatNaCaixa.ultima.modelo}
    \/ modeloNoCache \notin Modelo
    \/ chatNaCaixa.fase # "nenhum" /\ chatNaCaixa.ultima.modelo = Nenhum
=============================================================================
