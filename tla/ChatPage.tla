------------------------------ MODULE ChatPage ------------------------------
(***************************************************************************)
(* What the page shows: the chat chosen by the route, the one the query    *)
(* answers with, and the one a stream ends with.                           *)
(*                                                                         *)
(* The route, the query of ['cachedChats', chatId], the active chat and    *)
(* the chat streams are compared with change at different times.  A chat   *)
(* stands for its id or its temporary id.  Left out: shared and archived   *)
(* chats, the copies kept for Teams, the text of the stream                *)
(* (StreamParser), and the check of the keyboard before sending.           *)
(***************************************************************************)
EXTENDS Naturals, FiniteSets

CONSTANTS
  Chat,
  Antigo,     \* chats that exist before
  Inicio,     \* bound: routes the page is opened at
  Turno,      \* bound: messages sent, numbered in the order they are
  Nada,       \* no chat, no turn, no controller
  Gasto,      \* a controller without a stream, left by a stop
  MaxEscolha, \* bound: chats chosen in the lists
  MaxParada   \* bound: stops that wait for the server at a time

\* Turns are numbers, and nothing is neither a chat nor a turn.
ASSUME PaginaAssumption ==
  /\ Turno \subseteq Nat /\ {Nada, Gasto} \cap Turno = {} /\ Nada # Gasto /\ Nada \notin Chat
  /\ Inicio \subseteq Chat \cup {Nada}

VARIABLES
  rota,        \* chat_id of the route
  volta,       \* openChatUrl(null) has still to navigate
  chatId,      \* the key of the query
  getChatByIdQuery,
  activeChat,
  chatRef,     \* the last active chat that was not null
  controller,  \* the last stream started here, Gasto or Nada
  paradas,     \* stops the server has not answered: the turn they ask for, the
               \* stream their rendering aborts, whether its ChatBox is mounted
  turno,       \* turn -> its stream
  servidor,    \* chat -> turns stored
  \* Ghosts.
  escolha,     \* what the user chose last
  soltos,      \* turns whose screen was freed while they ran
  atrasados,   \* chats whose answer was older than the server when it arrived
  escolhas

vRota == <<rota, volta, chatId, getChatByIdQuery>>
vTela == <<activeChat, chatRef, controller, paradas>>
vEscolha == <<escolha, soltos, atrasados, escolhas>>
varsPagina == <<vRota, vTela, turno, servidor, vEscolha>>

\* dono: the turn that still changes this copy, if any.
Copia(c, turnos, dono) == [chat |-> c, turnos |-> turnos, dono |-> dono]
SemChat == Copia(Nada, {}, Nada)
Ocioso == [fase |-> "fora", chat |-> Nada, base |-> {}]

\* "livre": sent, with the mark of loading cleared.
SemResposta(t) == turno[t].fase \in {"enviado", "livre"}
EmCurso(t) == SemResposta(t) \/ turno[t].fase = "fluxo"
Conhecido(c) == c \in Antigo \/ \E t \in Turno : turno[t].chat = c /\ ~SemResposta(t)

\* Faulty: only the loading of the answer makes the screen busy.
SoCarregando(copia) == copia.dono # Nada /\ turno[copia.dono].fase = "enviado"

\* isChatLoading.  Whatever ended the stream of this copy has not told it so.
IsChatLoading(copia) ==
  copia.dono # Nada /\ turno[copia.dono].fase \in {"enviado", "fluxo", "caido", "preso"}

\* setActiveChat; chatRef follows a chat that is not null.
SetActiveChat(copia) ==
  /\ activeChat' = copia
  /\ chatRef' = IF copia.chat = Nada THEN chatRef ELSE copia.chat

\* The page is opened at the home page or at a chat.
InitPagina ==
  /\ rota \in Inicio /\ chatId = rota /\ volta = FALSE
  /\ getChatByIdQuery = [fase |-> IF rota = Nada THEN "parada" ELSE "pedida", lidos |-> {}]
  /\ activeChat = SemChat /\ chatRef = Nada /\ controller = Nada /\ paradas = {}
  /\ turno = [t \in Turno |-> Ocioso]
  /\ servidor = [c \in Chat |-> {}]
  /\ escolha = rota /\ soltos = {} /\ atrasados = {} /\ escolhas = 0

-----------------------------------------------------------------------------
(* Choosing.                                                               *)

\* setChatId, in the effect of the route: the same id changes nothing, and another
\* one starts the query.
SetChatId(c) ==
  /\ chatId' = c
  /\ getChatByIdQuery' = IF c = chatId THEN getChatByIdQuery
                         ELSE [fase |-> "pedida", lidos |-> {}]

\* openChatUrl of a chat of the lists.
OpenChatUrl(c) ==
  /\ Conhecido(c) /\ escolhas < MaxEscolha
  /\ rota' = c
  /\ IF rota = c THEN UNCHANGED <<chatId, getChatByIdQuery>> ELSE SetChatId(c)
  /\ escolha' = c /\ escolhas' = escolhas + 1
  /\ UNCHANGED <<volta, vTela, turno, servidor, soltos, atrasados>>

\* handleNewChat and openChatUrl(null), which navigates again after the lists were
\* invalidated.  The key of the query stays.
HandleNewChat ==
  /\ activeChat.chat # Nada \/ rota # Nada
  /\ escolhas < MaxEscolha
  /\ SetActiveChat(SemChat)
  /\ rota' = Nada /\ volta' = TRUE
  /\ escolha' = Nada /\ escolhas' = escolhas + 1
  /\ UNCHANGED <<chatId, getChatByIdQuery, controller, paradas, turno, servidor, soltos,
                 atrasados>>

Navega ==
  /\ volta
  /\ volta' = FALSE /\ rota' = Nada
  /\ UNCHANGED <<chatId, getChatByIdQuery, vTela, turno, servidor, vEscolha>>

-----------------------------------------------------------------------------
(* The query.  The effect of chatId waits for the fetch that its key       *)
(* started, and fetches again.                                             *)

Pendente == getChatByIdQuery.fase # "parada"

\* The server answers one of the two fetches.
Le ==
  /\ getChatByIdQuery.fase \in {"pedida", "repedida"}
  /\ getChatByIdQuery' = [fase |-> IF getChatByIdQuery.fase = "pedida" THEN "lida" ELSE "relida",
                          lidos |-> servidor[chatId]]
  /\ UNCHANGED <<rota, volta, chatId, vTela, turno, servidor, vEscolha>>

FetchChat ==
  getChatByIdQuery' = [fase |-> IF getChatByIdQuery.fase \in {"pedida", "lida"}
                                THEN "repedida" ELSE "parada", lidos |-> {}]

\* The screen of c is free for another message, though these still run in it.
Solta(c, ts) == soltos' = soltos \cup {u \in ts : EmCurso(u) /\ turno[u].chat = c}

\* onSuccess.
Recebe ==
  /\ getChatByIdQuery.fase \in {"lida", "relida"}
  /\ FetchChat
  /\ SetActiveChat(Copia(chatId, getChatByIdQuery.lidos, Nada))
  /\ Solta(chatId, Turno)
  /\ atrasados' = IF getChatByIdQuery.lidos # servidor[chatId] THEN atrasados \cup {chatId}
                  ELSE atrasados \ {chatId}
  /\ UNCHANGED <<rota, volta, chatId, controller, paradas, turno, servidor, escolha, escolhas>>

\* onError: only a message, and the route on the home page.
RecebeErro ==
  /\ Pendente
  /\ FetchChat
  /\ UNCHANGED <<rota, volta, chatId, vTela, turno, servidor, vEscolha>>

-----------------------------------------------------------------------------
(* Streams.                                                                *)

\* initNewChat, of a chat nobody has used.
Inicia(c) == activeChat.chat = Nada /\ c \notin Antigo /\ \A t \in Turno : turno[t].chat # c

\* submitChatMessage, in the chat on the screen or in a new one.
SubmitChatMessage(t, c) ==
  /\ \A u \in Turno : (turno[u].fase = "fora") = (u >= t)
  /\ ~IsChatLoading(activeChat)
  /\ Inicia(c) \/ activeChat.chat = c
  /\ turno' = [turno EXCEPT ![t] = [fase |-> "enviado", chat |-> c, base |-> activeChat.turnos]]
  /\ SetActiveChat(Copia(c, activeChat.turnos, t))
  /\ controller' = t
  /\ escolha' = c
  /\ UNCHANGED <<vRota, paradas, servidor, soltos, atrasados, escolhas>>

\* The server, external: it stores the turn before the stream ends, or never.
Grava(t) ==
  /\ turno[t].fase \notin {"fora", "fim", "falhou"}
  /\ t \notin servidor[turno[t].chat]
  /\ servidor' = [servidor EXCEPT ![turno[t].chat] = @ \cup {t}]
  /\ UNCHANGED <<vRota, vTela, turno, vEscolha>>

\* The first answer: the chat has its id, wherever it is shown.
UpdateChatWithStreamResponse(t) ==
  /\ SemResposta(t)
  /\ turno' = [turno EXCEPT ![t].fase = "fluxo"]
  /\ UNCHANGED <<vRota, vTela, servidor, vEscolha>>

\* Faulty: the end of any stream takes the screen.
SetSemComparar(copia) == SetActiveChat(copia)

\* handleSetActiveChat: compared with the last chat shown, shown or not.
HandleSetActiveChat(copia) ==
  IF chatRef = copia.chat THEN SetActiveChat(copia) ELSE UNCHANGED <<activeChat, chatRef>>

SoltaOsOutros(t) ==
  Solta(turno[t].chat, IF chatRef = turno[t].chat THEN Turno \ {t} ELSE {})

\* Faulty: what is shown at the end is what was shown at the beginning.
FinalSemTurno(t) == Copia(turno[t].chat, turno[t].base, Nada)

\* updateChatStream, of the last copy of the stream.
UpdateChatStream(t) == Copia(turno[t].chat, turno[t].base \cup {t}, Nada)

\* The stream ends, without any answer if the server stopped the turn before.
Termina(t) ==
  /\ EmCurso(t)
  /\ turno' = [turno EXCEPT ![t].fase = "fim"]
  /\ HandleSetActiveChat(UpdateChatStream(t))
  /\ SoltaOsOutros(t)
  /\ UNCHANGED <<vRota, controller, paradas, servidor, escolha, atrasados, escolhas>>

\* handleErrorResponse: the two messages leave the chat.
HandleErrorResponse(t) ==
  /\ SemResposta(t)
  /\ turno' = [turno EXCEPT ![t].fase = "falhou"]
  /\ HandleSetActiveChat(Copia(turno[t].chat, turno[t].base, Nada))
  /\ SoltaOsOutros(t)
  /\ UNCHANGED <<vRota, controller, paradas, servidor, escolha, atrasados, escolhas>>

\* What marked the chat of a stream as loading or as writing stays.
Rompe(fase) == CASE fase = "enviado" -> "caido" [] fase = "livre" -> "parado"
                 [] fase = "fluxo" -> "preso" [] OTHER -> fase

\* The connection drops: only logged.
Cai(t) ==
  /\ EmCurso(t)
  /\ turno' = [turno EXCEPT ![t].fase = Rompe(@)]
  /\ UNCHANGED <<vRota, vTela, servidor, vEscolha>>

\* handleStopChatProcess: the server is asked to stop the turn shown.
HandleStopChatProcess ==
  LET p == [pedida |-> activeChat.dono, corta |-> controller, montada |-> TRUE]
  IN /\ IsChatLoading(activeChat) /\ Cardinality(paradas) < MaxParada
     /\ paradas' = paradas \cup {p}
     /\ UNCHANGED <<vRota, activeChat, chatRef, controller, turno, servidor, vEscolha>>

\* The mark of loading is cleared, not that of writing.
TiraMarca(fase) ==
  CASE fase = "enviado" -> "livre" [] fase = "caido" -> "parado" [] OTHER -> fase

\* handleStopChat: the chat of turn t is marked, and the stream of the controller aborted.
Aborta(t, corta) ==
  turno' = [u \in Turno |-> [turno[u] EXCEPT !.fase =
    LET fase == IF u = t THEN TiraMarca(@) ELSE @ IN IF u = corta THEN Rompe(fase) ELSE fase]]

\* Faulty: the answer aborts the stream it finds.
AbortaOAtual(p) == Aborta(p.pedida, controller)

\* The chat and the controller are those of the rendering of the press.
AbortaODaParada(p) == Aborta(p.pedida, p.corta)

\* The answer.  Confirmed, the stop aborts and takes the place of the controller,
\* whosesoever it is by then.  One without a stream to abort frees the screen.
HandleStopChat(p) ==
  /\ paradas' = paradas \ {p}
  /\ \/ UNCHANGED <<turno, controller, soltos>>
     \/ /\ p.corta # Nada
        /\ AbortaODaParada(p)
        /\ controller' = IF p.montada THEN Gasto ELSE controller
        /\ soltos' = soltos \cup {u \in Turno : turno'[u].fase = "livre"}
  /\ UNCHANGED <<vRota, activeChat, chatRef, servidor, escolha, atrasados, escolhas>>

\* The store takes the place of ChatBox; its streams, and its stops, go on without it.
AbreLoja ==
  /\ controller # Nada \/ \E p \in paradas : p.montada
  /\ controller' = Nada
  /\ paradas' = {[p EXCEPT !.montada = FALSE] : p \in paradas}
  /\ UNCHANGED <<vRota, activeChat, chatRef, turno, servidor, vEscolha>>

NextPagina ==
  \/ \E c \in Chat : OpenChatUrl(c)
  \/ HandleNewChat
  \/ Navega \/ Le \/ Recebe \/ RecebeErro \/ HandleStopChatProcess \/ AbreLoja
  \/ \E p \in paradas : HandleStopChat(p)
  \/ \E t \in Turno : \/ \E c \in Chat : SubmitChatMessage(t, c)
                      \/ Grava(t) \/ UpdateChatWithStreamResponse(t)
                      \/ Termina(t) \/ HandleErrorResponse(t) \/ Cai(t)

SpecPagina == InitPagina /\ [][NextPagina]_varsPagina

-----------------------------------------------------------------------------
(* Properties.                                                             *)

\* The screen changes only to what the user chose last: a stream that ends never
\* takes it from another chat.  Two answers do come back to it after "new chat":
\* the query that was under way, and a stream of the chat shown last
\* (ChatPage.tsx:262-303).
TelaEhEscolha ==
  [][activeChat'.chat # activeChat.chat =>
       \/ activeChat'.chat = escolha'
       \/ activeChat'.chat = chatId /\ Pendente
       \/ activeChat.chat = Nada /\ activeChat'.chat = chatRef]_varsPagina

\* A chat at rest on the screen shows the turns that are stored, whatever crossed
\* the query, unless its answer was late, or a turn was stopped, failed, or was
\* sent beside another (ChatPage.tsx:158-193, 262-303).
ConversaEmDia ==
  LET c == activeChat.chat
      turnos == {t \in Turno : turno[t].chat = c}
  IN c # Nada /\ c \notin atrasados /\ turnos \cap soltos = {}
       /\ (\A t \in turnos : turno[t].fase = "fim" /\ t \in servidor[c])
     => activeChat.turnos = servidor[c]

\* A chat has one stream at a time, unless an answer of the query, the end of another of
\* its streams, or a stop without one to abort, freed its screen (ChatBox.tsx:88, 189-256).
UmFluxoPorChat ==
  \A t, u \in Turno :
    EmCurso(t) /\ EmCurso(u) /\ turno[t].chat = turno[u].chat /\ t # u =>
      {t, u} \cap soltos # {}

\* The answer of a stop ends the stream of the turn the server was asked to stop, and no
\* other, whichever chats were chosen, sent to, stopped or ended before it came
\* (InputBox.tsx:315-329, ChatBox.tsx:320-332, 377-395).
ParaOMostrado ==
  [][\A t \in Turno :
       paradas' # paradas /\ EmCurso(t) /\ ~EmCurso(t)' =>
         \E p \in paradas \ paradas' : p.pedida = t]_varsPagina
=============================================================================
