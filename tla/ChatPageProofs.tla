---------------------------- MODULE ChatPageProofs ----------------------------
(* The chat shown.  For any number of chats, of turns and of choices: what *)
(* stop aborts, how many streams a chat has, what the screen shows of a    *)
(* chat, and which chat it shows (ChatPage).  For any chats, answers and   *)
(* requests: the reactions it shows (Feedback).                            *)
EXTENDS ChatPage, Feedback, SequenceTheorems, TLAPS

-----------------------------------------------------------------------------
(* The page.                                                               *)

Fases == {"fora", "enviado", "livre", "fluxo", "fim", "falhou", "caido", "parado", "preso"}
Fluxos == [fase : Fases, chat : Chat \cup {Nada}, base : SUBSET Turno]
Copias == [chat : Chat \cup {Nada}, turnos : SUBSET Turno, dono : Turno \cup {Nada}]
Consultas == [fase : {"parada", "pedida", "lida", "repedida", "relida"}, lidos : SUBSET Turno]

TypeOK ==
  /\ rota \in Chat \cup {Nada} /\ chatId \in Chat \cup {Nada} /\ volta \in BOOLEAN
  /\ getChatByIdQuery \in Consultas
  /\ (getChatByIdQuery.fase # "parada" => chatId \in Chat)
  /\ activeChat \in Copias /\ chatRef \in Chat \cup {Nada}
  /\ controller \in Turno \cup {Nada, Gasto}
  /\ turno \in [Turno -> Fluxos] /\ servidor \in [Chat -> SUBSET Turno]
  /\ \A t \in Turno : turno[t].fase = "fora" <=> turno[t].chat = Nada

Turnos(c) == {t \in Turno : turno[t].chat = c}

(* The chat on the screen is the last one shown, and a stream that stop    *)
(* would abort there is its turn.                                          *)
Mostrado ==
  /\ activeChat.chat \in {Nada, chatRef}
  /\ activeChat.chat = Nada => activeChat.turnos = {} /\ activeChat.dono = Nada
  /\ (controller \in Turno /\ activeChat.dono # Nada) => controller = activeChat.dono

(* A turn that runs in the chat on the screen, and whose screen was not    *)
(* freed, keeps it busy.                                                   *)
Ocupa ==
  \A t \in Turno :
    (EmCurso(t) /\ t \notin soltos /\ activeChat.chat = turno[t].chat) => activeChat.dono = t

(* A turn whose mark of loading was cleared frees the screen.              *)
Livres == \A t \in Turno : turno[t].fase = "livre" => t \in soltos

(* The server stores a turn in its chat.                                   *)
Guardados == \A c \in Chat : servidor[c] \subseteq Turnos(c)

(* While nothing crossed the streams of a chat, the copy of the one that   *)
(* runs starts from what is stored, and with none running the screen shows *)
(* it.                                                                     *)
Limpo(c) ==
  /\ c \notin atrasados /\ Turnos(c) \cap soltos = {}
  /\ \A t \in Turnos(c) : EmCurso(t) \/ (turno[t].fase = "fim" /\ t \in servidor[c])
Base ==
  \A c \in Chat : Limpo(c) =>
    /\ \A t \in Turnos(c) : EmCurso(t) => turno[t].base = servidor[c] \ {t}
    /\ (activeChat.chat = c /\ \A t \in Turnos(c) : ~EmCurso(t)) =>
         activeChat.turnos = servidor[c]

IInv == TypeOK /\ Mostrado /\ Ocupa /\ Livres /\ UmFluxoPorChat /\ Guardados /\ Base

(* A stop that waits for the server aborts the stream of the turn it asked *)
(* the server for, or none.                                                *)
Paradas == [pedida : Turno, corta : Turno \cup {Nada, Gasto}, montada : BOOLEAN]
Pedidas ==
  /\ paradas \subseteq Paradas
  /\ \A p \in paradas : p.corta \in Turno => p.corta = p.pedida

LEMMA EmCursoChat ==
  ASSUME TypeOK
  PROVE  \A t \in Turno : EmCurso(t) => turno[t].chat \in Chat /\ turno[t].chat # Nada
BY PaginaAssumption DEF TypeOK, EmCurso, SemResposta, Fluxos

(* Steps that do not touch the streams, the store or the chat shown.       *)
LEMMA Igual ==
  ASSUME IInv, UNCHANGED <<activeChat, chatRef, turno, servidor, soltos, atrasados>>,
         controller' \in {controller, Nada, Gasto}
  PROVE  Mostrado' /\ Ocupa' /\ Livres' /\ UmFluxoPorChat' /\ Guardados' /\ Base'
<1>1. Mostrado'
  BY PaginaAssumption DEF IInv, Mostrado
<1>2. Ocupa' /\ Livres' /\ UmFluxoPorChat'
  BY DEF IInv, Ocupa, Livres, UmFluxoPorChat, EmCurso, SemResposta
<1>3. Guardados' /\ Base'
  BY DEF IInv, Guardados, Base, Limpo, Turnos, EmCurso, SemResposta
<1> QED
  BY <1>1, <1>2, <1>3

LEMMA EscolhaPasso ==
  ASSUME IInv,
         \/ \E c \in Chat : OpenChatUrl(c)
         \/ Navega \/ Le \/ RecebeErro \/ HandleStopChatProcess \/ AbreLoja
         \/ UNCHANGED varsPagina
  PROVE  IInv'
<1>1. /\ UNCHANGED <<activeChat, chatRef, turno, servidor, soltos, atrasados>>
      /\ controller' \in {controller, Nada}
  BY DEF OpenChatUrl, Navega, Le, RecebeErro, HandleStopChatProcess, AbreLoja, varsPagina, vRota,
     vTela, vEscolha
<1>2. /\ rota' \in Chat \cup {Nada} /\ chatId' \in Chat \cup {Nada} /\ volta' \in BOOLEAN
      /\ getChatByIdQuery' \in Consultas
      /\ (getChatByIdQuery'.fase # "parada" => chatId' \in Chat)
  <2>1. CASE \E c \in Chat : OpenChatUrl(c)
    BY <2>1 DEF IInv, TypeOK, OpenChatUrl, SetChatId, Consultas
  <2>2. CASE Navega \/ HandleStopChatProcess \/ AbreLoja \/ UNCHANGED varsPagina
    BY <2>2 DEF IInv, TypeOK, Navega, HandleStopChatProcess, AbreLoja, varsPagina, vRota
  <2>3. CASE Le
    <3>1. chatId \in Chat /\ servidor[chatId] \in SUBSET Turno
      BY <2>3 DEF IInv, TypeOK, Le
    <3> QED
      BY <2>3, <3>1 DEF IInv, TypeOK, Le, Consultas
  <2>4. CASE RecebeErro
    BY <2>4 DEF IInv, TypeOK, RecebeErro, FetchChat, Pendente, Consultas
  <2> QED
    BY <2>1, <2>2, <2>3, <2>4
<1>3. TypeOK'
  BY <1>1, <1>2 DEF IInv, TypeOK
<1> QED
  BY <1>1, <1>3, Igual DEF IInv

LEMMA NovoChatPasso ==
  ASSUME IInv, HandleNewChat
  PROVE  IInv'
<1>0. /\ activeChat' = [chat |-> Nada, turnos |-> {}, dono |-> Nada]
      /\ UNCHANGED <<chatRef, controller, turno, servidor, soltos, atrasados>>
  BY DEF HandleNewChat, SetActiveChat, SemChat, Copia
<1>1. TypeOK'
  <2>1. activeChat' \in Copias
    BY <1>0 DEF Copias
  <2> QED
    BY <1>0, <2>1 DEF IInv, TypeOK, HandleNewChat
<1>2. Mostrado'
  BY <1>0 DEF Mostrado
<1>3. Ocupa' /\ Livres' /\ UmFluxoPorChat'
  BY <1>0, EmCursoChat DEF IInv, Ocupa, Livres, UmFluxoPorChat, EmCurso, SemResposta
<1>4. Guardados'
  BY <1>0 DEF IInv, Guardados, Turnos
<1>5. Base'
  BY <1>0, PaginaAssumption DEF IInv, Base, Limpo, Turnos, EmCurso, SemResposta
<1> QED
  BY <1>1, <1>2, <1>3, <1>4, <1>5 DEF IInv

(* The answer of the query frees the screen of its chat.                   *)
LEMMA RecebePasso ==
  ASSUME IInv, Recebe
  PROVE  IInv'
<1>0. /\ chatId \in Chat /\ getChatByIdQuery.lidos \in SUBSET Turno
      /\ chatId # Nada
  BY PaginaAssumption DEF IInv, TypeOK, Recebe, Consultas
<1>1. /\ activeChat' = [chat |-> chatId, turnos |-> getChatByIdQuery.lidos, dono |-> Nada]
      /\ chatRef' = chatId
      /\ UNCHANGED <<rota, volta, chatId, controller, turno, servidor>>
      /\ soltos' = soltos \cup {u \in Turno : EmCurso(u) /\ turno[u].chat = chatId}
      /\ atrasados' = IF getChatByIdQuery.lidos # servidor[chatId] THEN atrasados \cup {chatId}
                      ELSE atrasados \ {chatId}
  BY <1>0 DEF Recebe, SetActiveChat, Copia, Solta
<1>2. TypeOK'
  <2>1. activeChat' \in Copias
    BY <1>0, <1>1 DEF Copias
  <2>2. getChatByIdQuery' \in Consultas
    BY DEF Recebe, FetchChat, Consultas
  <2> QED
    BY <1>0, <1>1, <2>1, <2>2 DEF IInv, TypeOK
<1>3. Mostrado'
  BY <1>0, <1>1 DEF Mostrado
<1>4. Ocupa' /\ Livres' /\ UmFluxoPorChat'
  BY <1>1 DEF IInv, Ocupa, Livres, UmFluxoPorChat, EmCurso, SemResposta
<1>5. Guardados'
  BY <1>1 DEF IInv, Guardados, Turnos
<1>6. Base'
  <2> SUFFICES ASSUME NEW c \in Chat, Limpo(c)'
               PROVE  /\ \A t \in Turnos(c)' : EmCurso(t)' => turno'[t].base = servidor'[c] \ {t}
                      /\ (activeChat'.chat = c /\ \A t \in Turnos(c)' : ~EmCurso(t)') =>
                           activeChat'.turnos = servidor'[c]
    BY DEF Base
  <2>1. Turnos(c)' = Turnos(c) /\ \A t \in Turnos(c) : EmCurso(t)' <=> EmCurso(t)
    BY <1>1 DEF Turnos, EmCurso, SemResposta
  <2>2. CASE c = chatId
    <3>1. \A t \in Turnos(c) : ~EmCurso(t)
      BY <1>1, <2>1, <2>2 DEF Limpo, Turnos
    <3>2. getChatByIdQuery.lidos = servidor[c]
      BY <1>0, <1>1, <2>2 DEF Limpo
    <3> QED
      BY <1>1, <2>1, <2>2, <3>1, <3>2
  <2>3. CASE c # chatId
    <3>1. Limpo(c)
      BY <1>1, <2>1, <2>3 DEF Limpo
    <3> QED
      BY <1>1, <2>1, <2>3, <3>1 DEF IInv, Base
  <2> QED
    BY <2>2, <2>3
<1> QED
  BY <1>2, <1>3, <1>4, <1>5, <1>6 DEF IInv

(* A message is sent in a chat that is at rest on the screen.              *)
LEMMA EnviaPasso ==
  ASSUME IInv, NEW t \in Turno, NEW c \in Chat, SubmitChatMessage(t, c)
  PROVE  IInv'
<1>0. /\ turno[t].fase = "fora" /\ turno[t].chat = Nada /\ c # Nada /\ t # Nada
      /\ activeChat.turnos \in SUBSET Turno
  <2>1. t >= t
    BY PaginaAssumption
  <2>2. turno[t].fase = "fora"
    BY <2>1 DEF SubmitChatMessage
  <2> QED
    BY <2>2, PaginaAssumption DEF IInv, TypeOK, Copias
<1>1. /\ turno' = [turno EXCEPT ![t] = [fase |-> "enviado", chat |-> c, base |-> activeChat.turnos]]
      /\ activeChat' = [chat |-> c, turnos |-> activeChat.turnos, dono |-> t]
      /\ chatRef' = c /\ controller' = t
      /\ UNCHANGED <<rota, volta, chatId, getChatByIdQuery, servidor, soltos, atrasados>>
  BY <1>0 DEF SubmitChatMessage, SetActiveChat, Copia, vRota
<1>2. /\ turno'[t] = [fase |-> "enviado", chat |-> c, base |-> activeChat.turnos]
      /\ \A u \in Turno \ {t} : turno'[u] = turno[u]
  BY <1>1 DEF IInv, TypeOK
<1>3. \A u \in Turno \ {t} : EmCurso(u) /\ turno[u].chat = c => u \in soltos
  <2> SUFFICES ASSUME NEW u \in Turno \ {t}, EmCurso(u), turno[u].chat = c, u \notin soltos
               PROVE  FALSE
    OBVIOUS
  <2>1. activeChat.chat = c
    BY DEF SubmitChatMessage, Inicia
  <2>2. activeChat.dono = u
    BY <2>1 DEF IInv, Ocupa
  <2> QED
    BY <2>2, PaginaAssumption DEF SubmitChatMessage, IsChatLoading, EmCurso, SemResposta, IInv,
       Livres
<1>4. TypeOK'
  <2>1. turno'[t] \in Fluxos /\ activeChat' \in Copias
    BY <1>0, <1>1, <1>2 DEF Fluxos, Fases, Copias
  <2>2. turno' \in [Turno -> Fluxos]
    BY <1>1, <2>1 DEF IInv, TypeOK, Fluxos, Fases
  <2>3. \A u \in Turno : turno'[u].fase = "fora" <=> turno'[u].chat = Nada
    BY <1>0, <1>2 DEF IInv, TypeOK
  <2> QED
    BY <1>1, <2>1, <2>2, <2>3 DEF IInv, TypeOK
<1>5. Mostrado'
  BY <1>0, <1>1 DEF Mostrado
<1>6. Ocupa' /\ Livres'
  BY <1>1, <1>2, <1>3 DEF IInv, Ocupa, Livres, EmCurso, SemResposta
<1>7. UmFluxoPorChat'
  BY <1>1, <1>2, <1>3 DEF IInv, UmFluxoPorChat, EmCurso, SemResposta
<1>8. \A d \in Chat : Turnos(d)' = IF d = c THEN Turnos(d) \cup {t} ELSE Turnos(d)
  <2>1. \A u \in Turno : turno'[u].chat = IF u = t THEN c ELSE turno[u].chat
    BY <1>2
  <2>2. ASSUME NEW d \in Chat
        PROVE  turno[t].chat # d
    BY <1>0, PaginaAssumption
  <2> QED
    BY <2>1, <2>2 DEF Turnos
<1>9. Guardados'
  BY <1>1, <1>8 DEF IInv, Guardados
<1>10. Base'
  <2> SUFFICES ASSUME NEW d \in Chat, Limpo(d)'
               PROVE  /\ \A u \in Turnos(d)' : EmCurso(u)' => turno'[u].base = servidor'[d] \ {u}
                      /\ (activeChat'.chat = d /\ \A u \in Turnos(d)' : ~EmCurso(u)') =>
                           activeChat'.turnos = servidor'[d]
    BY DEF Base
  <2>0. t \notin Turnos(d) /\ Turnos(d) \subseteq Turno
    BY <1>0, PaginaAssumption DEF Turnos
  <2>1. Limpo(d)
    BY <1>1, <1>2, <1>8, <2>0 DEF Limpo, EmCurso, SemResposta
  <2>2. CASE d = c
    <3>1. \A u \in Turnos(c) : ~EmCurso(u)
      BY <1>3, <2>0, <2>1, <2>2 DEF Limpo, Turnos
    <3>2. activeChat.turnos = servidor[c]
      <4>1. CASE activeChat.chat = c
        BY <2>1, <2>2, <3>1, <4>1 DEF IInv, Base
      <4>2. CASE Inicia(c)
        <5>1. Turnos(c) = {} /\ activeChat.turnos = {}
          BY <4>2 DEF Inicia, Turnos, IInv, Mostrado
        <5> QED
          BY <5>1 DEF IInv, Guardados
      <4> QED
        BY <4>1, <4>2 DEF SubmitChatMessage
    <3>3. t \notin servidor[c]
      BY <2>0, <2>2 DEF IInv, Guardados
    <3>4. EmCurso(t)'
      BY <1>2 DEF EmCurso, SemResposta
    <3>5. \A u \in Turnos(d)' : EmCurso(u)' => u = t
      BY <1>2, <1>8, <2>0, <2>2, <3>1 DEF EmCurso, SemResposta
    <3> QED
      BY <1>1, <1>2, <1>8, <2>2, <3>2, <3>3, <3>4, <3>5
  <2>3. CASE d # c
    <3>1. \A u \in Turnos(d) : turno'[u] = turno[u] /\ (EmCurso(u)' <=> EmCurso(u))
      BY <1>2, <2>0 DEF EmCurso, SemResposta
    <3> QED
      BY <1>1, <1>8, <2>1, <2>3, <3>1 DEF IInv, Base
  <2> QED
    BY <2>2, <2>3
<1> QED
  BY <1>4, <1>5, <1>6, <1>7, <1>9, <1>10 DEF IInv

(* The server stores the turn of a stream.                                 *)
LEMMA GravaPasso ==
  ASSUME IInv, NEW t \in Turno, Grava(t)
  PROVE  IInv'
<1> DEFINE c == turno[t].chat
<1>0. c \in Chat /\ t \in Turnos(c) /\ turno[t].fase \notin {"fora", "fim", "falhou"}
  BY DEF IInv, TypeOK, Grava, Fluxos, Turnos
<1>1. /\ servidor' = [servidor EXCEPT ![c] = servidor[c] \cup {t}]
      /\ UNCHANGED <<rota, volta, chatId, getChatByIdQuery, activeChat, chatRef, controller, turno,
                     soltos, atrasados>>
  BY DEF Grava, vRota, vTela, vEscolha
<1>2. servidor'[c] = servidor[c] \cup {t} /\ \A d \in Chat \ {c} : servidor'[d] = servidor[d]
  BY <1>0, <1>1 DEF IInv, TypeOK
<1> HIDE DEF c
<1>3. TypeOK'
  <2>1. servidor' \in [Chat -> SUBSET Turno]
    BY <1>0, <1>1 DEF IInv, TypeOK
  <2> QED
    BY <1>1, <2>1 DEF IInv, TypeOK
<1>4. Mostrado'
  BY <1>1 DEF IInv, Mostrado
<1>5. Ocupa' /\ Livres' /\ UmFluxoPorChat'
  BY <1>1 DEF IInv, Ocupa, Livres, UmFluxoPorChat, EmCurso, SemResposta
<1>6. \A d \in Chat : Turnos(d)' = Turnos(d) /\ \A u \in Turnos(d) : EmCurso(u)' <=> EmCurso(u)
  BY <1>1 DEF Turnos, EmCurso, SemResposta
<1>7. Guardados'
  BY <1>0, <1>1, <1>2, <1>6 DEF IInv, Guardados
<1>8. Base'
  <2> SUFFICES ASSUME NEW d \in Chat, Limpo(d)'
               PROVE  /\ \A u \in Turnos(d)' : EmCurso(u)' => turno'[u].base = servidor'[d] \ {u}
                      /\ (activeChat'.chat = d /\ \A u \in Turnos(d)' : ~EmCurso(u)') =>
                           activeChat'.turnos = servidor'[d]
    BY DEF Base
  <2>1. CASE d = c
    <3>1. EmCurso(t)
      BY <1>0, <1>1, <1>6, <2>1 DEF Limpo
    <3>2. Limpo(c)
      BY <1>0, <1>1, <1>2, <1>6, <2>1, <3>1 DEF Limpo
    <3>3. \A u \in Turnos(c) : EmCurso(u) => u = t
      BY <1>0, <3>1, <3>2 DEF IInv, UmFluxoPorChat, Limpo, Turnos
    <3>4. turno[t].base = servidor[c] \ {t}
      BY <1>0, <3>1, <3>2 DEF IInv, Base
    <3> QED
      BY <1>0, <1>1, <1>2, <1>6, <2>1, <3>1, <3>3, <3>4
  <2>2. CASE d # c
    <3>1. Limpo(d)
      BY <1>1, <1>2, <1>6, <2>2 DEF Limpo
    <3> QED
      BY <1>1, <1>2, <1>6, <2>2, <3>1 DEF IInv, Base
  <2> QED
    BY <2>1, <2>2
<1> QED
  BY <1>3, <1>4, <1>5, <1>7, <1>8 DEF IInv

(* A stream of t goes on, or is over without the page taking notice.       *)
LEMMA FluxoPasso ==
  ASSUME IInv, NEW t \in Turno, NEW f \in {"livre", "fluxo", "caido", "parado", "preso"},
         turno' = [turno EXCEPT ![t].fase = f],
         EmCurso(t) \/ (turno[t].fase = "caido" /\ f = "parado"),
         controller' \in {controller, Nada, Gasto},
         soltos \subseteq soltos', f = "livre" => t \in soltos',
         UNCHANGED <<rota, volta, chatId, getChatByIdQuery, activeChat, chatRef, servidor,
                     atrasados>>
  PROVE  IInv'
<1>1. \A u \in Turno : /\ turno'[u].chat = turno[u].chat /\ turno'[u].base = turno[u].base
                       /\ turno'[u].fase = IF u = t THEN f ELSE turno[u].fase
  BY DEF IInv, TypeOK, Fluxos
<1>2. \A u \in Turno : EmCurso(u)' => EmCurso(u)
  BY <1>1 DEF EmCurso, SemResposta
<1>3. TypeOK'
  <2>1. turno[t].fase # "fora"
    BY DEF EmCurso, SemResposta
  <2>2. \A u \in Turno : turno'[u].fase = "fora" <=> turno'[u].chat = Nada
    BY <1>1, <2>1 DEF IInv, TypeOK
  <2>3. [turno[t] EXCEPT !.fase = f] \in Fluxos
    BY DEF IInv, TypeOK, Fluxos, Fases
  <2>4. turno' \in [Turno -> Fluxos]
    BY <2>3 DEF IInv, TypeOK
  <2> QED
    BY <2>2, <2>4 DEF IInv, TypeOK
<1>4. Mostrado'
  BY PaginaAssumption DEF IInv, Mostrado
<1>5. Ocupa' /\ Livres' /\ UmFluxoPorChat'
  BY <1>1, <1>2 DEF IInv, Ocupa, Livres, UmFluxoPorChat
<1>6. \A d \in Chat : Turnos(d)' = Turnos(d)
  BY <1>1 DEF Turnos
<1>7. Guardados'
  BY <1>6 DEF IInv, Guardados
<1>8. Base'
  <2> SUFFICES ASSUME NEW d \in Chat, Limpo(d)'
               PROVE  /\ \A u \in Turnos(d)' : EmCurso(u)' => turno'[u].base = servidor'[d] \ {u}
                      /\ (activeChat'.chat = d /\ \A u \in Turnos(d)' : ~EmCurso(u)') =>
                           activeChat'.turnos = servidor'[d]
    BY DEF Base
  <2>1. \A u \in Turnos(d) : /\ EmCurso(u)' <=> EmCurso(u)
                             /\ turno'[u].fase = "fim" => turno[u].fase = "fim"
    BY <1>1, <1>6 DEF Limpo, EmCurso, SemResposta, Turnos
  <2>2. Limpo(d)
    BY <1>6, <2>1 DEF Limpo
  <2>3. \A u \in Turnos(d) : turno'[u].base = turno[u].base
    BY <1>1 DEF Turnos
  <2> QED
    BY <1>6, <2>1, <2>2, <2>3 DEF IInv, Base
<1> QED
  BY <1>3, <1>4, <1>5, <1>7, <1>8 DEF IInv

(* A stream ends, or fails, and its chat takes the screen if it was the    *)
(* last one shown.                                                         *)
LEMMA FimPasso ==
  ASSUME IInv, NEW t \in Turno, Termina(t) \/ HandleErrorResponse(t)
  PROVE  IInv'
<1> DEFINE c == turno[t].chat
           mostra == chatRef = c
<1>0. c \in Chat /\ c # Nada /\ EmCurso(t) /\ turno[t].base \in SUBSET Turno
  BY PaginaAssumption DEF IInv, TypeOK, Termina, HandleErrorResponse, Fluxos, EmCurso, SemResposta
<1>1. PICK f \in {"fim", "falhou"} :
        /\ turno' = [turno EXCEPT ![t].fase = f]
        /\ mostra => /\ chatRef' = c
                     /\ activeChat' = [chat |-> c, dono |-> Nada, turnos |->
                                         IF f = "fim" THEN turno[t].base \cup {t} ELSE turno[t].base]
        /\ ~mostra => UNCHANGED <<activeChat, chatRef>>
        /\ UNCHANGED <<rota, volta, chatId, getChatByIdQuery, controller, servidor, atrasados>>
        /\ soltos' = soltos \cup
             {u \in (IF mostra THEN Turno \ {t} ELSE {}) : EmCurso(u) /\ turno[u].chat = c}
  <2>1. CASE Termina(t)
    <3> WITNESS "fim" \in {"fim", "falhou"}
    <3> QED
      BY <1>0, <2>1 DEF Termina, HandleSetActiveChat, SetActiveChat, UpdateChatStream, Copia,
         SoltaOsOutros, Solta, vRota
  <2>2. CASE HandleErrorResponse(t)
    <3> WITNESS "falhou" \in {"fim", "falhou"}
    <3> QED
      BY <1>0, <2>2 DEF HandleErrorResponse, HandleSetActiveChat, SetActiveChat, Copia,
         SoltaOsOutros, Solta, vRota
  <2> QED
    BY <2>1, <2>2
<1> HIDE DEF c
<1>2. /\ \A u \in Turno : /\ turno'[u].chat = turno[u].chat /\ turno'[u].base = turno[u].base
                          /\ turno'[u].fase = IF u = t THEN f ELSE turno[u].fase
      /\ turno[t].chat = c
  BY <1>1 DEF IInv, TypeOK, Fluxos, c
<1>3. \A u \in Turno : EmCurso(u)' <=> (u # t /\ EmCurso(u))
  BY <1>2 DEF EmCurso, SemResposta
<1>4. TypeOK'
  <2>1. \A u \in Turno : turno'[u].fase = "fora" <=> turno'[u].chat = Nada
    BY <1>0, <1>2 DEF IInv, TypeOK, EmCurso, SemResposta
  <2>2. [turno[t] EXCEPT !.fase = f] \in Fluxos
    BY DEF IInv, TypeOK, Fluxos, Fases
  <2>3. turno' \in [Turno -> Fluxos]
    BY <1>1, <2>2 DEF IInv, TypeOK
  <2>4. activeChat' \in Copias /\ chatRef' \in Chat \cup {Nada}
    BY <1>0, <1>1 DEF IInv, TypeOK, Copias
  <2> QED
    BY <1>1, <2>1, <2>3, <2>4 DEF IInv, TypeOK
<1>5. Mostrado'
  BY <1>0, <1>1 DEF IInv, Mostrado
<1>11. Livres'
  BY <1>1, <1>2 DEF IInv, Livres
<1>6. Ocupa'
  <2> SUFFICES ASSUME NEW u \in Turno, EmCurso(u)', u \notin soltos', activeChat'.chat = turno'[u].chat
               PROVE  activeChat'.dono = u
    BY DEF Ocupa
  <2>1. u # t /\ EmCurso(u) /\ turno'[u].chat = turno[u].chat /\ u \notin soltos
    BY <1>1, <1>2, <1>3
  <2>2. ~mostra
    BY <1>1, <2>1
  <2> QED
    BY <1>1, <2>1, <2>2 DEF IInv, Ocupa
<1>7. UmFluxoPorChat'
  BY <1>1, <1>2, <1>3 DEF IInv, UmFluxoPorChat
<1>8. \A d \in Chat : Turnos(d)' = Turnos(d)
  BY <1>2 DEF Turnos
<1>9. Guardados'
  BY <1>1, <1>8 DEF IInv, Guardados
<1>10. Base'
  <2> SUFFICES ASSUME NEW d \in Chat, Limpo(d)'
               PROVE  /\ \A u \in Turnos(d)' : EmCurso(u)' => turno'[u].base = servidor'[d] \ {u}
                      /\ (activeChat'.chat = d /\ \A u \in Turnos(d)' : ~EmCurso(u)') =>
                           activeChat'.turnos = servidor'[d]
    BY DEF Base
  <2>1. Limpo(d)
    BY <1>0, <1>1, <1>2, <1>3, <1>8 DEF Limpo, Turnos
  <2>2. \A u \in Turnos(d) : EmCurso(u) => turno[u].base = servidor[d] \ {u}
    BY <2>1 DEF IInv, Base
  <2>3. \A u \in Turnos(d)' : EmCurso(u)' => turno'[u].base = servidor'[d] \ {u}
    BY <1>1, <1>2, <1>3, <1>8, <2>2 DEF Turnos
  <2>4. CASE d = c
    <3>1. t \in Turnos(d) /\ f = "fim" /\ t \in servidor[d]
      BY <1>0, <1>1, <1>2, <1>3, <1>8, <2>4 DEF Limpo, Turnos
    <3>2. turno[t].base \cup {t} = servidor[d]
      BY <1>0, <2>2, <3>1
    <3>3. ~mostra => activeChat'.chat # d
      BY <1>0, <1>1, <2>4 DEF IInv, Mostrado
    <3>4. ASSUME mostra
          PROVE  activeChat'.turnos = servidor'[d]
      <4>1. activeChat' = [chat |-> c, dono |-> Nada, turnos |->
                             IF f = "fim" THEN turno[t].base \cup {t} ELSE turno[t].base]
        BY <1>1, <3>4
      <4>2. activeChat'.turnos = turno[t].base \cup {t}
        BY <3>1, <4>1
      <4> QED
        BY <1>1, <3>2, <4>2
    <3> QED
      BY <2>3, <3>3, <3>4
  <2>5. CASE d # c
    <3>1. \A u \in Turnos(d) : EmCurso(u)' <=> EmCurso(u)
      BY <1>2, <1>3, <2>5 DEF Turnos
    <3>2. activeChat'.chat = d => activeChat.chat = d /\ activeChat'.turnos = activeChat.turnos
      BY <1>1, <2>5
    <3> QED
      BY <1>1, <1>8, <2>1, <2>3, <3>1, <3>2 DEF IInv, Base
  <2> QED
    BY <2>4, <2>5
<1> QED
  BY <1>4, <1>5, <1>6, <1>7, <1>9, <1>10, <1>11 DEF IInv

(* Every step.                                                             *)
LEMMA Inicial ==
  ASSUME InitPagina
  PROVE  IInv /\ Pedidas
<1>1. /\ activeChat = [chat |-> Nada, turnos |-> {}, dono |-> Nada]
      /\ \A t \in Turno : turno[t] = [fase |-> "fora", chat |-> Nada, base |-> {}]
      /\ \A c \in Chat : servidor[c] = {}
  BY DEF InitPagina, SemChat, Copia, Ocioso
<1>2. TypeOK
  <2>1. /\ turno \in [Turno -> Fluxos] /\ servidor \in [Chat -> SUBSET Turno]
        /\ activeChat \in Copias
    BY DEF InitPagina, SemChat, Copia, Ocioso, Fluxos, Fases, Copias
  <2>2. getChatByIdQuery \in Consultas /\ (getChatByIdQuery.fase # "parada" => chatId \in Chat)
    BY PaginaAssumption DEF InitPagina, Consultas
  <2>3. \A t \in Turno : turno[t].fase = "fora" <=> turno[t].chat = Nada
    BY <1>1
  <2>4. rota \in Chat \cup {Nada} /\ chatId \in Chat \cup {Nada} /\ volta \in BOOLEAN
    BY PaginaAssumption DEF InitPagina
  <2>5. chatRef \in Chat \cup {Nada} /\ controller \in Turno \cup {Nada, Gasto}
    BY DEF InitPagina
  <2> QED
    BY <2>1, <2>2, <2>3, <2>4, <2>5 DEF TypeOK
<1>3. Mostrado
  BY <1>1 DEF InitPagina, Mostrado
<1>4. \A t \in Turno : ~EmCurso(t)
  BY <1>1 DEF EmCurso, SemResposta
<1>5. \A c \in Chat : Turnos(c) = {}
  <2>1. ASSUME NEW c \in Chat, NEW t \in Turno
        PROVE  turno[t].chat # c
    BY <1>1, PaginaAssumption
  <2> QED
    BY <2>1 DEF Turnos
<1>6. Base
  BY <1>1, <1>5, PaginaAssumption DEF Base
<1> QED
  BY <1>1, <1>2, <1>3, <1>4, <1>6 DEF InitPagina, IInv, Ocupa, Livres, UmFluxoPorChat,
     Guardados, Pedidas

(* The stops change when one is pressed or answered, and when the store    *)
(* opens.                                                                  *)
LEMMA MudaParadas ==
  ASSUME [NextPagina]_varsPagina
  PROVE  \/ HandleStopChatProcess \/ AbreLoja \/ \E p \in paradas : HandleStopChat(p)
         \/ UNCHANGED paradas
<1>1. ASSUME NEW t \in Turno, NEW c \in Chat, SubmitChatMessage(t, c)
      PROVE  UNCHANGED paradas
  BY <1>1 DEF SubmitChatMessage
<1>2. ASSUME NEW t \in Turno, \/ Grava(t) \/ UpdateChatWithStreamResponse(t)
                               \/ Termina(t) \/ HandleErrorResponse(t) \/ Cai(t)
      PROVE  UNCHANGED paradas
  BY <1>2 DEF Grava, UpdateChatWithStreamResponse, Termina, HandleErrorResponse, Cai, vTela
<1>3. (\E c \in Chat : OpenChatUrl(c)) \/ HandleNewChat \/ Navega \/ Le \/ Recebe \/ RecebeErro
        \/ UNCHANGED varsPagina => UNCHANGED paradas
  BY DEF OpenChatUrl, HandleNewChat, Navega, Le, Recebe, RecebeErro, varsPagina, vTela
<1> QED
  BY <1>1, <1>2, <1>3 DEF NextPagina

(* The press and the answer of a stop.                                     *)
LEMMA PedidasPasso ==
  ASSUME IInv, Pedidas, [NextPagina]_varsPagina
  PROVE  Pedidas'
<1>1. CASE HandleStopChatProcess
  <2> DEFINE p == [pedida |-> activeChat.dono, corta |-> controller, montada |-> TRUE]
  <2>1. paradas' = paradas \cup {p} /\ activeChat.dono # Nada
    BY <1>1 DEF HandleStopChatProcess, IsChatLoading
  <2>2. p \in Paradas
    BY <2>1 DEF IInv, TypeOK, Copias, Paradas
  <2>3. p.corta \in Turno => p.corta = p.pedida
    BY <2>1 DEF IInv, Mostrado
  <2> HIDE DEF p
  <2> QED
    BY <2>1, <2>2, <2>3 DEF Pedidas
<1>2. CASE AbreLoja
  <2>1. \A p \in paradas : LET q == [p EXCEPT !.montada = FALSE]
                           IN q \in Paradas /\ q.corta = p.corta /\ q.pedida = p.pedida
    BY DEF Pedidas, Paradas
  <2>2. \A q \in paradas' : \E p \in paradas : q = [p EXCEPT !.montada = FALSE]
    BY <1>2 DEF AbreLoja
  <2> SUFFICES ASSUME NEW q \in paradas'
               PROVE  q \in Paradas /\ (q.corta \in Turno => q.corta = q.pedida)
    BY DEF Pedidas
  <2>3. PICK p \in paradas : q = [p EXCEPT !.montada = FALSE]
    BY <2>2
  <2>4. q \in Paradas /\ q.corta = p.corta /\ q.pedida = p.pedida
    BY <2>1, <2>3
  <2> QED
    BY <2>4 DEF Pedidas
<1>3. ASSUME NEW p \in paradas, HandleStopChat(p)
      PROVE  Pedidas'
  BY <1>3 DEF HandleStopChat, Pedidas
<1>4. CASE UNCHANGED paradas
  BY <1>4 DEF Pedidas
<1> QED
  BY <1>1, <1>2, <1>3, <1>4, MudaParadas

(* What the answer of a stop does to the streams: at most the one it was   *)
(* asked for changes.                                                      *)
LEMMA ParadaMuda ==
  ASSUME IInv, Pedidas, NEW p \in paradas, HandleStopChat(p)
  PROVE  /\ p.pedida \in Turno
         /\ \/ UNCHANGED <<turno, soltos>>
            \/ \E f \in {"livre", "parado", "preso"} :
                 /\ turno' = [turno EXCEPT ![p.pedida].fase = f]
                 /\ EmCurso(p.pedida) \/ (turno[p.pedida].fase = "caido" /\ f = "parado")
                 /\ soltos \subseteq soltos' /\ (f = "livre" => p.pedida \in soltos')
<1> DEFINE t == p.pedida
           f == LET g == TiraMarca(turno[t].fase) IN IF t = p.corta THEN Rompe(g) ELSE g
<1>0. t \in Turno /\ (p.corta \in Turno => p.corta = t) /\ turno[t].fase \in Fases
  BY DEF Pedidas, Paradas, IInv, TypeOK, Fluxos
<1>1. CASE UNCHANGED <<turno, controller, soltos>>
  BY <1>0, <1>1
<1>2. CASE /\ AbortaODaParada(p)
           /\ soltos' = soltos \cup {u \in Turno : turno'[u].fase = "livre"}
  <2>1. turno' = [u \in Turno |-> [turno[u] EXCEPT !.fase =
          LET g == IF u = t THEN TiraMarca(@) ELSE @ IN IF u = p.corta THEN Rompe(g) ELSE g]]
    BY <1>2 DEF AbortaODaParada, Aborta
  <2>2. turno'[t] = [turno[t] EXCEPT !.fase = f]
    BY <1>0, <2>1
  <2>3. \A u \in Turno \ {t} : turno'[u] = turno[u]
    BY <1>0, <2>1 DEF IInv, TypeOK, Fluxos
  <2> HIDE DEF f
  <2>4. turno' = [turno EXCEPT ![t].fase = f]
    <3>1. turno' = [u \in Turno |-> turno'[u]] /\ turno = [u \in Turno |-> turno[u]]
      BY <2>1 DEF IInv, TypeOK
    <3> QED
      BY <1>0, <2>2, <2>3, <3>1
  <2>5. turno'[t].fase = f
    BY <1>0, <2>2 DEF IInv, TypeOK, Fluxos
  <2>6. CASE f = turno[t].fase
    <3>1. turno' = turno
      BY <1>0, <2>4, <2>6 DEF IInv, TypeOK, Fluxos
    <3> QED
      BY <1>0, <1>2, <3>1 DEF IInv, Livres
  <2>7. CASE f # turno[t].fase
    <3>1. /\ f \in {"livre", "parado", "preso"}
          /\ EmCurso(t) \/ (turno[t].fase = "caido" /\ f = "parado")
      BY <1>0, <2>7 DEF f, TiraMarca, Rompe, EmCurso, SemResposta, Fases
    <3> QED
      BY <1>0, <1>2, <2>4, <2>5, <3>1
  <2> QED
    BY <2>6, <2>7
<1> QED
  BY <1>1, <1>2 DEF HandleStopChat

LEMMA Passo ==
  ASSUME IInv, Pedidas, [NextPagina]_varsPagina
  PROVE  IInv'
<1>1. ASSUME NEW t \in Turno, UpdateChatWithStreamResponse(t) \/ Cai(t)
      PROVE  IInv'
  <2>1. \E f \in {"fluxo", "caido", "parado", "preso"} : turno' = [turno EXCEPT ![t].fase = f]
    BY <1>1 DEF UpdateChatWithStreamResponse, Cai, Rompe, EmCurso, SemResposta
  <2> QED
    BY <1>1, <2>1, FluxoPasso
       DEF UpdateChatWithStreamResponse, Cai, EmCurso, SemResposta, vRota, vTela, vEscolha
<1>2. ASSUME NEW p \in paradas, HandleStopChat(p)
      PROVE  IInv'
  <2>1. /\ controller' \in {controller, Gasto}
        /\ UNCHANGED <<rota, volta, chatId, getChatByIdQuery, activeChat, chatRef, servidor,
                       atrasados>>
    BY <1>2 DEF HandleStopChat, vRota
  <2>2. CASE UNCHANGED <<turno, soltos>>
    BY <2>1, <2>2, Igual DEF IInv, TypeOK
  <2> QED
    BY <1>2, <2>1, <2>2, ParadaMuda, FluxoPasso
<1> QED
  BY <1>1, <1>2, EscolhaPasso, NovoChatPasso, RecebePasso, EnviaPasso, GravaPasso, FimPasso
     DEF NextPagina

LEMMA Sempre == SpecPagina => [](IInv /\ Pedidas)
<1>1. InitPagina => IInv /\ Pedidas
  BY Inicial
<1>2. IInv /\ Pedidas /\ [NextPagina]_varsPagina => (IInv /\ Pedidas)'
  BY Passo, PedidasPasso
<1> QED
  BY <1>1, <1>2, PTL DEF SpecPagina

(* The answer of a stop, whenever it comes, ends the stream of the turn    *)
(* the server was asked to stop, or none.                                  *)
THEOREM StopReachesTheShown == SpecPagina => ParaOMostrado
<1> DEFINE Atinge == \A t \in Turno :
             paradas' # paradas /\ EmCurso(t) /\ ~EmCurso(t)' =>
               \E p \in paradas \ paradas' : p.pedida = t
<1>1. ASSUME IInv, Pedidas, [NextPagina]_varsPagina
      PROVE  Atinge
  <2>1. ASSUME NEW p \in paradas, HandleStopChat(p)
        PROVE  Atinge
    <3>1. \A t \in Turno \ {p.pedida} : turno'[t] = turno[t]
      BY <1>1, <2>1, ParadaMuda DEF IInv, TypeOK
    <3>2. p \in paradas \ paradas'
      BY <2>1 DEF HandleStopChat
    <3> QED
      BY <3>1, <3>2 DEF EmCurso, SemResposta
  <2>2. CASE HandleStopChatProcess \/ AbreLoja
    BY <2>2 DEF HandleStopChatProcess, AbreLoja, EmCurso, SemResposta
  <2>3. CASE UNCHANGED paradas
    BY <2>3
  <2> HIDE DEF Atinge
  <2> QED
    BY <1>1, <2>1, <2>2, <2>3, MudaParadas
<1>2. IInv /\ Pedidas /\ [NextPagina]_varsPagina => [Atinge]_varsPagina
  BY <1>1
<1> QED
  BY <1>2, Sempre, PTL DEF SpecPagina, ParaOMostrado

(* Two streams of one chat run only if the screen of one of them was freed *)
(* by an answer of the query, by the end of another, or by a stop that had *)
(* no stream to abort.                                                     *)
THEOREM OneStreamPerChat == SpecPagina => []UmFluxoPorChat
<1>1. IInv => UmFluxoPorChat
  BY DEF IInv
<1> QED
  BY <1>1, Sempre, PTL

(* A chat at rest on the screen shows what the store has, but for the late *)
(* answers and the turns its definition names.                             *)
THEOREM ScreenShowsTheStore == SpecPagina => []ConversaEmDia
<1>1. ASSUME IInv
      PROVE  ConversaEmDia
  <2> DEFINE c == activeChat.chat
  <2> SUFFICES ASSUME c # Nada, c \notin atrasados, Turnos(c) \cap soltos = {},
                      \A t \in Turnos(c) : turno[t].fase = "fim" /\ t \in servidor[c]
               PROVE  activeChat.turnos = servidor[c]
    BY DEF ConversaEmDia, Turnos
  <2>1. c \in Chat
    BY <1>1 DEF IInv, TypeOK, Copias
  <2>2. Limpo(c) /\ \A t \in Turnos(c) : ~EmCurso(t)
    BY DEF Limpo, EmCurso, SemResposta
  <2> QED
    BY <1>1, <2>1, <2>2 DEF IInv, Base
<1>2. IInv => ConversaEmDia
  BY <1>1
<1> QED
  BY <1>2, Sempre, PTL

(* The screen leaves a chat only for what the user chose last, the answer  *)
(* of the query that was under way, or, after "new chat", the chat shown   *)
(* before.                                                                 *)
THEOREM ScreenIsTheChoice == SpecPagina => TelaEhEscolha
<1> DEFINE Passa == activeChat'.chat # activeChat.chat =>
                      \/ activeChat'.chat = escolha'
                      \/ activeChat'.chat = chatId /\ Pendente
                      \/ activeChat.chat = Nada /\ activeChat'.chat = chatRef
<1>1. ASSUME IInv, [NextPagina]_varsPagina
      PROVE  Passa
  <2>1. CASE HandleNewChat
    BY <2>1 DEF HandleNewChat, SetActiveChat, SemChat, Copia
  <2>2. CASE Recebe
    BY <2>2 DEF Recebe, SetActiveChat, Copia, Pendente
  <2>3. ASSUME NEW t \in Turno, NEW c \in Chat, SubmitChatMessage(t, c)
        PROVE  Passa
    BY <2>3 DEF SubmitChatMessage, SetActiveChat, Copia
  <2>4. ASSUME NEW t \in Turno, Termina(t) \/ HandleErrorResponse(t)
        PROVE  Passa
    <3>1. \/ UNCHANGED activeChat
          \/ activeChat'.chat = turno[t].chat /\ chatRef = turno[t].chat
      BY <2>4 DEF Termina, HandleErrorResponse, HandleSetActiveChat, SetActiveChat,
         UpdateChatStream, Copia
    <3> QED
      BY <1>1, <3>1 DEF IInv, Mostrado
  <2>5. CASE UNCHANGED activeChat
    BY <2>5
  <2>6. ASSUME NEW t \in Turno, Grava(t) \/ UpdateChatWithStreamResponse(t) \/ Cai(t)
        PROVE  UNCHANGED activeChat
    BY <2>6 DEF Grava, UpdateChatWithStreamResponse, Cai, vTela
  <2>7. (\E c \in Chat : OpenChatUrl(c)) \/ Navega \/ Le \/ RecebeErro \/ HandleStopChatProcess
          \/ (\E p \in paradas : HandleStopChat(p)) \/ AbreLoja \/ UNCHANGED varsPagina
          => UNCHANGED activeChat
    BY DEF OpenChatUrl, Navega, Le, RecebeErro, HandleStopChatProcess, HandleStopChat, AbreLoja,
       varsPagina, vTela
  <2> HIDE DEF Passa
  <2> QED
    BY <1>1, <2>1, <2>2, <2>3, <2>4, <2>5, <2>6, <2>7 DEF NextPagina
<1>2. IInv /\ [NextPagina]_varsPagina => [Passa]_varsPagina
  BY <1>1
<1> QED
  BY <1>2, Sempre, PTL DEF SpecPagina, TelaEhEscolha

-----------------------------------------------------------------------------
(* Reactions.                                                              *)

TelaPossivel ==
  [chat : ChatVisto \cup {Nulo}, vistas : Respostas, estado : {"livre", "carregando", "fluxo"}]
DialogoPossivel == [reacao : Reacao, motivo : {"vazio", "razao", "comentario"}]

ReacoesTypeOK ==
  /\ gravadas \in [ChatVisto -> Respostas]
  /\ tela \in TelaPossivel
  /\ ultimoMostrado \in ChatVisto \cup {Nulo}
  /\ recebendo \in Recebimento \cup {Nulo}
  /\ DOMAIN dialogos \subseteq Visiveis(tela)
  /\ \A k \in DOMAIN dialogos : dialogos[k] \in DialogoPossivel
  /\ envios \in [Envio -> EnvioFeito \cup {Nulo}]
  /\ desencontro \in BOOLEAN
  /\ passosDaTela \in Nat

Instancia(n) == envios[n] # Nulo /\ envios[n].atual
NaTelaDe(c) == recebendo # Nulo /\ recebendo.chat = c

\* What belongs to the chat shown.
Ligados ==
  /\ IF tela.chat = Nulo THEN tela = Vazia ELSE ultimoMostrado = tela.chat
  /\ recebendo # Nulo /\ recebendo.naTela => recebendo.chat = tela.chat
  /\ \A n \in Envio : Instancia(n) => envios[n].chat = tela.chat

\* A request that still has the object shown is the only one about its answer, and what it
\* stored is there.
Unicos ==
  ~desencontro =>
    \A n \in Envio : Instancia(n) =>
      /\ \A m \in Envio \ {n} :
           ~(envios[m] # Nulo /\ envios[m].chat = envios[n].chat
             /\ envios[m].resposta = envios[n].resposta)
      /\ envios[n].gravado =>
           /\ envios[n].resposta \in DOMAIN gravadas[envios[n].chat]
           /\ gravadas[envios[n].chat][envios[n].resposta] = envios[n].reacao

\* The requests about an answer of which none was stored.
Intocada(c, k) ==
  \A n \in Envio :
    envios[n] # Nulo /\ envios[n].chat = c /\ envios[n].resposta = k => ~envios[n].gravado

\* The turn of the chat shown: how many answers are stored.
TurnoNaTela ==
  ~desencontro /\ tela.chat # Nulo /\ NaTelaDe(tela.chat) =>
    LET m == Len(tela.vistas)
        g == Len(gravadas[tela.chat])
    IN IF recebendo.naTela
       THEN /\ m = recebendo.resposta /\ g = IF recebendo.gravada THEN m ELSE m - 1
            /\ ~recebendo.gravada => tela.vistas[m] = Nulo
       ELSE /\ recebendo.resposta <= Len(recebendo.vistas)
            /\ ~recebendo.gravada => m = g

\* The property, also while requests the server has not stored are under way.
MesmasReacoes ==
  ~desencontro /\ tela.chat # Nulo =>
    /\ \A k \in DOMAIN tela.vistas \cap DOMAIN gravadas[tela.chat] :
         Intocada(tela.chat, k) => tela.vistas[k] = gravadas[tela.chat][k]
    /\ ~NaTelaDe(tela.chat) => Len(tela.vistas) = Len(gravadas[tela.chat])

ReacoesInv == ReacoesTypeOK /\ Ligados /\ Unicos /\ TurnoNaTela /\ MesmasReacoes

LEMMA NuloDistinto ==
  /\ \A c \in ChatVisto : c # Nulo
  /\ \A e \in EnvioFeito : e # Nulo
  /\ \A e \in Recebimento : e # Nulo
BY ReacoesAssumption

LEMMA RespostasDe ==
  ASSUME NEW s \in Respostas
  PROVE  /\ Len(s) \in Nat /\ DOMAIN s = 1..Len(s)
         /\ \A x \in Reacao \cup {Nulo} :
              /\ Append(s, x) \in Respostas /\ Len(Append(s, x)) = Len(s) + 1
              /\ Append(s, x)[Len(s) + 1] = x
              /\ \A k \in 1..Len(s) : Append(s, x)[k] = s[k]
         /\ \A x \in Reacao \cup {Nulo}, k \in DOMAIN s :
              /\ [s EXCEPT ![k] = x] \in Respostas /\ Len([s EXCEPT ![k] = x]) = Len(s)
              /\ [s EXCEPT ![k] = x][k] = x
              /\ \A j \in DOMAIN s \ {k} : [s EXCEPT ![k] = x][j] = s[j]
         /\ \A k \in 1..Len(s) :
              /\ SubSeq(s, 1, k - 1) \in Respostas /\ Len(SubSeq(s, 1, k - 1)) = k - 1
              /\ \A j \in 1..(k - 1) : SubSeq(s, 1, k - 1)[j] = s[j]
<1>1. Len(s) \in Nat /\ DOMAIN s = 1..Len(s)
  BY DEF Respostas
<1>2. \A x \in Reacao \cup {Nulo} :
        /\ Append(s, x) \in Respostas /\ Len(Append(s, x)) = Len(s) + 1
        /\ Append(s, x)[Len(s) + 1] = x
        /\ \A k \in 1..Len(s) : Append(s, x)[k] = s[k]
  BY DEF Respostas
<1>3. ASSUME NEW x \in Reacao \cup {Nulo}, NEW k \in DOMAIN s
      PROVE  /\ [s EXCEPT ![k] = x] \in Respostas /\ Len([s EXCEPT ![k] = x]) = Len(s)
             /\ [s EXCEPT ![k] = x][k] = x
             /\ \A j \in DOMAIN s \ {k} : [s EXCEPT ![k] = x][j] = s[j]
  BY DEF Respostas
<1>4. ASSUME NEW k \in 1..Len(s)
      PROVE  /\ SubSeq(s, 1, k - 1) \in Respostas /\ Len(SubSeq(s, 1, k - 1)) = k - 1
             /\ \A j \in 1..(k - 1) : SubSeq(s, 1, k - 1)[j] = s[j]
  <2>1. k - 1 \in Nat /\ k - 1 <= Len(s)
    BY <1>1
  <2> QED
    BY <1>1, <2>1, SubSeqProperties DEF Respostas
<1> QED
  BY <1>1, <1>2, <1>3, <1>4

LEMMA Tipos ==
  ASSUME ReacoesInv
  PROVE  /\ tela \in TelaPossivel /\ tela.chat \in ChatVisto \cup {Nulo} /\ tela.vistas \in Respostas
         /\ \A c \in ChatVisto : gravadas[c] \in Respostas
         /\ recebendo # Nulo =>
              /\ recebendo \in Recebimento /\ recebendo.chat \in ChatVisto
              /\ recebendo.chat # Nulo /\ recebendo.resposta \in Nat \ {0}
              /\ recebendo.gravada \in BOOLEAN /\ recebendo.naTela \in BOOLEAN
              /\ recebendo.vistas \in Respostas /\ VistasDoTurno \in Respostas
         /\ \A n \in Envio : envios[n] # Nulo =>
              /\ envios[n] \in EnvioFeito /\ envios[n].chat \in ChatVisto /\ envios[n].chat # Nulo
              /\ envios[n].resposta \in Nat \ {0} /\ envios[n].reacao \in Reacao
              /\ envios[n].gravado \in BOOLEAN /\ envios[n].atual \in BOOLEAN
              /\ envios[n].vistas \in Respostas
<1>1. tela \in TelaPossivel /\ tela.chat \in ChatVisto \cup {Nulo} /\ tela.vistas \in Respostas
  BY DEF ReacoesInv, ReacoesTypeOK, TelaPossivel
<1>2. \A c \in ChatVisto : gravadas[c] \in Respostas
  BY DEF ReacoesInv, ReacoesTypeOK
<1>3. ASSUME recebendo # Nulo
      PROVE  /\ recebendo \in Recebimento /\ recebendo.chat \in ChatVisto
             /\ recebendo.chat # Nulo /\ recebendo.resposta \in Nat \ {0}
             /\ recebendo.gravada \in BOOLEAN /\ recebendo.naTela \in BOOLEAN
             /\ recebendo.vistas \in Respostas /\ VistasDoTurno \in Respostas
  <2>1. recebendo \in Recebimento
    BY <1>3 DEF ReacoesInv, ReacoesTypeOK
  <2> QED
    BY <1>1, <2>1, NuloDistinto DEF Recebimento, VistasDoTurno
<1>4. ASSUME NEW n \in Envio, envios[n] # Nulo
      PROVE  /\ envios[n] \in EnvioFeito /\ envios[n].chat \in ChatVisto /\ envios[n].chat # Nulo
             /\ envios[n].resposta \in Nat \ {0} /\ envios[n].reacao \in Reacao
             /\ envios[n].gravado \in BOOLEAN /\ envios[n].atual \in BOOLEAN
             /\ envios[n].vistas \in Respostas
  <2>1. envios[n] \in EnvioFeito
    BY <1>4 DEF ReacoesInv, ReacoesTypeOK
  <2> QED
    BY <2>1, NuloDistinto DEF EnvioFeito
<1> QED
  BY <1>1, <1>2, <1>3, <1>4

(* A step that leaves every request with its answer, what it sends and how *)
(* far it got; those that still have the object shown are among those that *)
(* had it.                                                                 *)
MesmosEnvios ==
  /\ envios' \in [Envio -> EnvioFeito \cup {Nulo}]
  /\ \A n \in Envio :
       /\ envios'[n] = Nulo <=> envios[n] = Nulo
       /\ envios[n] # Nulo =>
            /\ envios'[n].chat = envios[n].chat /\ envios'[n].resposta = envios[n].resposta
            /\ envios'[n].reacao = envios[n].reacao /\ envios'[n].gravado = envios[n].gravado
            /\ envios'[n].atual => envios[n].atual

LEMMA MesmosEnviosDe ==
  ASSUME MesmosEnvios
  PROVE  /\ \A c, k : EnvioDe(c, k)' = EnvioDe(c, k) /\ (Intocada(c, k)' <=> Intocada(c, k))
         /\ \A n \in Envio : Instancia(n)' => Instancia(n)
<1>1. ASSUME NEW c, NEW k PROVE EnvioDe(c, k)' = EnvioDe(c, k)
  BY DEF MesmosEnvios, EnvioDe
<1>2. ASSUME NEW c, NEW k PROVE Intocada(c, k)' <=> Intocada(c, k)
  BY DEF MesmosEnvios, Intocada
<1>3. \A n \in Envio : Instancia(n)' => Instancia(n)
  BY DEF MesmosEnvios, Instancia
<1> QED
  BY <1>1, <1>2, <1>3

(* What a step that leaves the requests so must show of the screen.        *)
LEMMA MesmasReacoesDe ==
  ASSUME MesmosEnvios, NEW c, tela'.chat = c,
         ~desencontro' /\ c # Nulo =>
           /\ \A k \in DOMAIN tela'.vistas \cap DOMAIN gravadas'[c] :
                Intocada(c, k) => tela'.vistas[k] = gravadas'[c][k]
           /\ recebendo' = Nulo \/ recebendo'.chat # c => Len(tela'.vistas) = Len(gravadas'[c])
  PROVE  MesmasReacoes'
<1>1. \A k : Intocada(c, k)' => Intocada(c, k)
  BY MesmosEnviosDe
<1>2. \A k : (\A n \in Envio : envios'[n] # Nulo /\ envios'[n].chat = c /\ envios'[n].resposta = k
                                 => ~envios'[n].gravado) => Intocada(c, k)
  BY <1>1 DEF Intocada
<1> QED
  BY <1>2 DEF MesmasReacoes, NaTelaDe, Intocada

LEMMA PoeNaTelaTipo ==
  ASSUME ReacoesInv, NEW t \in TelaPossivel, NEW b \in BOOLEAN, PoeNaTela(t, envios, b)
  PROVE  /\ tela' = t
         /\ ultimoMostrado' \in ChatVisto \cup {Nulo}
         /\ t.chat # Nulo => ultimoMostrado' = t.chat
         /\ DOMAIN dialogos' \subseteq Visiveis(t)
         /\ \A k \in DOMAIN dialogos' : dialogos'[k] \in DialogoPossivel
         /\ MesmosEnvios
         /\ b => \A n \in Envio : ~Instancia(n)'
<1>1. tela' = t /\ ultimoMostrado' = IF t.chat = Nulo THEN ultimoMostrado ELSE t.chat
  BY DEF PoeNaTela
<1>2. ultimoMostrado' \in ChatVisto \cup {Nulo}
  BY <1>1 DEF ReacoesInv, ReacoesTypeOK, TelaPossivel
<1>3. /\ DOMAIN dialogos' \subseteq Visiveis(t)
      /\ \A k \in DOMAIN dialogos' : dialogos'[k] \in DialogoPossivel
  <2>1. CASE t.chat # tela.chat
    <3>1. dialogos' = <<>>
      BY <2>1 DEF PoeNaTela
    <3>2. DOMAIN dialogos' = {}
      BY <3>1
    <3> QED
      BY <3>2
  <2>2. CASE t.chat = tela.chat
    <3> DEFINE S == DOMAIN dialogos \cap Visiveis(t)
               f == Restrict(dialogos, S)
    <3>1. dialogos' = EsvaziaDialogos(f)
      BY <2>2 DEF PoeNaTela
    <3>2. DOMAIN f = S /\ \A k \in S : f[k] = dialogos[k]
      BY DEF Restrict
    <3>3. \A k \in S : f[k] \in DialogoPossivel
      BY <3>2 DEF ReacoesInv, ReacoesTypeOK
    <3>4. \A d \in DialogoPossivel : [d EXCEPT !.motivo = "vazio"] \in DialogoPossivel
      BY DEF DialogoPossivel
    <3>5. DOMAIN dialogos' = S /\ \A k \in S : dialogos'[k] = [f[k] EXCEPT !.motivo = "vazio"]
      BY <3>1, <3>2 DEF EsvaziaDialogos
    <3> HIDE DEF f
    <3> QED
      BY <3>3, <3>4, <3>5
  <2> QED
    BY <2>1, <2>2
<1>4. ASSUME NEW n \in Envio, envios[n] # Nulo
      PROVE  /\ envios'[n] \in EnvioFeito
             /\ envios'[n].chat = envios[n].chat /\ envios'[n].resposta = envios[n].resposta
             /\ envios'[n].reacao = envios[n].reacao /\ envios'[n].gravado = envios[n].gravado
             /\ envios'[n].atual = (envios[n].atual /\ ~b)
  <2> DEFINE e == envios[n]
             v == IF b /\ e.atual THEN tela.vistas ELSE e.vistas
             a == e.atual /\ ~b
             m == e.montada /\ Montada(t, e.chat, e.resposta)
  <2>1. envios'[n] = [e EXCEPT !.vistas = v, !.atual = a, !.montada = m]
    BY <1>4 DEF PoeNaTela
  <2>2. e \in EnvioFeito /\ v \in Respostas /\ a \in BOOLEAN
    BY <1>4, Tipos
  <2>3. m \in BOOLEAN
    BY <2>2 DEF EnvioFeito, Montada
  <2> HIDE DEF v, a, m
  <2>4. /\ envios'[n] \in EnvioFeito /\ envios'[n].atual = a
        /\ envios'[n].chat = e.chat /\ envios'[n].resposta = e.resposta
        /\ envios'[n].reacao = e.reacao /\ envios'[n].gravado = e.gravado
    BY <2>1, <2>2, <2>3 DEF EnvioFeito
  <2> QED
    BY <2>4 DEF a
<1>5. \A n \in Envio : envios[n] = Nulo => envios'[n] = Nulo
  BY DEF PoeNaTela
<1>6. envios' \in [Envio -> EnvioFeito \cup {Nulo}]
  <2>1. envios' = [n \in Envio |-> envios'[n]]
    BY DEF PoeNaTela
  <2> QED
    BY <1>4, <1>5, <2>1
<1>7. MesmosEnvios
  BY <1>4, <1>5, <1>6, NuloDistinto DEF MesmosEnvios
<1>8. b => \A n \in Envio : ~Instancia(n)'
  BY <1>4, <1>5 DEF Instancia
<1> QED
  BY <1>1, <1>2, <1>3, <1>7, <1>8

(* The turn loses its object, which keeps its messages.                    *)
LEMMA LargaTipo ==
  ASSUME ReacoesInv, recebendo' = Larga
  PROVE  /\ recebendo' \in Recebimento \cup {Nulo}
         /\ recebendo' = Nulo <=> recebendo = Nulo
         /\ recebendo # Nulo =>
              /\ recebendo'.chat = recebendo.chat /\ recebendo'.resposta = recebendo.resposta
              /\ recebendo'.gravada = recebendo.gravada
              /\ ~recebendo'.naTela /\ recebendo'.vistas = VistasDoTurno
<1>1. CASE recebendo = Nulo
  BY <1>1 DEF Larga
<1>2. CASE recebendo # Nulo /\ ~recebendo.naTela
  BY <1>2, Tipos DEF Larga, VistasDoTurno
<1>3. CASE recebendo # Nulo /\ recebendo.naTela
  <2>1. recebendo' = [recebendo EXCEPT !.naTela = FALSE, !.vistas = tela.vistas]
    BY <1>3 DEF Larga
  <2>2. recebendo \in Recebimento /\ tela.vistas \in Respostas
    BY <1>3, Tipos
  <2>3. recebendo' \in Recebimento
    BY <2>1, <2>2 DEF Recebimento
  <2>4. /\ recebendo'.chat = recebendo.chat /\ recebendo'.resposta = recebendo.resposta
        /\ recebendo'.gravada = recebendo.gravada
        /\ recebendo'.naTela = FALSE /\ recebendo'.vistas = tela.vistas
    BY <2>1, <2>2 DEF Recebimento
  <2> QED
    BY <1>3, <2>3, <2>4, NuloDistinto DEF VistasDoTurno
<1> QED
  BY <1>1, <1>2, <1>3, Tipos

LEMMA TelaDe ==
  /\ \A c \in ChatVisto \cup {Nulo}, v \in Respostas, x \in {"livre", "carregando", "fluxo"} :
       /\ Tela(c, v, x) \in TelaPossivel /\ Tela(c, v, x).chat = c
       /\ Tela(c, v, x).vistas = v /\ Tela(c, v, x).estado = x
  /\ Vazia \in TelaPossivel /\ Vazia.chat = Nulo /\ Vazia.vistas = <<>>
<1>1. \A c \in ChatVisto \cup {Nulo}, v \in Respostas, x \in {"livre", "carregando", "fluxo"} :
        /\ Tela(c, v, x) \in TelaPossivel /\ Tela(c, v, x).chat = c
        /\ Tela(c, v, x).vistas = v /\ Tela(c, v, x).estado = x
  BY DEF Tela, TelaPossivel
<1>2. <<>> \in Respostas
  BY DEF Respostas
<1> QED
  BY <1>1, <1>2 DEF Vazia

(* The screen gets another chat object.                                    *)
LEMMA RecebeChatPasso ==
  ASSUME ReacoesInv, NEW c \in ChatVisto, RecebeChat(c), passosDaTela' \in Nat
  PROVE  ReacoesInv'
<1> DEFINE t == Tela(c, gravadas[c], "livre")
<1>1. /\ PoeNaTela(t, envios, TRUE) /\ recebendo' = Larga
      /\ desencontro' = (recebendo # Nulo /\ recebendo.chat = c /\ ~TemIndice)
      /\ gravadas' = gravadas
  BY DEF RecebeChat
<1>2. t \in TelaPossivel /\ t.chat = c /\ t.vistas = gravadas[c] /\ c # Nulo
  BY Tipos, TelaDe, NuloDistinto
<1> HIDE DEF t
<1>3. /\ tela' = t /\ ultimoMostrado' = c
      /\ DOMAIN dialogos' \subseteq Visiveis(t)
      /\ \A k \in DOMAIN dialogos' : dialogos'[k] \in DialogoPossivel
      /\ MesmosEnvios /\ \A n \in Envio : ~Instancia(n)'
  BY <1>1, <1>2, PoeNaTelaTipo
<1>4. /\ recebendo' \in Recebimento \cup {Nulo} /\ (recebendo' = Nulo <=> recebendo = Nulo)
      /\ recebendo # Nulo =>
           /\ recebendo'.chat = recebendo.chat /\ recebendo'.resposta = recebendo.resposta
           /\ recebendo'.gravada = recebendo.gravada
           /\ ~recebendo'.naTela /\ recebendo'.vistas = VistasDoTurno
  BY <1>1, LargaTipo
<1>5. ReacoesTypeOK'
  BY <1>1, <1>2, <1>3, <1>4 DEF ReacoesInv, ReacoesTypeOK, MesmosEnvios, Visiveis
<1>6. Ligados' /\ Unicos'
  BY <1>2, <1>3, <1>4 DEF Ligados, Unicos
<1>7. TurnoNaTela'
  BY <1>1, <1>2, <1>3, <1>4 DEF TurnoNaTela, NaTelaDe, TemIndice
<1>8. MesmasReacoes'
  BY <1>1, <1>2, <1>3 DEF MesmasReacoes
<1> QED
  BY <1>5, <1>6, <1>7, <1>8 DEF ReacoesInv

LEMMA NovaTelaPasso ==
  ASSUME ReacoesInv, NovaTela, passosDaTela' \in Nat
  PROVE  ReacoesInv'
<1>1. /\ PoeNaTela(Vazia, envios, TRUE) /\ recebendo' = Larga
      /\ gravadas' = gravadas /\ desencontro' = desencontro
  BY DEF NovaTela
<1>2. Vazia \in TelaPossivel /\ Vazia.chat = Nulo
  BY TelaDe
<1>3. /\ tela' = Vazia /\ ultimoMostrado' \in ChatVisto \cup {Nulo}
      /\ DOMAIN dialogos' \subseteq Visiveis(Vazia)
      /\ \A k \in DOMAIN dialogos' : dialogos'[k] \in DialogoPossivel
      /\ MesmosEnvios /\ \A n \in Envio : ~Instancia(n)'
  BY <1>1, <1>2, PoeNaTelaTipo
<1>4. /\ recebendo' \in Recebimento \cup {Nulo} /\ (recebendo' = Nulo <=> recebendo = Nulo)
      /\ recebendo # Nulo => ~recebendo'.naTela
  BY <1>1, LargaTipo
<1>5. ReacoesTypeOK'
  BY <1>1, <1>2, <1>3, <1>4 DEF ReacoesInv, ReacoesTypeOK, MesmosEnvios, Visiveis, Vazia
<1>6. Ligados' /\ Unicos' /\ TurnoNaTela' /\ MesmasReacoes'
  BY <1>2, <1>3, <1>4 DEF Ligados, Unicos, TurnoNaTela, MesmasReacoes, Vazia
<1> QED
  BY <1>5, <1>6 DEF ReacoesInv

(* A turn.                                                                 *)
LEMMA PerguntaPasso ==
  ASSUME ReacoesInv, Pergunta, passosDaTela' \in Nat
  PROVE  ReacoesInv'
<1> DEFINE v == Append(tela.vistas, Nulo)
           t == Tela(tela.chat, v, "carregando")
           m == Len(tela.vistas)
<1>1. /\ tela.chat # Nulo /\ recebendo = Nulo /\ PoeNaTela(t, envios, TRUE)
      /\ recebendo' = [chat |-> tela.chat, resposta |-> m + 1, gravada |-> FALSE,
                       naTela |-> TRUE, vistas |-> <<>>]
      /\ gravadas' = gravadas /\ desencontro' = desencontro
  BY DEF Pergunta
<1>2. /\ m \in Nat /\ v \in Respostas /\ Len(v) = m + 1 /\ v[m + 1] = Nulo
      /\ \A k \in 1..m : v[k] = tela.vistas[k]
      /\ DOMAIN v = 1..(m + 1) /\ DOMAIN tela.vistas = 1..m
  <2>1. tela.vistas \in Respostas
    BY Tipos
  <2>2. m \in Nat /\ DOMAIN tela.vistas = 1..m
    BY <2>1, RespostasDe
  <2>3. /\ v \in Respostas /\ Len(v) = m + 1 /\ v[m + 1] = Nulo
        /\ \A k \in 1..m : v[k] = tela.vistas[k]
    BY <2>1, RespostasDe
  <2>4. DOMAIN v = 1..Len(v)
    BY <2>3, RespostasDe
  <2> QED
    BY <2>2, <2>3, <2>4
<1> HIDE DEF v, m
<1>3. t \in TelaPossivel /\ t.chat = tela.chat /\ t.vistas = v /\ tela.chat \in ChatVisto
  <2>1. tela.chat \in ChatVisto
    BY <1>1, Tipos
  <2> QED
    BY <1>2, <2>1, TelaDe
<1>4. <<>> \in Respostas
  BY DEF Respostas
<1>5. /\ recebendo' \in Recebimento /\ recebendo' # Nulo
      /\ recebendo'.chat = tela.chat /\ recebendo'.resposta = m + 1
      /\ recebendo'.gravada = FALSE /\ recebendo'.naTela = TRUE
  <2>1. m + 1 \in Nat \ {0}
    BY <1>2
  <2>2. recebendo' \in Recebimento
    BY <1>1, <1>3, <1>4, <2>1 DEF Recebimento
  <2> QED
    BY <1>1, <2>2, NuloDistinto
<1> HIDE DEF t
<1>6. /\ tela' = t /\ ultimoMostrado' = tela.chat
      /\ DOMAIN dialogos' \subseteq Visiveis(t)
      /\ \A k \in DOMAIN dialogos' : dialogos'[k] \in DialogoPossivel
      /\ MesmosEnvios /\ \A n \in Envio : ~Instancia(n)'
  BY <1>1, <1>3, PoeNaTelaTipo
<1>7. ReacoesTypeOK'
  BY <1>1, <1>3, <1>5, <1>6 DEF ReacoesInv, ReacoesTypeOK, MesmosEnvios, Visiveis
<1>8. Ligados' /\ Unicos'
  BY <1>1, <1>3, <1>5, <1>6 DEF Ligados, Unicos
<1>9. ~desencontro =>
        /\ Len(gravadas[tela.chat]) = m /\ DOMAIN gravadas[tela.chat] = 1..m
        /\ \A k \in 1..m : Intocada(tela.chat, k) => tela.vistas[k] = gravadas[tela.chat][k]
  <2>1. gravadas[tela.chat] \in Respostas
    BY <1>3, Tipos
  <2>2. DOMAIN gravadas[tela.chat] = 1..Len(gravadas[tela.chat])
    BY <2>1, RespostasDe
  <2> QED
    BY <1>1, <1>2, <2>2 DEF ReacoesInv, MesmasReacoes, NaTelaDe, m
<1>10. TurnoNaTela'
  BY <1>1, <1>2, <1>3, <1>5, <1>6, <1>9 DEF TurnoNaTela
<1>11. MesmasReacoes'
  <2>1. ASSUME ~desencontro, NEW k \in DOMAIN v \cap DOMAIN gravadas[tela.chat],
               Intocada(tela.chat, k)
        PROVE  v[k] = gravadas[tela.chat][k]
    BY <1>2, <1>9, <2>1
  <2> QED
    BY <1>1, <1>3, <1>5, <1>6, <2>1, MesmasReacoesDe
<1> QED
  BY <1>7, <1>8, <1>10, <1>11 DEF ReacoesInv

LEMMA EnviosIguais ==
  ASSUME ReacoesInv, envios' = envios
  PROVE  MesmosEnvios
BY DEF ReacoesInv, ReacoesTypeOK, MesmosEnvios

(* The chat shown, and the requests that have its object, stay.             *)
LEMMA MesmaTelaInv ==
  ASSUME ReacoesInv, MesmosEnvios, tela'.chat = tela.chat, tela.chat # Nulo,
         ultimoMostrado' = tela.chat, gravadas' = gravadas, desencontro' = desencontro,
         recebendo' = recebendo \/ recebendo' = Nulo
  PROVE  Ligados' /\ Unicos'
<1>1. ASSUME NEW n \in Envio, Instancia(n)'
      PROVE  Instancia(n) /\ envios'[n] # Nulo /\ envios'[n].chat = envios[n].chat
             /\ envios'[n].resposta = envios[n].resposta
             /\ envios'[n].gravado = envios[n].gravado /\ envios'[n].reacao = envios[n].reacao
  BY <1>1 DEF MesmosEnvios, Instancia
<1>2. Ligados'
  BY <1>1 DEF ReacoesInv, Ligados, Instancia
<1>3. \A m \in Envio : envios'[m] # Nulo =>
        /\ envios[m] # Nulo
        /\ envios'[m].chat = envios[m].chat /\ envios'[m].resposta = envios[m].resposta
  BY DEF MesmosEnvios
<1>4. Unicos'
  BY <1>1, <1>3 DEF ReacoesInv, Unicos
<1> QED
  BY <1>2, <1>4

LEMMA GravaRespostaPasso ==
  ASSUME ReacoesInv, GravaResposta, passosDaTela' \in Nat
  PROVE  ReacoesInv'
<1> DEFINE c == recebendo.chat
           g == Len(gravadas[c])
           v == Append(gravadas[c], Nulo)
<1>1. /\ recebendo # Nulo /\ ~recebendo.gravada
      /\ gravadas' = [gravadas EXCEPT ![c] = v]
      /\ recebendo' = [recebendo EXCEPT !.gravada = TRUE]
      /\ tela' = tela /\ ultimoMostrado' = ultimoMostrado /\ dialogos' = dialogos
      /\ envios' = envios /\ desencontro' = desencontro
  BY DEF GravaResposta
<1>2. recebendo \in Recebimento /\ c \in ChatVisto /\ c # Nulo /\ gravadas[c] \in Respostas
  BY <1>1, Tipos
<1>3. /\ recebendo' \in Recebimento
      /\ recebendo'.chat = c /\ recebendo'.resposta = recebendo.resposta
      /\ recebendo'.gravada = TRUE /\ recebendo'.naTela = recebendo.naTela
      /\ recebendo'.vistas = recebendo.vistas
  BY <1>1, <1>2 DEF Recebimento
<1>4. recebendo' # Nulo
  BY <1>3, NuloDistinto
<1>5. /\ g \in Nat /\ v \in Respostas /\ Len(v) = g + 1 /\ v[g + 1] = Nulo
      /\ \A k \in 1..g : v[k] = gravadas[c][k]
      /\ DOMAIN v = 1..(g + 1) /\ DOMAIN gravadas[c] = 1..g
  <2>1. g \in Nat /\ DOMAIN gravadas[c] = 1..g
    BY <1>2, RespostasDe
  <2>2. /\ v \in Respostas /\ Len(v) = g + 1 /\ v[g + 1] = Nulo
        /\ \A k \in 1..g : v[k] = gravadas[c][k]
    BY <1>2, RespostasDe
  <2>3. DOMAIN v = 1..Len(v)
    BY <2>2, RespostasDe
  <2> QED
    BY <2>1, <2>2, <2>3
<1> HIDE DEF v, g, c
<1>6. /\ gravadas' \in [ChatVisto -> Respostas] /\ gravadas'[c] = v
      /\ \A d \in ChatVisto \ {c} : gravadas'[d] = gravadas[d]
  BY <1>1, <1>2, <1>5 DEF ReacoesInv, ReacoesTypeOK
<1>7. ReacoesTypeOK'
  BY <1>1, <1>3, <1>6 DEF ReacoesInv, ReacoesTypeOK, Visiveis
<1>8. Ligados'
  BY <1>1, <1>3, <1>4 DEF ReacoesInv, Ligados, Instancia, c
<1>9. Unicos'
  <2>1. SUFFICES ASSUME ~desencontro, NEW n \in Envio, Instancia(n)
                 PROVE  envios[n].gravado =>
                          /\ envios[n].resposta \in DOMAIN gravadas'[envios[n].chat]
                          /\ gravadas'[envios[n].chat][envios[n].resposta] = envios[n].reacao
    BY <1>1 DEF ReacoesInv, Unicos, Instancia
  <2>2. envios[n].gravado =>
          /\ envios[n].resposta \in DOMAIN gravadas[envios[n].chat]
          /\ gravadas[envios[n].chat][envios[n].resposta] = envios[n].reacao
    BY <2>1 DEF ReacoesInv, Unicos
  <2>3. envios[n].chat \in ChatVisto
    BY <2>1, Tipos DEF Instancia
  <2>4. CASE envios[n].chat = c
    BY <1>5, <1>6, <2>2, <2>4
  <2>5. CASE envios[n].chat # c
    BY <1>6, <2>2, <2>3, <2>5
  <2> QED
    BY <2>4, <2>5
<1>10. ~desencontro /\ tela.chat = c =>
         IF recebendo.naTela
         THEN Len(tela.vistas) = g + 1 /\ tela.vistas[g + 1] = Nulo
         ELSE recebendo.resposta <= Len(recebendo.vistas) /\ Len(tela.vistas) = g
  <2>1. tela.vistas \in Respostas /\ Len(tela.vistas) \in Nat
    BY Tipos, RespostasDe
  <2> QED
    BY <1>1, <1>2, <1>5, <2>1 DEF ReacoesInv, TurnoNaTela, NaTelaDe, c, g
<1>11. recebendo.naTela => recebendo.resposta = Len(tela.vistas) \/ desencontro
  BY <1>1, <1>2 DEF ReacoesInv, Ligados, TurnoNaTela, NaTelaDe, c
<1>12. TurnoNaTela'
  BY <1>1, <1>2, <1>3, <1>5, <1>6, <1>10, <1>11 DEF TurnoNaTela, NaTelaDe
<1>13. MesmasReacoes'
  <2> DEFINE d == tela.chat
  <2>1. MesmosEnvios
    BY <1>1, EnviosIguais
  <2>2. ASSUME ~desencontro, d # Nulo, NEW k \in DOMAIN tela.vistas \cap DOMAIN gravadas'[d],
               Intocada(d, k)
        PROVE  tela.vistas[k] = gravadas'[d][k]
    <3>1. k \in DOMAIN gravadas[d] => tela.vistas[k] = gravadas[d][k]
      BY <2>2 DEF ReacoesInv, MesmasReacoes
    <3>2. CASE d = c
      <4>1. CASE k \in 1..g
        BY <1>5, <1>6, <3>1, <3>2, <4>1
      <4>2. CASE k = g + 1
        <5>1. recebendo.naTela
          <6>1. ~recebendo.naTela => Len(tela.vistas) = g
            BY <1>10, <2>2, <3>2
          <6>2. DOMAIN tela.vistas = 1..Len(tela.vistas)
            BY Tipos, RespostasDe
          <6>3. k \in DOMAIN tela.vistas
            BY <2>2
          <6> QED
            BY <1>5, <4>2, <6>1, <6>2, <6>3
        <5> QED
          BY <1>5, <1>6, <1>10, <2>2, <3>2, <4>2, <5>1
      <4>3. k \in 1..(g + 1)
        BY <1>5, <1>6, <2>2, <3>2
      <4> QED
        BY <1>5, <4>1, <4>2, <4>3
    <3>3. CASE d # c
      <4>1. gravadas'[d] = gravadas[d]
        BY <1>6, <2>2, <3>3, Tipos
      <4> QED
        BY <2>2, <3>1, <4>1
    <3> QED
      BY <3>2, <3>3
  <2>3. ASSUME ~desencontro, d # Nulo, recebendo' = Nulo \/ recebendo'.chat # d
        PROVE  Len(tela.vistas) = Len(gravadas'[d])
    <3>1. d # c /\ d \in ChatVisto
      BY <1>3, <1>4, <2>3, Tipos
    <3>2. gravadas'[d] = gravadas[d]
      BY <1>6, <3>1
    <3> QED
      BY <2>3, <3>1, <3>2 DEF ReacoesInv, MesmasReacoes, NaTelaDe, c
  <2> HIDE DEF d
  <2>4. tela'.chat = d
    BY <1>1 DEF d
  <2> QED
    BY <1>1, <2>1, <2>2, <2>3, <2>4, MesmasReacoesDe
<1> QED
  BY <1>7, <1>8, <1>9, <1>12, <1>13 DEF ReacoesInv

LEMMA PrimeiroPedacoPasso ==
  ASSUME ReacoesInv, PrimeiroPedaco, passosDaTela' \in Nat
  PROVE  ReacoesInv'
<1> DEFINE t == [tela EXCEPT !.estado = "fluxo"]
<1>1. /\ recebendo # Nulo /\ recebendo.naTela /\ PoeNaTela(t, envios, FALSE)
      /\ gravadas' = gravadas /\ recebendo' = recebendo /\ desencontro' = desencontro
  BY DEF PrimeiroPedaco
<1>2. t \in TelaPossivel /\ t.chat = tela.chat /\ t.vistas = tela.vistas
  BY Tipos DEF TelaPossivel
<1>3. tela.chat # Nulo
  BY <1>1, Tipos DEF ReacoesInv, Ligados
<1> HIDE DEF t
<1>4. /\ tela' = t /\ ultimoMostrado' = tela.chat
      /\ DOMAIN dialogos' \subseteq Visiveis(t)
      /\ \A k \in DOMAIN dialogos' : dialogos'[k] \in DialogoPossivel
      /\ MesmosEnvios
  BY <1>1, <1>2, <1>3, PoeNaTelaTipo
<1>5. ReacoesTypeOK'
  BY <1>1, <1>2, <1>3, <1>4, Tipos DEF ReacoesInv, ReacoesTypeOK, MesmosEnvios, Visiveis
<1>6. Ligados' /\ Unicos'
  BY <1>1, <1>2, <1>3, <1>4, MesmaTelaInv
<1>7. TurnoNaTela'
  BY <1>1, <1>2, <1>3, <1>4 DEF ReacoesInv, TurnoNaTela, NaTelaDe
<1>8. MesmasReacoes'
  BY <1>1, <1>2, <1>3, <1>4, MesmasReacoesDe DEF ReacoesInv, MesmasReacoes, NaTelaDe
<1> QED
  BY <1>5, <1>6, <1>7, <1>8 DEF ReacoesInv

(* The turn ends and leaves the screen: what its chat had is what there is. *)
LEMMA SoLargaTurno ==
  ASSUME ReacoesInv, recebendo # Nulo, recebendo' = Nulo, passosDaTela' \in Nat,
         UNCHANGED <<gravadas, tela, ultimoMostrado, dialogos, envios, desencontro>>,
         ~desencontro /\ tela.chat = recebendo.chat => Len(tela.vistas) = Len(gravadas[tela.chat])
  PROVE  ReacoesInv'
<1>1. ReacoesTypeOK'
  BY DEF ReacoesInv, ReacoesTypeOK, Visiveis
<1>2. Ligados' /\ Unicos' /\ TurnoNaTela'
  BY DEF ReacoesInv, Ligados, Unicos, TurnoNaTela, NaTelaDe, Instancia, EnvioDe
<1>3. MesmasReacoes'
  <2>1. MesmosEnvios
    BY EnviosIguais
  <2> DEFINE c == tela.chat
  <2>2. ~desencontro /\ c # Nulo =>
          /\ \A k \in DOMAIN tela.vistas \cap DOMAIN gravadas[c] :
               Intocada(c, k) => tela.vistas[k] = gravadas[c][k]
          /\ Len(tela.vistas) = Len(gravadas[c])
    BY DEF ReacoesInv, MesmasReacoes, NaTelaDe
  <2> HIDE DEF c
  <2>3. tela'.chat = c
    BY DEF c
  <2> QED
    BY <2>1, <2>2, <2>3, MesmasReacoesDe
<1> QED
  BY <1>1, <1>2, <1>3 DEF ReacoesInv

LEMMA PerdeMensagemPasso ==
  ASSUME ReacoesInv, PerdeMensagem, passosDaTela' \in Nat
  PROVE  ReacoesInv'
<1>1. /\ recebendo # Nulo /\ ~TemIndice /\ recebendo' = Nulo
      /\ UNCHANGED <<gravadas, tela, ultimoMostrado, dialogos, envios, desencontro>>
  BY DEF PerdeMensagem
<1>2. ~(~desencontro /\ tela.chat = recebendo.chat)
  <2>1. recebendo.resposta \in Nat /\ recebendo.chat # Nulo /\ recebendo.naTela \in BOOLEAN
    BY <1>1, Tipos
  <2>2. ~(recebendo.resposta <= Len(VistasDoTurno))
    BY <1>1 DEF TemIndice
  <2> QED
    BY <1>1, <2>1, <2>2 DEF ReacoesInv, TurnoNaTela, NaTelaDe, VistasDoTurno
<1> QED
  BY <1>1, <1>2, SoLargaTurno

LEMMA DevolveVistasPasso ==
  ASSUME ReacoesInv, NEW v \in Respostas, recebendo # Nulo, DevolveVistas(v),
         ~desencontro /\ recebendo.naTela =>
           /\ Len(v) = Len(gravadas[recebendo.chat])
           /\ \A k \in DOMAIN v \cap DOMAIN gravadas[recebendo.chat] :
                Intocada(recebendo.chat, k) => v[k] = gravadas[recebendo.chat][k],
         passosDaTela' \in Nat
  PROVE  ReacoesInv'
<1> DEFINE c == recebendo.chat
           t == Tela(c, v, "livre")
<1>1. c \in ChatVisto /\ c # Nulo /\ recebendo.naTela \in BOOLEAN
  BY Tipos
<1>2. recebendo' = Nulo /\ gravadas' = gravadas
  BY DEF DevolveVistas
<1>3. CASE ultimoMostrado = c
  <2>1. PoeNaTela(t, envios, TRUE) /\ desencontro' = (desencontro \/ ~recebendo.naTela)
    BY <1>3 DEF DevolveVistas
  <2>2. t \in TelaPossivel /\ t.chat = c /\ t.vistas = v
    BY <1>1, TelaDe
  <2>3. ~desencontro' =>
          /\ Len(v) = Len(gravadas[c])
          /\ \A k \in DOMAIN v \cap DOMAIN gravadas[c] : Intocada(c, k) => v[k] = gravadas[c][k]
    BY <2>1
  <2> HIDE DEF t, c
  <2>4. /\ tela' = t /\ ultimoMostrado' = c
        /\ DOMAIN dialogos' \subseteq Visiveis(t)
        /\ \A k \in DOMAIN dialogos' : dialogos'[k] \in DialogoPossivel
        /\ MesmosEnvios /\ \A n \in Envio : ~Instancia(n)'
    BY <1>1, <2>1, <2>2, PoeNaTelaTipo
  <2>5. ReacoesTypeOK'
    BY <1>1, <1>2, <2>1, <2>2, <2>4 DEF ReacoesInv, ReacoesTypeOK, MesmosEnvios, Visiveis
  <2>6. Ligados' /\ Unicos' /\ TurnoNaTela'
    BY <1>1, <1>2, <2>2, <2>4 DEF Ligados, Unicos, TurnoNaTela, NaTelaDe
  <2>7. MesmasReacoes'
    BY <1>2, <2>2, <2>3, <2>4, MesmasReacoesDe
  <2> QED
    BY <2>5, <2>6, <2>7 DEF ReacoesInv
<1>4. CASE ultimoMostrado # c
  <2>1. UNCHANGED <<tela, ultimoMostrado, dialogos, envios, desencontro>>
    BY <1>4 DEF DevolveVistas
  <2>2. tela.chat # c
    BY <1>1, <1>4 DEF ReacoesInv, Ligados
  <2> QED
    BY <1>2, <2>1, <2>2, SoLargaTurno
<1> QED
  BY <1>3, <1>4

LEMMA TerminaRespostaPasso ==
  ASSUME ReacoesInv, TerminaResposta, passosDaTela' \in Nat
  PROVE  ReacoesInv'
<1>1. recebendo # Nulo /\ recebendo.gravada /\ DevolveVistas(VistasDoTurno)
  BY DEF TerminaResposta
<1>2. VistasDoTurno \in Respostas /\ recebendo.chat # Nulo
  BY <1>1, Tipos
<1>3. ~desencontro /\ recebendo.naTela =>
        /\ Len(VistasDoTurno) = Len(gravadas[recebendo.chat])
        /\ \A k \in DOMAIN VistasDoTurno \cap DOMAIN gravadas[recebendo.chat] :
             Intocada(recebendo.chat, k) => VistasDoTurno[k] = gravadas[recebendo.chat][k]
  <2>1. SUFFICES ASSUME ~desencontro, recebendo.naTela
                 PROVE  /\ Len(tela.vistas) = Len(gravadas[tela.chat])
                        /\ \A k \in DOMAIN tela.vistas \cap DOMAIN gravadas[tela.chat] :
                             Intocada(tela.chat, k) => tela.vistas[k] = gravadas[tela.chat][k]
    BY <1>1 DEF ReacoesInv, Ligados, VistasDoTurno
  <2>2. recebendo.chat = tela.chat
    BY <1>1, <2>1 DEF ReacoesInv, Ligados
  <2> QED
    BY <1>1, <1>2, <2>1, <2>2 DEF ReacoesInv, TurnoNaTela, MesmasReacoes, NaTelaDe
<1> QED
  BY <1>1, <1>2, <1>3, DevolveVistasPasso

(* A turn the server did not store takes its message from the screen.       *)
LEMMA SpliceDoTurno ==
  ASSUME ReacoesInv, recebendo # Nulo, ~recebendo.gravada
  PROVE  /\ \A v \in Respostas : Splice(v) \in Respostas
         /\ ~desencontro /\ recebendo.naTela =>
              /\ Len(Splice(tela.vistas)) = Len(gravadas[tela.chat])
              /\ \A k \in DOMAIN Splice(tela.vistas) \cap DOMAIN gravadas[tela.chat] :
                   Intocada(tela.chat, k) => Splice(tela.vistas)[k] = gravadas[tela.chat][k]
<1>1. ASSUME NEW v \in Respostas PROVE Splice(v) \in Respostas
  BY RespostasDe DEF Splice
<1>2. ASSUME ~desencontro, recebendo.naTela
      PROVE  /\ Len(Splice(tela.vistas)) = Len(gravadas[tela.chat])
             /\ \A k \in DOMAIN Splice(tela.vistas) \cap DOMAIN gravadas[tela.chat] :
                  Intocada(tela.chat, k) => Splice(tela.vistas)[k] = gravadas[tela.chat][k]
  <2> DEFINE v == tela.vistas
             m == Len(v)
             w == SubSeq(v, 1, m - 1)
  <2>1. recebendo.chat = tela.chat /\ tela.chat # Nulo /\ recebendo.resposta \in Nat \ {0}
    BY <1>2, Tipos DEF ReacoesInv, Ligados
  <2>2. m = recebendo.resposta /\ Len(gravadas[tela.chat]) = m - 1
    BY <1>2, <2>1 DEF ReacoesInv, TurnoNaTela, NaTelaDe
  <2>3. DOMAIN v = 1..m /\ v \in Respostas
    BY Tipos, RespostasDe
  <2>4. recebendo.resposta \in DOMAIN v
    BY <2>1, <2>2, <2>3
  <2>5. Splice(v) = w
    BY <2>2, <2>4 DEF Splice
  <2>6. w \in Respostas /\ Len(w) = m - 1 /\ \A j \in 1..(m - 1) : w[j] = v[j]
    BY <2>3, <2>4, <2>2, RespostasDe
  <2> HIDE DEF w
  <2>7. DOMAIN w = 1..(m - 1)
    BY <2>6, RespostasDe
  <2>8. ASSUME NEW k \in DOMAIN w \cap DOMAIN gravadas[tela.chat], Intocada(tela.chat, k)
        PROVE  w[k] = gravadas[tela.chat][k]
    <3>1. k \in DOMAIN v /\ w[k] = v[k]
      BY <2>2, <2>1, <2>3, <2>6, <2>7
    <3> QED
      BY <1>2, <2>1, <2>8, <3>1 DEF ReacoesInv, MesmasReacoes
  <2> QED
    BY <2>2, <2>5, <2>6, <2>8
<1> QED
  BY <1>1, <1>2

LEMMA RespostaRecusadaPasso ==
  ASSUME ReacoesInv, RespostaRecusada, passosDaTela' \in Nat
  PROVE  ReacoesInv'
<1>1. recebendo # Nulo /\ ~recebendo.gravada /\ DevolveVistas(Splice(VistasDoTurno))
  BY DEF RespostaRecusada
<1>2. Splice(VistasDoTurno) \in Respostas
  BY <1>1, Tipos, SpliceDoTurno
<1>3. recebendo.naTela => VistasDoTurno = tela.vistas /\ recebendo.chat = tela.chat
  BY <1>1 DEF VistasDoTurno, ReacoesInv, Ligados
<1>4. ~desencontro /\ recebendo.naTela =>
        /\ Len(Splice(VistasDoTurno)) = Len(gravadas[recebendo.chat])
        /\ \A k \in DOMAIN Splice(VistasDoTurno) \cap DOMAIN gravadas[recebendo.chat] :
             Intocada(recebendo.chat, k)
               => Splice(VistasDoTurno)[k] = gravadas[recebendo.chat][k]
  BY <1>1, <1>3, SpliceDoTurno
<1> QED
  BY <1>1, <1>2, <1>4, DevolveVistasPasso

LEMMA ErroNoFluxoPasso ==
  ASSUME ReacoesInv, ErroNoFluxo, passosDaTela' \in Nat
  PROVE  ReacoesInv'
<1>1. /\ recebendo # Nulo /\ ~recebendo.gravada /\ recebendo' = Nulo
      /\ gravadas' = gravadas /\ desencontro' = desencontro
  BY DEF ErroNoFluxo
<1>2. CASE recebendo.naTela
  <2> DEFINE t == [tela EXCEPT !.vistas = Splice(tela.vistas)]
  <2>1. PoeNaTela(t, envios, FALSE)
    BY <1>2 DEF ErroNoFluxo
  <2>2. Splice(tela.vistas) \in Respostas
    BY <1>1, Tipos, SpliceDoTurno
  <2>3. t \in TelaPossivel /\ t.chat = tela.chat /\ t.vistas = Splice(tela.vistas)
    BY <2>2, Tipos DEF TelaPossivel
  <2>4. tela.chat # Nulo
    BY <1>1, <1>2, Tipos DEF ReacoesInv, Ligados
  <2> HIDE DEF t
  <2>5. /\ tela' = t /\ ultimoMostrado' = tela.chat
        /\ DOMAIN dialogos' \subseteq Visiveis(t)
        /\ \A k \in DOMAIN dialogos' : dialogos'[k] \in DialogoPossivel
        /\ MesmosEnvios
    BY <2>1, <2>3, <2>4, PoeNaTelaTipo
  <2>6. ReacoesTypeOK'
    BY <1>1, <2>3, <2>4, <2>5, Tipos DEF ReacoesInv, ReacoesTypeOK, MesmosEnvios, Visiveis
  <2>7. Ligados' /\ Unicos'
    BY <1>1, <2>3, <2>4, <2>5, MesmaTelaInv
  <2>8. TurnoNaTela'
    BY <1>1 DEF TurnoNaTela, NaTelaDe
  <2>9. MesmasReacoes'
    BY <1>1, <1>2, <2>3, <2>5, SpliceDoTurno, MesmasReacoesDe
  <2> QED
    BY <2>6, <2>7, <2>8, <2>9 DEF ReacoesInv
<1>3. CASE ~recebendo.naTela
  <2>1. UNCHANGED <<tela, ultimoMostrado, dialogos, envios>>
    BY <1>3 DEF ErroNoFluxo
  <2>2. ~desencontro /\ tela.chat = recebendo.chat => Len(tela.vistas) = Len(gravadas[tela.chat])
    BY <1>1, <1>3, Tipos DEF ReacoesInv, TurnoNaTela, NaTelaDe
  <2> QED
    BY <1>1, <2>1, <2>2, SoLargaTurno
<1> QED
  BY <1>2, <1>3

(* Dialogs.                                                                *)
LEMMA SoDialogos ==
  ASSUME ReacoesInv, passosDaTela' \in Nat,
         UNCHANGED <<gravadas, tela, ultimoMostrado, recebendo, envios, desencontro>>,
         DOMAIN dialogos' \subseteq Visiveis(tela),
         \A k \in DOMAIN dialogos' : dialogos'[k] \in DialogoPossivel
  PROVE  ReacoesInv'
<1>1. ReacoesTypeOK'
  BY DEF ReacoesInv, ReacoesTypeOK, Visiveis
<1>2. Ligados' /\ Unicos' /\ TurnoNaTela' /\ MesmasReacoes'
  BY DEF ReacoesInv, Ligados, Unicos, TurnoNaTela, MesmasReacoes, NaTelaDe, Instancia, Intocada
<1> QED
  BY <1>1, <1>2 DEF ReacoesInv

LEMMA SetDialogoPasso ==
  ASSUME ReacoesInv, passosDaTela' \in Nat, NEW k \in Visiveis(tela), NEW d \in DialogoPossivel,
         SetDialogo(k, d)
  PROVE  ReacoesInv'
<1>1. /\ dialogos' = [j \in DOMAIN dialogos \cup {k} |-> IF j = k THEN d ELSE dialogos[j]]
      /\ UNCHANGED <<gravadas, tela, ultimoMostrado, recebendo, envios, desencontro>>
  BY DEF SetDialogo
<1>2. /\ DOMAIN dialogos' \subseteq Visiveis(tela)
      /\ \A j \in DOMAIN dialogos' : dialogos'[j] \in DialogoPossivel
  BY <1>1 DEF ReacoesInv, ReacoesTypeOK
<1> QED
  BY <1>1, <1>2, SoDialogos

LEMMA DialogosPasso ==
  ASSUME ReacoesInv, passosDaTela' \in Nat, NEW k,
         \/ \E r \in Reacao : HandleOpenFeedbackDialog(k, r)
         \/ HandleCancel(k) \/ HandleReasonSelect(k) \/ HandleTextChange(k)
  PROVE  ReacoesInv'
<1>1. ASSUME NEW r \in Reacao, HandleOpenFeedbackDialog(k, r) PROVE ReacoesInv'
  <2>1. k \in Visiveis(tela) /\ SetDialogo(k, [reacao |-> r, motivo |-> "vazio"])
    BY <1>1 DEF HandleOpenFeedbackDialog
  <2>2. [reacao |-> r, motivo |-> "vazio"] \in DialogoPossivel
    BY <1>1 DEF DialogoPossivel
  <2> QED
    BY <2>1, <2>2, SetDialogoPasso
<1>2. ASSUME HandleCancel(k) PROVE ReacoesInv'
  <2> DEFINE S == DOMAIN dialogos \ {k}
             f == Restrict(dialogos, S)
  <2>1. /\ dialogos' = f
        /\ UNCHANGED <<gravadas, tela, ultimoMostrado, recebendo, envios, desencontro>>
    BY <1>2 DEF HandleCancel
  <2>2. DOMAIN f = S /\ \A j \in S : f[j] = dialogos[j]
    BY DEF Restrict
  <2> HIDE DEF f
  <2>3. /\ DOMAIN dialogos' \subseteq Visiveis(tela)
        /\ \A j \in DOMAIN dialogos' : dialogos'[j] \in DialogoPossivel
    BY <2>1, <2>2 DEF ReacoesInv, ReacoesTypeOK
  <2> QED
    BY <2>1, <2>3, SoDialogos
<1>3. ASSUME k \in DOMAIN dialogos, NEW x \in {"vazio", "razao", "comentario"},
             SetDialogo(k, [dialogos[k] EXCEPT !.motivo = x])
      PROVE  ReacoesInv'
  <2>1. k \in Visiveis(tela) /\ dialogos[k] \in DialogoPossivel
    BY <1>3 DEF ReacoesInv, ReacoesTypeOK
  <2>2. [dialogos[k] EXCEPT !.motivo = x] \in DialogoPossivel
    BY <2>1 DEF DialogoPossivel
  <2> QED
    BY <1>3, <2>1, <2>2, SetDialogoPasso
<1>4. ASSUME HandleReasonSelect(k) PROVE ReacoesInv'
  BY <1>3, <1>4 DEF HandleReasonSelect
<1>5. ASSUME HandleTextChange(k) PROVE ReacoesInv'
  BY <1>3, <1>5 DEF HandleTextChange
<1> QED
  BY <1>1, <1>2, <1>4, <1>5

(* Requests.                                                               *)
LEMMA SendFeedbackPasso ==
  ASSUME ReacoesInv, passosDaTela' \in Nat, NEW k, NEW n \in Envio, HandleSendFeedback(k, n)
  PROVE  ReacoesInv'
<1> DEFINE c == tela.chat
           e == [chat |-> c, resposta |-> k, reacao |-> dialogos[k].reacao,
                 gravado |-> FALSE, atual |-> TRUE, vistas |-> <<>>, montada |-> TRUE]
<1>1. /\ k \in DOMAIN dialogos /\ envios[n] = Nulo /\ envios' = [envios EXCEPT ![n] = e]
      /\ desencontro' = (desencontro \/ EnvioDe(c, k) # {})
      /\ UNCHANGED <<gravadas, tela, ultimoMostrado, recebendo, dialogos>>
  BY DEF HandleSendFeedback
<1>2. k \in DOMAIN tela.vistas /\ dialogos[k] \in DialogoPossivel
  BY <1>1 DEF ReacoesInv, ReacoesTypeOK, Visiveis
<1>3. k \in Nat \ {0}
  BY <1>2, Tipos, RespostasDe
<1>4. c \in ChatVisto /\ c # Nulo
  <2>1. DOMAIN Vazia.vistas = {}
    BY TelaDe
  <2> QED
    BY <1>2, <2>1, Tipos DEF ReacoesInv, Ligados
<1>5. dialogos[k].reacao \in Reacao /\ <<>> \in Respostas
  BY <1>2 DEF DialogoPossivel, Respostas
<1> HIDE DEF c
<1>6. e \in EnvioFeito
  BY <1>3, <1>4, <1>5 DEF EnvioFeito
<1>7. /\ e # Nulo /\ e.chat = c /\ e.resposta = k /\ e.gravado = FALSE
  BY <1>6, NuloDistinto
<1> HIDE DEF e
<1>8. /\ envios' \in [Envio -> EnvioFeito \cup {Nulo}]
      /\ envios'[n] = e /\ \A m \in Envio \ {n} : envios'[m] = envios[m]
  BY <1>1, <1>6 DEF ReacoesInv, ReacoesTypeOK
<1>9. ReacoesTypeOK'
  BY <1>1, <1>8 DEF ReacoesInv, ReacoesTypeOK, Visiveis
<1>10. Ligados'
  BY <1>1, <1>7, <1>8 DEF ReacoesInv, Ligados, Instancia, c
<1>11. ~desencontro' => ~desencontro /\ \A m \in Envio :
          ~(envios[m] # Nulo /\ envios[m].chat = c /\ envios[m].resposta = k)
  BY <1>1 DEF EnvioDe
<1>12. Unicos'
  BY <1>1, <1>7, <1>8, <1>11 DEF ReacoesInv, Unicos, Instancia
<1>13. TurnoNaTela'
  BY <1>1, <1>11 DEF ReacoesInv, TurnoNaTela, NaTelaDe
<1>14. MesmasReacoes'
  BY <1>1, <1>8, <1>11 DEF ReacoesInv, MesmasReacoes, NaTelaDe, Intocada
<1> QED
  BY <1>9, <1>10, <1>12, <1>13, <1>14 DEF ReacoesInv

(* The server stores the reaction.                                         *)
LEMMA AdicionarFeedbackPasso ==
  ASSUME ReacoesInv, passosDaTela' \in Nat, NEW n \in Envio, AdicionarFeedback(n)
  PROVE  ReacoesInv'
<1> DEFINE e == envios[n]
           c == e.chat
           k == e.resposta
           tem == k <= Len(gravadas[c])
           w == [gravadas[c] EXCEPT ![k] = e.reacao]
<1>1. /\ e # Nulo /\ ~e.gravado
      /\ envios' = [envios EXCEPT ![n] = [e EXCEPT !.gravado = TRUE]]
      /\ desencontro' = (desencontro \/ ~tem)
      /\ UNCHANGED <<tela, ultimoMostrado, recebendo, dialogos>>
      /\ ~tem => gravadas' = gravadas
      /\ tem => gravadas' = [gravadas EXCEPT ![c] = w]
  BY DEF AdicionarFeedback
<1>2. e \in EnvioFeito /\ c \in ChatVisto /\ k \in Nat \ {0} /\ e.reacao \in Reacao
      /\ gravadas[c] \in Respostas
  BY <1>1, Tipos
<1>3. [e EXCEPT !.gravado = TRUE] \in EnvioFeito
  BY <1>2 DEF EnvioFeito
<1>4. /\ envios' \in [Envio -> EnvioFeito \cup {Nulo}]
      /\ envios'[n] = [e EXCEPT !.gravado = TRUE] /\ \A m \in Envio \ {n} : envios'[m] = envios[m]
  BY <1>1, <1>3 DEF ReacoesInv, ReacoesTypeOK
<1>5. /\ envios'[n] # Nulo /\ envios'[n].chat = c /\ envios'[n].resposta = k
      /\ envios'[n].reacao = e.reacao /\ envios'[n].gravado = TRUE
      /\ envios'[n].atual = e.atual
  BY <1>2, <1>3, <1>4, NuloDistinto DEF EnvioFeito
<1>6. Len(gravadas[c]) \in Nat /\ DOMAIN gravadas[c] = 1..Len(gravadas[c])
  BY <1>2, RespostasDe
<1>7. ASSUME tem
      PROVE  /\ k \in DOMAIN gravadas[c]
             /\ w \in Respostas /\ Len(w) = Len(gravadas[c]) /\ w[k] = e.reacao
             /\ \A j \in DOMAIN gravadas[c] \ {k} : w[j] = gravadas[c][j]
             /\ DOMAIN w = DOMAIN gravadas[c]
  <2>1. k \in DOMAIN gravadas[c]
    BY <1>2, <1>6, <1>7
  <2>2. e.reacao \in Reacao \cup {Nulo}
    BY <1>2
  <2>3. /\ w \in Respostas /\ Len(w) = Len(gravadas[c]) /\ w[k] = e.reacao
        /\ \A j \in DOMAIN gravadas[c] \ {k} : w[j] = gravadas[c][j]
    BY <1>2, <2>1, <2>2, RespostasDe
  <2> QED
    BY <2>1, <2>3
<1> HIDE DEF w
<1>8. ASSUME tem
      PROVE  /\ gravadas' \in [ChatVisto -> Respostas] /\ gravadas'[c] = w
             /\ \A d \in ChatVisto \ {c} : gravadas'[d] = gravadas[d]
  BY <1>1, <1>2, <1>7, <1>8 DEF ReacoesInv, ReacoesTypeOK
<1>9. gravadas' \in [ChatVisto -> Respostas]
  BY <1>1, <1>8 DEF ReacoesInv, ReacoesTypeOK
<1>10. ReacoesTypeOK'
  BY <1>1, <1>4, <1>9 DEF ReacoesInv, ReacoesTypeOK, Visiveis
<1>11. Ligados'
  BY <1>1, <1>4, <1>5 DEF ReacoesInv, Ligados, Instancia
<1>12. ~desencontro' => ~desencontro /\ tem
  BY <1>1
<1>13. \A m \in Envio :
         /\ envios'[m] # Nulo <=> envios[m] # Nulo
         /\ envios[m] # Nulo =>
              /\ envios'[m].chat = envios[m].chat /\ envios'[m].resposta = envios[m].resposta
              /\ envios'[m].reacao = envios[m].reacao /\ envios'[m].atual = envios[m].atual
              /\ m # n => envios'[m].gravado = envios[m].gravado
  BY <1>1, <1>4, <1>5
<1> HIDE DEF c, k, tem
<1>14. Unicos'
  <2>1. SUFFICES ASSUME ~desencontro', NEW m \in Envio, Instancia(m)'
                 PROVE  /\ \A o \in Envio \ {m} :
                             ~(envios'[o] # Nulo /\ envios'[o].chat = envios'[m].chat
                               /\ envios'[o].resposta = envios'[m].resposta)
                        /\ envios'[m].gravado =>
                             /\ envios'[m].resposta \in DOMAIN gravadas'[envios'[m].chat]
                             /\ gravadas'[envios'[m].chat][envios'[m].resposta] = envios'[m].reacao
    BY DEF Unicos
  <2>2. Instancia(m) /\ envios[m].chat \in ChatVisto
    BY <1>13, <2>1, Tipos DEF Instancia
  <2>3. \A o \in Envio \ {m} : ~(envios[o] # Nulo /\ envios[o].chat = envios[m].chat
                                 /\ envios[o].resposta = envios[m].resposta)
    BY <1>12, <2>1, <2>2 DEF ReacoesInv, Unicos
  <2>4. CASE m = n
    BY <1>5, <1>7, <1>8, <1>12, <1>13, <2>1, <2>3, <2>4 DEF c, k
  <2>5. CASE m # n
    <3>1. envios[m].chat # c \/ envios[m].resposta # k
      BY <1>1, <2>3, <2>5 DEF c, k
    <3>2. envios[m].gravado =>
            /\ envios[m].resposta \in DOMAIN gravadas[envios[m].chat]
            /\ gravadas[envios[m].chat][envios[m].resposta] = envios[m].reacao
      BY <1>12, <2>1, <2>2 DEF ReacoesInv, Unicos
    <3>3. envios[m].gravado =>
            /\ envios[m].resposta \in DOMAIN gravadas'[envios[m].chat]
            /\ gravadas'[envios[m].chat][envios[m].resposta] = envios[m].reacao
      BY <1>7, <1>8, <1>12, <2>1, <2>2, <3>1, <3>2
    <3> QED
      BY <1>13, <2>2, <2>3, <2>5, <3>3 DEF Instancia
  <2> QED
    BY <2>4, <2>5
<1>15. ~desencontro' => \A d \in ChatVisto :
         /\ Len(gravadas'[d]) = Len(gravadas[d]) /\ DOMAIN gravadas'[d] = DOMAIN gravadas[d]
         /\ \A j \in DOMAIN gravadas[d] : d # c \/ j # k => gravadas'[d][j] = gravadas[d][j]
  BY <1>7, <1>8, <1>12
<1>16. TurnoNaTela'
  BY <1>1, <1>12, <1>15, Tipos DEF ReacoesInv, TurnoNaTela, NaTelaDe
<1>17. MesmasReacoes'
  <2>1. ASSUME ~desencontro', NEW d \in ChatVisto, d = tela.chat, d # Nulo,
               NEW j \in DOMAIN tela.vistas \cap DOMAIN gravadas'[d],
               \A m \in Envio : envios'[m] # Nulo /\ envios'[m].chat = d /\ envios'[m].resposta = j
                                  => ~envios'[m].gravado
        PROVE  tela.vistas[j] = gravadas'[d][j]
    <3>1. d # c \/ j # k
      BY <1>5, <2>1
    <3>2. Intocada(d, j)
      BY <1>1, <1>13, <2>1 DEF Intocada
    <3> QED
      BY <1>12, <1>15, <2>1, <3>1, <3>2 DEF ReacoesInv, MesmasReacoes
  <2>2. ~desencontro' /\ tela.chat # Nulo /\ (recebendo = Nulo \/ recebendo.chat # tela.chat) =>
          Len(tela.vistas) = Len(gravadas'[tela.chat])
    BY <1>12, <1>15, Tipos DEF ReacoesInv, MesmasReacoes, NaTelaDe
  <2> QED
    BY <1>1, <2>1, <2>2, Tipos DEF MesmasReacoes, NaTelaDe, Intocada
<1> QED
  BY <1>10, <1>11, <1>14, <1>16, <1>17 DEF ReacoesInv

(* A request is over: the others are as they were.                         *)
LEMMA OutrosEnvios ==
  ASSUME ReacoesInv, NEW n \in Envio, envios[n] # Nulo, envios'[n] = Nulo,
         \A m \in Envio \ {n} :
           /\ envios'[m] # Nulo <=> envios[m] # Nulo
           /\ envios[m] # Nulo =>
                /\ envios'[m].chat = envios[m].chat /\ envios'[m].resposta = envios[m].resposta
                /\ envios'[m].reacao = envios[m].reacao /\ envios'[m].gravado = envios[m].gravado
                /\ envios'[m].atual = envios[m].atual,
         tela'.chat = tela.chat, tela = Vazia => tela' = Vazia,
         UNCHANGED <<gravadas, ultimoMostrado, recebendo>>, ~desencontro' => ~desencontro
  PROVE  /\ Ligados' /\ Unicos'
         /\ \A c, k : Intocada(c, k)' =>
              \/ Intocada(c, k)
              \/ envios[n].chat = c /\ envios[n].resposta = k /\ envios[n].gravado
<1>1. \A m \in Envio : Instancia(m)' => m # n /\ Instancia(m)
  BY DEF Instancia
<1>2. Ligados'
  BY <1>1 DEF ReacoesInv, Ligados, Instancia
<1>3. Unicos'
  BY <1>1 DEF ReacoesInv, Unicos
<1>4. ASSUME NEW c, NEW k, Intocada(c, k)'
      PROVE  \/ Intocada(c, k)
             \/ envios[n].chat = c /\ envios[n].resposta = k /\ envios[n].gravado
  BY <1>4 DEF Intocada
<1> QED
  BY <1>2, <1>3, <1>4

LEMMA EnviadoPasso ==
  ASSUME ReacoesInv, passosDaTela' \in Nat, NEW n \in Envio, Enviado(n)
  PROVE  ReacoesInv'
<1> DEFINE e == envios[n]
           k == e.resposta
           antes == IF e.atual THEN tela.vistas ELSE e.vistas
           v == MensagensUpdated(antes, e)
           t == IF tela = Vazia THEN tela ELSE [tela EXCEPT !.vistas = v]
           fica == IF e.montada THEN DOMAIN dialogos \ {k} ELSE DOMAIN dialogos
           S == fica \cap Visiveis(t)
           es == [envios EXCEPT ![n] = Nulo]
<1>1. /\ e # Nulo /\ e.gravado /\ tela' = t /\ dialogos' = Restrict(dialogos, S)
      /\ envios' = [m \in Envio |->
           IF es[m] = Nulo THEN Nulo
           ELSE [es[m] EXCEPT !.montada = es[m].montada /\ Montada(t, es[m].chat, es[m].resposta)]]
      /\ desencontro' = (desencontro \/ ~e.atual)
      /\ UNCHANGED <<gravadas, ultimoMostrado, recebendo>>
  BY DEF Enviado
<1>2. e \in EnvioFeito /\ k \in Nat \ {0} /\ e.reacao \in Reacao /\ antes \in Respostas
      /\ e.atual \in BOOLEAN
  BY <1>1, Tipos
<1>3. /\ v \in Respostas
      /\ k \in DOMAIN antes =>
           /\ Len(v) = Len(antes) /\ v[k] = e.reacao
           /\ \A j \in DOMAIN antes \ {k} : v[j] = antes[j]
      /\ k \notin DOMAIN antes => v = antes
  <2>1. CASE k \in DOMAIN antes
    <3>1. v = [antes EXCEPT ![k] = e.reacao] /\ e.reacao \in Reacao \cup {Nulo}
      BY <1>2, <2>1 DEF MensagensUpdated
    <3> QED
      BY <1>2, <2>1, <3>1, RespostasDe
  <2>2. CASE k \notin DOMAIN antes
    BY <1>2, <2>2 DEF MensagensUpdated
  <2> QED
    BY <2>1, <2>2
<1>4. e.atual => antes = tela.vistas
  OBVIOUS
<1> HIDE DEF v, antes
<1>5. /\ t \in TelaPossivel /\ t.chat = tela.chat
      /\ tela = Vazia => t = Vazia
      /\ tela # Vazia => t.vistas = v
  BY <1>3, Tipos DEF TelaPossivel
<1> HIDE DEF t
<1>6. /\ DOMAIN dialogos' \subseteq Visiveis(t)
      /\ \A j \in DOMAIN dialogos' : dialogos'[j] \in DialogoPossivel
  <2>1. S \subseteq DOMAIN dialogos
    OBVIOUS
  <2>2. DOMAIN dialogos' = S /\ \A j \in S : dialogos'[j] = dialogos[j]
    BY <1>1, <2>1 DEF Restrict
  <2> QED
    BY <2>1, <2>2 DEF ReacoesInv, ReacoesTypeOK
<1>7. es[n] = Nulo /\ \A m \in Envio \ {n} : es[m] = envios[m]
  BY DEF ReacoesInv, ReacoesTypeOK
<1> HIDE DEF es, S
<1>8. envios'[n] = Nulo
  BY <1>1, <1>7
<1>9. ASSUME NEW m \in Envio \ {n}, envios[m] # Nulo
      PROVE  /\ envios'[m] \in EnvioFeito
             /\ envios'[m].chat = envios[m].chat /\ envios'[m].resposta = envios[m].resposta
             /\ envios'[m].reacao = envios[m].reacao /\ envios'[m].gravado = envios[m].gravado
             /\ envios'[m].atual = envios[m].atual
  <2> DEFINE o == envios[m]
             b == o.montada /\ Montada(t, o.chat, o.resposta)
  <2>1. envios'[m] = [o EXCEPT !.montada = b]
    BY <1>1, <1>7, <1>9
  <2>2. o \in EnvioFeito
    BY <1>9, Tipos
  <2>3. b \in BOOLEAN
    BY <2>2 DEF EnvioFeito, Montada
  <2> HIDE DEF b
  <2> QED
    BY <2>1, <2>2, <2>3 DEF EnvioFeito
<1>10. \A m \in Envio \ {n} : envios[m] = Nulo => envios'[m] = Nulo
  BY <1>1, <1>7
<1>11. envios' \in [Envio -> EnvioFeito \cup {Nulo}]
  <2>1. envios' = [m \in Envio |-> envios'[m]]
    BY <1>1
  <2> QED
    BY <1>8, <1>9, <1>10, <2>1
<1>12. ReacoesTypeOK'
  BY <1>1, <1>5, <1>6, <1>11 DEF ReacoesInv, ReacoesTypeOK, Visiveis
<1>13. /\ Ligados' /\ Unicos'
       /\ \A c, j : Intocada(c, j)' =>
            Intocada(c, j) \/ (e.chat = c /\ k = j /\ e.gravado)
  <2>1. \A m \in Envio \ {n} : envios[m] # Nulo => envios'[m] # Nulo
    BY <1>9, NuloDistinto
  <2>2. tela'.chat = tela.chat /\ (tela = Vazia => tela' = Vazia) /\ (~desencontro' => ~desencontro)
    BY <1>1, <1>5
  <2>3. \A m \in Envio \ {n} :
          /\ envios'[m] # Nulo <=> envios[m] # Nulo
          /\ envios[m] # Nulo =>
               /\ envios'[m].chat = envios[m].chat /\ envios'[m].resposta = envios[m].resposta
               /\ envios'[m].reacao = envios[m].reacao /\ envios'[m].gravado = envios[m].gravado
               /\ envios'[m].atual = envios[m].atual
    BY <1>9, <1>10, <2>1
  <2> QED
    BY <1>1, <1>8, <2>2, <2>3, OutrosEnvios
<1>14. ASSUME ~desencontro'
       PROVE  /\ ~desencontro /\ e.atual /\ antes = tela.vistas
              /\ e.chat = tela.chat /\ tela.chat # Nulo /\ tela # Vazia
              /\ k \in DOMAIN gravadas[tela.chat] /\ gravadas[tela.chat][k] = e.reacao
              /\ t.vistas = v
  <2>1. ~desencontro /\ e.atual /\ Instancia(n)
    BY <1>1, <1>14 DEF Instancia
  <2>2. e.chat = tela.chat /\ e.chat # Nulo
    BY <1>1, <2>1, Tipos DEF ReacoesInv, Ligados
  <2>3. tela # Vazia
    BY <2>2, TelaDe
  <2> QED
    BY <1>1, <1>4, <1>5, <2>1, <2>2, <2>3 DEF ReacoesInv, Unicos
<1>15. tela.vistas \in Respostas /\ DOMAIN tela.vistas = 1..Len(tela.vistas)
       /\ Len(tela.vistas) \in Nat
  BY Tipos, RespostasDe
<1>16. ASSUME ~desencontro'
       PROVE  /\ Len(v) = Len(tela.vistas) /\ DOMAIN v = DOMAIN tela.vistas
              /\ \A j \in DOMAIN v : v[j] = IF j = k THEN e.reacao ELSE tela.vistas[j]
  <2>1. antes = tela.vistas
    BY <1>14, <1>16
  <2>2. Len(v) = Len(tela.vistas)
    BY <1>3, <2>1
  <2>3. DOMAIN v = 1..Len(v)
    BY <1>3, RespostasDe
  <2> QED
    BY <1>3, <1>15, <2>1, <2>2, <2>3
<1> HIDE DEF e, k
<1>17. TurnoNaTela'
  <2>1. SUFFICES ASSUME ~desencontro', recebendo # Nulo, recebendo.chat = tela.chat
                 PROVE  LET m == Len(v)
                            g == Len(gravadas[tela.chat])
                        IN IF recebendo.naTela
                           THEN /\ m = recebendo.resposta
                                /\ g = IF recebendo.gravada THEN m ELSE m - 1
                                /\ ~recebendo.gravada => v[m] = Nulo
                           ELSE /\ recebendo.resposta <= Len(recebendo.vistas)
                                /\ ~recebendo.gravada => m = g
    BY <1>1, <1>5, <1>14 DEF TurnoNaTela, NaTelaDe
  <2> DEFINE m == Len(tela.vistas)
             g == Len(gravadas[tela.chat])
  <2>2. IF recebendo.naTela
        THEN /\ m = recebendo.resposta /\ g = IF recebendo.gravada THEN m ELSE m - 1
             /\ ~recebendo.gravada => tela.vistas[m] = Nulo
        ELSE /\ recebendo.resposta <= Len(recebendo.vistas)
             /\ ~recebendo.gravada => m = g
    BY <1>14, <2>1 DEF ReacoesInv, TurnoNaTela, NaTelaDe
  <2>3. tela.chat \in ChatVisto /\ recebendo.resposta \in Nat \ {0}
    BY <1>14, <2>1, Tipos
  <2>4. DOMAIN gravadas[tela.chat] = 1..g
    BY <2>3, Tipos, RespostasDe
  <2>5. k \in 1..g
    BY <1>14, <2>1, <2>4
  <2>6. ASSUME recebendo.naTela, ~recebendo.gravada
        PROVE  v[m] = Nulo
    <3>1. m \in DOMAIN v /\ m # k
      BY <1>15, <1>16, <2>1, <2>2, <2>3, <2>5, <2>6
    <3> QED
      BY <1>16, <2>1, <2>2, <2>6, <3>1
  <2> QED
    BY <1>16, <2>1, <2>2, <2>6
<1>18. MesmasReacoes'
  <2> PICK c : c = tela.chat
    OBVIOUS
  <2>1. \A j : Intocada(c, j)' => Intocada(c, j) \/ j = k
    BY <1>13
  <2>2. ASSUME ~desencontro', NEW j \in DOMAIN v \cap DOMAIN gravadas[c], Intocada(c, j) \/ j = k
        PROVE  v[j] = gravadas[c][j]
    BY <1>14, <1>16, <2>2 DEF ReacoesInv, MesmasReacoes
  <2>3. ASSUME ~desencontro', ~NaTelaDe(c)
        PROVE  Len(v) = Len(gravadas[c])
    BY <1>14, <1>16, <2>3 DEF ReacoesInv, MesmasReacoes
  <2> QED
    BY <1>1, <1>5, <1>14, <2>1, <2>2, <2>3 DEF MesmasReacoes, NaTelaDe
<1> QED
  BY <1>12, <1>13, <1>17, <1>18 DEF ReacoesInv

LEMMA FalhouPasso ==
  ASSUME ReacoesInv, passosDaTela' \in Nat, NEW n \in Envio, Falhou(n)
  PROVE  ReacoesInv'
<1> DEFINE b(j) == envios[n].montada /\ j = envios[n].resposta
<1>1. /\ envios[n] # Nulo /\ envios' = [envios EXCEPT ![n] = Nulo]
      /\ dialogos' = [j \in DOMAIN dialogos |->
           IF b(j) THEN [dialogos[j] EXCEPT !.motivo = "vazio"] ELSE dialogos[j]]
      /\ desencontro' = (desencontro \/ envios[n].gravado)
      /\ UNCHANGED <<gravadas, tela, ultimoMostrado, recebendo>>
  BY DEF Falhou
<1> HIDE DEF b
<1>2. envios[n].gravado \in BOOLEAN
  BY <1>1, Tipos
<1>3. /\ envios' \in [Envio -> EnvioFeito \cup {Nulo}]
      /\ envios'[n] = Nulo /\ \A m \in Envio \ {n} : envios'[m] = envios[m]
  BY <1>1 DEF ReacoesInv, ReacoesTypeOK
<1>4. /\ DOMAIN dialogos' = DOMAIN dialogos
      /\ \A j \in DOMAIN dialogos' : dialogos'[j] \in DialogoPossivel
  <2>1. \A d \in DialogoPossivel : [d EXCEPT !.motivo = "vazio"] \in DialogoPossivel
    BY DEF DialogoPossivel
  <2>2. \A j \in DOMAIN dialogos : dialogos[j] \in DialogoPossivel
    BY DEF ReacoesInv, ReacoesTypeOK
  <2> QED
    BY <1>1, <2>1, <2>2
<1>5. ReacoesTypeOK'
  BY <1>1, <1>2, <1>3, <1>4 DEF ReacoesInv, ReacoesTypeOK, Visiveis
<1>6. /\ Ligados' /\ Unicos'
      /\ \A c, k : Intocada(c, k)' =>
           \/ Intocada(c, k)
           \/ envios[n].chat = c /\ envios[n].resposta = k /\ envios[n].gravado
  BY <1>1, <1>3, OutrosEnvios
<1>7. TurnoNaTela'
  BY <1>1 DEF ReacoesInv, TurnoNaTela, NaTelaDe
<1>8. MesmasReacoes'
  <2> PICK c : c = tela.chat
    OBVIOUS
  <2>1. ~desencontro' => ~desencontro /\ \A j : Intocada(c, j)' => Intocada(c, j)
    BY <1>1, <1>6
  <2> QED
    BY <1>1, <2>1 DEF ReacoesInv, MesmasReacoes, NaTelaDe
<1> QED
  BY <1>5, <1>6, <1>7, <1>8 DEF ReacoesInv

LEMMA ReacoesNoInicio == InitReacoes => ReacoesInv
<1> SUFFICES ASSUME InitReacoes PROVE ReacoesInv
  OBVIOUS
<1>1. <<Nulo>> \in Respostas
  BY DEF Respostas
<1>2. Vazia \in TelaPossivel /\ Vazia.chat = Nulo
  BY TelaDe
<1>3. DOMAIN dialogos = {}
  BY DEF InitReacoes
<1>4. ReacoesTypeOK
  BY <1>1, <1>2, <1>3 DEF InitReacoes, ReacoesTypeOK
<1>5. Ligados /\ Unicos /\ TurnoNaTela /\ MesmasReacoes
  BY <1>2 DEF InitReacoes, Ligados, Unicos, TurnoNaTela, MesmasReacoes, Instancia
<1> QED
  BY <1>4, <1>5 DEF ReacoesInv

LEMMA ReacoesPasso == ReacoesInv /\ [NextReacoes]_varsReacoes => ReacoesInv'
<1> SUFFICES ASSUME ReacoesInv, [NextReacoes]_varsReacoes PROVE ReacoesInv'
  OBVIOUS
<1>1. CASE NextReacoes
  <2>1. passosDaTela' \in Nat
    BY <1>1 DEF NextReacoes, ReacoesInv, ReacoesTypeOK
  <2>2. ASSUME NEW c \in ChatVisto, RecebeChat(c) PROVE ReacoesInv'
    BY <2>1, <2>2, RecebeChatPasso
  <2>3. ASSUME NEW k \in 1..MaxResposta,
               \/ \E r \in Reacao : HandleOpenFeedbackDialog(k, r)
               \/ HandleCancel(k) \/ HandleReasonSelect(k) \/ HandleTextChange(k)
        PROVE  ReacoesInv'
    BY <2>1, <2>3, DialogosPasso
  <2>4. ASSUME NEW k \in 1..MaxResposta, NEW n \in Envio, HandleSendFeedback(k, n)
        PROVE  ReacoesInv'
    BY <2>1, <2>4, SendFeedbackPasso
  <2>5. ASSUME NEW n \in Envio, AdicionarFeedback(n) \/ Enviado(n) \/ Falhou(n)
        PROVE  ReacoesInv'
    BY <2>1, <2>5, AdicionarFeedbackPasso, EnviadoPasso, FalhouPasso
  <2>6. CASE NovaTela
    BY <2>1, <2>6, NovaTelaPasso
  <2>7. CASE Pergunta
    BY <2>1, <2>7, PerguntaPasso
  <2>8. CASE GravaResposta
    BY <2>1, <2>8, GravaRespostaPasso
  <2>9. CASE PrimeiroPedaco
    BY <2>1, <2>9, PrimeiroPedacoPasso
  <2>10. CASE PerdeMensagem
    BY <2>1, <2>10, PerdeMensagemPasso
  <2>11. CASE TerminaResposta
    BY <2>1, <2>11, TerminaRespostaPasso
  <2>12. CASE RespostaRecusada
    BY <2>1, <2>12, RespostaRecusadaPasso
  <2>13. CASE ErroNoFluxo
    BY <2>1, <2>13, ErroNoFluxoPasso
  <2>14. PassoDaTela
    BY <1>1 DEF NextReacoes
  <2> QED
    BY <2>2, <2>3, <2>4, <2>5, <2>6, <2>7, <2>8, <2>9, <2>10, <2>11, <2>12, <2>13, <2>14
       DEF PassoDaTela
<1>2. CASE UNCHANGED varsReacoes
  BY <1>2 DEF varsReacoes, ReacoesInv, ReacoesTypeOK, Ligados, Unicos, TurnoNaTela,
              MesmasReacoes, NaTelaDe, Instancia, Intocada, Visiveis
<1> QED
  BY <1>1, <1>2

LEMMA ReacoesDaTela == ReacoesInv => ConversaIntacta
<1> SUFFICES ASSUME ReacoesInv, ~desencontro, tela.chat # Nulo
             PROVE  /\ \A k \in DOMAIN tela.vistas \cap DOMAIN gravadas[tela.chat] :
                         EnvioDe(tela.chat, k) = {} => tela.vistas[k] = gravadas[tela.chat][k]
                    /\ recebendo = Nulo \/ recebendo.chat # tela.chat =>
                         Len(tela.vistas) = Len(gravadas[tela.chat])
  BY DEF ConversaIntacta
<1>1. \A k : EnvioDe(tela.chat, k) = {} => Intocada(tela.chat, k)
  BY DEF EnvioDe, Intocada
<1> QED
  BY <1>1 DEF ReacoesInv, MesmasReacoes, NaTelaDe

\* After the chat on the screen is read from the server its answers have the reactions the
\* server keeps, and it has the same answers, through messages sent, refused and failed and
\* reactions sent, whatever the chats, the answers and the requests on their way, as long as
\* no reaction crossed another object or request (Message.tsx:70-85, FeedbackDialog.tsx:60-73).
THEOREM ConversaSempreIntacta == SpecReacoes => []ConversaIntacta
<1>1. InitReacoes => ReacoesInv
  BY ReacoesNoInicio
<1>2. ReacoesInv /\ [NextReacoes]_varsReacoes => ReacoesInv'
  BY ReacoesPasso
<1>3. ReacoesInv => ConversaIntacta
  BY ReacoesDaTela
<1> QED
  BY <1>1, <1>2, <1>3, PTL DEF SpecReacoes

===============================================================================
