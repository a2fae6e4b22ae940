------------------------------- MODULE Feedback -------------------------------
(***************************************************************************)
(* Reactions to the answers of the chat shown.                             *)
(*                                                                         *)
(* A dialog under each answer sends the reaction.  When the request is     *)
(* answered the messages of the chat object captured at the click, with    *)
(* the reaction, are written onto whatever chat object is active then.     *)
(* The object is replaced when a chat is read from the server, when a      *)
(* message is sent and when an answer ends, and the answer being received  *)
(* writes on its own object by the index of its message.                   *)
(*                                                                         *)
(* Prompts, texts and stopping are left out: a chat is the reactions to    *)
(* its answers, one turn runs at a time, and chats are read at once (their *)
(* late answers are in ChatPage, where the server keeps a reaction in      *)
(* ChatTurn).                                                              *)
(***************************************************************************)
EXTENDS Sequences, Naturals, Functions

CONSTANTS
  ChatVisto,
  Nulo,          \* no chat, no turn, no request, no reaction
  Envio,         \* bound: requests on their way
  MaxResposta,   \* bound: answers of a chat
  MaxPassoTela   \* bound: the steps of a behaviour

VARIABLES
  gravadas,        \* at the server: the reactions to the answers of each chat
  tela,            \* activeChat: the chat, its messages, what it waits for
  ultimoMostrado,  \* the last chat shown
  recebendo,       \* the answer being received: its index, whether the server stored it, and
                   \* the object it writes on
  dialogos,        \* of the answers shown: the reaction, and what was filled in
  envios,          \* requests: the reaction, the object captured, how far they got
  desencontro,     \* a reaction crossed another object or request; until a chat is read
  passosDaTela     \* taken

varsReacoes == <<gravadas, tela, ultimoMostrado, recebendo, dialogos, envios, desencontro,
                 passosDaTela>>

Reacao == {"LIKED", "DISLIKED"}
Respostas == Seq(Reacao \cup {Nulo})

\* The turn, and a request, under way.
Recebimento ==
  [chat : ChatVisto, resposta : Nat \ {0}, gravada : BOOLEAN, naTela : BOOLEAN,
   vistas : Respostas]
EnvioFeito ==
  [chat : ChatVisto, resposta : Nat \ {0}, reacao : Reacao, gravado : BOOLEAN, atual : BOOLEAN,
   vistas : Respostas, montada : BOOLEAN]

ASSUME ReacoesAssumption == Nulo \notin ChatVisto \cup Reacao \cup Recebimento \cup EnvioFeito

Tela(c, vistas, estado) == [chat |-> c, vistas |-> vistas, estado |-> estado]
Vazia == Tela(Nulo, <<>>, "livre")

\* MessageBox: while the chat loads its last answer is three dots.
Visiveis(t) == {k \in DOMAIN t.vistas : ~(t.estado = "carregando" /\ k = Len(t.vistas))}

EnvioDe(c, k) ==
  {n \in Envio : envios[n] # Nulo /\ envios[n].chat = c /\ envios[n].resposta = k}

InitReacoes ==
  /\ gravadas = [c \in ChatVisto |-> <<Nulo>>]
  /\ tela = Vazia /\ ultimoMostrado = Nulo /\ recebendo = Nulo
  /\ dialogos = <<>> /\ envios = [n \in Envio |-> Nulo]
  /\ desencontro = FALSE /\ passosDaTela = 0

-----------------------------------------------------------------------------
(* The chat object.                                                        *)

\* Messages stay mounted as long as chat and answer are shown.
Montada(t, c, k) == t.chat = c /\ k \in Visiveis(t)

\* Every rendering of a message gives its box a new key: a dialog left open is empty.
EsvaziaDialogos(ds) == [k \in DOMAIN ds |-> [ds[k] EXCEPT !.motivo = "vazio"]]

\* setActiveChat: the active chat is t from now on.  If it is another object, the requests keep the
\* messages of the one they captured.
PoeNaTela(t, es, outro) ==
  /\ tela' = t
  /\ ultimoMostrado' = IF t.chat = Nulo THEN ultimoMostrado ELSE t.chat
  /\ dialogos' = IF t.chat # tela.chat THEN <<>>
                 ELSE EsvaziaDialogos(Restrict(dialogos, DOMAIN dialogos \cap Visiveis(t)))
  /\ envios' = [n \in Envio |->
       IF es[n] = Nulo THEN Nulo
       ELSE [es[n] EXCEPT
              !.vistas = IF outro /\ es[n].atual THEN tela.vistas ELSE @,
              !.atual = @ /\ ~outro,
              !.montada = @ /\ Montada(t, es[n].chat, es[n].resposta)]]

\* The object the turn writes on is not the active one any more.
Larga == IF recebendo = Nulo \/ ~recebendo.naTela THEN recebendo
         ELSE [recebendo EXCEPT !.naTela = FALSE, !.vistas = tela.vistas]

VistasDoTurno == IF recebendo.naTela THEN tela.vistas ELSE recebendo.vistas
TemIndice == recebendo.resposta <= Len(VistasDoTurno)

\* A chat read from the server.
RecebeChat(c) ==
  /\ PoeNaTela(Tela(c, gravadas[c], "livre"), envios, TRUE)
  /\ recebendo' = Larga /\ desencontro' = (recebendo # Nulo /\ recebendo.chat = c /\ ~TemIndice)
  /\ UNCHANGED gravadas

\* openChatUrl(null).
NovaTela ==
  /\ tela # Vazia
  /\ PoeNaTela(Vazia, envios, TRUE)
  /\ recebendo' = Larga
  /\ UNCHANGED <<gravadas, desencontro>>

-----------------------------------------------------------------------------
(* Turns.                                                                  *)

\* submitChatMessage: a new object with a new array of messages.
Pergunta ==
  /\ tela.chat # Nulo /\ tela.estado = "livre" /\ recebendo = Nulo
  /\ Len(tela.vistas) < MaxResposta
  /\ PoeNaTela(Tela(tela.chat, Append(tela.vistas, Nulo), "carregando"), envios, TRUE)
  /\ recebendo' = [chat |-> tela.chat, resposta |-> Len(tela.vistas) + 1, gravada |-> FALSE,
                   naTela |-> TRUE, vistas |-> <<>>]
  /\ UNCHANGED <<gravadas, desencontro>>

\* The server stores the answer; whoever reads the chat sees it.
GravaResposta ==
  /\ recebendo # Nulo /\ ~recebendo.gravada
  /\ gravadas' = [gravadas EXCEPT ![recebendo.chat] = Append(@, Nulo)]
  /\ recebendo' = [recebendo EXCEPT !.gravada = TRUE]
  /\ UNCHANGED <<tela, ultimoMostrado, dialogos, envios, desencontro>>

\* updateChatWithStreamResponse: the first chunk, in place.
PrimeiroPedaco ==
  /\ recebendo # Nulo /\ TemIndice
  /\ recebendo.naTela /\ tela.estado = "carregando"
  /\ PoeNaTela([tela EXCEPT !.estado = "fluxo"], envios, FALSE)
  /\ UNCHANGED <<gravadas, recebendo, desencontro>>

\* Without its message a chunk, or the end, is a TypeError: the turn is left as it is,
\* and so is the screen.  The server goes on.
PerdeMensagem ==
  /\ recebendo # Nulo /\ ~TemIndice /\ recebendo.gravada
  /\ recebendo' = Nulo
  /\ UNCHANGED <<gravadas, tela, ultimoMostrado, dialogos, envios, desencontro>>

\* updateChatStream: a new object with the turn's messages, if its chat was the last shown.
DevolveVistas(vistas) ==
  /\ recebendo' = Nulo
  /\ IF ultimoMostrado = recebendo.chat
     THEN /\ PoeNaTela(Tela(recebendo.chat, vistas, "livre"), envios, TRUE)
          /\ desencontro' = (desencontro \/ ~recebendo.naTela)
     ELSE UNCHANGED <<tela, ultimoMostrado, dialogos, envios, desencontro>>
  /\ UNCHANGED gravadas

\* The end of the answer, which the server has stored.
TerminaResposta ==
  /\ recebendo # Nulo /\ TemIndice /\ recebendo.gravada
  /\ recebendo.naTela => tela.estado = "fluxo"
  /\ DevolveVistas(VistasDoTurno)

\* splice(lastMessageIndex - 1, 2): nothing if the messages are not there.
Splice(vistas) ==
  IF recebendo.resposta \in DOMAIN vistas THEN SubSeq(vistas, 1, recebendo.resposta - 1) ELSE vistas

\* handleErrorResponse: refused, so nothing was stored.
RespostaRecusada ==
  /\ recebendo # Nulo /\ ~recebendo.gravada
  /\ recebendo.naTela => tela.estado = "carregando"
  /\ DevolveVistas(Splice(VistasDoTurno))

\* An error event takes the two messages from the array; at the end of the stream their
\* index is a TypeError, since there are others.
ErroNoFluxo ==
  /\ recebendo # Nulo /\ ~recebendo.gravada
  /\ IF recebendo.naTela
     THEN PoeNaTela([tela EXCEPT !.vistas = Splice(@)], envios, FALSE) /\ recebendo' = Nulo
     ELSE recebendo' = Nulo /\ UNCHANGED <<tela, ultimoMostrado, dialogos, envios>>
  /\ UNCHANGED <<gravadas, desencontro>>

-----------------------------------------------------------------------------
(* Dialogs.                                                                *)

SetDialogo(k, d) ==
  /\ dialogos' = [j \in DOMAIN dialogos \cup {k} |-> IF j = k THEN d ELSE dialogos[j]]
  /\ UNCHANGED <<gravadas, tela, ultimoMostrado, recebendo, envios, desencontro>>

\* A dialog that is open is only kept if nothing changes.
HandleOpenFeedbackDialog(k, r) ==
  /\ k \in Visiveis(tela)
  /\ SetDialogo(k, [reacao |-> r, motivo |-> "vazio"])

HandleCancel(k) ==
  /\ k \in DOMAIN dialogos
  /\ dialogos' = Restrict(dialogos, DOMAIN dialogos \ {k})
  /\ UNCHANGED <<gravadas, tela, ultimoMostrado, recebendo, envios, desencontro>>

\* A reason, which a dislike may have, or none; not with a comment.
HandleReasonSelect(k) ==
  /\ k \in DOMAIN dialogos /\ dialogos[k].reacao = "DISLIKED"
  /\ dialogos[k].motivo # "comentario"
  /\ \E motivo \in {"razao", "vazio"} : SetDialogo(k, [dialogos[k] EXCEPT !.motivo = motivo])

\* A comment, or none; not with a reason.
HandleTextChange(k) ==
  /\ k \in DOMAIN dialogos /\ dialogos[k].motivo # "razao"
  /\ \E motivo \in {"comentario", "vazio"} : SetDialogo(k, [dialogos[k] EXCEPT !.motivo = motivo])

\* Nothing stops a second click while the first is on its way.
HandleSendFeedback(k, n) ==
  /\ k \in DOMAIN dialogos /\ dialogos[k].motivo # "vazio"
  /\ envios[n] = Nulo
  /\ envios' = [envios EXCEPT ![n] =
       [chat |-> tela.chat, resposta |-> k, reacao |-> dialogos[k].reacao,
        gravado |-> FALSE, atual |-> TRUE, vistas |-> <<>>, montada |-> TRUE]]
  /\ desencontro' = (desencontro \/ EnvioDe(tela.chat, k) # {})
  /\ UNCHANGED <<gravadas, tela, ultimoMostrado, recebendo, dialogos>>

-----------------------------------------------------------------------------
(* Requests.                                                               *)

\* The server; a message it does not have is not an error.
AdicionarFeedback(n) ==
  LET e == envios[n]
      tem == e.resposta <= Len(gravadas[e.chat])
  IN /\ e # Nulo /\ ~e.gravado
     /\ envios' = [envios EXCEPT ![n].gravado = TRUE]
     /\ gravadas' = IF tem THEN [gravadas EXCEPT ![e.chat][e.resposta] = e.reacao] ELSE gravadas
     /\ desencontro' = (desencontro \/ ~tem)
     /\ UNCHANGED <<tela, ultimoMostrado, recebendo, dialogos>>

\* Faulty: the answers without a reaction leave.
SoComReacao(vistas, e) ==
  SelectSeq([vistas EXCEPT ![e.resposta] = e.reacao], LAMBDA r : r # Nulo)

\* The messages captured, with the reaction.
MensagensUpdated(vistas, e) ==
  IF e.resposta \in DOMAIN vistas THEN [vistas EXCEPT ![e.resposta] = e.reacao] ELSE vistas

\* onSuccess closes the dialog of the message, a later one too, and handleSendFeedback of
\* Message writes the messages onto the active chat, in place.
Enviado(n) ==
  LET e == envios[n]
      es == [envios EXCEPT ![n] = Nulo]
      vistas == MensagensUpdated(IF e.atual THEN tela.vistas ELSE e.vistas, e)
      t == IF tela = Vazia THEN tela ELSE [tela EXCEPT !.vistas = vistas]
      fica == IF e.montada THEN DOMAIN dialogos \ {e.resposta} ELSE DOMAIN dialogos
  IN /\ e # Nulo /\ e.gravado
     /\ tela' = t
     /\ dialogos' = Restrict(dialogos, fica \cap Visiveis(t))
     /\ envios' = [m \in Envio |->
          IF es[m] = Nulo THEN Nulo
          ELSE [es[m] EXCEPT !.montada = @ /\ Montada(t, es[m].chat, es[m].resposta)]]
     /\ desencontro' = (desencontro \/ ~e.atual)
     /\ UNCHANGED <<gravadas, ultimoMostrado, recebendo>>

\* onError, whether it was stored or not: the message is rendered with its notice.
Falhou(n) ==
  /\ envios[n] # Nulo
  /\ envios' = [envios EXCEPT ![n] = Nulo]
  /\ dialogos' = [k \in DOMAIN dialogos |->
       IF envios[n].montada /\ k = envios[n].resposta
       THEN [dialogos[k] EXCEPT !.motivo = "vazio"] ELSE dialogos[k]]
  /\ desencontro' = (desencontro \/ envios[n].gravado)
  /\ UNCHANGED <<gravadas, tela, ultimoMostrado, recebendo>>

PassoDaTela ==
  \/ \E c \in ChatVisto : RecebeChat(c)
  \/ \E k \in 1..MaxResposta :
       \/ \E r \in Reacao : HandleOpenFeedbackDialog(k, r)
       \/ HandleCancel(k) \/ HandleReasonSelect(k) \/ HandleTextChange(k)
       \/ \E n \in Envio : HandleSendFeedback(k, n)
  \/ \E n \in Envio : AdicionarFeedback(n) \/ Enviado(n) \/ Falhou(n)
  \/ NovaTela \/ Pergunta \/ GravaResposta \/ PrimeiroPedaco
  \/ PerdeMensagem
  \/ TerminaResposta \/ RespostaRecusada \/ ErroNoFluxo

NextReacoes == passosDaTela < MaxPassoTela /\ passosDaTela' = passosDaTela + 1 /\ PassoDaTela

SpecReacoes == InitReacoes /\ [][NextReacoes]_varsReacoes

-----------------------------------------------------------------------------
(* Properties.                                                             *)

\* The answers on the screen are the chat's own, with the reactions the server has,
\* through messages sent, refused and failed meanwhile.  The exceptions: a request
\* answered after the chat object it captured was replaced, or an object the turn brings
\* back; two requests about one answer; one that failed though stored, or found no answer
\* (Message.tsx:70-85, FeedbackDialog.tsx:60-73).
ConversaIntacta ==
  ~desencontro /\ tela.chat # Nulo =>
    /\ \A k \in DOMAIN tela.vistas \cap DOMAIN gravadas[tela.chat] :
         EnvioDe(tela.chat, k) = {} => tela.vistas[k] = gravadas[tela.chat][k]
    /\ recebendo = Nulo \/ recebendo.chat # tela.chat =>
         Len(tela.vistas) = Len(gravadas[tela.chat])
=============================================================================
