---------------------------- MODULE VoiceSession ----------------------------
(***************************************************************************)
(* Real-time audio in the interface: AudioControl, which turns sessions on *)
(* and off, and the AudioManager of each session, with its microphone, web *)
(* socket, player and recorder.                                            *)
(*                                                                         *)
(* Every await is a point where other handlers run: the permission of the  *)
(* microphone, the token, the modules of the audio contexts, and closing a *)
(* context.  The socket keeps the order of its messages.  Left out: the    *)
(* samples, and the settings other than is_headset.                        *)
(***************************************************************************)
EXTENDS Naturals, Sequences

CONSTANTS
  Sessao,     \* bound: audio managers created
  Ninguem,    \* no audio manager
  MaxItem,    \* bound: items the model answers, in all
  MaxPedaco,  \* bound: pieces of audio, in all
  MaxRede     \* bound: messages in flight

ASSUME SessaoAssumption == Ninguem \notin Sessao

VARIABLES
  aberto,        \* the modal is open
  audioManager,  \* of the mounted AudioControl; isAudioOn follows it
  sess,          \* session -> its AudioManager
  rede,          \* session -> messages on their way to the browser
  gerando,       \* session -> the item the model is speaking, 0 for none
  itens, pedacos,
  \* Ghosts.
  corridas,      \* sessions started together or while the modal was closed, or taken
                 \* off the screen by the end of an older one
  cancelados,    \* <<session, item>> the user interrupted
  reabertas      \* sessions that send before the sound they wait for

vRede == <<rede, gerando, itens, pedacos>>
vCorrida == <<corridas, cancelados, reabertas>>
varsVoz == <<aberto, audioManager, sess, vRede, vCorrida>>

\* naTela: its AudioControl is mounted.  mic: the tracks are live.  buffer: items
\* posted to the player.  soa: the analyser hears them.  quieto: the last sound is
\* older than SILENCE_DURATION.  monitor: startMonitoring was called.
Novo == [fase |-> "fora", naTela |-> FALSE, headset |-> FALSE, mic |-> FALSE, stream |-> FALSE,
         ws |-> "nulo", tocador |-> "nulo", gravador |-> "nulo", isToSend |-> FALSE,
         itemIdCurrent |-> 0, itemIdToIgnore |-> 0,
         buffer |-> {}, soa |-> FALSE, quieto |-> FALSE, monitor |-> FALSE]
Iniciando(m) == sess[m].fase \in {"mic", "token"}

InitVoz ==
  /\ aberto = FALSE /\ audioManager = Ninguem
  /\ sess = [m \in Sessao |-> Novo]
  /\ rede = [m \in Sessao |-> <<>>] /\ gerando = [m \in Sessao |-> 0]
  /\ itens = 0 /\ pedacos = 0
  /\ corridas = {} /\ cancelados = {} /\ reabertas = {}

-----------------------------------------------------------------------------
(* The button.                                                             *)

AbreModal ==
  /\ ~aberto
  /\ aberto' = TRUE
  /\ UNCHANGED <<audioManager, sess, vRede, vCorrida>>

\* handleToggleAudio, off: isAudioOn stays false until the session has started.
Clica(m, headset) ==
  /\ aberto /\ audioManager = Ninguem /\ sess[m].fase = "fora"
  /\ sess' = [sess EXCEPT ![m] = [Novo EXCEPT !.fase = "mic", !.naTela = TRUE, !.headset = headset]]
  /\ LET juntas == {s \in Sessao : Iniciando(s) /\ sess[s].naTela} IN
       corridas' = corridas \cup (IF juntas = {} THEN {} ELSE juntas \cup {m})
  /\ UNCHANGED <<aberto, audioManager, vRede, cancelados, reabertas>>

\* getUserMedia.
Concede(m) ==
  /\ sess[m].fase = "mic"
  /\ \/ sess' = [sess EXCEPT ![m].fase = "token", ![m].mic = TRUE, ![m].stream = TRUE,
                             ![m].isToSend = TRUE]
     \/ sess' = [sess EXCEPT ![m].fase = "falhou"]
  /\ UNCHANGED <<aberto, audioManager, vRede, vCorrida>>

\* start: a failure to get the token is caught there, and the session is on
\* without a socket.
Liga(m) ==
  /\ sess[m].fase = "token"
  /\ \E ws \in {"abrindo", "nulo"} :
       sess' = [sess EXCEPT ![m].fase = "ligado", ![m].ws = ws]
  /\ audioManager' = IF sess[m].naTela THEN m ELSE audioManager
  /\ UNCHANGED <<aberto, vRede, vCorrida>>

\* AudioManager.stop, after the recorder; nothing reads the rest of it again.
Parado(s) ==
  [Novo EXCEPT !.fase = "parado", !.naTela = s.naTela, !.tocador = s.tocador,
               !.gravador = s.gravador]

\* sendStopSessionConversationChat.  Recorder.stop runs at once up to the closing of
\* its context; without a recorder the whole of AudioManager.stop does.
Parando(s) ==
  IF s.gravador = "nulo" THEN [Parado(s) EXCEPT !.fase = "parando"]
  ELSE [s EXCEPT !.fase = "parando", !.mic = @ /\ s.gravador # "grava",
                 !.gravador = IF @ = "carrega" THEN "atrasado" ELSE "parado"]

\* handleToggleAudio, on.  A second click
\* rejects: the context is closed already.
Desliga ==
  /\ audioManager # Ninguem /\ sess[audioManager].fase = "ligado"
  /\ sess' = [sess EXCEPT ![audioManager] = Parando(@)]
  /\ UNCHANGED <<aberto, audioManager, vRede, vCorrida>>

\* Faulty: the modal does not clean up.
FechaSemLimpar ==
  /\ aberto
  /\ aberto' = FALSE /\ audioManager' = Ninguem
  /\ sess' = [s \in Sessao |-> [sess[s] EXCEPT !.naTela = FALSE]]
  /\ corridas' = corridas \cup {s \in Sessao : Iniciando(s)}
  /\ UNCHANGED <<vRede, cancelados, reabertas>>

\* ModalRealtime.handleClose and cleanup: a session that is starting is not seen.
Fecha ==
  /\ aberto
  /\ aberto' = FALSE /\ audioManager' = Ninguem
  /\ sess' = [s \in Sessao |->
                [(IF s = audioManager /\ sess[s].fase = "ligado" THEN Parando(sess[s]) ELSE sess[s])
                 EXCEPT !.naTela = FALSE]]
  /\ corridas' = corridas \cup {s \in Sessao : Iniciando(s)}
  /\ UNCHANGED <<vRede, cancelados, reabertas>>

\* The context is closed: the session ends, and whatever session is shown is off.
TerminaSessao(m) ==
  /\ sess[m].fase = "parando"
  /\ sess' = [sess EXCEPT ![m] = Parado(@)]
  /\ audioManager' = IF sess[m].naTela THEN Ninguem ELSE audioManager
  /\ corridas' = corridas \cup (IF sess[m].naTela THEN {audioManager} \ {m, Ninguem} ELSE {})
  /\ rede' = [rede EXCEPT ![m] = <<>>] /\ gerando' = [gerando EXCEPT ![m] = 0]
  /\ UNCHANGED <<aberto, itens, pedacos, cancelados, reabertas>>

-----------------------------------------------------------------------------
(* The server, external: it relays the model.                              *)

Vivo(m) == sess[m].ws = "aberto"
Cabe(m) == Len(rede[m]) < MaxRede

\* The socket opens, and the server accepts the token.
Autoriza(m) ==
  /\ sess[m].ws = "abrindo" /\ Cabe(m)
  /\ sess' = [sess EXCEPT ![m].ws = "aberto"]
  /\ rede' = [rede EXCEPT ![m] = Append(@, [tipo |-> "autorizado", item |-> 0])]
  /\ UNCHANGED <<aberto, audioManager, gerando, itens, pedacos, vCorrida>>

\* The server hangs up: refusal, 3 minutes of silence, or a failure.  onclose only logs.
Desconecta(m) ==
  /\ sess[m].ws \in {"abrindo", "aberto"}
  /\ sess' = [sess EXCEPT ![m].ws = "fechado"]
  /\ rede' = [rede EXCEPT ![m] = <<>>] /\ gerando' = [gerando EXCEPT ![m] = 0]
  /\ UNCHANGED <<aberto, audioManager, itens, pedacos, vCorrida>>

\* The model starts an item, once it has heard something.
Responde(m) ==
  /\ Vivo(m) /\ sess[m].gravador = "grava" /\ gerando[m] = 0 /\ itens < MaxItem
  /\ itens' = itens + 1 /\ gerando' = [gerando EXCEPT ![m] = itens + 1]
  /\ UNCHANGED <<aberto, audioManager, sess, rede, pedacos, vCorrida>>

Fala(m) ==
  /\ Vivo(m) /\ gerando[m] # 0 /\ Cabe(m) /\ pedacos < MaxPedaco
  /\ pedacos' = pedacos + 1
  /\ rede' = [rede EXCEPT ![m] = Append(@, [tipo |-> "delta", item |-> gerando[m]])]
  /\ UNCHANGED <<aberto, audioManager, sess, gerando, itens, vCorrida>>

Conclui(m) ==
  /\ Vivo(m) /\ gerando[m] # 0
  /\ gerando' = [gerando EXCEPT ![m] = 0]
  /\ UNCHANGED <<aberto, audioManager, sess, rede, itens, pedacos, vCorrida>>

\* The user speaks over the model: the model stops, and the browser is told.
Interrompe(m) ==
  /\ Vivo(m) /\ sess[m].headset /\ sess[m].isToSend /\ gerando[m] # 0 /\ Cabe(m)
  /\ rede' = [rede EXCEPT ![m] = Append(@, [tipo |-> "fala", item |-> 0])]
  /\ gerando' = [gerando EXCEPT ![m] = 0]
  /\ UNCHANGED <<aberto, audioManager, sess, itens, pedacos, vCorrida>>

-----------------------------------------------------------------------------
(* The audio manager.                                                      *)

\* Faulty: the item is kept, but what was posted goes on.
CanceladoSemLimpar(s) == [s EXCEPT !.itemIdToIgnore = s.itemIdCurrent]

\* sendCancelResponseIncoming: 0 stands for 'x', which is no item.
Cancelado(s) == [s EXCEPT !.itemIdToIgnore = s.itemIdCurrent, !.buffer = {}, !.soa = FALSE]

\* The item it interrupts, if there is one.
Interrompido(m) == IF sess[m].itemIdCurrent = 0 THEN {} ELSE {<<m, sess[m].itemIdCurrent>>}

\* handleCancelIncomingResponse.  On a socket that is opening send throws, after the
\* item was kept.
Cancela(m) ==
  /\ audioManager = m /\ sess[m].fase = "ligado" /\ sess[m].ws # "nulo"
  /\ sess[m].itemIdToIgnore # sess[m].itemIdCurrent
  /\ sess' = [sess EXCEPT ![m] = Cancelado(@)]
  /\ cancelados' = cancelados \cup Interrompido(m)
  /\ \/ gerando' = [gerando EXCEPT ![m] = 0]
     \/ UNCHANGED gerando  \* the model had ended, or the message is lost with the socket
  /\ UNCHANGED <<aberto, audioManager, rede, itens, pedacos, corridas, reabertas>>

\* Faulty: frames that hear the sound are taken for silence.
EscutaSurda(s) == IF s.quieto THEN [s EXCEPT !.isToSend = TRUE] ELSE s

\* Faulty: every frame counts as one that hears the sound.
EscutaSempre(s) == IF s.monitor THEN [s EXCEPT !.quieto = FALSE] ELSE s

\* checkAudio.
Escuta(s) ==
  IF s.soa THEN [s EXCEPT !.quieto = FALSE]
  ELSE IF s.quieto THEN [s EXCEPT !.isToSend = TRUE] ELSE s

\* A piece of audio: without a headset sending stops, and startMonitoring listens at
\* once.
Tocado(s, item) ==
  LET novo == [s EXCEPT !.itemIdCurrent = item] IN
  IF item = s.itemIdToIgnore THEN novo
  ELSE IF s.headset THEN [novo EXCEPT !.buffer = @ \cup {item}]
  ELSE Escuta([novo EXCEPT !.buffer = @ \cup {item}, !.isToSend = FALSE, !.monitor = TRUE])

\* What was posted is not heard yet, and sending goes on.
Reaberta(s) == s.isToSend /\ s.buffer # {} /\ ~s.soa

\* ws.onmessage.
OnMessage(m) ==
  /\ Vivo(m) /\ rede[m] # <<>>
  /\ LET msg == Head(rede[m]) IN
       \/ /\ msg.tipo = "autorizado"
          /\ sess' = [sess EXCEPT ![m].tocador = "carrega"]
          /\ UNCHANGED <<cancelados, reabertas>>
       \/ /\ msg.tipo = "fala"
          /\ sess' = [sess EXCEPT ![m] = Cancelado(@)]
          /\ cancelados' = cancelados \cup Interrompido(m)
          /\ UNCHANGED reabertas
       \/ /\ msg.tipo = "delta"
          /\ sess' = [sess EXCEPT ![m] = Tocado(@, msg.item)]
          /\ reabertas' = IF Reaberta(sess'[m]) THEN reabertas \cup {m}
                          ELSE IF sess'[m].isToSend THEN reabertas ELSE reabertas \ {m}
          /\ UNCHANGED cancelados
  /\ rede' = [rede EXCEPT ![m] = Tail(@)]
  /\ UNCHANGED <<aberto, audioManager, gerando, itens, pedacos, corridas>>

\* startPlayerAndRecorder, after Player.start: the recorder starts if the session
\* was not stopped.
TocadorPronto(m) ==
  /\ sess[m].tocador = "carrega"
  /\ sess' = [sess EXCEPT ![m].tocador = "pronto", ![m].quieto = FALSE,
                          ![m].gravador = IF sess[m].stream THEN "carrega" ELSE @]
  /\ UNCHANGED <<aberto, audioManager, vRede, vCorrida>>

\* Recorder.start, after its module: if it was stopped there is no context, and the
\* error stops it again.
GravadorPronto(m) ==
  /\ sess[m].gravador \in {"carrega", "atrasado"}
  /\ sess' = IF sess[m].gravador = "carrega" THEN [sess EXCEPT ![m].gravador = "grava"]
             ELSE [sess EXCEPT ![m].gravador = "parado", ![m].mic = FALSE]
  /\ UNCHANGED <<aberto, audioManager, vRede, vCorrida>>

-----------------------------------------------------------------------------
(* The player: the worklet plays what was posted, and the frames of the    *)
(* page listen to it if there is no headset.                               *)

Soa(m) ==
  /\ sess[m].buffer # {} /\ ~sess[m].soa /\ ~sess[m].headset
  /\ sess' = [sess EXCEPT ![m].soa = TRUE]
  /\ UNCHANGED <<aberto, audioManager, vRede, vCorrida>>

Esvazia(m) ==
  /\ sess[m].buffer # {} /\ (sess[m].soa \/ sess[m].headset)
  /\ sess' = [sess EXCEPT ![m].soa = FALSE, ![m].buffer = {}]
  /\ UNCHANGED <<aberto, audioManager, vRede, vCorrida>>

\* SILENCE_DURATION passes without a frame that hears a sound.
Silencia(m) ==
  /\ sess[m].fase = "ligado" /\ sess[m].tocador = "pronto"
  /\ ~sess[m].headset /\ ~sess[m].quieto
  /\ sess' = [sess EXCEPT ![m].quieto = TRUE]
  /\ UNCHANGED <<aberto, audioManager, vRede, vCorrida>>

\* A frame of the monitors that were started.
Quadro(m) ==
  /\ sess[m].monitor /\ Escuta(sess[m]) # sess[m]
  /\ sess' = [sess EXCEPT ![m] = Escuta(@)]
  /\ reabertas' = IF Reaberta(sess'[m]) THEN reabertas \cup {m} ELSE reabertas
  /\ UNCHANGED <<aberto, audioManager, vRede, corridas, cancelados>>

Botao == AbreModal \/ Fecha \/ Desliga \/ \E m \in Sessao, h \in BOOLEAN : Clica(m, h)
Servidor(m) == Autoriza(m) \/ Desconecta(m) \/ Responde(m) \/ Fala(m) \/ Conclui(m) \/ Interrompe(m)
Navegador(m) == Concede(m) \/ Liga(m) \/ TerminaSessao(m) \/ Cancela(m) \/ OnMessage(m)
                  \/ TocadorPronto(m) \/ GravadorPronto(m)
Audio(m) == Soa(m) \/ Esvazia(m) \/ Silencia(m) \/ Quadro(m)
NextVoz == Botao \/ \E m \in Sessao : Servidor(m) \/ Navegador(m) \/ Audio(m)

\* Sound ends, time passes and the page draws frames.
Justica ==
  \A m \in Sessao : WF_varsVoz(Esvazia(m)) /\ WF_varsVoz(Silencia(m)) /\ WF_varsVoz(Quadro(m))

SpecVoz == InitVoz /\ [][NextVoz]_varsVoz /\ Justica

-----------------------------------------------------------------------------
(* Properties.                                                             *)

\* A microphone is live only for the session on the screen, one that is starting, or
\* one that is stopping: the user can always turn it off, except for sessions that
\* started together, outlived the modal, or were on when an older one of those ended, which
\* sets the button off (AudioControl.tsx:38-89).  One that was stopped
\* records nothing, holds no socket and plays nothing, even if its player or its recorder
\* were still loading when it stopped (AudioManager.ts:193-218, Recorder.ts:16-81).
MicNaTela ==
  \A m \in Sessao :
    /\ sess[m].mic =>
         \/ Iniciando(m) \/ sess[m].fase = "parando"
         \/ audioManager = m
         \/ m \in corridas
    /\ sess[m].fase = "parado" =>
         /\ ~sess[m].mic /\ sess[m].gravador # "grava" /\ sess[m].ws = "nulo"
         /\ ~sess[m].soa

\* An item that was interrupted is not played again, though pieces of it may still
\* arrive, and only the last item is remembered (AudioManager.ts:30-32).
CanceladoNaoToca ==
  \A m \in Sessao : \A i \in sess[m].buffer : <<m, i>> \notin cancelados

\* Without a headset the microphone is not sent while the model is heard, except
\* from a piece of audio that found the page silent until the next one
\* (AudioManager.ts:81-95, Player.ts:50-69).
SemRetorno ==
  \A m \in Sessao :
    sess[m].soa /\ ~sess[m].headset /\ sess[m].isToSend => m \in reabertas

\* A session whose microphone was muted by the model's voice sends again, or ends
\* (Player.ts:50-69).
VoltaAEnviarDe(m) ==
  (sess[m].fase = "ligado" /\ ~sess[m].isToSend) ~> (sess[m].fase # "ligado" \/ sess[m].isToSend)
VoltaAEnviar == \A m \in Sessao : VoltaAEnviarDe(m)
=============================================================================
