------------------------- MODULE VoiceSessionProofs --------------------------
(* Theorems about VoiceSession, for any number of sessions, of items and   *)
(* of messages in flight.                                                  *)
EXTENDS VoiceSession, TLAPS

(* The types of the sessions and of what is on its way to them.            *)
Estados ==
  [fase : {"fora", "mic", "token", "ligado", "falhou", "parando", "parado"},
   naTela : BOOLEAN, headset : BOOLEAN, mic : BOOLEAN, stream : BOOLEAN,
   ws : {"nulo", "abrindo", "aberto", "fechado"}, tocador : {"nulo", "carrega", "pronto"},
   gravador : {"nulo", "carrega", "grava", "atrasado", "parado"}, isToSend : BOOLEAN,
   itemIdCurrent : Nat, itemIdToIgnore : Nat, buffer : SUBSET Nat,
   soa : BOOLEAN, quieto : BOOLEAN, monitor : BOOLEAN]
Mensagens == [tipo : {"autorizado", "delta", "fala"}, item : Nat]

TypeOK ==
  /\ aberto \in BOOLEAN /\ audioManager \in Sessao \cup {Ninguem}
  /\ sess \in [Sessao -> Estados]
  /\ rede \in [Sessao -> Seq(Mensagens)] /\ gerando \in [Sessao -> Nat]
  /\ itens \in Nat /\ pedacos \in Nat

LEMMA NovoTipo == Novo \in Estados
BY DEF Novo, Estados

LEMMA ParadoCampos ==
  ASSUME NEW s \in Estados
  PROVE  /\ Parado(s) \in Estados /\ Parado(s).fase = "parado"
         /\ Parado(s).naTela = s.naTela /\ Parado(s).gravador = s.gravador
         /\ Parado(s).tocador = s.tocador /\ ~Parado(s).mic /\ ~Parado(s).stream
         /\ Parado(s).ws = "nulo" /\ Parado(s).buffer = {} /\ ~Parado(s).soa
BY DEF Parado, Novo, Estados

LEMMA ParandoCampos ==
  ASSUME NEW s \in Estados
  PROVE  /\ Parando(s) \in Estados /\ Parando(s).fase = "parando"
         /\ Parando(s).naTela = s.naTela /\ Parando(s).tocador = s.tocador
         /\ s.gravador = "nulo" =>
              /\ ~Parando(s).mic /\ ~Parando(s).stream /\ Parando(s).gravador = "nulo"
              /\ Parando(s).ws = "nulo" /\ Parando(s).buffer = {} /\ ~Parando(s).soa
         /\ s.gravador # "nulo" =>
              /\ Parando(s).gravador \in {"atrasado", "parado"}
              /\ Parando(s).ws = s.ws /\ Parando(s).buffer = s.buffer
              /\ Parando(s).soa = s.soa /\ Parando(s).headset = s.headset
              /\ Parando(s).isToSend = s.isToSend
              /\ Parando(s).itemIdCurrent = s.itemIdCurrent
              /\ Parando(s).itemIdToIgnore = s.itemIdToIgnore
<1>1. CASE s.gravador = "nulo"
  <2>1. Parando(s) = [Parado(s) EXCEPT !.fase = "parando"]
    BY <1>1 DEF Parando
  <2> QED
    BY <1>1, <2>1, ParadoCampos DEF Estados
<1>2. CASE s.gravador # "nulo"
  <2>1. Parando(s) = [s EXCEPT !.fase = "parando", !.mic = s.mic /\ s.gravador # "grava",
                        !.gravador = IF s.gravador = "carrega" THEN "atrasado" ELSE "parado"]
    BY <1>2 DEF Parando, Estados
  <2> QED
    BY <1>2, <2>1 DEF Estados
<1> QED
  BY <1>1, <1>2

LEMMA CanceladoTipo ==
  ASSUME NEW s \in Estados
  PROVE  Cancelado(s) \in Estados
BY DEF Cancelado, Estados

LEMMA EscutaTipo ==
  ASSUME NEW s \in Estados
  PROVE  Escuta(s) \in Estados
<1>1. [s EXCEPT !.quieto = FALSE] \in Estados /\ [s EXCEPT !.isToSend = TRUE] \in Estados
  BY DEF Estados
<1> QED
  BY <1>1 DEF Escuta

LEMMA TocadoTipo ==
  ASSUME NEW s \in Estados, NEW item \in Nat
  PROVE  Tocado(s, item) \in Estados
<1> DEFINE novo == [s EXCEPT !.itemIdCurrent = item]
<1>1. novo \in Estados
  BY DEF Estados
<1>2. [novo EXCEPT !.buffer = @ \cup {item}] \in Estados
  BY <1>1 DEF Estados
<1>3. [novo EXCEPT !.buffer = @ \cup {item}, !.isToSend = FALSE, !.monitor = TRUE] \in Estados
  BY <1>1 DEF Estados
<1> HIDE DEF novo
<1>4. Tocado(s, item) \in
        {novo, [novo EXCEPT !.buffer = @ \cup {item}],
         Escuta([novo EXCEPT !.buffer = @ \cup {item}, !.isToSend = FALSE, !.monitor = TRUE])}
  BY DEF Tocado, novo
<1> QED
  BY <1>1, <1>2, <1>3, <1>4, EscutaTipo

(* A session, and what is on its way to it, after a step of one session.   *)
SoUma(m) ==
  \A x \in Sessao \ {m} :
    /\ sess'[x] = sess[x] /\ rede'[x] = rede[x] /\ gerando'[x] = gerando[x]
    /\ x \in reabertas => x \in reabertas'
    /\ \A c \in Nat : <<x, c>> \in cancelados' => <<x, c>> \in cancelados

(* The actions of one session.                                             *)
Acao(m) ==
  \/ \E h \in BOOLEAN : Clica(m, h)
  \/ Desliga /\ audioManager = m
  \/ Servidor(m) \/ Navegador(m) \/ Audio(m)

LEMMA AcoesDe ==
  ASSUME NextVoz, TypeOK
  PROVE  AbreModal \/ Fecha \/ \E m \in Sessao : Acao(m)
<1>1. Desliga => audioManager \in Sessao
  BY DEF Desliga, TypeOK
<1> QED
  BY <1>1 DEF NextVoz, Botao, Acao

LEMMA TipoDeUma ==
  ASSUME TypeOK, NEW m \in Sessao, Acao(m)
  PROVE  TypeOK' /\ SoUma(m) /\ itens <= itens'
<1> DEFINE S == sess' \in [Sessao -> Estados] /\ \A x \in Sessao \ {m} : sess'[x] = sess[x]
           R == rede' \in [Sessao -> Seq(Mensagens)] /\ \A x \in Sessao \ {m} : rede'[x] = rede[x]
           G == gerando' \in [Sessao -> Nat] /\ \A x \in Sessao \ {m} : gerando'[x] = gerando[x]
           K == /\ aberto' \in BOOLEAN /\ audioManager' \in Sessao \cup {Ninguem}
                /\ itens' \in Nat /\ itens <= itens' /\ pedacos' \in Nat
           F == /\ \A x \in Sessao \ {m} : x \in reabertas => x \in reabertas'
                /\ \A x \in Sessao \ {m} : \A c \in Nat :
                     <<x, c>> \in cancelados' => <<x, c>> \in cancelados
<1>0. sess[m] \in Estados /\ rede[m] \in Seq(Mensagens) /\ gerando[m] \in Nat
  BY DEF TypeOK
<1>1. /\ UNCHANGED sess => S
      /\ \A t \in Estados : sess' = [sess EXCEPT ![m] = t] => S
  BY DEF TypeOK
<1>2. /\ UNCHANGED rede => R
      /\ \A t \in Seq(Mensagens) : rede' = [rede EXCEPT ![m] = t] => R
  BY DEF TypeOK
<1>3. /\ UNCHANGED gerando => G
      /\ \A t \in Nat : gerando' = [gerando EXCEPT ![m] = t] => G
  BY DEF TypeOK
<1>4. UNCHANGED <<aberto, audioManager, itens, pedacos>> => K
  BY DEF TypeOK
<1>5. UNCHANGED <<cancelados, reabertas>> => F
  OBVIOUS
<1>6. S /\ R /\ G /\ K /\ F => TypeOK' /\ SoUma(m) /\ itens <= itens'
  BY DEF TypeOK, SoUma
<1> DEFINE Certo == S /\ R /\ G /\ K /\ F
<1> SUFFICES Certo
  BY <1>6
<1>7. ASSUME NEW t \in Estados, sess' = [sess EXCEPT ![m] = t], UNCHANGED vRede, K, F
      PROVE  Certo
  BY <1>1, <1>2, <1>3, <1>7 DEF vRede
<1> HIDE DEF S, R, G, F
<1>8. ASSUME NEW h \in BOOLEAN, Clica(m, h)
      PROVE  Certo
  <2>1. [Novo EXCEPT !.fase = "mic", !.naTela = TRUE, !.headset = h] \in Estados
    BY DEF Novo, Estados
  <2>2. K
    BY <1>8 DEF Clica, vRede, TypeOK
  <2> QED
    BY <1>5, <1>7, <1>8, <2>1, <2>2 DEF Clica
<1>9. CASE Desliga /\ audioManager = m
  <2>1. K /\ UNCHANGED <<vRede, cancelados, reabertas>>
    BY <1>9 DEF Desliga, vRede, vCorrida, TypeOK
  <2>2. sess' = [sess EXCEPT ![m] = Parando(sess[m])]
    BY <1>9 DEF Desliga
  <2> QED
    BY <1>0, <1>5, <1>7, <2>1, <2>2, ParandoCampos
<1>10. CASE Servidor(m)
  <2>1. ASSUME NEW t \in Mensagens
        PROVE  Append(rede[m], t) \in Seq(Mensagens)
    BY <1>0
  <2>2. ASSUME NEW w \in {"aberto", "fechado"}
        PROVE  [sess[m] EXCEPT !.ws = w] \in Estados
    BY <1>0 DEF Estados
  <2>3. [tipo |-> "autorizado", item |-> 0] \in Mensagens
        /\ [tipo |-> "delta", item |-> gerando[m]] \in Mensagens
        /\ [tipo |-> "fala", item |-> 0] \in Mensagens
    BY <1>0 DEF Mensagens
  <2>4. F /\ aberto' = aberto /\ audioManager' = audioManager
    BY <1>5, <1>10 DEF Servidor, Autoriza, Desconecta, Responde, Fala, Conclui, Interrompe,
       vCorrida
  <2>5. K
    BY <1>10, <2>4 DEF Servidor, Autoriza, Desconecta, Responde, Fala, Conclui, Interrompe, TypeOK
  <2>6. S
    BY <1>1, <1>10, <2>2 DEF Servidor, Autoriza, Desconecta, Responde, Fala, Conclui, Interrompe
  <2>7. R
    <3>1. <<>> \in Seq(Mensagens)
      OBVIOUS
    <3> QED
      BY <1>2, <1>10, <2>1, <2>3, <3>1
         DEF Servidor, Autoriza, Desconecta, Responde, Fala, Conclui, Interrompe
  <2>8. G
    <3>1. itens + 1 \in Nat /\ 0 \in Nat
      BY DEF TypeOK
    <3> QED
      BY <1>3, <1>10, <3>1
         DEF Servidor, Autoriza, Desconecta, Responde, Fala, Conclui, Interrompe
  <2> QED
    BY <2>4, <2>5, <2>6, <2>7, <2>8
<1>11. CASE Navegador(m)
  <2>1. CASE Concede(m)
    <3>1. [sess[m] EXCEPT !.fase = "token", !.mic = TRUE, !.stream = TRUE, !.isToSend = TRUE]
            \in Estados
          /\ [sess[m] EXCEPT !.fase = "falhou"] \in Estados
      BY <1>0 DEF Estados
    <3>2. \/ sess' = [sess EXCEPT ![m] = [sess[m] EXCEPT !.fase = "token", !.mic = TRUE,
                                                      !.stream = TRUE, !.isToSend = TRUE]]
          \/ sess' = [sess EXCEPT ![m] = [sess[m] EXCEPT !.fase = "falhou"]]
      BY <2>1 DEF Concede, TypeOK
    <3>3. S
      BY <1>1, <3>1, <3>2
    <3> QED
      BY <1>2, <1>3, <1>4, <1>5, <2>1, <3>3 DEF Concede, vRede, vCorrida
  <2>2. CASE Liga(m)
    <3>1. PICK ws \in {"abrindo", "nulo"} :
            sess' = [sess EXCEPT ![m] = [sess[m] EXCEPT !.fase = "ligado", !.ws = ws]]
      BY <2>2 DEF Liga
    <3>2. [sess[m] EXCEPT !.fase = "ligado", !.ws = ws] \in Estados
      BY <1>0 DEF Estados
    <3>3. K /\ UNCHANGED <<vRede, cancelados, reabertas>>
      BY <2>2 DEF Liga, vRede, vCorrida, TypeOK
    <3> QED
      BY <1>5, <1>7, <3>1, <3>2, <3>3
  <2>3. CASE TerminaSessao(m)
    <3>1. K
      BY <2>3 DEF TerminaSessao, TypeOK
    <3>2. S
      BY <1>0, <1>1, <2>3, ParadoCampos DEF TerminaSessao
    <3>3. <<>> \in Seq(Mensagens) /\ 0 \in Nat
      OBVIOUS
    <3>4. R /\ G
      BY <1>2, <1>3, <2>3, <3>3 DEF TerminaSessao
    <3> QED
      BY <1>5, <2>3, <3>1, <3>2, <3>4 DEF TerminaSessao
  <2>4. CASE Cancela(m)
    <3>1. G
      <4>1. 0 \in Nat
        OBVIOUS
      <4> QED
        BY <1>3, <2>4, <4>1 DEF Cancela
    <3>2. F
      BY <2>4 DEF Cancela, Interrompido, F
    <3>3. S
      BY <1>0, <1>1, <2>4, CanceladoTipo DEF Cancela
    <3> QED
      BY <1>2, <1>4, <2>4, <3>1, <3>2, <3>3 DEF Cancela
  <2>5. CASE OnMessage(m)
    <3>1. Head(rede[m]) \in Mensagens /\ Tail(rede[m]) \in Seq(Mensagens)
      BY <1>0, <2>5 DEF OnMessage
    <3>2. Head(rede[m]).item \in Nat /\ [sess[m] EXCEPT !.tocador = "carrega"] \in Estados
      BY <1>0, <3>1 DEF Mensagens, Estados
    <3>3. S
      BY <1>0, <1>1, <2>5, <3>2, CanceladoTipo, TocadoTipo DEF OnMessage
    <3>4. F
      BY <2>5 DEF OnMessage, Interrompido, F
    <3>5. R
      BY <1>2, <2>5, <3>1 DEF OnMessage
    <3> QED
      BY <1>3, <1>4, <2>5, <3>3, <3>4, <3>5 DEF OnMessage
  <2>6. CASE TocadorPronto(m)
    <3> DEFINE g == IF sess[m].stream THEN "carrega" ELSE sess[m].gravador
    <3>1. [sess[m] EXCEPT !.tocador = "pronto", !.quieto = FALSE, !.gravador = g] \in Estados
      BY <1>0 DEF Estados
    <3>2. sess' = [sess EXCEPT ![m] =
                     [sess[m] EXCEPT !.tocador = "pronto", !.quieto = FALSE, !.gravador = g]]
      BY <1>0, <2>6 DEF TocadorPronto, TypeOK
    <3> QED
      BY <1>4, <1>5, <1>7, <2>6, <3>1, <3>2 DEF TocadorPronto, vRede, vCorrida
  <2>7. CASE GravadorPronto(m)
    <3>1. /\ [sess[m] EXCEPT !.gravador = "grava"] \in Estados
          /\ [sess[m] EXCEPT !.gravador = "parado", !.mic = FALSE] \in Estados
      BY <1>0 DEF Estados
    <3>2. S
      BY <1>1, <2>7, <3>1 DEF GravadorPronto
    <3> QED
      BY <1>2, <1>3, <1>4, <1>5, <2>7, <3>2 DEF GravadorPronto, vRede, vCorrida
  <2> QED
    BY <1>11, <2>1, <2>2, <2>3, <2>4, <2>5, <2>6, <2>7 DEF Navegador
<1>12. CASE Audio(m)
  <2>1. /\ [sess[m] EXCEPT !.soa = TRUE] \in Estados
        /\ [sess[m] EXCEPT !.soa = FALSE, !.buffer = {}] \in Estados
        /\ [sess[m] EXCEPT !.quieto = TRUE] \in Estados
    BY <1>0 DEF Estados
  <2>2. S
    <3>1. CASE Esvazia(m)
      <4>1. sess' = [sess EXCEPT ![m] = [sess[m] EXCEPT !.soa = FALSE, !.buffer = {}]]
        BY <3>1 DEF Esvazia, TypeOK
      <4> QED
        BY <1>1, <2>1, <4>1
    <3>2. CASE Soa(m) \/ Silencia(m)
      BY <1>1, <2>1, <3>2 DEF Soa, Silencia
    <3>3. CASE Quadro(m)
      BY <1>0, <1>1, <3>3, EscutaTipo DEF Quadro
    <3> QED
      BY <1>12, <3>1, <3>2, <3>3 DEF Audio
  <2>3. F
    BY <1>12 DEF Audio, Soa, Esvazia, Silencia, Quadro, vCorrida, F
  <2> QED
    BY <1>2, <1>3, <1>4, <1>12, <2>2, <2>3
       DEF Audio, Soa, Esvazia, Silencia, Quadro, vRede
<1> HIDE DEF Certo
<1> QED
  BY <1>8, <1>9, <1>10, <1>11, <1>12 DEF Acao

(* A session that has not got its token has nothing yet.                   *)
Comeco(m) ==
  sess[m].fase \in {"fora", "mic", "token"} =>
    /\ sess[m].ws = "nulo" /\ sess[m].tocador = "nulo" /\ sess[m].gravador = "nulo"
    /\ sess[m].buffer = {} /\ ~sess[m].soa
    /\ sess[m].itemIdCurrent = 0 /\ rede[m] = <<>> /\ gerando[m] = 0
    /\ \A c \in Nat : <<m, c>> \notin cancelados

(* The token is accepted once, before anything else is answered.           *)
UmaVez(m) ==
  /\ sess[m].ws = "abrindo" =>
       sess[m].tocador = "nulo" /\ rede[m] = <<>> /\ gerando[m] = 0
  /\ \A i \in DOMAIN rede[m] : rede[m][i].tipo = "autorizado" =>
       i = 1 /\ (sess[m].ws = "aberto" => sess[m].tocador = "nulo")
  /\ sess[m].tocador # "pronto" => sess[m].gravador = "nulo"

(* What a session that is stopping, or has stopped, still has.             *)
Calados == {"nulo", "atrasado", "parado"}
Fim(m) ==
  /\ sess[m].mic => sess[m].fase \in {"token", "ligado", "parando"}
  /\ sess[m].fase = "parando" =>
       sess[m].gravador \in Calados /\ (sess[m].gravador = "nulo" => ~sess[m].stream)
  /\ sess[m].fase = "parado" =>
       /\ ~sess[m].mic /\ ~sess[m].stream /\ sess[m].gravador \in Calados
       /\ sess[m].ws = "nulo" /\ ~sess[m].soa
  /\ sess[m].ws = "nulo" => sess[m].buffer = {}
  /\ sess[m].soa => sess[m].buffer # {}

(* The model answers its items in order, and so they arrive.               *)
EhDelta(m, i) == i \in DOMAIN rede[m] /\ rede[m][i].tipo = "delta"
Ordem(m) ==
  sess[m].ws # "nulo" =>
    /\ sess[m].itemIdCurrent <= itens
    /\ gerando[m] <= itens
    /\ gerando[m] # 0 => sess[m].itemIdCurrent <= gerando[m]
    /\ \A i \in 1..Len(rede[m]) : EhDelta(m, i) =>
         /\ rede[m][i].item <= itens /\ sess[m].itemIdCurrent <= rede[m][i].item
         /\ gerando[m] # 0 => rede[m][i].item <= gerando[m]
         /\ \A j \in 1..i : EhDelta(m, j) => rede[m][j].item <= rede[m][i].item
    /\ \A c \in Nat : <<m, c>> \in cancelados =>
         c <= sess[m].itemIdCurrent /\ (c = sess[m].itemIdCurrent => sess[m].itemIdToIgnore = c)
    /\ \A i \in sess[m].buffer : <<m, i>> \notin cancelados

(* Sound that is posted, or heard, is sent only where a piece reopened it. *)
SemEco(m) ==
  (~sess[m].headset /\ sess[m].buffer # {} /\ sess[m].isToSend) => m \in reabertas

(* Who is on the screen.                                                   *)
Comecando(m) == Iniciando(m) /\ sess[m].naTela
NoBotao ==
  /\ \A m \in Sessao : sess[m].fase = "ligado" => audioManager = m \/ m \in corridas
  /\ \A m \in Sessao : Iniciando(m) /\ ~sess[m].naTela => m \in corridas
  /\ \A m, n \in Sessao : (m # n /\ Comecando(m) /\ Comecando(n)) => m \in corridas
  /\ \A m, n \in Sessao : (Comecando(m) /\ audioManager = n) => n \in corridas


LEMMA RedeTipo ==
  ASSUME TypeOK, NEW m \in Sessao
  PROVE  \A i \in 1..Len(rede[m]) : rede[m][i] \in Mensagens /\ rede[m][i].item \in Nat
<1>1. rede[m] \in Seq(Mensagens)
  BY DEF TypeOK
<1>2. ASSUME NEW i \in 1..Len(rede[m])
      PROVE  rede[m][i] \in Mensagens
  BY <1>1, <1>2
<1> QED
  BY <1>2 DEF Mensagens

(* What the theorems need of one session.                                  *)
Tudo(m) == Comeco(m) /\ UmaVez(m) /\ Fim(m) /\ Ordem(m) /\ SemEco(m)

LEMMA Outras ==
  ASSUME TypeOK, TypeOK', NEW m \in Sessao, SoUma(m), itens <= itens',
         NEW x \in Sessao, x # m, Tudo(x)
  PROVE  Tudo(x)'
<1>0. /\ sess'[x] = sess[x] /\ rede'[x] = rede[x] /\ gerando'[x] = gerando[x]
      /\ x \in reabertas => x \in reabertas'
      /\ \A c \in Nat : <<x, c>> \in cancelados' => <<x, c>> \in cancelados
  BY DEF SoUma
<1>1. sess[x] \in Estados /\ gerando[x] \in Nat /\ itens \in Nat /\ itens' \in Nat
      /\ \A i \in 1..Len(rede[x]) : rede[x][i].item \in Nat
  BY RedeTipo DEF TypeOK
<1>2. Comeco(x)'
  BY <1>0 DEF Tudo, Comeco
<1>3. UmaVez(x)'
  BY <1>0 DEF Tudo, UmaVez
<1>4. Fim(x)'
  BY <1>0 DEF Tudo, Fim
<1>5. Ordem(x)'
  <2>1. \A i \in sess[x].buffer : i \in Nat
    BY <1>1 DEF Estados
  <2> QED
    BY <1>0, <1>1, <2>1 DEF Tudo, Ordem, EhDelta, Estados
<1>6. SemEco(x)'
  BY <1>0 DEF Tudo, SemEco
<1> QED
  BY <1>2, <1>3, <1>4, <1>5, <1>6 DEF Tudo

(* The button.                                                             *)
LEMMA BotaoTudo ==
  ASSUME TypeOK, TypeOK', NEW m \in Sessao, Tudo(m),
         (\E h \in BOOLEAN : Clica(m, h)) \/ (Desliga /\ audioManager = m)
  PROVE  Tudo(m)'
<1>0. sess[m] \in Estados
  BY DEF TypeOK
<1>1. ASSUME NEW h \in BOOLEAN, Clica(m, h)
      PROVE  Tudo(m)'
  <2>1. /\ sess'[m].fase = "mic" /\ ~sess'[m].mic /\ sess'[m].ws = "nulo" /\ sess'[m].tocador = "nulo"
        /\ sess'[m].gravador = "nulo" /\ sess'[m].buffer = {} /\ ~sess'[m].soa
        /\ sess'[m].itemIdCurrent = 0
    BY <1>1 DEF Clica, Novo, TypeOK
  <2>2. sess[m].fase = "fora" /\ UNCHANGED <<vRede, cancelados, reabertas>>
    BY <1>1 DEF Clica
  <2> QED
    BY <2>1, <2>2 DEF Tudo, Comeco, UmaVez, Fim, Ordem, SemEco, vRede
<1>2. CASE Desliga /\ audioManager = m
  <2>1. sess'[m] = Parando(sess[m]) /\ UNCHANGED <<vRede, cancelados, reabertas>>
        /\ sess[m].fase = "ligado"
    BY <1>2 DEF Desliga, TypeOK, vCorrida
  <2>2. Comeco(m)' /\ UmaVez(m)' /\ Fim(m)'
    BY <1>0, <2>1, ParandoCampos DEF Tudo, Comeco, UmaVez, Fim, vRede, Calados
  <2>3. Ordem(m)'
    BY <1>0, <2>1, ParandoCampos DEF Tudo, Ordem, EhDelta, vRede
  <2>4. SemEco(m)'
    BY <1>0, <2>1, ParandoCampos DEF Tudo, SemEco
  <2> QED
    BY <2>2, <2>3, <2>4 DEF Tudo
<1> QED
  BY <1>1, <1>2

LEMMA FechaTudo ==
  ASSUME TypeOK, NEW m \in Sessao, Tudo(m), Fecha
  PROVE  Tudo(m)' /\ sess'[m] \in Estados
<1> DEFINE s == IF m = audioManager /\ sess[m].fase = "ligado" THEN Parando(sess[m]) ELSE sess[m]
<1>0. sess[m] \in Estados /\ s \in Estados /\ UNCHANGED <<vRede, cancelados, reabertas>>
  BY ParandoCampos DEF TypeOK, Fecha
<1>1. sess'[m] = [s EXCEPT !.naTela = FALSE]
  BY DEF Fecha
<1> HIDE DEF s
<1>2. /\ sess'[m] \in Estados /\ sess'[m].fase = s.fase /\ sess'[m].mic = s.mic
      /\ sess'[m].stream = s.stream /\ sess'[m].ws = s.ws /\ sess'[m].tocador = s.tocador
      /\ sess'[m].gravador = s.gravador /\ sess'[m].isToSend = s.isToSend
      /\ sess'[m].itemIdCurrent = s.itemIdCurrent /\ sess'[m].itemIdToIgnore = s.itemIdToIgnore
      /\ sess'[m].buffer = s.buffer /\ sess'[m].soa = s.soa /\ sess'[m].headset = s.headset
  BY <1>0, <1>1 DEF Estados
<1>3. CASE s = sess[m]
  <2>1. Comeco(m)' /\ UmaVez(m)' /\ Fim(m)' /\ SemEco(m)'
    BY <1>0, <1>2, <1>3 DEF Tudo, Comeco, UmaVez, Fim, SemEco, vRede
  <2>2. Ordem(m)'
    BY <1>0, <1>2, <1>3 DEF Tudo, Ordem, EhDelta, vRede
  <2> QED
    BY <1>2, <2>1, <2>2 DEF Tudo
<1>4. CASE s = Parando(sess[m]) /\ sess[m].fase = "ligado"
  <2>1. Comeco(m)' /\ UmaVez(m)' /\ Fim(m)'
    BY <1>0, <1>2, <1>4, ParandoCampos DEF Tudo, Comeco, UmaVez, Fim, vRede, Calados
  <2>2. Ordem(m)'
    BY <1>0, <1>2, <1>4, ParandoCampos DEF Tudo, Ordem, EhDelta, vRede
  <2>3. SemEco(m)'
    BY <1>0, <1>2, <1>4, ParandoCampos DEF Tudo, SemEco
  <2> QED
    BY <1>2, <2>1, <2>2, <2>3 DEF Tudo
<1> QED
  BY <1>3, <1>4 DEF s

(* The server: the items it answers, and the messages it sends.            *)
LEMMA ServidorTudo ==
  ASSUME TypeOK, TypeOK', NEW m \in Sessao, Tudo(m), Servidor(m)
  PROVE  Tudo(m)'
<1>0. /\ sess[m] \in Estados /\ rede[m] \in Seq(Mensagens) /\ gerando[m] \in Nat /\ itens \in Nat
      /\ \A i \in 1..Len(rede[m]) : rede[m][i].item \in Nat
  BY RedeTipo DEF TypeOK
<1>1. CASE Autoriza(m)
  <2>1. /\ sess[m].ws = "abrindo" /\ rede[m] = <<>>
        /\ sess'[m] = [sess[m] EXCEPT !.ws = "aberto"]
        /\ rede'[m] = <<[tipo |-> "autorizado", item |-> 0]>>
        /\ UNCHANGED <<gerando, itens, cancelados, reabertas>>
    BY <1>0, <1>1 DEF Autoriza, TypeOK, vCorrida, Tudo, UmaVez
  <2>2. Comeco(m)' /\ UmaVez(m)' /\ Fim(m)' /\ SemEco(m)'
    BY <1>0, <2>1 DEF Tudo, Comeco, UmaVez, Fim, SemEco, Estados, Calados
  <2>3. Ordem(m)'
    BY <1>0, <2>1 DEF Tudo, Ordem, EhDelta, Estados
  <2> QED
    BY <2>2, <2>3 DEF Tudo
<1>2. CASE Desconecta(m)
  <2>1. /\ sess[m].ws \in {"abrindo", "aberto"}
        /\ sess'[m] = [sess[m] EXCEPT !.ws = "fechado"] /\ rede'[m] = <<>> /\ gerando'[m] = 0
        /\ UNCHANGED <<itens, cancelados, reabertas>>
    BY <1>0, <1>2 DEF Desconecta, TypeOK, vCorrida
  <2>2. Comeco(m)' /\ UmaVez(m)' /\ Fim(m)' /\ SemEco(m)'
    BY <1>0, <2>1 DEF Tudo, Comeco, UmaVez, Fim, SemEco, Estados, Calados
  <2>3. Ordem(m)'
    BY <1>0, <2>1 DEF Tudo, Ordem, EhDelta, Estados
  <2> QED
    BY <2>2, <2>3 DEF Tudo
<1>3. ASSUME UNCHANGED <<sess, cancelados, reabertas>>, rede'[m] = rede[m], sess[m].ws = "aberto",
             itens <= itens', itens' \in Nat, gerando'[m] \in Nat,
             gerando'[m] = 0 \/ (gerando'[m] = itens' /\ itens' = itens + 1)
      PROVE  Tudo(m)'
  <2>1. Comeco(m)' /\ UmaVez(m)' /\ Fim(m)' /\ SemEco(m)'
    BY <1>0, <1>3 DEF Tudo, Comeco, UmaVez, Fim, SemEco, Calados
  <2>2. Ordem(m)'
    BY <1>0, <1>3 DEF Tudo, Ordem, EhDelta, Estados
  <2> QED
    BY <2>1, <2>2 DEF Tudo
<1>4. CASE Responde(m) \/ Conclui(m)
  BY <1>0, <1>3, <1>4 DEF Responde, Conclui, Vivo, TypeOK, vCorrida
<1>5. ASSUME NEW t \in Mensagens, UNCHANGED <<sess, itens, cancelados, reabertas>>, sess[m].ws = "aberto",
             rede'[m] = Append(rede[m], t),
             \/ t.tipo = "delta" /\ gerando[m] # 0 /\ t.item = gerando[m] /\ gerando'[m] = gerando[m]
             \/ t.tipo = "fala" /\ gerando'[m] = 0
      PROVE  Tudo(m)'
  <2>0. /\ Len(rede'[m]) = Len(rede[m]) + 1 /\ Len(rede[m]) \in Nat
        /\ \A i \in 1..Len(rede[m]) : rede'[m][i] = rede[m][i]
        /\ rede'[m][Len(rede[m]) + 1] = t
        /\ DOMAIN rede[m] = 1..Len(rede[m]) /\ DOMAIN rede'[m] = 1..Len(rede[m]) + 1
    BY <1>0, <1>5
  <2>1. Comeco(m)' /\ Fim(m)' /\ SemEco(m)'
    BY <1>0, <1>5 DEF Tudo, Comeco, Fim, SemEco, Calados
  <2>2. UmaVez(m)'
    BY <1>0, <1>5, <2>0 DEF Tudo, UmaVez
  <2>3. Ordem(m)'
    <3> DEFINE k == Len(rede[m]) + 1
    <3>1. \A i \in 1..Len(rede[m]) : EhDelta(m, i)' <=> EhDelta(m, i)
      BY <2>0 DEF EhDelta
    <3>2. ASSUME NEW i \in 1..k, EhDelta(m, i)'
          PROVE  /\ rede'[m][i].item <= itens /\ sess[m].itemIdCurrent <= rede'[m][i].item
                 /\ gerando'[m] # 0 => rede'[m][i].item <= gerando'[m]
                 /\ \A j \in 1..i : EhDelta(m, j)' => rede'[m][j].item <= rede'[m][i].item
      <4>1. CASE i \in 1..Len(rede[m])
        BY <1>0, <1>5, <2>0, <3>1, <3>2, <4>1 DEF Tudo, Ordem
      <4>2. CASE i = k
        <5>1. t.tipo = "delta" /\ gerando[m] # 0 /\ t.item = gerando[m] /\ gerando'[m] = gerando[m]
          BY <1>5, <2>0, <3>2, <4>2 DEF EhDelta
        <5>2. \A j \in 1..Len(rede[m]) : EhDelta(m, j) => rede[m][j].item <= gerando[m]
          BY <1>0, <1>5, <5>1 DEF Tudo, Ordem
        <5>3. gerando[m] <= itens /\ sess[m].itemIdCurrent <= gerando[m]
          BY <1>5, <5>1 DEF Tudo, Ordem
        <5>4. \A j \in 1..k : j \in 1..Len(rede[m]) \/ j = k
          BY <2>0
        <5>5. rede'[m][k].item = gerando[m]
          BY <2>0, <5>1
        <5> HIDE DEF k
        <5>6. ASSUME NEW j \in 1..i, EhDelta(m, j)'
              PROVE  rede'[m][j].item <= rede'[m][i].item
          <6>1. CASE j = k
            BY <1>0, <4>2, <5>5, <6>1
          <6>2. CASE j \in 1..Len(rede[m])
            BY <2>0, <3>1, <4>2, <5>2, <5>5, <5>6, <6>2
          <6> QED
            BY <4>2, <5>4, <6>1, <6>2
        <5> QED
          BY <1>0, <4>2, <5>1, <5>3, <5>5, <5>6
      <4> QED
        BY <2>0, <4>1, <4>2
    <3>3. gerando'[m] = gerando[m] \/ gerando'[m] = 0
      BY <1>5
    <3>4. /\ sess[m].itemIdCurrent <= itens /\ gerando[m] <= itens
          /\ gerando[m] # 0 => sess[m].itemIdCurrent <= gerando[m]
          /\ \A c \in Nat : <<m, c>> \in cancelados =>
               c <= sess[m].itemIdCurrent
               /\ (c = sess[m].itemIdCurrent => sess[m].itemIdToIgnore = c)
          /\ \A i \in sess[m].buffer : <<m, i>> \notin cancelados
      BY <1>5 DEF Tudo, Ordem
    <3>5. UNCHANGED <<sess, itens, cancelados>> /\ 1..Len(rede'[m]) = 1..k
      BY <1>5, <2>0
    <3>6. ASSUME NEW i \in 1..Len(rede'[m]), EhDelta(m, i)'
          PROVE  /\ rede'[m][i].item <= itens' /\ sess'[m].itemIdCurrent <= rede'[m][i].item
                 /\ gerando'[m] # 0 => rede'[m][i].item <= gerando'[m]
                 /\ \A j \in 1..i : EhDelta(m, j)' => rede'[m][j].item <= rede'[m][i].item
      BY <3>2, <3>5, <3>6
    <3>7. /\ sess'[m].itemIdCurrent <= itens' /\ gerando'[m] <= itens'
          /\ gerando'[m] # 0 => sess'[m].itemIdCurrent <= gerando'[m]
      BY <1>0, <3>3, <3>4, <3>5
    <3> QED
      BY <3>4, <3>5, <3>6, <3>7 DEF Ordem
  <2> QED
    BY <2>1, <2>2, <2>3 DEF Tudo
<1>6. CASE Fala(m)
  <2>1. [tipo |-> "delta", item |-> gerando[m]] \in Mensagens
    BY <1>0 DEF Mensagens
  <2> QED
    BY <1>5, <1>6, <2>1 DEF Fala, Vivo, TypeOK, vCorrida
<1>7. CASE Interrompe(m)
  <2>1. [tipo |-> "fala", item |-> 0] \in Mensagens
    BY DEF Mensagens
  <2> QED
    BY <1>5, <1>7, <2>1 DEF Interrompe, Vivo, TypeOK, vCorrida
<1> QED
  BY <1>1, <1>2, <1>4, <1>6, <1>7 DEF Servidor

(* The browser: the session starts and ends.                               *)
LEMMA SessaoTudo ==
  ASSUME TypeOK, TypeOK', NEW m \in Sessao, Tudo(m),
         Concede(m) \/ Liga(m) \/ TerminaSessao(m) \/ TocadorPronto(m) \/ GravadorPronto(m)
  PROVE  Tudo(m)'
<1>0. sess[m] \in Estados /\ gerando[m] \in Nat /\ itens \in Nat
  BY DEF TypeOK
<1>1. CASE Concede(m)
  <2>1. /\ sess[m].fase = "mic" /\ UNCHANGED <<vRede, cancelados, reabertas>>
        /\ \/ sess'[m] = [sess[m] EXCEPT !.fase = "token", !.mic = TRUE, !.stream = TRUE,
                                         !.isToSend = TRUE]
           \/ sess'[m] = [sess[m] EXCEPT !.fase = "falhou"]
    BY <1>1 DEF Concede, TypeOK, vCorrida
  <2>2. /\ sess'[m].fase \in {"token", "falhou"} /\ sess'[m].ws = "nulo"
        /\ sess'[m].tocador = "nulo" /\ sess'[m].gravador = "nulo" /\ sess'[m].buffer = {}
        /\ ~sess'[m].soa /\ sess'[m].itemIdCurrent = sess[m].itemIdCurrent
        /\ sess'[m].mic => sess'[m].fase = "token"
    BY <1>0, <2>1 DEF Estados, Tudo, Comeco, Fim
  <2>3. /\ rede[m] = <<>> /\ gerando[m] = 0 /\ sess[m].itemIdCurrent = 0
        /\ \A c \in Nat : <<m, c>> \notin cancelados
    BY <2>1 DEF Tudo, Comeco
  <2>4. Comeco(m)'
    BY <2>1, <2>2, <2>3 DEF Comeco, vRede
  <2>5. UmaVez(m)'
    BY <2>1, <2>2, <2>3 DEF UmaVez, vRede
  <2>6. Fim(m)'
    BY <2>2 DEF Fim
  <2> QED
    BY <2>2, <2>4, <2>5, <2>6 DEF Tudo, Ordem, SemEco
<1>2. CASE Liga(m)
  <2>1. /\ sess[m].fase = "token" /\ UNCHANGED <<vRede, cancelados, reabertas>>
        /\ \E w \in {"abrindo", "nulo"} :
             sess'[m] = [sess[m] EXCEPT !.fase = "ligado", !.ws = w]
    BY <1>2 DEF Liga, TypeOK, vCorrida
  <2>2. /\ sess'[m].fase = "ligado" /\ sess'[m].ws \in {"abrindo", "nulo"}
        /\ sess'[m].tocador = "nulo" /\ sess'[m].gravador = "nulo" /\ sess'[m].buffer = {}
        /\ ~sess'[m].soa /\ sess'[m].itemIdCurrent = 0
        /\ rede[m] = <<>> /\ gerando[m] = 0 /\ \A c \in Nat : <<m, c>> \notin cancelados
    BY <1>0, <2>1 DEF Estados, Tudo, Comeco
  <2> QED
    BY <1>0, <2>1, <2>2 DEF Tudo, Comeco, UmaVez, Fim, Ordem, SemEco, vRede, EhDelta
<1>3. CASE TerminaSessao(m)
  <2>1. /\ sess[m].fase = "parando" /\ sess'[m] = Parado(sess[m])
        /\ rede'[m] = <<>> /\ gerando'[m] = 0
        /\ UNCHANGED <<itens, cancelados, reabertas>>
    BY <1>3 DEF TerminaSessao, TypeOK
  <2> QED
    BY <1>0, <2>1, ParadoCampos DEF Tudo, Comeco, UmaVez, Fim, Ordem, SemEco
<1>4. CASE TocadorPronto(m)
  <2>1. /\ sess[m].tocador = "carrega" /\ UNCHANGED <<vRede, cancelados, reabertas>>
        /\ sess'[m] = [sess[m] EXCEPT !.tocador = "pronto", !.quieto = FALSE,
                         !.gravador = IF sess[m].stream THEN "carrega" ELSE sess[m].gravador]
    BY <1>4 DEF TocadorPronto, TypeOK, vCorrida
  <2>2. Comeco(m)' /\ UmaVez(m)' /\ Fim(m)' /\ SemEco(m)'
    BY <1>0, <2>1 DEF Tudo, Comeco, UmaVez, Fim, SemEco, vRede, Estados, Calados
  <2>3. Ordem(m)'
    BY <1>0, <2>1 DEF Tudo, Ordem, EhDelta, vRede, Estados
  <2> QED
    BY <2>2, <2>3 DEF Tudo
<1>5. CASE GravadorPronto(m)
  <2>1. /\ sess[m].gravador \in {"carrega", "atrasado"}
        /\ UNCHANGED <<vRede, cancelados, reabertas>>
        /\ \/ /\ sess[m].gravador = "carrega"
              /\ sess'[m] = [sess[m] EXCEPT !.gravador = "grava"]
           \/ sess'[m] = [sess[m] EXCEPT !.gravador = "parado", !.mic = FALSE]
    BY <1>5 DEF GravadorPronto, TypeOK, vCorrida
  <2>2. Comeco(m)' /\ UmaVez(m)' /\ Fim(m)' /\ SemEco(m)'
    BY <1>0, <2>1 DEF Tudo, Comeco, UmaVez, Fim, SemEco, vRede, Estados, Calados
  <2>3. /\ sess'[m].ws = sess[m].ws /\ sess'[m].buffer = sess[m].buffer
        /\ sess'[m].itemIdCurrent = sess[m].itemIdCurrent
        /\ sess'[m].itemIdToIgnore = sess[m].itemIdToIgnore
    BY <1>0, <2>1 DEF Estados
  <2>4. Ordem(m)'
    BY <2>1, <2>3 DEF Tudo, Ordem, EhDelta, vRede
  <2> QED
    BY <2>2, <2>4 DEF Tudo
<1> QED
  BY <1>1, <1>2, <1>3, <1>4, <1>5

(* The answer is cancelled, by the user or by a message.                   *)
LEMMA CancelaTudo ==
  ASSUME TypeOK, NEW m \in Sessao, Tudo(m), sess[m].ws # "nulo",
         sess'[m] = Cancelado(sess[m]), cancelados' = cancelados \cup Interrompido(m),
         UNCHANGED <<itens, reabertas>>, rede'[m] = rede[m], gerando'[m] \in {gerando[m], 0}
  PROVE  Tudo(m)'
<1>0. /\ sess[m] \in Estados /\ gerando[m] \in Nat /\ itens \in Nat
      /\ \A i \in 1..Len(rede[m]) : rede[m][i].item \in Nat
  BY RedeTipo DEF TypeOK
<1>1. sess'[m] = [sess[m] EXCEPT !.itemIdToIgnore = sess[m].itemIdCurrent, !.buffer = {},
                                !.soa = FALSE]
  BY DEF Cancelado
<1>2. sess[m].fase \notin {"fora", "mic", "token"}
  BY DEF Tudo, Comeco
<1>3. Comeco(m)' /\ UmaVez(m)' /\ Fim(m)' /\ SemEco(m)'
  BY <1>0, <1>1, <1>2 DEF Tudo, Comeco, UmaVez, Fim, SemEco, Estados, Calados
<1>4. Ordem(m)'
  <2>1. \A c \in Nat : <<m, c>> \in cancelados' =>
          <<m, c>> \in cancelados \/ c = sess[m].itemIdCurrent
    BY DEF Interrompido
  <2>2. \A c \in Nat : <<m, c>> \in cancelados' =>
          c <= sess[m].itemIdCurrent /\ (c = sess[m].itemIdCurrent => sess[m].itemIdCurrent = c)
    BY <1>0, <2>1 DEF Tudo, Ordem, Estados
  <2>3. /\ sess'[m].buffer = {} /\ sess'[m].itemIdCurrent = sess[m].itemIdCurrent
        /\ sess'[m].itemIdToIgnore = sess[m].itemIdCurrent /\ sess'[m].ws = sess[m].ws
    BY <1>0, <1>1 DEF Estados
  <2> QED
    BY <1>0, <2>2, <2>3 DEF Tudo, Ordem, EhDelta, Estados
<1> QED
  BY <1>3, <1>4 DEF Tudo

(* A message is taken: those behind it move up.                            *)
LEMMA Adianta ==
  ASSUME TypeOK, NEW m \in Sessao, Tudo(m), sess[m].ws = "aberto", rede[m] # <<>>,
         rede'[m] = Tail(rede[m])
  PROVE  /\ Len(rede'[m]) \in Nat /\ Len(rede[m]) = Len(rede'[m]) + 1
         /\ DOMAIN rede'[m] = 1..Len(rede'[m])
         /\ \A i \in 1..Len(rede'[m]) :
              rede'[m][i] = rede[m][i + 1] /\ rede'[m][i].tipo # "autorizado"
<1>1. rede[m] \in Seq(Mensagens)
  BY DEF TypeOK
<1>2. /\ Len(rede'[m]) \in Nat /\ Len(rede[m]) = Len(rede'[m]) + 1
      /\ DOMAIN rede'[m] = 1..Len(rede'[m]) /\ DOMAIN rede[m] = 1..Len(rede[m])
      /\ \A i \in 1..Len(rede'[m]) : rede'[m][i] = rede[m][i + 1]
  BY <1>1
<1>3. ASSUME NEW i \in 1..Len(rede'[m])
      PROVE  rede'[m][i].tipo # "autorizado"
  <2>1. i + 1 \in DOMAIN rede[m] /\ i + 1 # 1
    BY <1>2
  <2> QED
    BY <1>2, <2>1 DEF Tudo, UmaVez
<1> QED
  BY <1>2, <1>3

(* ... and what is in order stays so.                                      *)
LEMMA OrdemAdiante ==
  ASSUME TypeOK, NEW m \in Sessao, Tudo(m), sess[m].ws = "aberto", rede[m] # <<>>,
         rede'[m] = Tail(rede[m]), NEW i \in 1..Len(rede'[m]), EhDelta(m, i)'
  PROVE  /\ rede'[m][i].item \in Nat /\ rede'[m][i].item <= itens
         /\ sess[m].itemIdCurrent <= rede'[m][i].item
         /\ gerando[m] # 0 => rede'[m][i].item <= gerando[m]
         /\ \A j \in 1..i : EhDelta(m, j)' => rede'[m][j].item <= rede'[m][i].item
         /\ rede[m][1].tipo = "delta" => rede[m][1].item <= rede'[m][i].item
<1>1. /\ Len(rede'[m]) \in Nat /\ Len(rede[m]) = Len(rede'[m]) + 1
      /\ DOMAIN rede'[m] = 1..Len(rede'[m]) /\ DOMAIN rede[m] = 1..Len(rede[m])
      /\ \A j \in 1..Len(rede'[m]) : rede'[m][j] = rede[m][j + 1]
  <2>1. rede[m] \in Seq(Mensagens)
    BY DEF TypeOK
  <2> QED
    BY <2>1, Adianta
<1>2. i + 1 \in 1..Len(rede[m]) /\ EhDelta(m, i + 1) /\ rede'[m][i] = rede[m][i + 1]
  BY <1>1 DEF EhDelta
<1>3. rede[m][i + 1].item \in Nat
  BY <1>2, RedeTipo
<1>4. /\ rede[m][i + 1].item <= itens /\ sess[m].itemIdCurrent <= rede[m][i + 1].item
      /\ gerando[m] # 0 => rede[m][i + 1].item <= gerando[m]
      /\ \A j \in 1..(i + 1) : EhDelta(m, j) => rede[m][j].item <= rede[m][i + 1].item
  BY <1>2 DEF Tudo, Ordem
<1>5. ASSUME NEW j \in 1..i, EhDelta(m, j)'
      PROVE  rede'[m][j].item <= rede'[m][i].item
  <2>1. j \in 1..Len(rede'[m]) /\ j + 1 \in 1..(i + 1) /\ j + 1 \in DOMAIN rede[m]
    BY <1>1
  <2>2. EhDelta(m, j + 1)
    BY <1>1, <1>5, <2>1 DEF EhDelta
  <2> QED
    BY <1>1, <1>2, <1>4, <2>1, <2>2
<1>6. rede[m][1].tipo = "delta" => EhDelta(m, 1) /\ 1 \in 1..(i + 1)
  BY <1>1, <1>2 DEF EhDelta
<1> QED
  BY <1>2, <1>3, <1>4, <1>5, <1>6

LEMMA EscutaCampos ==
  ASSUME NEW s \in Estados
  PROVE  /\ Escuta(s).fase = s.fase /\ Escuta(s).mic = s.mic /\ Escuta(s).stream = s.stream
         /\ Escuta(s).ws = s.ws /\ Escuta(s).tocador = s.tocador
         /\ Escuta(s).gravador = s.gravador /\ Escuta(s).buffer = s.buffer
         /\ Escuta(s).soa = s.soa /\ Escuta(s).headset = s.headset
         /\ Escuta(s).itemIdCurrent = s.itemIdCurrent
         /\ Escuta(s).itemIdToIgnore = s.itemIdToIgnore
         /\ Escuta(s).naTela = s.naTela
         /\ Escuta(s).isToSend => s.isToSend \/ ~s.soa
<1>1. Escuta(s) \in {s, [s EXCEPT !.quieto = FALSE]} \/
        (~s.soa /\ Escuta(s) = [s EXCEPT !.isToSend = TRUE])
  BY DEF Escuta
<1> QED
  BY <1>1 DEF Estados

LEMMA TocadoCampos ==
  ASSUME NEW s \in Estados, NEW item \in Nat
  PROVE  /\ Tocado(s, item).fase = s.fase /\ Tocado(s, item).mic = s.mic
         /\ Tocado(s, item).stream = s.stream
         /\ Tocado(s, item).ws = s.ws /\ Tocado(s, item).tocador = s.tocador
         /\ Tocado(s, item).gravador = s.gravador
         /\ Tocado(s, item).soa = s.soa /\ Tocado(s, item).headset = s.headset
         /\ Tocado(s, item).itemIdCurrent = item
         /\ Tocado(s, item).itemIdToIgnore = s.itemIdToIgnore
         /\ Tocado(s, item).naTela = s.naTela
         /\ Tocado(s, item).buffer =
              IF item = s.itemIdToIgnore THEN s.buffer ELSE s.buffer \cup {item}
         /\ (item = s.itemIdToIgnore) => Tocado(s, item).isToSend = s.isToSend
         /\ (item # s.itemIdToIgnore /\ ~s.headset /\ Tocado(s, item).isToSend) => ~s.soa
<1> DEFINE novo == [s EXCEPT !.itemIdCurrent = item]
           comSom == [novo EXCEPT !.buffer = novo.buffer \cup {item}]
           mudo == [novo EXCEPT !.buffer = novo.buffer \cup {item}, !.isToSend = FALSE,
                                !.monitor = TRUE]
<1>1. novo \in Estados /\ comSom \in Estados /\ mudo \in Estados
  BY DEF Estados
<1>2. CASE item = s.itemIdToIgnore
  <2>1. Tocado(s, item) = novo
    BY <1>2 DEF Tocado
  <2> QED
    BY <1>2, <2>1 DEF Estados
<1>3. CASE item # s.itemIdToIgnore /\ s.headset
  <2>1. Tocado(s, item) = comSom
    BY <1>3 DEF Tocado
  <2> QED
    BY <1>3, <2>1 DEF Estados
<1>4. CASE item # s.itemIdToIgnore /\ ~s.headset
  <2>1. Tocado(s, item) = Escuta(mudo)
    BY <1>4 DEF Tocado
  <2>2. /\ mudo.fase = s.fase /\ mudo.mic = s.mic /\ mudo.stream = s.stream /\ mudo.ws = s.ws
        /\ mudo.tocador = s.tocador /\ mudo.gravador = s.gravador /\ mudo.soa = s.soa
        /\ mudo.headset = s.headset /\ mudo.itemIdCurrent = item
        /\ mudo.itemIdToIgnore = s.itemIdToIgnore /\ mudo.naTela = s.naTela
        /\ mudo.buffer = s.buffer \cup {item} /\ ~mudo.isToSend
    BY DEF Estados
  <2> HIDE DEF mudo
  <2> QED
    BY <1>1, <1>4, <2>1, <2>2, EscutaCampos
<1> QED
  BY <1>2, <1>3, <1>4

LEMMA RecebeTudo ==
  ASSUME TypeOK, TypeOK', NEW m \in Sessao, Tudo(m), OnMessage(m)
  PROVE  Tudo(m)'
<1>0. /\ sess[m] \in Estados /\ gerando[m] \in Nat /\ itens \in Nat
      /\ UNCHANGED <<gerando, itens>> /\ sess[m].ws = "aberto" /\ rede[m] # <<>>
      /\ rede'[m] = Tail(rede[m]) /\ rede[m] \in Seq(Mensagens)
  BY DEF TypeOK, OnMessage, Vivo
<1>1. /\ Head(rede[m]) = rede[m][1] /\ 1 \in 1..Len(rede[m]) /\ rede[m][1] \in Mensagens
      /\ rede[m][1].item \in Nat /\ DOMAIN rede[m] = 1..Len(rede[m])
  <2>1. Head(rede[m]) = rede[m][1] /\ 1 \in 1..Len(rede[m]) /\ DOMAIN rede[m] = 1..Len(rede[m])
    BY <1>0
  <2> QED
    BY <2>1, RedeTipo
<1>2. sess[m].fase \notin {"fora", "mic", "token"}
  BY <1>0 DEF Tudo, Comeco
<1>3. /\ DOMAIN rede'[m] = 1..Len(rede'[m]) /\ Len(rede'[m]) \in Nat
      /\ \A i \in 1..Len(rede'[m]) : rede'[m][i].tipo # "autorizado"
  BY <1>0, Adianta
<1>4. ASSUME sess'[m].ws = "aberto",
             sess'[m].tocador # "pronto" => sess'[m].gravador = "nulo"
      PROVE  UmaVez(m)'
  BY <1>3, <1>4 DEF UmaVez
<1>5. ASSUME sess'[m].ws = "aberto", sess'[m].itemIdCurrent = sess[m].itemIdCurrent,
             sess'[m].itemIdToIgnore \in {sess[m].itemIdToIgnore, sess[m].itemIdCurrent},
             \A c \in Nat : <<m, c>> \in cancelados' =>
               <<m, c>> \in cancelados
                 \/ (c = sess[m].itemIdCurrent /\ sess'[m].itemIdToIgnore = c),
             \A i \in sess'[m].buffer : <<m, i>> \notin cancelados'
      PROVE  Ordem(m)'
  <2>1. \A i \in 1..Len(rede'[m]) : EhDelta(m, i)' =>
          /\ rede'[m][i].item <= itens /\ sess[m].itemIdCurrent <= rede'[m][i].item
          /\ gerando[m] # 0 => rede'[m][i].item <= gerando[m]
          /\ \A j \in 1..i : EhDelta(m, j)' => rede'[m][j].item <= rede'[m][i].item
    BY <1>0, OrdemAdiante
  <2>2. \A c \in Nat : <<m, c>> \in cancelados' =>
          c <= sess[m].itemIdCurrent /\ (c = sess[m].itemIdCurrent => sess'[m].itemIdToIgnore = c)
    BY <1>0, <1>5 DEF Tudo, Ordem, Estados
  <2> QED
    BY <1>0, <1>5, <2>1, <2>2 DEF Tudo, Ordem
<1>6. CASE /\ rede[m][1].tipo = "autorizado"
           /\ sess' = [sess EXCEPT ![m].tocador = "carrega"]
           /\ UNCHANGED <<cancelados, reabertas>>
  <2>1. sess'[m] = [sess[m] EXCEPT !.tocador = "carrega"]
    BY <1>6 DEF TypeOK
  <2>2. sess[m].tocador = "nulo" /\ sess[m].gravador = "nulo"
    BY <1>0, <1>1, <1>6 DEF Tudo, UmaVez
  <2>3. UmaVez(m)'
    BY <1>0, <1>4, <2>1, <2>2 DEF Estados
  <2>4. Comeco(m)' /\ Fim(m)' /\ SemEco(m)'
    BY <1>0, <1>2, <1>6, <2>1 DEF Tudo, Comeco, Fim, SemEco, Estados, Calados
  <2>5. Ordem(m)'
    BY <1>0, <1>5, <1>6, <2>1 DEF Tudo, Ordem, Estados
  <2> QED
    BY <2>3, <2>4, <2>5 DEF Tudo
<1>7. CASE /\ rede[m][1].tipo = "fala" /\ sess' = [sess EXCEPT ![m] = Cancelado(sess[m])]
           /\ cancelados' = cancelados \cup Interrompido(m) /\ UNCHANGED reabertas
  <2>1. sess'[m] = [sess[m] EXCEPT !.itemIdToIgnore = sess[m].itemIdCurrent, !.buffer = {},
                                  !.soa = FALSE]
    BY <1>7 DEF Cancelado, TypeOK
  <2>2. UmaVez(m)'
    BY <1>0, <1>4, <2>1 DEF Estados, Tudo, UmaVez
  <2>3. /\ sess'[m].fase = sess[m].fase /\ sess'[m].mic = sess[m].mic
        /\ sess'[m].gravador = sess[m].gravador /\ sess'[m].stream = sess[m].stream
        /\ sess'[m].ws = "aberto" /\ sess'[m].buffer = {} /\ ~sess'[m].soa
    BY <1>0, <2>1 DEF Estados
  <2>5. Comeco(m)' /\ Fim(m)' /\ SemEco(m)'
    BY <1>0, <1>2, <2>3 DEF Tudo, Comeco, Fim, SemEco
  <2>4. Ordem(m)'
    <3>1. \A c \in Nat : <<m, c>> \in cancelados' =>
            <<m, c>> \in cancelados \/ c = sess[m].itemIdCurrent
      BY <1>7 DEF Interrompido
    <3> QED
      BY <1>0, <1>5, <2>1, <3>1 DEF Estados
  <2> QED
    BY <2>2, <2>4, <2>5 DEF Tudo
<1>8. CASE /\ rede[m][1].tipo = "delta"
           /\ sess' = [sess EXCEPT ![m] = Tocado(sess[m], rede[m][1].item)]
           /\ reabertas' = IF Reaberta(sess'[m]) THEN reabertas \cup {m}
                           ELSE IF sess'[m].isToSend THEN reabertas ELSE reabertas \ {m}
           /\ UNCHANGED cancelados
  <2> DEFINE x == rede[m][1].item
  <2>1. x \in Nat /\ sess'[m] = Tocado(sess[m], x)
    BY <1>1, <1>8 DEF TypeOK
  <2>2. EhDelta(m, 1) /\ 1 \in 1..1
    BY <1>1, <1>8 DEF EhDelta
  <2>3. x <= itens /\ sess[m].itemIdCurrent <= x /\ (gerando[m] # 0 => x <= gerando[m])
        /\ gerando[m] <= itens
    BY <1>0, <1>1, <2>2 DEF Tudo, Ordem
  <2>4. \A i \in 1..Len(rede'[m]) : EhDelta(m, i)' =>
          /\ rede'[m][i].item <= itens /\ x <= rede'[m][i].item
          /\ gerando[m] # 0 => rede'[m][i].item <= gerando[m]
          /\ \A j \in 1..i : EhDelta(m, j)' => rede'[m][j].item <= rede'[m][i].item
    BY <1>0, <1>8, OrdemAdiante
  <2> HIDE DEF x
  <2>11. /\ sess'[m].fase = sess[m].fase /\ sess'[m].mic = sess[m].mic
         /\ sess'[m].stream = sess[m].stream /\ sess'[m].ws = "aberto"
         /\ sess'[m].tocador = sess[m].tocador /\ sess'[m].gravador = sess[m].gravador
         /\ sess'[m].soa = sess[m].soa /\ sess'[m].headset = sess[m].headset
         /\ sess'[m].itemIdCurrent = x /\ sess'[m].itemIdToIgnore = sess[m].itemIdToIgnore
         /\ x = sess[m].itemIdToIgnore =>
              sess'[m].buffer = sess[m].buffer /\ sess'[m].isToSend = sess[m].isToSend
         /\ x # sess[m].itemIdToIgnore =>
              /\ sess'[m].buffer = sess[m].buffer \cup {x}
              /\ ~sess[m].headset /\ sess'[m].isToSend => ~sess[m].soa
    <3> DEFINE t == Tocado(sess[m], x)
    <3>0. sess[m] \in Estados /\ x \in Nat
      BY <1>0, <2>1
    <3>1. /\ t.fase = sess[m].fase /\ t.mic = sess[m].mic /\ t.stream = sess[m].stream
          /\ t.ws = sess[m].ws /\ t.tocador = sess[m].tocador /\ t.gravador = sess[m].gravador
          /\ t.soa = sess[m].soa /\ t.headset = sess[m].headset /\ t.itemIdCurrent = x
          /\ t.itemIdToIgnore = sess[m].itemIdToIgnore
          /\ t.buffer = IF x = sess[m].itemIdToIgnore THEN sess[m].buffer
                        ELSE sess[m].buffer \cup {x}
          /\ x = sess[m].itemIdToIgnore => t.isToSend = sess[m].isToSend
          /\ (x # sess[m].itemIdToIgnore /\ ~sess[m].headset /\ t.isToSend) => ~sess[m].soa
      BY ONLY <3>0, TocadoCampos, Zenon
    <3>2. sess'[m] = t
      BY <2>1
    <3> HIDE DEF t
    <3> QED
      BY <1>0, <3>1, <3>2
  <2>5. UmaVez(m)'
    BY <1>0, <1>4, <2>11 DEF Tudo, UmaVez
  <2>6. Comeco(m)' /\ Fim(m)'
    BY <1>0, <1>2, <2>11 DEF Tudo, Comeco, Fim
  <2>7. SemEco(m)'
    BY <1>0, <1>8, <2>11 DEF Tudo, Fim, SemEco, Reaberta
  <2>8. \A c \in Nat : <<m, c>> \in cancelados =>
          c <= x /\ (c = x => sess[m].itemIdToIgnore = c)
    BY <1>0, <2>1, <2>3 DEF Tudo, Ordem, Estados
  <2>9. \A i \in sess'[m].buffer : <<m, i>> \notin cancelados
    <3>1. \A i \in sess[m].buffer : <<m, i>> \notin cancelados
      BY <1>0 DEF Tudo, Ordem
    <3>2. x # sess[m].itemIdToIgnore => <<m, x>> \notin cancelados
      BY <2>1, <2>8
    <3> QED
      BY <2>11, <3>1, <3>2
  <2>12. \A c \in Nat : <<m, c>> \in cancelados' =>
           c <= x /\ (c = x => sess'[m].itemIdToIgnore = c)
    BY <1>8, <2>8, <2>11
  <2>10. Ordem(m)'
    BY <1>0, <1>8, <2>3, <2>4, <2>9, <2>11, <2>12 DEF Ordem
  <2> QED
    BY <2>5, <2>6, <2>7, <2>10 DEF Tudo
<1> QED
  BY <1>1, <1>6, <1>7, <1>8 DEF OnMessage

(* The player, and the frames that listen to it.                           *)
LEMMA AudioTudo ==
  ASSUME TypeOK, NEW m \in Sessao, Tudo(m), Audio(m)
  PROVE  Tudo(m)'
<1>0. sess[m] \in Estados
  BY DEF TypeOK
<1>1. UNCHANGED <<vRede, cancelados>>
  BY DEF Audio, Soa, Esvazia, Silencia, Quadro, vCorrida
<1>2. CASE Soa(m)
  <2>1. sess'[m] = [sess[m] EXCEPT !.soa = TRUE] /\ sess[m].buffer # {} /\ UNCHANGED reabertas
    BY <1>2 DEF Soa, TypeOK, vCorrida
  <2>2. Comeco(m)' /\ UmaVez(m)' /\ Fim(m)' /\ SemEco(m)'
    BY <1>0, <1>1, <2>1 DEF Tudo, Comeco, UmaVez, Fim, SemEco, vRede, Estados, Calados
  <2>3. Ordem(m)'
    BY <1>0, <1>1, <2>1 DEF Tudo, Ordem, EhDelta, vRede, Estados
  <2> QED
    BY <2>2, <2>3 DEF Tudo
<1>3. CASE Esvazia(m)
  <2>1. sess'[m] = [sess[m] EXCEPT !.soa = FALSE, !.buffer = {}] /\ UNCHANGED reabertas
    BY <1>3 DEF Esvazia, TypeOK, vCorrida
  <2>2. Comeco(m)' /\ UmaVez(m)' /\ Fim(m)' /\ SemEco(m)'
    BY <1>0, <1>1, <2>1 DEF Tudo, Comeco, UmaVez, Fim, SemEco, vRede, Estados, Calados
  <2>3. Ordem(m)'
    BY <1>0, <1>1, <2>1 DEF Tudo, Ordem, EhDelta, vRede, Estados
  <2> QED
    BY <2>2, <2>3 DEF Tudo
<1>4. CASE Silencia(m)
  <2>1. sess'[m] = [sess[m] EXCEPT !.quieto = TRUE] /\ UNCHANGED reabertas
    BY <1>4 DEF Silencia, TypeOK, vCorrida
  <2>2. Comeco(m)' /\ UmaVez(m)' /\ Fim(m)' /\ SemEco(m)'
    BY <1>0, <1>1, <2>1 DEF Tudo, Comeco, UmaVez, Fim, SemEco, vRede, Estados, Calados
  <2>3. Ordem(m)'
    BY <1>0, <1>1, <2>1 DEF Tudo, Ordem, EhDelta, vRede, Estados
  <2> QED
    BY <2>2, <2>3 DEF Tudo
<1>5. CASE Quadro(m)
  <2>1. /\ sess'[m] = Escuta(sess[m])
        /\ reabertas' = IF Reaberta(sess'[m]) THEN reabertas \cup {m} ELSE reabertas
    BY <1>5 DEF Quadro, TypeOK
  <2>2. Comeco(m)' /\ UmaVez(m)' /\ Fim(m)'
    BY <1>0, <1>1, <2>1, EscutaCampos DEF Tudo, Comeco, UmaVez, Fim, vRede
  <2>3. SemEco(m)'
    BY <1>0, <2>1, EscutaCampos DEF Tudo, SemEco, Reaberta
  <2>4. Ordem(m)'
    BY <1>0, <1>1, <2>1, EscutaCampos DEF Tudo, Ordem, EhDelta, vRede
  <2> QED
    BY <2>2, <2>3, <2>4 DEF Tudo
<1> QED
  BY <1>2, <1>3, <1>4, <1>5 DEF Audio

(* Who is on the screen changes only when a session starts, turns on or    *)
(* ends, or the modal closes.                                              *)
LEMMA BotaoIgual ==
  ASSUME NoBotao, UNCHANGED <<audioManager, corridas>>,
         \A x \in Sessao : sess'[x].fase = sess[x].fase /\ sess'[x].naTela = sess[x].naTela
  PROVE  NoBotao'
BY DEF NoBotao, Comecando, Iniciando

LEMMA BotaoDeUma ==
  ASSUME TypeOK, NoBotao, NEW m \in Sessao, Acao(m)
  PROVE  NoBotao'
<1>0. sess[m] \in Estados /\ \A x \in Sessao \ {m} : sess'[x] = sess[x]
  BY TipoDeUma DEF TypeOK, SoUma
<1>1. ASSUME sess'[m].fase = sess[m].fase, sess'[m].naTela = sess[m].naTela,
             UNCHANGED <<audioManager, corridas>>
      PROVE  NoBotao'
  BY <1>0, <1>1, BotaoIgual
<1>2. ASSUME NEW h \in BOOLEAN, Clica(m, h)
      PROVE  NoBotao'
  <2> DEFINE juntas == {s \in Sessao : Iniciando(s) /\ sess[s].naTela}
  <2>1. /\ audioManager = Ninguem /\ UNCHANGED audioManager
        /\ sess[m].fase = "fora" /\ sess'[m].fase = "mic" /\ sess'[m].naTela
        /\ corridas' = corridas \cup (IF juntas = {} THEN {} ELSE juntas \cup {m})
    BY <1>2 DEF Clica, Novo, TypeOK
  <2>2. \A x \in Sessao \ {m} : Comecando(x)' => x \in juntas /\ x \in corridas' /\ m \in corridas'
    BY <1>0, <2>1 DEF Comecando, Iniciando
  <2> HIDE DEF juntas
  <2> QED
    BY <1>0, <2>1, <2>2, SessaoAssumption DEF NoBotao, Comecando, Iniciando
<1>3. CASE Desliga /\ audioManager = m
  <2>1. /\ sess[m].fase = "ligado" /\ sess'[m].fase = "parando" /\ UNCHANGED <<audioManager, corridas>>
    BY <1>0, <1>3, ParandoCampos DEF Desliga, vCorrida, TypeOK
  <2> QED
    BY <1>0, <2>1 DEF NoBotao, Comecando, Iniciando
<1>4. CASE Concede(m)
  <2>1. /\ sess[m].fase = "mic" /\ sess'[m].fase \in {"token", "falhou"}
        /\ sess'[m].naTela = sess[m].naTela /\ UNCHANGED <<audioManager, corridas>>
    BY <1>0, <1>4 DEF Concede, vCorrida, TypeOK, Estados
  <2> QED
    BY <1>0, <2>1 DEF NoBotao, Comecando, Iniciando
<1>5. CASE Liga(m)
  <2>1. /\ sess[m].fase = "token" /\ sess'[m].fase = "ligado"
        /\ sess'[m].naTela = sess[m].naTela /\ UNCHANGED corridas
        /\ audioManager' = IF sess[m].naTela THEN m ELSE audioManager
    BY <1>0, <1>5 DEF Liga, vCorrida, TypeOK, Estados
  <2> QED
    BY <1>0, <2>1 DEF NoBotao, Comecando, Iniciando
<1>6. CASE TerminaSessao(m)
  <2>1. /\ sess[m].fase = "parando" /\ sess'[m].fase = "parado" /\ sess'[m].naTela = sess[m].naTela
        /\ audioManager' = IF sess[m].naTela THEN Ninguem ELSE audioManager
        /\ corridas' = corridas \cup (IF sess[m].naTela THEN {audioManager} \ {m, Ninguem} ELSE {})
    BY <1>0, <1>6, ParadoCampos DEF TerminaSessao, TypeOK
  <2> QED
    BY <1>0, <2>1, SessaoAssumption DEF NoBotao, Comecando, Iniciando
<1>7. CASE Servidor(m)
  <2>1. sess' = sess \/ \E w \in {"aberto", "fechado"} : sess' = [sess EXCEPT ![m].ws = w]
    BY <1>7 DEF Servidor, Autoriza, Desconecta, Responde, Fala, Conclui, Interrompe
  <2>2. sess'[m].fase = sess[m].fase /\ sess'[m].naTela = sess[m].naTela
    BY <1>0, <2>1 DEF TypeOK, Estados
  <2> QED
    BY <1>1, <1>7, <2>2
       DEF Servidor, Autoriza, Desconecta, Responde, Fala, Conclui, Interrompe, vCorrida
<1>8. CASE Cancela(m)
  <2>1. sess'[m] = Cancelado(sess[m])
    BY <1>8 DEF Cancela, TypeOK
  <2> QED
    BY <1>0, <1>1, <1>8, <2>1 DEF Cancela, Cancelado, Estados
<1>9. CASE OnMessage(m)
  <2>1. /\ UNCHANGED <<audioManager, corridas>>
        /\ \/ sess'[m] = [sess[m] EXCEPT !.tocador = "carrega"]
           \/ sess'[m] = Cancelado(sess[m])
           \/ sess'[m] = Tocado(sess[m], Head(rede[m]).item)
    BY <1>9 DEF OnMessage, TypeOK
  <2>2. Head(rede[m]).item \in Nat
    <3>1. rede[m] \in Seq(Mensagens) /\ rede[m] # <<>>
      BY <1>9 DEF OnMessage, TypeOK
    <3>2. Head(rede[m]) \in Mensagens
      BY <3>1
    <3> QED
      BY <3>2 DEF Mensagens
  <2>3. CASE sess'[m] = Tocado(sess[m], Head(rede[m]).item)
    <3>1. sess[m] \in Estados
      BY <1>0
    <3>2. LET t == Tocado(sess[m], Head(rede[m]).item) IN
            t.fase = sess[m].fase /\ t.naTela = sess[m].naTela
      BY ONLY <2>2, <3>1, TocadoCampos, Zenon
    <3> QED
      BY <1>1, <2>1, <2>3, <3>2
  <2>4. CASE sess'[m] # Tocado(sess[m], Head(rede[m]).item)
    BY <1>0, <1>1, <2>1, <2>4 DEF Cancelado, Estados
  <2> QED
    BY <2>3, <2>4
<1>10. CASE TocadorPronto(m) \/ GravadorPronto(m)
  <2>1. sess'[m].fase = sess[m].fase /\ sess'[m].naTela = sess[m].naTela
    BY <1>0, <1>10 DEF TocadorPronto, GravadorPronto, TypeOK, Estados
  <2> QED
    BY <1>1, <1>10, <2>1 DEF TocadorPronto, GravadorPronto, vCorrida
<1>11. CASE Audio(m)
  <2>1. \/ sess'[m] = [sess[m] EXCEPT !.soa = TRUE]
        \/ sess'[m] = [sess[m] EXCEPT !.soa = FALSE, !.buffer = {}]
        \/ sess'[m] = [sess[m] EXCEPT !.quieto = TRUE]
        \/ sess'[m] = Escuta(sess[m])
    BY <1>11 DEF Audio, Soa, Esvazia, Silencia, Quadro, TypeOK
  <2>2. sess'[m].fase = sess[m].fase /\ sess'[m].naTela = sess[m].naTela
    BY <1>0, <2>1, EscutaCampos DEF Estados
  <2> QED
    BY <1>1, <1>11, <2>2 DEF Audio, Soa, Esvazia, Silencia, Quadro, vCorrida
<1> QED
  BY <1>2, <1>3, <1>4, <1>5, <1>6, <1>7, <1>8, <1>9, <1>10, <1>11 DEF Acao, Navegador

LEMMA BotaoFecha ==
  ASSUME TypeOK, NoBotao, Fecha
  PROVE  NoBotao'
<1>1. /\ audioManager' = Ninguem
      /\ corridas' = corridas \cup {s \in Sessao : Iniciando(s)}
  BY DEF Fecha
<1>2. ASSUME NEW x \in Sessao
      PROVE  /\ sess'[x].fase = IF x = audioManager /\ sess[x].fase = "ligado" THEN "parando"
                                ELSE sess[x].fase
             /\ ~sess'[x].naTela
  <2> DEFINE s == IF x = audioManager /\ sess[x].fase = "ligado" THEN Parando(sess[x]) ELSE sess[x]
  <2>1. s \in Estados /\ sess'[x] = [s EXCEPT !.naTela = FALSE]
        /\ s.fase = IF x = audioManager /\ sess[x].fase = "ligado" THEN "parando" ELSE sess[x].fase
    BY ParandoCampos DEF TypeOK, Fecha
  <2> HIDE DEF s
  <2> QED
    BY <2>1 DEF Estados
<1> QED
  BY <1>1, <1>2 DEF NoBotao, Comecando, Iniciando

(* Every step.                                                             *)
IInv == TypeOK /\ (\A m \in Sessao : Tudo(m)) /\ NoBotao

LEMMA TudoDeUma ==
  ASSUME TypeOK, TypeOK', NEW m \in Sessao, Tudo(m), Acao(m)
  PROVE  Tudo(m)'
<1>1. CASE (\E h \in BOOLEAN : Clica(m, h)) \/ (Desliga /\ audioManager = m)
  BY <1>1, BotaoTudo
<1>2. CASE Servidor(m)
  BY <1>2, ServidorTudo
<1>3. CASE Cancela(m)
  <2>1. /\ sess'[m] = Cancelado(sess[m]) /\ cancelados' = cancelados \cup Interrompido(m)
        /\ sess[m].ws # "nulo" /\ UNCHANGED <<itens, reabertas>> /\ rede'[m] = rede[m]
        /\ gerando'[m] \in {gerando[m], 0}
    BY <1>3 DEF Cancela, TypeOK
  <2> QED
    BY <2>1, CancelaTudo
<1>4. CASE OnMessage(m)
  BY <1>4, RecebeTudo
<1>5. CASE Concede(m) \/ Liga(m) \/ TerminaSessao(m) \/ TocadorPronto(m) \/ GravadorPronto(m)
  BY <1>5, SessaoTudo
<1>6. CASE Audio(m)
  BY <1>6, AudioTudo
<1> QED
  BY <1>1, <1>2, <1>3, <1>4, <1>5, <1>6 DEF Acao, Navegador

LEMMA Inicio ==
  ASSUME InitVoz
  PROVE  IInv
<1>1. TypeOK
  <2>1. <<>> \in Seq(Mensagens)
    OBVIOUS
  <2>2. /\ sess \in [Sessao -> Estados] /\ rede \in [Sessao -> Seq(Mensagens)]
        /\ gerando \in [Sessao -> Nat]
    BY <2>1, NovoTipo DEF InitVoz
  <2> QED
    BY <2>2 DEF InitVoz, TypeOK
<1>2. \A m \in Sessao : sess[m] = Novo /\ rede[m] = <<>> /\ gerando[m] = 0
  BY DEF InitVoz
<1>3. ASSUME NEW m \in Sessao
      PROVE  Tudo(m)
  BY <1>2, <1>3 DEF Tudo, Comeco, UmaVez, Fim, Ordem, SemEco, Novo, InitVoz
<1>4. NoBotao
  BY <1>2 DEF NoBotao, Comecando, Iniciando, Novo
<1> QED
  BY <1>1, <1>3, <1>4 DEF IInv

LEMMA Passo ==
  ASSUME IInv, [NextVoz]_varsVoz
  PROVE  IInv'
<1> USE DEF IInv
<1>1. CASE AbreModal \/ UNCHANGED varsVoz
  <2>1. UNCHANGED <<audioManager, sess, rede, gerando, itens, pedacos, cancelados, reabertas, corridas>>
        /\ aberto' \in BOOLEAN
    BY <1>1 DEF AbreModal, varsVoz, vRede, vCorrida, TypeOK
  <2>2. TypeOK' /\ NoBotao'
    BY <2>1, BotaoIgual DEF TypeOK
  <2>3. ASSUME NEW m \in Sessao
        PROVE  Tudo(m)'
    BY <2>1 DEF Tudo, Comeco, UmaVez, Fim, Ordem, EhDelta, SemEco
  <2> QED
    BY <2>2, <2>3
<1>2. CASE Fecha
  <2>1. \A m \in Sessao : Tudo(m)' /\ sess'[m] \in Estados
    BY <1>2, FechaTudo
  <2>2. TypeOK'
    <3>1. sess' \in [Sessao -> Estados]
      BY <1>2, <2>1 DEF Fecha
    <3> QED
      BY <1>2, <3>1 DEF Fecha, vRede, TypeOK
  <2> QED
    BY <1>2, <2>1, <2>2, BotaoFecha
<1>3. ASSUME NEW m \in Sessao, Acao(m)
      PROVE  IInv'
  <2>1. TypeOK' /\ SoUma(m) /\ itens <= itens'
    BY <1>3, TipoDeUma
  <2>2. Tudo(m)'
    BY <1>3, <2>1, TudoDeUma
  <2>3. ASSUME NEW x \in Sessao, x # m
        PROVE  Tudo(x)'
    BY <2>1, <2>3, Outras
  <2>4. NoBotao'
    BY <1>3, BotaoDeUma
  <2> QED
    BY <2>1, <2>2, <2>3, <2>4
<1> QED
  BY <1>1, <1>2, <1>3, AcoesDe

LEMMA Sempre == SpecVoz => []IInv
<1>1. InitVoz => IInv
  BY Inicio
<1>2. IInv /\ [NextVoz]_varsVoz => IInv'
  BY Passo
<1> QED
  BY <1>1, <1>2, PTL DEF SpecVoz

(* A live microphone is of the session on the screen, of one that starts   *)
(* or stops, or of one of corridas; a session that stopped is silent.      *)
THEOREM MicrophoneOnScreen == SpecVoz => []MicNaTela
<1>1. IInv => MicNaTela
  BY DEF IInv, MicNaTela, Tudo, Fim, NoBotao, Iniciando, Calados
<1> QED
  BY <1>1, Sempre, PTL

(* No item the user interrupted is posted to the player again: the items   *)
(* arrive in order, and the one that is ignored is the last.               *)
THEOREM InterruptedStaysSilent == SpecVoz => []CanceladoNaoToca
<1>1. IInv => CanceladoNaoToca
  BY DEF IInv, CanceladoNaoToca, Tudo, Fim, Ordem
<1> QED
  BY <1>1, Sempre, PTL

(* Without a headset the microphone is not sent while the model is heard,  *)
(* unless a piece of audio reopened it.                                    *)
THEOREM NoEcho == SpecVoz => []SemRetorno
<1>1. IInv => SemRetorno
  BY DEF IInv, SemRetorno, Tudo, Fim, SemEco
<1> QED
  BY <1>1, Sempre, PTL

=============================================================================
