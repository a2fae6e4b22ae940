---------------------------- MODULE StreamParser ----------------------------
(***************************************************************************)
(* The answers of the backend as the interface reads them: parseStreamData *)
(* and the loop of ChatBox that feeds it.                                  *)
(*                                                                         *)
(* The backend sends one JSON object per event, each followed by a blank   *)
(* line ("\n\n"), and an error object without one.  The network delivers   *)
(* the bytes cut anywhere.  The parser accumulates them in one variable of *)
(* the module, shared by every stream of the page and tied only to the id  *)
(* of the chat that read last.                                             *)
(*                                                                         *)
(* Abstracted: a body is a few pieces of text and blanks between them;     *)
(* pieces of two bodies never join into valid JSON.                        *)
(***************************************************************************)
EXTENDS Integers, Sequences, SequencesExt, FiniteSetsExt

CONSTANTS
  Fluxo,        \* the streams read, one per prompt sent
  Conversa,     \* ids of chats
  SemConversa,  \* the id '' of a chat the backend has not answered yet
  Roteiros      \* bound: what the streams may be: how many events, the
                \* pieces of their bodies, an error at the end or not

ASSUME FluxoAssumption == SemConversa \notin Conversa
ASSUME RoteirosAssumption ==
  \A r \in Roteiros : \A f \in Fluxo :
    /\ r[f].eventos \in Nat /\ r[f].erro \in BOOLEAN
    /\ r[f].corpo \in Seq({"texto", "branco"}) \ {<<>>}
    /\ Head(r[f].corpo) = "texto" /\ Last(r[f].corpo) = "texto"

VARIABLES
  roteiro,      \* what the backend sends: events, and an error at the end
  estado,       \* of the loop that reads the stream
  alvo,         \* chat the backend runs the prompt in
  anteriores,   \* messages the chat had before the prompt: "nenhuma", or some in
                \* a chat "sem id" or "com id"
  idConversa,   \* updatedChat.id
  tela,         \* isLoading and isStreamActive of the chat
  controlador,  \* the stream whose AbortController the page holds
  recebido,     \* tokens read
  entregues,    \* objects handed to processStreamResponse
  partialData,
  currentChat,  \* the stream whose updatedChat was parsed last
  alheio,       \* history: a chunk found a buffer its stream did not leave
  cortes,       \* history until then: where chunks of a stream ended badly
  sobra         \* ... and what its last chunk left

vTela == <<estado, alvo, anteriores, idConversa, tela, controlador>>
vBuffer == <<partialData, currentChat, sobra>>
vars == <<roteiro, vTela, recebido, entregues, vBuffer, cortes, alheio>>

Ninguem == {}

-----------------------------------------------------------------------------
(* What is sent                                                            *)

Evento(f, n) == [fluxo |-> f, numero |-> n]
Token(p, e, k) == [parte |-> p, de |-> e, k |-> k]
NovaLinha == Token("nl", Ninguem, 0)
Corpo(e) ==
  LET partes == roteiro[e.fluxo].corpo
  IN [k \in DOMAIN partes |-> Token(partes[k], e, k)]
Delimitador == <<NovaLinha, NovaLinha>>

Total(f) == roteiro[f].eventos + (IF roteiro[f].erro THEN 1 ELSE 0)
EhErro(e) == roteiro[e.fluxo].erro /\ e.numero = Total(e.fluxo)
Passo(f) == Len(roteiro[f].corpo) + Len(Delimitador)
Tamanho(f) ==
  Passo(f) * roteiro[f].eventos
    + (IF roteiro[f].erro THEN Len(roteiro[f].corpo) ELSE 0)
\* The k-th token of the stream, and the last one of the body of its n-th event.
Enviado(f, k) ==
  (Corpo(Evento(f, ((k - 1) \div Passo(f)) + 1)) \o Delimitador)
    [((k - 1) % Passo(f)) + 1]
FimDoCorpo(f, n) == Passo(f) * n - Len(Delimitador)

\* A chunk ends after a complete body, between the two new lines or after a
\* blank of the text.
CorteRuim(f, k) ==
  LET x == Enviado(f, k)
  IN /\ k < Tamanho(f)
     /\ \/ x.parte = "branco" \/ k \in {FimDoCorpo(f, n) : n \in 1..Total(f)}
        \/ x = NovaLinha /\ Enviado(f, k + 1) = NovaLinha

-----------------------------------------------------------------------------
(* parseStreamData                                                         *)

\* trim(), and the blanks JSON.parse allows around an object.
Apara(s) ==
  LET letras == {i \in DOMAIN s : s[i].parte = "texto"}
  IN IF letras = {} THEN <<>> ELSE SubSeq(s, Min(letras), Max(letras))

\* Faulty: the delimiter is not looked for.
SemSeparar(s) == <<s>>

\* The numbers of a finite set, in order.
Ordem(S) ==
  [n \in 1..Cardinality(S) |-> CHOOSE i \in S : Cardinality({j \in S : j <= i}) = n]

\* split('\n\n'); the bytes sent never hold three new lines in a row.
Fins(s) ==
  {i \in 1..Len(s) : i < Len(s) /\ s[i] = NovaLinha /\ s[i + 1] = NovaLinha}
    \cup {Len(s) + 1}
Separa(s) ==
  LET fins == Ordem(Fins(s))
  IN [n \in DOMAIN fins |->
        SubSeq(s, IF n = 1 THEN 1 ELSE fins[n - 1] + 2, fins[n] - 1)]

\* JSON.parse of a part that is an object, whose text may have lost a blank.  A
\* token is sent once and the buffer keeps their order, so a set tells a text.
Letras(s) == {s[i] : i \in {j \in DOMAIN s : s[j].parte = "texto"}}
Completa(s) == LET t == Apara(s) IN t # <<>> /\ Letras(t) = Letras(Corpo(t[1].de))
Objeto(s) ==
  LET t == Apara(s) IN [evento |-> t[1].de, integro |-> t = Corpo(t[1].de)]
Objetos(partes) ==
  LET completas == Ordem({i \in DOMAIN partes : Completa(partes[i])})
  IN [n \in DOMAIN completas |-> Objeto(partes[completas[n]])]

\* Faulty: the buffer is kept when the chat changes.
SemReiniciar(f) == partialData

\* What parseStreamData finds in the buffer when called for f.
Achado(f) ==
  IF currentChat = Ninguem \/ \A g \in currentChat : idConversa[f] # idConversa[g]
  THEN <<>> ELSE partialData

-----------------------------------------------------------------------------
(* ChatBox                                                                 *)

Init ==
  /\ roteiro \in Roteiros
  /\ estado = [f \in Fluxo |-> "ocioso"]
  /\ alvo = [f \in Fluxo |-> SemConversa]
  /\ anteriores = [f \in Fluxo |-> "nenhuma"]
  /\ idConversa = [f \in Fluxo |-> SemConversa]
  /\ tela = [f \in Fluxo |-> "livre"]
  /\ controlador = Ninguem
  /\ recebido = [f \in Fluxo |-> 0]
  /\ entregues = [f \in Fluxo |-> <<>>]
  /\ partialData = <<>>
  /\ currentChat = Ninguem
  /\ cortes = [f \in Fluxo |-> {}]
  /\ sobra = [f \in Fluxo |-> <<>>]
  /\ alheio = [f \in Fluxo |-> FALSE]

Usadas == {alvo[g] : g \in {h \in Fluxo : estado[h] # "ocioso"}}

\* An error takes the two messages of the prompt off the chat.
Tirou(s) == \E i \in DOMAIN s : EhErro(s[i].evento)

\* A chat whose streams ended, or were stopped, before an answer gave it an id, with the
\* messages of one of them.
SemId(g) ==
  /\ estado[g] # "ocioso" /\ tela[g] = "livre" /\ idConversa[g] = SemConversa
  /\ \/ anteriores[g] = "sem id"
     \/ estado[g] \in {"lendo", "falhou", "parado"} /\ ~Tirou(entregues[g])

ComId(g) == anteriores[g] = "com id"

\* submitChatMessage: in a new chat, in one that is on the screen without an id, which the
\* backend takes for a new one, or in one of the history that is not busy.
Envia(f, c) ==
  /\ estado[f] = "ocioso"
  /\ \/ c \notin Usadas /\ UNCHANGED <<anteriores, idConversa>>
     \/ /\ c \notin Usadas /\ \E g \in Fluxo : SemId(g)
        /\ anteriores' = [anteriores EXCEPT ![f] = "sem id"]
        /\ UNCHANGED idConversa
     \/ /\ \A g \in Fluxo : alvo[g] = c => tela[g] = "livre"
        /\ anteriores' = [anteriores EXCEPT ![f] = "com id"]
        /\ idConversa' = [idConversa EXCEPT ![f] = c]
  /\ estado' = [estado EXCEPT ![f] = "lendo"]
  /\ alvo' = [alvo EXCEPT ![f] = c]
  /\ tela' = [tela EXCEPT ![f] = "carregando"]
  /\ controlador' = {f}
  /\ UNCHANGED <<roteiro, recebido, entregues, vBuffer, cortes, alheio>>

\* One chunk: parseStreamData, then processStreamResponse for every object.  An
\* answer after an error finds no message to extend and raises.
Le(f, k) ==
  /\ estado[f] = "lendo" /\ k \in recebido[f] + 1 .. Tamanho(f)
  /\ alheio' = [alheio EXCEPT ![f] = @ \/ Achado(f) # sobra[f]]
  /\ LET dados == [j \in 1..k - recebido[f] |-> Enviado(f, recebido[f] + j)]
         partes == Separa(Achado(f) \o dados)
         objetos == Objetos(partes)
         quebra == {i \in DOMAIN objetos :
                      /\ ~EhErro(objetos[i].evento)
                      /\ Tirou(entregues[f] \o SubSeq(objetos, 1, i - 1))}
         ate == IF quebra = {} THEN Len(objetos) ELSE Min(quebra) - 1
         respostas == {i \in DOMAIN objetos : ~EhErro(objetos[i].evento)}
         lidas == {i \in respostas : quebra = {} \/ i <= Min(quebra)}
     IN /\ entregues' = [entregues EXCEPT ![f] = @ \o SubSeq(objetos, 1, ate)]
        /\ partialData' = Apara(Last(partes))
        /\ sobra' = [sobra EXCEPT ![f] = IF alheio'[f] THEN <<>> ELSE partialData']
        /\ estado' = [estado EXCEPT ![f] = IF quebra = {} THEN @ ELSE "falhou"]
        /\ idConversa' = [idConversa EXCEPT
             ![f] = IF lidas = {} THEN @ ELSE alvo[objetos[Max(lidas)].evento.fluxo]]
        /\ tela' = [tela EXCEPT ![f] = IF lidas \ quebra = {} THEN @ ELSE "em fluxo"]
  /\ currentChat' = {f}
  /\ recebido' = [recebido EXCEPT ![f] = k]
  /\ cortes' = [cortes EXCEPT
                  ![f] = {j \in @ \cup {k} : CorteRuim(f, j) /\ ~alheio'[f]}]
  /\ UNCHANGED <<roteiro, alvo, anteriores, controlador>>

\* The stream is over.  Where an error left older messages only, the line after
\* the loop raises.
Termina(f) ==
  /\ estado[f] = "lendo" /\ recebido[f] = Tamanho(f)
  /\ IF anteriores[f] # "nenhuma" /\ Tirou(entregues[f])
       THEN /\ estado' = [estado EXCEPT ![f] = "falhou"] /\ UNCHANGED tela
       ELSE /\ estado' = [estado EXCEPT ![f] = "fim"]
            /\ tela' = [tela EXCEPT ![f] = "livre"]
  /\ UNCHANGED <<roteiro, alvo, anteriores, idConversa, controlador, recebido,
                 entregues, vBuffer, cortes, alheio>>

\* The answer is an HTTP error: handleErrorResponse takes the two messages off the chat.
RespostaHTTP(f) ==
  /\ estado[f] = "lendo" /\ recebido[f] = 0
  /\ estado' = [estado EXCEPT ![f] = "recusado"]
  /\ tela' = [tela EXCEPT ![f] = "livre"]
  /\ UNCHANGED <<roteiro, alvo, anteriores, idConversa, controlador, recebido,
                 entregues, vBuffer, cortes, alheio>>

\* The connection drops: logged, nothing is reset.
FalhaRede(f) ==
  /\ estado[f] = "lendo"
  /\ estado' = [estado EXCEPT ![f] = "falhou"]
  /\ UNCHANGED <<roteiro, alvo, anteriores, idConversa, tela, controlador,
                 recebido, entregues, vBuffer, cortes, alheio>>

\* Stop in the chat of f.  The page aborts the last stream it began, and the
\* buffer is cleared when that stream was still being read.
Para(f) ==
  /\ tela[f] # "livre"
  /\ tela' = [tela EXCEPT ![f] = IF @ = "carregando" THEN "livre" ELSE @]
  /\ controlador' = Ninguem
  /\ LET abortados == {g \in controlador : estado[g] = "lendo"}
     IN /\ estado' = [g \in Fluxo |-> IF g \in abortados THEN "parado" ELSE estado[g]]
        /\ partialData' = IF abortados = {} THEN partialData ELSE <<>>
  /\ UNCHANGED <<roteiro, alvo, anteriores, idConversa, recebido, entregues,
                 currentChat, sobra, cortes, alheio>>

Next ==
  \E f \in Fluxo :
    \/ \E c \in Conversa : Envia(f, c)
    \/ \E k \in 1..Tamanho(f) : Le(f, k)
    \/ Termina(f) \/ RespostaHTTP(f) \/ FalhaRede(f) \/ Para(f)

Spec == Init /\ [][Next]_vars

-----------------------------------------------------------------------------
(* Properties                                                              *)

\* A stream read with no chunk ending at those three places, and whose buffer
\* nobody else touched, hands over every event once, in order and intact, as
\* soon as the body of the event is complete.
EntregaExata ==
  \A f \in Fluxo :
    ~alheio[f] /\ cortes[f] = {} =>
      entregues[f] =
        [n \in 1..Cardinality({m \in 1..Total(f) : FimDoCorpo(f, m) <= recebido[f]})
           |-> [evento |-> Evento(f, n), integro |-> TRUE]]

\* Whatever the chunks and the other streams, no stream hands over an event after
\* a later one of the same stream, and no chat takes the id of another.  An event
\* of another stream is one of the same chat (a stop aborts the stream the page
\* began last, so two may read one chat) or an error, between chats sent without id.
EntregaEmOrdem ==
  \A f \in Fluxo :
    /\ idConversa[f] \in {SemConversa, alvo[f]}
    /\ \A i \in DOMAIN entregues[f] :
         LET e == entregues[f][i].evento
         IN /\ alvo[e.fluxo] # alvo[f] =>
                 EhErro(e) /\ ~ComId(f) /\ ~ComId(e.fluxo)
            /\ \A j \in 1..i : entregues[f][j].evento.fluxo = e.fluxo
                 => entregues[f][j].evento.numero <= e.numero

\* A buffer nobody else touches costs at most the events whose delimiter was cut
\* in two: every other complete event is handed over, if late.
PerdaSoNoDelimitador ==
  \A f \in Fluxo : \A n \in 1..Total(f) :
    /\ ~alheio[f] /\ FimDoCorpo(f, n) <= recebido[f]
    /\ n = 1 \/ FimDoCorpo(f, n - 1) + 1 \notin cortes[f]
    => \E i \in DOMAIN entregues[f] : entregues[f][i].evento = Evento(f, n)

\* The parser's comment: what was processed leaves the buffer, so no event is
\* handed over twice.
SemRepeticao ==
  \A f \in Fluxo : \A i, j \in DOMAIN entregues[f] :
    entregues[f][i].evento = entregues[f][j].evento => i = j
=============================================================================
