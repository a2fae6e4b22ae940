---------------------------- MODULE StopListener ----------------------------
(***************************************************************************)
(* The subscription of each backend pod to the Redis channel of stops, and *)
(* the stop endpoint that publishes to it: RedisClient.                    *)
(*                                                                         *)
(* subscribe_channel is a loop that never returns while Redis answers.     *)
(* The listener thread runs it from the start of the pod.  A publish that  *)
(* fails runs it too, through _reconnect, in the thread of the endpoint:   *)
(* that thread is the event loop of the pod, which serves nothing else     *)
(* until the call returns.  Both threads count their errors in the one     *)
(* attribute tentativas, which no success resets.                          *)
(*                                                                         *)
(* Redis is external: it goes down, losing the subscriptions, and comes    *)
(* back.  A stop reaches the subscriptions that are up when published.     *)
(***************************************************************************)
EXTENDS Integers, FiniteSets

CONSTANTS
  Pod,
  Parada,         \* stops the users ask for
  MaxTentativas,  \* MAX_TENTATIVAS
  MaxQuedas,      \* bound: times Redis goes down
  MaxReinicios    \* bound: restarts of pods

ASSUME ListenerAssumption ==
  MaxTentativas \in Nat /\ MaxQuedas \in Nat /\ MaxReinicios \in Nat

VARIABLES
  redis,       \* whether Redis answers
  quedas,      \* times it went down
  reinicios,   \* times a pod restarted
  fio,         \* pod -> thread -> where it is in subscribe_channel
  conectada,   \* pod -> threads whose subscription Redis holds
  fila,        \* pod -> thread -> stops received and not processed
  tentativas,  \* pod -> self.tentativas
  pedido,      \* stop -> its request
  bloqueada,   \* pod -> the request the event loop is serving
  publicadas,  \* stops Redis took
  canceladas   \* pod -> stops handed to ChatStop.cancela_task

vRedis == <<redis, quedas, reinicios>>
vFio == <<fio, conectada, fila, tentativas>>
vPedido == <<pedido, bloqueada, publicadas>>
vars == <<vRedis, vFio, vPedido, canceladas>>

\* The listener thread, and the thread of the event loop.
Fio == {"escuta", "laco"}
FioNovo == [x \in Fio |-> IF x = "escuta" THEN "assinando" ELSE "fora"]

Init ==
  /\ redis = "ativo" /\ quedas = 0 /\ reinicios = 0
  /\ fio = [p \in Pod |-> FioNovo]
  /\ conectada = [p \in Pod |-> {}]
  /\ fila = [p \in Pod |-> [x \in Fio |-> {}]]
  /\ tentativas = [p \in Pod |-> 0]
  /\ pedido = [r \in Parada |-> "ocioso"]
  /\ bloqueada = [p \in Pod |-> {}]
  /\ publicadas = {}
  /\ canceladas = [p \in Pod |-> {}]

\* Faulty: the error is not counted.
ErraSemContar(p, x) ==
  /\ fio' = [fio EXCEPT ![p][x] = "dormindo"]
  /\ UNCHANGED tentativas

\* The except clause of subscribe_channel: count, then sleep.
Erra(p, x) ==
  /\ tentativas' = [tentativas EXCEPT ![p] = @ + 1]
  /\ fio' = [fio EXCEPT ![p][x] = "dormindo"]

Assina(p, x) ==
  /\ fio[p][x] = "assinando"
  /\ IF redis = "ativo"
       THEN /\ fio' = [fio EXCEPT ![p][x] = "ouvindo"]
            /\ conectada' = [conectada EXCEPT ![p] = @ \cup {x}]
            /\ UNCHANGED tentativas
       ELSE Erra(p, x) /\ UNCHANGED conectada
  /\ UNCHANGED <<vRedis, fila, vPedido, canceladas>>

\* listen() raises: what it had received and not yielded is gone.
PercebeQueda(p, x) ==
  /\ fio[p][x] = "ouvindo" /\ x \notin conectada[p]
  /\ Erra(p, x)
  /\ fila' = [fila EXCEPT ![p][x] = {}]
  /\ UNCHANGED <<vRedis, conectada, vPedido, canceladas>>

\* Faulty: a message that is not understood.
IgnoraMensagem(p, x, r) ==
  /\ fio[p][x] = "ouvindo" /\ r \in fila[p][x]
  /\ fila' = [fila EXCEPT ![p][x] = @ \ {r}]
  /\ UNCHANGED <<vRedis, fio, conectada, tentativas, vPedido, canceladas>>

\* A message of listen(): _process_message.
ProcessaMensagem(p, x, r) ==
  /\ fio[p][x] = "ouvindo" /\ r \in fila[p][x]
  /\ fila' = [fila EXCEPT ![p][x] = @ \ {r}]
  /\ canceladas' = [canceladas EXCEPT ![p] = @ \cup {r}]
  /\ UNCHANGED <<vRedis, fio, conectada, tentativas, vPedido>>

\* Faulty: one attempt fewer.
UmaAMenos(p) == tentativas[p] < MaxTentativas
PodeTentar(p) == tentativas[p] <= MaxTentativas

\* After the sleep: _reconnect again, or every pending call returns.  Returning
\* ends the listener thread; the endpoint then answers as if it had published.
Acorda(p, x) ==
  /\ fio[p][x] = "dormindo"
  /\ IF PodeTentar(p)
       THEN /\ fio' = [fio EXCEPT ![p][x] = "assinando"]
            /\ UNCHANGED <<pedido, bloqueada>>
       ELSE /\ fio' = [fio EXCEPT ![p][x] = "fora"]
            /\ IF x = "escuta" THEN UNCHANGED <<pedido, bloqueada>>
               ELSE /\ pedido' = [r \in Parada |->
                         IF r \in bloqueada[p] THEN "confirmado" ELSE pedido[r]]
                    /\ bloqueada' = [bloqueada EXCEPT ![p] = {}]
  /\ UNCHANGED <<vRedis, conectada, fila, tentativas, publicadas, canceladas>>

\* Faulty: the request is answered while its thread reconnects.
FalhaSemEsperar(p, r) ==
  /\ pedido' = [pedido EXCEPT ![r] = "falhou"]
  /\ fio' = [fio EXCEPT ![p]["laco"] = "assinando"]
  /\ UNCHANGED bloqueada

\* publish() raises: _reconnect, in the event loop.
FalhaPublicar(p, r) ==
  /\ pedido' = [pedido EXCEPT ![r] = "publicando"]
  /\ bloqueada' = [bloqueada EXCEPT ![p] = {r}]
  /\ fio' = [fio EXCEPT ![p]["laco"] = "assinando"]

\* The stop endpoint on pod p, whose event loop must be free.
PublicaParada(p, r) ==
  /\ pedido[r] = "ocioso" /\ fio[p]["laco"] = "fora"
  /\ IF redis = "ativo"
       THEN /\ pedido' = [pedido EXCEPT ![r] = "confirmado"]
            /\ publicadas' = publicadas \cup {r}
            /\ fila' = [q \in Pod |-> [x \in Fio |->
                 IF x \in conectada[q] THEN fila[q][x] \cup {r} ELSE fila[q][x]]]
            /\ UNCHANGED <<fio, bloqueada>>
       ELSE /\ FalhaPublicar(p, r)
            /\ UNCHANGED <<publicadas, fila>>
  /\ UNCHANGED <<vRedis, conectada, tentativas, canceladas>>

RedisCai ==
  /\ redis = "ativo" /\ quedas < MaxQuedas
  /\ redis' = "fora" /\ quedas' = quedas + 1
  /\ conectada' = [p \in Pod |-> {}]
  /\ UNCHANGED <<reinicios, fio, fila, tentativas, vPedido, canceladas>>

RedisVolta ==
  /\ redis = "fora" /\ redis' = "ativo"
  /\ UNCHANGED <<quedas, reinicios, vFio, vPedido, canceladas>>

\* A pod restarts, the request it was serving with it.
PodReinicia(p) ==
  /\ reinicios < MaxReinicios /\ reinicios' = reinicios + 1
  /\ fio' = [fio EXCEPT ![p] = FioNovo]
  /\ conectada' = [conectada EXCEPT ![p] = {}]
  /\ fila' = [fila EXCEPT ![p] = [x \in Fio |-> {}]]
  /\ tentativas' = [tentativas EXCEPT ![p] = 0]
  /\ pedido' = [r \in Parada |-> IF r \in bloqueada[p] THEN "falhou" ELSE pedido[r]]
  /\ bloqueada' = [bloqueada EXCEPT ![p] = {}]
  /\ UNCHANGED <<redis, quedas, publicadas, canceladas>>

Passo(p, x) ==
  \/ Assina(p, x) \/ PercebeQueda(p, x) \/ Acorda(p, x)
  \/ \E r \in Parada : ProcessaMensagem(p, x, r)

Next ==
  \/ \E p \in Pod, x \in Fio : Passo(p, x)
  \/ \E p \in Pod, r \in Parada : PublicaParada(p, r)
  \/ RedisCai \/ RedisVolta \/ \E p \in Pod : PodReinicia(p)

Spec == Init /\ [][Next]_vars

\* Both threads keep running; Redis and the users owe nothing.
FairSpec == Spec /\ \A p \in Pod, x \in Fio : WF_vars(Passo(p, x))

-----------------------------------------------------------------------------
(* Properties                                                              *)

TipoRedis == redis \in {"ativo", "fora"} /\ quedas \in Nat /\ reinicios \in Nat
TipoFio ==
  /\ fio \in [Pod -> [Fio -> {"fora", "assinando", "ouvindo", "dormindo"}]]
  /\ conectada \in [Pod -> SUBSET Fio]
  /\ fila \in [Pod -> [Fio -> SUBSET Parada]]
  /\ tentativas \in [Pod -> Nat]
TipoPedido ==
  /\ pedido \in [Parada -> {"ocioso", "publicando", "confirmado", "falhou"}]
  /\ bloqueada \in [Pod -> SUBSET Parada]
  /\ publicadas \in SUBSET Parada
  /\ canceladas \in [Pod -> SUBSET Parada]
TypeOK == TipoRedis /\ TipoFio /\ TipoPedido

Surdo(p) == fio[p]["escuta"] = "fora"

\* The listener thread of a pod ends only after more than MAX_TENTATIVAS errors
\* of that pod, counted in whichever thread; and what Redis holds as a
\* subscription is a thread that is listening.
EscutaResiste ==
  \A p \in Pod :
    /\ Surdo(p) => tentativas[p] > MaxTentativas
    /\ \A x \in conectada[p] : fio[p][x] = "ouvindo"

\* The event loop of a pod is inside subscribe_channel exactly while it holds
\* one request, not yet answered; what was published has been answered.
LacoPreso ==
  \A p \in Pod :
    /\ fio[p]["laco"] # "fora" <=> bloqueada[p] # {}
    /\ \A r \in bloqueada[p] : pedido[r] = "publicando"
    /\ \A q \in Pod : p # q => bloqueada[p] \cap bloqueada[q] = {}
    /\ \A r \in publicadas : pedido[r] = "confirmado"

\* The endpoint's answer "the cancellation succeeded" means the stop was
\* published.  It fails when Redis is down: _reconnect does not publish again.
ConfirmadaFoiPublicada ==
  \A r \in Parada : pedido[r] = "confirmado" => r \in publicadas

\* A thread does not retry for ever: it listens again or, with Redis down, leaves
\* subscribe_channel, the event loop and the request it holds included.
DesisteSemRedis ==
  \A p \in Pod, x \in Fio :
    fio[p][x] \in {"assinando", "dormindo"} ~> fio[p][x] \in {"fora", "ouvindo"}

\* A stop Redis delivered to a listening pod is processed, unless the
\* connection or the pod drops first.
ParadaProcessada ==
  \A p \in Pod, r \in Parada :
    r \in fila[p]["escuta"]
      ~> r \in canceladas[p] \/ "escuta" \notin conectada[p]
=============================================================================
