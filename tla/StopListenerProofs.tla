------------------------- MODULE StopListenerProofs -------------------------
(* Theorems about the subscriptions of StopListener, for any number of     *)
(* pods, stops, attempts and outages.                                      *)
EXTENDS StopListener, TLAPS

LEMMA InicioOK == Init => TypeOK /\ EscutaResiste /\ LacoPreso
BY ListenerAssumption DEF Init, TypeOK, TipoRedis, TipoFio, TipoPedido,
   EscutaResiste, LacoPreso, Surdo, Fio, FioNovo

LEMMA TipoRedisPasso ==
  ASSUME TypeOK, [Next]_vars
  PROVE  TipoRedis'
<1>1. CASE UNCHANGED vRedis
  BY <1>1 DEF TypeOK, TipoRedis, vRedis
<1>2. CASE RedisCai
  BY <1>2 DEF RedisCai, TypeOK, TipoRedis
<1>3. CASE RedisVolta
  BY <1>3 DEF RedisVolta, TypeOK, TipoRedis
<1>4. ASSUME NEW p \in Pod, NEW x \in Fio, Passo(p, x)
      PROVE  UNCHANGED vRedis
  BY <1>4 DEF Passo, Assina, PercebeQueda, ProcessaMensagem, Acorda
<1>5. (\E p \in Pod, r \in Parada : PublicaParada(p, r)) \/ UNCHANGED vars
        => UNCHANGED vRedis
  BY DEF PublicaParada, vars
<1>6. ASSUME NEW p \in Pod, PodReinicia(p)
      PROVE  TipoRedis'
  BY <1>6 DEF PodReinicia, TypeOK, TipoRedis
<1> QED
  BY <1>1, <1>2, <1>3, <1>4, <1>5, <1>6 DEF Next

LEMMA FioTipo ==
  ASSUME TipoFio, NEW p \in Pod, NEW x \in Fio,
         NEW f \in {"fora", "assinando", "ouvindo", "dormindo"},
         fio' = [fio EXCEPT ![p][x] = f]
  PROVE  fio' \in [Pod -> [Fio -> {"fora", "assinando", "ouvindo", "dormindo"}]]
BY DEF TipoFio

LEMMA TypeOKPasso ==
  ASSUME TypeOK, [Next]_vars
  PROVE  TypeOK'
<1>0. TipoRedis' /\ TipoFio /\ TipoPedido
  BY TipoRedisPasso DEF TypeOK
<1> SUFFICES TipoFio' /\ TipoPedido'
  BY <1>0 DEF TypeOK
<1> USE DEF TipoFio, TipoPedido
<1>1. CASE UNCHANGED vars
  BY <1>0, <1>1 DEF vars, vFio, vPedido
<1>2. ASSUME NEW p \in Pod, NEW x \in Fio, Assina(p, x)
      PROVE  TipoFio' /\ TipoPedido'
  <2>1. CASE redis = "ativo"
    <3>1. fio' \in [Pod -> [Fio -> {"fora", "assinando", "ouvindo", "dormindo"}]]
      BY <1>0, <1>2, <2>1, FioTipo DEF Assina
    <3> QED
      BY <1>0, <1>2, <2>1, <3>1 DEF Assina, vPedido
  <2>2. CASE redis # "ativo"
    <3>1. fio' \in [Pod -> [Fio -> {"fora", "assinando", "ouvindo", "dormindo"}]]
      BY <1>0, <1>2, <2>2, FioTipo DEF Assina, Erra
    <3> QED
      BY <1>0, <1>2, <2>2, <3>1 DEF Assina, Erra, vPedido
  <2> QED
    BY <2>1, <2>2
<1>3. ASSUME NEW p \in Pod, NEW x \in Fio, PercebeQueda(p, x)
      PROVE  TipoFio' /\ TipoPedido'
  BY <1>0, <1>3 DEF PercebeQueda, Erra, vPedido
<1>4. ASSUME NEW p \in Pod, NEW x \in Fio, NEW r \in Parada, ProcessaMensagem(p, x, r)
      PROVE  TipoFio' /\ TipoPedido'
  BY <1>0, <1>4 DEF ProcessaMensagem, vPedido
<1>5. ASSUME NEW p \in Pod, NEW x \in Fio, Acorda(p, x)
      PROVE  TipoFio' /\ TipoPedido'
  <2>1. fio' \in [Pod -> [Fio -> {"fora", "assinando", "ouvindo", "dormindo"}]]
    BY <1>0, <1>5, FioTipo DEF Acorda
  <2>2. CASE UNCHANGED <<pedido, bloqueada>>
    BY <1>0, <1>5, <2>1, <2>2 DEF Acorda
  <2>3. CASE /\ pedido' = [r \in Parada |->
                  IF r \in bloqueada[p] THEN "confirmado" ELSE pedido[r]]
             /\ bloqueada' = [bloqueada EXCEPT ![p] = {}]
    BY <1>0, <1>5, <2>1, <2>3 DEF Acorda
  <2> QED
    BY <1>5, <2>2, <2>3 DEF Acorda
<1>6. ASSUME NEW p \in Pod, NEW r \in Parada, PublicaParada(p, r)
      PROVE  TipoFio' /\ TipoPedido'
  <2>1. CASE redis = "ativo"
    <3>1. fila' \in [Pod -> [Fio -> SUBSET Parada]]
      <4>1. \A q \in Pod : \A y \in Fio :
              fila[q][y] \subseteq Parada /\ fila[q][y] \cup {r} \subseteq Parada
        BY <1>0
      <4>2. fila' = [q \in Pod |-> [y \in Fio |->
                 IF y \in conectada[q] THEN fila[q][y] \cup {r} ELSE fila[q][y]]]
        BY <1>6, <2>1 DEF PublicaParada
      <4>3. \A q \in Pod : [y \in Fio |->
                 IF y \in conectada[q] THEN fila[q][y] \cup {r} ELSE fila[q][y]]
              \in [Fio -> SUBSET Parada]
        BY <4>1
      <4> QED
        BY <4>2, <4>3
    <3> QED
      BY <1>0, <1>6, <2>1, <3>1 DEF PublicaParada
  <2>2. CASE redis # "ativo"
    <3>1. fio' \in [Pod -> [Fio -> {"fora", "assinando", "ouvindo", "dormindo"}]]
      BY <1>0, <1>6, <2>2, FioTipo DEF PublicaParada, FalhaPublicar, Fio
    <3> QED
      <4>1. UNCHANGED <<conectada, fila, tentativas, publicadas, canceladas>>
        BY <1>6, <2>2 DEF PublicaParada
      <4>2. /\ pedido' = [pedido EXCEPT ![r] = "publicando"]
            /\ bloqueada' = [bloqueada EXCEPT ![p] = {r}]
        BY <1>6, <2>2 DEF PublicaParada, FalhaPublicar
      <4>3. bloqueada' \in [Pod -> SUBSET Parada]
        BY <1>0, <4>2
      <4> QED
        BY <1>0, <3>1, <4>1, <4>2, <4>3
  <2> QED
    BY <2>1, <2>2
<1>7. CASE RedisCai \/ RedisVolta
  BY <1>0, <1>7 DEF RedisCai, RedisVolta, vFio, vPedido
<1>8. ASSUME NEW p \in Pod, PodReinicia(p)
      PROVE  TipoFio' /\ TipoPedido'
  BY <1>0, <1>8 DEF PodReinicia, FioNovo
<1> QED
  BY <1>1, <1>2, <1>3, <1>4, <1>5, <1>6, <1>7, <1>8, ListenerAssumption
  DEF Next, Passo

LEMMA EscutaResistePasso ==
  ASSUME TypeOK, EscutaResiste, [Next]_vars
  PROVE  EscutaResiste'
<1> USE DEF Fio
<1>1. CASE UNCHANGED vars
  BY <1>1 DEF vars, vRedis, vFio, vPedido, EscutaResiste, Surdo
<1>2. ASSUME NEW p \in Pod, NEW x \in Fio, Assina(p, x)
      PROVE  EscutaResiste'
  <2>1. /\ fio \in [Pod -> [Fio -> {"fora", "assinando", "ouvindo", "dormindo"}]]
        /\ conectada \in [Pod -> SUBSET Fio] /\ tentativas \in [Pod -> Nat]
    BY DEF TypeOK, TipoFio, TipoPedido
  <2>2. fio[p][x] = "assinando" /\ x \notin conectada[p]
    BY <1>2 DEF Assina, EscutaResiste
  <2>3. CASE redis = "ativo"
    BY <1>2, <2>1, <2>2, <2>3 DEF Assina, EscutaResiste, Surdo
  <2>4. CASE redis # "ativo"
    <3>1. /\ fio' = [fio EXCEPT ![p][x] = "dormindo"] /\ conectada' = conectada
          /\ \A q \in Pod : tentativas'[q] >= tentativas[q]
      BY <1>2, <2>1, <2>4 DEF Assina, Erra
    <3>2. \A q \in Pod : Surdo(q)' => Surdo(q)
      BY <2>1, <3>1 DEF Surdo
    <3>3. \A q \in Pod : \A y \in conectada[q] : fio'[q][y] = fio[q][y]
      BY <2>1, <2>2, <3>1
    <3>4. \A q \in Pod : Surdo(q)' => tentativas'[q] > MaxTentativas
      <4>1. \A q \in Pod : tentativas'[q] \in Int
        BY <1>2, <2>1, <2>4 DEF Assina, Erra
      <4> QED
        BY <2>1, <3>1, <3>2, <4>1, ListenerAssumption DEF EscutaResiste
    <3> QED
      BY <3>1, <3>3, <3>4 DEF EscutaResiste
  <2> QED
    BY <2>3, <2>4
<1>3. ASSUME NEW p \in Pod, NEW x \in Fio, PercebeQueda(p, x)
      PROVE  EscutaResiste'
  BY <1>3, ListenerAssumption DEF PercebeQueda, Erra, TypeOK, TipoFio, TipoPedido, EscutaResiste, Surdo
<1>4. ASSUME NEW p \in Pod, NEW x \in Fio, NEW r \in Parada, ProcessaMensagem(p, x, r)
      PROVE  EscutaResiste'
  BY <1>4 DEF ProcessaMensagem, EscutaResiste, Surdo
<1>5. ASSUME NEW p \in Pod, NEW x \in Fio, Acorda(p, x)
      PROVE  EscutaResiste'
  BY <1>5, ListenerAssumption DEF Acorda, PodeTentar, TypeOK, TipoFio, TipoPedido, EscutaResiste, Surdo
<1>6. ASSUME NEW p \in Pod, NEW r \in Parada, PublicaParada(p, r)
      PROVE  EscutaResiste'
  <2>1. fio \in [Pod -> [Fio -> {"fora", "assinando", "ouvindo", "dormindo"}]]
    BY DEF TypeOK, TipoFio, TipoPedido
  <2>2. UNCHANGED <<conectada, tentativas>>
    BY <1>6 DEF PublicaParada
  <2>3. CASE redis = "ativo"
    BY <1>6, <2>2, <2>3 DEF PublicaParada, EscutaResiste, Surdo
  <2>4. CASE redis # "ativo"
    <3>1. fio' = [fio EXCEPT ![p]["laco"] = "assinando"] /\ fio[p]["laco"] = "fora"
      BY <1>6, <2>4 DEF PublicaParada, FalhaPublicar
    <3>2. \A q \in Pod : Surdo(q)' <=> Surdo(q)
      BY <2>1, <3>1 DEF Surdo
    <3>3. \A q \in Pod : \A y \in conectada[q] : fio'[q][y] = "ouvindo"
      BY <2>1, <3>1 DEF EscutaResiste
    <3> QED
      BY <2>2, <3>2, <3>3 DEF EscutaResiste
  <2> QED
    BY <2>3, <2>4
<1>7. CASE RedisCai \/ RedisVolta
  BY <1>7 DEF RedisCai, RedisVolta, EscutaResiste, Surdo, vFio
<1>8. ASSUME NEW p \in Pod, PodReinicia(p)
      PROVE  EscutaResiste'
  BY <1>8 DEF PodReinicia, FioNovo, TypeOK, TipoFio, TipoPedido, EscutaResiste, Surdo
<1> QED
  BY <1>1, <1>2, <1>3, <1>4, <1>5, <1>6, <1>7, <1>8, ListenerAssumption
  DEF Next, Passo

LEMMA LacoPresoPasso ==
  ASSUME TypeOK, LacoPreso, [Next]_vars
  PROVE  LacoPreso'
<1> USE DEF Fio
<1>1. CASE UNCHANGED vars
  BY <1>1 DEF vars, vRedis, vFio, vPedido, LacoPreso
<1>2. ASSUME NEW p \in Pod, NEW x \in Fio, Assina(p, x)
      PROVE  LacoPreso'
  BY <1>2 DEF Assina, Erra, TypeOK, TipoFio, TipoPedido, LacoPreso, vPedido
<1>3. ASSUME NEW p \in Pod, NEW x \in Fio, PercebeQueda(p, x)
      PROVE  LacoPreso'
  BY <1>3 DEF PercebeQueda, Erra, TypeOK, TipoFio, TipoPedido, LacoPreso, vPedido
<1>4. ASSUME NEW p \in Pod, NEW x \in Fio, NEW r \in Parada, ProcessaMensagem(p, x, r)
      PROVE  LacoPreso'
  BY <1>4 DEF ProcessaMensagem, LacoPreso, vPedido
<1>5. ASSUME NEW p \in Pod, NEW x \in Fio, Acorda(p, x)
      PROVE  LacoPreso'
  <2>1. /\ fio \in [Pod -> [Fio -> {"fora", "assinando", "ouvindo", "dormindo"}]]
        /\ bloqueada \in [Pod -> SUBSET Parada]
    BY DEF TypeOK, TipoFio, TipoPedido
  <2>2. UNCHANGED publicadas /\ fio[p][x] = "dormindo"
    BY <1>5 DEF Acorda
  <2>3. CASE UNCHANGED <<pedido, bloqueada>>
    <3>1. \A q \in Pod : fio'[q]["laco"] # "fora" <=> fio[q]["laco"] # "fora"
      BY <1>5, <2>1, <2>2, <2>3 DEF Acorda, LacoPreso
    <3> QED
      BY <2>2, <2>3, <3>1 DEF LacoPreso
  <2>4. CASE /\ x = "laco"
             /\ fio' = [fio EXCEPT ![p][x] = "fora"]
             /\ pedido' = [r \in Parada |->
                  IF r \in bloqueada[p] THEN "confirmado" ELSE pedido[r]]
             /\ bloqueada' = [bloqueada EXCEPT ![p] = {}]
    <3>1. \A q \in Pod : fio'[q]["laco"] = IF q = p THEN "fora" ELSE fio[q]["laco"]
      BY <2>1, <2>4
    <3>2. \A q \in Pod : bloqueada'[q] = IF q = p THEN {} ELSE bloqueada[q]
      BY <2>1, <2>4
    <3>3. \A q \in Pod \ {p} : bloqueada[q] \cap bloqueada[p] = {}
      BY DEF LacoPreso
    <3>4. \A q \in Pod : \A r \in bloqueada'[q] :
            pedido'[r] = "publicando"
      BY <2>1, <2>2, <2>4, <3>2, <3>3 DEF LacoPreso
    <3>5. \A r \in publicadas' : pedido'[r] = "confirmado"
      BY <1>5, <2>2, <2>4 DEF LacoPreso, TypeOK, TipoPedido
    <3> QED
      BY <3>1, <3>2, <3>4, <3>5 DEF LacoPreso
  <2> QED
    BY <1>5, <2>3, <2>4 DEF Acorda
<1>6. ASSUME NEW p \in Pod, NEW r \in Parada, PublicaParada(p, r)
      PROVE  LacoPreso'
  <2>1. /\ fio \in [Pod -> [Fio -> {"fora", "assinando", "ouvindo", "dormindo"}]]
        /\ bloqueada \in [Pod -> SUBSET Parada]
        /\ pedido \in [Parada -> {"ocioso", "publicando", "confirmado", "falhou"}]
    BY DEF TypeOK, TipoFio, TipoPedido
  <2>2. /\ fio[p]["laco"] = "fora" /\ bloqueada[p] = {}
        /\ \A q \in Pod : r \notin bloqueada[q]
    BY <1>6 DEF PublicaParada, LacoPreso
  <2>3. CASE redis = "ativo"
    <3>1. /\ pedido' = [pedido EXCEPT ![r] = "confirmado"]
          /\ publicadas' = publicadas \cup {r} /\ UNCHANGED <<fio, bloqueada>>
      BY <1>6, <2>3 DEF PublicaParada
    <3> QED
      BY <2>1, <2>2, <3>1 DEF LacoPreso
  <2>4. CASE redis # "ativo"
    <3>1. /\ pedido' = [pedido EXCEPT ![r] = "publicando"]
          /\ bloqueada' = [bloqueada EXCEPT ![p] = {r}]
          /\ fio' = [fio EXCEPT ![p]["laco"] = "assinando"]
          /\ publicadas' = publicadas /\ pedido[r] = "ocioso"
      BY <1>6, <2>4 DEF PublicaParada, FalhaPublicar
    <3>2. \A q \in Pod : fio'[q]["laco"] = IF q = p THEN "assinando" ELSE fio[q]["laco"]
      BY <2>1, <3>1
    <3>3. \A q \in Pod : bloqueada'[q] = IF q = p THEN {r} ELSE bloqueada[q]
      BY <2>1, <3>1
    <3> QED
      BY <2>1, <2>2, <3>1, <3>2, <3>3 DEF LacoPreso
  <2> QED
    BY <2>3, <2>4
<1>7. CASE RedisCai \/ RedisVolta
  BY <1>7 DEF RedisCai, RedisVolta, LacoPreso, vFio, vPedido
<1>8. ASSUME NEW p \in Pod, PodReinicia(p)
      PROVE  LacoPreso'
  BY <1>8 DEF PodReinicia, FioNovo, TypeOK, TipoFio, TipoPedido, LacoPreso
<1> QED
  BY <1>1, <1>2, <1>3, <1>4, <1>5, <1>6, <1>7, <1>8, ListenerAssumption
  DEF Next, Passo

\* The variables keep their types.
THEOREM ListenerTypeCorrect == Spec => []TypeOK
BY InicioOK, TypeOKPasso, PTL DEF Spec

\* In every behaviour a pod goes deaf only after more than MAX_TENTATIVAS errors,
\* and every subscription Redis holds has a thread listening to it.
THEOREM ListenerSurvives == Spec => []EscutaResiste
<1>1. TypeOK /\ EscutaResiste /\ [Next]_vars => TypeOK' /\ EscutaResiste'
  BY TypeOKPasso, EscutaResistePasso
<1> QED
  BY <1>1, InicioOK, PTL DEF Spec

\* In every behaviour an event loop inside subscribe_channel holds one request of
\* its own, unanswered; and every published stop has been answered.
THEOREM LoopHeldByRequest == Spec => []LacoPreso
<1>1. TypeOK /\ LacoPreso /\ [Next]_vars => TypeOK' /\ LacoPreso'
  BY TypeOKPasso, LacoPresoPasso
<1> QED
  BY <1>1, InicioOK, PTL DEF Spec
=============================================================================
