---------------------------- MODULE MessageProofs -----------------------------
(* What goes with a message, and how its answer is read.  The agent and the *)
(* model sent are those shown, and fit, for any lists, saved chats and counts *)
(* of words (InputBox); the chips are the files ticked, for any files and *)
(* folders (FileSelection); the answers are handed over in order, to the chat *)
(* they are of, and, where nobody else used the buffer, intact, once each and *)
(* all of them but for those cut at a delimiter, for any streams, chats, bodies *)
(* and chunks (StreamParser). *)
EXTENDS InputBox, FileSelection, StreamParser, FiniteSetTheorems, SequenceTheorems,
  TLAPS

-----------------------------------------------------------------------------
(* The box: agents and models.                                             *)

Agentes == Agente \cup {Automatico, Geral, Nenhum} \cup {s.ultima.agente : s \in Salvo}
Modelos == Modelo \cup {Nenhum} \cup {s.ultima.modelo : s \in Salvo}
Mensagens == [agente : Agentes, modelo : Modelos, palavras : Nat]
Chats == [fase : {"nenhum", "ocioso", "arquivado", "enviado", "fluxo"}, ultima : Mensagens,
          agente : Agentes, modelo : Modelos, anterior : Mensagens]

Vazia(chat) == chat.fase = "nenhum" => chat = CaixaVazia
TypeOK ==
  /\ agenteNoCache \in Agentes
  /\ maxWords \in {60000, 95000} /\ contadorInput \in Nat
  /\ chatNaCaixa \in Chats /\ Vazia(chatNaCaixa)

(* The two copies, whether or not a message can be sent.                   *)
AgenteIgual ==
  agenteNoCache # selectedAgent =>
    \/ agenteNoCache = Automatico
    \/ selectedAgent = Nenhum
    \/ selectedAgent = Geral /\ isModelLocked
ModeloIgual ==
  modeloNoCache # Cru /\ modeloNoCache # modeloSelecionado =>
    modeloSelecionado = Gpt4o \/ modeloSelecionado \notin Modelo

(* The limit of the box is that of the model, before a word is written.    *)
Limite ==
  InputBoxMontado /\ modeloNoCache # Cru /\ maxWords > MaxDe(modeloNoCache) =>
    \/ modeloNoCache \in {Gpt4o, chatNaCaixa.ultima.modelo}
    \/ modeloNoCache \notin Modelo
    \/ chatNaCaixa.fase # "nenhum" /\ chatNaCaixa.ultima.modelo = Nenhum

IInv == TypeOK /\ AgenteIgual /\ ModeloIgual /\ Limite

-----------------------------------------------------------------------------
(* Chats.                                                                  *)

LEMMA MaxDeTipo ==
  ASSUME NEW m
  PROVE  MaxDe(m) \in {60000, 95000} /\ ~(60000 > MaxDe(m))
BY DEF MaxDe

LEMMA SemChatTipo ==
  /\ SemMensagem \in Mensagens /\ SemMensagem.modelo = Nenhum /\ SemMensagem.palavras = 0
  /\ CaixaVazia \in Chats /\ CaixaVazia.fase = "nenhum" /\ CaixaVazia.ultima = SemMensagem
<1>1. SemMensagem \in Mensagens /\ SemMensagem.modelo = Nenhum /\ SemMensagem.palavras = 0
  BY DEF SemMensagem, Ultima, Mensagens, Agentes, Modelos
<1> QED
  BY <1>1 DEF CaixaVazia, Chats, Agentes, Modelos

-----------------------------------------------------------------------------
(* What a chat that appears does.                                          *)

LEMMA MostraTipo ==
  ASSUME TypeOK, NEW chat \in Chats, Vazia(chat), NEW naLoja, Mostra(chat, naLoja)
  PROVE  TypeOK'
<1>1. chatNaCaixa' = chat
  BY DEF Mostra
<1>2. agenteNoCache' \in Agentes
  <2>1. agenteNoCache' = agenteNoCache \/ agenteNoCache' = GetAgentByValue(AgenteDo(chat))
    BY DEF Mostra, EfeitosDoAgente
  <2> QED
    BY <2>1 DEF TypeOK, GetAgentByValue, Agentes
<1>3. maxWords' \in {60000, 95000} /\ contadorInput' \in Nat
  <2>1. chat.ultima.palavras \in Nat
    BY DEF Chats, Mensagens
  <2>2. CASE Montado(chat, naLoja)
    <3>1. EfeitosDoModelo(chat, ~InputBoxMontado) /\ contadorInput' = chat.ultima.palavras
      BY <2>2 DEF Mostra, EfeitosDaCaixa
    <3>2. maxWords' \in {60000, maxWords, MaxDe(chat.ultima.modelo)}
      BY <3>1 DEF EfeitosDoModelo
    <3> QED
      BY <2>1, <3>1, <3>2, MaxDeTipo DEF TypeOK
  <2>3. CASE ~Montado(chat, naLoja)
    BY <2>3 DEF Mostra, EfeitosDaCaixa, vModelo, TypeOK
  <2> QED
    BY <2>2, <2>3
<1> QED
  BY <1>1, <1>2, <1>3 DEF TypeOK

LEMMA MostraAgente ==
  ASSUME AgenteIgual, NEW chat, NEW naLoja, EfeitosDoAgente(chat, naLoja)
  PROVE  AgenteIgual'
<1> DEFINE a == IF ~naLoja /\ chat.ultima # SemMensagem THEN GetAgentByValue(AgenteDo(chat))
                ELSE selectedAgent
           o1 == EfeitoO1(chat, naLoja # loja)
<1>1. /\ agenteNoCache' = IF naLoja \/ chat.ultima = SemMensagem \/ a = Nenhum
                          THEN agenteNoCache ELSE a
      /\ selectedAgent' = IF o1 THEN Geral ELSE a
      /\ isModelLocked' = (isModelLocked \/ o1)
  BY DEF EfeitosDoAgente
<1>2. CASE o1
  BY <1>1, <1>2, Zenon DEF AgenteIgual
<1>3. CASE ~o1 /\ (naLoja \/ chat.ultima = SemMensagem)
  <2>1. a = selectedAgent
    BY <1>3
  <2>2. agenteNoCache' = agenteNoCache /\ selectedAgent' = selectedAgent
    BY <1>1, <1>3, <2>1
  <2>3. isModelLocked => isModelLocked'
    BY <1>1, Zenon
  <2> QED
    BY <2>2, <2>3 DEF AgenteIgual
<1>4. CASE ~o1 /\ ~(naLoja \/ chat.ultima = SemMensagem)
  <2>1. selectedAgent' = a /\ (a = Nenhum \/ agenteNoCache' = a)
    BY <1>1, <1>4
  <2> QED
    BY <2>1 DEF AgenteIgual
<1> QED
  BY <1>2, <1>3, <1>4

LEMMA MostraModelo ==
  ASSUME ModeloIgual, NEW chat, NEW novo, EfeitosDoModelo(chat, novo)
  PROVE  ModeloIgual'
<1>1. CASE MudaModelo(chat, novo)
  BY <1>1 DEF EfeitosDoModelo, ModeloIgual
<1>2. CASE ~MudaModelo(chat, novo)
  BY <1>2 DEF EfeitosDoModelo, ModeloIgual
<1> QED
  BY <1>1, <1>2

(* The limit follows the model, or nothing changes it.                     *)
LEMMA MostraLimite ==
  ASSUME IInv, NEW chat, NEW naLoja, chatNaCaixa' = chat, loja' = naLoja,
         EfeitosDaCaixa(chat, naLoja, modelChats.invalida)
  PROVE  Limite'
<1> SUFFICES ASSUME Montado(chat, naLoja), modeloNoCache' # Cru, maxWords' > MaxDe(modeloNoCache')
             PROVE  \/ modeloNoCache' \in {Gpt4o, chat.ultima.modelo}
                    \/ modeloNoCache' \notin Modelo
                    \/ chat.fase # "nenhum" /\ chat.ultima.modelo = Nenhum
  BY DEF Limite, InputBoxMontado
<1>1. EfeitosDoModelo(chat, ~InputBoxMontado)
  BY DEF EfeitosDaCaixa
<1>2. CASE MudaModelo(chat, ~InputBoxMontado)
  BY <1>1, <1>2, CaixaAssumption DEF EfeitosDoModelo
<1>3. CASE ~MudaModelo(chat, ~InputBoxMontado)
  <2>1. /\ modeloNoCache' = modeloNoCache
        /\ maxWords' = IF ~InputBoxMontado \/ chat.fase = "nenhum" THEN 60000 ELSE maxWords
    BY <1>1, <1>3 DEF EfeitosDoModelo
  <2>2. InputBoxMontado /\ chat.fase # "nenhum" /\ maxWords' = maxWords
    BY <2>1, MaxDeTipo
  <2>3. \/ modeloNoCache \in {Gpt4o, chatNaCaixa.ultima.modelo}
        \/ modeloNoCache \notin Modelo
        \/ chatNaCaixa.fase # "nenhum" /\ chatNaCaixa.ultima.modelo = Nenhum
    BY <2>1, <2>2 DEF IInv, Limite
  <2>4. \/ chat.ultima.modelo = Nenhum \/ modeloNoCache = Vazio
        \/ chat.ultima.modelo = chatNaCaixa.ultima.modelo
    BY <1>3, <2>2 DEF MudaModelo
  <2> QED
    BY <2>1, <2>2, <2>3, <2>4, CaixaAssumption
<1> QED
  BY <1>2, <1>3

LEMMA MostraPasso ==
  ASSUME IInv, NEW chat \in Chats, Vazia(chat), NEW naLoja, Mostra(chat, naLoja)
  PROVE  IInv'
<1>1. TypeOK'
  BY MostraTipo DEF IInv
<1>2. AgenteIgual'
  BY MostraAgente DEF IInv, Mostra
<1>3. ModeloIgual'
  <2>1. CASE Montado(chat, naLoja)
    <3>1. EfeitosDoModelo(chat, ~InputBoxMontado) /\ ModeloIgual
      BY <2>1 DEF Mostra, EfeitosDaCaixa, IInv
    <3> QED
      BY <3>1, MostraModelo
  <2>2. CASE ~Montado(chat, naLoja)
    BY <2>2 DEF Mostra, EfeitosDaCaixa, vModelo, IInv, ModeloIgual
  <2> QED
    BY <2>1, <2>2
<1>4. Limite'
  BY MostraLimite DEF Mostra
<1> QED
  BY <1>1, <1>2, <1>3, <1>4 DEF IInv

-----------------------------------------------------------------------------
(* The steps.                                                              *)

LEMMA IInvInit ==
  ASSUME InitCaixa
  PROVE  IInv
<1>1. chatNaCaixa = CaixaVazia /\ maxWords = 60000 /\ contadorInput = 0
  BY DEF InitCaixa
<1>2. TypeOK
  BY <1>1, SemChatTipo DEF InitCaixa, TypeOK, Vazia, Agentes
<1>3. AgenteIgual /\ ModeloIgual
  BY DEF InitCaixa, AgenteIgual, ModeloIgual
<1>4. Limite
  BY <1>1, MaxDeTipo DEF Limite
<1> QED
  BY <1>2, <1>3, <1>4 DEF IInv

LEMMA AbrePasso ==
  ASSUME IInv, NEW s \in Salvo, Abre(s.ultima, s.arquivado)
  PROVE  IInv'
<1> DEFINE f == IF s.arquivado THEN "arquivado" ELSE "ocioso"
           c == [CaixaVazia EXCEPT !.fase = f, !.ultima = s.ultima]
<1>1. s.ultima \in Mensagens
  <2>1. s.ultima = [agente |-> s.ultima.agente, modelo |-> s.ultima.modelo,
                    palavras |-> s.ultima.palavras] /\ s.ultima.palavras \in Nat
    BY CaixaAssumption DEF Ultima
  <2>2. s.ultima.agente \in Agentes /\ s.ultima.modelo \in Modelos
    BY DEF Agentes, Modelos
  <2> QED
    BY <2>1, <2>2 DEF Mensagens
<1>2. c \in Chats /\ c.fase # "nenhum"
  BY <1>1, SemChatTipo DEF Chats
<1>3. Vazia(c)
  BY <1>2 DEF Vazia
<1>4. Mostra(c, loja)
  BY DEF Abre
<1> HIDE DEF c
<1> QED
  BY <1>2, <1>3, <1>4, MostraPasso

LEMMA NovoPasso ==
  ASSUME IInv, NEW a \in Agente, HandleNewChatNaCaixa(a)
  PROVE  IInv'
<1>1. /\ agenteNoCache' = a /\ selectedAgent' = a /\ chatNaCaixa' = CaixaVazia /\ loja' = loja
  BY DEF HandleNewChatNaCaixa
<1>2. AgenteIgual'
  BY <1>1 DEF AgenteIgual
<1>3. CASE loja \/ chatNaCaixa.fase = "nenhum"
  <2>1. UNCHANGED <<modeloNoCache, modeloSelecionado, maxWords, contadorInput>>
    BY <1>3 DEF HandleNewChatNaCaixa, vModelo
  <2>2. TypeOK'
    BY <1>1, <2>1, SemChatTipo DEF IInv, TypeOK, Vazia, Agentes
  <2>3. ModeloIgual'
    BY <2>1 DEF IInv, ModeloIgual
  <2>4. ASSUME loja
        PROVE  Limite'
    BY <1>1, <2>4 DEF Limite, InputBoxMontado, Montado
  <2>5. ASSUME chatNaCaixa.fase = "nenhum"
        PROVE  Limite'
    <3>1. chatNaCaixa' = chatNaCaixa
      BY <1>1, <2>5 DEF IInv, TypeOK, Vazia
    <3> QED
      BY <1>1, <2>1, <3>1 DEF IInv, Limite, InputBoxMontado, MaxDe
  <2> QED
    BY <1>2, <1>3, <2>2, <2>3, <2>4, <2>5 DEF IInv
<1>4. CASE ~(loja \/ chatNaCaixa.fase = "nenhum")
  <2>1. EfeitosDoModelo(CaixaVazia, ~InputBoxMontado) /\ contadorInput' = 0
    BY <1>4 DEF HandleNewChatNaCaixa
  <2>2. maxWords' = 60000
    BY <2>1, SemChatTipo DEF EfeitosDoModelo, MudaModelo
  <2>3. TypeOK'
    BY <1>1, <2>1, <2>2, SemChatTipo DEF TypeOK, Vazia, Agentes
  <2>4. ModeloIgual'
    BY <2>1, MostraModelo DEF IInv
  <2>5. Limite'
    BY <2>2, MaxDeTipo DEF Limite
  <2> QED
    BY <1>2, <2>3, <2>4, <2>5 DEF IInv
<1> QED
  BY <1>3, <1>4

LEMMA CarregaPasso ==
  ASSUME IInv, Carrega
  PROVE  IInv'
<1> DEFINE m == IF chatNaCaixa.ultima.modelo = Nenhum THEN Gpt4o ELSE chatNaCaixa.ultima.modelo
<1>1. UNCHANGED <<agenteNoCache, selectedAgent, maxWords, isModelLocked, contadorInput, chatNaCaixa,
                  loja, filesSelected>>
  BY DEF Carrega, vAgente
<1>2. TypeOK' /\ AgenteIgual'
  BY <1>1 DEF IInv, TypeOK, AgenteIgual
<1>3. CASE InputBoxMontado
  <2>1. /\ modeloNoCache' = IF m \in Modelo THEN m ELSE Nenhum
        /\ modeloSelecionado' = IF m \in Modelo THEN m ELSE Gpt4o
    BY <1>3 DEF Carrega
  <2>2. ModeloIgual'
    BY <2>1 DEF ModeloIgual
  <2>3. Limite'
    BY <1>1, <2>1, CaixaAssumption DEF Limite
  <2> QED
    BY <1>2, <2>2, <2>3 DEF IInv
<1>4. CASE ~InputBoxMontado
  <2>1. modeloNoCache' = Cru
    BY <1>4 DEF Carrega
  <2> QED
    BY <1>2, <2>1 DEF IInv, ModeloIgual, Limite
<1> QED
  BY <1>3, <1>4

LEMMA SelecionaPasso ==
  ASSUME IInv, NEW m \in Modelo, SelectModel(m)
  PROVE  IInv'
<1>1. /\ modeloNoCache' = m /\ modeloSelecionado' = m /\ maxWords' = MaxDe(m)
      /\ UNCHANGED <<contadorInput, chatNaCaixa, loja>>
  BY DEF SelectModel
<1>2. /\ agenteNoCache' = IF m \in O1 THEN Geral ELSE Automatico
      /\ selectedAgent' = IF m \in O1 THEN Geral ELSE selectedAgent
  BY DEF SelectModel, AgenteDoModelo
<1>3. TypeOK'
  BY <1>1, <1>2, MaxDeTipo DEF IInv, TypeOK, Agentes
<1>4. AgenteIgual'
  BY <1>2 DEF AgenteIgual
<1>5. ModeloIgual'
  BY <1>1 DEF ModeloIgual
<1>6. Limite'
  <2>1. ~(MaxDe(m) > MaxDe(m))
    BY MaxDeTipo
  <2> QED
    BY <1>1, <2>1 DEF Limite, MaxDe
<1> QED
  BY <1>3, <1>4, <1>5, <1>6 DEF IInv

(* The steps that leave the chat and the models alone.                     *)
LEMMA ForaDoModelo ==
  ASSUME IInv, UNCHANGED <<vModelo, chatNaCaixa, loja>>, contadorInput' \in Nat,
         agenteNoCache' \in Agentes, AgenteIgual'
  PROVE  IInv'
BY DEF IInv, TypeOK, ModeloIgual, Limite, InputBoxMontado, Montado, Arquivado, MaxDe, vModelo

LEMMA EscolhePasso ==
  ASSUME IInv, NEW a \in Agentes, Escolhe(a)
  PROVE  IInv'
<1>1. /\ agenteNoCache' = a /\ selectedAgent' = a
      /\ UNCHANGED <<vModelo, contadorInput, chatNaCaixa, loja>>
  BY DEF Escolhe
<1>2. AgenteIgual'
  BY <1>1 DEF AgenteIgual
<1> QED
  BY <1>1, <1>2, ForaDoModelo DEF IInv, TypeOK

LEMMA AgenteParado ==
  ASSUME IInv, UNCHANGED <<vAgente, vModelo, isModelLocked, chatNaCaixa, loja>>, contadorInput' \in Nat
  PROVE  IInv'
<1>1. AgenteIgual' /\ agenteNoCache' \in Agentes
  BY DEF IInv, TypeOK, AgenteIgual, vAgente
<1> QED
  BY <1>1, ForaDoModelo

(* A chat that only changes its phase.                                     *)
LEMMA FasePasso ==
  ASSUME IInv, chatNaCaixa.fase = "enviado", chatNaCaixa' \in Chats,
         chatNaCaixa'.fase \in {"ocioso", "fluxo"}, chatNaCaixa'.ultima = chatNaCaixa.ultima,
         UNCHANGED <<agenteNoCache, vModelo, contadorInput, loja>>, AgenteIgual'
  PROVE  IInv'
<1>1. TypeOK'
  BY DEF IInv, TypeOK, Vazia, vModelo
<1>2. ModeloIgual'
  BY DEF IInv, ModeloIgual, vModelo
<1>3. Limite'
  BY DEF IInv, Limite, InputBoxMontado, Montado, Arquivado, MaxDe, vModelo
<1> QED
  BY <1>1, <1>2, <1>3 DEF IInv

LEMMA EnviaPasso ==
  ASSUME IInv, SubmitChatMessageNaCaixa
  PROVE  IInv'
<1> DEFINE u == Ultima(Nenhum, GetSelectedModel, contadorInput)
           c == [fase |-> "enviado", ultima |-> u, agente |-> agenteNoCache,
                 modelo |-> GetSelectedModel, anterior |-> chatNaCaixa.ultima]
<1>1. GetSelectedModel \in Modelos /\ Nenhum \in Agentes
  BY DEF GetSelectedModel, Modelos, Agentes
<1>2. u \in Mensagens
  BY <1>1 DEF IInv, TypeOK, Ultima, Mensagens
<1>3. chatNaCaixa.ultima \in Mensagens /\ agenteNoCache \in Agentes
  BY DEF IInv, TypeOK, Chats
<1> HIDE DEF u
<1>4. c \in Chats /\ Vazia(c)
  BY <1>1, <1>2, <1>3 DEF Chats, Vazia
<1>5. Mostra(c, FALSE)
  BY DEF SubmitChatMessageNaCaixa, u
<1> HIDE DEF c
<1> QED
  BY <1>4, <1>5, MostraPasso

(* The ends of an answer, and its beginning.                               *)
LEMMA RespostaPasso ==
  ASSUME IInv, \/ PrimeiraResposta \/ TerminaNaCaixa
               \/ HandleErrorResponseNaCaixa \/ HandleStopChatNaCaixa
  PROVE  IInv'
<1>1. chatNaCaixa \in Chats
  BY DEF IInv, TypeOK
<1>2. chatNaCaixa.anterior \in Mensagens /\ chatNaCaixa.ultima \in Mensagens /\ SemMensagem \in Mensagens
  BY <1>1, SemChatTipo DEF Chats
<1>3. CASE PrimeiraResposta
  <2>1. chatNaCaixa.fase = "enviado" /\ chatNaCaixa' = [chatNaCaixa EXCEPT !.fase = "fluxo"]
    BY <1>3 DEF PrimeiraResposta
  <2>2. chatNaCaixa' \in Chats /\ chatNaCaixa'.fase = "fluxo" /\ chatNaCaixa'.ultima = chatNaCaixa.ultima
    BY <1>1, <2>1 DEF Chats
  <2>3. AgenteIgual'
    BY <1>3 DEF PrimeiraResposta, AgenteIgual, IInv
  <2>4. UNCHANGED <<agenteNoCache, vModelo, contadorInput, loja>>
    BY <1>3 DEF PrimeiraResposta
  <2> QED
    BY <2>1, <2>2, <2>3, <2>4, FasePasso
<1>4. CASE TerminaNaCaixa
  <2> DEFINE c == [chatNaCaixa EXCEPT !.fase = "ocioso", !.anterior = SemMensagem]
  <2>1. c \in Chats /\ c.fase = "ocioso"
    BY <1>1, <1>2 DEF Chats
  <2>2. Mostra(c, loja)
    BY <1>4 DEF TerminaNaCaixa
  <2> HIDE DEF c
  <2> QED
    BY <2>1, <2>2, MostraPasso DEF Vazia
<1>5. CASE HandleErrorResponseNaCaixa
  <2> DEFINE c == [chatNaCaixa EXCEPT !.fase = "ocioso", !.ultima = chatNaCaixa.anterior,
                                     !.anterior = SemMensagem]
  <2>1. c \in Chats /\ c.fase = "ocioso"
    BY <1>1, <1>2 DEF Chats
  <2>2. Mostra(c, loja)
    BY <1>5 DEF HandleErrorResponseNaCaixa
  <2> HIDE DEF c
  <2> QED
    BY <2>1, <2>2, MostraPasso DEF Vazia
<1>6. CASE HandleStopChatNaCaixa
  <2>1. /\ chatNaCaixa.fase = "enviado"
        /\ chatNaCaixa' = [chatNaCaixa EXCEPT !.fase = "ocioso", !.anterior = SemMensagem]
    BY <1>6 DEF HandleStopChatNaCaixa
  <2>2. chatNaCaixa' \in Chats /\ chatNaCaixa'.fase = "ocioso" /\ chatNaCaixa'.ultima = chatNaCaixa.ultima
    BY <1>1, <1>2, <2>1 DEF Chats
  <2>3. UNCHANGED <<vAgente, isModelLocked, vModelo, contadorInput, loja>>
    BY <1>6 DEF HandleStopChatNaCaixa
  <2>4. AgenteIgual'
    BY <2>3 DEF AgenteIgual, IInv, vAgente
  <2> QED
    BY <2>1, <2>2, <2>3, <2>4, FasePasso DEF vAgente
<1> QED
  BY <1>3, <1>4, <1>5, <1>6

LEMMA IInvPasso ==
  ASSUME IInv, [NextCaixa]_varsCaixa
  PROVE  IInv'
<1>1. ASSUME NEW s \in Salvo, Abre(s.ultima, s.arquivado)
      PROVE  IInv'
  BY <1>1, AbrePasso
<1>2. ASSUME NEW a \in Agente, HandleNewChatNaCaixa(a)
      PROVE  IInv'
  BY <1>2, NovoPasso
<1>3. ASSUME NEW a \in Agente, SelectAgent(a) \/ Menciona(a)
      PROVE  IInv'
  BY <1>3, EscolhePasso DEF SelectAgent, Menciona, Agentes
<1>4. ASSUME NEW m \in Modelo, SelectModel(m)
      PROVE  IInv'
  BY <1>4, SelecionaPasso
<1>5. ASSUME NEW n \in Contagem, HandleChangePrompt(n)
      PROVE  IInv'
  BY <1>5, AgenteParado, CaixaAssumption DEF HandleChangePrompt
<1>6. CASE TrocaLoja
  BY <1>6, MostraPasso DEF TrocaLoja, IInv, TypeOK
<1>7. CASE TrocaAba
  <2>1. AgenteIgual'
    BY <1>7 DEF TrocaAba, AgenteIgual
  <2> QED
    BY <1>7, <2>1, ForaDoModelo DEF TrocaAba, IInv, TypeOK
<1>8. CASE Carrega
  BY <1>8, CarregaPasso
<1>9. CASE NaoCarrega \/ RetiraChips
  <2>1. UNCHANGED <<vAgente, vModelo, isModelLocked, contadorInput, chatNaCaixa, loja>>
    BY <1>9 DEF NaoCarrega, RetiraChips
  <2> QED
    BY <2>1, AgenteParado DEF IInv, TypeOK
<1>10. CASE HandleFileSelection
  <2>1. CASE selectedAgent \in {Automatico, Nenhum}
    BY <1>10, <2>1, AgenteParado DEF HandleFileSelection, IInv, TypeOK
  <2>2. CASE selectedAgent \notin {Automatico, Nenhum}
    BY <1>10, <2>2, EscolhePasso DEF HandleFileSelection, Agentes
  <2> QED
    BY <2>1, <2>2
<1>11. CASE SubmitChatMessageNaCaixa
  BY <1>11, EnviaPasso
<1>12. CASE \/ PrimeiraResposta \/ TerminaNaCaixa
            \/ HandleErrorResponseNaCaixa \/ HandleStopChatNaCaixa
  BY <1>12, RespostaPasso
<1>13. CASE UNCHANGED varsCaixa
  BY <1>13, AgenteParado DEF varsCaixa, IInv, TypeOK
<1> QED
  BY <1>1, <1>2, <1>3, <1>4, <1>5, <1>6, <1>7, <1>8, <1>9, <1>10, <1>11, <1>12, <1>13 DEF NextCaixa

LEMMA Sempre == SpecCaixa => []IInv
<1>1. InitCaixa => IInv
  BY IInvInit
<1>2. IInv /\ [NextCaixa]_varsCaixa => IInv'
  BY IInvPasso
<1> QED
  BY <1>1, <1>2, PTL DEF SpecCaixa

-----------------------------------------------------------------------------
(* The theorems.                                                           *)

(* A message goes to the agent and to the model the screen shows, but for  *)
(* the differences named (InputBox.tsx:301-308, SelectModelChat.tsx:       *)
(* 108-150, ChatBox.tsx:110-121).                                          *)
THEOREM SentIsShown == SpecCaixa => []AgenteEModeloMostrados
<1>1. IInv => AgenteEModeloMostrados
  BY DEF IInv, AgenteIgual, ModeloIgual, AgenteEModeloMostrados, CanSendMessage
<1> QED
  BY <1>1, Sempre, PTL

(* What is sent fits the model it goes to, but for the changes of model    *)
(* that leave the limit behind (InputBox.tsx:207-229, 301-308,             *)
(* SelectModelChat.tsx:55-97).                                             *)
THEOREM SentFitsTheModel == SpecCaixa => []LimiteDoModelo
<1>1. IInv => LimiteDoModelo
  <2> SUFFICES ASSUME IInv, CanSendMessage, contadorInput > MaxDe(modeloNoCache)
               PROVE  \/ modeloNoCache \in {Gpt4o, chatNaCaixa.ultima.modelo}
                      \/ modeloNoCache \notin Modelo
                      \/ chatNaCaixa.fase # "nenhum" /\ chatNaCaixa.ultima.modelo = Nenhum
    BY DEF LimiteDoModelo
  <2>1. maxWords > MaxDe(modeloNoCache)
    BY MaxDeTipo DEF CanSendMessage, IInv, TypeOK
  <2> QED
    BY <2>1 DEF CanSendMessage, IInv, Limite
<1> QED
  BY <1>1, Sempre, PTL

-----------------------------------------------------------------------------
(* Chips and ticks of files.                                               *)

ListaPossivel ==
  [pasta : [Documento -> Pasta \cup {Fora}], marcados : SUBSET Documento, cheias : SUBSET Pasta]

SelecaoTypeOK ==
  /\ lista \in ListaPossivel
  /\ chips \subseteq Documento /\ ultima \subseteq Documento
  /\ aba \in {"arquivos", "outra", "loja"}
  /\ copia \in [lista : ListaPossivel, viva : BOOLEAN] \cup {Nenhuma}
  /\ pedido \in [lista : ListaPossivel, avisa : BOOLEAN, escreve : BOOLEAN] \cup {Nenhuma}
  /\ busca \in BOOLEAN /\ desacordo \subseteq Documento

SelecaoInv == SelecaoTypeOK /\ ChipsSaoMarcas

LEMMA CheiasTipo ==
  ASSUME NEW pasta, NEW m
  PROVE  Cheias(pasta, m) \subseteq Pasta
BY DEF Cheias

LEMMA ListaTipo ==
  ASSUME NEW l \in ListaPossivel
  PROVE  /\ l.pasta \in [Documento -> Pasta \cup {Fora}]
         /\ l.marcados \subseteq Documento /\ l.cheias \subseteq Pasta
         /\ Listados(l) \subseteq Documento
         /\ l = Lista(l.pasta, l.marcados, l.cheias)
BY DEF ListaPossivel, Listados, Lista

LEMMA ListaFeita ==
  ASSUME NEW pasta \in [Documento -> Pasta \cup {Fora}],
         NEW m \in SUBSET Documento, NEW k \in SUBSET Pasta
  PROVE  /\ Lista(pasta, m, k) \in ListaPossivel
         /\ Lista(pasta, m, k).pasta = pasta /\ Lista(pasta, m, k).marcados = m
         /\ Lista(pasta, m, k).cheias = k
BY DEF ListaPossivel, Lista

LEMMA SelectFilesDe ==
  ASSUME NEW l \in ListaPossivel, NEW c \in SUBSET Documento
  PROVE  /\ SelectFiles(l, c) \in ListaPossivel
         /\ SelectFiles(l, c).pasta = l.pasta
         /\ SelectFiles(l, c).marcados = c \cap Listados(l)
         /\ Listados(SelectFiles(l, c)) = Listados(l)
<1> DEFINE m == c \cap Listados(l)
           k == Cheias(l.pasta, m)
<1>1. m \in SUBSET Documento /\ k \in SUBSET Pasta
  BY CheiasTipo
<1>2. SelectFiles(l, c) = Lista(l.pasta, m, k)
  BY DEF SelectFiles
<1>3. l.pasta \in [Documento -> Pasta \cup {Fora}]
  BY ListaTipo
<1> HIDE DEF m, k
<1>4. /\ SelectFiles(l, c) \in ListaPossivel
      /\ SelectFiles(l, c).pasta = l.pasta /\ SelectFiles(l, c).marcados = m
  BY <1>1, <1>2, <1>3, ListaFeita
<1>5. Listados(SelectFiles(l, c)) = Listados(l)
  BY <1>4 DEF Listados
<1> QED
  BY <1>4, <1>5 DEF m

(* The chips and the list they are set with agree afterwards, wherever the *)
(* tab is, if the list's ticks were not touched while it is closed.        *)
LEMMA SetFilesSelectedPasso ==
  ASSUME SelecaoInv, NEW c \in SUBSET Documento, NEW l \in ListaPossivel,
         NaAba \/ l = lista, SetFilesSelected(c, l)
  PROVE  /\ ChipsSaoMarcas'
         /\ lista' \in ListaPossivel /\ chips' \subseteq Documento /\ desacordo' \subseteq Documento
<1>1. CASE NaAba
  <2>1. chips' = c /\ lista' = SelectFiles(l, c) /\ desacordo' = {}
    BY <1>1 DEF SetFilesSelected
  <2>2. /\ lista' \in ListaPossivel /\ lista'.marcados = c \cap Listados(l)
        /\ Listados(lista') = Listados(l)
    BY <2>1, SelectFilesDe
  <2> QED
    BY <2>1, <2>2 DEF ChipsSaoMarcas, Listados
<1>2. CASE ~NaAba
  <2>1. chips' = c /\ lista' = lista /\ desacordo' = desacordo \cup Diferenca(chips, c)
    BY <1>2 DEF SetFilesSelected
  <2> QED
    BY <2>1 DEF ChipsSaoMarcas, Listados, Diferenca, SelecaoInv, SelecaoTypeOK
<1> QED
  BY <1>1, <1>2

LEMMA SetUploadedFilesPasso ==
  ASSUME SelecaoInv, NEW l \in ListaPossivel, SetUploadedFiles(l)
  PROVE  /\ ChipsSaoMarcas'
         /\ lista' \in ListaPossivel /\ chips' \subseteq Documento /\ desacordo' \subseteq Documento
<1>1. /\ lista' = l /\ chips' = chips
      /\ desacordo' = desacordo \cup Diferenca(lista.marcados, l.marcados)
                                \cup (Listados(l) \ Listados(lista))
  BY DEF SetUploadedFiles
<1>2. lista.marcados \subseteq Documento /\ l.marcados \subseteq Documento
  BY ListaTipo DEF SelecaoInv, SelecaoTypeOK
<1> QED
  BY <1>1, <1>2 DEF ChipsSaoMarcas, Listados, Diferenca, SelecaoInv, SelecaoTypeOK

(* The parts of the state an action leaves alone, with the rest as the two *)
(* lemmas above give it.                                                   *)
LEMMA RestoIgual ==
  ASSUME SelecaoInv, ChipsSaoMarcas',
         lista' \in ListaPossivel, chips' \subseteq Documento, desacordo' \subseteq Documento,
         ultima' \subseteq Documento, aba' \in {"arquivos", "outra", "loja"},
         copia' = copia, busca' \in BOOLEAN,
         pedido' \in {pedido, Nenhuma}
  PROVE  SelecaoInv'
BY DEF SelecaoInv, SelecaoTypeOK

LEMMA ListaComMarcas ==
  ASSUME NEW l \in ListaPossivel, NEW m \in SUBSET Documento
  PROVE  LET n == [l EXCEPT !.marcados = m]
         IN n \in ListaPossivel /\ n.pasta = l.pasta /\ n.marcados = m /\ Listados(n) = Listados(l)
BY DEF ListaPossivel, Listados

LEMMA HandleSelectFilePasso ==
  ASSUME SelecaoInv, NEW f \in Documento, HandleSelectFile(f)
  PROVE  SelecaoInv'
<1>1. lista \in ListaPossivel /\ lista.marcados \subseteq Documento
  BY ListaTipo DEF SelecaoInv, SelecaoTypeOK
<1>2. /\ NaAba /\ SetFilesSelected(Diferenca(lista.marcados, {f}), lista)
      /\ UNCHANGED <<ultima, aba, copia, pedido, busca>>
  BY DEF HandleSelectFile
<1>3. Diferenca(lista.marcados, {f}) \in SUBSET Documento
  BY <1>1 DEF Diferenca
<1>4. /\ ChipsSaoMarcas'
      /\ lista' \in ListaPossivel /\ chips' \subseteq Documento /\ desacordo' \subseteq Documento
  BY <1>1, <1>2, <1>3, SetFilesSelectedPasso
<1> QED
  BY <1>2, <1>4, RestoIgual DEF SelecaoInv, SelecaoTypeOK

LEMMA HandleFolderSelectedPasso ==
  ASSUME SelecaoInv, NEW p \in Pasta, NEW vistos \in SUBSET ArquivosDe(lista, p),
         HandleFolderSelected(p, vistos)
  PROVE  SelecaoInv'
<1> DEFINE fs == ArquivosDe(lista, p)
           c == IF p \in lista.cheias THEN lista.marcados \ fs ELSE lista.marcados \cup fs
           l == [lista EXCEPT !.pasta = [f \in Documento |-> IF f \in fs \ vistos THEN Fora ELSE @[f]]]
<1>1. lista \in ListaPossivel /\ lista.marcados \subseteq Documento /\ fs \subseteq Documento
  BY ListaTipo DEF SelecaoInv, SelecaoTypeOK, ArquivosDe
<1>2. /\ NaAba /\ SetFilesSelected(c, l)
      /\ UNCHANGED <<ultima, aba, copia, pedido, busca>>
  BY DEF HandleFolderSelected
<1>3. c \in SUBSET Documento
  BY <1>1
<1>4. l \in ListaPossivel
  BY <1>1 DEF ListaPossivel
<1>5. /\ ChipsSaoMarcas'
      /\ lista' \in ListaPossivel /\ chips' \subseteq Documento /\ desacordo' \subseteq Documento
  BY <1>2, <1>3, <1>4, SetFilesSelectedPasso
<1> QED
  BY <1>2, <1>5, RestoIgual DEF SelecaoInv, SelecaoTypeOK

LEMMA HandleUnselectFilePasso ==
  ASSUME SelecaoInv, NEW f \in Documento, HandleUnselectFile(f)
  PROVE  SelecaoInv'
<1>1. lista \in ListaPossivel /\ chips \subseteq Documento /\ desacordo \subseteq Documento
  BY DEF SelecaoInv, SelecaoTypeOK
<1>2. /\ chips' = chips \ {f}
      /\ IF NaAba THEN lista' = SelectFiles(Desmarcado(f), chips \ {f}) /\ desacordo' = {}
         ELSE lista' = Desmarcado(f) /\ UNCHANGED desacordo
      /\ UNCHANGED <<ultima, aba, copia, pedido, busca>>
  BY DEF HandleUnselectFile
<1>3. /\ Desmarcado(f) \in ListaPossivel /\ Listados(Desmarcado(f)) = Listados(lista)
      /\ Desmarcado(f).marcados = lista.marcados \ {f}
  BY <1>1 DEF Desmarcado, ListaPossivel, Listados
<1>4. /\ ChipsSaoMarcas'
      /\ lista' \in ListaPossivel /\ chips' \subseteq Documento /\ desacordo' \subseteq Documento
  <2>1. CASE NaAba
    <3>1. /\ SelectFiles(Desmarcado(f), chips \ {f}) \in ListaPossivel
          /\ SelectFiles(Desmarcado(f), chips \ {f}).marcados = (chips \ {f}) \cap Listados(lista)
          /\ Listados(SelectFiles(Desmarcado(f), chips \ {f})) = Listados(lista)
      BY <1>1, <1>3, SelectFilesDe
    <3> QED
      BY <1>1, <1>2, <2>1, <3>1 DEF ChipsSaoMarcas
  <2>2. CASE ~NaAba
    BY <1>1, <1>2, <1>3, <2>2 DEF ChipsSaoMarcas, SelecaoInv
  <2> QED
    BY <2>1, <2>2
<1> QED
  BY <1>2, <1>4, RestoIgual DEF SelecaoInv, SelecaoTypeOK

LEMMA ClearChipSelectionPasso ==
  ASSUME SelecaoInv, ClearChipSelection
  PROVE  SelecaoInv'
<1> DEFINE limpa == [lista EXCEPT !.marcados = {}]
<1>1. lista \in ListaPossivel /\ chips \subseteq Documento /\ desacordo \subseteq Documento
  BY DEF SelecaoInv, SelecaoTypeOK
<1>2. /\ limpa \in ListaPossivel /\ limpa.marcados = {}
  BY <1>1, ListaComMarcas
<1>3. /\ chips' = {} /\ copia' = [lista |-> limpa, viva |-> FALSE]
      /\ IF NaAba THEN lista' = limpa /\ desacordo' = {}
         ELSE desacordo' = desacordo \cup chips /\ UNCHANGED lista
      /\ UNCHANGED <<ultima, aba, pedido, busca>>
  BY DEF ClearChipSelection
<1>4. copia' \in [lista : ListaPossivel, viva : BOOLEAN]
  BY <1>2, <1>3
<1>5. ChipsSaoMarcas' /\ lista' \in ListaPossivel /\ desacordo' \subseteq Documento
  BY <1>1, <1>2, <1>3 DEF ChipsSaoMarcas, Listados, SelecaoInv
<1> QED
  BY <1>3, <1>4, <1>5 DEF SelecaoInv, SelecaoTypeOK

LEMMA ButtonClearAllFilesPasso ==
  ASSUME SelecaoInv, ButtonClearAllFiles
  PROVE  SelecaoInv'
<1>1. /\ SetFilesSelected({}, lista)
      /\ UNCHANGED <<ultima, aba, copia, pedido, busca>>
  BY DEF ButtonClearAllFiles
<1>2. /\ ChipsSaoMarcas'
      /\ lista' \in ListaPossivel /\ chips' \subseteq Documento /\ desacordo' \subseteq Documento
  BY <1>1, SetFilesSelectedPasso DEF SelecaoInv, SelecaoTypeOK
<1> QED
  BY <1>1, <1>2, RestoIgual DEF SelecaoInv, SelecaoTypeOK

LEMMA HandleClickFileChipPasso ==
  ASSUME SelecaoInv, NEW f \in Documento, HandleClickFileChip(f)
  PROVE  SelecaoInv'
<1> DEFINE m == lista.marcados \cup ({f} \cap Listados(lista))
<1>1. /\ lista \in ListaPossivel /\ chips \subseteq Documento /\ desacordo \subseteq Documento
      /\ lista.marcados \subseteq Documento
  BY ListaTipo DEF SelecaoInv, SelecaoTypeOK
<1>2. /\ f \in chips /\ aba' = "arquivos" /\ lista' = [lista EXCEPT !.marcados = m]
      /\ copia' = [lista |-> lista', viva |-> TRUE] /\ desacordo' = desacordo \ {f}
      /\ UNCHANGED <<chips, ultima, pedido, busca>>
  BY DEF HandleClickFileChip
<1>3. m \in SUBSET Documento
  BY <1>1
<1>4. /\ lista' \in ListaPossivel /\ lista'.marcados = m /\ Listados(lista') = Listados(lista)
  BY <1>1, <1>2, <1>3, ListaComMarcas
<1>5. copia' \in [lista : ListaPossivel, viva : BOOLEAN]
  BY <1>2, <1>4
<1>6. ChipsSaoMarcas'
  BY <1>1, <1>2, <1>4 DEF ChipsSaoMarcas, SelecaoInv
<1> QED
  BY <1>1, <1>2, <1>4, <1>5, <1>6 DEF SelecaoInv, SelecaoTypeOK

LEMMA RestauradasTipo ==
  ASSUME SelecaoInv, NEW l \in Restauradas
  PROVE  l \in ListaPossivel /\ (copia = Nenhuma => l = lista)
<1>1. lista \in ListaPossivel
  BY DEF SelecaoInv, SelecaoTypeOK
<1>2. CASE copia = Nenhuma
  BY <1>1, <1>2 DEF Restauradas
<1>3. CASE copia # Nenhuma
  <2>1. copia.lista \in ListaPossivel
    BY <1>3 DEF SelecaoInv, SelecaoTypeOK
  <2>2. PICK S : l = Lista([f \in Documento |-> IF f \in S THEN copia.lista.pasta[f]
                                              ELSE lista.pasta[f]],
                           (copia.lista.marcados \cap S) \cup (lista.marcados \ S),
                           copia.lista.cheias)
    BY <1>3 DEF Restauradas
  <2> DEFINE pasta == [f \in Documento |-> IF f \in S THEN copia.lista.pasta[f] ELSE lista.pasta[f]]
             m == (copia.lista.marcados \cap S) \cup (lista.marcados \ S)
  <2>3. pasta \in [Documento -> Pasta \cup {Fora}] /\ m \in SUBSET Documento
        /\ copia.lista.cheias \in SUBSET Pasta
    BY <1>1, <2>1, ListaTipo
  <2>4. Lista(pasta, m, copia.lista.cheias) \in ListaPossivel
    BY <2>3, ListaFeita
  <2> QED
    BY <1>3, <2>2, <2>4
<1> QED
  BY <1>2, <1>3

LEMMA AbreAbaPasso ==
  ASSUME SelecaoInv, NEW a \in {"arquivos", "outra", "loja"}, AbreAba(a)
  PROVE  SelecaoInv'
<1>1. lista \in ListaPossivel /\ chips \subseteq Documento /\ desacordo \subseteq Documento
  BY DEF SelecaoInv, SelecaoTypeOK
<1>2. PICK l \in IF a = "arquivos" THEN Restauradas ELSE {lista} :
        IF NaCaixa
        THEN /\ lista' = l /\ UNCHANGED chips
             /\ desacordo' = IF a = "arquivos" /\ copia # Nenhuma THEN Documento ELSE desacordo
        ELSE /\ chips' = {}
             /\ IF a = "arquivos" THEN lista' = SelectFiles(l, {}) /\ desacordo' = {}
                ELSE lista' = l /\ desacordo' = desacordo \cup chips
  BY DEF AbreAba
<1>3. aba' = a /\ UNCHANGED <<ultima, copia, pedido, busca>>
  BY DEF AbreAba
<1>4. l \in ListaPossivel /\ (a # "arquivos" \/ copia = Nenhuma => l = lista)
  BY <1>1, RestauradasTipo
<1>5. /\ ChipsSaoMarcas'
      /\ lista' \in ListaPossivel /\ chips' \subseteq Documento /\ desacordo' \subseteq Documento
  <2>1. CASE NaCaixa
    <3>1. /\ lista' = l /\ chips' = chips
          /\ desacordo' = IF a = "arquivos" /\ copia # Nenhuma THEN Documento ELSE desacordo
      BY <1>2, <2>1
    <3> QED
      BY <1>1, <1>4, <3>1 DEF ChipsSaoMarcas, Listados, SelecaoInv
  <2>2. CASE ~NaCaixa /\ a = "arquivos"
    <3>1. /\ SelectFiles(l, {}) \in ListaPossivel
          /\ SelectFiles(l, {}).marcados = {} \cap Listados(l)
      BY <1>4, SelectFilesDe
    <3> QED
      BY <1>2, <2>2, <3>1 DEF ChipsSaoMarcas
  <2>3. CASE ~NaCaixa /\ a # "arquivos"
    BY <1>1, <1>2, <1>4, <2>3 DEF ChipsSaoMarcas, SelecaoInv
  <2> QED
    BY <2>1, <2>2, <2>3
<1> QED
  BY <1>3, <1>5, RestoIgual DEF SelecaoInv, SelecaoTypeOK

LEMMA MostraChatPasso ==
  ASSUME SelecaoInv, NEW s \in SUBSET Documento, MostraChat(s)
  PROVE  SelecaoInv'
<1>1. lista \in ListaPossivel /\ chips \subseteq Documento /\ desacordo \subseteq Documento
  BY DEF SelecaoInv, SelecaoTypeOK
<1>2. /\ ultima' = s /\ UNCHANGED <<aba, copia, pedido, busca>>
      /\ IF NaCaixa THEN SetFilesSelected(s \cap Listados(lista), lista)
         ELSE UNCHANGED <<chips, lista, desacordo>>
  BY DEF MostraChat
<1>3. /\ ChipsSaoMarcas'
      /\ lista' \in ListaPossivel /\ chips' \subseteq Documento /\ desacordo' \subseteq Documento
  <2>1. CASE NaCaixa
    <3>1. s \cap Listados(lista) \in SUBSET Documento
      OBVIOUS
    <3> QED
      BY <1>1, <1>2, <2>1, <3>1, SetFilesSelectedPasso
  <2>2. CASE ~NaCaixa
    BY <1>1, <1>2, <2>2 DEF ChipsSaoMarcas, Listados, SelecaoInv
  <2> QED
    BY <2>1, <2>2
<1> QED
  BY <1>2, <1>3, RestoIgual DEF SelecaoInv, SelecaoTypeOK

LEMMA ChatNovoPasso ==
  ASSUME SelecaoInv, ChatNovo
  PROVE  SelecaoInv'
<1>1. /\ ultima' = {} /\ busca' = TRUE /\ SetFilesSelected({}, lista)
      /\ UNCHANGED <<aba, copia, pedido>>
  BY DEF ChatNovo
<1>2. /\ ChipsSaoMarcas'
      /\ lista' \in ListaPossivel /\ chips' \subseteq Documento /\ desacordo' \subseteq Documento
  BY <1>1, SetFilesSelectedPasso DEF SelecaoInv, SelecaoTypeOK
<1> QED
  BY <1>1, <1>2, RestoIgual DEF SelecaoInv, SelecaoTypeOK

LEMMA ListFoldersPasso ==
  ASSUME SelecaoInv, NEW pasta \in [Documento -> Pasta \cup {Fora}], ListFolders(pasta)
  PROVE  SelecaoInv'
<1>1. /\ busca' = FALSE /\ lista' = Lista(pasta, {}, {}) /\ desacordo' = desacordo \cup chips
      /\ UNCHANGED <<chips, ultima, aba, copia, pedido>>
  BY DEF ListFolders
<1>2. lista' \in ListaPossivel /\ lista'.marcados = {}
  BY <1>1, ListaFeita
<1>3. chips \subseteq Documento /\ desacordo \subseteq Documento
  BY DEF SelecaoInv, SelecaoTypeOK
<1>4. ChipsSaoMarcas'
  BY <1>1, <1>2 DEF ChipsSaoMarcas
<1> QED
  BY <1>1, <1>2, <1>3, <1>4, RestoIgual DEF SelecaoInv, SelecaoTypeOK

(* A request starts with lists of the files and folders there are.         *)
LEMMA RequisitaPasso ==
  ASSUME SelecaoInv, NEW l \in ListaPossivel, NEW agora \in ListaPossivel,
         NEW avisa \in BOOLEAN, NEW escreve \in BOOLEAN, Requisita(l, agora, avisa, escreve)
  PROVE  SelecaoInv'
<1>1. /\ pedido' = [lista |-> l, avisa |-> avisa, escreve |-> escreve]
      /\ SetUploadedFiles(agora) /\ UNCHANGED <<ultima, aba, copia, busca>>
  BY DEF Requisita
<1>2. /\ ChipsSaoMarcas'
      /\ lista' \in ListaPossivel /\ chips' \subseteq Documento /\ desacordo' \subseteq Documento
  BY <1>1, SetUploadedFilesPasso
<1>3. pedido' \in [lista : ListaPossivel, avisa : BOOLEAN, escreve : BOOLEAN]
  BY <1>1
<1> QED
  BY <1>1, <1>2, <1>3 DEF SelecaoInv, SelecaoTypeOK

LEMMA SemArquivosTipo ==
  ASSUME SelecaoInv, NEW fs, NEW k \in SUBSET Pasta
  PROVE  SemArquivos(fs, k) \in ListaPossivel
<1>1. /\ lista.pasta \in [Documento -> Pasta \cup {Fora}]
      /\ lista.marcados \subseteq Documento
  BY ListaTipo DEF SelecaoInv, SelecaoTypeOK
<1> DEFINE pasta == [f \in Documento |-> IF f \in fs THEN Fora ELSE lista.pasta[f]]
           m == lista.marcados \ fs
<1>2. pasta \in [Documento -> Pasta \cup {Fora}] /\ m \in SUBSET Documento
  BY <1>1
<1>3. Lista(pasta, m, k) \in ListaPossivel
  BY <1>2, ListaFeita
<1> QED
  BY <1>3 DEF SemArquivos

LEMMA HandleDeleteFolderPasso ==
  ASSUME SelecaoInv, NEW p \in Pasta, HandleDeleteFolder(p)
  PROVE  SelecaoInv'
<1> DEFINE l == SemArquivos(ArquivosDe(lista, p), lista.cheias \ {p})
<1>1. lista \in ListaPossivel /\ lista.cheias \ {p} \in SUBSET Pasta
  BY ListaTipo DEF SelecaoInv, SelecaoTypeOK
<1>2. l \in ListaPossivel
  BY <1>1, SemArquivosTipo
<1> QED
  BY <1>1, <1>2, RequisitaPasso DEF HandleDeleteFolder

(* The other requests of the menus, with the list each will write.         *)
LEMMA PedidosPasso ==
  ASSUME SelecaoInv, NEW f \in Documento, NEW p \in Pasta, NEW q \in Pasta,
         \/ HandleDeleteFile(f) \/ HandleDeleteFiles(p)
         \/ HandleMovedFile(f, q) \/ HandleMovedFileBulk(p, q)
         \/ HandleCopiedFile(p, f, q) \/ HandleSingleUpload(f, q)
  PROVE  SelecaoInv'
<1>1. /\ lista \in ListaPossivel /\ lista.pasta \in [Documento -> Pasta \cup {Fora}]
      /\ lista.marcados \in SUBSET Documento /\ lista.cheias \in SUBSET Pasta
  BY ListaTipo DEF SelecaoInv, SelecaoTypeOK
<1>2. CASE HandleDeleteFile(f)
  <2> DEFINE r == lista.pasta[f]
             k == IF ArquivosDe(lista, r) = {f} THEN lista.cheias \ {r} ELSE lista.cheias
             l == SemArquivos({f}, k)
  <2>1. Requisita(l, l, TRUE, FALSE)
    BY <1>2 DEF HandleDeleteFile
  <2>2. k \in SUBSET Pasta
    BY <1>1
  <2>3. l \in ListaPossivel
    BY <2>2, SemArquivosTipo
  <2> QED
    BY <2>1, <2>3, RequisitaPasso
<1>3. CASE HandleDeleteFiles(p)
  <2> DEFINE l == SemArquivos(ArquivosDe(lista, p) \cap lista.marcados, lista.cheias \ {p})
  <2>1. Requisita(l, l, TRUE, TRUE)
    BY <1>3 DEF HandleDeleteFiles
  <2>2. lista.cheias \ {p} \in SUBSET Pasta
    BY <1>1
  <2>3. l \in ListaPossivel
    BY <2>2, SemArquivosTipo
  <2> QED
    BY <2>1, <2>3, RequisitaPasso
<1>4. CASE HandleMovedFile(f, q)
  <2> DEFINE pasta == [lista.pasta EXCEPT ![f] = q]
             m == lista.marcados \ {f}
             k == lista.cheias \ {lista.pasta[f]}
  <2>1. Requisita(Lista(pasta, m, k), lista, FALSE, TRUE)
    BY <1>4 DEF HandleMovedFile
  <2>2. /\ pasta \in [Documento -> Pasta \cup {Fora}]
        /\ m \in SUBSET Documento /\ k \in SUBSET Pasta
    BY <1>1
  <2>3. Lista(pasta, m, k) \in ListaPossivel
    BY <2>2, ListaFeita
  <2> QED
    BY <1>1, <2>1, <2>3, RequisitaPasso
<1>5. CASE HandleMovedFileBulk(p, q)
  <2> DEFINE fs == ArquivosDe(lista, p) \cap lista.marcados
             pasta == [g \in Documento |-> IF g \in fs THEN q ELSE lista.pasta[g]]
             m == lista.marcados \ ArquivosDe(lista, p)
             k == lista.cheias \ {p}
  <2>1. Requisita(Lista(pasta, m, k), lista, FALSE, TRUE)
    BY <1>5 DEF HandleMovedFileBulk
  <2>2. /\ pasta \in [Documento -> Pasta \cup {Fora}]
        /\ m \in SUBSET Documento /\ k \in SUBSET Pasta
    BY <1>1
  <2>3. Lista(pasta, m, k) \in ListaPossivel
    BY <2>2, ListaFeita
  <2> QED
    BY <1>1, <2>1, <2>3, RequisitaPasso
<1>6. CASE HandleCopiedFile(p, f, q)
  <2> DEFINE pasta == [lista.pasta EXCEPT ![f] = q]
             m == lista.marcados \ ArquivosDe(lista, p)
             k == lista.cheias \ {p, q}
  <2>1. Requisita(Lista(pasta, m, k), lista, TRUE, TRUE)
    BY <1>6 DEF HandleCopiedFile
  <2>2. /\ pasta \in [Documento -> Pasta \cup {Fora}]
        /\ m \in SUBSET Documento /\ k \in SUBSET Pasta
    BY <1>1
  <2>3. Lista(pasta, m, k) \in ListaPossivel
    BY <2>2, ListaFeita
  <2> QED
    BY <1>1, <2>1, <2>3, RequisitaPasso
<1>7. CASE HandleSingleUpload(f, q)
  <2> DEFINE pasta == [lista.pasta EXCEPT ![f] = q]
             m == lista.marcados \cup {f}
             k == lista.cheias \cup {q}
  <2>1. Requisita(Lista(pasta, m, k), lista, TRUE, TRUE)
    BY <1>7 DEF HandleSingleUpload
  <2>2. /\ pasta \in [Documento -> Pasta \cup {Fora}]
        /\ m \in SUBSET Documento /\ k \in SUBSET Pasta
    BY <1>1
  <2>3. Lista(pasta, m, k) \in ListaPossivel
    BY <2>2, ListaFeita
  <2> QED
    BY <1>1, <2>1, <2>3, RequisitaPasso
<1> QED
  BY <1>2, <1>3, <1>4, <1>5, <1>6, <1>7

(* A late answer writes the list it captured, whatever tab is open.        *)
LEMMA RespondeListaPasso ==
  ASSUME SelecaoInv, RespondeLista
  PROVE  SelecaoInv'
<1>1. /\ pedido # Nenhuma /\ pedido' = Nenhuma
      /\ IF ~pedido.avisa THEN SetUploadedFiles(pedido.lista)
         ELSE IF pedido.escreve
         THEN /\ chips' = pedido.lista.marcados /\ desacordo' = {}
              /\ lista' = IF NaAba THEN SelectFiles(pedido.lista, pedido.lista.marcados)
                          ELSE pedido.lista
         ELSE SetFilesSelected(pedido.lista.marcados, lista)
      /\ UNCHANGED <<ultima, aba, copia, busca>>
  BY DEF RespondeLista
<1>2. /\ lista \in ListaPossivel /\ pedido.lista \in ListaPossivel
      /\ pedido.lista.marcados \in SUBSET Documento
  BY <1>1, ListaTipo DEF SelecaoInv, SelecaoTypeOK
<1>3. /\ ChipsSaoMarcas'
      /\ lista' \in ListaPossivel /\ chips' \subseteq Documento /\ desacordo' \subseteq Documento
  <2>1. CASE ~pedido.avisa
    BY <1>1, <1>2, <2>1, SetUploadedFilesPasso
  <2>2. CASE pedido.avisa /\ pedido.escreve
    <3> DEFINE l == SelectFiles(pedido.lista, pedido.lista.marcados)
    <3>1. /\ l \in ListaPossivel
          /\ l.marcados = pedido.lista.marcados \cap Listados(pedido.lista)
          /\ Listados(l) = Listados(pedido.lista)
      BY <1>2, SelectFilesDe
    <3>2. /\ chips' = pedido.lista.marcados /\ desacordo' = {}
          /\ lista' = IF NaAba THEN l ELSE pedido.lista
      BY <1>1, <2>2
    <3> HIDE DEF l
    <3> QED
      BY <1>2, <3>1, <3>2 DEF ChipsSaoMarcas
  <2>3. CASE pedido.avisa /\ ~pedido.escreve
    BY <1>1, <1>2, <2>3, SetFilesSelectedPasso
  <2> QED
    BY <2>1, <2>2, <2>3
<1> QED
  BY <1>1, <1>3, RestoIgual DEF SelecaoInv, SelecaoTypeOK

LEMMA RequisicaoFalhaPasso ==
  ASSUME SelecaoInv, RequisicaoFalha
  PROVE  SelecaoInv'
<1>1. pedido' = Nenhuma /\ UNCHANGED <<lista, chips, ultima, aba, copia, busca, desacordo>>
  BY DEF RequisicaoFalha
<1> QED
  BY <1>1 DEF SelecaoInv, SelecaoTypeOK, ChipsSaoMarcas, Listados

LEMMA SelecaoInicio ==
  ASSUME InitSelecao PROVE SelecaoInv
<1>1. PICK pasta \in [Documento -> Pasta \cup {Fora}] : lista = Lista(pasta, {}, {})
  BY DEF InitSelecao
<1>2. lista \in ListaPossivel /\ lista.marcados = {}
  BY <1>1, ListaFeita
<1> QED
  BY <1>2 DEF InitSelecao, SelecaoInv, SelecaoTypeOK, ChipsSaoMarcas

LEMMA SelecaoPasso ==
  ASSUME SelecaoInv, [NextSelecao]_varsSelecao
  PROVE  SelecaoInv'
<1>1. CASE PassoDaLista
  <2>1. ASSUME NEW f \in Documento, HandleSelectFile(f) PROVE SelecaoInv'
    BY <2>1, HandleSelectFilePasso
  <2>2. ASSUME NEW f \in Documento, HandleUnselectFile(f) PROVE SelecaoInv'
    BY <2>2, HandleUnselectFilePasso
  <2>3. ASSUME NEW f \in Documento, HandleClickFileChip(f) PROVE SelecaoInv'
    BY <2>3, HandleClickFileChipPasso
  <2>4. ASSUME NEW p \in Pasta, NEW vistos \in SUBSET ArquivosDe(lista, p),
               HandleFolderSelected(p, vistos)
        PROVE  SelecaoInv'
    BY <2>4, HandleFolderSelectedPasso
  <2>5. ASSUME NEW f \in Documento, HandleDeleteFile(f) PROVE SelecaoInv'
    <3>1. lista.pasta[f] \in Pasta
      BY <2>5, ListaTipo DEF HandleDeleteFile, Listados, SelecaoInv, SelecaoTypeOK
    <3> QED
      BY <2>5, <3>1, PedidosPasso
  <2>6. ASSUME NEW p \in Pasta, HandleDeleteFiles(p) PROVE SelecaoInv'
    <3>1. PICK f \in Documento : TRUE
      BY <2>6 DEF HandleDeleteFiles, ArquivosDe
    <3> QED
      BY <2>6, <3>1, PedidosPasso
  <2>7. ASSUME NEW p \in Pasta, HandleDeleteFolder(p) PROVE SelecaoInv'
    BY <2>7, HandleDeleteFolderPasso
  <2>8. ASSUME NEW p \in Pasta, NEW q \in Pasta, HandleMovedFileBulk(p, q) PROVE SelecaoInv'
    <3>1. PICK f \in Documento : TRUE
      BY <2>8 DEF HandleMovedFileBulk, ArquivosDe
    <3> QED
      BY <2>8, <3>1, PedidosPasso
  <2>9. ASSUME NEW f \in Documento, NEW p \in Pasta, NEW q \in Pasta, HandleCopiedFile(p, f, q)
        PROVE  SelecaoInv'
    BY <2>9, PedidosPasso
  <2>10. ASSUME NEW f \in Documento, NEW q \in Pasta, HandleMovedFile(f, q) \/ HandleSingleUpload(f, q)
         PROVE  SelecaoInv'
    BY <2>10, PedidosPasso
  <2>11. ASSUME NEW a \in {"arquivos", "outra", "loja"}, AbreAba(a) PROVE SelecaoInv'
    BY <2>11, AbreAbaPasso
  <2>12. ASSUME NEW s \in SUBSET Documento, MostraChat(s) \/ EnviaMensagem(s) PROVE SelecaoInv'
    BY <2>12, MostraChatPasso DEF EnviaMensagem
  <2>13. ASSUME NEW pasta \in [Documento -> Pasta \cup {Fora}], ListFolders(pasta) PROVE SelecaoInv'
    BY <2>13, ListFoldersPasso
  <2>14. CASE ClearChipSelection \/ ButtonClearAllFiles \/ ChatNovo \/ RespondeLista \/ RequisicaoFalha
    BY <2>14, ClearChipSelectionPasso, ButtonClearAllFilesPasso, ChatNovoPasso, RespondeListaPasso,
       RequisicaoFalhaPasso
  <2> QED
    BY <1>1, <2>1, <2>2, <2>3, <2>4, <2>5, <2>6, <2>7, <2>8, <2>9, <2>10, <2>11, <2>12, <2>13, <2>14
       DEF PassoDaLista
<1>2. CASE UNCHANGED varsSelecao
  BY <1>2 DEF varsSelecao, SelecaoInv, SelecaoTypeOK, ChipsSaoMarcas, Listados
<1> QED
  BY <1>1, <1>2 DEF NextSelecao

(* A listed file is ticked exactly when it has a chip, for any files and   *)
(* folders and however long the page is used (useFileSelection.ts).        *)
THEOREM ChipsSempreSaoMarcas == SpecSelecao => []ChipsSaoMarcas
<1>1. InitSelecao => SelecaoInv
  BY SelecaoInicio
<1>2. SelecaoInv /\ [NextSelecao]_varsSelecao => SelecaoInv'
  BY SelecaoPasso
<1>3. SelecaoInv => ChipsSaoMarcas
  BY DEF SelecaoInv
<1> QED
  BY <1>1, <1>2, <1>3, PTL DEF SpecSelecao

-----------------------------------------------------------------------------
(* Numbers in order.                                                       *)

Ate(S, i) == {j \in S : j <= i}

LEMMA AteConta ==
  ASSUME NEW S \in SUBSET Nat, IsFiniteSet(S), NEW i \in S
  PROVE  Cardinality(Ate(S, i)) \in 1..Cardinality(S)
<1>1. Ate(S, i) \in SUBSET S /\ i \in Ate(S, i)
  BY DEF Ate
<1>2. /\ IsFiniteSet(Ate(S, i)) /\ Cardinality(Ate(S, i)) <= Cardinality(S)
  BY <1>1, FS_Subset
<1>3. Cardinality(Ate(S, i)) \in Nat /\ Cardinality(Ate(S, i)) # 0 /\ Cardinality(S) \in Nat
  BY <1>1, <1>2, FS_EmptySet, FS_CardinalityType
<1> QED
  BY <1>2, <1>3

LEMMA AteCresce ==
  ASSUME NEW S \in SUBSET Nat, IsFiniteSet(S), NEW i \in S, NEW k \in S, i < k
  PROVE  Cardinality(Ate(S, i)) < Cardinality(Ate(S, k))
<1>0. i \in Nat /\ k \in Nat
  OBVIOUS
<1>1. Ate(S, i) \in SUBSET Ate(S, k) /\ Ate(S, i) # Ate(S, k) /\ Ate(S, k) \in SUBSET S
  <2>1. \A j \in S : j \in Nat /\ (j <= i => j <= k)
    BY <1>0
  <2>2. k \in Ate(S, k) /\ k \notin Ate(S, i)
    BY <1>0 DEF Ate
  <2> QED
    BY <2>1, <2>2 DEF Ate
<1>2. IsFiniteSet(Ate(S, k))
  BY <1>1, FS_Subset
<1>3. /\ Cardinality(Ate(S, i)) <= Cardinality(Ate(S, k))
      /\ Cardinality(Ate(S, i)) # Cardinality(Ate(S, k))
  BY <1>1, <1>2, FS_Subset
<1> QED
  BY <1>3, AteConta

LEMMA OrdemE ==
  ASSUME NEW S \in SUBSET Nat, IsFiniteSet(S)
  PROVE  /\ Cardinality(S) \in Nat
         /\ DOMAIN Ordem(S) = 1..Cardinality(S)
         /\ \A n \in 1..Cardinality(S) : Ordem(S)[n] \in S
         /\ \A m, n \in 1..Cardinality(S) : m < n => Ordem(S)[m] < Ordem(S)[n]
         /\ \A i \in S : \E n \in 1..Cardinality(S) : Ordem(S)[n] = i
<1> DEFINE N == Cardinality(S)
           r == [i \in S |-> Cardinality(Ate(S, i))]
<1>0. N \in Nat
  BY FS_CardinalityType
<1>1. \A i \in S : r[i] \in 1..N
  BY AteConta
<1>2. \A i, k \in S : i < k => r[i] < r[k]
  BY AteCresce
<1>3. \A i \in S : r[i] = Cardinality({j \in S : j <= i})
  BY DEF Ate
<1>4. r \in [S -> 1..N]
  BY <1>1
<1> HIDE DEF r
<1>5. \A i, k \in S : r[i] = r[k] => i = k
  BY <1>2, <1>1
<1>6. r \in Injection(S, 1..N)
  BY <1>4, <1>5 DEF Injection, IsInjective
<1>7. IsFiniteSet(1..N) /\ Cardinality(1..N) = N
  BY <1>0, FS_Interval
<1>8. r \in Surjection(S, 1..N)
  BY <1>6, <1>7, FS_Injection
<1>9. \A n \in 1..N : \E i \in S : r[i] = n
  BY <1>8 DEF Surjection
<1>10. \A n \in 1..N : Ordem(S)[n] = CHOOSE i \in S : r[i] = n
  BY <1>3 DEF Ordem
<1>11. \A n \in 1..N : Ordem(S)[n] \in S /\ r[Ordem(S)[n]] = n
  BY <1>9, <1>10
<1>12. ASSUME NEW m \in 1..N, NEW n \in 1..N, m < n
       PROVE  Ordem(S)[m] < Ordem(S)[n]
  <2>1. Ordem(S)[m] \in Nat /\ Ordem(S)[n] \in Nat
    BY <1>11
  <2>2. r[Ordem(S)[m]] = m /\ r[Ordem(S)[n]] = n /\ Ordem(S)[m] \in S /\ Ordem(S)[n] \in S
    BY <1>11
  <2>3. ~(Ordem(S)[n] < Ordem(S)[m])
    <3>1. Ordem(S)[n] < Ordem(S)[m] => n < m
      BY <2>2, <1>2
    <3> QED
      BY <3>1, <1>12
  <2>4. Ordem(S)[n] # Ordem(S)[m]
    BY <2>2, <1>12
  <2> QED
    BY <2>1, <2>3, <2>4
<1>13. \A i \in S : Ordem(S)[r[i]] = i
  BY <1>1, <1>5, <1>11
<1>14. DOMAIN Ordem(S) = 1..N
  BY DEF Ordem
<1> QED
  BY <1>0, <1>1, <1>11, <1>12, <1>13, <1>14

LEMMA MinMax ==
  ASSUME NEW S \in SUBSET Nat, IsFiniteSet(S), S # {}
  PROVE  /\ Min(S) \in S /\ \A i \in S : Min(S) <= i
         /\ Max(S) \in S /\ \A i \in S : Max(S) >= i
<1> DEFINE N == Cardinality(S)
           o == Ordem(S)
<1>1. /\ N \in Nat
      /\ \A n \in 1..N : o[n] \in S
      /\ \A m, n \in 1..N : m < n => o[m] < o[n]
      /\ \A i \in S : \E n \in 1..N : o[n] = i
  BY OrdemE
<1> HIDE DEF N, o
<1>2. N # 0
  <2>1. PICK i \in S : TRUE
    OBVIOUS
  <2>2. PICK n \in 1..N : o[n] = i
    BY <1>1
  <2> QED
    BY <2>2, <1>1
<1>3. 1 \in 1..N /\ N \in 1..N
  BY <1>1, <1>2
<1>4. ASSUME NEW i \in S
      PROVE  o[1] <= i /\ i <= o[N]
  <2>1. PICK n \in 1..N : o[n] = i
    BY <1>1
  <2>2. o[1] \in Nat /\ o[N] \in Nat /\ i \in Nat
    BY <1>1, <1>3
  <2>3. n = 1 \/ o[1] < o[n]
    BY <1>1, <1>3
  <2>4. n = N \/ o[n] < o[N]
    BY <1>1, <1>3
  <2> QED
    BY <2>1, <2>2, <2>3, <2>4
<1>5. \E x \in S : \A y \in S : x <= y
  BY <1>1, <1>3, <1>4
<1>6. \E x \in S : \A y \in S : x >= y
  BY <1>1, <1>3, <1>4
<1> QED
  BY <1>5, <1>6 DEF Min, Max

-----------------------------------------------------------------------------
(* The parts of a string.                                                  *)

Corte(s, i) == s[i] = NovaLinha /\ s[i + 1] = NovaLinha
Quantos(s) == Cardinality(Fins(s))
Ini(s, n) == IF n = 1 THEN 1 ELSE Ordem(Fins(s))[n - 1] + 2
Fim(s, n) == Ordem(Fins(s))[n] - 1

LEMMA FinsE ==
  ASSUME NEW T, NEW s \in Seq(T)
  PROVE  /\ Fins(s) \in SUBSET Nat /\ IsFiniteSet(Fins(s)) /\ Fins(s) \subseteq 1..Len(s) + 1
         /\ Len(s) + 1 \in Fins(s)
         /\ \A i \in 1..Len(s) : i \in Fins(s) <=> i < Len(s) /\ Corte(s, i)
<1>1. Len(s) \in Nat
  OBVIOUS
<1>2. Fins(s) \in SUBSET (1..Len(s) + 1)
  BY <1>1 DEF Fins
<1>3. IsFiniteSet(1..Len(s) + 1)
  BY <1>1, FS_Interval
<1>4. IsFiniteSet(Fins(s))
  BY <1>2, <1>3, FS_Subset
<1>5. Len(s) + 1 \in Fins(s)
  BY DEF Fins
<1>6. \A i \in 1..Len(s) : i \in Fins(s) <=> i < Len(s) /\ Corte(s, i)
  BY <1>1 DEF Fins, Corte
<1> QED
  BY <1>1, <1>2, <1>4, <1>5, <1>6

LEMMA SeparaE ==
  ASSUME NEW T, NEW s \in Seq(T)
  PROVE  /\ Quantos(s) \in Nat \ {0}
         /\ Separa(s) = [n \in 1..Quantos(s) |-> SubSeq(s, Ini(s, n), Fim(s, n))]
         /\ Ini(s, 1) = 1 /\ Fim(s, Quantos(s)) = Len(s)
         /\ \A n \in 1..Quantos(s) : /\ Ini(s, n) \in Nat \ {0} /\ Fim(s, n) \in Nat
                                     /\ Fim(s, n) <= Len(s)
                                     /\ Fim(s, n) >= Ini(s, n) - 2
         /\ \A m, n \in 1..Quantos(s) : m < n => Fim(s, m) < Ini(s, n)
<1> DEFINE N == Quantos(s)
           o == Ordem(Fins(s))
<1>0. Len(s) \in Nat
  OBVIOUS
<1>1. /\ N \in Nat
      /\ DOMAIN o = 1..N
      /\ \A n \in 1..N : o[n] \in Fins(s)
      /\ \A m, n \in 1..N : m < n => o[m] < o[n]
      /\ \A i \in Fins(s) : \E n \in 1..N : o[n] = i
  BY FinsE, OrdemE DEF Quantos
<1>2. Separa(s) = [n \in 1..N |-> SubSeq(s, Ini(s, n), Fim(s, n))]
  BY <1>1 DEF Separa, Ini, Fim
<1>3. \A n : /\ Ini(s, n) = IF n = 1 THEN 1 ELSE o[n - 1] + 2
             /\ Fim(s, n) = o[n] - 1
  BY DEF Ini, Fim
<1>4. \A n \in 1..N : o[n] \in 1..Len(s) + 1
  BY <1>1, FinsE
<1> HIDE DEF o, N
<1>5. PICK u \in 1..N : o[u] = Len(s) + 1
  BY <1>1, FinsE
<1>6. N # 0 /\ N \in 1..N
  BY <1>1, <1>5
<1>7. u = N
  <2>1. u < N => o[u] < o[N]
    BY <1>1, <1>6
  <2> QED
    BY <2>1, <1>0, <1>1, <1>4, <1>5, <1>6
<1>8. ASSUME NEW n \in 1..N
      PROVE  /\ Ini(s, n) \in Nat \ {0} /\ Fim(s, n) \in Nat
             /\ Fim(s, n) <= Len(s) /\ Fim(s, n) >= Ini(s, n) - 2
  <2>1. o[n] \in 1..Len(s) + 1
    BY <1>4
  <2>2. CASE n = 1
    BY <2>1, <2>2, <1>3, <1>0
  <2>3. CASE n # 1
    <3>1. n - 1 \in 1..N /\ n - 1 < n
      BY <2>3, <1>1
    <3>2. o[n - 1] \in 1..Len(s) + 1 /\ o[n - 1] < o[n]
      BY <3>1, <1>1, <1>4
    <3>3. Ini(s, n) = o[n - 1] + 2 /\ Fim(s, n) = o[n] - 1
      BY <2>3, <1>3
    <3> QED
      BY <2>1, <3>2, <3>3, <1>0
  <2> QED
    BY <2>2, <2>3
<1>9. ASSUME NEW m \in 1..N, NEW n \in 1..N, m < n
      PROVE  Fim(s, m) < Ini(s, n)
  <2>1. n # 1 /\ n - 1 \in 1..N /\ (m = n - 1 \/ m < n - 1)
    BY <1>1, <1>9
  <2>2. o[m] \in Nat /\ o[n - 1] \in Nat
    BY <2>1, <1>4, <1>0
  <2>3. m < n - 1 => o[m] < o[n - 1]
    BY <2>1, <1>1
  <2> QED
    BY <2>1, <2>2, <2>3, <1>3
<1>10. Ini(s, 1) = 1
  BY DEF Ini
<1>11. Fim(s, N) = Len(s)
  BY <1>3, <1>5, <1>7, <1>0
<1> QED
  BY <1>1, <1>2, <1>6, <1>8, <1>9, <1>10, <1>11 DEF N

(* No part has the delimiter inside, and the first goes up to the first one. *)
LEMMA SeparaCorte ==
  ASSUME NEW T, NEW s \in Seq(T)
  PROVE  /\ \A n \in 1..Quantos(s) : \A i \in Ini(s, n)..Fim(s, n) - 1 : ~Corte(s, i)
         /\ \A a \in 0..Len(s) :
              (\A i \in 1..a : ~(i < Len(s) /\ Corte(s, i))) => a <= Fim(s, 1)
<1> DEFINE N == Quantos(s)
           o == Ordem(Fins(s))
<1>0. Len(s) \in Nat
  OBVIOUS
<1>1. /\ N \in Nat \ {0}
      /\ \A n \in 1..N : o[n] \in Fins(s)
      /\ \A m, n \in 1..N : m < n => o[m] < o[n]
      /\ \A i \in Fins(s) : \E n \in 1..N : o[n] = i
  BY FinsE, OrdemE, SeparaE DEF Quantos
<1>3. \A n : /\ Ini(s, n) = IF n = 1 THEN 1 ELSE o[n - 1] + 2
             /\ Fim(s, n) = o[n] - 1
  BY DEF Ini, Fim
<1>4. \A n \in 1..N : o[n] \in 1..Len(s) + 1
  BY <1>1, FinsE
<1> HIDE DEF o, N
<1>5. ASSUME NEW n \in 1..N, NEW i \in Ini(s, n)..Fim(s, n) - 1, Corte(s, i)
      PROVE  FALSE
  <2>0. o[n] \in 1..Len(s) + 1
    BY <1>4
  <2>1. i \in Nat /\ 1 <= i /\ i < Len(s) /\ i < o[n] /\ Ini(s, n) <= i
    <3>1. n # 1 => o[n - 1] \in 1..Len(s) + 1
      BY <1>4, <1>1
    <3> QED
      BY <2>0, <3>1, <1>3, <1>0
  <2>2. i \in Fins(s)
    BY <2>1, <1>5, FinsE, <1>0
  <2>3. PICK m \in 1..N : o[m] = i
    BY <2>2, <1>1
  <2>4. m < n
    <3>1. n < m => o[n] < o[m]
      BY <1>1
    <3> QED
      BY <3>1, <2>0, <2>1, <2>3, <1>1
  <2>5. n # 1 /\ n - 1 \in 1..N /\ (m = n - 1 \/ m < n - 1)
    BY <2>4, <1>1
  <2>6. o[n - 1] \in Nat /\ (m < n - 1 => o[m] < o[n - 1])
    BY <2>5, <1>1, <1>4, <1>0
  <2> QED
    BY <2>1, <2>3, <2>5, <2>6, <1>3
<1>6. ASSUME NEW a \in 0..Len(s), \A i \in 1..a : ~(i < Len(s) /\ Corte(s, i))
      PROVE  a <= Fim(s, 1)
  <2>1. o[1] \in Fins(s) /\ o[1] \in 1..Len(s) + 1 /\ Fim(s, 1) = o[1] - 1
    BY <1>1, <1>3, <1>4
  <2>2. o[1] \in 1..Len(s) => o[1] < Len(s) /\ Corte(s, o[1])
    BY <2>1, FinsE
  <2>3. o[1] \notin 1..a
    <3>1. o[1] \in 1..a => o[1] \in 1..Len(s)
      BY <1>0
    <3> QED
      BY <3>1, <2>2, <1>6
  <2> QED
    BY <2>1, <2>3, <1>0
<1> QED
  BY <1>5, <1>6 DEF N

LEMMA ParteE ==
  ASSUME NEW T, NEW s \in Seq(T), NEW n \in 1..Quantos(s)
  PROVE  /\ Separa(s)[n] \in Seq(T)
         /\ Len(Separa(s)[n]) = IF Fim(s, n) >= Ini(s, n) THEN Fim(s, n) - Ini(s, n) + 1 ELSE 0
         /\ \A p \in 1..Len(Separa(s)[n]) : Separa(s)[n][p] = s[Ini(s, n) + p - 1]
<1>1. /\ Separa(s)[n] = SubSeq(s, Ini(s, n), Fim(s, n))
      /\ Ini(s, n) \in Nat \ {0} /\ Fim(s, n) \in Nat /\ Fim(s, n) <= Len(s)
  BY SeparaE
<1>2. CASE Fim(s, n) >= Ini(s, n)
  <2>1. \A i \in Ini(s, n)..Fim(s, n) : s[i] \in T
    BY <1>1, <1>2, ElementOfSeq
  <2> QED
    BY <1>1, <1>2, <2>1, SubSeqProperties
<1>3. CASE Fim(s, n) < Ini(s, n)
  <2>1. Separa(s)[n] = <<>>
    BY <1>1, <1>3, SubSeqEmpty
  <2> QED
    BY <1>1, <2>1, <1>3
<1> QED
  BY <1>1, <1>2, <1>3

-----------------------------------------------------------------------------
(* Letters, and the complete parts.                                        *)

Eventos == [fluxo : Fluxo, numero : Nat]
Entregas == [evento : Eventos, integro : BOOLEAN]
Tokens == {NovaLinha} \cup [parte : {"texto", "branco"}, de : Eventos, k : Nat]
Texto(s) == {i \in DOMAIN s : s[i].parte = "texto"}
TextoDe(s, n) == {i \in Texto(s) : Ini(s, n) <= i /\ i <= Fim(s, n)}

LEMMA TextoE ==
  ASSUME NEW s \in Seq(Tokens)
  PROVE  /\ Texto(s) \in SUBSET Nat /\ IsFiniteSet(Texto(s)) /\ Texto(s) \subseteq 1..Len(s)
         /\ \A i \in Texto(s) : s[i] \in Tokens /\ s[i].parte = "texto" /\ s[i].de \in Eventos
         /\ Letras(s) = {s[i] : i \in Texto(s)}
<1>1. DOMAIN s = 1..Len(s) /\ Len(s) \in Nat
  OBVIOUS
<1>2. Texto(s) \in SUBSET (1..Len(s))
  BY <1>1 DEF Texto
<1>3. IsFiniteSet(Texto(s))
  <2>1. IsFiniteSet(1..Len(s))
    BY <1>1, FS_Interval
  <2> QED
    BY <1>2, <2>1, FS_Subset
<1>4. ASSUME NEW i \in Texto(s)
      PROVE  s[i] \in Tokens /\ s[i].parte = "texto" /\ s[i].de \in Eventos
  <2>1. s[i] \in Tokens /\ s[i].parte = "texto"
    BY <1>2, ElementOfSeq DEF Texto
  <2>2. NovaLinha.parte = "nl"
    BY DEF NovaLinha, Token
  <2> QED
    BY <2>1, <2>2 DEF Tokens
<1> QED
  BY <1>1, <1>2, <1>3, <1>4 DEF Letras, Texto

LEMMA AparaE ==
  ASSUME NEW s \in Seq(Tokens)
  PROVE  /\ Apara(s) \in Seq(Tokens)
         /\ Letras(Apara(s)) = Letras(s)
         /\ Texto(s) = {} <=> Apara(s) = <<>>
         /\ Texto(s) # {} =>
              \E c \in Nat :
                /\ c + 1 \in Texto(s) /\ c + Len(Apara(s)) \in Texto(s) /\ Len(Apara(s)) >= 1
                /\ \A p \in 1..Len(Apara(s)) : Apara(s)[p] = s[c + p]
                /\ \A i \in Texto(s) : c < i /\ i <= c + Len(Apara(s))
<1>1. Apara(s) = IF Texto(s) = {} THEN <<>> ELSE SubSeq(s, Min(Texto(s)), Max(Texto(s)))
  BY DEF Apara, Texto
<1>2. CASE Texto(s) = {}
  <2>1. Apara(s) = <<>> /\ Letras(s) = {} /\ Letras(<<>>) = {}
    BY <1>1, <1>2, TextoE DEF Letras
  <2> QED
    BY <1>2, <2>1
<1>3. CASE Texto(s) # {}
  <2> DEFINE a == Min(Texto(s))
             b == Max(Texto(s))
             t == Apara(s)
  <2>1. a \in Texto(s) /\ b \in Texto(s) /\ \A i \in Texto(s) : a <= i /\ b >= i
    BY <1>3, TextoE, MinMax
  <2>2. a \in 1..Len(s) /\ b \in 1..Len(s) /\ a <= b
    BY <2>1, TextoE
  <2>3. t = SubSeq(s, a, b)
    BY <1>1, <1>3
  <2> HIDE DEF a, b, t
  <2>4. \A i \in a..b : s[i] \in Tokens
    BY <2>2, ElementOfSeq
  <2>5. t \in Seq(Tokens) /\ Len(t) = b - a + 1 /\ \A p \in 1..b - a + 1 : t[p] = s[a + p - 1]
    BY <2>2, <2>3, <2>4, SubSeqProperties
  <2>6. /\ a - 1 \in Nat /\ (a - 1) + 1 \in Texto(s) /\ (a - 1) + Len(t) \in Texto(s)
        /\ Len(t) >= 1
        /\ \A p \in 1..Len(t) : t[p] = s[(a - 1) + p]
        /\ \A i \in Texto(s) : a - 1 < i /\ i <= (a - 1) + Len(t)
    <3>1. (a - 1) + 1 = a /\ (a - 1) + Len(t) = b
      BY <2>2, <2>5
    <3>2. \A p \in 1..Len(t) : (a - 1) + p = a + p - 1
      BY <2>2, <2>5
    <3>3. \A i \in Texto(s) : i \in Nat /\ a <= i /\ b >= i
      BY <2>1, TextoE
    <3>4. \A i \in Texto(s) : a - 1 < i /\ i <= (a - 1) + Len(t)
      BY <2>2, <3>1, <3>3
    <3>5. \A p \in 1..Len(t) : t[p] = s[(a - 1) + p]
      BY <2>2, <2>5, <3>2
    <3>6. a - 1 \in Nat /\ Len(t) >= 1
      BY <2>2, <2>5
    <3> QED
      BY <2>1, <3>1, <3>4, <3>5, <3>6
  <2>7. Letras(t) = Letras(s)
    <3>1. \A p \in 1..Len(t) : p \in Texto(t) <=> (a - 1) + p \in Texto(s)
      <4> SUFFICES ASSUME NEW p \in 1..Len(t)
                   PROVE  p \in Texto(t) <=> (a - 1) + p \in Texto(s)
        OBVIOUS
      <4>1. (a - 1) + p \in 1..Len(s) /\ p \in DOMAIN t /\ t[p] = s[(a - 1) + p]
        BY <2>2, <2>5, <2>6
      <4> QED
        BY <4>1 DEF Texto
    <3>2. \A i \in Texto(s) : i - (a - 1) \in 1..Len(t) /\ (a - 1) + (i - (a - 1)) = i
      BY <2>6, <2>2, <2>5, TextoE
    <3>3. \A i \in Texto(t) : i \in 1..Len(t)
      BY <2>5, TextoE
    <3>4. Letras(t) = {t[i] : i \in Texto(t)} /\ Letras(s) = {s[i] : i \in Texto(s)}
      BY <2>5, TextoE
    <3>5. \A i \in Texto(t) : (a - 1) + i \in Texto(s) /\ t[i] = s[(a - 1) + i]
      BY <3>1, <3>3, <2>6
    <3>6. \A i \in Texto(s) : i - (a - 1) \in Texto(t) /\ t[i - (a - 1)] = s[i]
      <4> SUFFICES ASSUME NEW i \in Texto(s)
                   PROVE  i - (a - 1) \in Texto(t) /\ t[i - (a - 1)] = s[i]
        OBVIOUS
      <4>1. i - (a - 1) \in 1..Len(t) /\ (a - 1) + (i - (a - 1)) = i
        BY <3>2
      <4>2. t[i - (a - 1)] = s[(a - 1) + (i - (a - 1))]
        BY <4>1, <2>6
      <4>3. i - (a - 1) \in Texto(t) <=> (a - 1) + (i - (a - 1)) \in Texto(s)
        BY <3>1, <4>1
      <4> QED
        BY <4>1, <4>2, <4>3
    <3> QED
      BY <3>4, <3>5, <3>6
  <2>8. Texto(s) # {} /\ t # <<>>
    BY <1>3, <2>5, <2>6
  <2>9. \E c \in Nat :
          /\ c + 1 \in Texto(s) /\ c + Len(t) \in Texto(s) /\ Len(t) >= 1
          /\ \A p \in 1..Len(t) : t[p] = s[c + p]
          /\ \A i \in Texto(s) : c < i /\ i <= c + Len(t)
    BY <2>6
  <2> QED
    BY <2>5, <2>7, <2>8, <2>9 DEF t
<1> QED
  BY <1>2, <1>3

(* A part without its margins: where it was in the string.                 *)
LEMMA ParteAparada ==
  ASSUME NEW s \in Seq(Tokens), NEW n \in 1..Quantos(s)
  PROVE  LET B == Apara(Separa(s)[n])
         IN  /\ B \in Seq(Tokens)
             /\ Letras(B) = {s[i] : i \in TextoDe(s, n)}
             /\ B = <<>> <=> TextoDe(s, n) = {}
             /\ B # <<>> =>
                  \E c \in Nat :
                    /\ Ini(s, n) <= c + 1 /\ c + Len(B) <= Fim(s, n) /\ Len(B) >= 1
                    /\ c + 1 \in Texto(s) /\ c + Len(B) \in Texto(s)
                    /\ \A p \in 1..Len(B) : B[p] = s[c + p]
<1> DEFINE X == Separa(s)[n]
           B == Apara(X)
           d == Ini(s, n) - 1
<1>1. /\ X \in Seq(Tokens)
      /\ Len(X) = IF Fim(s, n) >= Ini(s, n) THEN Fim(s, n) - Ini(s, n) + 1 ELSE 0
      /\ \A p \in 1..Len(X) : X[p] = s[Ini(s, n) + p - 1]
  BY ParteE
<1>2. Ini(s, n) \in Nat \ {0} /\ Fim(s, n) \in Nat /\ Fim(s, n) <= Len(s) /\ Len(s) \in Nat
  BY SeparaE
<1>3. d \in Nat /\ d + 1 = Ini(s, n)
  BY <1>2
<1> HIDE DEF X, d
<1>4. Len(X) \in Nat /\ DOMAIN X = 1..Len(X)
  BY <1>1
<1>5. \A p \in 1..Len(X) : X[p] = s[d + p] /\ d + p \in 1..Len(s) /\ d + p <= Fim(s, n)
                           /\ Ini(s, n) <= d + p
  BY <1>1, <1>2, <1>3, <1>4
<1>6. \A p \in 1..Len(X) : p \in Texto(X) <=> d + p \in TextoDe(s, n)
  <2> SUFFICES ASSUME NEW p \in 1..Len(X)
               PROVE  p \in Texto(X) <=> d + p \in TextoDe(s, n)
    OBVIOUS
  <2>1. X[p] = s[d + p] /\ d + p \in DOMAIN s /\ d + p <= Fim(s, n) /\ Ini(s, n) <= d + p
    BY <1>5
  <2> QED
    BY <2>1, <1>4 DEF Texto, TextoDe
<1>7. \A i \in TextoDe(s, n) : i - d \in 1..Len(X) /\ d + (i - d) = i
  <2> SUFFICES ASSUME NEW i \in TextoDe(s, n)
               PROVE  i - d \in 1..Len(X) /\ d + (i - d) = i
    OBVIOUS
  <2>1. i \in 1..Len(s) /\ Ini(s, n) <= i /\ i <= Fim(s, n)
    BY TextoE DEF TextoDe
  <2> QED
    BY <2>1, <1>1, <1>2, <1>3
<1>8. \A p \in Texto(X) : p \in 1..Len(X)
  BY <1>1, TextoE
<1>9. \A i \in TextoDe(s, n) : i - d \in Texto(X) /\ X[i - d] = s[i]
  <2> SUFFICES ASSUME NEW i \in TextoDe(s, n)
               PROVE  i - d \in Texto(X) /\ X[i - d] = s[i]
    OBVIOUS
  <2>1. i - d \in 1..Len(X) /\ d + (i - d) = i
    BY <1>7
  <2>2. X[i - d] = s[d + (i - d)] /\ (i - d \in Texto(X) <=> d + (i - d) \in TextoDe(s, n))
    BY <2>1, <1>5, <1>6
  <2> QED
    BY <2>1, <2>2
<1>10. \A p \in Texto(X) : d + p \in TextoDe(s, n) /\ X[p] = s[d + p]
  BY <1>5, <1>6, <1>8
<1>11. Letras(X) = {s[i] : i \in TextoDe(s, n)}
  <2>1. Letras(X) = {X[i] : i \in Texto(X)}
    BY <1>1, TextoE
  <2> QED
    BY <2>1, <1>9, <1>10
<1>12. Texto(X) = {} <=> TextoDe(s, n) = {}
  BY <1>9, <1>10
<1>13. /\ B \in Seq(Tokens)
       /\ Letras(B) = Letras(X)
       /\ Texto(X) = {} <=> B = <<>>
       /\ Texto(X) # {} =>
            \E c \in Nat :
              /\ c + 1 \in Texto(X) /\ c + Len(B) \in Texto(X) /\ Len(B) >= 1
              /\ \A p \in 1..Len(B) : B[p] = X[c + p]
              /\ \A i \in Texto(X) : c < i /\ i <= c + Len(B)
  BY <1>1, AparaE
<1> HIDE DEF B
<1>14. ASSUME B # <<>>
       PROVE  \E c \in Nat :
                /\ Ini(s, n) <= c + 1 /\ c + Len(B) <= Fim(s, n) /\ Len(B) >= 1
                /\ c + 1 \in Texto(s) /\ c + Len(B) \in Texto(s)
                /\ \A p \in 1..Len(B) : B[p] = s[c + p]
  <2>1. PICK c \in Nat :
          /\ c + 1 \in Texto(X) /\ c + Len(B) \in Texto(X) /\ Len(B) >= 1
          /\ \A p \in 1..Len(B) : B[p] = X[c + p]
    BY <1>13, <1>14
  <2>2. Len(B) \in Nat
    BY <1>13
  <2>3. /\ d + (c + 1) \in TextoDe(s, n) /\ d + (c + Len(B)) \in TextoDe(s, n)
        /\ c + 1 \in 1..Len(X) /\ c + Len(B) \in 1..Len(X)
    BY <2>1, <1>10, <1>8
  <2>4. \A p \in 1..Len(B) : B[p] = s[(d + c) + p]
    <3> SUFFICES ASSUME NEW p \in 1..Len(B)
                 PROVE  B[p] = s[(d + c) + p]
      OBVIOUS
    <3>1. c + p \in 1..Len(X)
      BY <2>2, <2>3, <1>4
    <3>2. B[p] = X[c + p] /\ X[c + p] = s[d + (c + p)]
      BY <3>1, <2>1, <1>5
    <3>3. d + (c + p) = (d + c) + p
      BY <1>3
    <3> QED
      BY <3>2, <3>3
  <2>5. /\ d + c \in Nat /\ (d + c) + 1 = d + (c + 1) /\ (d + c) + Len(B) = d + (c + Len(B))
    BY <1>3, <2>2
  <2>6. (d + c) + 1 \in TextoDe(s, n) /\ (d + c) + Len(B) \in TextoDe(s, n)
    BY <2>3, <2>5
  <2> QED
    BY <2>1, <2>4, <2>5, <2>6 DEF TextoDe
<1> QED
  BY <1>11, <1>12, <1>13, <1>14 DEF B, X

LEMMA CorpoE ==
  ASSUME roteiro \in Roteiros, NEW f \in Fluxo
  PROVE  /\ roteiro[f].eventos \in Nat /\ roteiro[f].erro \in BOOLEAN
         /\ roteiro[f].corpo \in Seq({"texto", "branco"}) /\ Len(roteiro[f].corpo) \in Nat \ {0}
         /\ roteiro[f].corpo[1] = "texto"
<1>1. roteiro[f].corpo \in Seq({"texto", "branco"}) \ {<<>>} /\ Head(roteiro[f].corpo) = "texto"
  BY RoteirosAssumption
<1> QED
  BY <1>1, RoteirosAssumption

LEMMA LetrasDoCorpo ==
  ASSUME roteiro \in Roteiros, NEW e \in Eventos
  PROVE  /\ Corpo(e) \in Seq(Tokens) /\ Len(Corpo(e)) = Len(roteiro[e.fluxo].corpo)
         /\ Letras(Corpo(e)) # {} /\ \A x \in Letras(Corpo(e)) : x.de = e
<1> DEFINE c == roteiro[e.fluxo].corpo
<1>1. e.fluxo \in Fluxo
  BY DEF Eventos
<1>2. c \in Seq({"texto", "branco"}) /\ Len(c) \in Nat \ {0} /\ c[1] = "texto"
  BY <1>1, CorpoE
<1>3. Corpo(e) = [k \in 1..Len(c) |-> Token(c[k], e, k)]
  BY <1>2 DEF Corpo
<1> HIDE DEF c
<1>4. \A k \in 1..Len(c) : Token(c[k], e, k) \in Tokens
  BY <1>2 DEF Token, Tokens
<1>5. Corpo(e) \in Seq(Tokens) /\ Len(Corpo(e)) = Len(c)
  BY <1>2, <1>3, <1>4
<1>6. 1 \in Texto(Corpo(e))
  BY <1>2, <1>3 DEF Texto, Token
<1>7. \A k \in Texto(Corpo(e)) : Corpo(e)[k].de = e
  BY <1>3 DEF Texto, Token
<1>8. Letras(Corpo(e)) = {Corpo(e)[k] : k \in Texto(Corpo(e))}
  BY <1>5, TextoE
<1> QED
  BY <1>5, <1>6, <1>7, <1>8 DEF c

Completas(s) == {n \in 1..Quantos(s) : Completa(Separa(s)[n])}
Qual(s) == Ordem(Completas(s))

LEMMA ObjetosE ==
  ASSUME roteiro \in Roteiros, NEW s \in Seq(Tokens)
  PROVE  LET O == Objetos(Separa(s))
         IN  /\ O \in Seq(Entregas)
             /\ \A n \in 1..Len(O) :
                  /\ Qual(s)[n] \in 1..Quantos(s)
                  /\ TextoDe(s, Qual(s)[n]) # {}
                  /\ \A i \in TextoDe(s, Qual(s)[n]) : s[i].de = O[n].evento
                  /\ Letras(Corpo(O[n].evento)) = {s[i] : i \in TextoDe(s, Qual(s)[n])}
                  /\ O[n] = Objeto(Separa(s)[Qual(s)[n]])
             /\ \A m, n \in 1..Len(O) : m < n => Qual(s)[m] < Qual(s)[n]
             /\ \A q \in Completas(s) : \E n \in 1..Len(O) : Qual(s)[n] = q
<1> DEFINE O == Objetos(Separa(s))
           C == Completas(s)
           N == Cardinality(C)
<1>1. /\ Quantos(s) \in Nat \ {0}
      /\ DOMAIN Separa(s) = 1..Quantos(s)
  BY SeparaE
<1>2. C \in SUBSET (1..Quantos(s)) /\ C = {n \in DOMAIN Separa(s) : Completa(Separa(s)[n])}
  BY <1>1 DEF Completas
<1>3. C \in SUBSET Nat /\ IsFiniteSet(C)
  <2>1. IsFiniteSet(1..Quantos(s))
    BY <1>1, FS_Interval
  <2> QED
    BY <1>1, <1>2, <2>1, FS_Subset
<1>4. /\ N \in Nat
      /\ DOMAIN Qual(s) = 1..N
      /\ \A n \in 1..N : Qual(s)[n] \in C
      /\ \A m, n \in 1..N : m < n => Qual(s)[m] < Qual(s)[n]
      /\ \A i \in C : \E n \in 1..N : Qual(s)[n] = i
  BY <1>3, OrdemE DEF Qual
<1>5. O = [n \in 1..N |-> Objeto(Separa(s)[Qual(s)[n]])]
  BY <1>2, <1>4 DEF Objetos, Qual
<1> HIDE DEF O, N
<1>6. ASSUME NEW n \in 1..N
      PROVE  /\ O[n] \in Entregas
             /\ TextoDe(s, Qual(s)[n]) # {}
             /\ \A i \in TextoDe(s, Qual(s)[n]) : s[i].de = O[n].evento
             /\ Letras(Corpo(O[n].evento)) = {s[i] : i \in TextoDe(s, Qual(s)[n])}
  <2> DEFINE q == Qual(s)[n]
             B == Apara(Separa(s)[q])
  <2>1. q \in 1..Quantos(s) /\ Completa(Separa(s)[q])
    BY <1>4, <1>2 DEF Completas
  <2>2. B # <<>> /\ Letras(B) = Letras(Corpo(B[1].de))
    BY <2>1 DEF Completa
  <2>3. O[n] = [evento |-> B[1].de, integro |-> B = Corpo(B[1].de)]
    BY <1>5 DEF Objeto
  <2>4. /\ B \in Seq(Tokens)
        /\ Letras(B) = {s[i] : i \in TextoDe(s, q)}
        /\ B = <<>> <=> TextoDe(s, q) = {}
        /\ B # <<>> => \E c \in Nat : /\ Len(B) >= 1 /\ c + 1 \in Texto(s)
                                      /\ \A p \in 1..Len(B) : B[p] = s[c + p]
    <3>1. q \in 1..Quantos(s)
      BY <2>1
    <3> HIDE DEF q
    <3> QED
      BY <3>1, ParteAparada
  <2> HIDE DEF q, B
  <2>5. PICK c \in Nat : /\ Len(B) >= 1 /\ c + 1 \in Texto(s)
                         /\ \A p \in 1..Len(B) : B[p] = s[c + p]
    BY <2>2, <2>4
  <2>6. B[1] = s[c + 1]
    BY <2>4, <2>5
  <2>7. B[1].de \in Eventos
    BY <2>5, <2>6, TextoE
  <2>8. O[n] \in Entregas /\ O[n].evento = B[1].de
    BY <2>3, <2>7 DEF Entregas
  <2>9. \A i \in TextoDe(s, q) : s[i].de = B[1].de
    BY <2>2, <2>4, <2>7, LetrasDoCorpo
  <2> QED
    BY <2>2, <2>4, <2>8, <2>9 DEF q
<1>7. O \in Seq(Entregas) /\ Len(O) = N
  BY <1>4, <1>5, <1>6
<1>8. \A n \in 1..N : O[n] = Objeto(Separa(s)[Qual(s)[n]])
  BY <1>5
<1>9. \A n \in 1..N : Qual(s)[n] \in 1..Quantos(s)
  BY <1>2, <1>4
<1> QED
  BY <1>4, <1>6, <1>7, <1>8, <1>9 DEF O

-----------------------------------------------------------------------------
(* The tokens sent.                                                        *)

LEMMA Divide ==
  ASSUME NEW a \in Nat, NEW p \in Nat \ {0}
  PROVE  a \div p \in Nat /\ a % p \in 0..p - 1 /\ a = p * (a \div p) + (a % p)
OBVIOUS

LEMMA DivideNat ==
  ASSUME NEW a \in Nat, NEW p \in Nat \ {0}
  PROVE  a \div p \in Nat
BY Divide

LEMMA Multiplica ==
  ASSUME NEW p \in Nat \ {0}, NEW x \in Nat, NEW y \in Nat, x < y
  PROVE  p * x + p <= p * y
<1>1. p * (y - x - 1) >= 0
  OBVIOUS
<1> QED
  BY <1>1

LEMMA DivideCresce ==
  ASSUME NEW a \in Nat, NEW b \in Nat, a <= b, NEW p \in Nat \ {0}
  PROVE  a \div p <= b \div p
<1> DEFINE x == a \div p
           y == b \div p
<1>1. x \in Nat /\ a % p \in 0..p - 1 /\ a = p * x + (a % p)
  BY Divide
<1>2. y \in Nat /\ b % p \in 0..p - 1 /\ b = p * y + (b % p)
  BY Divide
<1>3. ASSUME y < x
      PROVE  FALSE
  <2>1. p * y + p <= p * x
    BY <1>1, <1>2, <1>3, Multiplica
  <2>2. p * y \in Nat /\ p * x \in Nat
    BY <1>1, <1>2
  <2> HIDE DEF x, y
  <2> QED
    BY <1>1, <1>2, <2>1, <2>2
<1> QED
  BY <1>1, <1>2, <1>3

LEMMA PassoE ==
  ASSUME roteiro \in Roteiros, NEW f \in Fluxo
  PROVE  Passo(f) \in Nat \ {0} /\ Passo(f) = Len(roteiro[f].corpo) + 2
BY CorpoE DEF Passo, Delimitador

LEMMA EnviadoE ==
  ASSUME roteiro \in Roteiros, NEW f \in Fluxo, NEW k \in Nat \ {0}
  PROVE  /\ (k - 1) \div Passo(f) \in Nat
         /\ Evento(f, (k - 1) \div Passo(f) + 1) \in Eventos
         /\ Enviado(f, k) \in Tokens
         /\ Enviado(f, k).parte = "texto" =>
              Enviado(f, k).de = Evento(f, (k - 1) \div Passo(f) + 1)
<1> DEFINE p == Passo(f)
           q == (k - 1) \div p
           r == (k - 1) % p
           e == Evento(f, q + 1)
           c == roteiro[f].corpo
<1>1. p \in Nat \ {0} /\ p = Len(c) + 2
  BY PassoE
<1>2. c \in Seq({"texto", "branco"}) /\ Len(c) \in Nat \ {0}
  BY CorpoE
<1>3. k - 1 \in Nat
  OBVIOUS
<1>4. q \in Nat /\ r \in 0..p - 1
  BY <1>1, <1>3, Divide
<1>5. e \in Eventos /\ e.fluxo = f
  BY <1>4 DEF Evento, Eventos
<1>6. Enviado(f, k) = (Corpo(e) \o Delimitador)[r + 1]
  BY DEF Enviado
<1>7. Corpo(e) = [j \in 1..Len(c) |-> Token(c[j], e, j)]
  BY <1>2, <1>5 DEF Corpo
<1>8. Corpo(e) \in Seq(Tokens) /\ Len(Corpo(e)) = Len(c)
  BY <1>5, LetrasDoCorpo
<1>9. Delimitador \in Seq(Tokens) /\ Len(Delimitador) = 2 /\ \A j \in 1..2 : Delimitador[j] = NovaLinha
  BY DEF Delimitador, Tokens
<1> HIDE DEF p, q, r, e, c
<1>10. r + 1 \in 1..Len(c) + 2
  BY <1>1, <1>2, <1>4
<1>11. Enviado(f, k) = IF r + 1 <= Len(c) THEN Corpo(e)[r + 1] ELSE NovaLinha
  <2>1. Enviado(f, k) = IF r + 1 <= Len(c) THEN Corpo(e)[r + 1] ELSE Delimitador[r + 1 - Len(c)]
    <3>1. \A i \in 1..Len(Corpo(e)) + Len(Delimitador) :
            (Corpo(e) \o Delimitador)[i] =
              IF i <= Len(Corpo(e)) THEN Corpo(e)[i] ELSE Delimitador[i - Len(Corpo(e))]
      BY <1>8, <1>9, ConcatProperties
    <3>2. r + 1 \in 1..Len(Corpo(e)) + Len(Delimitador) /\ r \in Nat /\ Len(c) \in Nat
      BY <1>1, <1>2, <1>4, <1>8, <1>9, <1>10
    <3> QED
      BY <3>1, <3>2, <1>6, <1>8
  <2>2. r + 1 > Len(c) => r + 1 - Len(c) \in 1..2
    BY <1>1, <1>4, <1>2, <1>10
  <2> QED
    BY <1>9, <1>10, <1>2, <2>1, <2>2
<1>12. r + 1 <= Len(c) => Corpo(e)[r + 1] \in Tokens /\ Corpo(e)[r + 1].de = e
  <2>1. r + 1 <= Len(c) => r + 1 \in 1..Len(c)
    BY <1>10, <1>2
  <2> QED
    BY <2>1, <1>7, <1>8, ElementOfSeq DEF Token
<1>13. NovaLinha \in Tokens /\ NovaLinha.parte = "nl"
  BY DEF Tokens, NovaLinha, Token
<1> QED
  BY <1>4, <1>5, <1>11, <1>12, <1>13 DEF p, q, e

-----------------------------------------------------------------------------
(* The invariant.                                                          *)

Estados == {"ocioso", "lendo", "fim", "falhou", "recusado", "parado"}
Conhecidas == {"nenhuma", "sem id", "com id"}
TiposDoFluxo ==
  /\ roteiro \in Roteiros
  /\ estado \in [Fluxo -> Estados]
  /\ alvo \in [Fluxo -> Conversa \cup {SemConversa}]
  /\ anteriores \in [Fluxo -> Conhecidas]
  /\ idConversa \in [Fluxo -> Conversa \cup {SemConversa}]
  /\ recebido \in [Fluxo -> Nat]
  /\ entregues \in [Fluxo -> Seq(Entregas)]
  /\ partialData \in Seq(Tokens)
  /\ currentChat = Ninguem \/ \E c \in Fluxo : currentChat = {c}

(* The number of the event the next token of a stream is of, or before.    *)
Proximo(g) == recebido[g] \div Passo(g) + 1

\* Letters of a stream are in order.
EmOrdem(s) ==
  \A i, j \in Texto(s) :
    i < j /\ s[i].de.fluxo = s[j].de.fluxo => s[i].de.numero <= s[j].de.numero

(* What a stream that was not sent has done, and what is of streams sent.  *)
Comeco ==
  \A f \in Fluxo :
    /\ estado[f] = "ocioso" =>
         /\ alvo[f] = SemConversa /\ idConversa[f] = SemConversa /\ ~ComId(f)
         /\ entregues[f] = <<>> /\ f \notin currentChat
    /\ estado[f] # "ocioso" => alvo[f] \in Conversa
    /\ idConversa[f] \in {SemConversa, alvo[f]}
    /\ ComId(f) => idConversa[f] = alvo[f]

(* The buffer: of streams sent, in order, no delimiter, nothing after text. *)
Sobra ==
  /\ currentChat = Ninguem => partialData = <<>>
  /\ \A i \in Texto(partialData) :
       LET e == partialData[i].de
       IN estado[e.fluxo] # "ocioso" /\ e.numero <= Proximo(e.fluxo)
  /\ EmOrdem(partialData)
  /\ \A i \in 1..Len(partialData) - 1 : ~Corte(partialData, i)
  /\ partialData # <<>> => Len(partialData) \in Texto(partialData)

(* Whose the buffer is: of streams without id, or of the chat that reads.   *)
Donos ==
  \A c \in currentChat : \A i \in Texto(partialData) :
    LET g == partialData[i].de.fluxo
    IN IF idConversa[c] = SemConversa THEN ~ComId(g) ELSE alvo[g] = idConversa[c]

(* An answer whole in the buffer gave its id to who read it.               *)
Inteira ==
  \A c \in currentChat : \A e \in Eventos :
    ~EhErro(e) /\ Letras(partialData) = Letras(Corpo(e)) => idConversa[c] = alvo[e.fluxo]

(* What was handed over: of streams sent, in order, and before the buffer.  *)
Entregue(e, f) ==
  /\ estado[e.fluxo] # "ocioso" /\ e.numero <= Proximo(e.fluxo)
  /\ alvo[e.fluxo] # alvo[f] => EhErro(e) /\ ~ComId(f) /\ ~ComId(e.fluxo)
  /\ \A i \in Texto(partialData) :
       partialData[i].de.fluxo = e.fluxo => e.numero <= partialData[i].de.numero
Feitas ==
  \A f \in Fluxo : \A i \in 1..Len(entregues[f]) :
    LET e == entregues[f][i].evento
    IN /\ Entregue(e, f)
       /\ \A j \in 1..i : entregues[f][j].evento.fluxo = e.fluxo
                            => entregues[f][j].evento.numero <= e.numero

FluxoInv == TiposDoFluxo /\ Comeco /\ Sobra /\ Donos /\ Inteira /\ Feitas

-----------------------------------------------------------------------------
(* A chunk of f up to its k-th token, after what was found in the buffer.  *)

Dados(f, k) == [j \in 1..k - recebido[f] |-> Enviado(f, recebido[f] + j)]
Lido(f, k) == Achado(f) \o Dados(f, k)
Lidos(f, k) == Objetos(Separa(Lido(f, k)))
Validas(f, k) == {n \in 1..Len(Lidos(f, k)) : ~EhErro(Lidos(f, k)[n].evento)}

LEMMA DadosE ==
  ASSUME TiposDoFluxo, NEW f \in Fluxo, NEW k \in Nat, k > recebido[f]
  PROVE  /\ Dados(f, k) \in Seq(Tokens) /\ Len(Dados(f, k)) = k - recebido[f]
         /\ \A j \in 1..Len(Dados(f, k)) : Dados(f, k)[j].parte = "texto" =>
              LET e == Dados(f, k)[j].de
              IN /\ e \in Eventos /\ e.fluxo = f
                 /\ e.numero = (recebido[f] + j - 1) \div Passo(f) + 1
<1>1. recebido[f] \in Nat /\ roteiro \in Roteiros
  BY DEF TiposDoFluxo
<1>2. \A j \in 1..k - recebido[f] : recebido[f] + j \in Nat \ {0}
  BY <1>1
<1>3. \A j \in 1..k - recebido[f] : Dados(f, k)[j] = Enviado(f, recebido[f] + j)
  BY DEF Dados
<1>4. ASSUME NEW j \in 1..k - recebido[f]
      PROVE  /\ Dados(f, k)[j] \in Tokens
             /\ Dados(f, k)[j].parte = "texto" =>
                  LET e == Dados(f, k)[j].de
                  IN /\ e \in Eventos /\ e.fluxo = f
                     /\ e.numero = (recebido[f] + j - 1) \div Passo(f) + 1
  <2> DEFINE x == recebido[f] + j
  <2>1. x \in Nat \ {0}
    BY <1>2
  <2> HIDE DEF x
  <2>2. /\ Evento(f, (x - 1) \div Passo(f) + 1) \in Eventos
        /\ Enviado(f, x) \in Tokens
        /\ Enviado(f, x).parte = "texto" =>
             Enviado(f, x).de = Evento(f, (x - 1) \div Passo(f) + 1)
    BY <1>1, <2>1, EnviadoE
  <2>3. Evento(f, (x - 1) \div Passo(f) + 1).fluxo = f
        /\ Evento(f, (x - 1) \div Passo(f) + 1).numero = (x - 1) \div Passo(f) + 1
    BY DEF Evento
  <2>4. Dados(f, k)[j] = Enviado(f, x)
    BY <1>3 DEF x
  <2>5. recebido[f] + j - 1 = x - 1
    BY <1>1 DEF x
  <2> QED
    BY <2>2, <2>3, <2>4, <2>5
<1>5. k - recebido[f] \in Nat
  BY <1>1
<1>6. Dados(f, k) \in Seq(Tokens) /\ Len(Dados(f, k)) = k - recebido[f]
  <2> DEFINE n == k - recebido[f]
  <2>1. n \in Nat /\ \A j \in 1..n : Dados(f, k)[j] \in Tokens
    BY <1>4, <1>5
  <2>2. Dados(f, k) = [j \in 1..n |-> Enviado(f, recebido[f] + j)]
    BY DEF Dados
  <2> HIDE DEF n
  <2>3. \A j \in 1..n : Enviado(f, recebido[f] + j) \in Tokens
    BY <2>1, <2>2
  <2>4. Dados(f, k) \in Seq(Tokens) /\ Len(Dados(f, k)) = n
    BY <2>1, <2>2, <2>3
  <2> QED
    BY <2>4 DEF n
<1> QED
  BY <1>4, <1>6

LEMMA AchadoE ==
  ASSUME FluxoInv, NEW f \in Fluxo
  PROVE  /\ Achado(f) \in Seq(Tokens) /\ Achado(f) \in {<<>>, partialData}
         /\ Achado(f) # <<>> =>
              \E c \in Fluxo : currentChat = {c} /\ idConversa[f] = idConversa[c]
BY DEF FluxoInv, TiposDoFluxo, Achado, Sobra, Ninguem

LEMMA LidoE ==
  ASSUME FluxoInv, NEW f \in Fluxo, NEW k \in Nat, k > recebido[f]
  PROVE  LET s == Lido(f, k)
             a == Len(Achado(f))
         IN  /\ s \in Seq(Tokens) /\ a \in 0..Len(s)
             /\ \A i \in Texto(s) : i <= a => i \in Texto(partialData) /\ s[i] = partialData[i]
             /\ \A i \in Texto(s) : i > a => /\ s[i].de.fluxo = f
                                             /\ Proximo(f) <= s[i].de.numero
                                             /\ s[i].de.numero <= k \div Passo(f) + 1
             /\ a <= Fim(s, 1)
             /\ Achado(f) # <<>> =>
                  Achado(f) = partialData /\ \A i \in Texto(partialData) : i \in Texto(s) /\ i <= a
<1> DEFINE s == Lido(f, k)
           A == Achado(f)
           a == Len(A)
           D == Dados(f, k)
           r == recebido[f]
           p == Passo(f)
<1>1. r \in Nat /\ p \in Nat \ {0} /\ roteiro \in Roteiros
  BY PassoE DEF FluxoInv, TiposDoFluxo
<1>2. /\ D \in Seq(Tokens) /\ Len(D) = k - r
      /\ \A j \in 1..Len(D) : D[j].parte = "texto" =>
           D[j].de.fluxo = f /\ D[j].de.numero = (r + j - 1) \div p + 1
  BY DadosE DEF FluxoInv
<1>3. A \in Seq(Tokens) /\ A \in {<<>>, partialData}
  BY AchadoE
<1>4. /\ s \in Seq(Tokens) /\ Len(s) = a + Len(D)
      /\ \A i \in 1..a : s[i] = A[i]
      /\ \A j \in 1..Len(D) : s[a + j] = D[j]
  <2>0. s = A \o D
    BY DEF Lido
  <2> HIDE DEF A, D, s
  <2>1. /\ s \in Seq(Tokens) /\ Len(s) = a + Len(D)
        /\ \A i \in 1..Len(A) + Len(D) : s[i] = IF i <= Len(A) THEN A[i] ELSE D[i - Len(A)]
    BY <1>2, <1>3, <2>0, ConcatProperties
  <2>2. Len(A) \in Nat /\ Len(D) \in Nat
    BY <1>2, <1>3
  <2>3. \A j \in 1..Len(D) : s[a + j] = D[j]
    BY <2>1, <2>2
  <2> QED
    BY <2>1, <2>2, <2>3
<1>5. a \in Nat /\ Len(D) \in Nat /\ a \in 0..Len(s)
  BY <1>2, <1>3, <1>4
<1> HIDE DEF A, a, D, s, r, p
<1>6. ASSUME NEW i \in Texto(s), i <= a
      PROVE  i \in Texto(partialData) /\ s[i] = partialData[i]
  <2>1. i \in 1..Len(s) /\ s[i].parte = "texto"
    BY <1>4, TextoE
  <2>2. i \in 1..a
    BY <2>1, <1>5, <1>6
  <2>3. s[i] = A[i] /\ A = partialData
    <3>1. A # <<>>
      BY <2>2 DEF a
    <3> QED
      BY <2>2, <3>1, <1>3, <1>4
  <2>4. i \in DOMAIN A
    BY <2>2, <1>3 DEF a
  <2> QED
    BY <2>1, <2>3, <2>4 DEF Texto
<1>7. ASSUME NEW i \in Texto(s), i > a
      PROVE  /\ s[i].de.fluxo = f
             /\ Proximo(f) <= s[i].de.numero
             /\ s[i].de.numero <= k \div p + 1
  <2> DEFINE j == i - a
  <2>1. i \in 1..Len(s) /\ s[i].parte = "texto"
    BY <1>4, TextoE
  <2>2. j \in 1..Len(D) /\ i = a + j
    BY <2>1, <1>4, <1>5, <1>7
  <2> HIDE DEF j
  <2>3. s[i].de.fluxo = f /\ s[i].de.numero = (r + j - 1) \div p + 1
    BY <2>1, <2>2, <1>2, <1>4
  <2>4. r + j - 1 \in Nat /\ r <= r + j - 1 /\ r + j - 1 <= k
    BY <2>2, <1>1, <1>2
  <2>5. r \div p <= (r + j - 1) \div p /\ (r + j - 1) \div p <= k \div p
    BY <2>4, <1>1, DivideCresce
  <2>6. r \div p \in Nat /\ (r + j - 1) \div p \in Nat /\ k \div p \in Nat
    BY <2>4, <1>1, Divide
  <2>7. Proximo(f) = r \div p + 1
    BY DEF Proximo, r, p
  <2> QED
    BY <2>3, <2>5, <2>6, <2>7
<1>8. a <= Fim(s, 1)
  <2>1. ASSUME NEW i \in 1..a, i < Len(s), Corte(s, i)
        PROVE  FALSE
    <3>1. A # <<>>
      BY <2>1, <1>5 DEF a
    <3>2. A = partialData
      BY <3>1, <1>3
    <3>3. /\ \A q \in 1..Len(A) - 1 : ~Corte(A, q)
          /\ Len(A) \in Texto(A)
      BY <3>1, <3>2 DEF FluxoInv, Sobra
    <3>4. s[i] = A[i]
      BY <1>4
    <3>5. i = a
      <4>1. CASE i < a
        <5>1. i \in 1..Len(A) - 1 /\ i + 1 \in 1..a
          BY <4>1, <1>5 DEF a
        <5>2. s[i + 1] = A[i + 1]
          BY <5>1, <1>4
        <5> QED
          BY <3>3, <3>4, <5>1, <5>2, <2>1 DEF Corte
      <4> QED
        BY <4>1, <1>5
    <3>6. A[i].parte = "texto"
      BY <3>3, <3>5 DEF Texto, a
    <3> QED
      BY <3>4, <3>6, <2>1 DEF Corte, NovaLinha, Token
  <2>2. \A i \in 1..a : ~(i < Len(s) /\ Corte(s, i))
    BY <2>1
  <2> QED
    BY <2>2, <1>4, <1>5, SeparaCorte
<1>9. ASSUME A # <<>>
      PROVE  A = partialData /\ \A i \in Texto(partialData) : i \in Texto(s) /\ i <= a
  <2>1. A = partialData
    BY <1>3, <1>9
  <2>2. ASSUME NEW i \in Texto(A)
        PROVE  i \in Texto(s) /\ i <= a
    <3>1. i \in 1..a /\ A[i].parte = "texto"
      BY <1>3, TextoE DEF a
    <3>2. i \in 1..Len(s) /\ s[i] = A[i]
      BY <3>1, <1>4, <1>5
    <3>3. i \in DOMAIN s
      BY <3>2, <1>4
    <3> QED
      BY <3>1, <3>2, <3>3, <1>5 DEF Texto
  <2> QED
    BY <2>1, <2>2
<1> QED
  BY <1>4, <1>5, <1>6, <1>7, <1>8, <1>9 DEF A, a, s, p

LEMMA LidoEmOrdem ==
  ASSUME FluxoInv, NEW f \in Fluxo, NEW k \in Nat, k > recebido[f]
  PROVE  EmOrdem(Lido(f, k))
<1> DEFINE s == Lido(f, k)
           a == Len(Achado(f))
<1>1. /\ s \in Seq(Tokens) /\ a \in 0..Len(s)
      /\ \A i \in Texto(s) : i <= a => i \in Texto(partialData) /\ s[i] = partialData[i]
      /\ \A i \in Texto(s) : i > a => /\ s[i].de.fluxo = f
                                      /\ Proximo(f) <= s[i].de.numero
  BY LidoE
<1> HIDE DEF s, a
<1>2. recebido[f] \in Nat /\ Passo(f) \in Nat \ {0}
  BY PassoE DEF FluxoInv, TiposDoFluxo
<1>3. Proximo(f) \in Nat
  BY <1>2, DivideNat DEF Proximo
<1>4. \A i \in Texto(s) : i \in Nat /\ s[i].de.numero \in Nat
  BY <1>1, TextoE DEF Eventos
<1>5. ASSUME NEW i \in Texto(s), NEW j \in Texto(s), i < j, s[i].de.fluxo = s[j].de.fluxo
      PROVE  s[i].de.numero <= s[j].de.numero
  <2>1. CASE j <= a
    <3>1. i <= a
      BY <2>1, <1>1, <1>4, <1>5
    <3> QED
      BY <2>1, <3>1, <1>1, <1>5 DEF FluxoInv, Sobra, EmOrdem
  <2>2. CASE i <= a /\ j > a
    <3>1. s[i] = partialData[i] /\ i \in Texto(partialData) /\ s[j].de.fluxo = f
      BY <2>2, <1>1
    <3>2. s[i].de.numero <= Proximo(f)
      BY <3>1, <1>5 DEF FluxoInv, Sobra
    <3> QED
      BY <2>2, <3>2, <1>1, <1>3, <1>4
  <2>3. CASE i > a /\ j > a
    <3> DEFINE r == recebido[f]
               D == Dados(f, k)
               p == Passo(f)
    <3>1. /\ s = Achado(f) \o D /\ Achado(f) \in Seq(Tokens) /\ D \in Seq(Tokens)
          /\ \A q \in 1..Len(D) : D[q].parte = "texto" =>
               D[q].de.numero = (r + q - 1) \div p + 1
      BY DadosE, AchadoE DEF FluxoInv, s, Lido
    <3> HIDE DEF r, D, p
    <3>2. Len(s) = a + Len(D) /\ \A q \in 1..Len(D) : s[a + q] = D[q]
      BY <3>1, ConcatProperties DEF a
    <3>3. /\ i \in 1..Len(s) /\ s[i].parte = "texto" /\ j \in 1..Len(s) /\ s[j].parte = "texto"
      BY <1>1, TextoE
    <3>4. a \in Nat /\ Len(D) \in Nat
      BY <1>1, <3>1
    <3> DEFINE x == i - a
               y == j - a
    <3>5. x \in 1..Len(D) /\ y \in 1..Len(D) /\ a + x = i /\ a + y = j /\ x < y
      BY <2>3, <3>2, <3>3, <3>4, <1>5
    <3> HIDE DEF x, y
    <3>6. s[i].de.numero = (r + x - 1) \div p + 1 /\ s[j].de.numero = (r + y - 1) \div p + 1
      BY <3>1, <3>2, <3>3, <3>5
    <3>7. r + x - 1 \in Nat /\ r + y - 1 \in Nat /\ r + x - 1 <= r + y - 1
      BY <3>4, <3>5, <1>2 DEF r
    <3>8. (r + x - 1) \div p <= (r + y - 1) \div p
      BY <3>7, <1>2, DivideCresce DEF p
    <3>9. (r + x - 1) \div p \in Nat /\ (r + y - 1) \div p \in Nat
      BY <3>7, <1>2, Divide DEF p
    <3> QED
      BY <3>6, <3>8, <3>9
  <2> QED
    BY <2>1, <2>2, <2>3, <1>1, <1>4
<1> QED
  BY <1>5 DEF EmOrdem, s

(* A letter of another stream is of the buffer, all of it in the first part. *)
LEMMA Alheias ==
  ASSUME FluxoInv, NEW f \in Fluxo, NEW k \in Nat, k > recebido[f],
         NEW n \in 1..Quantos(Lido(f, k)), NEW i \in TextoDe(Lido(f, k), n),
         Lido(f, k)[i].de.fluxo # f
  PROVE  /\ n = 1 /\ Achado(f) # <<>>
         /\ i \in Texto(partialData) /\ Lido(f, k)[i] = partialData[i]
         /\ \A j \in Texto(partialData) :
              j \in TextoDe(Lido(f, k), 1) /\ Lido(f, k)[j] = partialData[j]
<1> DEFINE s == Lido(f, k)
           a == Len(Achado(f))
<1>1. /\ s \in Seq(Tokens) /\ a \in 0..Len(s)
      /\ \A j \in Texto(s) : j <= a => j \in Texto(partialData) /\ s[j] = partialData[j]
      /\ \A j \in Texto(s) : j > a => s[j].de.fluxo = f
      /\ a <= Fim(s, 1)
      /\ Achado(f) # <<>> =>
           Achado(f) = partialData /\ \A j \in Texto(partialData) : j \in Texto(s) /\ j <= a
  BY LidoE
<1>2. i \in TextoDe(s, n) /\ s[i].de.fluxo # f /\ n \in 1..Quantos(s)
  OBVIOUS
<1> HIDE DEF s
<1>3. i \in Texto(s) /\ Ini(s, n) <= i /\ i \in Nat /\ i >= 1
  BY <1>1, <1>2, TextoE DEF TextoDe
<1>4. i <= a
  BY <1>1, <1>2, <1>3
<1>5. /\ Quantos(s) \in Nat \ {0}
      /\ \A m \in 1..Quantos(s) : Ini(s, m) \in Nat \ {0} /\ Fim(s, m) \in Nat
      /\ n > 1 => Fim(s, 1) < Ini(s, n)
      /\ Ini(s, 1) = 1
  <2>1. /\ Quantos(s) \in Nat \ {0} /\ Ini(s, 1) = 1
        /\ \A m \in 1..Quantos(s) : Ini(s, m) \in Nat \ {0} /\ Fim(s, m) \in Nat
        /\ \A m, x \in 1..Quantos(s) : m < x => Fim(s, m) < Ini(s, x)
    BY <1>1, SeparaE
  <2>2. 1 \in 1..Quantos(s)
    BY <2>1
  <2> QED
    BY <2>1, <2>2, <1>2
<1>6. n = 1
  BY <1>1, <1>2, <1>3, <1>4, <1>5
<1>7. Achado(f) # <<>>
  BY <1>3, <1>4
<1>8. \A j \in Texto(partialData) : j \in TextoDe(s, 1) /\ s[j] = partialData[j]
  <2> SUFFICES ASSUME NEW j \in Texto(partialData)
               PROVE  j \in TextoDe(s, 1) /\ s[j] = partialData[j]
    OBVIOUS
  <2>1. j \in Texto(s) /\ j <= a
    BY <1>1, <1>7
  <2>2. j \in 1..Len(s)
    BY <2>1, <1>1, TextoE
  <2>3. j <= Fim(s, 1) /\ Ini(s, 1) <= j
    BY <2>1, <2>2, <1>1, <1>5
  <2> QED
    BY <2>1, <2>3, <1>1 DEF TextoDe
<1> QED
  BY <1>1, <1>3, <1>4, <1>6, <1>7, <1>8 DEF s

(* What a chunk hands over, and to whom.                                   *)
LEMMA Respostas ==
  ASSUME FluxoInv, NEW f \in Fluxo, NEW k \in Nat, k > recebido[f], estado[f] = "lendo",
         NEW n \in 1..Len(Lidos(f, k))
  PROVE  LET e == Lidos(f, k)[n].evento
         IN  /\ e \in Eventos /\ estado[e.fluxo] # "ocioso"
             /\ ~EhErro(e) => alvo[e.fluxo] = alvo[f]
             /\ ~EhErro(e) /\ idConversa[f] = SemConversa => e.fluxo = f
             /\ alvo[e.fluxo] # alvo[f] => EhErro(e) /\ ~ComId(f) /\ ~ComId(e.fluxo)
             /\ e.numero <= IF e.fluxo = f THEN k \div Passo(f) + 1 ELSE Proximo(e.fluxo)
<1> DEFINE s == Lido(f, k)
           O == Lidos(f, k)
           q == Qual(s)[n]
           e == O[n].evento
           a == Len(Achado(f))
<1>1. /\ s \in Seq(Tokens) /\ a \in 0..Len(s)
      /\ \A i \in Texto(s) : i <= a => i \in Texto(partialData) /\ s[i] = partialData[i]
      /\ \A i \in Texto(s) : i > a => s[i].de.fluxo = f /\ s[i].de.numero <= k \div Passo(f) + 1
  BY LidoE
<1>2. roteiro \in Roteiros
  BY DEF FluxoInv, TiposDoFluxo
<1>3. /\ q \in 1..Quantos(s)
      /\ TextoDe(s, q) # {}
      /\ \A i \in TextoDe(s, q) : s[i].de = e
      /\ Letras(Corpo(e)) = {s[i] : i \in TextoDe(s, q)}
  BY <1>1, <1>2, ObjetosE DEF Lidos
<1>4. PICK i \in TextoDe(s, q) : s[i].de = e
  BY <1>3
<1>5. i \in Texto(s) /\ i \in Nat
  BY <1>1, <1>4, TextoE DEF TextoDe
<1>6. e \in Eventos /\ e.fluxo \in Fluxo
  <2>1. s[i].de \in Eventos
    BY <1>1, <1>5, TextoE
  <2> QED
    BY <2>1, <1>4 DEF Eventos
<1>7. /\ estado[f] # "ocioso" /\ alvo[f] \in Conversa /\ alvo[f] # SemConversa
      /\ idConversa[f] \in {SemConversa, alvo[f]}
      /\ ComId(f) => idConversa[f] = alvo[f]
  BY FluxoAssumption DEF FluxoInv, Comeco
<1>8. ASSUME NEW x \in Texto(s), x <= a
      PROVE  estado[s[x].de.fluxo] # "ocioso" /\ s[x].de.numero <= Proximo(s[x].de.fluxo)
  BY <1>1, <1>8 DEF FluxoInv, Sobra
<1>9. CASE e.fluxo = f
  <2>1. e.numero <= k \div Passo(f) + 1
    <3>1. CASE i > a
      BY <3>1, <1>1, <1>4, <1>5
    <3>2. CASE i <= a
      <4>1. e.numero <= Proximo(f)
        BY <3>2, <1>4, <1>5, <1>8, <1>9
      <4>2. recebido[f] \in Nat /\ Passo(f) \in Nat \ {0}
        BY PassoE DEF FluxoInv, TiposDoFluxo
      <4>3. recebido[f] \div Passo(f) <= k \div Passo(f)
        <5>1. PICK r \in Nat : r = recebido[f]
          BY <4>2
        <5>2. PICK d \in Nat \ {0} : d = Passo(f)
          BY <4>2
        <5>3. r \div d <= k \div d
          BY <5>1, DivideCresce
        <5> QED
          BY <5>1, <5>2, <5>3
      <4>4. recebido[f] \div Passo(f) \in Nat /\ k \div Passo(f) \in Nat
        BY <4>2, Divide
      <4> QED
        BY <4>1, <4>3, <4>4, <1>6 DEF Proximo, Eventos
    <3> QED
      BY <3>1, <3>2, <1>1, <1>5
  <2> QED
    BY <2>1, <1>6, <1>7, <1>9
<1>10. CASE e.fluxo # f
  <2>1. s[i].de.fluxo # f
    BY <1>4, <1>10
  <2>2. /\ q = 1 /\ Achado(f) # <<>>
        /\ i \in Texto(partialData) /\ s[i] = partialData[i]
        /\ \A j \in Texto(partialData) : j \in TextoDe(s, 1) /\ s[j] = partialData[j]
    <3> HIDE DEF q
    <3> QED
      BY <1>3, <2>1, Alheias
  <2>3. PICK c \in Fluxo : currentChat = {c} /\ idConversa[f] = idConversa[c]
    BY <2>2, AchadoE
  <2>4. estado[e.fluxo] # "ocioso" /\ e.numero <= Proximo(e.fluxo)
    BY <2>2, <1>4 DEF FluxoInv, Sobra
  <2>5. alvo[e.fluxo] \in Conversa /\ alvo[e.fluxo] # SemConversa
    BY <2>4, <1>6, FluxoAssumption DEF FluxoInv, Comeco
  <2>6. IF idConversa[c] = SemConversa THEN ~ComId(e.fluxo)
        ELSE alvo[e.fluxo] = idConversa[c]
    BY <2>2, <2>3, <1>4 DEF FluxoInv, Donos
  <2>7. ~EhErro(e) => idConversa[c] = alvo[e.fluxo]
    <3>1. \A j \in TextoDe(s, 1) : j \in Texto(partialData) /\ s[j] = partialData[j]
      <4> SUFFICES ASSUME NEW j \in TextoDe(s, 1)
                   PROVE  j \in Texto(partialData) /\ s[j] = partialData[j]
        OBVIOUS
      <4>1. s[j].de.fluxo # f /\ j \in TextoDe(s, q)
        BY <2>2, <1>3, <1>10
      <4> HIDE DEF q
      <4> QED
        BY <4>1, <1>3, Alheias
    <3>2. partialData \in Seq(Tokens)
      BY DEF FluxoInv, TiposDoFluxo
    <3>3. Letras(partialData) = {partialData[j] : j \in Texto(partialData)}
      BY <3>2, TextoE
    <3>4. Letras(partialData) = Letras(Corpo(e))
      BY <3>1, <3>3, <1>3, <2>2
    <3> QED
      BY <3>4, <2>3, <1>6 DEF FluxoInv, Inteira
  <2>8. idConversa[f] # SemConversa => idConversa[f] = alvo[f]
    BY <1>7
  <2>9. ~EhErro(e) => alvo[e.fluxo] = alvo[f] /\ idConversa[f] # SemConversa
    BY <2>3, <2>5, <2>7, <2>8
  <2>10. alvo[e.fluxo] # alvo[f] => EhErro(e) /\ ~ComId(f) /\ ~ComId(e.fluxo)
    BY <2>3, <2>6, <2>8, <2>9, <1>7
  <2> QED
    BY <2>4, <2>9, <2>10, <1>6, <1>10
<1> QED
  BY <1>9, <1>10

LEMMA ObjetosEmOrdem ==
  ASSUME FluxoInv, NEW f \in Fluxo, NEW k \in Nat, k > recebido[f],
         NEW m \in 1..Len(Lidos(f, k)),
         NEW n \in 1..Len(Lidos(f, k)), m <= n,
         Lidos(f, k)[m].evento.fluxo = Lidos(f, k)[n].evento.fluxo
  PROVE  Lidos(f, k)[m].evento.numero
           <= Lidos(f, k)[n].evento.numero
<1> DEFINE s == Lido(f, k)
           O == Lidos(f, k)
<1>1. s \in Seq(Tokens) /\ EmOrdem(s)
  BY LidoE, LidoEmOrdem
<1>2. roteiro \in Roteiros
  BY DEF FluxoInv, TiposDoFluxo
<1>3. /\ O \in Seq(Entregas)
      /\ \A x \in 1..Len(O) : /\ Qual(s)[x] \in 1..Quantos(s)
                              /\ TextoDe(s, Qual(s)[x]) # {}
                              /\ \A i \in TextoDe(s, Qual(s)[x]) : s[i].de = O[x].evento
      /\ \A x, y \in 1..Len(O) : x < y => Qual(s)[x] < Qual(s)[y]
  BY <1>1, <1>2, ObjetosE DEF Lidos
<1>4. m \in 1..Len(O) /\ n \in 1..Len(O) /\ O[m].evento.fluxo = O[n].evento.fluxo
  OBVIOUS
<1> HIDE DEF O, s
<1>5. O[m] \in Entregas /\ O[n] \in Entregas
  BY <1>3, <1>4, ElementOfSeq
<1>6. O[m].evento.numero \in Nat
  BY <1>5 DEF Entregas, Eventos
<1>7. CASE m = n
  BY <1>6, <1>7 DEF O, s
<1>8. CASE m < n
  <2> DEFINE u == Qual(s)[m]
             v == Qual(s)[n]
  <2>1. u < v /\ u \in 1..Quantos(s) /\ v \in 1..Quantos(s)
    BY <1>3, <1>4, <1>8
  <2>2. PICK i \in TextoDe(s, u), j \in TextoDe(s, v) : s[i].de = O[m].evento /\ s[j].de = O[n].evento
    BY <1>3, <1>4
  <2> HIDE DEF u, v
  <2>3. Fim(s, u) < Ini(s, v) /\ Fim(s, u) \in Nat /\ Ini(s, v) \in Nat
    BY <1>1, <2>1, SeparaE
  <2>4. i \in Texto(s) /\ j \in Texto(s) /\ i <= Fim(s, u) /\ Ini(s, v) <= j
    BY DEF TextoDe
  <2>5. i \in Nat /\ j \in Nat
    BY <1>1, <2>4, TextoE
  <2>6. i < j
    BY <2>3, <2>4, <2>5
  <2> QED
    BY <1>1, <1>4, <2>2, <2>4, <2>6 DEF EmOrdem, O, s
<1>9. m \in Nat /\ n \in Nat
  BY <1>3, <1>4
<1> QED
  BY <1>7, <1>8, <1>9

(* What a chunk leaves in the buffer.                                      *)
Resto(f, k) == Apara(Last(Separa(Lido(f, k))))

LEMMA RestoE ==
  ASSUME FluxoInv, NEW f \in Fluxo, NEW k \in Nat, k > recebido[f]
  PROVE  LET s == Lido(f, k)
             B == Resto(f, k)
             N == Quantos(s)
         IN  /\ B \in Seq(Tokens) /\ N \in Nat \ {0} /\ B = Apara(Separa(s)[N])
             /\ Letras(B) = {s[i] : i \in TextoDe(s, N)}
             /\ EmOrdem(B)
             /\ \A i \in 1..Len(B) - 1 : ~Corte(B, i)
             /\ B # <<>> => Len(B) \in Texto(B)
             /\ \A i \in Texto(B) : \E j \in TextoDe(s, N) : B[i] = s[j]
<1> DEFINE s == Lido(f, k)
           B == Resto(f, k)
           N == Quantos(s)
<1>1. s \in Seq(Tokens) /\ EmOrdem(s)
  BY LidoE, LidoEmOrdem
<1> HIDE DEF s
<1>2. N \in Nat \ {0} /\ N \in 1..N /\ Len(Separa(s)) = N
  BY <1>1, SeparaE
<1>3. B = Apara(Separa(s)[N])
  BY <1>2 DEF Resto, Last, s
<1>4. /\ B \in Seq(Tokens)
      /\ Letras(B) = {s[i] : i \in TextoDe(s, N)}
      /\ B # <<>> =>
           \E c \in Nat :
             /\ Ini(s, N) <= c + 1 /\ c + Len(B) <= Fim(s, N) /\ Len(B) >= 1
             /\ c + 1 \in Texto(s) /\ c + Len(B) \in Texto(s)
             /\ \A p \in 1..Len(B) : B[p] = s[c + p]
  <2>1. N \in 1..Quantos(s)
    BY <1>2
  <2> DEFINE T == Apara(Separa(s)[N])
  <2>2. B = T
    BY <1>3
  <2> HIDE DEF N, B
  <2>3. /\ T \in Seq(Tokens)
        /\ Letras(T) = {s[i] : i \in TextoDe(s, N)}
        /\ T # <<>> =>
             \E c \in Nat :
               /\ Ini(s, N) <= c + 1 /\ c + Len(T) <= Fim(s, N) /\ Len(T) >= 1
               /\ c + 1 \in Texto(s) /\ c + Len(T) \in Texto(s)
               /\ \A p \in 1..Len(T) : T[p] = s[c + p]
    BY <1>1, <2>1, ParteAparada
  <2> HIDE DEF T
  <2> QED
    BY <2>2, <2>3
<1>5. Ini(s, N) \in Nat /\ Fim(s, N) \in Nat /\ Fim(s, N) <= Len(s) /\ Len(s) \in Nat
  BY <1>1, <1>2, SeparaE
<1>6. \A i \in Ini(s, N)..Fim(s, N) - 1 : ~Corte(s, i)
  BY <1>1, <1>2, SeparaCorte
<1> HIDE DEF B, N
<1>7. Len(B) \in Nat /\ DOMAIN B = 1..Len(B)
  BY <1>4
<1>8. CASE B = <<>>
  <2>1. Texto(B) = {} /\ Len(B) = 0
    BY <1>8 DEF Texto
  <2> QED
    BY <2>1, <1>2, <1>3, <1>4, <1>8 DEF EmOrdem, B, N, s
<1>9. CASE B # <<>>
  <2>1. PICK c \in Nat :
             /\ Ini(s, N) <= c + 1 /\ c + Len(B) <= Fim(s, N) /\ Len(B) >= 1
             /\ c + 1 \in Texto(s) /\ c + Len(B) \in Texto(s)
             /\ \A p \in 1..Len(B) : B[p] = s[c + p]
    BY <1>4, <1>9
  <2>2. ASSUME NEW i \in Texto(B)
        PROVE  i \in 1..Len(B) /\ c + i \in TextoDe(s, N) /\ B[i] = s[c + i]
    <3>1. i \in 1..Len(B) /\ B[i].parte = "texto"
      BY <1>7 DEF Texto
    <3>2. B[i] = s[c + i] /\ c + i \in 1..Len(s) /\ Ini(s, N) <= c + i /\ c + i <= Fim(s, N)
      BY <3>1, <2>1, <1>5, <1>7
    <3>3. c + i \in DOMAIN s
      BY <3>2, <1>1
    <3> QED
      BY <3>1, <3>2, <3>3 DEF TextoDe, Texto
  <2>3. EmOrdem(B)
    <3> SUFFICES ASSUME NEW i \in Texto(B), NEW j \in Texto(B), i < j, B[i].de.fluxo = B[j].de.fluxo
                 PROVE  B[i].de.numero <= B[j].de.numero
      BY DEF EmOrdem
    <3>1. /\ i \in 1..Len(B) /\ c + i \in Texto(s) /\ B[i] = s[c + i]
          /\ j \in 1..Len(B) /\ c + j \in Texto(s) /\ B[j] = s[c + j]
      BY <2>2 DEF TextoDe
    <3>2. c + i < c + j
      BY <3>1, <1>7
    <3> QED
      BY <3>1, <3>2, <1>1 DEF EmOrdem
  <2>4. ASSUME NEW i \in 1..Len(B) - 1
        PROVE  ~Corte(B, i)
    <3>1. i \in 1..Len(B) /\ i + 1 \in 1..Len(B) /\ c + (i + 1) = (c + i) + 1
      BY <1>7
    <3>2. B[i] = s[c + i] /\ B[i + 1] = s[(c + i) + 1]
      BY <3>1, <2>1
    <3>3. c + i \in Ini(s, N)..Fim(s, N) - 1
      BY <3>1, <2>1, <1>5, <1>7
    <3>4. ~Corte(s, c + i)
      BY <3>3, <1>6
    <3> QED
      BY <3>2, <3>4 DEF Corte
  <2>5. Len(B) \in Texto(B)
    <3>1. Len(B) \in 1..Len(B) /\ B[Len(B)] = s[c + Len(B)]
      BY <2>1, <1>7
    <3> QED
      BY <3>1, <2>1, <1>7 DEF Texto
  <2>6. \A i \in Texto(B) : \E j \in TextoDe(s, N) : B[i] = s[j]
    BY <2>2
  <2> QED
    BY <1>2, <1>3, <1>4, <2>3, <2>4, <2>5, <2>6 DEF B, N, s
<1> QED
  BY <1>8, <1>9

LEMMA RestoDepois ==
  ASSUME FluxoInv, NEW f \in Fluxo, NEW k \in Nat, k > recebido[f],
         NEW n \in 1..Len(Lidos(f, k)),
         NEW i \in Texto(Resto(f, k)),
         Lidos(f, k)[n].evento.fluxo = Resto(f, k)[i].de.fluxo
  PROVE  Lidos(f, k)[n].evento.numero <= Resto(f, k)[i].de.numero
<1> DEFINE s == Lido(f, k)
           O == Lidos(f, k)
           B == Resto(f, k)
           N == Quantos(s)
           q == Qual(s)[n]
<1>1. s \in Seq(Tokens) /\ EmOrdem(s) /\ roteiro \in Roteiros
  BY LidoE, LidoEmOrdem DEF FluxoInv, TiposDoFluxo
<1>2. /\ q \in 1..N /\ TextoDe(s, q) # {} /\ \A x \in TextoDe(s, q) : s[x].de = O[n].evento
  BY <1>1, ObjetosE DEF Lidos
<1>3. N \in Nat \ {0} /\ \A x \in Texto(B) : \E j \in TextoDe(s, N) : B[x] = s[j]
  BY RestoE
<1>4. O[n].evento.fluxo = B[i].de.fluxo /\ i \in Texto(B)
  OBVIOUS
<1> HIDE DEF s, O, B, q
<1>5. PICK j \in TextoDe(s, N) : B[i] = s[j]
  BY <1>3, <1>4
<1>6. PICK x \in TextoDe(s, q) : s[x].de = O[n].evento
  BY <1>2
<1>7. /\ x \in Texto(s) /\ j \in Texto(s) /\ x \in Nat /\ j \in Nat
      /\ x <= Fim(s, q) /\ Ini(s, N) <= j
      /\ s[j].de.numero \in Nat
  BY <1>1, TextoE DEF TextoDe, Eventos
<1>8. CASE q = N
  <2>1. s[j].de = O[n].evento
    BY <1>2, <1>5, <1>8
  <2> QED
    BY <2>1, <1>5, <1>7 DEF B, O, s
<1>9. CASE q < N
  <2>1. Fim(s, q) < Ini(s, N) /\ Fim(s, q) \in Nat /\ Ini(s, N) \in Nat
    BY <1>1, <1>2, <1>3, <1>9, SeparaE
  <2>2. x < j
    BY <2>1, <1>7
  <2> QED
    BY <2>2, <1>1, <1>4, <1>5, <1>6, <1>7 DEF EmOrdem, B, O, s
<1> QED
  BY <1>2, <1>3, <1>8, <1>9

-----------------------------------------------------------------------------
(* The steps.                                                              *)

(* The id a chunk leaves its chat: that of an answer read, if any was.     *)
NovoId(f, k, w) ==
  IF Validas(f, k) = {} THEN w = idConversa[f]
  ELSE \E n \in Validas(f, k) : w = alvo[Lidos(f, k)[n].evento.fluxo]

LEMMA LeE ==
  ASSUME FluxoInv, NEW f \in Fluxo, NEW k \in Nat, Le(f, k)
  PROVE  /\ estado[f] = "lendo" /\ k > recebido[f]
         /\ Lidos(f, k) \in Seq(Entregas)
         /\ \E ate \in 0..Len(Lidos(f, k)) :
              entregues' = [entregues EXCEPT ![f] = @ \o SubSeq(Lidos(f, k), 1, ate)]
         /\ partialData' = Resto(f, k) /\ currentChat' = {f}
         /\ recebido' = [recebido EXCEPT ![f] = k]
         /\ \E x \in {"lendo", "falhou"} : estado' = [estado EXCEPT ![f] = x]
         /\ \E w : idConversa' = [idConversa EXCEPT ![f] = w] /\ NovoId(f, k, w)
         /\ UNCHANGED <<roteiro, alvo, anteriores>>
<1> DEFINE s == Lido(f, k)
           O == Lidos(f, k)
           quebra == {i \in DOMAIN O : /\ ~EhErro(O[i].evento)
                                       /\ Tirou(entregues[f] \o SubSeq(O, 1, i - 1))}
           ate == IF quebra = {} THEN Len(O) ELSE Min(quebra) - 1
           respostas == {i \in DOMAIN O : ~EhErro(O[i].evento)}
           lidas == {i \in respostas : quebra = {} \/ i <= Min(quebra)}
           w == IF lidas = {} THEN idConversa[f] ELSE alvo[O[Max(lidas)].evento.fluxo]
<1>1. /\ estado[f] = "lendo" /\ k \in recebido[f] + 1 .. Tamanho(f)
      /\ currentChat' = {f}
      /\ recebido' = [recebido EXCEPT ![f] = k]
      /\ UNCHANGED <<roteiro, alvo, anteriores>>
  BY DEF Le
<1>2. recebido[f] \in Nat /\ estado \in [Fluxo -> Estados]
      /\ idConversa \in [Fluxo -> Conversa \cup {SemConversa}]
  BY DEF FluxoInv, TiposDoFluxo
<1>3. k > recebido[f]
  BY <1>1, <1>2
<1>4. /\ entregues' = [entregues EXCEPT ![f] = @ \o SubSeq(O, 1, ate)]
      /\ partialData' = Resto(f, k)
      /\ estado' = [estado EXCEPT ![f] = IF quebra = {} THEN @ ELSE "falhou"]
      /\ idConversa' = [idConversa EXCEPT ![f] = IF lidas = {} THEN @
                           ELSE alvo[O[Max(lidas)].evento.fluxo]]
  BY DEF Le, Resto, Lidos, Lido, Dados
<1>5. s \in Seq(Tokens) /\ roteiro \in Roteiros
  BY <1>3, LidoE DEF FluxoInv, TiposDoFluxo
<1>6. O \in Seq(Entregas)
  BY <1>5, ObjetosE DEF Lidos
<1> HIDE DEF O, s
<1>7. Len(O) \in Nat /\ DOMAIN O = 1..Len(O) /\ IsFiniteSet(1..Len(O))
  BY <1>6, FS_Interval
<1>8. /\ quebra \in SUBSET (1..Len(O)) /\ respostas \in SUBSET (1..Len(O))
      /\ lidas \in SUBSET (1..Len(O)) /\ quebra \subseteq respostas
  BY <1>7
<1> HIDE DEF quebra
<1>9. quebra # {} => Min(quebra) \in quebra
  <2>1. IsFiniteSet(quebra) /\ quebra \in SUBSET Nat
    BY <1>7, <1>8, FS_Subset
  <2> QED
    BY <2>1, MinMax
<1>10. ate \in 0..Len(O)
  BY <1>7, <1>8, <1>9
<1>11. lidas # {} => Max(lidas) \in lidas
  <2>1. IsFiniteSet(lidas) /\ lidas \in SUBSET Nat
    <3>1. lidas \in SUBSET (1..Len(O))
      BY <1>8
    <3> HIDE DEF lidas, respostas
    <3>2. IsFiniteSet(lidas)
      BY <1>7, <3>1, FS_Subset
    <3>3. lidas \in SUBSET Nat
      BY <1>7, <3>1
    <3> QED
      BY <3>2, <3>3
  <2> HIDE DEF lidas
  <2> QED
    BY <2>1, MinMax
<1>12. respostas # {} => lidas # {}
  <2>1. CASE quebra = {}
    BY <2>1
  <2>2. CASE quebra # {}
    <3>1. Min(quebra) \in respostas /\ Min(quebra) <= Min(quebra)
      BY <2>2, <1>8, <1>9
    <3> QED
      BY <3>1
  <2> QED
    BY <2>1, <2>2
<1>13. lidas \subseteq respostas
  OBVIOUS
<1> HIDE DEF lidas, respostas, ate
<1>14. IF respostas = {} THEN w = idConversa[f] ELSE \E n \in respostas : w = alvo[O[n].evento.fluxo]
  BY <1>11, <1>12, <1>13
<1>15. idConversa' = [idConversa EXCEPT ![f] = w]
  BY <1>4, <1>2
<1>16. \E x \in {"lendo", "falhou"} : estado' = [estado EXCEPT ![f] = x]
  <2>1. CASE quebra = {}
    BY <2>1, <1>1, <1>2, <1>4
  <2>2. CASE quebra # {}
    BY <2>2, <1>2, <1>4
  <2> QED
    BY <2>1, <2>2
<1>17. respostas = Validas(f, k)
  BY <1>7 DEF respostas, Validas, O
<1>18. \E v : idConversa' = [idConversa EXCEPT ![f] = v] /\ NovoId(f, k, v)
  <2>1. NovoId(f, k, w)
    BY <1>14, <1>17 DEF NovoId, O
  <2> QED
    BY <2>1, <1>15
<1>19. \E x \in 0..Len(O) : entregues' = [entregues EXCEPT ![f] = @ \o SubSeq(O, 1, x)]
  BY <1>4, <1>10
<1> QED
  BY <1>1, <1>3, <1>4, <1>6, <1>16, <1>18, <1>19 DEF O

(* What a chunk changes beside the buffer.                                 *)
LEMMA LeMuda ==
  ASSUME FluxoInv, NEW f \in Fluxo, NEW k \in Nat, Le(f, k)
  PROVE  /\ TiposDoFluxo' /\ Comeco'
         /\ \A g \in Fluxo : estado'[g] = "ocioso" <=> estado[g] = "ocioso"
         /\ \A g \in Fluxo : Proximo(g) \in Nat /\ Proximo(g)' \in Nat /\ Proximo(g) <= Proximo(g)'
         /\ Proximo(f)' = k \div Passo(f) + 1
         /\ \A g \in Fluxo : g # f => Proximo(g)' = Proximo(g)
         /\ \A e : (EhErro(e)' <=> EhErro(e)) /\ Corpo(e)' = Corpo(e)
         /\ idConversa'[f] = idConversa[f] \/ idConversa'[f] = alvo[f]
<1> DEFINE O == Lidos(f, k)
<1>1. /\ estado[f] = "lendo" /\ k > recebido[f]
      /\ O \in Seq(Entregas)
      /\ \E ate \in 0..Len(O) :
           entregues' = [entregues EXCEPT ![f] = @ \o SubSeq(O, 1, ate)]
      /\ partialData' = Resto(f, k) /\ currentChat' = {f}
      /\ recebido' = [recebido EXCEPT ![f] = k]
      /\ \E x \in {"lendo", "falhou"} : estado' = [estado EXCEPT ![f] = x]
      /\ \E w : idConversa' = [idConversa EXCEPT ![f] = w] /\ NovoId(f, k, w)
      /\ UNCHANGED <<roteiro, alvo, anteriores>>
  BY LeE
<1>2. \A n \in 1..Len(O) : ~EhErro(O[n].evento) => alvo[O[n].evento.fluxo] = alvo[f]
  BY <1>1, Respostas
<1>3. PICK w : idConversa' = [idConversa EXCEPT ![f] = w] /\ NovoId(f, k, w)
  BY <1>1
<1>4. w = idConversa[f] \/ w = alvo[f]
  BY <1>2, <1>3 DEF NovoId, Validas
<1>5. PICK x \in {"lendo", "falhou"} : estado' = [estado EXCEPT ![f] = x]
  BY <1>1
<1>6. PICK ate \in 0..Len(O) : entregues' = [entregues EXCEPT ![f] = @ \o SubSeq(O, 1, ate)]
  BY <1>1
<1>7. TiposDoFluxo
  BY DEF FluxoInv
<1>8. Resto(f, k) \in Seq(Tokens)
  BY <1>1, RestoE
<1>9. entregues' \in [Fluxo -> Seq(Entregas)]
  <2>1. \A i \in 1..ate : O[i] \in Entregas
    BY <1>1, ElementOfSeq
  <2>2. SubSeq(O, 1, ate) \in Seq(Entregas)
    BY <2>1, SubSeqProperties
  <2>3. entregues[f] \o SubSeq(O, 1, ate) \in Seq(Entregas)
    BY <2>2, <1>7, ConcatProperties DEF TiposDoFluxo
  <2> QED
    BY <2>3, <1>6, <1>7 DEF TiposDoFluxo
<1>10. idConversa' \in [Fluxo -> Conversa \cup {SemConversa}]
  BY <1>3, <1>4, <1>7 DEF TiposDoFluxo
<1>11. TiposDoFluxo'
  BY <1>1, <1>5, <1>7, <1>8, <1>9, <1>10 DEF TiposDoFluxo, Estados
<1>12. \A g \in Fluxo : estado'[g] = "ocioso" <=> estado[g] = "ocioso"
  BY <1>1, <1>5, <1>7 DEF TiposDoFluxo
<1>13. \A g \in Fluxo : g # f => idConversa'[g] = idConversa[g] /\ entregues'[g] = entregues[g]
                                 /\ recebido'[g] = recebido[g]
  BY <1>1, <1>3, <1>6, <1>7 DEF TiposDoFluxo
<1>14. idConversa'[f] = idConversa[f] \/ idConversa'[f] = alvo[f]
  BY <1>3, <1>4, <1>7 DEF TiposDoFluxo
<1>15. Comeco'
  <2>1. Comeco
    BY DEF FluxoInv
  <2>2. ASSUME NEW g \in Fluxo
        PROVE  /\ estado'[g] = "ocioso" =>
                    /\ alvo'[g] = SemConversa /\ idConversa'[g] = SemConversa /\ ~ComId(g)'
                    /\ entregues'[g] = <<>> /\ g \notin currentChat'
               /\ estado'[g] # "ocioso" => alvo'[g] \in Conversa
               /\ idConversa'[g] \in {SemConversa, alvo'[g]}
               /\ ComId(g)' => idConversa'[g] = alvo'[g]
    <3>1. CASE g = f
      BY <3>1, <2>1, <1>1, <1>12, <1>14 DEF Comeco, ComId
    <3>2. CASE g # f
      BY <3>2, <2>1, <1>1, <1>12, <1>13 DEF Comeco, ComId
    <3> QED
      BY <3>1, <3>2
  <2> QED
    BY <2>2 DEF Comeco
<1>16. \A g \in Fluxo : Passo(g)' = Passo(g) /\ Passo(g) \in Nat \ {0}
  BY <1>1, <1>7, PassoE DEF Passo, TiposDoFluxo
<1>17. recebido'[f] = k /\ \A g \in Fluxo : recebido[g] \in Nat /\ recebido[g] <= recebido'[g]
                                            /\ recebido'[g] \in Nat
  BY <1>1, <1>7 DEF TiposDoFluxo
<1>18. ASSUME NEW g \in Fluxo
       PROVE  Proximo(g) \in Nat /\ Proximo(g)' \in Nat /\ Proximo(g) <= Proximo(g)'
  <2>1. recebido[g] \div Passo(g) <= recebido'[g] \div Passo(g)
    BY <1>16, <1>17, DivideCresce
  <2>2. recebido[g] \div Passo(g) \in Nat /\ recebido'[g] \div Passo(g) \in Nat
    BY <1>16, <1>17, Divide
  <2> QED
    BY <2>1, <2>2, <1>16 DEF Proximo
<1>19. Proximo(f)' = k \div Passo(f) + 1
  BY <1>16, <1>17 DEF Proximo
<1>20. \A g \in Fluxo : g # f => Proximo(g)' = Proximo(g)
  BY <1>13, <1>16 DEF Proximo
<1>21. \A e : (EhErro(e)' <=> EhErro(e)) /\ Corpo(e)' = Corpo(e)
  BY <1>1 DEF EhErro, Corpo, Total
<1> QED
  BY <1>11, <1>12, <1>14, <1>15, <1>18, <1>19, <1>20, <1>21

(* Whose letters are left.                                                 *)
LEMMA RestoDeQuem ==
  ASSUME FluxoInv, NEW f \in Fluxo, NEW k \in Nat, k > recebido[f], NEW i \in Texto(Resto(f, k))
  PROVE  LET s == Lido(f, k)
             e == Resto(f, k)[i].de
         IN  /\ e \in Eventos
             /\ e.fluxo = f => e.numero <= k \div Passo(f) + 1
             /\ e.fluxo # f =>
                  /\ Quantos(s) = 1 /\ Achado(f) # <<>>
                  /\ \E j \in Texto(partialData) : partialData[j].de = e
                  /\ \E j \in TextoDe(s, 1) : s[j].de = e
<1> DEFINE s == Lido(f, k)
           B == Resto(f, k)
           N == Quantos(s)
           a == Len(Achado(f))
<1>1. /\ s \in Seq(Tokens) /\ a \in 0..Len(s)
      /\ \A j \in Texto(s) : j <= a => j \in Texto(partialData) /\ s[j] = partialData[j]
      /\ \A j \in Texto(s) : j > a => s[j].de.fluxo = f /\ s[j].de.numero <= k \div Passo(f) + 1
  BY LidoE
<1>2. N \in Nat \ {0} /\ \A x \in Texto(B) : \E j \in TextoDe(s, N) : B[x] = s[j]
  BY RestoE
<1>3. PICK j \in TextoDe(s, N) : B[i] = s[j]
  BY <1>2
<1>4. j \in Texto(s) /\ j \in Nat /\ s[j].de \in Eventos /\ N \in 1..N
  BY <1>1, <1>2, TextoE DEF TextoDe
<1>5. ASSUME B[i].de.fluxo = f
      PROVE  B[i].de.numero <= k \div Passo(f) + 1
  <2>1. CASE j > a
    BY <2>1, <1>1, <1>3, <1>4
  <2>2. CASE j <= a
    <3>1. partialData[j].de = B[i].de /\ j \in Texto(partialData)
      BY <2>2, <1>1, <1>3, <1>4
    <3>2. B[i].de.numero <= Proximo(f)
      BY <3>1, <1>5 DEF FluxoInv, Sobra
    <3>3. recebido[f] \in Nat /\ Passo(f) \in Nat \ {0}
      BY PassoE DEF FluxoInv, TiposDoFluxo
    <3>4. recebido[f] \div Passo(f) <= k \div Passo(f)
      BY <3>3, DivideCresce
    <3>5. recebido[f] \div Passo(f) \in Nat /\ k \div Passo(f) \in Nat
      BY <3>3, Divide
    <3>6. B[i].de.numero \in Nat
      BY <1>3, <1>4 DEF Eventos
    <3> QED
      BY <3>2, <3>4, <3>5, <3>6 DEF Proximo
  <2> QED
    BY <2>1, <2>2, <1>1, <1>4
<1>6. ASSUME B[i].de.fluxo # f
      PROVE  /\ N = 1 /\ Achado(f) # <<>>
             /\ \E x \in Texto(partialData) : partialData[x].de = B[i].de
             /\ \E x \in TextoDe(s, 1) : s[x].de = B[i].de
  <2>1. s[j].de.fluxo # f
    BY <1>3, <1>6
  <2>2. /\ N = 1 /\ Achado(f) # <<>>
        /\ j \in Texto(partialData) /\ s[j] = partialData[j]
    BY <2>1, <1>4, Alheias
  <2> QED
    BY <2>2, <1>3
<1> QED
  BY <1>3, <1>4, <1>5, <1>6

(* Feitas after a step, with a name for each event.                         *)
LEMMA FeitasDepois ==
  ASSUME \A g \in Fluxo : \A i \in 1..Len(entregues'[g]) : \A e :
           e = entregues'[g][i].evento =>
             /\ Entregue(e, g)'
             /\ \A j \in 1..i : entregues'[g][j].evento.fluxo = e.fluxo
                                 => entregues'[g][j].evento.numero <= e.numero
  PROVE  Feitas'
<1> SUFFICES ASSUME NEW g \in Fluxo, NEW i \in 1..Len(entregues'[g])
             PROVE  LET e == entregues[g][i].evento
                    IN (/\ Entregue(e, g)
                        /\ \A j \in 1..i : entregues[g][j].evento.fluxo = e.fluxo
                             => entregues[g][j].evento.numero <= e.numero)'
  BY DEF Feitas
<1>1. PICK e : e = entregues'[g][i].evento
  OBVIOUS
<1>2. /\ Entregue(e, g)'
      /\ \A j \in 1..i : entregues'[g][j].evento.fluxo = e.fluxo
                           => entregues'[g][j].evento.numero <= e.numero
  BY <1>1
<1> QED
  BY <1>1, <1>2 DEF Entregue, EhErro, Total, Proximo, Passo

LEMMA LeSobra ==
  ASSUME FluxoInv, NEW f \in Fluxo, NEW k \in Nat, Le(f, k)
  PROVE  Sobra'
<1> DEFINE B == Resto(f, k)
<1>1. /\ estado[f] = "lendo" /\ k > recebido[f]
      /\ partialData' = B /\ currentChat' = {f}
  BY LeE
<1>2. /\ \A g \in Fluxo : estado'[g] = "ocioso" <=> estado[g] = "ocioso"
      /\ \A g \in Fluxo : Proximo(g) \in Nat /\ Proximo(g)' \in Nat /\ Proximo(g) <= Proximo(g)'
      /\ Proximo(f)' = k \div Passo(f) + 1
  BY LeMuda
<1>3. /\ EmOrdem(B)
      /\ \A i \in 1..Len(B) - 1 : ~Corte(B, i)
      /\ B # <<>> => Len(B) \in Texto(B)
  BY <1>1, RestoE
<1>4. ASSUME NEW i \in Texto(B), NEW e, e = B[i].de
      PROVE  estado'[e.fluxo] # "ocioso" /\ e.numero <= Proximo(e.fluxo)'
  <2>1. /\ e \in Eventos
        /\ e.fluxo = f => e.numero <= k \div Passo(f) + 1
        /\ e.fluxo # f => \E j \in Texto(partialData) : partialData[j].de = e
    BY <1>1, <1>4, RestoDeQuem
  <2>2. e.fluxo \in Fluxo /\ e.numero \in Nat
    BY <2>1 DEF Eventos
  <2>3. CASE e.fluxo = f
    BY <2>1, <2>3, <1>1, <1>2
  <2>4. CASE e.fluxo # f
    <3>1. estado[e.fluxo] # "ocioso" /\ e.numero <= Proximo(e.fluxo)
      BY <2>1, <2>4 DEF FluxoInv, Sobra
    <3>2. estado'[e.fluxo] # "ocioso" /\ e.numero <= Proximo(e.fluxo)'
      BY <3>1, <2>2, <1>2
    <3> QED
      BY <3>2
  <2> QED
    BY <2>3, <2>4
<1>5. currentChat' # Ninguem
  BY <1>1 DEF Ninguem
<1>6. ASSUME NEW i \in Texto(partialData)'
      PROVE  LET e == partialData[i].de
             IN (estado[e.fluxo] # "ocioso" /\ e.numero <= Proximo(e.fluxo))'
  <2>1. i \in Texto(B)
    BY <1>1 DEF Texto
  <2>2. PICK e : e = partialData'[i].de
    OBVIOUS
  <2>3. estado'[e.fluxo] # "ocioso" /\ e.numero <= Proximo(e.fluxo)'
    BY <2>1, <2>2, <1>1, <1>4
  <2> QED
    BY <2>2, <2>3 DEF Proximo, Passo
<1>7. /\ EmOrdem(partialData)'
      /\ \A i \in 1..Len(partialData') - 1 : ~Corte(partialData', i)
      /\ partialData' # <<>> => Len(partialData') \in Texto(partialData)'
  BY <1>1, <1>3 DEF EmOrdem, Texto
<1> QED
  BY <1>5, <1>6, <1>7 DEF Sobra, Corte

LEMMA LeDonos ==
  ASSUME FluxoInv, NEW f \in Fluxo, NEW k \in Nat, Le(f, k)
  PROVE  Donos'
<1> DEFINE s == Lido(f, k)
           B == Resto(f, k)
           O == Lidos(f, k)
<1>1. /\ estado[f] = "lendo" /\ k > recebido[f]
      /\ partialData' = B /\ currentChat' = {f}
      /\ \E w : idConversa' = [idConversa EXCEPT ![f] = w] /\ NovoId(f, k, w)
      /\ UNCHANGED <<roteiro, alvo, anteriores>>
  BY LeE
<1>2. alvo[f] # SemConversa /\ idConversa[f] \in {SemConversa, alvo[f]}
      /\ (ComId(f) => idConversa[f] = alvo[f]) /\ TiposDoFluxo
  BY <1>1, FluxoAssumption DEF FluxoInv, Comeco
<1>3. idConversa'[f] = idConversa[f] \/ idConversa'[f] = alvo[f]
  BY LeMuda
<1> SUFFICES ASSUME NEW i \in Texto(B)
             PROVE  IF idConversa'[f] = SemConversa THEN ~ComId(B[i].de.fluxo)
                    ELSE alvo[B[i].de.fluxo] = idConversa'[f]
  BY <1>1 DEF Donos, ComId
<1> DEFINE e == B[i].de
<1>4. /\ e.fluxo # f => /\ Quantos(s) = 1 /\ Achado(f) # <<>>
                        /\ \E j \in Texto(partialData) : partialData[j].de = e
                        /\ \E j \in TextoDe(s, 1) : s[j].de = e
  BY <1>1, RestoDeQuem
<1>5. CASE e.fluxo = f
  BY <1>2, <1>3, <1>5
<1>6. CASE e.fluxo # f
  <2>1. PICK c \in Fluxo : currentChat = {c} /\ idConversa[f] = idConversa[c]
    BY <1>4, <1>6, AchadoE
  <2>2. IF idConversa[f] = SemConversa THEN ~ComId(e.fluxo) ELSE alvo[e.fluxo] = idConversa[f]
    BY <2>1, <1>4, <1>6 DEF FluxoInv, Donos
  <2>3. CASE idConversa[f] # SemConversa
    BY <2>2, <2>3, <1>2, <1>3
  <2>4. CASE idConversa[f] = SemConversa
    <3>1. Validas(f, k) = {}
      <4> SUFFICES ASSUME NEW n \in 1..Len(O), ~EhErro(O[n].evento)
                   PROVE  FALSE
        BY DEF Validas
      <4>1. O[n].evento.fluxo = f
        BY <1>1, <2>4, Respostas
      <4>2. /\ Qual(s)[n] \in 1..Quantos(s)
            /\ \A j \in TextoDe(s, Qual(s)[n]) : s[j].de = O[n].evento
        BY <1>1, <1>2, LidoE, ObjetosE DEF TiposDoFluxo, Lidos
      <4>3. Qual(s)[n] = 1
        BY <4>2, <1>4, <1>6
      <4> QED
        BY <4>1, <4>2, <4>3, <1>4, <1>6
    <3>2. idConversa'[f] = idConversa[f]
      BY <3>1, <1>1, <1>2 DEF TiposDoFluxo, NovoId
    <3> QED
      BY <3>2, <2>2, <2>4
  <2> QED
    BY <2>3, <2>4
<1> QED
  BY <1>5, <1>6

LEMMA LeInteira ==
  ASSUME FluxoInv, NEW f \in Fluxo, NEW k \in Nat, Le(f, k)
  PROVE  Inteira'
<1> DEFINE s == Lido(f, k)
           B == Resto(f, k)
           N == Quantos(s)
           O == Lidos(f, k)
<1>1. /\ estado[f] = "lendo" /\ k > recebido[f]
      /\ partialData' = B /\ currentChat' = {f}
      /\ \E w : idConversa' = [idConversa EXCEPT ![f] = w] /\ NovoId(f, k, w)
      /\ UNCHANGED <<roteiro, alvo, anteriores>>
  BY LeE
<1>2. \A e : (EhErro(e)' <=> EhErro(e)) /\ Corpo(e)' = Corpo(e)
  BY LeMuda
<1>3. TiposDoFluxo /\ roteiro \in Roteiros
  BY DEF FluxoInv, TiposDoFluxo
<1> SUFFICES ASSUME NEW e \in Eventos, ~EhErro(e), Letras(B) = Letras(Corpo(e))
             PROVE  idConversa'[f] = alvo[e.fluxo]
  <2>1. Letras(partialData)' = Letras(B)
    BY <1>1 DEF Letras
  <2>2. \A e \in Eventos : Letras(Corpo(e))' = Letras(Corpo(e))
    BY <1>2 DEF Letras
  <2> QED
    BY <1>1, <1>2, <2>1, <2>2 DEF Inteira, Eventos
<1>4. Letras(Corpo(e)) # {} /\ \A x \in Letras(Corpo(e)) : x.de = e
  BY <1>3, LetrasDoCorpo
<1>5. /\ B \in Seq(Tokens) /\ N \in Nat \ {0} /\ B = Apara(Separa(s)[N])
      /\ Letras(B) = {s[i] : i \in TextoDe(s, N)}
  BY <1>1, RestoE
<1>6. s \in Seq(Tokens) /\ N \in 1..Quantos(s)
  BY <1>1, <1>5, LidoE
<1>7. B # <<>> /\ B[1] \in Letras(B)
  <2>1. TextoDe(s, N) # {}
    BY <1>4, <1>5
  <2> HIDE DEF N, B, s
  <2>2. /\ B = <<>> <=> TextoDe(s, N) = {}
        /\ B # <<>> => \E c \in Nat : /\ Len(B) >= 1 /\ c + 1 \in Texto(s)
                                      /\ \A p \in 1..Len(B) : B[p] = s[c + p]
    <3> DEFINE T == Apara(Separa(s)[N])
    <3>1. /\ T = <<>> <=> TextoDe(s, N) = {}
          /\ T # <<>> => \E c \in Nat : /\ Len(T) >= 1 /\ c + 1 \in Texto(s)
                                        /\ \A p \in 1..Len(T) : T[p] = s[c + p]
      BY <1>6, ParteAparada
    <3>2. B = T
      BY <1>5
    <3> HIDE DEF T
    <3> QED
      BY <3>1, <3>2
  <2>3. PICK c \in Nat : /\ Len(B) >= 1 /\ c + 1 \in Texto(s)
                         /\ \A p \in 1..Len(B) : B[p] = s[c + p]
    BY <2>1, <2>2
  <2>4. 1 \in 1..Len(B) /\ B[1] = s[c + 1] /\ s[c + 1].parte = "texto"
    BY <2>3, <1>5, <1>6, TextoE
  <2>5. 1 \in Texto(B)
    BY <2>4, <1>5 DEF Texto
  <2>6. Letras(B) = {B[i] : i \in Texto(B)}
    BY <1>5, TextoE
  <2> QED
    BY <2>1, <2>2, <2>5, <2>6
<1>8. B[1].de = e
  BY <1>4, <1>7
<1>9. N \in Completas(s)
  BY <1>5, <1>6, <1>7, <1>8 DEF Completas, Completa
<1>10. PICK n \in 1..Len(O) : Qual(s)[n] = N
  BY <1>3, <1>6, <1>9, ObjetosE DEF Lidos
<1>11. O[n].evento = e
  <2>1. O[n] = Objeto(Separa(s)[Qual(s)[n]])
    BY <1>3, <1>6, ObjetosE DEF Lidos
  <2>2. Objeto(Separa(s)[N]).evento = B[1].de
    BY <1>5 DEF Objeto
  <2> QED
    BY <2>1, <2>2, <1>8, <1>10
<1>12. n \in Validas(f, k)
  BY <1>11 DEF Validas
<1>13. \A m \in Validas(f, k) : alvo[O[m].evento.fluxo] = alvo[f]
  BY <1>1, Respostas DEF Validas
<1>14. alvo[e.fluxo] = alvo[f]
  BY <1>11, <1>12, <1>13
<1>15. idConversa'[f] = alvo[f]
  BY <1>1, <1>3, <1>12, <1>13 DEF TiposDoFluxo, NovoId
<1> QED
  BY <1>14, <1>15

(* What was handed over comes before what is read.                         *)
LEMMA LidoDepois ==
  ASSUME FluxoInv, NEW f \in Fluxo, NEW k \in Nat, k > recebido[f],
         NEW e \in Eventos, NEW g \in Fluxo, Entregue(e, g),
         NEW x \in Texto(Lido(f, k)), Lido(f, k)[x].de.fluxo = e.fluxo
  PROVE  e.numero <= Lido(f, k)[x].de.numero
<1> DEFINE s == Lido(f, k)
           a == Len(Achado(f))
<1>1. /\ s \in Seq(Tokens) /\ a \in 0..Len(s)
      /\ \A i \in Texto(s) : i <= a => i \in Texto(partialData) /\ s[i] = partialData[i]
      /\ \A i \in Texto(s) : i > a => /\ s[i].de.fluxo = f
                                      /\ Proximo(f) <= s[i].de.numero
  BY LidoE
<1>2. x \in Texto(s) /\ s[x].de.fluxo = e.fluxo
  OBVIOUS
<1> HIDE DEF s
<1>3. x \in Nat /\ s[x].de.numero \in Nat /\ e.numero \in Nat /\ e.fluxo \in Fluxo
  BY <1>1, <1>2, TextoE DEF Eventos
<1>4. CASE x <= a
  BY <1>1, <1>2, <1>4 DEF Entregue, s
<1>5. CASE x > a
  <2>1. e.fluxo = f /\ Proximo(f) <= s[x].de.numero /\ e.numero <= Proximo(f)
    BY <1>1, <1>2, <1>5 DEF Entregue
  <2>2. recebido[f] \in Nat /\ Passo(f) \in Nat \ {0}
    BY PassoE DEF FluxoInv, TiposDoFluxo
  <2>3. Proximo(f) \in Nat
    BY <2>2, Divide DEF Proximo
  <2> QED
    BY <2>1, <2>3, <1>3 DEF s
<1> QED
  BY <1>1, <1>3, <1>4, <1>5

LEMMA LeFeitas ==
  ASSUME FluxoInv, NEW f \in Fluxo, NEW k \in Nat, Le(f, k)
  PROVE  Feitas'
<1> DEFINE s == Lido(f, k)
           B == Resto(f, k)
           O == Lidos(f, k)
<1>1. /\ estado[f] = "lendo" /\ k > recebido[f]
      /\ O \in Seq(Entregas)
      /\ \E ate \in 0..Len(O) :
           entregues' = [entregues EXCEPT ![f] = @ \o SubSeq(O, 1, ate)]
      /\ partialData' = B
      /\ UNCHANGED <<roteiro, alvo, anteriores>>
  BY LeE
<1>2. TiposDoFluxo /\ Feitas
  BY DEF FluxoInv
<1>3. /\ \A g \in Fluxo : estado'[g] = "ocioso" <=> estado[g] = "ocioso"
      /\ \A g \in Fluxo : Proximo(g) \in Nat /\ Proximo(g)' \in Nat /\ Proximo(g) <= Proximo(g)'
      /\ Proximo(f)' = k \div Passo(f) + 1
      /\ \A g \in Fluxo : g # f => Proximo(g)' = Proximo(g)
      /\ \A e : EhErro(e)' <=> EhErro(e)
  BY LeMuda
(* What was handed over comes before what the chunk leaves, and hands over. *)
<1>4. ASSUME NEW e \in Eventos, NEW g \in Fluxo, Entregue(e, g)
      PROVE  Entregue(e, g)'
  <2>1. e.fluxo \in Fluxo /\ e.numero \in Nat
    BY DEF Eventos
  <2>2. estado'[e.fluxo] # "ocioso" /\ e.numero <= Proximo(e.fluxo)'
    BY <1>3, <1>4, <2>1 DEF Entregue
  <2>3. ASSUME NEW i \in Texto(B), B[i].de.fluxo = e.fluxo
        PROVE  e.numero <= B[i].de.numero
    <3>1. \A j \in Texto(B) : \E x \in TextoDe(s, Quantos(s)) : B[j] = s[x]
      BY <1>1, RestoE
    <3>2. PICK x \in TextoDe(s, Quantos(s)) : B[i] = s[x]
      BY <3>1, <2>3
    <3>3. x \in Texto(s)
      BY DEF TextoDe
    <3> QED
      BY <1>1, <1>4, <2>3, <3>2, <3>3, LidoDepois
  <2>4. \A i \in Texto(partialData)' :
          partialData'[i].de.fluxo = e.fluxo => e.numero <= partialData'[i].de.numero
    BY <1>1, <2>3 DEF Texto
  <2> QED
    BY <1>1, <1>3, <1>4, <2>2, <2>4 DEF Entregue, ComId
<1>5. ASSUME NEW n \in 1..Len(O), NEW e, e = O[n].evento
      PROVE  Entregue(e, f)' /\ e \in Eventos
  <2>1. /\ e \in Eventos /\ estado[e.fluxo] # "ocioso"
        /\ alvo[e.fluxo] # alvo[f] => EhErro(e) /\ ~ComId(f) /\ ~ComId(e.fluxo)
        /\ e.numero <= IF e.fluxo = f THEN k \div Passo(f) + 1 ELSE Proximo(e.fluxo)
    BY <1>1, <1>5, Respostas
  <2>2. \A i \in Texto(B) : B[i].de.fluxo = e.fluxo => e.numero <= B[i].de.numero
    BY <1>1, <1>5, RestoDepois
  <2>3. e.fluxo \in Fluxo
    BY <2>1 DEF Eventos
  <2>4. e.numero <= Proximo(e.fluxo)' /\ estado'[e.fluxo] # "ocioso"
    BY <2>1, <2>3, <1>3
  <2>5. \A i \in Texto(partialData)' :
          partialData'[i].de.fluxo = e.fluxo => e.numero <= partialData'[i].de.numero
    BY <1>1, <2>2 DEF Texto
  <2>6. Entregue(e, f)'
    BY <1>1, <1>3, <2>1, <2>4, <2>5 DEF Entregue, ComId
  <2> QED
    BY <2>1, <2>6
<1>6. ASSUME NEW e \in Eventos, Entregue(e, f), NEW n \in 1..Len(O), O[n].evento.fluxo = e.fluxo
      PROVE  e.numero <= O[n].evento.numero
  <2>1. /\ TextoDe(s, Qual(s)[n]) # {}
        /\ \A i \in TextoDe(s, Qual(s)[n]) : s[i].de = O[n].evento
    BY <1>1, <1>2, LidoE, ObjetosE DEF TiposDoFluxo, Lidos
  <2>2. PICK x \in TextoDe(s, Qual(s)[n]) : s[x].de = O[n].evento
    BY <2>1
  <2>3. x \in Texto(s)
    BY DEF TextoDe
  <2> QED
    BY <1>1, <1>6, <2>2, <2>3, LidoDepois
<1>7. \A m, n \in 1..Len(O) :
        m <= n /\ O[m].evento.fluxo = O[n].evento.fluxo => O[m].evento.numero <= O[n].evento.numero
  BY <1>1, ObjetosEmOrdem
<1> HIDE DEF O, s, B
<1>8. PICK ate \in 0..Len(O) : entregues' = [entregues EXCEPT ![f] = @ \o SubSeq(O, 1, ate)]
  BY <1>1
<1> DEFINE velhas == entregues[f]
           todas == entregues'[f]
           L == Len(velhas)
<1>9. /\ velhas \in Seq(Entregas) /\ Len(todas) = L + ate /\ L \in Nat /\ ate \in Nat
      /\ \A i \in 1..L : todas[i] = velhas[i]
      /\ \A j \in 1..ate : todas[L + j] = O[j]
  <2>1. \A i \in 1..ate : O[i] \in Entregas
    BY <1>1, ElementOfSeq
  <2> DEFINE P == SubSeq(O, 1, ate)
  <2>2. P \in Seq(Entregas) /\ Len(P) = ate /\ \A j \in 1..ate : P[j] = O[j]
    BY <2>1, SubSeqProperties
  <2>3. velhas \in Seq(Entregas) /\ todas = velhas \o P
    BY <1>2, <1>8 DEF TiposDoFluxo
  <2> HIDE DEF P, velhas, todas
  <2>4. /\ Len(todas) = L + ate
        /\ \A i \in 1..L + ate : todas[i] = IF i <= L THEN velhas[i] ELSE P[i - L]
    <3>1. /\ Len(todas) = Len(velhas) + Len(P)
          /\ \A i \in 1..Len(velhas) + Len(P) :
               todas[i] = IF i <= Len(velhas) THEN velhas[i] ELSE P[i - Len(velhas)]
      BY <2>2, <2>3, ConcatProperties
    <3> QED
      BY <3>1, <2>2
  <2>5. L \in Nat /\ ate \in Nat
    BY <2>3, <1>1
  <2>6. \A j \in 1..ate : todas[L + j] = P[j]
    BY <2>4, <2>5
  <2> QED
    BY <2>2, <2>3, <2>4, <2>5, <2>6
<1>10. \A i \in 1..L : /\ Entregue(velhas[i].evento, f) /\ velhas[i].evento \in Eventos
                       /\ \A j \in 1..i : velhas[j].evento.fluxo = velhas[i].evento.fluxo
                            => velhas[j].evento.numero <= velhas[i].evento.numero
  <2>1. \A i \in 1..L : velhas[i] \in Entregas
    BY <1>9, ElementOfSeq
  <2> QED
    BY <2>1, <1>2 DEF Feitas, Entregas
<1> HIDE DEF velhas, todas, L
<1>11. \A j \in 1..ate : O[j] \in Entregas /\ j \in 1..Len(O)
  BY <1>1, ElementOfSeq
<1>12. ASSUME NEW i \in 1..Len(todas), NEW e, e = todas[i].evento
       PROVE  /\ Entregue(e, f)'
              /\ \A j \in 1..i : todas[j].evento.fluxo = todas[i].evento.fluxo
                   => todas[j].evento.numero <= todas[i].evento.numero
  <2>1. CASE i <= L
    <3>1. i \in 1..L /\ \A j \in 1..i : j \in 1..L
      BY <2>1, <1>9
    <3>2. todas[i] = velhas[i] /\ \A j \in 1..i : todas[j] = velhas[j]
      BY <3>1, <1>9
    <3>3. Entregue(e, f) /\ e \in Eventos
      BY <3>1, <3>2, <1>10, <1>12
    <3>4. Entregue(e, f)'
      BY <3>3, <1>4
    <3> QED
      BY <3>1, <3>2, <3>4, <1>10
  <2>2. CASE i > L
    <3> DEFINE n == i - L
    <3>1. n \in 1..ate /\ i = L + n
      BY <2>2, <1>9
    <3> HIDE DEF n
    <3>2. todas[i] = O[n] /\ n \in 1..Len(O)
      BY <3>1, <1>9, <1>11
    <3>3. ASSUME NEW j \in 1..i, todas[j].evento.fluxo = todas[i].evento.fluxo
          PROVE  todas[j].evento.numero <= todas[i].evento.numero
      <4>1. CASE j <= L
        <5>1. j \in 1..L /\ todas[j] = velhas[j]
          BY <4>1, <1>9
        <5> QED
          BY <5>1, <3>2, <3>3, <1>6, <1>10
      <4>2. CASE j > L
        <5> DEFINE m == j - L
        <5>1. m \in 1..ate /\ j = L + m /\ m <= n
          BY <4>2, <3>1, <1>9
        <5> HIDE DEF m
        <5>2. todas[j] = O[m] /\ m \in 1..Len(O)
          BY <5>1, <1>9, <1>11
        <5> QED
          BY <5>1, <5>2, <3>2, <3>3, <1>7
      <4> QED
        BY <4>1, <4>2, <1>9
    <3>4. Entregue(e, f)'
      BY <3>2, <1>5, <1>12
    <3> QED
      BY <3>3, <3>4
  <2> QED
    BY <2>1, <2>2, <1>9
<1>13. ASSUME NEW g \in Fluxo, g # f, NEW i \in 1..Len(entregues'[g]),
              NEW e, e = entregues'[g][i].evento
       PROVE  /\ Entregue(e, g)'
              /\ \A j \in 1..i : entregues'[g][j].evento.fluxo = e.fluxo
                                  => entregues'[g][j].evento.numero <= e.numero
  <2>1. entregues'[g] = entregues[g] /\ entregues[g] \in Seq(Entregas)
    BY <1>8, <1>13, <1>2 DEF TiposDoFluxo
  <2>2. e \in Eventos
    <3>1. entregues[g][i] \in Entregas
      BY <2>1, ElementOfSeq
    <3> QED
      BY <3>1, <2>1, <1>13 DEF Entregas
  <2>3. /\ Entregue(e, g)
        /\ \A j \in 1..i : entregues[g][j].evento.fluxo = e.fluxo
                             => entregues[g][j].evento.numero <= e.numero
    BY <2>1, <1>2, <1>13 DEF Feitas
  <2>4. Entregue(e, g)'
    BY <2>2, <2>3, <1>4
  <2> QED
    BY <2>1, <2>3, <2>4
<1>14. ASSUME NEW g \in Fluxo, NEW i \in 1..Len(entregues'[g]),
              NEW e, e = entregues'[g][i].evento
       PROVE  /\ Entregue(e, g)'
              /\ \A j \in 1..i : entregues'[g][j].evento.fluxo = e.fluxo
                                  => entregues'[g][j].evento.numero <= e.numero
  BY <1>12, <1>13, <1>14 DEF todas
<1> QED
  BY <1>14, FeitasDepois

LEMMA LePasso ==
  ASSUME FluxoInv, NEW f \in Fluxo, NEW k \in Nat, Le(f, k)
  PROVE  FluxoInv'
BY LeMuda, LeSobra, LeDonos, LeInteira, LeFeitas DEF FluxoInv

(* What was handed over stays so when nothing is read: streams not sent may *)
(* be, and the buffer may be cleared.                                      *)
LEMMA SemLeitura ==
  ASSUME FluxoInv, TiposDoFluxo', Comeco',
         UNCHANGED <<roteiro, recebido, entregues, currentChat>>,
         partialData' = partialData \/ partialData' = <<>>,
         \A g \in Fluxo : estado[g] # "ocioso" =>
           /\ estado'[g] # "ocioso" /\ alvo'[g] = alvo[g]
           /\ anteriores'[g] = anteriores[g] /\ idConversa'[g] = idConversa[g]
  PROVE  FluxoInv'
<1>1. /\ TiposDoFluxo /\ Comeco /\ Sobra /\ Donos /\ Inteira /\ Feitas
  BY DEF FluxoInv
<1>2. \A g : Proximo(g)' = Proximo(g)
  BY DEF Proximo, Passo
<1>3. \A e : (EhErro(e)' <=> EhErro(e)) /\ Corpo(e)' = Corpo(e)
  BY DEF EhErro, Corpo, Total
<1>4. Texto(<<>>) = {} /\ Len(<<>>) = 0
  BY DEF Texto
<1>5. \A i \in Texto(partialData)' : i \in Texto(partialData) /\ partialData' = partialData
  BY <1>4 DEF Texto
<1>6. \A i \in Texto(partialData) : partialData[i].de \in Eventos /\ partialData[i].de.fluxo \in Fluxo
                                    /\ estado[partialData[i].de.fluxo] # "ocioso"
  BY <1>1, TextoE DEF TiposDoFluxo, Sobra, Eventos
<1>7. \A c \in currentChat : c \in Fluxo /\ estado[c] # "ocioso"
  BY <1>1 DEF TiposDoFluxo, Comeco, Ninguem
<1>8. Sobra'
  <2>1. ASSUME NEW i \in Texto(partialData)', NEW e, e = partialData'[i].de
        PROVE  estado'[e.fluxo] # "ocioso" /\ e.numero <= Proximo(e.fluxo)'
    <3>1. i \in Texto(partialData) /\ e = partialData[i].de
      BY <1>5, <2>1
    <3> QED
      BY <3>1, <1>1, <1>2, <1>6 DEF Sobra
  <2>2. ASSUME NEW i \in Texto(partialData)'
        PROVE  LET e == partialData[i].de
               IN (estado[e.fluxo] # "ocioso" /\ e.numero <= Proximo(e.fluxo))'
    <3>1. PICK e : e = partialData'[i].de
      OBVIOUS
    <3>2. estado'[e.fluxo] # "ocioso" /\ e.numero <= Proximo(e.fluxo)'
      BY <3>1, <2>1
    <3> QED
      BY <3>1, <3>2 DEF Proximo, Passo
  <2>3. /\ EmOrdem(partialData)'
        /\ \A i \in 1..Len(partialData') - 1 : ~Corte(partialData', i)
        /\ partialData' # <<>> => Len(partialData') \in Texto(partialData)'
    <3>1. CASE partialData' = partialData
      BY <3>1, <1>1 DEF Sobra, EmOrdem, Texto
    <3>2. CASE partialData' = <<>>
      BY <3>2, <1>4 DEF EmOrdem, Texto
    <3> QED
      BY <3>1, <3>2
  <2>4. currentChat' = Ninguem => partialData' = <<>>
    BY <1>1 DEF Sobra
  <2> QED
    BY <2>2, <2>3, <2>4 DEF Sobra, Corte
<1>9. Donos'
  <2>1. ASSUME NEW c \in currentChat', NEW i \in Texto(partialData)',
               NEW g, g = partialData'[i].de.fluxo
        PROVE  IF idConversa'[c] = SemConversa THEN ~ComId(g)' ELSE alvo'[g] = idConversa'[c]
    <3>1. i \in Texto(partialData) /\ partialData' = partialData /\ c \in currentChat
      BY <1>5, <2>1
    <3> QED
      <4>1. IF idConversa[c] = SemConversa THEN ~ComId(g) ELSE alvo[g] = idConversa[c]
        BY <2>1, <3>1, <1>1 DEF Donos
      <4>2. g \in Fluxo /\ estado[g] # "ocioso"
        BY <2>1, <3>1, <1>6
      <4>3. c \in Fluxo /\ estado[c] # "ocioso"
        BY <3>1, <1>7
      <4>4. /\ anteriores'[g] = anteriores[g] /\ alvo'[g] = alvo[g]
            /\ idConversa'[c] = idConversa[c]
        BY <4>2, <4>3
      <4> QED
        BY <4>1, <4>4 DEF ComId
  <2> QED
    BY <2>1 DEF Donos
<1>10. Inteira'
  <2> SUFFICES ASSUME NEW c \in currentChat', NEW e \in Eventos, ~EhErro(e)',
                      Letras(partialData)' = Letras(Corpo(e))'
               PROVE  idConversa'[c] = alvo'[e.fluxo]
    BY DEF Inteira, Eventos
  <2>1. Letras(Corpo(e))' = Letras(Corpo(e))
    BY <1>3 DEF Letras
  <2>2. Letras(Corpo(e)) # {} /\ \A x \in Letras(Corpo(e)) : x.de = e
    BY <1>1, LetrasDoCorpo DEF TiposDoFluxo
  <2>3. Letras(<<>>) = {}
    BY DEF Letras
  <2>4. partialData' = partialData /\ Letras(partialData)' = Letras(partialData)
    BY <2>1, <2>2, <2>3 DEF Letras
  <2>5. Letras(partialData) = {partialData[i] : i \in Texto(partialData)}
    BY <1>1, TextoE DEF TiposDoFluxo
  <2>6. PICK i \in Texto(partialData) : partialData[i].de = e
    BY <2>1, <2>2, <2>4, <2>5
  <2>7. estado[e.fluxo] # "ocioso" /\ e.fluxo \in Fluxo
    BY <2>6, <1>6
  <2>8. idConversa[c] = alvo[e.fluxo] /\ c \in Fluxo /\ estado[c] # "ocioso"
    BY <2>1, <2>4, <1>1, <1>3, <1>7 DEF Inteira
  <2> QED
    BY <2>7, <2>8
<1>11. Feitas'
  <2>1. ASSUME NEW g \in Fluxo, NEW i \in 1..Len(entregues'[g]), NEW e, e = entregues'[g][i].evento
        PROVE  /\ Entregue(e, g)'
               /\ \A j \in 1..i : entregues'[g][j].evento.fluxo = e.fluxo
                                   => entregues'[g][j].evento.numero <= e.numero
    <3>1. entregues[g] \in Seq(Entregas) /\ i \in 1..Len(entregues[g])
      BY <1>1 DEF TiposDoFluxo
    <3>2. e \in Eventos /\ e.fluxo \in Fluxo
      <4>1. entregues[g][i] \in Entregas /\ e = entregues[g][i].evento
        BY <3>1, <2>1, ElementOfSeq
      <4> QED
        BY <4>1 DEF Entregas, Eventos
    <3>3. /\ Entregue(e, g)
          /\ \A j \in 1..i : entregues[g][j].evento.fluxo = e.fluxo
                              => entregues[g][j].evento.numero <= e.numero
      BY <2>1, <1>1 DEF Feitas
    <3>4. estado[g] # "ocioso"
      <4>1. entregues[g] # <<>>
        BY <3>1
      <4> QED
        BY <4>1, <1>1 DEF Comeco
    <3>5. \A x \in Texto(partialData)' : partialData'[x].de.fluxo = e.fluxo
                                         => e.numero <= partialData'[x].de.numero
      BY <3>3, <1>5 DEF Entregue
    <3>6. Entregue(e, g)'
      BY <3>2, <3>3, <3>4, <3>5, <1>2, <1>3 DEF Entregue, ComId
    <3> QED
      BY <3>3, <3>6
  <2> QED
    BY <2>1, FeitasDepois
<1> QED
  BY <1>8, <1>9, <1>10, <1>11 DEF FluxoInv

LEMMA EnviaFluxo ==
  ASSUME FluxoInv, NEW f \in Fluxo, NEW c \in Conversa, Envia(f, c)
  PROVE  FluxoInv'
<1>1. TiposDoFluxo /\ Comeco
  BY DEF FluxoInv
<1>2. /\ estado[f] = "ocioso"
      /\ \/ UNCHANGED <<anteriores, idConversa>>
         \/ anteriores' = [anteriores EXCEPT ![f] = "sem id"] /\ UNCHANGED idConversa
         \/ /\ anteriores' = [anteriores EXCEPT ![f] = "com id"]
            /\ idConversa' = [idConversa EXCEPT ![f] = c]
      /\ estado' = [estado EXCEPT ![f] = "lendo"]
      /\ alvo' = [alvo EXCEPT ![f] = c]
      /\ UNCHANGED <<roteiro, recebido, entregues, partialData, currentChat>>
  BY DEF Envia, vBuffer
<1>3. TiposDoFluxo'
  BY <1>1, <1>2 DEF TiposDoFluxo, Estados, Conhecidas
<1>4. \A g \in Fluxo : g # f => /\ estado'[g] = estado[g] /\ alvo'[g] = alvo[g]
                                /\ anteriores'[g] = anteriores[g] /\ idConversa'[g] = idConversa[g]
  BY <1>1, <1>2 DEF TiposDoFluxo
<1>5. /\ estado'[f] = "lendo" /\ alvo'[f] = c
      /\ \/ ~ComId(f)' /\ idConversa'[f] = SemConversa
         \/ idConversa'[f] = c
  <2>1. CASE UNCHANGED <<anteriores, idConversa>>
    BY <2>1, <1>1, <1>2 DEF TiposDoFluxo, Comeco, ComId
  <2>2. CASE anteriores' = [anteriores EXCEPT ![f] = "sem id"] /\ UNCHANGED idConversa
    BY <2>2, <1>1, <1>2 DEF TiposDoFluxo, Comeco, ComId
  <2>3. CASE idConversa' = [idConversa EXCEPT ![f] = c]
    BY <2>3, <1>1, <1>2 DEF TiposDoFluxo
  <2> QED
    BY <1>2, <2>1, <2>2, <2>3
<1>6. Comeco'
  <2>1. ASSUME NEW g \in Fluxo
        PROVE  /\ estado'[g] = "ocioso" =>
                    /\ alvo'[g] = SemConversa /\ idConversa'[g] = SemConversa /\ ~ComId(g)'
                    /\ entregues'[g] = <<>> /\ g \notin currentChat'
               /\ estado'[g] # "ocioso" => alvo'[g] \in Conversa
               /\ idConversa'[g] \in {SemConversa, alvo'[g]}
               /\ ComId(g)' => idConversa'[g] = alvo'[g]
    <3>1. CASE g = f
      BY <3>1, <1>5
    <3>2. CASE g # f
      BY <3>2, <1>1, <1>2, <1>4 DEF Comeco, ComId
    <3> QED
      BY <3>1, <3>2
  <2> QED
    BY <2>1 DEF Comeco
<1> QED
  BY <1>2, <1>3, <1>4, <1>6, SemLeitura

LEMMA OutrosPassos ==
  ASSUME FluxoInv, NEW f \in Fluxo,
         Termina(f) \/ RespostaHTTP(f) \/ FalhaRede(f) \/ Para(f)
  PROVE  FluxoInv'
<1>1. TiposDoFluxo /\ Comeco
  BY DEF FluxoInv
<1>2. /\ UNCHANGED <<roteiro, alvo, anteriores, idConversa, recebido, entregues, currentChat>>
      /\ partialData' = partialData \/ partialData' = <<>>
      /\ estado' \in [Fluxo -> Estados]
      /\ \A g \in Fluxo : estado'[g] = "ocioso" <=> estado[g] = "ocioso"
  <2>1. CASE Termina(f)
    BY <2>1, <1>1 DEF Termina, TiposDoFluxo, Estados, vBuffer
  <2>2. CASE RespostaHTTP(f)
    BY <2>2, <1>1 DEF RespostaHTTP, TiposDoFluxo, Estados, vBuffer
  <2>3. CASE FalhaRede(f)
    BY <2>3, <1>1 DEF FalhaRede, TiposDoFluxo, Estados, vBuffer
  <2>4. CASE Para(f)
    BY <2>4, <1>1 DEF Para, TiposDoFluxo, Estados
  <2> QED
    BY <2>1, <2>2, <2>3, <2>4
<1>3. TiposDoFluxo'
  <2>1. partialData' \in Seq(Tokens)
    <3>1. partialData \in Seq(Tokens) /\ <<>> \in Seq(Tokens)
      BY <1>1, EmptySeq DEF TiposDoFluxo
    <3> QED
      BY <3>1, <1>2
  <2>2. currentChat' = Ninguem \/ \E c \in Fluxo : currentChat' = {c}
    BY <1>1, <1>2 DEF TiposDoFluxo
  <2> QED
    BY <1>1, <1>2, <2>1, <2>2 DEF TiposDoFluxo, Ninguem
<1>4. Comeco'
  BY <1>1, <1>2 DEF Comeco, ComId
<1> QED
  BY <1>2, <1>3, <1>4, SemLeitura

LEMMA InicioOK == Init => FluxoInv
<1> SUFFICES ASSUME Init PROVE FluxoInv
  OBVIOUS
<1>1. TiposDoFluxo
  BY DEF Init, TiposDoFluxo, Estados, Conhecidas, Ninguem
<1>2. Comeco
  BY DEF Init, Comeco, Ninguem, ComId
<1>3. Texto(<<>>) = {} /\ Len(<<>>) = 0
  BY DEF Texto
<1>4. Sobra /\ Donos /\ Inteira
  BY <1>3 DEF Init, Sobra, Donos, Inteira, EmOrdem, Ninguem
<1>5. Feitas
  BY DEF Init, Feitas
<1> QED
  BY <1>1, <1>2, <1>4, <1>5 DEF FluxoInv

LEMMA PassoOK == FluxoInv /\ [Next]_vars => FluxoInv'
<1> SUFFICES ASSUME FluxoInv, [Next]_vars PROVE FluxoInv'
  OBVIOUS
<1>1. ASSUME NEW f \in Fluxo, NEW c \in Conversa, Envia(f, c)
      PROVE  FluxoInv'
  BY <1>1, EnviaFluxo
<1>2. ASSUME NEW f \in Fluxo, NEW k \in 1..Tamanho(f), Le(f, k)
      PROVE  FluxoInv'
  <2>1. k \in Nat
    OBVIOUS
  <2> QED
    BY <1>2, <2>1, LePasso
<1>3. ASSUME NEW f \in Fluxo, Termina(f) \/ RespostaHTTP(f) \/ FalhaRede(f) \/ Para(f)
      PROVE  FluxoInv'
  BY <1>3, OutrosPassos
<1>4. CASE UNCHANGED vars
  <2>1. UNCHANGED <<roteiro, estado, alvo, anteriores, idConversa, recebido, entregues,
                    partialData, currentChat>>
    BY <1>4 DEF vars, vTela, vBuffer
  <2>2. TiposDoFluxo' /\ Comeco'
    BY <2>1 DEF FluxoInv, TiposDoFluxo, Comeco, ComId, Ninguem
  <2> QED
    BY <2>1, <2>2, SemLeitura
<1> QED
  BY <1>1, <1>2, <1>3, <1>4 DEF Next

LEMMA EmOrdemSegue == FluxoInv => EntregaEmOrdem
<1> SUFFICES ASSUME FluxoInv PROVE EntregaEmOrdem
  OBVIOUS
<1>1. ASSUME NEW f \in Fluxo
      PROVE  DOMAIN entregues[f] = 1..Len(entregues[f])
  BY DEF FluxoInv, TiposDoFluxo
<1> QED
  BY <1>1 DEF FluxoInv, Comeco, Feitas, Entregue, EntregaEmOrdem

(* Whatever the chunks and the other streams, answers come in order, and an *)
(* answer of another chat is never taken for one of this.                  *)
THEOREM EntregaSempreEmOrdem == Spec => []EntregaEmOrdem
<1>1. Spec => []FluxoInv
  BY InicioOK, PassoOK, PTL DEF Spec
<1> QED
  BY <1>1, EmOrdemSegue, PTL

-----------------------------------------------------------------------------
(* Where the events of a stream are.                                       *)

Marca(f, m) == Passo(f) * m

LEMMA MarcaE ==
  ASSUME roteiro \in Roteiros, NEW f \in Fluxo
  PROVE  /\ Passo(f) \in Nat /\ Passo(f) >= 3 /\ Passo(f) = Len(roteiro[f].corpo) + 2
         /\ Marca(f, 0) = 0
         /\ \A m \in Nat : Marca(f, m) \in Nat /\ Marca(f, m + 1) = Marca(f, m) + Passo(f)
         /\ \A m, n \in Nat : m < n => Marca(f, m) + Passo(f) <= Marca(f, n)
<1>1. PICK p \in Nat : p = Passo(f) /\ p >= 3 /\ p = Len(roteiro[f].corpo) + 2
  <2>1. Passo(f) \in Nat /\ Passo(f) >= 3 /\ Passo(f) = Len(roteiro[f].corpo) + 2
    BY CorpoE, PassoE
  <2> QED
    BY <2>1
<1>2. \A m : Marca(f, m) = p * m
  BY <1>1 DEF Marca
<1>3. p * 0 = 0
  OBVIOUS
<1>4. ASSUME NEW m \in Nat
      PROVE  p * m \in Nat /\ p * (m + 1) = p * m + p
  OBVIOUS
<1>5. ASSUME NEW m \in Nat, NEW n \in Nat, m < n
      PROVE  p * m + p <= p * n
  BY <1>1, <1>5, Multiplica
<1> QED
  BY <1>1, <1>2, <1>3, <1>4, <1>5

LEMMA MarcaDivide ==
  ASSUME roteiro \in Roteiros, NEW f \in Fluxo, NEW a \in Nat
  PROVE  /\ a \div Passo(f) \in Nat
         /\ Marca(f, a \div Passo(f)) <= a /\ a < Marca(f, a \div Passo(f)) + Passo(f)
         /\ \A m \in Nat : Marca(f, m) <= a <=> m <= a \div Passo(f)
<1>1. Passo(f) \in Nat \ {0} /\ Passo(f) >= 3
  BY MarcaE
<1>2. PICK q \in Nat : q = a \div Passo(f) /\ a % Passo(f) \in 0..Passo(f) - 1
                       /\ a = Marca(f, q) + (a % Passo(f))
  BY <1>1, Divide DEF Marca
<1>3. /\ \A m \in Nat : Marca(f, m) \in Nat
      /\ \A m, n \in Nat : m < n => Marca(f, m) + Passo(f) <= Marca(f, n)
  BY MarcaE
<1>4. Marca(f, q) \in Nat /\ Marca(f, q) <= a /\ a < Marca(f, q) + Passo(f)
  BY <1>1, <1>2, <1>3
<1>5. ASSUME NEW m \in Nat
      PROVE  Marca(f, m) <= a <=> m <= q
  <2>1. CASE m = q
    BY <2>1, <1>4, <1>2
  <2>2. CASE m < q
    <3>1. Marca(f, m) + Passo(f) <= Marca(f, q) /\ Marca(f, m) \in Nat
      BY <2>2, <1>2, <1>3
    <3> QED
      BY <2>2, <3>1, <1>1, <1>4
  <2>3. CASE q < m
    <3>1. Marca(f, q) + Passo(f) <= Marca(f, m) /\ Marca(f, m) \in Nat
      BY <2>3, <1>2, <1>3
    <3> QED
      BY <2>3, <3>1, <1>1, <1>4
  <2> QED
    BY <2>1, <2>2, <2>3
<1> QED
  BY <1>2, <1>4, <1>5

LEMMA EnviadoNo ==
  ASSUME roteiro \in Roteiros, NEW f \in Fluxo, NEW x \in Nat, NEW j \in 1..Passo(f)
  PROVE  Enviado(f, Marca(f, x) + j) =
           IF j <= Passo(f) - 2 THEN Corpo(Evento(f, x + 1))[j] ELSE NovaLinha
<1>1. PICK p \in Nat : p = Passo(f) /\ p >= 3 /\ p = Len(roteiro[f].corpo) + 2
  BY MarcaE
<1>2. PICK a \in Nat : a = Marca(f, x)
  BY MarcaE
<1>3. a = p * x /\ Marca(f, x + 1) = a + p
  BY <1>1, <1>2, MarcaE DEF Marca
<1>4. PICK i \in Nat : i = a + j /\ i - 1 \in Nat /\ a <= i - 1 /\ i - 1 < a + p
  BY <1>1
<1>5. (i - 1) \div p \in Nat /\ \A m \in Nat : Marca(f, m) <= i - 1 <=> m <= (i - 1) \div p
  BY <1>1, <1>4, MarcaDivide
<1>6. PICK q \in Nat : q = (i - 1) \div p
  BY <1>5
<1>7. x <= q /\ ~(x + 1 <= q)
  <2>1. x + 1 \in Nat /\ ~(a + p <= i - 1)
    BY <1>1, <1>4
  <2> QED
    BY <2>1, <1>2, <1>3, <1>4, <1>5, <1>6
<1>8. q = x
  BY <1>7
<1>9. PICK z \in Nat : z = (i - 1) % p /\ i - 1 = p * x + z
  <2>1. p \in Nat \ {0}
    BY <1>1
  <2>2. (i - 1) % p \in 0..p - 1 /\ i - 1 = p * ((i - 1) \div p) + ((i - 1) % p)
    BY <2>1, <1>4, Divide
  <2>3. (i - 1) \div p = x
    BY <1>6, <1>8
  <2>4. (i - 1) % p \in Nat /\ i - 1 = p * x + ((i - 1) % p)
    BY <2>2, <2>3
  <2> QED
    BY <2>4
<1>10. z + 1 = j
  BY <1>3, <1>4, <1>9
<1>11. PICK e \in Eventos : e = Evento(f, x + 1) /\ e.fluxo = f
  <2>1. Evento(f, x + 1) \in Eventos /\ Evento(f, x + 1).fluxo = f
    BY DEF Evento, Eventos
  <2> QED
    BY <2>1
<1>12. Enviado(f, i) = (Corpo(e) \o Delimitador)[j]
  BY <1>1, <1>6, <1>8, <1>9, <1>10, <1>11 DEF Enviado
<1>13. Corpo(e) \in Seq(Tokens) /\ Len(Corpo(e)) = p - 2
  BY <1>1, <1>11, LetrasDoCorpo
<1>14. Delimitador \in Seq(Tokens) /\ Len(Delimitador) = 2 /\ \A y \in 1..2 : Delimitador[y] = NovaLinha
  BY DEF Delimitador, Tokens
<1>15. (Corpo(e) \o Delimitador)[j] =
         IF j <= Len(Corpo(e)) THEN Corpo(e)[j] ELSE Delimitador[j - Len(Corpo(e))]
  <2>1. j \in 1..Len(Corpo(e)) + Len(Delimitador)
    BY <1>1, <1>13, <1>14
  <2> QED
    BY <2>1, <1>13, <1>14, ConcatProperties
<1>16. j > p - 2 => j - (p - 2) \in 1..2
  BY <1>1
<1>17. Enviado(f, i) = IF j <= p - 2 THEN Corpo(e)[j] ELSE NovaLinha
  <2>1. j \in Nat
    OBVIOUS
  <2> QED
    BY <2>1, <1>1, <1>12, <1>13, <1>14, <1>15, <1>16
<1> QED
  BY <1>1, <1>2, <1>4, <1>11, <1>17

LEMMA CorpoDe ==
  ASSUME roteiro \in Roteiros, NEW f \in Fluxo, NEW x \in Nat
  PROVE  LET e == Evento(f, x + 1)
         IN  /\ e \in Eventos /\ Corpo(e) \in Seq(Tokens) /\ Len(Corpo(e)) = Passo(f) - 2
             /\ \A j \in 1..Passo(f) - 2 : /\ Corpo(e)[j].parte \in {"texto", "branco"}
                                           /\ Corpo(e)[j] # NovaLinha
                                           /\ Corpo(e)[j].k = j /\ Corpo(e)[j].de = e
             /\ Corpo(e)[1].parte = "texto" /\ Corpo(e)[Passo(f) - 2].parte = "texto"
<1> DEFINE e == Evento(f, x + 1)
           c == roteiro[f].corpo
<1>1. e \in Eventos /\ e.fluxo = f
  BY DEF Evento, Eventos
<1>2. Corpo(e) \in Seq(Tokens) /\ Len(Corpo(e)) = Len(c) /\ Passo(f) = Len(c) + 2
  BY <1>1, LetrasDoCorpo, MarcaE
<1>3. c \in Seq({"texto", "branco"}) /\ Len(c) \in Nat \ {0} /\ c[1] = "texto" /\ c[Len(c)] = "texto"
  BY CorpoE, RoteirosAssumption DEF Last
<1>4. Corpo(e) = [k \in 1..Len(c) |-> Token(c[k], e, k)]
  BY <1>1, <1>3 DEF Corpo
<1> HIDE DEF e, c
<1>5. ASSUME NEW j \in 1..Len(c)
      PROVE  /\ Corpo(e)[j].parte = c[j] /\ c[j] \in {"texto", "branco"}
             /\ Corpo(e)[j].k = j /\ Corpo(e)[j].de = e
  <2>1. Corpo(e)[j] = Token(c[j], e, j)
    BY <1>4
  <2>2. c[j] \in {"texto", "branco"}
    BY <1>3, ElementOfSeq
  <2> QED
    BY <2>1, <2>2 DEF Token
<1>6. NovaLinha.parte = "nl"
  BY DEF NovaLinha, Token
<1>7. Passo(f) - 2 = Len(c) /\ 1 \in 1..Len(c) /\ Len(c) \in 1..Len(c)
  BY <1>2, <1>3
<1>8. PICK w \in Nat \ {0} : w = Len(c) /\ w = Passo(f) - 2
  BY <1>3, <1>7
<1>9. \A j \in 1..w : /\ Corpo(e)[j].parte \in {"texto", "branco"} /\ Corpo(e)[j] # NovaLinha
                       /\ Corpo(e)[j].k = j /\ Corpo(e)[j].de = e
  <2> SUFFICES ASSUME NEW j \in 1..w
               PROVE  /\ Corpo(e)[j].parte \in {"texto", "branco"} /\ Corpo(e)[j] # NovaLinha
                      /\ Corpo(e)[j].k = j /\ Corpo(e)[j].de = e
    OBVIOUS
  <2>1. j \in 1..Len(c)
    BY <1>8
  <2>2. /\ Corpo(e)[j].parte \in {"texto", "branco"}
        /\ Corpo(e)[j].k = j /\ Corpo(e)[j].de = e
    BY <1>5, <2>1
  <2>3. Corpo(e)[j] # NovaLinha
    BY <1>6, <2>2
  <2> QED
    BY <2>2, <2>3
<1>10. Corpo(e)[1].parte = "texto" /\ Corpo(e)[w].parte = "texto"
  BY <1>3, <1>5, <1>7, <1>8
<1>11. e \in Eventos /\ Corpo(e) \in Seq(Tokens) /\ Len(Corpo(e)) = w
  BY <1>1, <1>2, <1>8
<1>12. Passo(f) - 2 = w
  BY <1>8
<1>13. /\ e \in Eventos /\ Corpo(e) \in Seq(Tokens) /\ Len(Corpo(e)) = Passo(f) - 2
       /\ \A j \in 1..Passo(f) - 2 : /\ Corpo(e)[j].parte \in {"texto", "branco"}
                                      /\ Corpo(e)[j] # NovaLinha
                                      /\ Corpo(e)[j].k = j /\ Corpo(e)[j].de = e
       /\ Corpo(e)[1].parte = "texto" /\ Corpo(e)[Passo(f) - 2].parte = "texto"
  BY <1>9, <1>10, <1>11, <1>12, Zenon
<1> QED
  BY <1>13, Zenon DEF e

(* The same of the event with number y.                                    *)
LEMMA CorpoDoEvento ==
  ASSUME roteiro \in Roteiros, NEW f \in Fluxo, NEW y \in Nat \ {0}
  PROVE  /\ Corpo(Evento(f, y)) \in Seq(Tokens) /\ Len(Corpo(Evento(f, y))) = Passo(f) - 2
         /\ \A j \in 1..Passo(f) - 2 : /\ Corpo(Evento(f, y))[j].k = j
                                        /\ Corpo(Evento(f, y))[j].de = Evento(f, y)
         /\ Corpo(Evento(f, y))[Passo(f) - 2].parte = "texto"
<1>1. PICK x \in Nat : x + 1 = y
  <2>1. y - 1 \in Nat /\ (y - 1) + 1 = y
    OBVIOUS
  <2> QED
    BY <2>1
<1>2. /\ Corpo(Evento(f, x + 1)) \in Seq(Tokens) /\ Len(Corpo(Evento(f, x + 1))) = Passo(f) - 2
      /\ \A j \in 1..Passo(f) - 2 : /\ Corpo(Evento(f, x + 1))[j].k = j
                                     /\ Corpo(Evento(f, x + 1))[j].de = Evento(f, x + 1)
      /\ Corpo(Evento(f, x + 1))[Passo(f) - 2].parte = "texto"
  BY CorpoDe, SMTT(40)
<1> QED
  BY <1>1, <1>2, Zenon

(* The delimiter is sent at the end of each event and nowhere else.        *)
LEMMA OndeCorta ==
  ASSUME roteiro \in Roteiros, NEW f \in Fluxo, NEW x \in Nat, NEW j \in 1..Passo(f)
  PROVE  LET i == Marca(f, x) + j
         IN  Enviado(f, i) = NovaLinha /\ Enviado(f, i + 1) = NovaLinha <=> j = Passo(f) - 1
<1>1. PICK p \in Nat : p = Passo(f) /\ p >= 3
  BY MarcaE
<1>2. PICK a \in Nat : a = Marca(f, x) /\ Marca(f, x + 1) = a + p
  BY <1>1, MarcaE
<1>3. \A y \in Nat : \A z \in 1..p : Enviado(f, Marca(f, y) + z) =
                       IF z <= p - 2 THEN Corpo(Evento(f, y + 1))[z] ELSE NovaLinha
  BY <1>1, EnviadoNo
<1>4. \A y \in Nat : \A z \in 1..p - 2 : Corpo(Evento(f, y + 1))[z] # NovaLinha
  BY <1>1, CorpoDe
<1>5. \A y \in Nat : \A z \in 1..p : Enviado(f, Marca(f, y) + z) = NovaLinha <=> z > p - 2
  <2> SUFFICES ASSUME NEW y \in Nat, NEW z \in 1..p
               PROVE  Enviado(f, Marca(f, y) + z) = NovaLinha <=> z > p - 2
    OBVIOUS
  <2>1. z <= p - 2 => z \in 1..p - 2
    BY <1>1
  <2>2. ~(z <= p - 2) <=> z > p - 2
    BY <1>1
  <2> QED
    BY <2>1, <2>2, <1>3, <1>4
<1>6. CASE j < p
  <2>1. j + 1 \in 1..p /\ (a + j) + 1 = a + (j + 1)
    BY <1>6, <1>1, <1>2
  <2>2. Enviado(f, a + j) = NovaLinha <=> j > p - 2
    BY <1>2, <1>5, <1>1
  <2>3. Enviado(f, a + (j + 1)) = NovaLinha <=> j + 1 > p - 2
    BY <2>1, <1>2, <1>5
  <2>4. (j > p - 2 /\ j + 1 > p - 2) <=> j = p - 1
    BY <1>6, <1>1
  <2> QED
    BY <2>1, <2>2, <2>3, <2>4, <1>1, <1>2
<1>7. CASE j = p
  <2>1. (a + j) + 1 = Marca(f, x + 1) + 1 /\ x + 1 \in Nat /\ 1 \in 1..p /\ ~(1 > p - 2)
    BY <1>7, <1>1, <1>2
  <2>2. ~(Enviado(f, Marca(f, x + 1) + 1) = NovaLinha)
    BY <2>1, <1>5
  <2>3. j # p - 1
    BY <1>7, <1>1
  <2> QED
    BY <2>1, <2>2, <2>3, <1>1, <1>2
<1> QED
  BY <1>1, <1>6, <1>7

-----------------------------------------------------------------------------
(* A sequence in order is the only one of its numbers.                     *)

LEMMA OrdemUnica ==
  ASSUME NEW N \in Nat, NEW g, NEW S,
         \A n \in 1..N : g[n] \in Nat,
         \A m, n \in 1..N : m < n => g[m] < g[n],
         \A n \in 1..N : g[n] \in S,
         \A i \in S : \E n \in 1..N : i = g[n]
  PROVE  Cardinality(S) = N /\ \A n \in 1..N : Ordem(S)[n] = g[n]
<1> DEFINE h == [n \in 1..N |-> g[n]]
<1>1. IsFiniteSet(1..N) /\ Cardinality(1..N) = N
  BY FS_Interval
<1>2. \A m, n \in 1..N : g[m] = g[n] => m = n
  <2> SUFFICES ASSUME NEW m \in 1..N, NEW n \in 1..N, g[m] = g[n], m # n
               PROVE  FALSE
    OBVIOUS
  <2>1. m < n \/ n < m
    OBVIOUS
  <2>2. g[m] \in Nat /\ g[n] \in Nat
    OBVIOUS
  <2> QED
    BY <2>1, <2>2
<1>3. h \in Bijection(1..N, S)
  BY <1>2 DEF Bijection, Injection, Surjection, IsInjective
<1>4. IsFiniteSet(S) /\ Cardinality(S) = N
  BY <1>1, <1>3, FS_Bijection DEF ExistsBijection
<1>5. S \in SUBSET Nat
  OBVIOUS
<1> HIDE DEF h
<1>6. ASSUME NEW n \in 1..N
      PROVE  Ordem(S)[n] = g[n]
  <2>1. Ordem(S)[n] = CHOOSE i \in S : Cardinality({j \in S : j <= i}) = n
    BY <1>4 DEF Ordem
  <2>2. ASSUME NEW m \in 1..N
        PROVE  Cardinality({j \in S : j <= g[m]}) = m
    <3> DEFINE A == {j \in S : j <= g[m]}
               b == [x \in 1..m |-> g[x]]
    <3>1. m \in Nat /\ 1..m \in SUBSET (1..N)
      OBVIOUS
    <3>2. \A x \in 1..N : g[x] <= g[m] <=> x <= m
      <4> SUFFICES ASSUME NEW x \in 1..N
                   PROVE  g[x] <= g[m] <=> x <= m
        OBVIOUS
      <4>1. x < m \/ x = m \/ m < x
        OBVIOUS
      <4>2. g[m] \in Nat /\ g[x] \in Nat
        OBVIOUS
      <4> QED
        BY <4>1, <4>2
    <3>3. A = {g[x] : x \in 1..m}
      <4>1. \A x \in 1..N : x <= m <=> x \in 1..m
        OBVIOUS
      <4> QED
        BY <3>1, <3>2, <4>1
    <3>4. b \in Bijection(1..m, A)
      BY <3>1, <3>3, <1>2 DEF Bijection, Injection, Surjection, IsInjective
    <3>5. IsFiniteSet(1..m) /\ Cardinality(1..m) = m
      BY <3>1, FS_Interval
    <3> HIDE DEF A, b
    <3>6. Cardinality(A) = m
      BY <3>4, <3>5, FS_Bijection DEF ExistsBijection
    <3> QED
      BY <3>6 DEF A
  <2>3. \A i \in S : Cardinality({j \in S : j <= i}) = n <=> i = g[n]
    BY <2>2
  <2>4. g[n] \in S
    OBVIOUS
  <2> QED
    BY <2>1, <2>3, <2>4
<1> QED
  BY <1>4, <1>6

-----------------------------------------------------------------------------
(* Where a stream ends, and the letters in a part of it.                   *)

LEMMA TamanhoE ==
  ASSUME roteiro \in Roteiros, NEW f \in Fluxo
  PROVE  /\ Tamanho(f) \in Nat /\ Total(f) \in Nat
         /\ \A n \in Nat : /\ FimDoCorpo(f, n + 1) = Marca(f, n) + Passo(f) - 2
                           /\ FimDoCorpo(f, n + 1) <= Tamanho(f) => n + 1 <= Total(f)
                           /\ Marca(f, n) + Passo(f) - 1 # Tamanho(f)
                           /\ EhErro(Evento(f, n + 1)) => /\ n + 1 = Total(f)
                                                          /\ FimDoCorpo(f, n + 1) = Tamanho(f)
         /\ \A n \in Nat \ {0} : EhErro(Evento(f, Total(f))) /\ Total(f) <= n /\ n <= Total(f)
                                   => EhErro(Evento(f, n))
<1>1. PICK p \in Nat : p = Passo(f) /\ p >= 3 /\ p = Len(roteiro[f].corpo) + 2
  BY MarcaE
<1>2. PICK v \in Nat : v = roteiro[f].eventos
  BY CorpoE
<1>3. roteiro[f].erro \in BOOLEAN
  BY CorpoE
<1>4. /\ \A m \in Nat : Marca(f, m) \in Nat /\ Marca(f, m + 1) = Marca(f, m) + p
      /\ \A m, n \in Nat : m < n => Marca(f, m) + p <= Marca(f, n)
  BY <1>1, MarcaE
<1>5. Tamanho(f) = Marca(f, v) + (IF roteiro[f].erro THEN p - 2 ELSE 0)
  <2>1. Tamanho(f) = Marca(f, v) + (IF roteiro[f].erro THEN Len(roteiro[f].corpo) ELSE 0)
    BY <1>2 DEF Tamanho, Marca
  <2>2. Len(roteiro[f].corpo) = p - 2
    BY <1>1, CorpoE
  <2> QED
    BY <2>1, <2>2
<1>6. Total(f) = v + (IF roteiro[f].erro THEN 1 ELSE 0)
  BY <1>2 DEF Total
<1>7. Marca(f, v) \in Nat /\ Marca(f, v + 1) = Marca(f, v) + p
  BY <1>4
<1>8. Tamanho(f) \in Nat /\ Total(f) \in Nat
  BY <1>1, <1>5, <1>6, <1>7, SMTT(40)
<1>9. ASSUME NEW n \in Nat
      PROVE  /\ FimDoCorpo(f, n + 1) = Marca(f, n) + p - 2
             /\ FimDoCorpo(f, n + 1) <= Tamanho(f) => n + 1 <= Total(f)
             /\ Marca(f, n) + p - 1 # Tamanho(f)
             /\ EhErro(Evento(f, n + 1)) => /\ n + 1 = Total(f)
                                            /\ FimDoCorpo(f, n + 1) = Tamanho(f)
  <2>1. PICK a \in Nat : a = Marca(f, n) /\ Marca(f, n + 1) = a + p
    BY <1>4
  <2>2. FimDoCorpo(f, n + 1) = Marca(f, n + 1) - 2
    <3>1. Len(Delimitador) = 2
      BY DEF Delimitador
    <3> QED
      BY <3>1 DEF FimDoCorpo, Marca
  <2>3. FimDoCorpo(f, n + 1) = a + p - 2
    BY <2>1, <2>2
  <2>4. n < v \/ n = v \/ v < n
    OBVIOUS
  <2>5. PICK b \in Nat : b = Marca(f, v)
    BY <1>7
  <2>51. (n < v => a + p <= b) /\ (v < n => b + p <= a) /\ (n = v => a = b)
    BY <1>4, <2>1, <2>5
  <2>52. Tamanho(f) = b \/ (Tamanho(f) = b + p - 2 /\ Total(f) = v + 1)
    <3>1. CASE roteiro[f].erro
      BY <3>1, <1>1, <1>5, <1>6, <2>5
    <3>2. CASE ~roteiro[f].erro
      BY <3>2, <1>1, <1>5, <2>5
    <3> QED
      BY <3>1, <3>2
  <2>53. Total(f) >= v /\ Tamanho(f) <= b + p - 2
    BY <1>1, <1>3, <1>5, <1>6, <2>5
  <2>6. a + p - 2 <= Tamanho(f) => n + 1 <= Total(f)
    <3>1. CASE n < v
      BY <3>1, <2>53, <1>8
    <3>2. CASE n = v
      BY <3>2, <1>1, <2>51, <2>52
    <3>3. CASE v < n
      BY <3>3, <1>1, <1>8, <2>51, <2>53, SMTT(40)
    <3> QED
      BY <2>4, <3>1, <3>2, <3>3
  <2>7. a + p - 1 # Tamanho(f)
    <3>1. CASE n < v
      BY <3>1, <1>1, <2>51, <2>52
    <3>2. CASE n = v
      BY <3>2, <1>1, <2>51, <2>52
    <3>3. CASE v < n
      BY <3>3, <1>1, <1>8, <2>51, <2>53, SMTT(40)
    <3> QED
      BY <2>4, <3>1, <3>2, <3>3
  <2>8. EhErro(Evento(f, n + 1)) <=> roteiro[f].erro /\ n + 1 = Total(f)
    BY DEF EhErro, Evento
  <2>9. roteiro[f].erro /\ n + 1 = Total(f) => a + p - 2 = Tamanho(f)
    <3>1. roteiro[f].erro /\ n + 1 = Total(f) => n = v
      BY <1>6
    <3> QED
      BY <3>1, <1>5, <1>7, <1>1, <2>1
  <2> QED
    BY <2>1, <2>3, <2>6, <2>7, <2>8, <2>9
<1>10. \A n \in Nat \ {0} : EhErro(Evento(f, Total(f))) /\ Total(f) <= n /\ n <= Total(f)
                               => EhErro(Evento(f, n))
  BY <1>8 DEF EhErro, Evento
<1> QED
  BY <1>1, <1>8, <1>9, <1>10

LetrasEm(f, x, y) == {Enviado(f, i) : i \in {j \in x + 1..y : Enviado(f, j).parte = "texto"}}

(* Where the body of event n + 1 ends, in numbers.                         *)
LEMMA FimE ==
  ASSUME roteiro \in Roteiros, NEW f \in Fluxo, NEW n \in Nat
  PROVE  /\ Marca(f, n) \in Nat /\ Passo(f) \in Nat /\ Passo(f) >= 3
         /\ FimDoCorpo(f, n + 1) = Marca(f, n) + Passo(f) - 2
         /\ Marca(f, n + 1) = Marca(f, n) + Passo(f)
<1>1. Marca(f, n) \in Nat /\ Passo(f) \in Nat /\ Passo(f) >= 3
  BY MarcaE
<1>2. Marca(f, n + 1) = Marca(f, n) + Passo(f)
  BY MarcaE
<1>3. FimDoCorpo(f, n + 1) = Marca(f, n) + Passo(f) - 2
  BY TamanhoE
<1> QED
  BY <1>1, <1>2, <1>3, Zenon

(* Each letter is sent once, in the body it is of.                         *)
LEMMA OndeEsta ==
  ASSUME roteiro \in Roteiros, NEW f \in Fluxo, NEW i \in Nat \ {0}
  PROVE  /\ Enviado(f, i) \in Tokens
         /\ \E x \in Nat, j \in 1..Passo(f) :
              /\ i = Marca(f, x) + j
              /\ Enviado(f, i).parte = "texto" =>
                   /\ j <= Passo(f) - 2
                   /\ Enviado(f, i) = Corpo(Evento(f, x + 1))[j]
                   /\ Enviado(f, i).de = Evento(f, x + 1) /\ Enviado(f, i).k = j
<1>1. PICK p \in Nat : p = Passo(f) /\ p >= 3
  BY MarcaE
<1>2. i - 1 \in Nat
  OBVIOUS
<1>3. PICK x \in Nat : Marca(f, x) <= i - 1 /\ i - 1 < Marca(f, x) + p
  BY <1>1, <1>2, MarcaDivide
<1>4. Marca(f, x) \in Nat
  BY MarcaE
<1>5. PICK j \in 1..p : i = Marca(f, x) + j
  <2>1. i - Marca(f, x) \in 1..p /\ i = Marca(f, x) + (i - Marca(f, x))
    BY <1>1, <1>3, <1>4
  <2> QED
    BY <2>1
<1>6. Enviado(f, i) = IF j <= p - 2 THEN Corpo(Evento(f, x + 1))[j] ELSE NovaLinha
  BY <1>1, <1>5, EnviadoNo
<1>7. NovaLinha.parte = "nl"
  BY DEF NovaLinha, Token
<1>8. j <= p - 2 => /\ Corpo(Evento(f, x + 1))[j].k = j
                    /\ Corpo(Evento(f, x + 1))[j].de = Evento(f, x + 1)
  <2>1. j <= p - 2 => j \in 1..p - 2
    BY <1>1
  <2> QED
    BY <2>1, <1>1, CorpoDe
<1> QED
  BY <1>1, <1>5, <1>6, <1>7, <1>8, EnviadoE

LEMMA MesmaLetra ==
  ASSUME roteiro \in Roteiros, NEW f \in Fluxo, NEW i \in Nat \ {0}, NEW x \in Nat,
         Enviado(f, i) = Corpo(Evento(f, x + 1))[Passo(f) - 2]
  PROVE  i = FimDoCorpo(f, x + 1)
<1>1. PICK p \in Nat : p = Passo(f) /\ p >= 3
  BY MarcaE
<1>2. p - 2 \in 1..p - 2
  BY <1>1
<1>3. /\ Enviado(f, i).parte = "texto" /\ Enviado(f, i).k = p - 2
      /\ Enviado(f, i).de = Evento(f, x + 1)
  BY <1>1, <1>2, CorpoDe
<1>4. PICK y \in Nat, j \in 1..p : /\ i = Marca(f, y) + j
                                   /\ Evento(f, x + 1) = Evento(f, y + 1) /\ p - 2 = j
  BY <1>1, <1>3, OndeEsta
<1>5. x + 1 = y + 1
  BY <1>4 DEF Evento
<1>6. x = y
  BY <1>5
<1>7. FimDoCorpo(f, x + 1) = Marca(f, x) + p - 2 /\ Marca(f, x) \in Nat
  BY <1>1, FimE
<1> QED
  BY <1>1, <1>4, <1>6, <1>7

(* Where a chunk ends badly.                                               *)
LEMMA CorteRuimE ==
  ASSUME roteiro \in Roteiros, NEW f \in Fluxo, NEW m \in Nat, NEW j \in 1..Passo(f),
         Marca(f, m) + j <= Tamanho(f)
  PROVE  LET k == Marca(f, m) + j
         IN  /\ j = Passo(f) - 2 /\ k # Tamanho(f) => CorteRuim(f, k)
             /\ j = Passo(f) - 1 => CorteRuim(f, k)
             /\ j < Passo(f) - 2 /\ ~CorteRuim(f, k) => Enviado(f, k).parte = "texto"
<1>1. PICK p \in Nat : p = Passo(f) /\ p >= 3
  BY MarcaE
<1>2. PICK a \in Nat : a = Marca(f, m)
  BY MarcaE
<1>3. PICK k \in Nat : k = a + j
  BY <1>2
<1>4. /\ Tamanho(f) \in Nat /\ FimDoCorpo(f, m + 1) = a + p - 2
      /\ (a + p - 2 <= Tamanho(f) => m + 1 <= Total(f)) /\ a + p - 1 # Tamanho(f)
      /\ Total(f) \in Nat
  BY <1>1, <1>2, TamanhoE
<1>5. ASSUME j = p - 2, k # Tamanho(f)
      PROVE  CorteRuim(f, k)
  <2>1. k < Tamanho(f) /\ k = FimDoCorpo(f, m + 1) /\ m + 1 \in 1..Total(f)
    BY <1>1, <1>2, <1>3, <1>4, <1>5
  <2> QED
    BY <2>1 DEF CorteRuim
<1>6. ASSUME j = p - 1
      PROVE  CorteRuim(f, k)
  <2>1. k < Tamanho(f)
    BY <1>1, <1>2, <1>3, <1>4, <1>6
  <2>2. Enviado(f, k) = NovaLinha /\ Enviado(f, k + 1) = NovaLinha
    BY <1>1, <1>2, <1>3, <1>6, OndeCorta
  <2> QED
    BY <2>1, <2>2 DEF CorteRuim
<1>7. ASSUME j < p - 2, ~CorteRuim(f, k)
      PROVE  Enviado(f, k).parte = "texto"
  <2>1. m + 1 > Total(f) => Tamanho(f) < a + p - 2
    BY <1>1, <1>2, <1>4
  <2>2. j \in 1..p - 2 /\ j <= p - 2 /\ j \in 1..p
    BY <1>1, <1>7
  <2>3. Enviado(f, k) = Corpo(Evento(f, m + 1))[j]
    BY <1>1, <1>2, <1>3, <2>2, EnviadoNo
  <2>4. Enviado(f, k).parte \in {"texto", "branco"}
    BY <1>1, <2>2, <2>3, CorpoDe
  <2>5. k < Tamanho(f)
    <3>1. PICK v \in Nat : Tamanho(f) = Marca(f, v) \/ Tamanho(f) = Marca(f, v) + p - 2
      <4>1. PICK w \in Nat : w = roteiro[f].eventos
        BY CorpoE
      <4>2. Len(roteiro[f].corpo) = p - 2 /\ roteiro[f].erro \in BOOLEAN
        <5>1. Len(roteiro[f].corpo) \in Nat /\ roteiro[f].erro \in BOOLEAN
          BY CorpoE
        <5>2. p = Len(roteiro[f].corpo) + 2
          BY <1>1, MarcaE
        <5> QED
          BY <5>1, <5>2
      <4>3. Tamanho(f) = Marca(f, w) + (IF roteiro[f].erro THEN Len(roteiro[f].corpo) ELSE 0)
        BY <4>1 DEF Tamanho, Marca
      <4>4. Marca(f, w) \in Nat
        BY MarcaE
      <4> QED
        BY <4>1, <4>2, <4>3, <4>4, <1>1
    <3>2. /\ m < v => Marca(f, m) + p <= Marca(f, v)
          /\ v < m => Marca(f, v) + p <= Marca(f, m)
          /\ Marca(f, v) \in Nat
      BY <1>1, MarcaE
    <3>3. m < v \/ m = v \/ v < m
      OBVIOUS
    <3> QED
      BY <3>1, <3>2, <3>3, <1>1, <1>2, <1>3, <1>4, <1>7
  <2> QED
    BY <2>4, <2>5, <1>7 DEF CorteRuim
<1> QED
  BY <1>1, <1>2, <1>3, <1>5, <1>6, <1>7

-----------------------------------------------------------------------------
(* The invariant of a stream whose buffer nobody else touched, of which r  *)
(* tokens were read, b is left, E was handed over, and C are the bad cuts. *)

Historia ==
  /\ alheio \in [Fluxo -> BOOLEAN] /\ cortes \in [Fluxo -> SUBSET Nat]
  /\ sobra \in [Fluxo -> Seq(Tokens)]

(* Only what was read is left or handed over; the bad cuts are remembered. *)
BaseDe(f, r, b, E, C) ==
  /\ r \in 0..Tamanho(f)
  /\ Letras(b) \subseteq LetrasEm(f, 0, r)
  /\ \A i \in 1..Len(E) : \E n \in Nat : /\ E[i].evento = Evento(f, n + 1)
                                         /\ FimDoCorpo(f, n + 1) <= r
  /\ \A j \in C : CorteRuim(f, j)
  /\ r # 0 /\ CorteRuim(f, r) => r \in C

(* The body under way keeps its letters, unless its delimiter was cut.     *)
LetrasDe(f, r, b, C) ==
  \A m \in Nat :
    /\ Marca(f, m) <= r /\ r <= Marca(f, m) + Passo(f) - 2
    /\ m = 0 \/ Marca(f, m) - 1 \notin C
    => Letras(b) = LetrasEm(f, Marca(f, m), r)

EntregasDe(f, r, E, C) ==
  \A n \in Nat :
    /\ FimDoCorpo(f, n + 1) <= r
    /\ n = 0 \/ Marca(f, n) - 1 \notin C
    => \E i \in 1..Len(E) : E[i].evento = Evento(f, n + 1)

(* Without bad cuts what is left is the body under way, blanks included.   *)
Prontos(f, m, r) == m + (IF r = Marca(f, m) + Passo(f) - 2 THEN 1 ELSE 0)
Exatas(f, m) == [n \in 1..m |-> [evento |-> Evento(f, n), integro |-> TRUE]]
ExatoDe(f, r, b, E, C) ==
  \A m \in Nat :
    C = {} /\ Marca(f, m) <= r /\ r < Marca(f, m) + Passo(f) =>
      /\ b = [j \in 1..r - Marca(f, m) |-> Enviado(f, Marca(f, m) + j)]
      /\ E = Exatas(f, Prontos(f, m, r))

SozinhoDe(f, r, b, E, C) ==
  BaseDe(f, r, b, E, C) /\ LetrasDe(f, r, b, C) /\ EntregasDe(f, r, E, C)
    /\ ExatoDe(f, r, b, E, C)
Sozinhos ==
  \A f \in Fluxo : ~alheio[f] =>
    \A r, b, E, C : r = recebido[f] /\ b = sobra[f] /\ E = entregues[f] /\ C = cortes[f]
                      => SozinhoDe(f, r, b, E, C)
ExataInv == FluxoInv /\ Historia /\ Sozinhos

LEMMA RoteiroFixo ==
  ASSUME roteiro' = roteiro
  PROVE  \A f, r, b, E, C : SozinhoDe(f, r, b, E, C)' <=> SozinhoDe(f, r, b, E, C)
<1>1. \A e : Corpo(e)' = Corpo(e)
  BY DEF Corpo
<1>2. \A f : Total(f)' = Total(f) /\ Passo(f)' = Passo(f) /\ Tamanho(f)' = Tamanho(f)
  BY DEF Total, Passo, Tamanho
<1>3. \A f, k : Enviado(f, k)' = Enviado(f, k)
  BY <1>1, <1>2 DEF Enviado
<1>4. \A f, n : FimDoCorpo(f, n)' = FimDoCorpo(f, n) /\ Marca(f, n)' = Marca(f, n)
  BY <1>2 DEF FimDoCorpo, Marca
<1>5. \A f, k : CorteRuim(f, k)' <=> CorteRuim(f, k)
  BY <1>2, <1>3, <1>4 DEF CorteRuim
<1>6. \A f, x, y : LetrasEm(f, x, y)' = LetrasEm(f, x, y)
  BY <1>3 DEF LetrasEm
<1>7. \A f, m, r : Prontos(f, m, r)' = Prontos(f, m, r)
  BY <1>2, <1>4 DEF Prontos
<1>8. \A f, r, b, E, C : BaseDe(f, r, b, E, C)' <=> BaseDe(f, r, b, E, C)
  BY <1>2, <1>4, <1>5, <1>6 DEF BaseDe
<1>9. \A f, r, b, C : LetrasDe(f, r, b, C)' <=> LetrasDe(f, r, b, C)
  BY <1>2, <1>4, <1>6 DEF LetrasDe
<1>10. \A f, r, E, C : EntregasDe(f, r, E, C)' <=> EntregasDe(f, r, E, C)
  BY <1>4, SMTT(40) DEF EntregasDe
<1>11. \A f, r, b, E, C : ExatoDe(f, r, b, E, C)' <=> ExatoDe(f, r, b, E, C)
  BY <1>2, <1>3, <1>4, <1>7 DEF ExatoDe, Exatas
<1> QED
  BY <1>8, <1>9, <1>10, <1>11 DEF SozinhoDe

(* What f reads of a buffer nobody else touched.                           *)
LEMMA LidoSo ==
  ASSUME FluxoInv, Historia, NEW f \in Fluxo, NEW k \in Nat, k > recebido[f],
         Achado(f) = sobra[f]
  PROVE  LET s == Lido(f, k)
             a == Len(sobra[f])
             r == recebido[f]
         IN  /\ s \in Seq(Tokens) /\ a \in Nat /\ Len(s) = a + (k - r)
             /\ s = sobra[f] \o Dados(f, k)
             /\ \A i \in 1..a : s[i] = sobra[f][i]
             /\ \A j \in 1..k - r : s[a + j] = Enviado(f, r + j)
             /\ \A i \in Fins(s) : i \in Nat /\ i > a
             /\ \A j \in 1..k - r - 1 :
                  a + j \in Fins(s) <=> \E m \in Nat : r + j = Marca(f, m) + Passo(f) - 1
<1> DEFINE s == Lido(f, k)
           b == sobra[f]
           D == Dados(f, k)
<1>1. PICK r \in Nat : r = recebido[f]
  BY DEF FluxoInv, TiposDoFluxo
<1>2. roteiro \in Roteiros
  BY DEF FluxoInv, TiposDoFluxo
<1>3. b \in Seq(Tokens) /\ b \in {<<>>, partialData}
  BY AchadoE DEF Historia
<1>4. D \in Seq(Tokens) /\ Len(D) = k - r /\ \A j \in 1..k - r : D[j] = Enviado(f, r + j)
  BY <1>1, DadosE DEF FluxoInv, Dados
<1>5. s = b \o D
  BY DEF Lido
<1>6. /\ b # <<>> => Len(b) \in Texto(b)
      /\ \A i \in 1..Len(b) - 1 : ~Corte(b, i)
  <2>1. CASE b = <<>>
    BY <2>1
  <2>2. CASE b = partialData
    BY <2>2 DEF FluxoInv, Sobra
  <2> QED
    BY <2>1, <2>2, <1>3
<1> HIDE DEF s, b, D
<1>7. PICK a \in Nat : a = Len(b)
  BY <1>3
<1>8. PICK d \in Nat : d = Len(D) /\ d = k - r /\ d >= 1
  BY <1>1, <1>4
<1>9. /\ s \in Seq(Tokens) /\ Len(s) = a + d
      /\ \A i \in 1..a : s[i] = b[i]
      /\ \A j \in 1..d : s[a + j] = D[j]
  <2>0. Len(b) = a /\ Len(D) = d /\ b \in Seq(Tokens) /\ D \in Seq(Tokens)
    BY <1>3, <1>4, <1>7, <1>8
  <2>1. /\ s \in Seq(Tokens) /\ Len(s) = a + d
        /\ \A i \in 1..a + d : s[i] = IF i <= a THEN b[i] ELSE D[i - a]
    <3>1. /\ b \o D \in Seq(Tokens) /\ Len(b \o D) = Len(b) + Len(D)
          /\ \A i \in 1..Len(b) + Len(D) : (b \o D)[i] = IF i <= Len(b) THEN b[i] ELSE D[i - Len(b)]
      BY <2>0, ConcatProperties
    <3> QED
      BY <3>1, <2>0, <1>5
  <2>2. \A j \in 1..d : s[a + j] = D[j]
    BY <2>1
  <2> QED
    BY <2>1, <2>2
<1>10. \A i \in 1..a + d : i \in Fins(s) <=> i < a + d /\ Corte(s, i)
  BY <1>9, FinsE
<1>11. Fins(s) \subseteq 1..(a + d) + 1 /\ (a + d) + 1 \in Fins(s)
  BY <1>9, FinsE
<1>12. ASSUME NEW i \in 1..a, i \in Fins(s)
       PROVE  FALSE
  <2>1. Corte(s, i) /\ s[i] = b[i]
    BY <1>9, <1>10, <1>12
  <2>2. b # <<>>
    BY <1>7
  <2>3. CASE i = a
    <3>1. b[i].parte = "texto"
      BY <2>2, <2>3, <1>6, <1>7 DEF Texto
    <3> QED
      BY <2>1, <3>1 DEF Corte, NovaLinha, Token
  <2>4. CASE i < a
    <3>1. i \in 1..a - 1 /\ i + 1 \in 1..a
      BY <2>4
    <3>2. s[i + 1] = b[i + 1]
      BY <3>1, <1>9
    <3> QED
      BY <2>1, <3>1, <3>2, <1>6, <1>7 DEF Corte
  <2> QED
    BY <2>3, <2>4
<1>13. \A i \in Fins(s) : i \in Nat /\ i > a
  <2> SUFFICES ASSUME NEW i \in Fins(s)
               PROVE  i \in Nat /\ i > a
    OBVIOUS
  <2>1. i \in 1..(a + d) + 1 /\ i \notin 1..a
    BY <1>11, <1>12
  <2> QED
    BY <2>1
<1>14. ASSUME NEW j \in 1..d - 1
       PROVE  a + j \in Fins(s) <=> \E m \in Nat : r + j = Marca(f, m) + Passo(f) - 1
  <2>1. a + j \in 1..a + d /\ a + j < a + d /\ j \in 1..d /\ j + 1 \in 1..d
        /\ (a + j) + 1 = a + (j + 1) /\ r + (j + 1) = (r + j) + 1
    OBVIOUS
  <2>2. a + j \in Fins(s) <=> Enviado(f, r + j) = NovaLinha /\ Enviado(f, (r + j) + 1) = NovaLinha
    <3>1. a + j \in Fins(s) <=> s[a + j] = NovaLinha /\ s[(a + j) + 1] = NovaLinha
      BY <2>1, <1>10 DEF Corte
    <3>2. s[a + j] = Enviado(f, r + j)
      BY <2>1, <1>4, <1>8, <1>9
    <3>3. s[a + (j + 1)] = D[j + 1] /\ D[j + 1] = Enviado(f, r + (j + 1))
      BY <2>1, <1>4, <1>8, <1>9
    <3>4. s[(a + j) + 1] = Enviado(f, (r + j) + 1)
      BY <3>3, <2>1
    <3> QED
      BY <3>1, <3>2, <3>4
  <2>3. PICK p \in Nat : p = Passo(f) /\ p >= 3
    BY <1>2, MarcaE
  <2>4. r + j \in Nat \ {0}
    OBVIOUS
  <2>5. PICK x \in Nat, y \in 1..p : r + j = Marca(f, x) + y
    BY <2>3, <2>4, <1>2, OndeEsta
  <2>6. a + j \in Fins(s) <=> y = p - 1
    BY <2>2, <2>3, <2>5, <1>2, OndeCorta
  <2>7. Marca(f, x) \in Nat
    BY <1>2, MarcaE
  <2>8. ASSUME NEW m \in Nat, r + j = Marca(f, m) + p - 1
        PROVE  y = p - 1
    <3>1. /\ m < x => Marca(f, m) + p <= Marca(f, x)
          /\ x < m => Marca(f, x) + p <= Marca(f, m)
          /\ Marca(f, m) \in Nat
      BY <1>2, <2>3, MarcaE
    <3>2. m < x \/ m = x \/ x < m
      OBVIOUS
    <3> QED
      BY <3>1, <3>2, <2>3, <2>5, <2>7, <2>8
  <2>9. y = p - 1 => r + j = Marca(f, x) + p - 1
    BY <2>3, <2>5, <2>7
  <2> QED
    BY <2>3, <2>6, <2>8, <2>9
<1> QED
  BY <1>1, <1>5, <1>7, <1>8, <1>9, <1>4, <1>13, <1>14 DEF s, b, D

(* The part between two ends.                                              *)
LEMMA Vizinhos ==
  ASSUME NEW T, NEW s \in Seq(T), NEW v \in Fins(s), NEW u \in Nat,
         \/ u \in Fins(s) /\ u < v
         \/ u = 0,
         \A i \in Fins(s) : i < v => i <= u
  PROVE  \E q \in 1..Quantos(s) :
           /\ Fim(s, q) = v - 1
           /\ Ini(s, q) = IF u = 0 THEN 1 ELSE u + 2
           /\ v = Len(s) + 1 => q = Quantos(s)
<1> DEFINE N == Quantos(s)
           o == Ordem(Fins(s))
<1>1. /\ N \in Nat
      /\ \A n \in 1..N : o[n] \in Fins(s)
      /\ \A m, n \in 1..N : m < n => o[m] < o[n]
      /\ \A i \in Fins(s) : \E n \in 1..N : o[n] = i
  BY FinsE, OrdemE DEF Quantos
<1>2. Fins(s) \subseteq 1..Len(s) + 1 /\ Len(s) \in Nat
  BY FinsE
<1>3. \A n : /\ Ini(s, n) = IF n = 1 THEN 1 ELSE o[n - 1] + 2
             /\ Fim(s, n) = o[n] - 1
  BY DEF Ini, Fim
<1> HIDE DEF o, N
<1>4. PICK q \in 1..N : o[q] = v
  BY <1>1
<1>5. \A i \in Fins(s) : i \in Nat /\ i >= 1 /\ i <= Len(s) + 1
  BY <1>2
<1>6. v = Len(s) + 1 => q = N
  <2>1. N \in 1..N /\ o[N] \in Fins(s)
    BY <1>1, <1>4
  <2>2. q < N => o[q] < o[N]
    BY <1>1, <2>1
  <2> QED
    BY <2>1, <2>2, <1>1, <1>2, <1>4, <1>5
<1>7. Ini(s, q) = IF u = 0 THEN 1 ELSE u + 2
  <2>1. CASE u = 0
    <3>1. q = 1
      <4>1. ASSUME q # 1
            PROVE  FALSE
        <5>1. q - 1 \in 1..N /\ q - 1 < q
          BY <4>1, <1>1
        <5>2. o[q - 1] \in Fins(s) /\ o[q - 1] < v
          BY <5>1, <1>1, <1>4
        <5> QED
          BY <5>2, <2>1, <1>5
      <4> QED
        BY <4>1
    <3> QED
      BY <3>1, <2>1, <1>3
  <2>2. CASE u # 0
    <3>1. PICK n \in 1..N : o[n] = u
      BY <2>2, <1>1
    <3>2. u < v /\ u \in Fins(s)
      BY <2>2
    <3>3. n < q
      <4>1. q < n => o[q] < o[n]
        BY <1>1
      <4> QED
        BY <4>1, <3>1, <3>2, <1>1, <1>4, <1>5
    <3>4. q - 1 \in 1..N /\ q - 1 < q /\ q # 1
      BY <3>3, <1>1
    <3>5. o[q - 1] \in Fins(s) /\ o[q - 1] < v
      BY <3>4, <1>1, <1>4
    <3>6. o[q - 1] <= u
      BY <3>5
    <3>7. n = q - 1
      <4>1. n < q - 1 => o[n] < o[q - 1]
        BY <3>4, <1>1
      <4> QED
        BY <4>1, <3>1, <3>3, <3>5, <3>6, <1>1, <1>5
    <3> QED
      BY <2>2, <3>1, <3>4, <3>7, <1>3
  <2> QED
    BY <2>1, <2>2
<1> QED
  BY <1>3, <1>4, <1>6, <1>7 DEF N

-----------------------------------------------------------------------------
(* The letters of what f reads of a buffer nobody else touched.            *)

\* The letters of s after its x-th token and up to its y-th.
Trecho(s, x, y) == {s[i] : i \in {j \in Texto(s) : x < j /\ j <= y}}

LEMMA LetrasUne ==
  ASSUME NEW f, NEW x \in Nat, NEW y \in Nat, NEW z \in Nat, x <= y, y <= z
  PROVE  LetrasEm(f, x, z) = LetrasEm(f, x, y) \cup LetrasEm(f, y, z)
<1>1. \A j : j \in x + 1..z <=> j \in x + 1..y \/ j \in y + 1..z
  OBVIOUS
<1> QED
  BY <1>1 DEF LetrasEm

(* The letters of an event, wherever between its end and the next they end. *)
LEMMA LetrasDoEvento ==
  ASSUME roteiro \in Roteiros, NEW f \in Fluxo, NEW m \in Nat, NEW y \in Nat,
         y \in {Marca(f, m) + Passo(f) - 2, Marca(f, m) + Passo(f) - 1}
  PROVE  LetrasEm(f, Marca(f, m), y) = Letras(Corpo(Evento(f, m + 1)))
<1>1. PICK p \in Nat : p = Passo(f) /\ p >= 3
  BY MarcaE
<1>2. PICK M \in Nat : M = Marca(f, m)
  BY MarcaE
<1>3. PICK c \in Seq(Tokens) : c = Corpo(Evento(f, m + 1)) /\ Len(c) = p - 2
  BY <1>1, CorpoDe
<1>4. \A j \in 1..p : Enviado(f, M + j) = IF j <= p - 2 THEN c[j] ELSE NovaLinha
  BY <1>1, <1>2, <1>3, EnviadoNo
<1>5. NovaLinha.parte = "nl"
  BY DEF NovaLinha, Token
<1>6. ASSUME NEW x \in LetrasEm(f, M, y)
      PROVE  x \in Letras(c)
  <2>1. PICK i \in M + 1..y : x = Enviado(f, i) /\ Enviado(f, i).parte = "texto"
    BY DEF LetrasEm
  <2>2. PICK j \in 1..p : i = M + j
    <3>1. i - M \in 1..p /\ i = M + (i - M)
      BY <1>1, <1>2, SMTT(40)
    <3> QED
      BY <3>1
  <2>3. j <= p - 2 /\ x = c[j] /\ c[j].parte = "texto"
    BY <2>1, <2>2, <1>4, <1>5
  <2>4. j \in DOMAIN c
    BY <1>1, <1>3, <2>3
  <2> QED
    BY <2>3, <2>4 DEF Letras
<1>7. ASSUME NEW x \in Letras(c)
      PROVE  x \in LetrasEm(f, M, y)
  <2>1. PICK j \in 1..p - 2 : x = c[j] /\ c[j].parte = "texto"
    BY <1>3 DEF Letras
  <2>2. j \in 1..p /\ j <= p - 2 /\ M + j \in M + 1..y
    BY <1>1, <1>2, SMTT(40)
  <2>3. x = Enviado(f, M + j)
    BY <2>1, <2>2, <1>4
  <2> QED
    BY <2>1, <2>2, <2>3 DEF LetrasEm
<1> QED
  BY <1>2, <1>3, <1>6, <1>7

(* What was read after the x-th token and up to the y-th.                  *)
LEMMA LidoLetras ==
  ASSUME FluxoInv, Historia, NEW f \in Fluxo, NEW k \in Nat, k > recebido[f],
         Achado(f) = sobra[f]
  PROVE  LET s == Lido(f, k)
         IN \E r, a \in Nat :
             /\ r = recebido[f] /\ a = Len(sobra[f])
             /\ \A x, y \in Nat : r <= x /\ x <= y /\ y <= k =>
                  Trecho(s, a + (x - r), a + (y - r)) = LetrasEm(f, x, y)
             /\ Trecho(s, 0, a) = Letras(sobra[f])
<1> DEFINE s == Lido(f, k)
           b == sobra[f]
<1>1. PICK r \in Nat : r = recebido[f]
  BY DEF FluxoInv, TiposDoFluxo
<1>2. PICK a \in Nat : a = Len(b)
  BY LidoSo
<1>3. /\ s \in Seq(Tokens) /\ Len(s) = a + (k - r)
      /\ \A i \in 1..a : s[i] = b[i]
      /\ \A j \in 1..k - r : s[a + j] = Enviado(f, r + j)
  BY <1>1, <1>2, LidoSo
<1>4. b \in Seq(Tokens)
  BY DEF Historia
<1> HIDE DEF s, b
<1>5. DOMAIN s = 1..a + (k - r) /\ DOMAIN b = 1..a /\ k - r \in Nat
  BY <1>1, <1>2, <1>3, <1>4
<1>6. ASSUME NEW x \in Nat, NEW y \in Nat, r <= x, x <= y, y <= k
      PROVE  Trecho(s, a + (x - r), a + (y - r)) = LetrasEm(f, x, y)
  <2> DEFINE S == {j \in Texto(s) : a + (x - r) < j /\ j <= a + (y - r)}
  <2>1. ASSUME NEW i \in S
        PROVE  s[i] \in LetrasEm(f, x, y)
    <3>1. i \in 1..a + (k - r) /\ s[i].parte = "texto" /\ a + (x - r) < i /\ i <= a + (y - r)
      BY <1>5 DEF Texto
    <3>2. PICK j \in 1..k - r : i = a + j /\ r + j \in x + 1..y
      <4>1. i - a \in 1..k - r /\ i = a + (i - a) /\ r + (i - a) \in x + 1..y
        BY <3>1, <1>5, <1>6
      <4> QED
        BY <4>1
    <3>3. s[i] = Enviado(f, r + j)
      BY <3>2, <1>3
    <3> QED
      BY <3>1, <3>2, <3>3 DEF LetrasEm
  <2>2. ASSUME NEW z \in LetrasEm(f, x, y)
        PROVE  \E i \in S : z = s[i]
    <3>1. PICK h \in x + 1..y : z = Enviado(f, h) /\ Enviado(f, h).parte = "texto"
      BY DEF LetrasEm
    <3>2. PICK j \in 1..k - r : h = r + j
      <4>1. h - r \in 1..k - r /\ h = r + (h - r)
        BY <1>6
      <4> QED
        BY <4>1
    <3>3. s[a + j] = z
      BY <3>1, <3>2, <1>3
    <3>4. a + j \in 1..a + (k - r) /\ a + (x - r) < a + j /\ a + j <= a + (y - r)
      BY <3>2
    <3>5. a + j \in S
      BY <3>1, <3>3, <3>4, <1>5 DEF Texto
    <3> QED
      BY <3>3, <3>5
  <2> QED
    BY <2>1, <2>2 DEF Trecho
<1>7. Trecho(s, 0, a) = Letras(b)
  <2>1. {j \in Texto(s) : 0 < j /\ j <= a} = {j \in DOMAIN b : b[j].parte = "texto"}
    <3>1. \A j : j \in 1..a + (k - r) /\ 0 < j /\ j <= a <=> j \in 1..a
      BY <1>5
    <3> QED
      BY <3>1, <1>3, <1>5 DEF Texto
  <2>2. \A j \in {i \in DOMAIN b : b[i].parte = "texto"} : s[j] = b[j]
    BY <1>3, <1>5
  <2> QED
    BY <2>1, <2>2 DEF Letras, Trecho
<1>8. \E r1, a1 \in Nat :
        /\ r1 = recebido[f] /\ a1 = Len(b)
        /\ \A x, y \in Nat : r1 <= x /\ x <= y /\ y <= k =>
             Trecho(s, a1 + (x - r1), a1 + (y - r1)) = LetrasEm(f, x, y)
        /\ Trecho(s, 0, a1) = Letras(b)
  <2>1. \A x, y \in Nat : r <= x /\ x <= y /\ y <= k =>
          Trecho(s, a + (x - r), a + (y - r)) = LetrasEm(f, x, y)
    BY <1>6
  <2> WITNESS r \in Nat, a \in Nat
  <2> QED
    BY <2>1, <1>1, <1>2, <1>7
<1> QED
  BY <1>8 DEF s, b

(* A body whose end was not read yet is a part of what is read, from its   *)
(* first letter on, unless the delimiter before it was cut.                *)
LEMMA ParteDe ==
  ASSUME FluxoInv, Historia, NEW f \in Fluxo, NEW k \in Nat, k > recebido[f],
         Achado(f) = sobra[f], NEW m \in Nat,
         Marca(f, m) <= k, recebido[f] < Marca(f, m) + Passo(f) - 2,
         recebido[f] # Marca(f, m) - 1,
         Marca(f, m) <= recebido[f] => Letras(sobra[f]) = LetrasEm(f, Marca(f, m), recebido[f])
  PROVE  \E q \in 1..Quantos(Lido(f, k)) :
           /\ {Lido(f, k)[i] : i \in TextoDe(Lido(f, k), q)} =
                LetrasEm(f, Marca(f, m), IF k < Marca(f, m) + Passo(f) THEN k
                                         ELSE Marca(f, m) + Passo(f) - 2)
           /\ k < Marca(f, m) + Passo(f) => q = Quantos(Lido(f, k))
<1> DEFINE s == Lido(f, k)
           b == sobra[f]
<1>2. roteiro \in Roteiros
  BY DEF FluxoInv, TiposDoFluxo
<1>1. PICK r \in Nat, a \in Nat :
        /\ r = recebido[f] /\ a = Len(b)
        /\ \A x, y \in Nat : r <= x /\ x <= y /\ y <= k =>
             Trecho(s, a + (x - r), a + (y - r)) = LetrasEm(f, x, y)
        /\ Trecho(s, 0, a) = Letras(b)
  BY LidoLetras
<1>3. r = recebido[f] /\ a = Len(b)
  BY <1>1
<1>4. PICK p \in Nat : p = Passo(f) /\ p >= 3
  BY <1>2, MarcaE
<1>5. PICK M \in Nat : M = Marca(f, m)
  BY <1>2, MarcaE
<1>6. /\ \A n \in Nat : Marca(f, n) \in Nat
      /\ \A n \in Nat : n < m => Marca(f, n) + p <= M
      /\ \A n \in Nat : m < n => M + p <= Marca(f, n)
      /\ m # 0 => m - 1 \in Nat /\ M = Marca(f, m - 1) + p
      /\ m = 0 => M = 0
  <2>1. m # 0 => m - 1 \in Nat /\ (m - 1) + 1 = m
    OBVIOUS
  <2> QED
    BY <2>1, <1>2, <1>4, <1>5, MarcaE
<1>7. /\ s \in Seq(Tokens) /\ Len(s) = a + (k - r)
      /\ \A i \in Fins(s) : i \in Nat /\ i > a
      /\ \A j \in 1..k - r - 1 :
           a + j \in Fins(s) <=> \E n \in Nat : r + j = Marca(f, n) + p - 1
  BY <1>3, <1>4, LidoSo, ZenonT(60)
<1>9. /\ Fins(s) \subseteq 1..Len(s) + 1 /\ Len(s) + 1 \in Fins(s)
      /\ \A i \in 1..Len(s) : i \in Fins(s) => i < Len(s)
  BY <1>7, FinsE
<1>10. Texto(s) \subseteq 1..Len(s)
  BY <1>7 DEF Texto
<1> HIDE DEF s, b
<1>11. M <= k /\ r < M + p - 2 /\ r # M - 1 /\ k > r
  BY <1>3, <1>4, <1>5
<1>12. PICK e \in Nat : e = IF k < M + p THEN k ELSE M + p - 2
  <2>1. M + p - 2 \in Nat
    BY <1>4
  <2> QED
    BY <2>1
<1>13. PICK v \in Nat : v = (a + (e - r)) + 1 /\ v \in Fins(s) /\ (e = k => v = Len(s) + 1)
                        /\ (e # k => e = M + p - 2 /\ M + p <= k)
  <2>1. CASE k < M + p
    <3>1. e = k /\ (a + (e - r)) + 1 = Len(s) + 1
      BY <2>1, <1>7, <1>12
    <3>2. (a + (e - r)) + 1 \in Nat
      BY <3>1, <1>11
    <3> QED
      BY <3>1, <3>2, <1>9
  <2>2. CASE ~(k < M + p)
    <3>1. e = M + p - 2 /\ e # k /\ M + p <= k
      BY <2>2, <1>12, <1>4
    <3>2. PICK j \in 1..k - r - 1 : j = M + p - 1 - r /\ r + j = M + p - 1
      <4>1. M + p - 1 - r \in 1..k - r - 1 /\ r + (M + p - 1 - r) = M + p - 1
        BY <3>1, <1>4, <1>11
      <4> QED
        BY <4>1
    <3>3. a + j \in Fins(s)
      BY <3>2, <1>5, <1>7
    <3>4. (a + (e - r)) + 1 = a + j /\ a + j \in Nat
      BY <3>1, <3>2, <1>4
    <3> QED
      BY <3>1, <3>3, <3>4
  <2> QED
    BY <2>1, <2>2
<1>131. v = (a + (e - r)) + 1
  BY <1>13
<1>132. e = k \/ (e = M + p - 2 /\ M + p <= k)
  BY <1>13
<1>133. e <= M + p - 1
  BY <1>12, <1>4
<1>14. e > r /\ e <= k /\ e >= M
  <2>1. CASE e = k
    BY <2>1, <1>11
  <2>2. CASE e = M + p - 2 /\ M + p <= k
    BY <2>2, <1>4, <1>11
  <2> QED
    BY <2>1, <2>2, <1>132
<1>15. ASSUME NEW i \in Fins(s), i < v
       PROVE  i \in Nat /\ i > a /\ r + (i - a) <= M - 1
  <2>1. i \in Nat /\ i > a
    BY <1>7
  <2>2. i < Len(s)
    <3>1. i \in 1..Len(s) + 1
      BY <1>9
    <3>2. v <= Len(s) + 1
      BY <1>9, <1>13
    <3>3. i \in 1..Len(s)
      BY <3>1, <3>2, <1>15, <1>7
    <3> QED
      BY <3>3, <1>9
  <2>3. PICK j \in 1..k - r - 1 : i = a + j
    <3>1. i - a \in 1..k - r - 1 /\ i = a + (i - a)
      BY <2>1, <2>2, <1>7, <1>11
    <3> QED
      BY <3>1
  <2>4. PICK n \in Nat : r + j = Marca(f, n) + p - 1
    BY <2>3, <1>7
  <2>5. Marca(f, n) \in Nat
    BY <1>6
  <2>6. j <= e - r
    BY <2>3, <1>13, <1>15
  <2>7. r + j < M + p - 1
    <3>1. CASE e = k
      BY <3>1, <2>3, <1>4, <1>133
    <3>2. CASE e = M + p - 2 /\ M + p <= k
      BY <3>2, <2>3, <2>6, <1>4
    <3> QED
      BY <3>1, <3>2, <1>132
  <2>8. n < m
    <3>1. ~(m < n)
      BY <2>4, <2>5, <2>7, <1>4, <1>6
    <3>2. n # m
      BY <2>4, <2>7, <1>4, <1>5
    <3> QED
      BY <3>1, <3>2
  <2>9. Marca(f, n) + p <= M
    BY <2>8, <1>6
  <2> QED
    BY <2>1, <2>3, <2>4, <2>5, <2>9, <1>4
<1>16. CASE M <= r
  <2>1. \A i \in Fins(s) : i < v => i <= 0
    <3> SUFFICES ASSUME NEW i \in Fins(s), i < v
                 PROVE  FALSE
      BY <1>7
    <3>1. i \in Nat /\ i > a /\ r + (i - a) <= M - 1
      BY <1>15
    <3> QED
      BY <3>1, <1>16
  <2>2. PICK q \in 1..Quantos(s) : /\ Fim(s, q) = v - 1 /\ Ini(s, q) = 1
                                   /\ v = Len(s) + 1 => q = Quantos(s)
    <3>1. s \in Seq(Tokens) /\ v \in Fins(s) /\ 0 \in Nat /\ 0 = 0
      BY <1>7, <1>13
    <3>2. \E q \in 1..Quantos(s) : /\ Fim(s, q) = v - 1
                                   /\ Ini(s, q) = IF 0 = 0 THEN 1 ELSE 0 + 2
                                   /\ v = Len(s) + 1 => q = Quantos(s)
      BY <2>1, <3>1, Vizinhos, ZenonT(60)
    <3> QED
      BY <3>2, Zenon
  <2>3. Fim(s, q) = a + (e - r)
    BY <2>2, <1>13, <1>14, SMTT(40)
  <2>4. {s[i] : i \in TextoDe(s, q)} = Trecho(s, 0, a) \cup Trecho(s, a, a + (e - r))
    <3>1. \A j \in Texto(s) : j \in Nat /\ 1 <= j
      BY <1>10, <1>7
    <3>2. \A j \in Nat :
            1 <= j => (1 <= j /\ j <= a + (e - r) <=>
                         (0 < j /\ j <= a) \/ (a < j /\ j <= a + (e - r)))
      BY <1>14
    <3>3. \A j \in Texto(s) : Ini(s, q) <= j /\ j <= Fim(s, q)
                                <=> (0 < j /\ j <= a) \/ (a < j /\ j <= a + (e - r))
      <4>1. Ini(s, q) = 1
        BY <2>2
      <4> QED
        BY <4>1, <2>3, <3>1, <3>2
    <3> QED
      BY <3>3 DEF TextoDe, Trecho
  <2>5. Trecho(s, a, a + (e - r)) = LetrasEm(f, r, e)
    <3>1. a + (r - r) = a /\ r <= r /\ r <= e
      BY <1>14
    <3> QED
      BY <3>1, <1>1, <1>14, SMTT(40)
  <2>6. {s[i] : i \in TextoDe(s, q)} = LetrasEm(f, M, e)
    <3>1. Letras(b) = LetrasEm(f, M, r)
      BY <1>16, <1>3, <1>5 DEF b
    <3>2. LetrasEm(f, M, e) = LetrasEm(f, M, r) \cup LetrasEm(f, r, e)
      BY <1>14, <1>16, LetrasUne
    <3> QED
      BY <2>4, <2>5, <3>1, <3>2, <1>1
  <2>7. k < M + p => q = Quantos(s)
    BY <2>2, <1>12, <1>13
  <2> QED
    BY <2>6, <2>7, <1>4, <1>5, <1>12 DEF s
<1>17. CASE r < M - 1
  <2>1. m # 0 /\ m - 1 \in Nat /\ M = Marca(f, m - 1) + p
    BY <1>17, <1>6
  <2>2. PICK j \in 1..k - r - 1 : j = M - 1 - r /\ r + j = M - 1
    <3>1. M - 1 - r \in 1..k - r - 1 /\ r + (M - 1 - r) = M - 1
      BY <1>11, <1>17
    <3> QED
      BY <3>1
  <2>3. PICK u \in Nat : u = a + j /\ u # 0 /\ u \in Fins(s)
    <3>1. r + j = Marca(f, m - 1) + p - 1 /\ Marca(f, m - 1) \in Nat
      BY <2>1, <2>2, <1>6
    <3>2. a + j \in Fins(s) /\ a + j \in Nat /\ a + j # 0
      BY <3>1, <2>1, <1>7, SMTT(40)
    <3> QED
      BY <3>2
  <2>21. u = a + j
    BY <2>3
  <2>4. u < v
    BY <2>2, <2>21, <1>131, <1>14
  <2>5. \A i \in Fins(s) : i < v => i <= u
    <3> SUFFICES ASSUME NEW i \in Fins(s), i < v
                 PROVE  i <= u
      OBVIOUS
    <3>1. i \in Nat /\ i > a /\ r + (i - a) <= M - 1
      BY <1>15
    <3> QED
      BY <3>1, <2>2, <2>3
  <2>6. PICK q \in 1..Quantos(s) : /\ Fim(s, q) = v - 1 /\ Ini(s, q) = u + 2
                                   /\ v = Len(s) + 1 => q = Quantos(s)
    <3>1. u \in Nat /\ ((u \in Fins(s) /\ u < v) \/ u = 0) /\ v \in Fins(s) /\ s \in Seq(Tokens)
      BY <2>3, <2>4, <1>7, <1>13
    <3>2. u # 0
      BY <2>3
    <3> QED
      BY <3>1, <3>2, <2>5, Vizinhos
  <2>7. Fim(s, q) = a + (e - r) /\ Ini(s, q) = (a + (M - r)) + 1
    <3>1. Fim(s, q) = a + (e - r)
      <4>1. Fim(s, q) = v - 1
        BY <2>6
      <4> QED
        BY <4>1, <1>131
    <3>2. u + 2 = (a + (M - r)) + 1
      BY <2>2, <2>21
    <3>3. Ini(s, q) = u + 2
      BY <2>6
    <3> QED
      BY <3>1, <3>2, <3>3
  <2>8. {s[i] : i \in TextoDe(s, q)} = Trecho(s, a + (M - r), a + (e - r))
    <3>1. \A h \in Texto(s) : h \in Nat
      BY <1>10, <1>7, SMTT(40)
    <3>2. \A h \in Nat : (a + (M - r)) + 1 <= h <=> a + (M - r) < h
      BY <1>17
    <3> QED
      BY <2>7, <3>1, <3>2 DEF TextoDe, Trecho
  <2>9. {s[i] : i \in TextoDe(s, q)} = LetrasEm(f, M, e)
    <3>1. r <= M /\ M <= e /\ e <= k
      BY <1>14, <1>17
    <3>2. Trecho(s, a + (M - r), a + (e - r)) = LetrasEm(f, M, e)
      BY <3>1, <1>1
    <3> QED
      BY <2>8, <3>2
  <2>10. k < M + p => q = Quantos(s)
    BY <2>6, <1>12, <1>13
  <2> QED
    BY <2>9, <2>10, <1>4, <1>5, <1>12 DEF s
<1> QED
  BY <1>11, <1>16, <1>17

-----------------------------------------------------------------------------
(* What a chunk hands over when nobody else touched the buffer.            *)

LEMMA LidoDe ==
  ASSUME FluxoInv, Historia, NEW f \in Fluxo, NEW k \in Nat, k > recebido[f],
         Achado(f) = sobra[f], Letras(sobra[f]) \subseteq LetrasEm(f, 0, recebido[f])
  PROVE  \A i \in Texto(Lido(f, k)) : Lido(f, k)[i] \in LetrasEm(f, 0, k)
<1> DEFINE s == Lido(f, k)
           b == sobra[f]
<1>1. PICK r \in Nat : r = recebido[f]
  BY DEF FluxoInv, TiposDoFluxo
<1>2. PICK a \in Nat : a = Len(b)
  BY LidoSo
<1>3. /\ s \in Seq(Tokens) /\ Len(s) = a + (k - r)
      /\ \A i \in 1..a : s[i] = b[i]
      /\ \A j \in 1..k - r : s[a + j] = Enviado(f, r + j)
  BY <1>1, <1>2, LidoSo
<1>4. b \in Seq(Tokens) /\ Letras(b) \subseteq LetrasEm(f, 0, r)
  BY <1>1 DEF Historia
<1> HIDE DEF s, b
<1> SUFFICES ASSUME NEW i \in Texto(s)
             PROVE  s[i] \in LetrasEm(f, 0, k)
  BY DEF s
<1>5. i \in 1..a + (k - r) /\ s[i].parte = "texto" /\ k > r
  BY <1>1, <1>3, SMTT(40) DEF Texto
<1>6. CASE i <= a
  <2>1. i \in 1..a /\ i \in DOMAIN b /\ s[i] = b[i]
    BY <1>2, <1>3, <1>4, <1>5, <1>6
  <2>2. s[i] \in Letras(b)
    BY <2>1, <1>5 DEF Letras
  <2>3. LetrasEm(f, 0, k) = LetrasEm(f, 0, r) \cup LetrasEm(f, r, k)
    BY <1>5, LetrasUne
  <2> QED
    BY <2>2, <2>3, <1>4
<1>7. CASE i > a
  <2>1. PICK j \in 1..k - r : i = a + j
    <3>1. i - a \in 1..k - r /\ i = a + (i - a)
      BY <1>5, <1>7
    <3> QED
      BY <3>1
  <2>2. s[i] = Enviado(f, r + j) /\ r + j \in 0 + 1..k
    BY <2>1, <1>3
  <2> QED
    BY <2>2, <1>5 DEF LetrasEm
<1> QED
  BY <1>5, <1>6, <1>7

LEMMA QuemE ==
  ASSUME FluxoInv, Historia, NEW f \in Fluxo, NEW k \in Nat, k > recebido[f],
         Achado(f) = sobra[f], Letras(sobra[f]) \subseteq LetrasEm(f, 0, recebido[f]),
         NEW n \in 1..Len(Lidos(f, k))
  PROVE  \E x \in Nat : /\ Lidos(f, k)[n].evento = Evento(f, x + 1)
                        /\ FimDoCorpo(f, x + 1) <= k
<1> DEFINE s == Lido(f, k)
           e == Lidos(f, k)[n].evento
           q == Qual(s)[n]
<1>1. roteiro \in Roteiros /\ s \in Seq(Tokens)
  BY LidoE DEF FluxoInv, TiposDoFluxo
<1>2. /\ TextoDe(s, q) # {} /\ \A i \in TextoDe(s, q) : s[i].de = e
      /\ Letras(Corpo(e)) = {s[i] : i \in TextoDe(s, q)}
  BY <1>1, ObjetosE DEF Lidos
<1>3. \A i \in Texto(s) : s[i] \in LetrasEm(f, 0, k)
  BY LidoDe
<1> HIDE DEF s, e, q
<1>4. TextoDe(s, q) \subseteq Texto(s)
  BY DEF TextoDe
<1>5. PICK i \in TextoDe(s, q) : s[i].de = e /\ s[i] \in LetrasEm(f, 0, k)
  BY <1>2, <1>3, <1>4
<1>6. PICK h \in 1..k : s[i] = Enviado(f, h) /\ Enviado(f, h).parte = "texto"
  BY <1>5 DEF LetrasEm
<1>7. PICK x \in Nat : Enviado(f, h).de = Evento(f, x + 1)
  <2>1. h \in Nat \ {0}
    BY <1>6
  <2> QED
    BY <2>1, <1>1, <1>6, OndeEsta
<1>8. e = Evento(f, x + 1)
  BY <1>5, <1>6, <1>7
<1>9. PICK p \in Nat : p = Passo(f) /\ p >= 3
  BY <1>1, MarcaE
<1>10. Corpo(e)[p - 2] \in Letras(Corpo(e))
  <2>1. p - 2 \in 1..p - 2
    BY <1>9
  <2>2. /\ Corpo(e) \in Seq(Tokens) /\ Len(Corpo(e)) = p - 2
        /\ Corpo(e)[p - 2].parte = "texto"
    BY <1>1, <1>8, <1>9, CorpoDe
  <2>3. p - 2 \in DOMAIN Corpo(e)
    BY <2>1, <2>2
  <2> QED
    BY <2>2, <2>3 DEF Letras
<1>11. PICK l \in 1..k : Corpo(e)[p - 2] = Enviado(f, l)
  <2>1. Corpo(e)[p - 2] \in LetrasEm(f, 0, k)
    BY <1>2, <1>3, <1>4, <1>10
  <2> QED
    BY <2>1 DEF LetrasEm
<1>12. l = FimDoCorpo(f, x + 1)
  <2>1. l \in Nat \ {0}
    BY <1>11
  <2> QED
    BY <2>1, <1>1, <1>8, <1>9, <1>11, MesmaLetra
<1> QED
  BY <1>8, <1>11, <1>12 DEF e

(* No error comes before the end of the stream: everything is handed over. *)
LEMMA LeSo ==
  ASSUME FluxoInv, Historia, NEW f \in Fluxo, NEW k \in Nat, Le(f, k), Achado(f) = sobra[f],
         BaseDe(f, recebido[f], sobra[f], entregues[f], cortes[f])
  PROVE  /\ entregues[f] \in Seq(Entregas) /\ Lidos(f, k) \in Seq(Entregas)
         /\ entregues'[f] = entregues[f] \o Lidos(f, k)
<1> DEFINE E == entregues[f]
           O == Lidos(f, k)
           quebra == {i \in DOMAIN O : /\ ~EhErro(O[i].evento)
                                       /\ Tirou(E \o SubSeq(O, 1, i - 1))}
           ate == IF quebra = {} THEN Len(O) ELSE Min(quebra) - 1
<1>1. entregues' = [entregues EXCEPT ![f] = @ \o SubSeq(O, 1, ate)]
  BY Zenon DEF Le, Resto, Lidos, Lido, Dados
<1>2. PICK r \in Nat : r = recebido[f]
  BY DEF FluxoInv, TiposDoFluxo
<1>3. k > r /\ O \in Seq(Entregas)
  BY <1>2, LeE, Zenon
<1>4. roteiro \in Roteiros /\ E \in Seq(Entregas) /\ entregues \in [Fluxo -> Seq(Entregas)]
  BY DEF FluxoInv, TiposDoFluxo
<1>5. PICK T \in Nat : T = Tamanho(f) /\ k <= T
  <2>1. Tamanho(f) \in Nat
    BY <1>4, TamanhoE
  <2> QED
    <3>1. k \in recebido[f] + 1..Tamanho(f)
      BY Zenon DEF Le
    <3>2. k <= Tamanho(f)
      BY <3>1, <2>1, <1>2
    <3> QED
      BY <2>1, <3>2
<1>6. \A i \in 1..Len(E) : \E n \in Nat : E[i].evento = Evento(f, n + 1) /\ FimDoCorpo(f, n + 1) <= r
  BY <1>2 DEF BaseDe
<1>7. \A i \in 1..Len(O) : \E n \in Nat : O[i].evento = Evento(f, n + 1) /\ FimDoCorpo(f, n + 1) <= k
  BY <1>2, <1>3, QuemE DEF BaseDe
<1>8. \A i, j \in 1..Len(O) : i <= j /\ O[i].evento.fluxo = O[j].evento.fluxo
                                => O[i].evento.numero <= O[j].evento.numero
  BY <1>2, <1>3, ObjetosEmOrdem
<1>9. \A n \in Nat : /\ FimDoCorpo(f, n + 1) <= T => n + 1 <= Total(f)
                     /\ EhErro(Evento(f, n + 1)) => n + 1 = Total(f) /\ FimDoCorpo(f, n + 1) = T
                     /\ FimDoCorpo(f, n + 1) \in Int
  <2>1. \A n \in Nat : FimDoCorpo(f, n + 1) = Marca(f, n) + Passo(f) - 2 /\ Marca(f, n) \in Nat
                       /\ Passo(f) \in Nat
    <3>1. roteiro \in Roteiros
      BY <1>4
    <3> QED
      BY <3>1, FimE, Zenon
  <2>2. ASSUME NEW n \in Nat
        PROVE  FimDoCorpo(f, n + 1) \in Int
    <3>1. PICK M \in Nat, p \in Nat : FimDoCorpo(f, n + 1) = M + p - 2
      BY <2>1
    <3> QED
      BY <3>1
  <2> QED
    BY <2>2, <1>4, <1>5, TamanhoE
<1>10. Total(f) \in Nat
  BY <1>4, TamanhoE
<1> HIDE DEF O, E
<1>11. ASSUME NEW i \in quebra
       PROVE  FALSE
  <2>1. i \in 1..Len(O) /\ ~EhErro(O[i].evento) /\ Tirou(E \o SubSeq(O, 1, i - 1))
    BY <1>3
  <2> DEFINE A == SubSeq(O, 1, i - 1)
  <2>2. A \in Seq(Entregas) /\ Len(A) = i - 1 /\ \A j \in 1..i - 1 : A[j] = O[j]
    <3>1. i \in Nat /\ i - 1 \in 0..Len(O) /\ Len(O) \in Nat
      BY <2>1, <1>3
    <3> QED
      BY <3>1, <1>3
  <2> HIDE DEF A
  <2>3. PICK h \in DOMAIN (E \o A) : EhErro((E \o A)[h].evento)
    BY <2>1 DEF Tirou, A
  <2>4. PICK c \in Nat : c = Len(E)
    BY <1>4
  <2>5. h \in 1..c + (i - 1) /\ (E \o A)[h] = IF h <= c THEN E[h] ELSE A[h - c]
    BY <2>1, <2>2, <2>3, <2>4, <1>4, SMTT(40)
  <2>6. CASE h <= c
    <3>1. h \in 1..Len(E) /\ EhErro(E[h].evento)
      BY <2>3, <2>4, <2>5, <2>6
    <3>2. PICK n \in Nat : E[h].evento = Evento(f, n + 1) /\ FimDoCorpo(f, n + 1) <= r
      BY <3>1, <1>6
    <3> QED
      BY <3>1, <3>2, <1>3, <1>5, <1>9
  <2>7. CASE h > c
    <3>1. PICK j \in 1..i - 1 : j = h - c
      BY <2>1, <2>5, <2>7, SMTT(40)
    <3>2. j \in 1..Len(O) /\ j <= i /\ EhErro(O[j].evento)
      BY <2>1, <2>2, <2>3, <2>5, <2>7, <3>1, <1>3, SMTT(40)
    <3>3. PICK n \in Nat : O[j].evento = Evento(f, n + 1) /\ FimDoCorpo(f, n + 1) <= k
      BY <3>2, <1>7
    <3>4. PICK m \in Nat : O[i].evento = Evento(f, m + 1) /\ FimDoCorpo(f, m + 1) <= k
      BY <2>1, <1>7
    <3>5. n + 1 <= m + 1
      BY <2>1, <3>2, <3>3, <3>4, <1>8 DEF Evento
    <3>6. n + 1 = Total(f)
      BY <3>2, <3>3, <1>9
    <3>7. m + 1 <= Total(f)
      <4>1. FimDoCorpo(f, m + 1) <= T
        BY <3>4, <1>5, <1>9
      <4> QED
        BY <4>1, <1>9
    <3>8. m + 1 = n + 1
      BY <3>5, <3>6, <3>7, <1>10
    <3> QED
      BY <2>1, <3>2, <3>3, <3>4, <3>8
  <2> QED
    BY <2>4, <2>5, <2>6, <2>7
<1>12. ate = Len(O)
  BY <1>11
<1>13. SubSeq(O, 1, Len(O)) = O
  BY <1>3
<1> HIDE DEF ate
<1>14. entregues'[f] = E \o O
  BY <1>1, <1>4, <1>12, <1>13 DEF E
<1> QED
  BY <1>3, <1>4, <1>14 DEF E, O

-----------------------------------------------------------------------------
(* A chunk of a buffer nobody else touched keeps the invariant.            *)

Sozinho(f) == SozinhoDe(f, recebido[f], sobra[f], entregues[f], cortes[f])
LeSozinho(f, k) == k > recebido[f] /\ k <= Tamanho(f) /\ Achado(f) = sobra[f] /\ Sozinho(f)
CortesCom(f, k) == {j \in cortes[f] \cup {k} : CorteRuim(f, j)}

LEMMA Contexto ==
  ASSUME FluxoInv, Historia, NEW f \in Fluxo, NEW k \in Nat, LeSozinho(f, k)
  PROVE  /\ roteiro \in Roteiros /\ recebido[f] \in Nat /\ k > recebido[f]
         /\ Lido(f, k) \in Seq(Tokens) /\ Lidos(f, k) \in Seq(Entregas)
         /\ entregues[f] \in Seq(Entregas) /\ Achado(f) = sobra[f]
         /\ cortes[f] \subseteq CortesCom(f, k)
         /\ CorteRuim(f, k) => k \in CortesCom(f, k)
         /\ \A m \in Nat : recebido[f] = Marca(f, m) + Passo(f) - 1 => recebido[f] \in cortes[f]
<1>1. roteiro \in Roteiros /\ recebido[f] \in Nat /\ k > recebido[f] /\ entregues[f] \in Seq(Entregas)
  BY DEF FluxoInv, TiposDoFluxo, LeSozinho
<1>2. Lido(f, k) \in Seq(Tokens)
  BY <1>1, LidoE
<1>3. Lidos(f, k) \in Seq(Entregas)
  BY <1>1, <1>2, ObjetosE DEF Lidos
<1>4. BaseDe(f, recebido[f], sobra[f], entregues[f], cortes[f]) /\ Achado(f) = sobra[f]
  BY DEF LeSozinho, Sozinho, SozinhoDe
<1>5. cortes[f] \subseteq CortesCom(f, k) /\ (CorteRuim(f, k) => k \in CortesCom(f, k))
  BY <1>4 DEF BaseDe, CortesCom
<1>6. ASSUME NEW m \in Nat, recebido[f] = Marca(f, m) + Passo(f) - 1
      PROVE  recebido[f] \in cortes[f]
  <2>1. PICK p \in Nat : p = Passo(f) /\ p >= 3
    BY <1>1, MarcaE
  <2>2. PICK M \in Nat : M = Marca(f, m)
    BY <1>1, MarcaE
  <2>3. PICK j \in 1..p : j = p - 1 /\ recebido[f] = M + j
    <3>1. p - 1 \in 1..p /\ M + p - 1 = M + (p - 1)
      BY <2>1
    <3> QED
      BY <3>1, <2>1, <2>2, <1>6
  <2>4. recebido[f] <= Tamanho(f)
    BY <1>4 DEF BaseDe
  <2>5. CorteRuim(f, recebido[f])
    BY <1>1, <2>1, <2>2, <2>3, <2>4, CorteRuimE
  <2>6. recebido[f] # 0
    BY <2>1, <2>3
  <2> QED
    BY <1>4, <2>5, <2>6 DEF BaseDe
<1> QED
  BY <1>1, <1>2, <1>3, <1>4, <1>5, <1>6

LEMMA BaseDepois ==
  ASSUME FluxoInv, Historia, NEW f \in Fluxo, NEW k \in Nat, LeSozinho(f, k)
  PROVE  BaseDe(f, k, Resto(f, k), entregues[f] \o Lidos(f, k), CortesCom(f, k))
<1> DEFINE E == entregues[f]
           O == Lidos(f, k)
           s == Lido(f, k)
<1>1. /\ roteiro \in Roteiros /\ recebido[f] \in Nat /\ k > recebido[f]
      /\ s \in Seq(Tokens) /\ O \in Seq(Entregas) /\ E \in Seq(Entregas) /\ Achado(f) = sobra[f]
      /\ CorteRuim(f, k) => k \in CortesCom(f, k)
  BY Contexto
<1>2. BaseDe(f, recebido[f], sobra[f], E, cortes[f]) /\ k <= Tamanho(f)
  BY DEF LeSozinho, Sozinho, SozinhoDe
<1>3. k \in 0..Tamanho(f)
  <2>1. Tamanho(f) \in Nat
    BY <1>1, TamanhoE
  <2> QED
    BY <2>1, <1>2
<1>4. Letras(sobra[f]) \subseteq LetrasEm(f, 0, recebido[f])
  BY <1>2 DEF BaseDe
<1>5. Letras(Resto(f, k)) \subseteq LetrasEm(f, 0, k)
  <2>1. Letras(Resto(f, k)) = {s[i] : i \in TextoDe(s, Quantos(s))}
    BY <1>1, RestoE
  <2>2. \A i \in Texto(s) : s[i] \in LetrasEm(f, 0, k)
    BY <1>1, <1>4, LidoDe
  <2> HIDE DEF s
  <2>3. TextoDe(s, Quantos(s)) \subseteq Texto(s)
    BY DEF TextoDe
  <2> QED
    BY <2>1, <2>2, <2>3
<1>6. \A i \in 1..Len(E) : \E n \in Nat : /\ E[i].evento = Evento(f, n + 1)
                                          /\ FimDoCorpo(f, n + 1) <= recebido[f]
  BY <1>2 DEF BaseDe
<1>7. \A i \in 1..Len(O) : \E n \in Nat : /\ O[i].evento = Evento(f, n + 1)
                                          /\ FimDoCorpo(f, n + 1) <= k
  BY <1>1, <1>4, QuemE
<1>8. \A n \in Nat : FimDoCorpo(f, n + 1) <= recebido[f] => FimDoCorpo(f, n + 1) <= k
  <2> SUFFICES ASSUME NEW n \in Nat, FimDoCorpo(f, n + 1) <= recebido[f]
               PROVE  FimDoCorpo(f, n + 1) <= k
    OBVIOUS
  <2>1. PICK M \in Nat, p \in Nat : FimDoCorpo(f, n + 1) = M + p - 2
    <3>1. roteiro \in Roteiros
      BY <1>1
    <3>2. /\ Marca(f, n) \in Nat /\ Passo(f) \in Nat
          /\ FimDoCorpo(f, n + 1) = Marca(f, n) + Passo(f) - 2
      BY <3>1, FimE, Zenon
    <3> QED
      BY <3>2, Zenon
  <2> QED
    BY <2>1, <1>1
<1> HIDE DEF E, O
<1>9. ASSUME NEW i \in 1..Len(E \o O)
      PROVE  \E n \in Nat : /\ (E \o O)[i].evento = Evento(f, n + 1)
                            /\ FimDoCorpo(f, n + 1) <= k
  <2>1. PICK c \in Nat, d \in Nat : c = Len(E) /\ d = Len(O) /\ Len(E \o O) = c + d
    BY <1>1
  <2>2. (E \o O)[i] = IF i <= c THEN E[i] ELSE O[i - c]
    BY <2>1, <1>1
  <2>3. CASE i <= c
    BY <2>1, <2>2, <2>3, <1>6, <1>8
  <2>4. CASE i > c
    <3>1. i - c \in 1..d /\ ~(i <= c)
      BY <2>1, <2>4
    <3> QED
      BY <2>1, <2>2, <3>1, <1>7
  <2>5. i <= c \/ i > c
    BY <2>1
  <2> QED
    BY <2>3, <2>4, <2>5
<1>10. \A j \in CortesCom(f, k) : CorteRuim(f, j)
  BY DEF CortesCom
<1> QED
  BY <1>1, <1>3, <1>5, <1>9, <1>10 DEF BaseDe, E, O

LEMMA ForaDoCorte ==
  ASSUME FluxoInv, Historia, NEW f \in Fluxo, NEW k \in Nat, LeSozinho(f, k),
         NEW m \in Nat, m = 0 \/ Marca(f, m) - 1 \notin CortesCom(f, k)
  PROVE  /\ recebido[f] # Marca(f, m) - 1
         /\ m = 0 \/ Marca(f, m) - 1 \notin cortes[f]
<1>1. /\ roteiro \in Roteiros /\ recebido[f] \in Nat /\ cortes[f] \subseteq CortesCom(f, k)
      /\ \A n \in Nat : recebido[f] = Marca(f, n) + Passo(f) - 1 => recebido[f] \in cortes[f]
  BY Contexto
<1>2. CASE m = 0
  <2>1. Marca(f, m) = 0
    BY <1>1, <1>2, MarcaE
  <2> QED
    BY <2>1, <1>1, <1>2
<1>3. CASE m # 0
  <2>1. PICK w \in Nat : m = w + 1
    <3>1. m - 1 \in Nat /\ m = (m - 1) + 1
      BY <1>3
    <3> QED
      BY <3>1
  <2>2. PICK L \in Nat, p \in Nat : L = Marca(f, w) /\ p = Passo(f) /\ Marca(f, m) = L + p
    BY <2>1, <1>1, MarcaE, ZenonT(60)
  <2>3. recebido[f] = Marca(f, m) - 1 => recebido[f] = L + p - 1
    BY <2>2
  <2> QED
    BY <2>2, <2>3, <1>1, <1>3
<1> QED
  BY <1>2, <1>3

LEMMA LetrasDepois ==
  ASSUME FluxoInv, Historia, NEW f \in Fluxo, NEW k \in Nat, LeSozinho(f, k)
  PROVE  LetrasDe(f, k, Resto(f, k), CortesCom(f, k))
<1> DEFINE s == Lido(f, k)
<1>1. /\ roteiro \in Roteiros /\ recebido[f] \in Nat /\ k > recebido[f] /\ Achado(f) = sobra[f]
      /\ cortes[f] \subseteq CortesCom(f, k)
      /\ \A m \in Nat : recebido[f] = Marca(f, m) + Passo(f) - 1 => recebido[f] \in cortes[f]
  BY Contexto
<1>2. LetrasDe(f, recebido[f], sobra[f], cortes[f])
  BY DEF LeSozinho, Sozinho, SozinhoDe
<1>3. PICK r \in Nat : r = recebido[f]
  BY <1>1
<1>4. PICK p \in Nat : p = Passo(f) /\ p >= 3
  BY <1>1, MarcaE
<1> SUFFICES ASSUME NEW m \in Nat, Marca(f, m) <= k, k <= Marca(f, m) + Passo(f) - 2,
                    m = 0 \/ Marca(f, m) - 1 \notin CortesCom(f, k)
             PROVE  Letras(Resto(f, k)) = LetrasEm(f, Marca(f, m), k)
  BY DEF LetrasDe
<1>5. PICK M \in Nat : M = Marca(f, m)
  BY <1>1, MarcaE
<1>6. r # M - 1 /\ (m = 0 \/ M - 1 \notin cortes[f])
  BY <1>3, <1>5, ForaDoCorte
<1>7. M <= r => Letras(sobra[f]) = LetrasEm(f, M, r)
  <2>1. m = 0 \/ M - 1 \notin cortes[f]
    BY <1>6
  <2>2. r <= M + p - 2
    BY <1>1, <1>3, <1>4, <1>5
  <2> QED
    BY <2>1, <2>2, <1>2, <1>3, <1>4, <1>5 DEF LetrasDe
<1>8. M <= k /\ r < M + p - 2 /\ k < M + p
  BY <1>1, <1>3, <1>4, <1>5
<1>9. PICK q \in 1..Quantos(s) : /\ {s[i] : i \in TextoDe(s, q)} = LetrasEm(f, M, k)
                                 /\ q = Quantos(s)
  <2>1. \E q \in 1..Quantos(s) :
          /\ {s[i] : i \in TextoDe(s, q)} = LetrasEm(f, M, IF k < M + p THEN k ELSE M + p - 2)
          /\ k < M + p => q = Quantos(s)
    BY <1>1, <1>3, <1>4, <1>5, <1>6, <1>7, <1>8, ParteDe
  <2> QED
    BY <2>1, <1>8
<1>10. Letras(Resto(f, k)) = {s[i] : i \in TextoDe(s, Quantos(s))}
  BY <1>1, RestoE
<1> HIDE DEF s
<1> QED
  BY <1>5, <1>9, <1>10

LEMMA EntregasDepois ==
  ASSUME FluxoInv, Historia, NEW f \in Fluxo, NEW k \in Nat, LeSozinho(f, k)
  PROVE  EntregasDe(f, k, entregues[f] \o Lidos(f, k), CortesCom(f, k))
<1> DEFINE s == Lido(f, k)
           E == entregues[f]
           O == Lidos(f, k)
<1>1. /\ roteiro \in Roteiros /\ recebido[f] \in Nat /\ k > recebido[f] /\ Achado(f) = sobra[f]
      /\ s \in Seq(Tokens) /\ O \in Seq(Entregas) /\ E \in Seq(Entregas)
      /\ cortes[f] \subseteq CortesCom(f, k)
      /\ \A m \in Nat : recebido[f] = Marca(f, m) + Passo(f) - 1 => recebido[f] \in cortes[f]
  BY Contexto
<1>2. LetrasDe(f, recebido[f], sobra[f], cortes[f]) /\ EntregasDe(f, recebido[f], E, cortes[f])
  BY DEF LeSozinho, Sozinho, SozinhoDe
<1>3. PICK r \in Nat : r = recebido[f]
  BY <1>1
<1>4. PICK p \in Nat : p = Passo(f) /\ p >= 3
  BY <1>1, MarcaE
<1> SUFFICES ASSUME NEW m \in Nat, FimDoCorpo(f, m + 1) <= k,
                    m = 0 \/ Marca(f, m) - 1 \notin CortesCom(f, k)
             PROVE  \E i \in 1..Len(E \o O) : (E \o O)[i].evento = Evento(f, m + 1)
  BY DEF EntregasDe
<1>5. PICK M \in Nat : M = Marca(f, m) /\ FimDoCorpo(f, m + 1) = M + p - 2
  <2>1. roteiro \in Roteiros
    BY <1>1
  <2>2. Marca(f, m) \in Nat /\ FimDoCorpo(f, m + 1) = Marca(f, m) + Passo(f) - 2
    BY <2>1, FimE, Zenon
  <2> QED
    BY <2>2, <1>4, Zenon
<1>6. r # M - 1 /\ (m = 0 \/ M - 1 \notin cortes[f])
  BY <1>3, <1>5, ForaDoCorte
<1>7. m = 0 \/ M - 1 \notin cortes[f]
  BY <1>6
<1> HIDE DEF s, E, O
<1>8. PICK c \in Nat, d \in Nat : c = Len(E) /\ d = Len(O) /\ Len(E \o O) = c + d
  BY <1>1, SMTT(40)
<1>9. CASE M + p - 2 <= r
  <2>1. PICK i \in 1..c : E[i].evento = Evento(f, m + 1)
    BY <1>9, <1>2, <1>3, <1>5, <1>7, <1>8 DEF EntregasDe
  <2>2. i \in 1..c + d /\ (E \o O)[i] = E[i]
    BY <2>1, <1>1, <1>8
  <2> QED
    BY <2>1, <2>2, <1>8
<1>10. CASE r < M + p - 2
  <2>1. M <= r => Letras(sobra[f]) = LetrasEm(f, M, r)
    <3>1. r <= M + p - 2
      BY <1>10, <1>4
    <3> QED
      BY <3>1, <1>2, <1>3, <1>4, <1>5, <1>7 DEF LetrasDe
  <2>2. M <= k /\ M + p - 2 <= k
    BY <1>4, <1>5
  <2>3. PICK y \in Nat : y = (IF k < M + p THEN k ELSE M + p - 2) /\ y \in {M + p - 2, M + p - 1}
    <3>1. (IF k < M + p THEN k ELSE M + p - 2) \in {M + p - 2, M + p - 1}
      BY <2>2, <1>4
    <3>2. {M + p - 2, M + p - 1} \subseteq Nat
      BY <1>4
    <3> QED
      BY <3>1, <3>2
  <2>4. PICK q \in 1..Quantos(s) : {s[i] : i \in TextoDe(s, q)} = LetrasEm(f, M, y)
    <3>1. \E q \in 1..Quantos(s) :
            /\ {s[i] : i \in TextoDe(s, q)} = LetrasEm(f, M, IF k < M + p THEN k ELSE M + p - 2)
            /\ k < M + p => q = Quantos(s)
      BY <1>1, <1>3, <1>4, <1>5, <1>6, <1>10, <2>1, <2>2, ParteDe DEF s
    <3> QED
      BY <3>1, <2>3
  <2>5. PICK e \in Eventos : e = Evento(f, m + 1)
    BY <1>1, CorpoDe
  <2>6. {s[i] : i \in TextoDe(s, q)} = Letras(Corpo(e))
    BY <2>3, <2>4, <2>5, <1>1, <1>4, <1>5, LetrasDoEvento, ZenonT(60)
  <2>7. Letras(Corpo(e)) # {} /\ \A x \in Letras(Corpo(e)) : x.de = e
    BY <1>1, LetrasDoCorpo
  <2>8. q \in Completas(s)
    <3> DEFINE B == Apara(Separa(s)[q])
    <3>1. /\ B \in Seq(Tokens) /\ Letras(B) = {s[i] : i \in TextoDe(s, q)}
          /\ B = <<>> <=> TextoDe(s, q) = {}
          /\ B # <<>> =>
               \E a \in Nat :
                 /\ Ini(s, q) <= a + 1 /\ a + Len(B) <= Fim(s, q) /\ Len(B) >= 1
                 /\ a + 1 \in Texto(s) /\ a + Len(B) \in Texto(s)
                 /\ \A z \in 1..Len(B) : B[z] = s[a + z]
      BY <1>1, ParteAparada
    <3> HIDE DEF B
    <3>2. B # <<>> /\ Letras(B) = Letras(Corpo(e))
      BY <3>1, <2>6, <2>7
    <3>3. PICK a \in Nat : Len(B) >= 1 /\ a + 1 \in Texto(s) /\ B[1] = s[a + 1]
      BY <3>1, <3>2
    <3>4. B[1].parte = "texto" /\ 1 \in DOMAIN B
      BY <3>1, <3>3 DEF Texto
    <3>5. B[1] \in Letras(B)
      BY <3>4 DEF Letras
    <3>6. B[1].de = e
      BY <3>2, <3>5, <2>7
    <3>7. Completa(Separa(s)[q])
      BY <3>2, <3>6 DEF Completa, B
    <3> QED
      BY <3>7 DEF Completas
  <2>9. PICK n \in 1..Len(O) : Qual(s)[n] = q
    BY <1>1, <2>8, ObjetosE DEF O, Lidos, s
  <2>10. Letras(Corpo(O[n].evento)) = {s[i] : i \in TextoDe(s, q)} /\ O[n].evento \in Eventos
    <3>1. Letras(Corpo(O[n].evento)) = {s[i] : i \in TextoDe(s, Qual(s)[n])}
      BY <1>1, ObjetosE DEF O, Lidos, s
    <3>2. O[n] \in Entregas
      BY <1>1
    <3> QED
      BY <2>9, <3>1, <3>2 DEF Entregas
  <2>11. O[n].evento = e
    <3>1. \A x \in Letras(Corpo(O[n].evento)) : x.de = O[n].evento
      BY <2>10, <1>1, LetrasDoCorpo
    <3> QED
      BY <3>1, <2>6, <2>7, <2>10
  <2>12. c + n \in 1..c + d /\ (E \o O)[c + n] = O[n]
    BY <1>1, <1>8, SMTT(40)
  <2> QED
    BY <2>5, <2>11, <2>12, <1>8
<1>11. M + p - 2 <= r \/ r < M + p - 2
  BY <1>4
<1> QED
  BY <1>9, <1>10, <1>11

-----------------------------------------------------------------------------
(* Without bad cuts: what is read is what was sent from an event on.       *)

LEMMA AparaFica ==
  ASSUME NEW s \in Seq(Tokens),
         s # <<>> => s[1].parte = "texto" /\ s[Len(s)].parte = "texto"
  PROVE  Apara(s) = s
<1>1. DOMAIN s = 1..Len(s) /\ Len(s) \in Nat
  OBVIOUS
<1>2. CASE s = <<>>
  <2>1. Texto(s) = {}
    BY <1>2 DEF Texto
  <2> QED
    BY <2>1, <1>2, AparaE
<1>3. CASE s # <<>>
  <2>1. 1 \in Texto(s) /\ Len(s) \in Texto(s) /\ Texto(s) \subseteq 1..Len(s)
    BY <1>1, <1>3 DEF Texto
  <2> DEFINE A == Apara(s)
  <2>2. PICK c \in Nat : /\ c + Len(A) \in Texto(s) /\ Len(A) >= 1
                         /\ \A p \in 1..Len(A) : A[p] = s[c + p]
                         /\ \A i \in Texto(s) : c < i /\ i <= c + Len(A)
    BY <2>1, AparaE
  <2>3. A \in Seq(Tokens)
    BY AparaE
  <2> HIDE DEF A
  <2>4. PICK d \in Nat : d = Len(A)
    BY <2>3, SMTT(40)
  <2>5. PICK l \in Nat : l = Len(s)
    BY <1>1
  <2>51. c < 1 /\ l <= c + d /\ c + d \in 1..l
    BY <2>1, <2>2, <2>4, <2>5
  <2>6. c = 0 /\ d = Len(s)
    <3>1. c = 0 /\ d <= l /\ l <= d
      BY <2>51
    <3> QED
      BY <3>1, <2>5
  <2>7. \A p \in 1..Len(s) : A[p] = s[p]
    BY <2>2, <2>4, <2>6
  <2> QED
    BY <2>3, <2>4, <2>6, <2>7, SeqEqual DEF A
<1> QED
  BY <1>2, <1>3

LEMMA MarcaSoma ==
  ASSUME roteiro \in Roteiros, NEW f \in Fluxo, NEW m \in Nat, NEW n \in Nat
  PROVE  Marca(f, m + n) = Marca(f, m) + Marca(f, n)
<1>1. PICK p \in Nat : p = Passo(f)
  BY MarcaE
<1>2. p * (m + n) = p * m + p * n
  OBVIOUS
<1> QED
  BY <1>1, <1>2 DEF Marca

SemCorte(f, k, o, m) ==
  /\ Marca(f, o) <= recebido[f] /\ recebido[f] <= Marca(f, o) + Passo(f) - 3
  /\ Marca(f, m) <= k /\ k <= Marca(f, m) + Passo(f) - 2
  /\ Len(Lido(f, k)) = k - Marca(f, o)
  /\ \A i \in 1..k - Marca(f, o) : Lido(f, k)[i] = Enviado(f, Marca(f, o) + i)
  /\ k # Marca(f, m) /\ k < Marca(f, m) + Passo(f) - 2 => Enviado(f, k).parte = "texto"
  /\ entregues[f] = Exatas(f, o)

LEMMA LidoExato ==
  ASSUME FluxoInv, Historia, NEW f \in Fluxo, NEW k \in Nat, LeSozinho(f, k),
         CortesCom(f, k) = {}, NEW m \in Nat,
         Marca(f, m) <= k, k < Marca(f, m) + Passo(f)
  PROVE  \E o \in Nat : SemCorte(f, k, o, m)
<1> DEFINE s == Lido(f, k)
           b == sobra[f]
<1>1. /\ roteiro \in Roteiros /\ recebido[f] \in Nat /\ k > recebido[f] /\ Achado(f) = sobra[f]
      /\ cortes[f] = {} /\ ~CorteRuim(f, k)
  BY Contexto
<1>2. /\ BaseDe(f, recebido[f], b, entregues[f], cortes[f])
      /\ ExatoDe(f, recebido[f], b, entregues[f], cortes[f]) /\ k <= Tamanho(f)
  BY DEF LeSozinho, Sozinho, SozinhoDe
<1>3. PICK r \in Nat : r = recebido[f]
  BY <1>1
<1>4. PICK p \in Nat : p = Passo(f) /\ p >= 3
  BY <1>1, MarcaE
<1>5. PICK T \in Nat : T = Tamanho(f) /\ k <= T /\ r < T
  BY <1>1, <1>2, <1>3, TamanhoE
<1>6. PICK o \in Nat : Marca(f, o) <= r /\ r < Marca(f, o) + p
  BY <1>1, <1>4, MarcaDivide
<1>7. PICK O \in Nat : O = Marca(f, o)
  BY <1>1, MarcaE
<1>8. PICK M \in Nat : M = Marca(f, m)
  BY <1>1, MarcaE
<1>9. r # 0 => ~CorteRuim(f, r)
  BY <1>1, <1>2, <1>3 DEF BaseDe
<1>10. \A x \in Nat, j \in 1..p : Marca(f, x) + j <= T =>
         /\ j = p - 2 /\ Marca(f, x) + j # T => CorteRuim(f, Marca(f, x) + j)
         /\ j = p - 1 => CorteRuim(f, Marca(f, x) + j)
         /\ j < p - 2 /\ ~CorteRuim(f, Marca(f, x) + j) => Enviado(f, Marca(f, x) + j).parte = "texto"
  BY <1>1, <1>4, <1>5, CorteRuimE
<1>11. r <= O + p - 3
  <2>1. CASE r = O
    BY <2>1, <1>4
  <2>2. CASE r # O
    <3>1. PICK j \in 1..p - 1 : r = O + j
      <4>1. r - O \in 1..p - 1 /\ r = O + (r - O)
        BY <2>2, <1>4, <1>6, <1>7
      <4> QED
        BY <4>1
    <3>2. j \in 1..p /\ O + j <= T /\ O + j # T /\ r # 0
      BY <3>1, <1>4, <1>5
    <3>3. j # p - 2 /\ j # p - 1
      BY <3>1, <3>2, <1>7, <1>9, <1>10
    <3>4. j <= p - 3
      BY <3>3, <1>4
    <3> QED
      BY <3>1, <3>4, <1>4
  <2> QED
    BY <2>1, <2>2
<1>12. /\ k <= M + p - 2
       /\ k # M /\ k < M + p - 2 => Enviado(f, k).parte = "texto"
  <2>1. CASE k = M
    BY <2>1, <1>4
  <2>2. CASE k # M
    <3>1. PICK j \in 1..p - 1 : k = M + j
      <4>1. k - M \in 1..p - 1 /\ k = M + (k - M)
        BY <2>2, <1>4, <1>8
      <4> QED
        BY <4>1
    <3>2. j \in 1..p /\ M + j <= T
      BY <3>1, <1>4, <1>5
    <3>3. j # p - 1
      BY <3>1, <3>2, <1>1, <1>8, <1>10
    <3>4. j < p - 2 => Enviado(f, k).parte = "texto"
      BY <3>1, <3>2, <1>1, <1>8, <1>10
    <3>5. k < M + p - 2 => j < p - 2
      BY <3>1, <1>4
    <3>6. k <= M + p - 2
      BY <3>1, <3>3, <1>4
    <3> QED
      BY <3>4, <3>5, <3>6
  <2> QED
    BY <2>1, <2>2
<1>13. /\ b = [j \in 1..r - O |-> Enviado(f, O + j)]
       /\ entregues[f] = Exatas(f, Prontos(f, o, r))
  BY <1>1, <1>2, <1>3, <1>4, <1>6, <1>7, ZenonT(60) DEF ExatoDe
<1>14. Prontos(f, o, r) = o
  <2>1. r # O + p - 2
    BY <1>4, <1>11
  <2> QED
    BY <2>1, <1>4, <1>7 DEF Prontos
<1>14a. PICK a \in Nat : a = Len(b)
  BY <1>1, LidoSo
<1>16. /\ Len(s) = a + (k - r)
       /\ \A i \in 1..a : s[i] = b[i]
       /\ \A j \in 1..k - r : s[a + j] = Enviado(f, r + j)
  BY <1>1, <1>3, <1>14a, LidoSo
<1> HIDE DEF s, b
<1>15. a = r - O
  <2>1. r - O \in Nat
    BY <1>6, <1>7
  <2> QED
    BY <2>1, <1>13, <1>14a
<1>17. Len(s) = k - O
  BY <1>1, <1>3, <1>15, <1>16
<1>18. ASSUME NEW i \in 1..k - O
       PROVE  s[i] = Enviado(f, O + i)
  <2>1. CASE i <= a
    <3>1. i \in 1..a /\ i \in 1..r - O
      BY <2>1, <1>15
    <3> QED
      BY <3>1, <1>13, <1>16
  <2>2. CASE i > a
    <3>1. PICK j \in 1..k - r : i = a + j /\ r + j = O + i
      <4>1. i - a \in 1..k - r /\ i = a + (i - a) /\ r + (i - a) = O + i
        BY <2>2, <1>15
      <4> QED
        BY <4>1
    <3> QED
      BY <3>1, <1>16
  <2> QED
    BY <2>1, <2>2, <1>15
<1>19. SemCorte(f, k, o, m)
  BY <1>3, <1>4, <1>6, <1>7, <1>8, <1>11, <1>12, <1>13, <1>14, <1>17, <1>18 DEF SemCorte, s
<1> QED
  BY <1>19

(* Its parts: one per event begun.                                         *)
LEMMA FinsExatos ==
  ASSUME FluxoInv, Historia, NEW f \in Fluxo, NEW k \in Nat, LeSozinho(f, k),
         NEW o \in Nat, NEW m \in Nat, SemCorte(f, k, o, m)
  PROVE  /\ o <= m /\ Quantos(Lido(f, k)) = (m - o) + 1
         /\ \A n \in 1..m - o : /\ Ini(Lido(f, k), n) = Marca(f, n - 1) + 1
                                /\ Fim(Lido(f, k), n) = Marca(f, n - 1) + Passo(f) - 2
         /\ Ini(Lido(f, k), (m - o) + 1) = Marca(f, m - o) + 1
         /\ Fim(Lido(f, k), (m - o) + 1) = k - Marca(f, o)
<1> DEFINE s == Lido(f, k)
<1>1. /\ roteiro \in Roteiros /\ recebido[f] \in Nat /\ k > recebido[f] /\ Achado(f) = sobra[f]
      /\ s \in Seq(Tokens)
  BY Contexto
<1>2. PICK r \in Nat : r = recebido[f] /\ k > r
  BY <1>1
<1>3. PICK p \in Nat : p = Passo(f) /\ p >= 3
  BY <1>1, MarcaE
<1>4. PICK O \in Nat : O = Marca(f, o)
  BY <1>1, MarcaE
<1>5. PICK M \in Nat : M = Marca(f, m)
  BY <1>1, MarcaE
<1>6. O <= r /\ r <= O + p - 3 /\ M <= k /\ k <= M + p - 2
  BY <1>2, <1>3, <1>4, <1>5 DEF SemCorte
<1>61. Len(s) = k - O
  BY <1>4 DEF SemCorte
<1>7. /\ \A x \in Nat : Marca(f, x) \in Nat
      /\ \A x, y \in Nat : x < y => Marca(f, x) + p <= Marca(f, y)
      /\ Marca(f, 0) = 0
      /\ \A x \in Nat : Marca(f, x + 1) = Marca(f, x) + p
  BY <1>1, <1>3, MarcaE
<1>8. \A x \in Nat : Marca(f, o + x) = O + Marca(f, x)
  BY <1>1, <1>4, MarcaSoma, ZenonT(60)
<1>9. PICK a \in Nat : a = Len(sobra[f])
  BY <1>1, LidoSo
<1>10. /\ Len(s) = a + (k - r)
       /\ \A i \in Fins(s) : i \in Nat /\ i > a
       /\ \A j \in 1..k - r - 1 :
            a + j \in Fins(s) <=> \E x \in Nat : r + j = Marca(f, x) + p - 1
  BY <1>1, <1>2, <1>3, <1>9, LidoSo, ZenonT(60)
<1>11. /\ Fins(s) \subseteq 1..Len(s) + 1 /\ Len(s) + 1 \in Fins(s)
       /\ \A i \in 1..Len(s) : i \in Fins(s) => i < Len(s)
  BY <1>1, FinsE
<1>12. a = r - O
  <2>1. a + (k - r) = k - O
    BY <1>61, <1>10
  <2> QED
    BY <2>1
<1> HIDE DEF s
<1>13. PICK d \in Nat : m = o + d
  <2>1. ~(m < o)
    <3>1. m < o => M + p <= O
      BY <1>4, <1>5, <1>7
    <3> QED
      BY <3>1, <1>2, <1>3, <1>6
  <2>2. m - o \in Nat /\ m = o + (m - o)
    BY <2>1
  <2> QED
    BY <2>2
<1>14. M = O + Marca(f, d)
  BY <1>5, <1>8, <1>13
<1> DEFINE g == [n \in 1..d + 1 |-> IF n <= d THEN Marca(f, n - 1) + p - 1 ELSE (k - O) + 1]
<1>15. ASSUME NEW n \in 1..d
       PROVE  /\ n - 1 \in Nat /\ Marca(f, n - 1) \in Nat
              /\ O + Marca(f, n - 1) + p <= M
              /\ g[n] = Marca(f, n - 1) + p - 1 /\ g[n] \in Nat
              /\ g[n] \in Fins(s)
  <2>1. PICK x \in Nat : x = n - 1 /\ x < d
    <3>1. n - 1 \in Nat /\ n - 1 < d
      OBVIOUS
    <3> QED
      BY <3>1
  <2>2. PICK X \in Nat : X = Marca(f, x) /\ Marca(f, o + x) = O + X
    BY <1>7, <1>8
  <2>3. X + p <= Marca(f, d) /\ Marca(f, d) \in Nat
    BY <2>1, <2>2, <1>7
  <2>4. O + X + p <= M
    BY <2>3, <1>3, <1>14
  <2>5. g[n] = X + p - 1 /\ g[n] \in Nat
    <3>1. n \in 1..d + 1 /\ n <= d
      OBVIOUS
    <3> QED
      BY <3>1, <2>1, <2>2, <1>3
  <2>6. PICK j \in 1..k - r - 1 : j = O + X + p - 1 - r /\ r + j = (O + X) + p - 1 /\ a + j = X + p - 1
    <3>1. O + X + p - 1 - r >= 1 /\ O + X + p - 1 <= k - 1
      BY <2>4, <1>2, <1>3, <1>6
    <3>2. PICK j \in Nat : j = O + X + p - 1 - r
      BY <3>1
    <3>3. j \in 1..k - r - 1
      BY <3>1, <3>2, <1>2
    <3>4. r + j = (O + X) + p - 1
      BY <3>2, <1>3
    <3>5. a + j = X + p - 1
      BY <3>2, <1>3, <1>12
    <3> QED
      BY <3>2, <3>3, <3>4, <3>5
  <2>7. o + x \in Nat
    OBVIOUS
  <2>8. a + j \in Fins(s)
    BY <2>2, <2>6, <2>7, <1>10, ZenonT(60)
  <2> HIDE DEF g
  <2> QED
    BY <2>1, <2>2, <2>4, <2>5, <2>6, <2>8
<1>16. g[d + 1] = (k - O) + 1 /\ g[d + 1] \in Nat /\ g[d + 1] \in Fins(s)
  <2>1. d + 1 \in 1..d + 1 /\ ~(d + 1 <= d)
    OBVIOUS
  <2>2. (k - O) + 1 \in Nat
    BY <1>2, <1>6
  <2> QED
    BY <2>1, <2>2, <1>61, <1>11
<1> HIDE DEF g
<1>17. ASSUME NEW i \in Fins(s), i # (k - O) + 1
       PROVE  \E n \in 1..d : i = g[n]
  <2>1. i \in 1..Len(s) + 1 /\ i \in Nat /\ i > a
    BY <1>10, <1>11
  <2>2. Len(s) \in Nat /\ Len(s) = k - O
    BY <1>1, <1>61
  <2>3. i \in 1..Len(s)
    BY <2>1, <2>2, <1>17
  <2>4. i < Len(s)
    BY <2>3, <1>11
  <2>5. PICK j \in 1..k - r - 1 : i = a + j
    <3>1. i - a \in 1..k - r - 1 /\ i = a + (i - a)
      BY <2>1, <2>2, <2>4, <1>10
    <3> QED
      BY <3>1
  <2>6. PICK x \in Nat : r + j = Marca(f, x) + p - 1
    BY <2>5, <1>10
  <2>7. PICK X \in Nat : X = Marca(f, x)
    BY <1>7
  <2>8. ~(x < o)
    <3> SUFFICES ASSUME x < o
                 PROVE  FALSE
      OBVIOUS
    <3>1. X + p <= O
      BY <2>7, <1>4, <1>7
    <3>2. r + j = X + p - 1
      BY <2>6, <2>7
    <3> QED
      BY <3>1, <3>2, <1>3, <1>6
  <2>9. x < m
    <3>1. m < x => M + p <= X
      BY <2>7, <1>5, <1>7
    <3>2. m = x => X = M
      BY <2>7, <1>5
    <3>3. r + j <= k - 1 /\ r + j = X + p - 1
      BY <2>5, <2>6, <2>7
    <3>31. X <= k - p
      BY <3>3, <1>3
    <3>4. ~(m < x) /\ m # x
      BY <3>1, <3>2, <3>31, <1>3, <1>6
    <3> QED
      BY <3>4
  <2>10. PICK y \in Nat : x = o + y /\ y < d
    <3>1. x - o \in Nat /\ x = o + (x - o) /\ x - o < d
      BY <2>8, <2>9, <1>13
    <3> QED
      BY <3>1
  <2>11. PICK Y \in Nat : Y = Marca(f, y) /\ X = O + Y
    BY <2>7, <2>10, <1>7, <1>8
  <2>12. i = Y + p - 1
    BY <2>5, <2>6, <2>7, <2>11, <1>3, <1>12
  <2>13. PICK n \in 1..d : n - 1 = y
    <3>1. y + 1 \in 1..d /\ (y + 1) - 1 = y
      BY <2>10
    <3> QED
      BY <3>1
  <2> QED
    BY <2>11, <2>12, <2>13, <1>15
<1>18. ASSUME NEW x \in 1..d + 1, NEW y \in 1..d + 1, x < y
       PROVE  g[x] < g[y]
  <2>1. x \in 1..d
    BY <1>18
  <2>2. PICK X \in Nat : X = Marca(f, x - 1) /\ g[x] = X + p - 1 /\ O + X + p <= M
    BY <2>1, <1>15
  <2>3. CASE y = d + 1
    <3>1. X + p - 1 < (k - O) + 1
      BY <2>2, <1>3, <1>6
    <3> QED
      BY <3>1, <2>2, <2>3, <1>16
  <2>4. CASE y # d + 1
    <3>1. y \in 1..d
      BY <2>4
    <3>2. PICK Y \in Nat : Y = Marca(f, y - 1) /\ g[y] = Y + p - 1
      BY <3>1, <1>15
    <3>3. x - 1 \in Nat /\ y - 1 \in Nat /\ x - 1 < y - 1
      BY <2>1, <3>1, <1>18
    <3>4. X + p <= Y
      BY <2>2, <3>2, <3>3, <1>7
    <3> QED
      BY <2>2, <3>2, <3>4, <1>3
  <2> QED
    BY <2>3, <2>4
<1>19. /\ \A n \in 1..d + 1 : g[n] \in Fins(s)
      /\ \A i \in Fins(s) : \E n \in 1..d + 1 : i = g[n]
  <2>1. \A n \in 1..d + 1 : n \in 1..d \/ n = d + 1
    OBVIOUS
  <2>2. d + 1 \in 1..d + 1 /\ \A n \in 1..d : n \in 1..d + 1
    OBVIOUS
  <2> QED
    BY <2>1, <2>2, <1>15, <1>16, <1>17
<1>20. Quantos(s) = d + 1 /\ \A n \in 1..d + 1 : Ordem(Fins(s))[n] = g[n]
  <2>1. \A n \in 1..d + 1 : n \in 1..d \/ n = d + 1
    OBVIOUS
  <2>2. d + 1 \in Nat /\ \A n \in 1..d + 1 : g[n] \in Nat
    BY <2>1, <1>15, <1>16
  <2>3. \A x, y \in 1..d + 1 : x < y => g[x] < g[y]
    BY <1>18
  <2>4. Cardinality(Fins(s)) = d + 1 /\ \A n \in 1..d + 1 : Ordem(Fins(s))[n] = g[n]
    <3>1. PICK N \in Nat : N = d + 1
      BY <2>2
    <3>2. /\ \A n \in 1..N : g[n] \in Nat
          /\ \A x, y \in 1..N : x < y => g[x] < g[y]
          /\ \A n \in 1..N : g[n] \in Fins(s)
          /\ \A i \in Fins(s) : \E n \in 1..N : i = g[n]
      BY <3>1, <2>2, <2>3, <1>19
    <3>3. Cardinality(Fins(s)) = N /\ \A n \in 1..N : Ordem(Fins(s))[n] = g[n]
      BY <3>2, OrdemUnica
    <3> QED
      BY <3>1, <3>3
  <2> QED
    BY <2>4 DEF Quantos
<1>21. ASSUME NEW n \in 1..d + 1
       PROVE  Ini(s, n) = Marca(f, n - 1) + 1
  <2>1. CASE n = 1
    BY <2>1, <1>7 DEF Ini
  <2>2. CASE n # 1
    <3>1. PICK x \in 1..d : n = x + 1 /\ n - 1 = x
      <4>1. n - 1 \in 1..d /\ n = (n - 1) + 1
        BY <2>2
      <4> QED
        BY <4>1
    <3>2. x \in 1..d + 1
      OBVIOUS
    <3>3. Ini(s, n) = g[x] + 2
      BY <2>2, <3>1, <3>2, <1>20 DEF Ini
    <3>4. PICK X \in Nat : X = Marca(f, x - 1) /\ g[x] = X + p - 1 /\ x - 1 \in Nat
      BY <1>15
    <3>5. Marca(f, x) = X + p
      <4>1. (x - 1) + 1 = x
        OBVIOUS
      <4> QED
        BY <4>1, <3>4, <1>7
    <3> QED
      BY <3>1, <3>3, <3>4, <3>5, <1>3
  <2> QED
    BY <2>1, <2>2
<1>22. ASSUME NEW n \in 1..d
       PROVE  Fim(s, n) = Marca(f, n - 1) + p - 2
  <2>1. n \in 1..d + 1
    OBVIOUS
  <2>2. PICK X \in Nat : X = Marca(f, n - 1) /\ g[n] = X + p - 1
    BY <1>15
  <2>3. Fim(s, n) = g[n] - 1
    BY <2>1, <1>20 DEF Fim
  <2> QED
    BY <2>2, <2>3, <1>3
<1>23. Fim(s, d + 1) = k - O
  <2>1. d + 1 \in 1..d + 1
    OBVIOUS
  <2>2. Fim(s, d + 1) = g[d + 1] - 1
    BY <2>1, <1>20 DEF Fim
  <2> QED
    BY <2>2, <1>16
<1>24. Ini(s, d + 1) = Marca(f, d) + 1
  <2>1. d + 1 \in 1..d + 1 /\ (d + 1) - 1 = d
    OBVIOUS
  <2> QED
    BY <2>1, <1>21
<1>25. m - o = d /\ o <= m /\ \A n \in 1..d : n \in 1..d + 1
  BY <1>13
<1> QED
  BY <1>3, <1>4, <1>20, <1>21, <1>22, <1>23, <1>24, <1>25 DEF s

Quanto(f, k, o, m, n) == IF n <= m - o THEN Passo(f) - 2 ELSE k - Marca(f, m)

LEMMA PartesExatas ==
  ASSUME FluxoInv, Historia, NEW f \in Fluxo, NEW k \in Nat, LeSozinho(f, k),
         NEW o \in Nat, NEW m \in Nat, SemCorte(f, k, o, m), NEW n \in 1..(m - o) + 1
  PROVE  LET B == Separa(Lido(f, k))[n]
             L == Quanto(f, k, o, m, n)
             e == Evento(f, o + n)
         IN  /\ e \in Eventos /\ B \in Seq(Tokens) /\ L \in 0..Passo(f) - 2 /\ Len(B) = L
             /\ \A j \in 1..L : B[j] = Corpo(e)[j]
             /\ Corpo(e) \in Seq(Tokens) /\ Len(Corpo(e)) = Passo(f) - 2
             /\ \A j \in 1..Passo(f) - 2 : Corpo(e)[j].k = j /\ Corpo(e)[j].de = e
             /\ Corpo(e)[Passo(f) - 2].parte = "texto"
             /\ Apara(B) = B
<1> DEFINE s == Lido(f, k)
           B == Separa(s)[n]
<1>1. roteiro \in Roteiros /\ s \in Seq(Tokens) /\ recebido[f] \in Nat /\ k > recebido[f]
  BY Contexto
<1>2. PICK p \in Nat : p = Passo(f) /\ p >= 3
  BY <1>1, MarcaE
<1>3. PICK O \in Nat : O = Marca(f, o)
  BY <1>1, MarcaE
<1>4. PICK M \in Nat : M = Marca(f, m)
  BY <1>1, MarcaE
<1>5. M <= k /\ k <= M + p - 2
  BY <1>2, <1>4 DEF SemCorte
<1>6. /\ \A i \in 1..k - O : s[i] = Enviado(f, O + i)
      /\ k # M /\ k < M + p - 2 => Enviado(f, k).parte = "texto"
  BY <1>2, <1>3, <1>4 DEF SemCorte
<1>7. /\ o <= m /\ Quantos(s) = (m - o) + 1
      /\ \A x \in 1..m - o : Ini(s, x) = Marca(f, x - 1) + 1 /\ Fim(s, x) = Marca(f, x - 1) + p - 2
      /\ Ini(s, (m - o) + 1) = Marca(f, m - o) + 1 /\ Fim(s, (m - o) + 1) = k - O
  BY <1>2, <1>3, FinsExatos
<1>8. PICK d \in Nat : d = m - o /\ m = o + d
  <2>1. m - o \in Nat /\ m = o + (m - o)
    BY <1>7
  <2> QED
    BY <2>1
<1> HIDE DEF s
<1>9. n \in 1..d + 1
  BY <1>8
<1>10. PICK x \in Nat : n = x + 1 /\ n - 1 = x /\ x <= d
  <2>1. n - 1 \in Nat /\ n = (n - 1) + 1 /\ n - 1 <= d
    BY <1>9
  <2> QED
    BY <2>1
<1>11. PICK X \in Nat : X = Marca(f, x) /\ Marca(f, o + x) = O + X
  <2>1. Marca(f, x) \in Nat
    BY <1>1, MarcaE
  <2>2. Marca(f, o + x) = O + Marca(f, x)
    BY <1>1, <1>3, MarcaSoma
  <2> QED
    BY <2>1, <2>2
<1>12. /\ x < d => O + X + p <= M
       /\ x = d => O + X = M
  <2>1. x < d => o + x < m
    BY <1>8
  <2>2. o + x < m => (O + X) + p <= M
    <3>1. o + x \in Nat
      OBVIOUS
    <3>2. o + x < m => Marca(f, o + x) + Passo(f) <= Marca(f, m)
      BY <3>1, <1>1, MarcaE
    <3> QED
      BY <3>2, <1>2, <1>4, <1>11
  <2>3. x = d => O + X = M
    BY <1>4, <1>8, <1>11
  <2> QED
    BY <2>1, <2>2, <2>3
<1>13. PICK L \in Nat : L = Quanto(f, k, o, m, n) /\ L <= p - 2
                        /\ (x < d => L = p - 2) /\ (x = d => L = k - M)
  <2>1. n <= m - o <=> x < d
    BY <1>8, <1>10
  <2>2. CASE x < d
    <3>1. Quanto(f, k, o, m, n) = p - 2 /\ p - 2 \in Nat
      BY <2>1, <2>2, <1>2 DEF Quanto
    <3> QED
      BY <3>1, <2>2
  <2>3. CASE x = d
    <3>1. Quanto(f, k, o, m, n) = k - M
      BY <2>1, <2>3, <1>4 DEF Quanto
    <3>2. k - M \in Nat /\ k - M <= p - 2
      BY <1>5, <1>2
    <3> QED
      BY <3>1, <3>2, <2>3
  <2> QED
    BY <2>2, <2>3, <1>10
<1>14. Ini(s, n) = X + 1 /\ Fim(s, n) = X + L
  <2>1. CASE x < d
    <3>1. n \in 1..m - o
      BY <2>1, <1>8, <1>10
    <3>2. Ini(s, n) = X + 1 /\ Fim(s, n) = X + p - 2
      BY <3>1, <1>7, <1>10, <1>11
    <3> QED
      BY <3>2, <2>1, <1>2, <1>13
  <2>2. CASE x = d
    <3>1. n = (m - o) + 1 /\ m - o = x
      BY <2>2, <1>8, <1>10
    <3>2. Ini(s, n) = X + 1 /\ Fim(s, n) = k - O
      BY <3>1, <1>7, <1>11
    <3>3. k - O = X + L
      BY <2>2, <1>12, <1>13
    <3> QED
      BY <3>2, <3>3
  <2> QED
    BY <2>1, <2>2, <1>10
<1>15. X + L <= k - O
  <2>1. CASE x < d
    BY <2>1, <1>2, <1>5, <1>12, <1>13
  <2>2. CASE x = d
    BY <2>2, <1>12, <1>13
  <2> QED
    BY <2>1, <2>2, <1>10
<1>16. n \in 1..Quantos(s)
  BY <1>7
<1>17. /\ B \in Seq(Tokens)
       /\ Len(B) = IF Fim(s, n) >= Ini(s, n) THEN Fim(s, n) - Ini(s, n) + 1 ELSE 0
       /\ \A j \in 1..Len(B) : B[j] = s[Ini(s, n) + j - 1]
  BY <1>1, <1>16, ParteE
<1> HIDE DEF B
<1>18. Len(B) = L
  BY <1>14, <1>17, SMTT(40)
<1>19. PICK e \in Eventos : /\ e = Evento(f, o + n) /\ e = Evento(f, (o + x) + 1)
                            /\ Corpo(e) \in Seq(Tokens) /\ Len(Corpo(e)) = p - 2
                            /\ \A j \in 1..p - 2 : Corpo(e)[j].k = j /\ Corpo(e)[j].de = e
                            /\ Corpo(e)[1].parte = "texto" /\ Corpo(e)[p - 2].parte = "texto"
  <2>1. PICK w \in Nat : w = o + x /\ o + n = w + 1
    <3>1. o + n = (o + x) + 1 /\ o + x \in Nat
      BY <1>10
    <3> QED
      BY <3>1
  <2> DEFINE e == Evento(f, w + 1)
  <2>2. /\ e \in Eventos /\ Corpo(e) \in Seq(Tokens) /\ Len(Corpo(e)) = p - 2
        /\ \A j \in 1..p - 2 : Corpo(e)[j].k = j /\ Corpo(e)[j].de = e
        /\ Corpo(e)[1].parte = "texto" /\ Corpo(e)[p - 2].parte = "texto"
    BY <1>1, <1>2, CorpoDe, SMTT(40)
  <2>3. e = Evento(f, o + n) /\ e = Evento(f, (o + x) + 1)
    BY <2>1
  <2> HIDE DEF e
  <2> QED
    BY <2>2, <2>3
<1>20. ASSUME NEW j \in 1..L
       PROVE  B[j] = Corpo(e)[j] /\ B[j] = Enviado(f, (O + X) + j)
  <2>1. Ini(s, n) + j - 1 = X + j /\ X + j \in 1..k - O
    BY <1>14, <1>15
  <2>2. B[j] = s[X + j]
    BY <2>1, <1>17, <1>18
  <2>3. s[X + j] = Enviado(f, O + (X + j))
    BY <2>1, <1>6
  <2>4. O + (X + j) = (O + X) + j
    OBVIOUS
  <2>5. j \in 1..p /\ j <= p - 2 /\ o + x \in Nat
    BY <1>2, <1>13
  <2>6. Enviado(f, (O + X) + j) = Corpo(e)[j]
    BY <2>5, <1>1, <1>2, <1>11, <1>19, EnviadoNo
  <2> QED
    BY <2>2, <2>3, <2>4, <2>6
<1>21. Apara(B) = B
  <2>1. ASSUME B # <<>>
        PROVE  B[1].parte = "texto" /\ B[Len(B)].parte = "texto"
    <3>1. L \in 1..L /\ 1 \in 1..L
      BY <2>1, <1>17, <1>18
    <3>2. B[1].parte = "texto"
      BY <3>1, <1>19, <1>20
    <3>3. CASE L = p - 2
      BY <3>1, <3>2, <3>3, <1>18, <1>19, <1>20
    <3>4. CASE L # p - 2
      <4>1. x = d
        BY <3>4, <1>10, <1>13
      <4>2. L = k - M /\ O + X = M
        BY <4>1, <1>12, <1>13
      <4>3. (O + X) + L = k /\ k # M /\ k < M + p - 2
        BY <3>1, <3>4, <4>2, <1>2, <1>5
      <4>4. B[L] = Enviado(f, k)
        BY <3>1, <4>3, <1>20
      <4> QED
        BY <3>2, <4>3, <4>4, <1>6, <1>18
    <3> QED
      BY <3>3, <3>4
  <2> QED
    BY <2>1, <1>17, AparaFica
<1>22. L \in 0..Passo(f) - 2
  BY <1>2, <1>13
<1> QED
  BY <1>2, <1>13, <1>17, <1>18, <1>19, <1>20, <1>21, <1>22 DEF B, s

(* The whole ones are objects, in order and intact.                        *)
LEMMA CompletasExatas ==
  ASSUME FluxoInv, Historia, NEW f \in Fluxo, NEW k \in Nat, LeSozinho(f, k),
         NEW o \in Nat, NEW m \in Nat, SemCorte(f, k, o, m), NEW n \in 1..(m - o) + 1
  PROVE  LET B == Separa(Lido(f, k))[n]
         IN  /\ Completa(B) <=> Quanto(f, k, o, m, n) = Passo(f) - 2
             /\ Completa(B) => Objeto(B) = [evento |-> Evento(f, o + n), integro |-> TRUE]
<1> DEFINE B == Separa(Lido(f, k))[n]
           c == Corpo(Evento(f, o + n))
<1>1. PICK p \in Nat : p = Passo(f) /\ p >= 3
  BY Contexto, MarcaE
<1>2. PICK L \in 0..p - 2 : L = Quanto(f, k, o, m, n)
  BY <1>1, PartesExatas
<1>3. PICK e \in Eventos : e = Evento(f, o + n)
  BY PartesExatas
<1>4. /\ B \in Seq(Tokens) /\ Len(B) = L /\ Apara(B) = B
      /\ \A j \in 1..L : B[j] = c[j]
      /\ c \in Seq(Tokens) /\ Len(c) = p - 2
      /\ \A j \in 1..p - 2 : c[j].k = j /\ c[j].de = e
      /\ c[p - 2].parte = "texto" /\ c = Corpo(e)
  <2>1. /\ B \in Seq(Tokens) /\ Len(B) = Quanto(f, k, o, m, n) /\ Apara(B) = B
        /\ \A j \in 1..Quanto(f, k, o, m, n) : B[j] = c[j]
        /\ c \in Seq(Tokens) /\ Len(c) = Passo(f) - 2
        /\ \A j \in 1..Passo(f) - 2 : c[j].k = j /\ c[j].de = Evento(f, o + n)
        /\ c[Passo(f) - 2].parte = "texto" /\ c = Corpo(Evento(f, o + n))
    <3>1. /\ B \in Seq(Tokens) /\ Len(B) = Quanto(f, k, o, m, n) /\ Apara(B) = B
      BY PartesExatas, SMTT(40)
    <3>2. \A j \in 1..Quanto(f, k, o, m, n) : B[j] = c[j]
      BY PartesExatas, SMTT(40)
    <3>3. PICK y \in Nat \ {0} : y = o + n
      OBVIOUS
    <3>4. roteiro \in Roteiros
      BY Contexto
    <3>5. /\ Corpo(Evento(f, y)) \in Seq(Tokens) /\ Len(Corpo(Evento(f, y))) = Passo(f) - 2
          /\ \A j \in 1..Passo(f) - 2 : /\ Corpo(Evento(f, y))[j].k = j
                                         /\ Corpo(Evento(f, y))[j].de = Evento(f, y)
          /\ Corpo(Evento(f, y))[Passo(f) - 2].parte = "texto"
      BY <3>4, CorpoDoEvento
    <3>6. /\ c \in Seq(Tokens) /\ Len(c) = Passo(f) - 2
          /\ \A j \in 1..Passo(f) - 2 : c[j].k = j /\ c[j].de = Evento(f, o + n)
          /\ c[Passo(f) - 2].parte = "texto"
      BY <3>3, <3>5, Zenon
    <3> QED
      BY <3>1, <3>2, <3>6, Zenon
  <2> HIDE DEF B, c
  <2> QED
    BY <2>1, <1>1, <1>2, <1>3, Zenon
<1> HIDE DEF B, c
<1>5. L >= 1 => B[1].de = e
  <2>1. L >= 1 => 1 \in 1..L /\ 1 \in 1..p - 2
    BY <1>1
  <2> QED
    BY <2>1, <1>4
<1>6. CASE L = p - 2
  <2>1. B = c
    <3>1. Len(B) = Len(c) /\ \A j \in 1..Len(B) : B[j] = c[j]
      BY <1>4, <1>6
    <3> QED
      BY <3>1, <1>4, SeqEqual
  <2>2. L >= 1 /\ B # <<>>
    BY <1>1, <1>4, <1>6
  <2>3. Completa(B)
    BY <2>1, <2>2, <1>4, <1>5 DEF Completa
  <2>4. Objeto(B) = [evento |-> e, integro |-> TRUE]
    BY <2>1, <2>2, <1>4, <1>5 DEF Objeto
  <2> QED
    BY <2>3, <2>4, <1>1, <1>2, <1>3, <1>6 DEF B
<1>7. CASE L # p - 2
  <2>1. ~Completa(B)
    <3> SUFFICES ASSUME Completa(B)
                 PROVE  FALSE
      OBVIOUS
    <3>1. B # <<>> /\ Letras(B) = Letras(Corpo(B[1].de))
      BY <1>4 DEF Completa
    <3>2. L >= 1
      BY <3>1, <1>4
    <3>3. Letras(B) = Letras(c)
      BY <3>1, <3>2, <1>4, <1>5
    <3>4. p - 2 \in 1..p - 2 /\ p - 2 \in DOMAIN c
      BY <1>1, <1>4
    <3>5. c[p - 2] \in Letras(c)
      BY <3>4, <1>4 DEF Letras
    <3>6. PICK j \in 1..L : c[p - 2] = B[j]
      <4>1. c[p - 2] \in Letras(B)
        BY <3>3, <3>5
      <4>2. DOMAIN B = 1..L
        BY <1>4
      <4> QED
        BY <4>1, <4>2 DEF Letras
    <3>7. j \in 1..p - 2 /\ c[p - 2] = c[j]
      BY <3>6, <1>1, <1>4
    <3>8. p - 2 = j
      <4>1. c[p - 2].k = p - 2 /\ c[j].k = j
        BY <3>4, <3>7, <1>4
      <4> QED
        BY <4>1, <3>7
    <3> QED
      BY <3>6, <3>8, <1>1, <1>7
  <2> QED
    BY <2>1, <1>1, <1>2, <1>7 DEF B
<1> QED
  BY <1>6, <1>7

LEMMA ExatoDepois ==
  ASSUME FluxoInv, Historia, NEW f \in Fluxo, NEW k \in Nat, LeSozinho(f, k)
  PROVE  ExatoDe(f, k, Resto(f, k), entregues[f] \o Lidos(f, k), CortesCom(f, k))
<1> SUFFICES ASSUME NEW m \in Nat, CortesCom(f, k) = {}, Marca(f, m) <= k,
                    k < Marca(f, m) + Passo(f)
             PROVE  /\ Resto(f, k) = [j \in 1..k - Marca(f, m) |-> Enviado(f, Marca(f, m) + j)]
                    /\ entregues[f] \o Lidos(f, k) = Exatas(f, Prontos(f, m, k))
  BY DEF ExatoDe
<1> DEFINE s == Lido(f, k)
           O == Lidos(f, k)
<1>1. /\ roteiro \in Roteiros /\ s \in Seq(Tokens) /\ O \in Seq(Entregas)
      /\ recebido[f] \in Nat /\ k > recebido[f]
  BY Contexto
<1>2. PICK o \in Nat : SemCorte(f, k, o, m)
  BY LidoExato
<1>3. PICK p \in Nat : p = Passo(f) /\ p >= 3
  BY <1>1, MarcaE
<1>4. PICK M \in Nat : M = Marca(f, m)
  BY <1>1, MarcaE
<1>5. M <= k /\ k <= M + p - 2 /\ entregues[f] = Exatas(f, o)
  BY <1>2, <1>3, <1>4 DEF SemCorte
<1>6. PICK d \in Nat : d = m - o /\ m = o + d /\ Quantos(s) = d + 1
  <2>1. o <= m /\ Quantos(s) = (m - o) + 1
    BY <1>2, FinsExatos
  <2>2. m - o \in Nat /\ m = o + (m - o)
    BY <2>1
  <2> QED
    BY <2>1, <2>2
<1>7. \A n \in 1..d + 1 :
        /\ Completa(Separa(s)[n]) <=> Quanto(f, k, o, m, n) = p - 2
        /\ Completa(Separa(s)[n]) =>
             Objeto(Separa(s)[n]) = [evento |-> Evento(f, o + n), integro |-> TRUE]
  BY <1>2, <1>3, <1>6, CompletasExatas
<1>8. PICK P \in Nat : P = (IF k = M + p - 2 THEN d + 1 ELSE d)
  OBVIOUS
<1>9. Prontos(f, m, k) = o + P
  BY <1>3, <1>4, <1>6, <1>8 DEF Prontos
<1>10. \A n \in 1..d + 1 : Completa(Separa(s)[n]) <=> n <= P
  <2> SUFFICES ASSUME NEW n \in 1..d + 1
               PROVE  Quanto(f, k, o, m, n) = p - 2 <=> n <= P
    BY <1>7
  <2>1. CASE n <= d
    BY <2>1, <1>3, <1>6, <1>8 DEF Quanto
  <2>2. CASE ~(n <= d)
    <3>1. n = d + 1 /\ Quanto(f, k, o, m, n) = k - M
      BY <2>2, <1>4, <1>6 DEF Quanto
    <3>2. k - M = p - 2 <=> k = M + p - 2
      BY <1>3
    <3> QED
      BY <3>1, <3>2, <1>8
  <2> QED
    BY <2>1, <2>2
<1>11. P <= d + 1
  BY <1>8
<1>12. DOMAIN Separa(s) = 1..d + 1
  BY <1>1, <1>6, SeparaE
<1> DEFINE C == {i \in DOMAIN Separa(s) : Completa(Separa(s)[i])}
<1>13. Cardinality(C) = P /\ \A n \in 1..P : Ordem(C)[n] = n
  <2> DEFINE g == [n \in 1..P |-> n]
  <2>1. \A n \in 1..P : g[n] = n /\ g[n] \in Nat /\ n \in 1..d + 1 /\ n <= P
    BY <1>11
  <2>2. \A n \in 1..P : g[n] \in C
    BY <2>1, <1>10, <1>12
  <2>3. \A i \in C : i \in 1..P
    <3> SUFFICES ASSUME NEW i \in C
                 PROVE  i \in 1..P
      OBVIOUS
    <3>1. i \in 1..d + 1 /\ i <= P
      BY <1>10, <1>12
    <3> QED
      BY <3>1
  <2> HIDE DEF g, C
  <2>4. \A x, y \in 1..P : x < y => g[x] < g[y]
    BY <2>1
  <2>5. \A i \in C : \E n \in 1..P : i = g[n]
    BY <2>1, <2>3
  <2>6. Cardinality(C) = P /\ \A n \in 1..P : Ordem(C)[n] = g[n]
    BY <2>1, <2>2, <2>4, <2>5, OrdemUnica
  <2> QED
    BY <2>1, <2>6
<1>14. DOMAIN Ordem(C) = 1..P
  BY <1>13 DEF Ordem
<1>15. O = [n \in DOMAIN Ordem(C) |-> Objeto(Separa(s)[Ordem(C)[n]])]
  BY DEF Lidos, Objetos
<1> HIDE DEF C, O
<1>16. Len(O) = P /\ \A n \in 1..P : O[n] = [evento |-> Evento(f, o + n), integro |-> TRUE]
  <2>1. O = [n \in 1..P |-> Objeto(Separa(s)[Ordem(C)[n]])]
    BY <1>14, <1>15
  <2>2. \A n \in 1..P : O[n] = Objeto(Separa(s)[n])
    BY <2>1, <1>13
  <2>3. \A n \in 1..P : n \in 1..d + 1 /\ n <= P
    BY <1>11
  <2>4. Len(O) = P
    BY <2>1, <1>1
  <2> HIDE DEF s
  <2> QED
    BY <2>2, <2>3, <2>4, <1>7, <1>10
<1>17. \A z \in Nat : Exatas(f, z) \in Seq(Entregas) /\ Len(Exatas(f, z)) = z
                      /\ \A n \in 1..z : Exatas(f, z)[n] = [evento |-> Evento(f, n), integro |-> TRUE]
  <2> SUFFICES ASSUME NEW z \in Nat
               PROVE  Exatas(f, z) \in Seq(Entregas) /\ Len(Exatas(f, z)) = z
                      /\ \A n \in 1..z : Exatas(f, z)[n] = [evento |-> Evento(f, n), integro |-> TRUE]
    OBVIOUS
  <2>1. \A n \in 1..z : [evento |-> Evento(f, n), integro |-> TRUE] \in Entregas
    BY DEF Entregas, Eventos, Evento
  <2> QED
    BY <2>1 DEF Exatas
<1>18. Exatas(f, o) \o O = Exatas(f, o + P)
  <2>1. PICK E \in Seq(Entregas) : E = Exatas(f, o) /\ Len(E) = o
    BY <1>17
  <2>2. PICK F \in Seq(Entregas) : F = Exatas(f, o + P) /\ Len(F) = o + P
    BY <1>17
  <2>3. /\ E \o O \in Seq(Entregas) /\ Len(E \o O) = o + P
        /\ \A i \in 1..o + P : (E \o O)[i] = IF i <= o THEN E[i] ELSE O[i - o]
    <3>1. /\ E \o O \in Seq(Entregas) /\ Len(E \o O) = Len(E) + Len(O)
          /\ \A i \in 1..Len(E) + Len(O) : (E \o O)[i] = IF i <= Len(E) THEN E[i] ELSE O[i - Len(E)]
      BY <2>1, <1>1, ConcatProperties, ZenonT(60)
    <3> QED
      BY <3>1, <2>1, <1>16
  <2>4. ASSUME NEW i \in 1..o + P
        PROVE  (E \o O)[i] = F[i]
    <3>1. F[i] = [evento |-> Evento(f, i), integro |-> TRUE]
      <4>1. o + P \in Nat
        OBVIOUS
      <4> QED
        BY <4>1, <2>2, <1>17
    <3>2. CASE i <= o
      <4>1. i \in 1..o
        BY <3>2
      <4>2. E[i] = [evento |-> Evento(f, i), integro |-> TRUE]
        BY <4>1, <2>1, <1>17
      <4> QED
        BY <3>1, <3>2, <4>2, <2>3
    <3>3. CASE i > o
      <4>1. PICK n \in 1..P : n = i - o /\ i = o + n /\ ~(i <= o)
        <5>1. i - o \in 1..P /\ i = o + (i - o) /\ ~(i <= o)
          BY <3>3
        <5> QED
          BY <5>1
      <4>2. O[n] = [evento |-> Evento(f, i), integro |-> TRUE]
        BY <4>1, <1>16
      <4> QED
        BY <3>1, <4>1, <4>2, <2>3
    <3>4. i <= o \/ i > o
      OBVIOUS
    <3> QED
      BY <3>2, <3>3, <3>4
  <2> QED
    BY <2>1, <2>2, <2>3, <2>4, SeqEqual
<1>19. Resto(f, k) = [j \in 1..k - M |-> Enviado(f, M + j)]
  <2>1. PICK n \in 1..d + 1 : n = d + 1
    OBVIOUS
  <2>2. Resto(f, k) = Apara(Separa(s)[n])
    BY <2>1, <1>1, <1>6, RestoE
  <2> DEFINE B == Separa(s)[n]
             c == Corpo(Evento(f, o + n))
  <2>3. Quanto(f, k, o, m, n) = k - M
    BY <2>1, <1>4, <1>6 DEF Quanto
  <2>4. /\ B \in Seq(Tokens) /\ Len(B) = Quanto(f, k, o, m, n) /\ Apara(B) = B
        /\ \A j \in 1..Quanto(f, k, o, m, n) : B[j] = c[j]
    <3>1. n \in 1..(m - o) + 1
      BY <1>6
    <3> QED
      BY <3>1, <1>2, PartesExatas
  <2>5. c = Corpo(Evento(f, m + 1))
    BY <2>1, <1>6
  <2> HIDE DEF B, c
  <2>6. ASSUME NEW j \in 1..k - M
        PROVE  B[j] = Enviado(f, M + j)
    <3>1. j \in 1..p /\ j <= p - 2
      BY <1>3, <1>5
    <3>2. Enviado(f, M + j) = c[j]
      BY <3>1, <2>5, <1>1, <1>3, <1>4, EnviadoNo
    <3> QED
      BY <3>2, <2>3, <2>4
  <2>7. DOMAIN B = 1..k - M /\ B = [j \in DOMAIN B |-> B[j]]
    BY <2>3, <2>4
  <2>8. B = [j \in 1..k - M |-> Enviado(f, M + j)]
    BY <2>6, <2>7
  <2> QED
    BY <2>2, <2>4, <2>8 DEF B
<1> QED
  BY <1>4, <1>5, <1>9, <1>18, <1>19 DEF O

-----------------------------------------------------------------------------
(* The invariant holds, and gives what a stream alone is handed over.      *)

LEMMA DepoisSozinho ==
  ASSUME FluxoInv, Historia, NEW f \in Fluxo, NEW k \in Nat, LeSozinho(f, k)
  PROVE  SozinhoDe(f, k, Resto(f, k), entregues[f] \o Lidos(f, k), CortesCom(f, k))
BY BaseDepois, LetrasDepois, EntregasDepois, ExatoDepois DEF SozinhoDe

LEMMA LeExata ==
  ASSUME ExataInv, NEW f \in Fluxo, NEW k \in Nat, Le(f, k)
  PROVE  Historia' /\ Sozinhos'
<1>1. FluxoInv /\ Historia /\ Sozinhos
  BY DEF ExataInv
<1>2. /\ k \in recebido[f] + 1..Tamanho(f)
      /\ alheio' = [alheio EXCEPT ![f] = @ \/ Achado(f) # sobra[f]]
      /\ sobra' = [sobra EXCEPT ![f] = IF alheio'[f] THEN <<>> ELSE partialData']
      /\ cortes' = [cortes EXCEPT
                      ![f] = {j \in @ \cup {k} : CorteRuim(f, j) /\ ~alheio'[f]}]
      /\ roteiro' = roteiro
  BY Zenon DEF Le
<1>3. /\ k > recebido[f] /\ partialData' = Resto(f, k)
      /\ recebido' = [recebido EXCEPT ![f] = k]
  <2>1. FluxoInv
    BY <1>1
  <2>2. k > recebido[f] /\ partialData' = Resto(f, k)
    BY <2>1, LeE, Zenon
  <2>3. recebido' = [recebido EXCEPT ![f] = k]
    BY Zenon DEF Le
  <2> QED
    BY <2>2, <2>3
<1>4. k <= Tamanho(f)
  <2>1. Tamanho(f) \in Nat /\ recebido[f] \in Nat
    BY <1>1, TamanhoE DEF FluxoInv, TiposDoFluxo
  <2> QED
    BY <2>1, <1>2
<1>5. Resto(f, k) \in Seq(Tokens)
  BY <1>1, <1>3, RestoE
<1>6. /\ alheio \in [Fluxo -> BOOLEAN] /\ cortes \in [Fluxo -> SUBSET Nat]
      /\ sobra \in [Fluxo -> Seq(Tokens)] /\ recebido \in [Fluxo -> Nat]
      /\ entregues \in [Fluxo -> Seq(Entregas)]
  BY <1>1 DEF Historia, FluxoInv, TiposDoFluxo
<1>7. \E x : entregues' = [entregues EXCEPT ![f] = x]
  <2>1. FluxoInv
    BY <1>1
  <2> DEFINE O == Lidos(f, k)
  <2>2. /\ estado[f] = "lendo" /\ k > recebido[f]
        /\ O \in Seq(Entregas)
        /\ \E ate \in 0..Len(O) :
             entregues' = [entregues EXCEPT ![f] = @ \o SubSeq(O, 1, ate)]
    BY <2>1, LeE, ZenonT(60)
  <2> HIDE DEF O
  <2> QED
    BY <2>2
<1>8. Historia'
  <2>1. alheio' \in [Fluxo -> BOOLEAN]
    BY <1>2, <1>6
  <2>2. cortes' \in [Fluxo -> SUBSET Nat]
    <3>1. {j \in cortes[f] \cup {k} : CorteRuim(f, j) /\ ~alheio'[f]} \in SUBSET Nat
      BY <1>6
    <3> QED
      BY <3>1, <1>2, <1>6
  <2>3. sobra' \in [Fluxo -> Seq(Tokens)]
    <3>1. (IF alheio'[f] THEN <<>> ELSE partialData') \in Seq(Tokens)
      BY <1>3, <1>5
    <3> QED
      BY <3>1, <1>2, <1>6
  <2> QED
    BY <2>1, <2>2, <2>3 DEF Historia
<1>9. ASSUME NEW g \in Fluxo, ~alheio'[g], g # f
      PROVE  SozinhoDe(g, recebido'[g], sobra'[g], entregues'[g], cortes'[g])
  <2>1. /\ alheio[g] = alheio'[g] /\ recebido'[g] = recebido[g] /\ sobra'[g] = sobra[g]
        /\ entregues'[g] = entregues[g] /\ cortes'[g] = cortes[g]
    BY <1>2, <1>3, <1>6, <1>7, <1>9
  <2>2. SozinhoDe(g, recebido[g], sobra[g], entregues[g], cortes[g])
    BY <2>1, <1>1, <1>9 DEF Sozinhos
  <2> QED
    BY <2>1, <2>2
<1>10. ASSUME ~alheio'[f]
       PROVE  SozinhoDe(f, recebido'[f], sobra'[f], entregues'[f], cortes'[f])
  <2>1. ~alheio[f] /\ Achado(f) = sobra[f]
    BY <1>2, <1>6, <1>10
  <2>2. Sozinho(f)
    BY <2>1, <1>1 DEF Sozinhos, Sozinho
  <2>3. LeSozinho(f, k)
    BY <2>1, <2>2, <1>3, <1>4 DEF LeSozinho
  <2>4. SozinhoDe(f, k, Resto(f, k), entregues[f] \o Lidos(f, k), CortesCom(f, k))
    BY <2>3, <1>1, DepoisSozinho
  <2>5. recebido'[f] = k /\ sobra'[f] = Resto(f, k)
    BY <1>2, <1>3, <1>6, <1>10
  <2>6. cortes'[f] = CortesCom(f, k)
    <3>1. cortes'[f] = {j \in cortes[f] \cup {k} : CorteRuim(f, j) /\ ~alheio'[f]}
      BY <1>2, <1>6
    <3> QED
      BY <3>1, <1>10 DEF CortesCom
  <2>7. entregues'[f] = entregues[f] \o Lidos(f, k)
    BY <2>1, <2>2, <1>1, LeSo DEF Sozinho, SozinhoDe
  <2> QED
    BY <2>4, <2>5, <2>6, <2>7
<1>11. Sozinhos'
  <2> SUFFICES ASSUME NEW g \in Fluxo, ~alheio'[g],
                      NEW r, NEW b, NEW E, NEW C,
                      r = recebido'[g], b = sobra'[g], E = entregues'[g], C = cortes'[g]
               PROVE  SozinhoDe(g, r, b, E, C)'
    BY DEF Sozinhos
  <2>1. SozinhoDe(g, r, b, E, C)
    BY <1>9, <1>10
  <2> QED
    BY <2>1, <1>2, RoteiroFixo
<1> QED
  BY <1>8, <1>11

LEMMA ExataParada ==
  ASSUME Historia, Sozinhos, UNCHANGED <<roteiro, recebido, entregues, alheio, cortes, sobra>>
  PROVE  Historia' /\ Sozinhos'
<1>1. Historia'
  BY DEF Historia
<1>2. Sozinhos'
  <2> SUFFICES ASSUME NEW g \in Fluxo, ~alheio'[g],
                      NEW r, NEW b, NEW E, NEW C,
                      r = recebido'[g], b = sobra'[g], E = entregues'[g], C = cortes'[g]
               PROVE  SozinhoDe(g, r, b, E, C)'
    BY DEF Sozinhos
  <2>1. SozinhoDe(g, r, b, E, C)
    BY DEF Sozinhos
  <2> QED
    BY <2>1, RoteiroFixo
<1> QED
  BY <1>1, <1>2

LEMMA ExataPasso == ExataInv /\ [Next]_vars => ExataInv'
<1> SUFFICES ASSUME ExataInv, [Next]_vars
             PROVE  ExataInv'
  OBVIOUS
<1>1. FluxoInv /\ Historia /\ Sozinhos
  BY DEF ExataInv
<1>2. FluxoInv'
  BY <1>1, PassoOK
<1>3. CASE UNCHANGED vars
  <2>1. UNCHANGED <<roteiro, recebido, entregues, alheio, cortes, sobra>>
    BY <1>3 DEF vars, vBuffer
  <2> QED
    BY <2>1, <1>1, <1>2, ExataParada DEF ExataInv
<1>4. ASSUME NEW f \in Fluxo, NEW k \in 1..Tamanho(f), Le(f, k)
      PROVE  ExataInv'
  <2>1. k \in Nat
    <3>1. Tamanho(f) \in Nat
      BY <1>1, TamanhoE DEF FluxoInv, TiposDoFluxo
    <3> QED
      BY <3>1
  <2> QED
    BY <2>1, <1>2, <1>4, LeExata DEF ExataInv
<1>5. ASSUME NEW f \in Fluxo,
             \/ \E c \in Conversa : Envia(f, c)
             \/ Termina(f) \/ RespostaHTTP(f) \/ FalhaRede(f) \/ Para(f)
      PROVE  ExataInv'
  <2>1. UNCHANGED <<roteiro, recebido, entregues, alheio, cortes, sobra>>
    BY <1>5 DEF Envia, Termina, RespostaHTTP, FalhaRede, Para, vBuffer
  <2> QED
    BY <2>1, <1>1, <1>2, ExataParada DEF ExataInv
<1> QED
  BY <1>3, <1>4, <1>5 DEF Next

LEMMA ExataInicio == Init => ExataInv
<1> SUFFICES ASSUME Init
             PROVE  ExataInv
  OBVIOUS
<1>1. FluxoInv /\ roteiro \in Roteiros
  BY InicioOK DEF Init
<1>2. Historia
  BY DEF Init, Historia
<1>3. ASSUME NEW f \in Fluxo
      PROVE  SozinhoDe(f, 0, <<>>, <<>>, {})
  <2>1. PICK p \in Nat : p = Passo(f) /\ p >= 3
    BY <1>1, MarcaE
  <2>2. /\ \A m \in Nat : Marca(f, m) \in Nat
        /\ \A m \in Nat : 0 < m => Marca(f, 0) + p <= Marca(f, m)
        /\ Marca(f, 0) = 0
    BY <2>1, <1>1, MarcaE
  <2>3. Letras(<<>>) = {}
    BY DEF Letras
  <2>4. BaseDe(f, 0, <<>>, <<>>, {})
    <3>1. Tamanho(f) \in Nat
      BY <1>1, TamanhoE
    <3> QED
      BY <3>1, <2>3 DEF BaseDe
  <2>5. \A m \in Nat : LetrasEm(f, Marca(f, m), 0) = {}
    <3>1. \A x \in Nat : x + 1..0 = {}
      OBVIOUS
    <3> QED
      BY <3>1, <2>2 DEF LetrasEm
  <2>6. LetrasDe(f, 0, <<>>, {})
    BY <2>3, <2>5 DEF LetrasDe
  <2>7. EntregasDe(f, 0, <<>>, {})
    <3>1. ASSUME NEW n \in Nat, FimDoCorpo(f, n + 1) <= 0
          PROVE  FALSE
      <4>1. PICK X \in Nat : X = Marca(f, n) /\ FimDoCorpo(f, n + 1) = X + p - 2
        <5>1. roteiro \in Roteiros
          BY <1>1
        <5>2. Marca(f, n) \in Nat /\ FimDoCorpo(f, n + 1) = Marca(f, n) + Passo(f) - 2
          BY <5>1, FimE, Zenon
        <5> QED
          BY <5>2, <2>1, Zenon
      <4> QED
        BY <4>1, <3>1, <2>1
    <3> QED
      BY <3>1 DEF EntregasDe
  <2>8. ExatoDe(f, 0, <<>>, <<>>, {})
    <3> SUFFICES ASSUME NEW m \in Nat, Marca(f, m) <= 0
                 PROVE  /\ <<>> = [j \in 1..0 - Marca(f, m) |-> Enviado(f, Marca(f, m) + j)]
                        /\ <<>> = Exatas(f, Prontos(f, m, 0))
      BY DEF ExatoDe
    <3>1. m = 0
      <4>1. 0 < m => p <= Marca(f, m) /\ Marca(f, m) \in Nat
        BY <2>2
      <4> QED
        BY <4>1, <2>1
    <3>2. Marca(f, m) = 0 /\ 0 # 0 + p - 2
      BY <3>1, <2>1, <2>2
    <3>3. Prontos(f, m, 0) = 0
      BY <3>1, <3>2, <2>1 DEF Prontos
    <3>4. 1..0 = {} /\ 0 - Marca(f, m) = 0
      BY <3>2
    <3>5. Exatas(f, 0) = <<>>
      BY <3>4 DEF Exatas
    <3> QED
      BY <3>3, <3>4, <3>5
  <2> QED
    BY <2>4, <2>6, <2>7, <2>8 DEF SozinhoDe
<1>4. Sozinhos
  BY <1>3 DEF Init, Sozinhos
<1> QED
  BY <1>1, <1>2, <1>4 DEF ExataInv

LEMMA ExataSegue == ExataInv => EntregaExata
<1> SUFFICES ASSUME ExataInv, NEW f \in Fluxo, ~alheio[f], cortes[f] = {}
             PROVE  entregues[f] =
                      Exatas(f, Cardinality({m \in 1..Total(f) : FimDoCorpo(f, m) <= recebido[f]}))
  BY DEF EntregaExata, Exatas
<1>1. roteiro \in Roteiros /\ recebido[f] \in Nat
  BY DEF ExataInv, FluxoInv, TiposDoFluxo
<1>2. /\ BaseDe(f, recebido[f], sobra[f], entregues[f], {})
      /\ ExatoDe(f, recebido[f], sobra[f], entregues[f], {})
  BY DEF ExataInv, Sozinhos, SozinhoDe
<1>3. PICK r \in Nat : r = recebido[f]
  BY <1>1
<1>4. PICK p \in Nat : p = Passo(f) /\ p >= 3
  BY <1>1, MarcaE
<1>5. PICK m \in Nat : Marca(f, m) <= r /\ r < Marca(f, m) + p
  BY <1>1, <1>4, MarcaDivide
<1>6. PICK M \in Nat : M = Marca(f, m)
  BY <1>1, MarcaE
<1>7. r # M + p - 1
  <2> SUFFICES ASSUME r = M + p - 1
               PROVE  FALSE
    OBVIOUS
  <2>1. PICK j \in 1..p : j = p - 1 /\ r = M + j
    <3>1. p - 1 \in 1..p /\ r = M + (p - 1)
      BY <1>4
    <3> QED
      BY <3>1
  <2>2. r <= Tamanho(f) /\ r # 0
    BY <2>1, <1>2, <1>3, <1>4 DEF BaseDe
  <2>3. CorteRuim(f, r)
    BY <2>1, <2>2, <1>1, <1>4, <1>6, CorteRuimE
  <2> QED
    BY <2>2, <2>3, <1>2, <1>3 DEF BaseDe
<1>8. entregues[f] = Exatas(f, Prontos(f, m, r))
  BY <1>2, <1>3, <1>4, <1>5 DEF ExatoDe
<1>9. PICK P \in Nat : P = Prontos(f, m, r) /\ P = (IF r = M + p - 2 THEN m + 1 ELSE m)
  BY <1>4, <1>6 DEF Prontos
<1> DEFINE S == {x \in 1..Total(f) : FimDoCorpo(f, x) <= r}
<1>10. ASSUME NEW y \in Nat
       PROVE  y + 1 \in S <=> y + 1 <= P
  <2>1. PICK Y \in Nat : Y = Marca(f, y) /\ FimDoCorpo(f, y + 1) = Y + p - 2
    <3>1. Marca(f, y) \in Nat
      BY <1>1, MarcaE
    <3>2. FimDoCorpo(f, y + 1) = Marca(f, y) + Passo(f) - 2
      BY <1>1, TamanhoE
    <3> HIDE DEF S
    <3> QED
      BY <3>1, <3>2, <1>4
  <2>2. PICK T \in Nat, t \in Nat : T = Tamanho(f) /\ t = Total(f) /\ r <= T
    <3>1. Tamanho(f) \in Nat /\ Total(f) \in Nat
      BY <1>1, TamanhoE
    <3>2. r \in 0..Tamanho(f)
      BY <1>2, <1>3 DEF BaseDe
    <3> HIDE DEF S
    <3> QED
      BY <3>1, <3>2
  <2>3. Y + p - 2 <= T => y + 1 <= t
    BY <2>1, <2>2, <1>1, TamanhoE
  <2>4. y + 1 \in S <=> Y + p - 2 <= r
    <3>1. y + 1 \in S <=> y + 1 \in 1..t /\ Y + p - 2 <= r
      BY <2>1, <2>2
    <3> HIDE DEF S
    <3> QED
      BY <3>1, <2>2, <2>3, <1>4
  <2>5. /\ y < m => Y + p <= M
        /\ m < y => M + p <= Y
        /\ y = m => Y = M
    BY <2>1, <1>1, <1>4, <1>6, MarcaE
  <2>6. Y + p - 2 <= r <=> y + 1 <= P
    <3>1. CASE y < m
      BY <3>1, <2>5, <1>4, <1>5, <1>6, <1>9
    <3>2. CASE y = m
      BY <3>2, <2>5, <1>4, <1>5, <1>6, <1>7, <1>9
    <3>3. CASE m < y
      BY <3>3, <2>5, <1>4, <1>5, <1>6, <1>9
    <3> QED
      BY <3>1, <3>2, <3>3
  <2> HIDE DEF S
  <2> QED
    BY <2>4, <2>6
<1>11. S = 1..P
  <2>1. \A x \in S : x \in Nat /\ x >= 1
    OBVIOUS
  <2>2. \A x \in Nat : x >= 1 => x - 1 \in Nat /\ (x - 1) + 1 = x
    OBVIOUS
  <2> HIDE DEF S
  <2>3. \A x \in Nat : x >= 1 => (x \in S <=> x <= P)
    <3> SUFFICES ASSUME NEW x \in Nat, x >= 1
                 PROVE  x \in S <=> x <= P
      OBVIOUS
    <3>1. PICK y \in Nat : x = y + 1
      BY <2>2
    <3> QED
      BY <3>1, <1>10
  <2>4. \A x : x \in 1..P <=> x \in Nat /\ x >= 1 /\ x <= P
    OBVIOUS
  <2>5. \A x : x \in S <=> x \in 1..P
    BY <2>1, <2>3, <2>4
  <2> QED
    BY <2>5
<1>12. Cardinality(S) = P
  <2> HIDE DEF S
  <2>1. Cardinality(1..P) = P
    BY FS_Interval
  <2> QED
    BY <2>1, <1>11
<1> QED
  BY <1>3, <1>8, <1>9, <1>12

LEMMA PerdaSegue == ExataInv => PerdaSoNoDelimitador
<1> SUFFICES ASSUME ExataInv, NEW f \in Fluxo, NEW n \in 1..Total(f),
                    ~alheio[f], FimDoCorpo(f, n) <= recebido[f],
                    n = 1 \/ FimDoCorpo(f, n - 1) + 1 \notin cortes[f]
             PROVE  \E i \in DOMAIN entregues[f] : entregues[f][i].evento = Evento(f, n)
  BY DEF PerdaSoNoDelimitador
<1>1. roteiro \in Roteiros /\ entregues[f] \in Seq(Entregas)
  BY DEF ExataInv, FluxoInv, TiposDoFluxo
<1>2. EntregasDe(f, recebido[f], entregues[f], cortes[f])
  BY DEF ExataInv, Sozinhos, SozinhoDe
<1>3. PICK y \in Nat : n = y + 1
  <2>1. Total(f) \in Nat
    BY <1>1, TamanhoE
  <2>2. n - 1 \in Nat /\ n = (n - 1) + 1
    BY <2>1
  <2> QED
    BY <2>2
<1>4. y = 0 \/ Marca(f, y) - 1 \notin cortes[f]
  <2>1. CASE y = 0
    BY <2>1
  <2>2. CASE y # 0
    <3>1. PICK w \in Nat : y = w + 1
      <4>1. y - 1 \in Nat /\ y = (y - 1) + 1
        BY <2>2
      <4> QED
        BY <4>1
    <3>2. PICK W \in Nat, p \in Nat : /\ FimDoCorpo(f, w + 1) = W + p - 2
                                      /\ Marca(f, w + 1) = W + p
      <4>1. roteiro \in Roteiros
        BY <1>1
      <4>2. /\ Marca(f, w) \in Nat /\ Passo(f) \in Nat
            /\ FimDoCorpo(f, w + 1) = Marca(f, w) + Passo(f) - 2
            /\ Marca(f, w + 1) = Marca(f, w) + Passo(f)
        BY <4>1, FimE, Zenon
      <4> QED
        BY <4>2, Zenon
    <3>3. FimDoCorpo(f, n - 1) = FimDoCorpo(f, w + 1) /\ n # 1
      <4>1. n - 1 = w + 1 /\ n # 1
        BY <3>1, <1>3
      <4> QED
        BY <4>1
    <3>4. FimDoCorpo(f, n - 1) + 1 = Marca(f, y) - 1
      BY <3>1, <3>2, <3>3
    <3> QED
      BY <3>3, <3>4
  <2> QED
    BY <2>1, <2>2
<1>5. \E i \in 1..Len(entregues[f]) : entregues[f][i].evento = Evento(f, y + 1)
  BY <1>2, <1>3, <1>4 DEF EntregasDe
<1>6. DOMAIN entregues[f] = 1..Len(entregues[f])
  BY <1>1
<1> QED
  BY <1>3, <1>5, <1>6

LEMMA ExataSempre == Spec => []ExataInv
<1>1. Init => ExataInv
  BY ExataInicio
<1>2. ExataInv /\ [Next]_vars => ExataInv'
  BY ExataPasso
<1> QED
  BY <1>1, <1>2, PTL DEF Spec

(* However the bytes of a stream are cut, and whatever the other streams   *)
(* do: read with no chunk ending at one of the three bad places and with a *)
(* buffer nobody else touched, it hands over every event once, in order,   *)
(* intact, and as soon as the body of the event is complete.               *)
THEOREM EntregaSempreExata == Spec => []EntregaExata
BY ExataSempre, ExataSegue, PTL

(* However the chunks are cut, a stream whose buffer nobody else touched   *)
(* loses at most the events that follow a delimiter cut in two.            *)
THEOREM PerdaSempreSoNoDelimitador == Spec => []PerdaSoNoDelimitador
BY ExataSempre, PerdaSegue, PTL
===============================================================================
