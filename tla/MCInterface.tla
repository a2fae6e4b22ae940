---- MODULE MCInterface ----
(* Parts of the page that share no state: each behaviour is one of theirs, *)
(* with the others at rest.  Voice is taken twice, two sessions without    *)
(* audio and one with it; the page, without and with stops; and renaming,  *)
(* the library and a chat.                                                 *)
EXTENDS UploadQueue, VoiceSession, ChatPage, InputBox, FileSelection, Feedback, HistoryPages,
  GptStore, Rename
CONSTANTS agente, sumido, o1mini, claude, saiu
VARIABLE parte

\* The page without stops, or with them and one choice.  Two chats that exist are alike:
\* the first one chosen, if it is a first choice, is always the same.
OutroAntigo == Antigo \ {CHOOSE c \in Antigo : TRUE}
SemParadas == NextPagina /\ paradas' = {} /\ (escolhas' = 1 => escolha' \notin OutroAntigo)
ComParadas == NextPagina /\ escolhas' <= 1 /\ escolha' \notin OutroAntigo

Primeira == CHOOSE s \in Sessao : TRUE
\* Two sessions whose model says nothing, and one alone.
SemFala == NextVoz /\ UNCHANGED <<itens, pedacos>>
UmaSessao == NextVoz /\ \A m \in Sessao \ {Primeira} : sess'[m] = sess[m]

\* Chats saved without messages, with a model of more words and as many as the others
\* take, with an agent and a model that left the lists, and, archived, with an o1 model.
ChatsSalvos ==
  {[ultima |-> [agente |-> Nenhum, modelo |-> Nenhum, palavras |-> 0], arquivado |-> FALSE],
   [ultima |-> [agente |-> agente, modelo |-> claude, palavras |-> 60000], arquivado |-> FALSE],
   [ultima |-> [agente |-> sumido, modelo |-> saiu, palavras |-> 1], arquivado |-> FALSE],
   [ultima |-> [agente |-> Geral, modelo |-> o1mini, palavras |-> 1], arquivado |-> TRUE]}

UmAQuatro == 1..4
DoisEnvios == 1..2
NomesIniciais == [pasta |-> "a", arquivo |-> "b", conversa |-> "a"]

\* The names of the library, one new name in two dialogs, or those of a chat, two new names.
NomesDaBiblioteca ==
  /\ NextNome /\ dialogosDeNome' <= 2
  /\ dialogo' # Inexistente => dialogo'.item \in Biblioteca /\ dialogo'.editado # "d"
NomesDaConversa ==
  /\ NextNome /\ UNCHANGED atual
  /\ dialogo' # Inexistente => dialogo'.item \in Conversas

InitInterface ==
  /\ parte \in {"fila", "sessoes", "audio", "pagina", "paradas", "caixa", "selecao", "reacoes", "historico",
              "loja", "nomes", "titulos"}
  /\ InitEnvio /\ InitVoz /\ InitPagina /\ InitCaixa /\ InitReacoes /\ InitNome
  /\ InitHistorico /\ (parte = "historico" \/ indice = <<>>)
  /\ InitLoja /\ (parte = "loja" \/ \A c \in Categoria : especialistas[c] = 0)
  /\ InitSelecao /\ (parte = "selecao" \/ \A f \in Documento : lista.pasta[f] = Fora)

EmRepouso(v, i, j) == IF i = j THEN TRUE ELSE UNCHANGED v
\* The other parts stand still.
SoAParte(i) ==
  /\ EmRepouso(varsEnvio, i, 1) /\ EmRepouso(varsVoz, i, 2) /\ EmRepouso(varsPagina, i, 3)
  /\ EmRepouso(varsCaixa, i, 4) /\ EmRepouso(varsSelecao, i, 5) /\ EmRepouso(varsReacoes, i, 6)
  /\ EmRepouso(varsHistorico, i, 7) /\ EmRepouso(varsLoja, i, 8) /\ EmRepouso(varsNome, i, 9)

NextInterface ==
  /\ UNCHANGED parte
  /\ \/ parte = "fila" /\ NextEnvio /\ SoAParte(1)
     \/ parte = "sessoes" /\ SemFala /\ SoAParte(2)
     \/ parte = "audio" /\ UmaSessao /\ SoAParte(2)
     \/ parte = "pagina" /\ SemParadas /\ SoAParte(3)
     \/ parte = "paradas" /\ ComParadas /\ SoAParte(3)
     \/ parte = "caixa" /\ NextCaixa /\ SoAParte(4)
     \/ parte = "selecao" /\ NextSelecao /\ SoAParte(5)
     \/ parte = "reacoes" /\ NextReacoes /\ SoAParte(6)
     \/ parte = "historico" /\ NextHistorico /\ SoAParte(7)
     \/ parte = "loja" /\ NextLoja /\ SoAParte(8)
     \/ parte = "nomes" /\ NomesDaBiblioteca /\ SoAParte(9)
     \/ parte = "titulos" /\ NomesDaConversa /\ SoAParte(9)

\* Justica, of the one session that has audio: no microphone is muted in the other parts.
JusticaDaVoz ==
  /\ WF_varsVoz(Esvazia(Primeira))
  /\ WF_varsVoz(Silencia(Primeira))
  /\ WF_varsVoz(Quadro(Primeira))

SpecInterface == InitInterface /\ [][NextInterface]_<<parte, varsEnvio, varsVoz, varsPagina, varsCaixa,
                        varsSelecao, varsReacoes, varsHistorico, varsLoja, varsNome>>
                   /\ (parte = "audio" => JusticaDaVoz)

\* VoltaAEnviar of that session: one muted by the model's voice sends again, or ends.
VoltaAEnviarSozinha == parte = "audio" => VoltaAEnviarDe(Primeira)
====
