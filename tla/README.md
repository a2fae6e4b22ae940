# A verification project for ChatTCU

TLA+ models of ChatTCU, the chat assistant of the Brazilian court of accounts,
with the TLC runs that check them and the TLAPS proofs about them. Paths below
are relative to the repository: `B/` is `OpenAI-Azure-Service/src/` (Python,
FastAPI) and `F/` is `OpenAI-Azure-Service-Playground/src/` (TypeScript, React).

## 1. The system: inventory

The backend runs as several pods. A browser posts a prompt; the pod that gets it
loads the chat from Elasticsearch, prepares the prompt (with documents found by
a search service), runs a model, streams the answer as JSON objects and stores
the messages of the turn. MongoDB keeps files, agents and links; Redis carries
the stops from the pod that gets the request to the pod that runs the task. The
page keeps what it shows in react-query caches, in React state and in objects
that both hold and some handlers change in place; its requests interleave at
every `await`.

| component | state | operations | interacts with | what is hard | what makes it correct |
|---|---|---|---|---|---|
| chat turn (`B/domain/agent_core.py`, `B/domain/llm/base/*`, `B/domain/llm/callback/*`, `B/messaging/chatstop.py`, `B/controller/chatgpt_controller.py`) | the engine object of the request, the asyncio task, the registry of tasks, the stored chat | prompt, create or load chat, run model, store messages, stop, react | Elasticsearch, Redis listener, model provider | turns of several tabs interleave; three writes with no transaction; cancellation from another thread; a search that lags behind writes | an answer is never stored without its question; a text is stored once and not dropped silently; a stop stops; a reaction lands on its message |
| stop listener (`B/infrastructure/redis/redis_chattcu.py`, `B/main.py`) | subscription, attempt counter, thread | subscribe, publish, reconnect | Redis, `ChatStop`, the event loop of the pod | the reconnection is recursive, runs in two threads and blocks one of them; at-most-once delivery | a listener does not die of a few errors; the event loop is not held without a reason |
| stream parser (`F/components/chat-box/stream-utils.ts`, `ChatBox.tsx`) | module-global buffer, last chat parsed | send, read a chunk, end, fail, abort | the answer stream, the lists of chats | bytes cut anywhere; several streams over one buffer; aborts | every event is delivered once, in order, to its chat |
| chat store, sharing and lists (`B/infrastructure/elasticsearch/*`, `B/service/compartilhamento_service.py`, `B/infrastructure/mongo/compatilhamento_mongo.py`, `F/components/sidebar/history`, `archive`, `sharing`, `F/components/share-chat-modal`) | flags of a chat in two copies (document, index), links, cached lists, the copy of the archive | pin, archive, delete (one, or those of a search), share, update, revoke | Elasticsearch, MongoDB, react-query | an index behind the store; two stores without a transaction; fetches under way when a change invalidates them; objects shared by lists | lists agree with the store; a deletion revokes links; one link per chat, and a revoked one stays so |
| file library (`B/service/upload_service.py`, `B/infrastructure/mongo/upload_mongo.py`, `F/components/sidebar/upload`, `F/components/*-actions-menu`, `F/hooks/useFile*`) | folders and files, the list of the sidebar | upload, move, copy, rename, delete, create folder | MongoDB, blob storage, search index | check-then-write of names; a folder removed in two writes; whole-list writes of old renders | no file without a folder; unique names; the list agrees with the store |
| upload queue (`UploadDropDown.tsx`, `UploadStatus.tsx`, `UploadDropZone.tsx`) | lists of files sending, preparing, ready, refused | drop, progress, answer, close a message | the upload request | answers in any order; entries found by a name | each file's state is shown |
| chips and ticks of files (`useFileSelection.ts`, `useFolderSelection.ts`, `InputFiles.tsx`, `FileUpload.tsx`) | chips, ticks, a copy of the list | tick, untick, open the tab, send, change chat | the library | two sides kept in step by effects that only run while the tab is open | what goes with the message is what is ticked |
| chat page (`F/pages/chatpage/ChatPage.tsx`, `ChatBox.tsx`) | route, query, active chat, last shown, controller | choose, new chat, send, end, stop, store | streams, the query of a chat | answers arriving after the choice changed | the screen is what was chosen, and up to date; one stream per chat; stop stops the one shown |
| agent and model (`InputBox.tsx`, `SelectModelChat.tsx`, `ChatPage.tsx`) | agent and model in the cache and in the state, lock, limit | choose, mention, open a chat, reread lists | queries of agents and models | two copies, changed apart | what is sent is what is shown, and fits the model |
| reactions (`Message.tsx`, `FeedbackDialog.tsx`) | reactions of answers, dialogs, requests | like, dislike, send | the chat shown, the running stream | a late answer written onto whatever is shown | the conversation on the screen is the chat's own |
| paged history (`historyContentFunctions.ts`, `chat_elasticsearch.py`) | pages of a list | scroll, refetch | the index | pages of a list that changes between them | a prefix of the list, none skipped or repeated |
| store of agents (`GptStoreContent.tsx`, `B/service/store_service.py`, `B/infrastructure/mongo/especialista_mongo.py`) | cards of the tab, pages by filter and category | open, tab, more | MongoDB | page and total are two requests; errors answered as nothing | the cards are the first of the category |
| renaming (`F/components/edit-folder-modal`, `edit-file-modal`, `edit-chat-modal`) | the object shown, the dialog, the request | open, type, confirm, refuse | the list of files, the history, MongoDB, Elasticsearch | the object takes the name before it is sent; handlers copy objects meanwhile | the name shown is the name stored |
| realtime audio, interface (`F/infrastructure/realtime-audio/*`, `F/components/realtime-audio/*`) | sessions, microphone, socket, playback | start, stop, close the modal, play, interrupt | the browser, the relay | four awaits in a start; late audio; the gate of the microphone | no microphone out of reach; no interrupted audio; no echo, and no gate closed for ever |
| realtime audio, backend (`B/infrastructure/realtimeaudio/*`) | socket, tool slot | merge streams, call tool, cancel answer | voice model, tools | a one-slot executor | not modelled |
| authentication and quota (`B/service/auth_service.py`, `B/service/quota_service.py`) | tokens | login, refresh, check, update | external services | check-then-use of quota | external contracts: not modelled |
| retrieval, administrative index (`B/domain/llm/rag`, `B/domain/llm/retriever`, `B/infrastructure/cognitive_search/*`) | external indexes | search, rebuild | search service | a rebuild that is not atomic | queries only, or a batch: not modelled |
| pure algorithms (`B/domain/llm/util/util.py`, `B/domain/llm/base/llm_base_utils.py`, `B/service/coarse_grained_pymupdf_parser.py`) | none | filter cited passages, truncate, segment | callers above | edges | result equal to a reference definition: not modelled yet |

The hazards, each with its line, are in `PROJECT.json`.

## 2. Modules

| module | models | runs |
|---|---|---|
| `ChatTurn`, `ChatTurnProofs` | one turn from the request to the last stored message, the stop broadcast, feedback | `turno`, `parada`, `reacoes`, `parada_plana`, `reacao_trocada` (`MCChatTurn*.cfg`) |
| `StopListener`, `StopListenerProofs` | the subscription of each pod and `publish_message` | `escuta`, `parada_confirmada` (`MCStopListener*.cfg`) |
| `StreamParser` (proofs in `MessageProofs`) | `parseStreamData` and the loop of `ChatBox` | `fluxos`, `evento_repetido` (`MCStreamParser*.cfg`) |
| `ShareLink` | what a link promises: the abstract specification | implemented by `ChatLists` |
| `ChatLists`, `ChatListsProofs` | the stores of chats and links, and the lists of the interface over them | `listas` (`MCChatLists.cfg`) |
| `FileLibrary`, `FileLibraryProofs` | folders and files in MongoDB, and the list of the sidebar | `arquivos` (`MCFileLibrary.cfg`) |
| `ChatPage`, `Feedback`, `ChatPageProofs` | the chat shown, and the reactions to its answers | `interface` (`MCInterface.cfg`) |
| `InputBox`, `FileSelection`, `MessageProofs` | what a message goes with: agent and model, chips of files | `interface` |
| `UploadQueue`, `Rename`, `HistoryPages`, `GptStore`, `SidebarProofs` | the sidebar: uploads, the dialogs of names, the pages of the history, the store of agents | `interface` |
| `VoiceSession`, `VoiceSessionProofs` | the voice sessions of the page | `interface` |

The other `MC` modules only give values to constants. `MCInterface` puts the
nine modules of the page side by side: they share no state, so that each
behaviour is one of a part (`parte`) with the others at rest, and a state of the
run is a state of one part. It extends all nine, so that TLC checks the same
definitions, and the same assumptions on the constants, as the proofs; what two
modules would both define is named apart (`InitVoz`, `NextNome`, ...).
`VoiceSession` is taken twice, `sessoes` (two sessions, no audio) and `audio`
(one session with its audio), and so are `Rename`, `nomes` (a folder and a file)
and `titulos` (a chat), and `ChatPage`, `pagina` (no stops) and `paradas`.
Operators whose comment begins with "Faulty:" are not used by the
specifications: each is a plausible wrong version of the definition it precedes,
and the project records that TLC rejects the specification in which it takes the
place of that definition.

A ghost variable (named so in each module) never appears in a guard. It records
that one of the known gaps of the code was met, so that a property can say
"except then" of exactly those behaviours, and be checked on all others.

### ChatTurn

`pc[t]` is where the coroutine of a turn is suspended, so one action is the code
between two awaits:

| `pc` | action | code |
|---|---|---|
| `ocioso` | `ProtectedPrompt` | `protected_prompt`, `executar_prompt` up to the first Elasticsearch request |
| `criar` / `carregar` | `CriarNovoChat`, `CarregarHistorico` | `_criar_novo_chat_com_input`, `_carregar_historico_para_prompt` |
| `preparar` | `PreparaPrompt` | `_prepara_prompt`: the SYSTEM message and its code |
| `registrar` | `RegistrarMensagens` | the USER and ASSISTANT messages, their codes, the callback |
| `despachar` | `CriaTask` | `_get_task_llm`, `_get_task_executor` (registered) or `_get_response` (not) |
| `gerando` | `OnLlmNewToken`, `OnLlmEnd`, `ErroLLM` | the model answers: the first chunk takes the codes to the page; the callback decides whether to store |
| `gravando` | `AdicionarMensagem`, `FalhaGravacao` | one `adicionar_mensagem` request |
| any | `PararProcessamentoResposta`, `CancelaTask`, `CancelaTaskFalha`, `TaskCancelada` | stop endpoint, listener thread, `CancelledError` |

The three routes are `agente` (an AgentExecutor), `cadeia` (an LLM chain) and
`plana` (`_get_response`, without streaming). `claude` with `agente` is the one
case in which the callback's `is_with_tools` is set.

The data kept is what the properties need: a message knows its turn, its role,
the two parts of its code that vary (minute, index), the model call whose text
it carries and the reactions it got. `visivel` is how many messages of a chat a
search sees: loading goes through `_search`, which lags behind the writes until
the index refreshes. `gravacaoFalhou`, `texto`, `ultima`, `pedidas` are history.
A finished task leaves the registry with its last step: the registry is a
`WeakSet`, and cancelling a finished task does nothing. A chat keeps the
messages of at most the turns given, and a turn sends one prompt.

### StopListener

Each pod has two threads that may be inside `subscribe_channel`: the listener,
from start-up, and the one of the event loop, when `publish_message` fails and
calls `_reconnect`. `fio[p][x]` is where the thread is (`assinando`, `ouvindo`,
`dormindo`, `fora`). While the event loop's thread is inside, the pod serves no
other request: `PublicaParada` needs it free. The recursion `subscribe_channel
-> _reconnect -> subscribe_channel` is the loop `Assina -> Erra -> Acorda ->
Assina`; unwinding it returns every pending call. The `+= 1` on `tentativas` is
one step. A stop published while a subscription is down does not reach it, and
what a broken connection had not yielded is lost.

### StreamParser

The backend (`_get_response_by_streaming`) is the sequence of the tokens
`Enviado(f, k)`: bodies followed by two new lines, an error body followed by
nothing. `Le(f, k)` reads up to token `k`: parse, then hand every object to
`processStreamResponse`. `Envia` is a prompt in a new chat, in one that is on
the screen and got no id before its stream ended or was stopped (the backend
takes it for a new one), or in one of the history. A body is a few pieces
(`roteiro[f].corpo`), so that a cut may fall inside it, and a piece may be a
blank, which `trim()` removes at a cut. An error takes two messages off the
chat; an answer delivered after it, or the line after the loop when older
messages exist, raises a `TypeError`, and the chat stays busy. `partialData` and
`currentChat` are the two module variables; `alheio`, `cortes` and `sobra` are
history that says whether another stream touched the buffer and where the chunks
of a stream ended.

### ChatLists, over ShareLink

`doc` is the chat in Elasticsearch, `indice` what searches see of it, and `sujo`
the chats whose write no refresh has shown yet. Every change of a menu is
`_update_by_query`: it finds chats in `indice` and changes `doc`, skipping those
written since the refresh (`AtualizaES`). A deletion then revokes links in
MongoDB (`RevogaElos`), whose errors are swallowed; sharing asks for a link
(`ConsultaElo`) and inserts one (`InsereElo`). At the interface `lista[l]` is
what react-query holds of a list and `busca[l]` the fetch under way; each
handler is an action that starts a request (`Fixa`, `Arquiva`, `ApagaChat`,
`Compartilha`, ...), and one that runs when it is answered (`RespondeHistorico`,
`RespondeArquiva`, ...), with the invalidations the source makes and no others.
`Invalida` cancels and restarts the fetch of a mounted list, except its first
one. `vista` is the list of the archive tab, a state filled from `archiveChats`
whose objects are changed in place (`Mexe`).

`ShareLink` is the abstract specification of a link: free, active for one chat,
removed for ever. `EloEspecificado` says that `ChatLists` implements it with
`elo`, whatever lists, requests and failures do.

### FileLibrary

A request goes through the phases of its coroutine: `consulta` (the check of a
name), `grava` (the write; of the files, when a folder is deleted), `pasta`
(then the folder), and then the answer. `objetos` are the folder objects of the
page: `atual` if they are in the list of the sidebar, and `presos` names the
requests that captured the list they were in, because a handler works on the
list of its own render and writes that list back whole (`Escreve`). `NoLugar` is
a handler that changes an object in place, which all who hold it see. A move of
several files in which an error of the store loses one goes on with the others
and then fails as a whole (`Fim`). `EngoleNome` is an error of the store while a
name is changed: `renomear_item` logs it and answers a success. `listagem` is
the fetch of `['listFolders']`, in two queries (`LePastas`, `LeArquivos`).

### The page

- `UploadQueue`. Files dropped together are sent at once; `Completa` (last byte
  sent) moves an entry from "uploading" to "preparing", `Aceita` and `Recusa`
  look the entry up by the name the answer brings, `InterrompeEnvio` is a
  failure before the last byte, and `Encerra` waits for the last of the batch.
- `VoiceSession`. `Clica`, `Concede`, `Liga` are a start cut at its awaits
  (permission, token, modules); `Desliga`, `Fecha`, `TerminaSessao` a stop;
  `OnMessage` one message of the socket, which keeps their order; `Quadro` the
  check `startMonitoring` makes on each animation frame. `Fala`, `Conclui`,
  `Interrompe` are the relay (external).
- `ChatPage`. `rota`, `chatId`, the query, `activeChat` and `chatRef` change at
  different times; `Le` and `Recebe` are the two ends of the query, so that
  other steps come between them; `Termina`, `HandleErrorResponse`, `Cai` the
  ends of a stream; a turn is the stream of one message. A stop is two steps, as
  `InputBox` awaits the server between them: `HandleStopChatProcess` keeps the
  chat and the controller of its rendering in `paradas`, and
  `HandleStopChat(p)`, the answer, marks that chat as not loading and aborts
  that controller. `livre` is a stream whose chat lost the mark of loading
  before its first event.
- `InputBox`. Agent and model are kept in the cache of their lists (sent) and in
  the state of the page (shown); every handler and effect writes the ones its
  source writes. `Carrega` is the answer of the list of models, with the
  `onSuccess` of the selector when one is mounted; without one the cache keeps
  the raw list (`Cru`).
- `FileSelection`. `chips`, the ticks of `lista`, and `copia`, the list the
  chips' buttons leave for the tab. `pedido` is a request with the list it
  captured.
- `Feedback`. A chat is the reactions to its answers. `envios[n]` is a request
  with the object captured at the click; `AdicionarFeedback` is the server,
  `Enviado` the answer, which writes the captured messages onto the chat shown
  then. The turn (`recebendo`) writes by index on the object it started with.
- `HistoryPages`. `FetchChats` reads one page more of a reading that may be the
  scroll (`HandleScroll`, one page) or a refetch (all loaded pages in turn);
  `indice` changes between two pages. `PaginaRecusada` is the `page=false` the
  server refuses. Of the pages loaded only what the code looks at is kept: their
  chats one after the other, how many pages they are and the last total.
- `Rename`. `objetos[i]` are the names held by the objects of an item,
  `atual[i]` the one the list shows, `dialogo` the dialog open. `Confirma`
  writes the name on the object and starts a request, `Consulta` and `GravaNome`
  are `renomear_item`, `RespondeBiblioteca` and `RecusaBiblioteca` the end of
  `handleEditTitle` of a folder or a file, `RespondeConversa` that of a chat;
  `CopiaObjetos` is any handler that makes new objects meanwhile.
- `GptStore`. Queries by filter and category, the page and the count as two
  requests (`ListarEspecialistas`, `TotalEspecialistas`) whose errors are
  answers; `EfeitoDosDados` fills the tab shown. `EspecialistaNovo` is external:
  the insertion of this code stores nothing (Known gaps).

## 3. What the runs show

Bounds, in all runs: the constants named "bound" in each module.

| run | bounds | shows |
|---|---|---|
| `turno` | 2 turns of the agent routes with and without the Bedrock flag, 1 chat, 2 model calls | `RespostaTemPergunta`: whatever fails or interleaves, an ASSISTANT message follows the SYSTEM and USER messages of its turn. `RespostaGravada`: the last text of a turn is stored unless a write failed or the flag is set. `ChamadaGravadaUmaVez`: a text becomes at most one message, in its chat |
| `parada` | a streaming turn and a plain one in every combination, 2 pods, both stoppable, one pod restarts; fairness | `RegistroCoerente`, `ParadaTemEfeito` (a consumed stop cancels), `ParadaEncerra` (a delivered stop ends the turn though the model hangs) |
| `reacoes` | 2 turns that may overlap, with and without the Bedrock flag, an index that lags, 2 calls, 2 minutes, failed writes, reactions to an answer shown in full or in part; no stops, which leave a turn as partial as a failed write does | `ReacaoAposHistorico`: a reaction never lands on a message of the history its turn was built from, nor past the answer |
| `fluxos` | one stream of an event and an error with a blank in the text; two streams, an event and an error beside two events, or, with a body of two pieces, beside one; 2 chats | `EntregaExata`, `EntregaEmOrdem`, `PerdaSoNoDelimitador` |
| `escuta` | 2 pods, 2 stops, 2 outages, 1 restart, `MaxTentativas` 2; fairness | `EscutaResiste`, `LacoPreso`, `DesisteSemRedis`, `ParadaProcessada` |
| `listas` | 1 chat (recent, or archived and pinned before), 2 links, 2 requests of any kind which may overlap, 1 failure, any refresh, fetch and change of tab | `ListasEmDia`: at rest, the lists shown agree with the store and the copy of the archive with its list, but for the named gaps. `ExclusaoRevoga`, `UmElo`, and `EloEspecificado` (refinement of `ShareLink`) |
| `arquivos` | the root and a folder, 3 files, 2 names, 2 requests of any kind which may overlap, 1 listing, 1 failure, 3 of all these together | `ListaFiel`: with no request in flight the sidebar is what the store has, but for the named overwrites and failures. `SemOrfaos`, `SemHomonimos` |
| `interface` | twelve parts, each with the bounds below | see below |

The parts of `interface`:

| part | bounds | properties |
|---|---|---|
| `fila` | 2 files of the same or of two names | `EnviosMostrados`: each file is shown as what it is, sending, refused or ready |
| `sessoes` | 2 managers, no audio | `MicNaTela`: a live microphone belongs to the session the user can stop, and a stopped session holds nothing |
| `audio` | 1 manager, 3 items, 4 pieces, 3 messages in flight; fairness | `CanceladoNaoToca`, `SemRetorno` (muted while the model is heard), `VoltaAEnviarSozinha` (and not for ever: `VoltaAEnviar` of this session) |
| `pagina` | 2 old chats and a new one, opened at the home page, 2 chats chosen, 2 messages sent, no stop | `TelaEhEscolha`, `ConversaEmDia`, `UmFluxoPorChat` |
| `paradas` | the same with stops, one unanswered at a time (`MaxParada`), and 1 chat chosen, the old chats being alike | the same, and `ParaOMostrado`: the answer of a stop ends no stream but that of the turn the server was asked to stop |
| `caixa` | 3 agents and one that left, 3 models and one that left, 4 saved chats (one without messages), 2 counts of words typed, one that fits every model and one just past the limit of most, and a saved chat at that limit | `AgenteEModeloMostrados` (what is sent is what is shown), `LimiteDoModelo` |
| `selecao` | 2 files, 2 folders, 5 steps, one chip before the "clear all" button replaces the others (3 in the code) | `ChipsSaoMarcas` |
| `reacoes` | 2 chats of at most 2 answers, 2 requests, 9 steps | `ConversaIntacta` |
| `historico` | 4 chats, 2 per page, 2 changes | `ListaSemSaltos` |
| `loja` | 2 categories of at most 3, 2 per page, 2 pages, 7 steps | `CartoesDaCategoria` |
| `nomes` | a folder and a file, one new name, 2 dialogs, 2 objects of each, 2 requests | `NomeDaTela`: with no request under way, the name shown is the name stored |
| `titulos` | one chat, 2 new names, 3 dialogs, 2 requests | `NomeDaTela` |

In the page opened at a chat the user has chosen one chat more; two choices from
the home page reach the same states. Every exception of these properties is
stated in its comment with the lines of the code it comes from.

Two turns are enough for the chat turn because its steps read and write only
their own turn, the messages of one chat and one registry, and every property
relates one or two turns. Two minutes distinguish equal and different codes. Two
streams are the least that share a buffer; in the pair that is checked one
leaves an error behind and the other goes on after it, which reaches the
`TypeError` of `Le`. `MaxTentativas` is 4 in the code; a smaller value only
makes the limit come sooner, and the theorems hold for any value. One chat is
enough for `listas`, whose properties relate a chat to its lists and links;
requests over many chats are on those a search finds, here that chat or none,
and the theorems hold for any number. Two requests are the least that overlap,
in `listas` as in `arquivos`; three files let two of them dispute the name of a
third. In the page, the bounds are the least that let every action fire and
every exception of a property be met, with one more step or item wherever TLC
can afford it. Where a part has theorems they cover every size, and the attempts
to prove them showed what these bounds do not reach (section 4). Deadlock is not
checked: every model ends when its prompts, stops and outages are used up.

### Divergences from what the repository says

Each is a run that TLC refutes, with one property.

- `parada_plana`: `_get_response` never registers its task, so a stop consumed
  while it runs has no effect, against the docstring of the stop endpoint.
- `reacao_trocada`: a run with the Bedrock flag that ends with its first text
  stores nothing of it (`chat_async_iterator_callback_handler.py:80`), though
  the page shows it and has its code. The next turn of the chat loads a history
  without that answer, gives the code to a message of its own, and the reaction
  to the first answer is recorded on it, although the turns came one at a time,
  on a refreshed index, with the flag in both and no write failed
  (`MCChatTurnReacao.cfg` takes models with the flag only). Turns of two tabs
  may share codes without any of this; no run shows that as a divergence, and
  `ReacaoAposHistorico` bounds it.
- `evento_repetido`: a chunk that ends right after an object leaves it in the
  buffer, although the comment says that what was processed is removed.
- `parada_confirmada`: with Redis down the stop endpoint confirms a stop that
  was never published.

`EntregaExata` has three exceptions by name (`CorteRuim`): a chunk that ends
after a body (the event may come twice), between the two new lines (the event
before and after the cut become one unreadable part, and one is lost), or after
a blank of the text (`trim` removes it). `EntregaEmOrdem` excepts error events
between chats that have no id yet, which share the buffer; two streams of one
chat, which a stop that aborts the stream of another chat allows, may read each
other's events.

### Known gaps

Each property below names these as exceptions; no text of the repository
promises otherwise, so they are not among the divergences.

Chats and links. A first fetch is not restarted by an invalidation and clears
its mark when it succeeds; a refetch right after a change may read an index that
does not show it; `_update_by_query` skips a document written since the refresh
and success is shown; "unarchive all" does not invalidate the history, and its
copies still say archived. It also marks as not archived every chat of the tab,
those its search did not find included: the list read again is equal to the one
held, so the effect that fills the tab does not run and the mark stays
(`ArchiveFunctions.ts:118-126`). Two shares at once, or a failed question, make
two links; a deletion stopped between Elasticsearch and MongoDB, or an error of
the latter, leaves the link; a link can be made for a deleted chat.

Files. A failed deletion leaves the list without the files; an item that
vanished makes a bulk move fail after others moved; overlapping requests undo
one another's lists; a file written to a folder under deletion is listed
nowhere; the move of a file that the deletion of its folder has already removed
is answered as done, and the list shows the file again; the checks of names
race. `onCopyFile` (`FileActionsMenu.tsx:139`) drops the copied items when any
failed, where `onMoveFile` keeps them.

Renaming. A refusal puts back the name the dialog opened with, and a success the
list held when the button was pressed, over what came between. `renomear_item`
finds the item itself when its name is not new, so a second press of the dialog
of a file is refused and undoes the first on the screen. It swallows an error of
the store and answers a success. A chat keeps the title refused. A list copied
while a request runs keeps the refused name; a lost answer undoes a name that is
stored.

Upload queue. A refused file with parentheses in its name is looked up by the
name without them and stays "preparing"; a failure before the last byte leaves
the file "uploading".

Voice. A double click while a session starts, or the modal closed then, leaves a
microphone on that nothing can turn off (`AudioControl.tsx:38-76`). When an
older session of those ends, it sets the button off although a third one is on,
which the button then no longer stops (`AudioControl.tsx:86`). The first piece
of audio after silence finds the player silent, so the check frees the
microphone until the next piece. Only the last interrupted item is remembered.

Page. "New chat" is undone by a query under way or by the end of the last chat's
stream; a query read before the turn was stored, and answered after the stream,
shows the chat without it; a query answered during a stream frees the screen,
and a second turn may be sent; the end of either of the two then frees the
screen of the other, and a third may be sent; a network failure leaves the chat
busy. An answered stop puts a spent controller in the place of whatever the box
holds (`ChatBox.tsx:384`): the controller of a stream started during the wait is
lost, and the next stop clears the mark of loading of its chat but ends nothing,
so that a second turn may be sent beside it.

Agent and model. A choice of a model other than o1 resets the agent of the cache
only; an o1 chat sets the state only; the list read again resets the model of
the cache and shows that of the last message; a box mounted again shows GPT-4o.
A chat saved without messages keeps the model and the limit of the chat shown
before it, and after the list is read again the limit may be of another model.

Chips. The list left by the chips is restored whenever the tab opens; moved and
listed files change one side only; "clear" leaves a folder ticked.

Reactions. A late answer writes old messages onto the chat shown, so that
messages sent meanwhile disappear and the stream ends in a `TypeError`.

History. Scrolling cancels a refetch; a list that shrank refetches `page=false`,
which is refused, and keeps showing what was deleted.

Store of agents. `inserir_especialista` stores nothing, because `insert_one`
gets a Pydantic object (`categoria_mongo.py:58`) and its error is swallowed
(`especialista_mongo.py:74`); were one stored, the listing would fail on the
field `selected` it lacks (`store_service.py:40`). An error of the listing skips
a page for ever; an error of the count hides the rest.

### Fairness

`ChatTurn!FairSpec` assumes weak fairness of the steps of the event loop of each
turn (`Etapa`: steps that need no answer of the model) and of each listener
(`Escuta`). asyncio runs every ready coroutine, and the listener thread is a
daemon thread that runs for the life of the pod; a request to Elasticsearch
ends, with a result or an exception. Nothing is assumed of the model
(`ModeloResponde`), of the users or of the environment. That the listener is
alive is what `StopListener` looks into: `EscutaResiste` says when it is not.
`StopListener!FairSpec` assumes that both threads of a pod run (the one that
sleeps wakes up, a received message is taken), and nothing of Redis.

`VoiceSession!Justica` assumes weak fairness of the clock and of the page: a
buffer of audio is played and ends (`Esvazia`, `Silencia`), and frames are drawn
(`Quadro`). The last holds while the tab is visible: `requestAnimationFrame`
stops in a hidden tab, and the microphone then stays mute until it is shown
again. Nothing is assumed of the user, of the relay or of the network.

## 4. What is proved

For all values of the constants, under the assumptions named in the modules
(`ChatAssumption`, `EntradasAssumption`, `BoundsAssumption`,
`ListenerAssumption`, `ListsAssumption`, `LibraryAssumption`, `NomeAssumption`,
`SessaoAssumption`, `PaginaAssumption`, `CaixaAssumption`, `ReacoesAssumption`,
`NomesAssumption`, `PaginasAssumption`, `LojaAssumption`, `FluxoAssumption`,
`RoteirosAssumption`). They say that the values for "none" are not elements of
the sets, that the bounds and the sizes of pages are numbers (of a page,
positive), in `PaginasAssumption` that the chats are finitely many, in
`LojaAssumption` that the first tab is a category, in `CaixaAssumption` what the
last message of a saved chat is, in `RoteirosAssumption` that the body of an
event begins and ends with text (it is a JSON object), and in
`LibraryAssumption` that no id is both a folder's and a file's (they are
documents of one collection); TLC evaluates each on a run. The theorems have no
other hypothesis.

`ChatTurnProofs`:

- `TypeCorrect`: `Spec => []TypeOK`. One lemma per group of variables
  (`TipoTurno`, `TipoCodigo`, ...), each with a step per action.
- `AnswersHaveQuestions`: `Spec => []RespostaTemPergunta`. Not inductive alone:
  a turn that is about to store its ASSISTANT message must already have stored
  the other two in *its* chat. The strengthening `GravadasNoChat` says that
  `gravadas` counts messages that are there; it survives failed writes because a
  failure resets the count and messages are only ever appended.
- `RegistryIsExact`: `Spec => []RegistroCoerente`. The strengthening
  `CanalPedido` (a stop on a channel was requested, a requested turn has
  started) is what shows that only requested turns are cancelled.
- `StopsTakeEffect`: `Spec => ParadaTemEfeito`, an action property, from the
  same invariant: a consumed stop of a running streaming turn finds the task in
  the registry, or already cancelled.
- `CallsStoredOnce`: `Spec => []ChamadaGravadaUmaVez`. `Autoria` says that a
  stored message is of a chat and a model call of its turn; `AindaNao`, that the
  answer being written is not stored yet, which a new call keeps because its
  number is new.
- `AnswersAreStored`: `Spec => []RespostaGravada`, with `SemMarca` (only a model
  with the flag waits for a tool). `Responde` lists the two ways a turn comes to
  be answered with a text, and the second has just written it.
- `ReactionsStayWithinTurn`: `Spec => []ReacaoAposHistorico`, the longest
  argument, with turns of any number of tabs at once, an index that lags and
  answers that were lost: nothing is assumed of the schedule. `Codigo` ties the
  index of a message to the history its turn loaded; `VisivelAte` says that a
  search sees a prefix of what is stored, and `Contagem`, from it, that no index
  exceeds by more than one the messages that count up to it, so a message with
  the code of an answer has two of them between it and that history; `Reagiu` is
  the property, for the reactions recorded.

`StopListenerProofs`:

- `ListenerTypeCorrect`, and `ListenerSurvives` (`EscutaResiste`) and
  `LoopHeldByRequest` (`LacoPreso`), each inductive together with `TypeOK`: the
  first because `tentativas` grows and only `Acorda` ends a thread, the second
  because `bloqueada` and the thread of the event loop change in the same steps.

`ChatListsProofs` (under `ListsAssumption`):

- `Tipos`: `Spec => []TypeOK`.
- `Exclusao`: `Spec => []ExclusaoRevoga`. Not inductive alone: revoking the
  links of a set of chats must not leave one behind, so a link must have one
  chat (`UmChat`), and a deletion that reached MongoDB must stay there until it
  revokes (`MongoFica`). `SoQuatroMudam` reduces the other actions to those that
  touch the documents, the links or the ghosts.
- `Elos`: `Spec => EloEspecificado`, the refinement of `ShareLink`: `EloPasso`
  shows that every step is a `ShareLink` step or leaves `elo` alone.
- `OneLinkPerChat`: `Spec => []UmElo`. A request about to insert found no link
  (`SemElo`), and none appears meanwhile: another insertion for that chat would
  be of a request in flight with it, and the two are then known
  (`DuasPartilhas`).
- `ListsUpToDate`: `Spec => []ListasEmDia`. `Dia(l)` is the invariant of one
  list, for the times when no request that concerns it is in flight (`Quieta`):
  what it holds, or its fetch brings, is what the store says, unless a ghost
  names why not. Each step either tells the list (`Avisada`) or leaves what it
  should say (`Igual`, `MesmaVisao`). `Limpo` says that the index differs from
  the store only on `sujo`; `Copia`, with `Sai`, what the copy of the archive
  may lack.

`FileLibraryProofs` (under `LibraryAssumption`):

- `Tipos`: `Spec => []TypeOK`.
- `Orfaos` and `Homonimos`: `SemOrfaos` and `SemHomonimos`, from `Inv == TypeOK
  /\ Abrigo /\ Conferidas /\ SemHomonimos`. `Abrigo` extends `SemOrfaos` to a
  folder whose files were removed and which is about to be. `Conferidas` says
  what a request in the phase `grava` still knows of the name it checked:
  whoever has the name now came since, and is in `desde`; the write then names
  the race.
- `SidebarShowsTheStore`: `Spec => []ListaFiel`. The property speaks of rest
  alone, so the invariant `Acordo` says what holds while requests are under way:
  the shape of each request (`Forma`), the objects of the page it holds
  (`Presas`), that ids not yet used are nowhere (`Usados`, `Novas`), what a
  request over a folder knows (`DePastas`), that what two requests touch at once
  is excused (`Disputa`), that a folder shown and gone, or the reverse, is that
  of a request yet to be answered (`Lados`), that a file no request is about is
  shown in its folder, or rightly nowhere (`Certos`), and that what an answer
  will write in the list is so in the store (`Promessas`). Three lemmas reduce
  the actions to one argument each: `AtendeFaz` for a step of the backend,
  `IniciaFaz` for one of the user, `EncerraFaz` for an answer; `AoPrender`,
  `AoLargar`, `AoTrocar` and `AoEscrever` say what the operators of the list do
  to it. `EmRepouso` derives `ListaFiel`, with `Abrigo` for the files whose
  folder is gone.

The page (`SidebarProofs`, `VoiceSessionProofs`, `ChatPageProofs`,
`MessageProofs`). Here the type invariant is stated with the proofs, as part of
the inductive one:

- `ListsTellTheUploads`: `SpecEnvio => []EnviosMostrados`. `Andamento` says in
  which list a file of each phase is; `Relatado` that a refusal keeps the name
  the end of its batch will report. `MudaUm` and the lemmas after it do one file
  at a time.
- `MicrophoneOnScreen`, `InterruptedStaysSilent`, `NoEcho`: `MicNaTela`,
  `CanceladoNaoToca` and `SemRetorno`, for any number of sessions, pieces and
  messages in flight. `Tudo(m)` is the invariant of one session: it has nothing
  before its token (`Comeco`), the token is accepted once (`UmaVez`), what a
  stop leaves (`Fim`), items arrive in order and the ignored one is the last
  interrupted (`Ordem`), and the microphone sends beside sound only where a
  piece reopened it (`SemEco`). A step of one session leaves `Tudo` of the
  others (`Outras`). `NoBotao` relates sessions: which one the button stops.
- `StopReachesTheShown`, `OneStreamPerChat`, `ScreenShowsTheStore` and
  `ScreenIsTheChoice`: `ParaOMostrado`, `UmFluxoPorChat`, `ConversaEmDia`,
  `TelaEhEscolha`; the first and the last are action properties. `Mostrado` ties
  the screen to the chat shown last; `Ocupa` says that a stream that was not
  freed keeps its chat busy; `Base` that, in a chat whose streams nothing
  crossed, the copy of the stream that runs starts from what is stored;
  `Pedidas` that a stop that waits for the server aborts the stream of the turn
  it asked to stop, or none.
- `SentIsShown`, `SentFitsTheModel`: `AgenteEModeloMostrados` and
  `LimiteDoModelo`, for any lists and saved chats. `AgenteIgual`, `ModeloIgual`
  and `Limite` are the two without the condition that a message can be sent: a
  handler may run while the box is locked.

- `ChipsSempreSaoMarcas`: `SpecSelecao => []ChipsSaoMarcas`, for any files,
  folders and number of steps. `SelecaoInv` only adds the types: the property
  speaks of every state, requests under way included. `SetFilesSelectedPasso`
  and `SetUploadedFilesPasso` are the two ways a handler changes one side or
  both, and each handler is shown to be one of them.
- `NomeSempreDaTela`: `SpecNome => []NomeDaTela`, for any items, requests and
  copies. The property speaks of items at rest, so `NomeInv` says what a request
  knows: its objects are there (`Apontam`); if it ran alone it still does
  (`Sozinhos`) and its object has the name it stores (`NomeDoObjeto`); unless
  another handler copied its object, a refusal brings back the name stored, on
  the object shown (`Desfazivel`). `DialogoEmDia` says that the dialog of an
  item at rest began with the name shown, which is what a refusal will put back.
- `ConversaSempreIntacta`: `SpecReacoes => []ConversaIntacta`. `Ligados` ties
  the screen, the turn and the requests to one chat; `Unicos` that a request
  that still holds the object shown is the only one about its answer, so that
  what it writes is what is stored; `TurnoNaTela` counts the answers shown and
  stored while a turn runs, and is why the index of the turn is that of its
  answer; `MesmasReacoes` is the property with a weaker condition: that no
  request about the answer was stored (`Intocada`).
- `EntregaSempreEmOrdem`: `Spec => []EntregaEmOrdem` of `StreamParser`, for any
  streams, chats, bodies and cuts. The property speaks of what was handed over;
  `FluxoInv` says what may still be. `Sobra`: the buffer is a piece of what was
  sent, in order, without a delimiter inside; `Donos`: its letters are of the
  chat of the stream that read last, or of streams of chats without an id;
  `Inteira`: an answer whole in it gave its id to that stream; `Feitas`: what
  was handed over comes before what the buffer and the rest of the stream may
  still give. `SeparaE`, `SeparaCorte` and `ParteAparada` say what `split` and
  `trim` do to a string, and need no induction: the ends of the parts are a
  finite set in order (`OrdemE`).
- `EntregaSempreExata`, `PerdaSempreSoNoDelimitador`: `Spec => []EntregaExata`
  and `Spec => []PerdaSoNoDelimitador`, from `ExataInv == FluxoInv /\ Historia
  /\ Sozinhos`. `Sozinhos` says what is left and what was handed over of a
  stream whose buffer nobody else touched (`SozinhoDe`): only letters that were
  read are left, and only events whose body was read are handed over (`BaseDe`);
  the body under way keeps all its letters, unless the delimiter before it was
  cut (`LetrasDe`), which is why the next chunk completes it; an event whose
  body was read is handed over, unless the delimiter before it was cut
  (`EntregasDe`, the second property); without bad cuts the buffer is exactly
  the body under way, blanks included, and the events are handed over whole,
  once and in order (`ExatoDe`, the first). A chunk is followed part by part:
  `Vizinhos` finds the part that lies between two ends, `PartesExatas` says what
  the parts of an exact buffer are, `CompletasExatas` which of them are objects.
  The cases of a chunk are where it ends in its event (`OndeCorta`).
- `ListaSempreSemSaltos`: `SpecHistorico => []ListaSemSaltos`, for an index of
  any size, any size of page and any changes. `Boa` says that some pages are the
  first chats of the index, each page full but the last, with its total;
  `PaginasBoas` says of which pages, by the kind of the reading, and
  `ComPaginas` which kinds there can be.
- `CartoesSempreDaCategoria`: `SpecLoja => []CartoesDaCategoria`. `DaCategoria`
  holds even of keys that failed: the effect takes the tab from the first card
  it gets. `PaginasCheias` says that a key none of whose pages failed has the
  first specialists, in full pages, of which the one being read is the next;
  `AbaAtual` that the tab shown has what its key loaded; `AbasBoas` that the
  tabs opened before keep a prefix, because specialists are only added.

### What the attempts found

Nine invariants were not inductive because the model, checked within its bounds,
had left out a behaviour of the code or an exception of the property:

- Voice: with a third session, the end of an older one sets the button off
  although a newer one is on. `corridas` now names it.
- Page: a turn ends by freeing the screen, whoever owns it, so a third message
  may be sent beside a second one (`Solta`, `SoltaOsOutros`). TLC cannot afford
  three messages within the run; it checked them apart, with 14,484,724 states.
- Page: `ConversaEmDia` used to ask for a query at rest. The invariant needs no
  such condition, and the property no longer has it.
- Box: a chat saved without messages has no last model. `Salvo` now holds one.
- Lists: the clause of `ListasEmDia` on the copy of the archive, with two chats.
  TLC checked the corrected one apart, with 2,812,861 states.
- Files: with a third request, a file that the deletion of its folder removed is
  moved, answered as moved (`mover_item` writes nothing and raises nothing), and
  shown. `desculpa` now names it. TLC checked three requests apart, with one
  file, a failure and a listing (2,279,394 states) and with two files of two
  names (3,292,969). `ListaFiel` used to ask for the listing at rest too; it
  needs no such condition, and no longer has it.

- Reactions: `GravaResposta` looked at how many answers were stored instead of
  whether its own was, so that with more answers than the run has the server
  could store two of one turn. `recebendo` now has a mark of its own.
- Renaming: an answer that puts an older list back changes the object that other
  requests under way would undo; a refusal of one of them then leaves the
  refused name on the list. `RespondeBiblioteca` now marks those requests
  (`duvida`). It takes three names and four dialogs: TLC finds it after 19 steps
  of the old model, beyond the bounds of the run.

- Stream parser: with three streams, a stop aborts the stream the page began
  last and frees the chat of an older one, which then has two streams; each may
  hand over answers of the other. `EntregaEmOrdem` now says so. TLC checked the
  corrected one, and its inductive invariant, with three streams by simulation.

The splitting of `StreamParser` used to be a recursion (`SelectSeq`); `Ordem`
enumerates the ends of the parts instead, and TLC checked the inductive
invariant with the error and the body of two pieces beside two events (570,188
states). The pages of `HistoryPages` and `GptStore` used to be sequences of
pages, whose concatenation needed a recursion; the two inductive invariants were
checked by TLC, with the modules alone, on 415,147 and 350,643 states before
they were proved, and `Sozinhos`, of `StreamParser`, on 349,244.

### Only model-checked

- The liveness properties (`ParadaEncerra`, `DesisteSemRedis`,
  `ParadaProcessada`, `VoltaAEnviarSozinha`): TLAPS does not prove what holds
  under fairness. Every other property of the passing runs has a theorem.

## 5. What is not modelled, and why

Text of messages and prompts, retrieval of documents, quota and images (the turn
only needs that these steps may fail); logging, styles, configuration; the parts
of the inventory with status `not_modelled` in `PROJECT.json`. Of the chat turn:
`data_ultima_iteracao`, and the non atomic increment of `tentativas`. The
cancellation of a task by another thread takes effect at the next iteration of
the event loop, which the model does not bound. Of the chat store: the content
of a shared chat and its copy into the chats of the reader. Of the files: blobs,
sections of the index (their failure is that of the upload), downloads;
`FileLibrary` has no names of folders, which are in `Rename`. Of the interface:
rendering, shared chats, the copies kept for Teams, images, and the guard
`chatHandler.isStreaming()` of the keyboard shortcut, which the send button does
not have. The parts of the page are modelled apart: what one does to another
appears as a step of the environment (in `FileSelection` a list read again may
hold any files; in `InputBox` any chat may appear). The relay of the voice
backend runs three streams of a service whose protocol the repository does not
define; only what it sends to the browser is modelled, as external actions.

## 6. Plan

In order:

1. `ChatTurn` with the subscription of `StopListener` in place of its `canal`
   (refinement: a stop on the channel is a stop in a queue of a live listener),
   and an abstract specification of a turn (question stored, then answer, or
   nothing) implemented by `ChatTurn`.
2. The adoption of a shared chat, message by message; the relay of the voice
   backend and its tool slot.
3. Pure algorithms: `filtrar_trechos_utilizados`, paging, segmentation, against
   reference definitions over bounded inputs.
