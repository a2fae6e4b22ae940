---------------------------- MODULE UploadQueue -----------------------------
(***************************************************************************)
(* The four lists of the upload tab: files being sent, being prepared,     *)
(* refused and ready.                                                      *)
(*                                                                         *)
(* The files dropped together are sent at once, under their names without  *)
(* parentheses, and the results wait for the last of them.  The lists are  *)
(* kept by entry while a file is sent, and by name afterwards.  Left out:  *)
(* the percentage, the messages, and the list of folders (FileLibrary).    *)
(***************************************************************************)
EXTENDS FiniteSets

CONSTANTS
  Arquivo,  \* bound: files dropped
  Nome      \* names, without what was in parentheses

ASSUME NomeAssumption == Nome # {}

VARIABLES
  envio,            \* file -> its request
  filesInUpload,
  filesInPreparing,
  filesInError,     \* names
  filesInSuccess,   \* names
  \* Ghosts.
  omitidos,         \* files whose failure leaves no error, and why
  escondidos,       \* files taken out of the preparing by another of their name
  dispensados       \* files whose message was closed

vListas == <<filesInUpload, filesInPreparing, filesInError, filesInSuccess>>
vOmissao == <<omitidos, escondidos, dispensados>>
varsEnvio == <<envio, vListas, vOmissao>>

\* mudou: the name had parentheses.  lote: the files dropped with it.  erro: the
\* entry the batch reports for it.
Guardado == [fase |-> "fora", nome |-> CHOOSE n \in Nome : TRUE, mudou |-> FALSE,
             lote |-> {}, erro |-> {}]
Enviando == {f \in Arquivo : envio[f].fase = "enviando"}
NoServidor == {f \in Arquivo : envio[f].fase = "enviado"}
EnviosEmCurso == Enviando \cup NoServidor
ComNome(fs, n) == {f \in fs : envio[f].nome = n}

InitEnvio ==
  /\ envio = [f \in Arquivo |-> Guardado]
  /\ filesInUpload = {} /\ filesInPreparing = {} /\ filesInError = {} /\ filesInSuccess = {}
  /\ omitidos = {} /\ escondidos = {} /\ dispensados = {}

-----------------------------------------------------------------------------
\* onDrop: types refused by the drop zone are reported at once, by their names;
\* uploadFile sends the others.
OnDrop(fs, recusados, nomes, mudam) ==
  /\ fs # {} /\ \A f \in fs : envio[f].fase = "fora"
  /\ envio' = [f \in Arquivo |->
                 IF f \in fs THEN [Guardado EXCEPT !.fase = "enviando", !.nome = nomes[f],
                                                   !.mudou = f \in mudam, !.lote = fs]
                 ELSE envio[f]]
  /\ filesInUpload' = filesInUpload \cup fs
  /\ filesInError' = filesInError \cup recusados
  /\ UNCHANGED <<filesInPreparing, filesInSuccess, vOmissao>>

\* updateFile at 100%: the entry changes lists.
Completa(f) ==
  /\ f \in Enviando
  /\ envio' = [envio EXCEPT ![f].fase = "enviado"]
  /\ filesInUpload' = filesInUpload \ {f}
  /\ filesInPreparing' = filesInPreparing \cup ({f} \cap filesInUpload)
  /\ UNCHANGED <<filesInError, filesInSuccess, vOmissao>>

\* handleUploadSuccess: every entry of the name the server answers.
Aceita(f) ==
  /\ f \in NoServidor
  /\ envio' = [envio EXCEPT ![f].fase = "ok"]
  /\ LET saem == ComNome(filesInPreparing, envio[f].nome) IN
       /\ filesInPreparing' = filesInPreparing \ saem
       /\ escondidos' = escondidos \cup (saem \ {f})
  /\ UNCHANGED <<filesInUpload, filesInError, filesInSuccess, omitidos, dispensados>>

\* The entries handleUploadError finds: by the name the file had, which is not the
\* one it was sent with if that had parentheses.
Procurados(f) == IF envio[f].mudou THEN {} ELSE ComNome(filesInPreparing, envio[f].nome)

\* handleUploadError, after the server or the network refused.  The entry found is
\* read before React runs the update that finds it, unless the update is eager.
Recusa(f) ==
  /\ f \in NoServidor
  /\ \E eager \in BOOLEAN :
       LET achados == Procurados(f) IN
       /\ envio' = [envio EXCEPT ![f].fase = "erro",
                                 ![f].erro = IF eager /\ achados # {} THEN {envio[f].nome} ELSE {}]
       /\ filesInPreparing' = filesInPreparing \ achados
       /\ escondidos' = escondidos \cup (achados \ {f})
       /\ omitidos' = omitidos \cup
            (IF ~eager \/ envio[f].mudou \/ f \in escondidos THEN {f} ELSE {})
  /\ UNCHANGED <<filesInUpload, filesInError, filesInSuccess, dispensados>>

\* A failure while the file is sent, or before: there is no entry to find.
InterrompeEnvio(f) ==
  /\ f \in Enviando
  /\ LET achados == Procurados(f) IN
       /\ filesInPreparing' = filesInPreparing \ achados
       /\ escondidos' = escondidos \cup achados
       /\ \E eager \in BOOLEAN :
            envio' = [envio EXCEPT ![f].fase = "erro",
                        ![f].erro = IF eager /\ achados # {} THEN {envio[f].nome} ELSE {}]
  /\ omitidos' = omitidos \cup {f}
  /\ UNCHANGED <<filesInUpload, filesInError, filesInSuccess, dispensados>>

\* Faulty: the batch ends with its first answer.
AlgumResponde(fs) == \E f \in fs : envio[f].fase \in {"ok", "erro"}

TodosRespondem(fs) == \A f \in fs : envio[f].fase \in {"ok", "erro"}

\* Promise.all of uploadFile, and updateUploadStates.
Encerra(f) ==
  LET fs == envio[f].lote IN
  /\ fs # {} /\ TodosRespondem(fs)
  /\ filesInSuccess' = filesInSuccess \cup {envio[g].nome : g \in {x \in fs : envio[x].fase = "ok"}}
  /\ filesInError' = filesInError \cup UNION {envio[g].erro : g \in fs}
  /\ envio' = [g \in Arquivo |->
                 IF g \in fs
                 THEN [envio[g] EXCEPT !.lote = {}, !.fase = IF @ = "ok" THEN "pronto" ELSE "falhou"]
                 ELSE envio[g]]
  /\ UNCHANGED <<filesInUpload, filesInPreparing, vOmissao>>

\* removeErrorMessage and removeSuccessMessage.
Dispensa(n) ==
  /\ \/ /\ n \in filesInError /\ filesInError' = filesInError \ {n} /\ UNCHANGED filesInSuccess
     \/ /\ n \in filesInSuccess /\ filesInSuccess' = filesInSuccess \ {n} /\ UNCHANGED filesInError
  /\ dispensados' = dispensados \cup ComNome({f \in Arquivo : envio[f].fase \in {"pronto", "falhou"}}, n)
  /\ UNCHANGED <<envio, filesInUpload, filesInPreparing, omitidos, escondidos>>

\* The tab changes: the lists go, and the answers to come find none.
Desmonta ==
  /\ EnviosEmCurso # {}
  /\ filesInUpload' = {} /\ filesInPreparing' = {} /\ filesInError' = {} /\ filesInSuccess' = {}
  /\ envio' = [f \in Arquivo |-> IF envio[f].fase = "fora" THEN Guardado
                                 ELSE [envio[f] EXCEPT !.fase = "solto", !.lote = {}]]
  /\ UNCHANGED vOmissao

NextEnvio ==
  \/ \E fs \in SUBSET Arquivo, rs \in SUBSET Nome, ms \in SUBSET Arquivo, ns \in [Arquivo -> Nome] :
       OnDrop(fs, rs, ns, ms)
  \/ \E f \in Arquivo : Completa(f) \/ Aceita(f) \/ Recusa(f) \/ InterrompeEnvio(f) \/ Encerra(f)
  \/ \E n \in Nome : Dispensa(n)
  \/ Desmonta

SpecEnvio == InitEnvio /\ [][NextEnvio]_varsEnvio

-----------------------------------------------------------------------------
(* Properties.                                                             *)

\* The lists tell how every upload stands.  In progress: a file in flight is in one of
\* the two lists, and a file in one is in flight; but an answer takes out the others of
\* its name, a failure before the last byte leaves the file among those being sent, and
\* one of a name with parentheses leaves it being prepared.  Over: each file of the
\* batch is reported by its name, as ready or as refused, unless its message was closed,
\* or its failure came before the last byte, or its entry was looked for by another
\* name, too late, or taken by another file (UploadDropDown.tsx:126-240).
EnviosMostrados ==
  /\ \A f \in EnviosEmCurso : f \in filesInUpload \cup filesInPreparing \/ f \in escondidos
  /\ \A f \in filesInUpload \cup filesInPreparing : f \in EnviosEmCurso \/ f \in omitidos
  /\ \A f \in Arquivo \ dispensados :
       /\ envio[f].fase = "pronto" => envio[f].nome \in filesInSuccess
       /\ envio[f].fase = "falhou" => envio[f].nome \in filesInError \/ f \in omitidos
=============================================================================
