----------------------------- MODULE ShareLink -----------------------------
(***************************************************************************)
(* What a shared link promises, whatever lists and requests are involved:  *)
(* a link is made once, for one chat, and a revoked link never comes back, *)
(* so a reader who was refused stays refused.                              *)
(***************************************************************************)
CONSTANTS Chat, Link

VARIABLE elo   \* link -> its state and its chat

Livre == [st |-> "livre", chats |-> {}]
Ativo(c) == [st |-> "ativo", chats |-> {c}]
Removido(c) == [st |-> "removido", chats |-> {c}]

\* Some links may have been made before.
Init == elo \in [Link -> {Livre} \cup {Ativo(c) : c \in Chat}]

Cria(k, c) == elo[k] = Livre /\ elo' = [elo EXCEPT ![k] = Ativo(c)]

\* One link, those of some chats, or all of them.
Revoga(ks) ==
  /\ \A k \in ks : elo[k].st = "ativo"
  /\ elo' = [k \in Link |-> IF k \in ks THEN [elo[k] EXCEPT !.st = "removido"] ELSE elo[k]]

Next ==
  \/ \E k \in Link, c \in Chat : Cria(k, c)
  \/ \E ks \in SUBSET Link : Revoga(ks)

Spec == Init /\ [][Next]_elo
=============================================================================
