---------------------------- MODULE MCChatLists -----------------------------
(* Values of the constants of ChatLists for TLC.                           *)
EXTENDS ChatLists, TLC

CONSTANTS c1, k1, k2, o1, o2

\* A recent chat, or an archived one that was pinned.
MCInicio == {[fixado |-> f, arquivado |-> f, apagado |-> FALSE] : f \in BOOLEAN}

Simetria == Permutations({k1, k2}) \cup Permutations({o1, o2})
=============================================================================
