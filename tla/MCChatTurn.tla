----------------------------- MODULE MCChatTurn -----------------------------
(* Values of the constants of ChatTurn for TLC.                            *)
EXTENDS ChatTurn, TLC

CONSTANTS t1, t2, t3, p1, p2

\* The streaming route on one pod, the route that does not stream on the other.
MCEntradasPods == [rota : {"cadeia"}, claude : {FALSE}, pod : {p1}]
                    \cup [rota : {"plana"}, claude : {FALSE}, pod : {p2}]
\* The agent routes only.
MCEntradasAgente == [rota : {"agente"}, claude : BOOLEAN, pod : {p1}]
\* The models with the Bedrock tool flag, and the one route without.
MCEntradasBedrock == [rota : {"agente"}, claude : {TRUE}, pod : {p1}]
MCEntradasCadeia == [rota : {"cadeia"}, claude : {FALSE}, pod : {p1}]
\* Both.
MCEntradasReacao == MCEntradasBedrock \cup MCEntradasCadeia
\* The route that answers without streaming (o1-*).
MCEntradasPlana == [rota : {"plana"}, claude : {FALSE}, pod : {p1}]

Simetria == Permutations({t1, t2, t3} \cap Turn)
=============================================================================
