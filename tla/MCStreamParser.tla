--------------------------- MODULE MCStreamParser ---------------------------
(* Values of the constants of StreamParser for TLC.                        *)
EXTENDS StreamParser, TLC

CONSTANT f1

Texto(n) == [k \in 1..n |-> "texto"]
Roteiro(n, e, corpo) == [eventos |-> n, erro |-> e, corpo |-> corpo]
Par(r, s) == [f \in Fluxo |-> IF f = f1 THEN r ELSE s]

\* An answer whose text has a blank and an error, cut anywhere, beside a stream
\* that sends nothing.
MCSozinho == {Par(Roteiro(1, TRUE, <<"texto", "branco", "texto">>),
                  Roteiro(0, FALSE, Texto(1)))}
\* An answer and an error beside two answers; and, with a body of two pieces,
\* beside one.
MCDois == {Par(Roteiro(1, TRUE, Texto(1)), Roteiro(2, FALSE, Texto(1))),
           Par(Roteiro(1, TRUE, Texto(2)), Roteiro(1, FALSE, Texto(1)))}
MCRoteiros == MCSozinho \cup MCDois

Simetria == Permutations(Conversa)
=============================================================================
