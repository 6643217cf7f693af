--------------------------- MODULE MCEngineDialect ---------------------------
(* Instances of EngineDialect for TLC. *)
EXTENDS EngineDialect, TLC

CONSTANTS t1, t2, t3

MCThread == {t1, t2, t3}
Twins == Permutations(MCThread)

\* A server without GetSqlInfo and with any default, and two that implement
\* it; each default is another server's after a change.
MCServers ==
  {s \in ServerType :
     \/ ~s.info /\ s.quote = NoQuote /\ s.readOnly = "unreported"
     \/ s.info /\ s.quote = "backtick" /\ s.readOnly = "yes" /\ s.default = "c1"
     \/ s.info /\ s.quote = NoQuote /\ s.readOnly = "no" /\ s.default = "c2"}
=============================================================================
