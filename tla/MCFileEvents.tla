----------------------------- MODULE MCFileEvents -----------------------------
(* Two folders of which one's path begins like the other's ("Docs", "Docs2"). *)
EXTENDS FileEvents, TLC

CONSTANTS docs, docs2, a, b

MCHome == [f \in Files |-> IF f = a THEN docs ELSE docs2]
MCPrefixes == [f \in Files |-> IF f = a THEN {docs} ELSE {docs, docs2}]
=============================================================================
