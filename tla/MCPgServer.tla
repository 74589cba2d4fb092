----------------------------- MODULE MCPgServer -----------------------------
(* Instances of PgServer for TLC: a client of the simple protocol that     *)
(* runs everything, and one of the extended protocol beside it.            *)
EXTENDS PgServer

CONSTANTS c1, c2

Simple == [c \in {c1, c2} |-> IF c = c1 THEN Statements \ {"discard"} ELSE {"begin", "commit"}]
Extended == [c \in {c1, c2} |-> IF c = c1 THEN {} ELSE {"read", "write", "discard"}]

Alone == [c \in {c1} |-> {"read", "write", "ddl", "begin", "commit", "rollback"}]
Unprepared == [c \in {c1} |-> {}]

(* Bounds: a cursor and a prepared statement are not open side by side, a  *)
(* portal's statement is not prepared anew beside it, and a handle fails   *)
(* early in a run or not at all.                                           *)
Apart ==
  LET p == conn[c2].portal
  IN  /\ conn[c1].cursor = NoCursor \/ (conn[c2].prepared = "none" /\ p = NoPortal)
      /\ p = NoPortal \/ conn[c2].prepared \in {"none", p.statement}
      /\ svc.failed => svc.next_serial <= 3
=============================================================================
