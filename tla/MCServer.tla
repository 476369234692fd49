------------------------------ MODULE MCServer ------------------------------
(* Two clients: one with three commands, enough for a request to be         *)
(* discarded, and one whose single command meets the first one's            *)
(* transactions.  Between them they submit every kind of statement.         *)
EXTENDS Server, TLC

CONSTANTS c1, c2

MCClients == {c1, c2}
MCRepertoire == c1 :> {"refused", "begin", "commit", "select"}
             @@ c2 :> {"unknown", "command", "rollback", "change"}
MCMaxCommands == c1 :> 3 @@ c2 :> 1
=============================================================================
