---------------------------- MODULE MCMCPManager ----------------------------
(* Two servers that both offer one name, one tool that may be retried, one   *)
(* that may not, and one that nobody offers.                                 *)
EXTENDS MCPManager

CONSTANTS sandbox, context7, read, write, shared, nowhere

Servers == {sandbox, context7}
SpecOrder == <<sandbox, context7>>
Tools == {read, write, shared, nowhere}
ToolsOffered == [s \in Servers |->
    IF s = sandbox THEN {read, write, shared} ELSE {shared}]
IdempotentTools == {read}
=============================================================================
