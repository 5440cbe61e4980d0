-------------------------- MODULE MCApprovalsView ---------------------------
(* One request.  No step about one request looks at another one, so that what *)
(* happens to one of many is what may happen to it alone.                     *)
EXTENDS ApprovalsView

CONSTANT r1

OneRequest == {r1}
=============================================================================
