---------------------------- MODULE MCSandboxFiles ----------------------------
(* Two names beside the root's own and its sibling's; arguments that stay in  *)
(* the sandbox, leave it, and leave it to come back.                          *)
EXTENDS SandboxFiles

CONSTANTS root, sibling, a, b, up_, x, y, partial, dir

Names == {root, sibling, a, b}
RootPath == <<root>>
Outside == <<>> :> dir @@ <<sibling>> :> partial
Texts == {x, y}

Relative == {<<>>, <<a>>, <<b>>, <<a, a>>, <<b, a>>, <<a, b, a>>,
             <<up_, sibling>>, <<up_, root, a>>, <<a, up_, b>>}
Arguments == [absolute : {FALSE}, parts : Relative]
                \cup [absolute : {TRUE}, parts : {<<sibling>>, <<root, b>>}]
=============================================================================
