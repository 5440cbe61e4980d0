------------------------------ MODULE FileStore ------------------------------
(***************************************************************************)
(* What the sandbox file server promises about the files, without saying   *)
(* how: at any time, whatever fails or dies, one of them is emptied and    *)
(* then filled, or one is removed, or one subtree is somewhere else as a   *)
(* whole.  Files outside the sandbox are not its business.                 *)
(***************************************************************************)
EXTENDS SequencesExt

CONSTANTS Content,
          Partial,       \* what a file holds while it is being written
          Sandboxed(_)   \* the paths that are its business

VARIABLE files  \* what each file holds, by its path

\* A path under from, moved along with it.
NewPlace(p, from, to) ==
    IF IsPrefix(from, p) THEN to \o SubSeq(p, Len(from) + 1, Len(p)) ELSE p

Empty(p) ==
    /\ Sandboxed(p)
    /\ files' = [q \in DOMAIN files \cup {p} |-> IF q = p THEN Partial ELSE files[q]]

Fill(p) ==
    /\ p \in DOMAIN files /\ files[p] = Partial
    /\ \E text \in Content : files' = [files EXCEPT ![p] = text]

Delete(p) ==
    /\ Sandboxed(p)
    /\ files' = [q \in DOMAIN files \ {p} |-> files[q]]

\* The subtree at from is now at to, where nothing was, or one file that one
\* file replaces.
Move(from, to) ==
    /\ from # to /\ Sandboxed(from) /\ Sandboxed(to)
    /\ \A p \in DOMAIN files : IsPrefix(to, p) => p = to /\ from \in DOMAIN files
    /\ \A p \in DOMAIN files \ {to} : /\ NewPlace(p, from, to) \in DOMAIN files'
                                      /\ files'[NewPlace(p, from, to)] = files[p]
    /\ DOMAIN files' = {NewPlace(p, from, to) : p \in DOMAIN files \ {to}}

\* The files and what they are in.
Places(tree) == UNION {Prefixes(p) : p \in DOMAIN tree}

Next ==
    \/ \E p \in DOMAIN files' : Empty(p) \/ Fill(p)
    \/ \E p \in DOMAIN files : Delete(p)
    \/ \E from \in Places(files), to \in Places(files') : Move(from, to)

Spec == files \in [DOMAIN files -> Content \cup {Partial}] /\ [][Next]_files
=============================================================================
