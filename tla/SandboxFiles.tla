----------------------------- MODULE SandboxFiles -----------------------------
(***************************************************************************)
(* The sandbox file server (mcp-servers/sandbox-file-manager/server.py): a *)
(* process of its own that gives the agent five tools over the files under *)
(* SANDBOX_ROOT.  Its tools are not async, so it serves one request at a   *)
(* time; within one, a call of the file system may fail and the process    *)
(* may be killed between any two.                                          *)
(*                                                                         *)
(* A path is the sequence of its names from /.  The file system has no     *)
(* links, and nobody else writes to it.                                    *)
(***************************************************************************)
EXTENDS Integers, FiniteSets, SequencesExt

CONSTANTS Name,
          Root,      \* SANDBOX_ROOT
          World,     \* what exists before the server is first started
          Argument,  \* what a client may name: is it absolute, and its parts
          Up,        \* the part ".."
          Content,   \* texts of files
          Partial,   \* what a file holds while one of these is being written
          Dir,
          MaxDepth,  \* names in a path that exists
          MaxNodes   \* paths that exist: the disk is full

Path == Seq(Name)
Node == Content \cup {Partial, Dir}
Parent(p) == SubSeq(p, 1, Len(p) - 1)
Ancestors(p) == {SubSeq(p, 1, n) : n \in 0..(Len(p) - 1)}
Inside(p) == IsPrefix(Root, p)

ASSUME RootAssumption == Root \in Path /\ Root # <<>>
ASSUME ArgumentAssumption == Argument \subseteq [absolute : BOOLEAN, parts : Seq(Name \cup {Up})]
ASSUME NodeAssumption == Dir \notin Content \cup {Partial}
ASSUME WorldAssumption ==
    /\ DOMAIN World \subseteq Path /\ IsFiniteSet(DOMAIN World)
    /\ \A p \in DOMAIN World : World[p] \in Node /\ ~Inside(p)
    /\ \A p \in DOMAIN World \cup {Root} :
         \A a \in Ancestors(p) : a \in DOMAIN World /\ World[a] = Dir

VARIABLES
    fs,       \* what is at each path that exists
    up,       \* the process runs
    pc,       \* where its current request is
    request,  \* that request
    before,   \* fs when it came
    answer    \* what the last one was answered

vars == <<fs, up, pc, request, before, answer>>

IsDir(p) == p \in DOMAIN fs /\ fs[p] = Dir
IsFile(p) == p \in DOMAIN fs /\ fs[p] # Dir

Tool == {"list_files", "read_file", "write_file", "move_file", "delete_file"}
Request == [tool : Tool, source : Path, target : Path, text : Content \cup {Partial}]

NoRequest == [tool |-> "list_files", source |-> Root, target |-> Root, text |-> Partial]

TypeOK ==
    /\ DOMAIN fs \subseteq Path /\ \A p \in DOMAIN fs : fs[p] \in Node
    /\ DOMAIN before \subseteq Path /\ \A p \in DOMAIN before : before[p] \in Node
    /\ up \in BOOLEAN
    /\ pc \in {"idle", "begun", "opened", "done"}
    /\ request \in Request
    /\ answer \in {"none", "OK", "ERROR"}

Init ==
    /\ fs = World
    /\ up = FALSE
    /\ pc = "idle"
    /\ request = NoRequest
    /\ before = fs
    /\ answer = "none"

Put(p, node) == [q \in DOMAIN fs \cup {p} |-> IF q = p THEN node ELSE fs[q]]

\* The import: SANDBOX_ROOT.mkdir(exist_ok=True).
Start ==
    /\ ~up
    /\ up' = TRUE
    /\ fs' = IF Root \in DOMAIN fs THEN fs ELSE Put(Root, Dir)
    /\ before' = fs'
    /\ UNCHANGED <<pc, request, answer>>

\* The client closes the connection, or the process dies.
Kill ==
    /\ up
    /\ up' = FALSE
    /\ pc' = "idle"
    /\ answer' = "none"
    /\ request' = NoRequest
    /\ before' = fs
    /\ UNCHANGED fs

-----------------------------------------------------------------------------
(* The checks a tool makes first.  Each returns an ERROR.                  *)

\* Path.resolve() of SANDBOX_ROOT / path, where an absolute path replaces what
\* it is joined to.
Resolve(arg) ==
    LET path[n \in 0..Len(arg.parts)] ==
            IF n = 0 THEN IF arg.absolute THEN <<>> ELSE Root
            ELSE IF arg.parts[n] = Up THEN Parent(path[n - 1])
            ELSE Append(path[n - 1], arg.parts[n])
    IN  path[Len(arg.parts)]

\* Mutant: the path is checked as it was given.
WithinAsGiven(arg) == ~arg.absolute

Within(arg) == Inside(Resolve(arg))

Begin(tool, source, target, text, ok) ==
    /\ up
    /\ pc = "idle"
    /\ IF ok
       THEN /\ request' = [tool |-> tool, source |-> Resolve(source),
                           target |-> Resolve(target), text |-> text]
            /\ pc' = "begun"
            /\ answer' = "none"
       ELSE /\ answer' = "ERROR"
            /\ UNCHANGED <<request, pc>>
    /\ UNCHANGED <<fs, up, before>>

ListFiles(arg) ==
    Begin("list_files", arg, arg, Partial, Within(arg) /\ IsDir(Resolve(arg)))

ReadFile(arg) ==
    Begin("read_file", arg, arg, Partial, Within(arg) /\ IsFile(Resolve(arg)))

WriteFile(arg, text) == Begin("write_file", arg, arg, text, Within(arg))

\* Mutant: only the source is confined.
MoveAnywhere(source, destination) ==
    Begin("move_file", source, destination, Partial,
          Within(source) /\ Resolve(source) \in DOMAIN fs)

MoveFile(source, destination) ==
    Begin("move_file", source, destination, Partial,
          Within(source) /\ Within(destination) /\ Resolve(source) \in DOMAIN fs)

DeleteFile(arg) ==
    Begin("delete_file", arg, arg, Partial, Within(arg) /\ IsFile(Resolve(arg)))

-----------------------------------------------------------------------------
(* What it does then.                                                      *)

Answer(what) ==
    /\ pc' = "idle"
    /\ answer' = what
    /\ request' = NoRequest
    /\ before' = fs'
    /\ UNCHANGED up

Busy(tool) == pc = "begun" /\ request.tool = tool

\* The last call of the file system has returned; the answer is still to be made and
\* to be sent.
Finish ==
    /\ pc' = "done"
    /\ UNCHANGED <<up, request, before, answer>>

\* read_file and list_files.
Look ==
    /\ Busy("list_files") \/ Busy("read_file")
    /\ UNCHANGED fs
    /\ Finish

\* One step of target.parent.mkdir(parents=True, exist_ok=True).  Where a file
\* is in the way there is no such step, and what is left is OsError.
MakeDir(p) ==
    /\ Busy("write_file") \/ Busy("move_file")
    /\ p \in Ancestors(request.target)
    /\ p \notin DOMAIN fs
    /\ IsDir(Parent(p))
    /\ Cardinality(DOMAIN fs) < MaxNodes
    /\ fs' = Put(p, Dir)
    /\ UNCHANGED <<up, pc, request, before, answer>>

\* write_text(): open for writing, which empties the file or creates it ...
Truncate ==
    /\ Busy("write_file")
    /\ IsDir(Parent(request.target))
    /\ ~IsDir(request.target)
    /\ request.target \in DOMAIN fs \/ Cardinality(DOMAIN fs) < MaxNodes
    /\ fs' = Put(request.target, Partial)
    /\ pc' = "opened"
    /\ UNCHANGED <<up, request, before, answer>>

\* ... and write.
WriteText ==
    /\ pc = "opened"
    /\ fs' = Put(request.target, request.text)
    /\ Finish

\* fs with the subtree at from at to instead.
Moved(from, to) ==
    LET arrived == {to \o SubSeq(p, Len(from) + 1, Len(p)) :
                      p \in {q \in DOMAIN fs : IsPrefix(from, q)}}
    IN  [p \in {q \in DOMAIN fs : ~IsPrefix(from, q)} \cup arrived |->
            IF p \in arrived THEN fs[from \o SubSeq(p, Len(to) + 1, Len(p))] ELSE fs[p]]

\* rename(2) replaces a file by a file and an empty directory by a directory,
\* and does not move a directory into itself.
Renamable(from, to) ==
    /\ IsDir(Parent(to))
    /\ \/ from = to
       \/ /\ ~IsPrefix(from, to)
          /\ \/ to \notin DOMAIN fs
             \/ IsFile(from) /\ IsFile(to)
             \/ IsDir(from) /\ IsDir(to) /\ \A p \in DOMAIN fs : ~IsStrictPrefix(to, p)

\* Mutant: a file that is in the way is removed, first.
RemoveThenRename ==
    /\ Busy("move_file")
    /\ Renamable(request.source, request.target)
    /\ IF request.source # request.target /\ IsFile(request.target)
       THEN /\ fs' = [p \in DOMAIN fs \ {request.target} |-> fs[p]]
            /\ UNCHANGED <<up, pc, request, before, answer>>
       ELSE /\ fs' = Moved(request.source, request.target)
            /\ \A p \in DOMAIN fs' : Len(p) <= MaxDepth
            /\ Finish

Rename ==
    /\ Busy("move_file")
    /\ Renamable(request.source, request.target)
    /\ fs' = Moved(request.source, request.target)
    /\ \A p \in DOMAIN fs' : Len(p) <= MaxDepth
    /\ Finish

Unlink ==
    /\ Busy("delete_file")
    /\ fs' = [p \in DOMAIN fs \ {request.target} |-> fs[p]]
    /\ Finish

\* A call fails: no such file, no space, no permission, an I/O error.
OsError ==
    /\ pc \in {"begun", "opened"}
    /\ UNCHANGED fs
    /\ Answer("ERROR")

Reply ==
    /\ pc = "done"
    /\ UNCHANGED fs
    /\ Answer("OK")

-----------------------------------------------------------------------------
Requests ==
    \E arg \in Argument :
        \/ ListFiles(arg) \/ ReadFile(arg) \/ DeleteFile(arg)
        \/ \E text \in Content : WriteFile(arg, text)
        \/ \E destination \in Argument : MoveFile(arg, destination)

Next ==
    \/ Start \/ Kill \/ Requests
    \/ Look \/ Truncate \/ WriteText \/ Rename \/ Unlink \/ OsError \/ Reply
    \/ \E p \in Ancestors(request.target) : MakeDir(p)

Spec == Init /\ [][Next]_vars

-----------------------------------------------------------------------------
\* "Each confined to SANDBOX_ROOT" (server.py:3): whatever a client names, and
\* however it was interrupted, outside nothing is made, changed or lost, and
\* the root itself stays where it is.
Confined ==
    /\ \A p \in DOMAIN World : p \in DOMAIN fs /\ fs[p] = World[p]
    /\ \A p \in DOMAIN fs \ DOMAIN World : Inside(p)
    /\ up => IsDir(Root)

Files(tree) == [p \in {q \in DOMAIN tree : tree[q] # Dir} |-> tree[p]]

\* What was asked for has been done, and nothing else: the text is in the file; the
\* file is gone; all of the subtree has moved, and at most the target was replaced.
Done(r, tree, new) ==
    LET old == Files(before)
        source == {p \in DOMAIN before : IsPrefix(r.source, p)}
    IN  CASE r.tool = "write_file" -> new = [p \in DOMAIN old \cup {r.target} |->
                IF p = r.target THEN r.text ELSE old[p]]
          [] r.tool = "delete_file" -> new = [p \in DOMAIN old \ {r.target} |-> old[p]]
          [] r.tool = "move_file" ->
                /\ \A p \in source : LET q == r.target \o SubSeq(p, Len(r.source) + 1, Len(p)) IN
                        q \in DOMAIN tree /\ tree[q] = before[p]
                /\ r.source # r.target => r.source \notin DOMAIN tree
                /\ \A p \in DOMAIN old \ (source \cup {r.target}) :
                     p \in DOMAIN new /\ new[p] = old[p]
                /\ Cardinality(DOMAIN new) >= Cardinality(DOMAIN old) - 1
          [] OTHER -> tree = before

\* No file has been changed, but for the one being written, which may be left half
\* written.  Directories that have been made stay.
NotDone(r, new) ==
    \/ new = Files(before)
    \/ /\ r.tool = "write_file"
       /\ new = [p \in DOMAIN Files(before) \cup {r.target} |->
            IF p = r.target THEN Partial ELSE before[p]]

\* Whenever a request ends, however its steps went: after OK it is done, and after
\* ERROR it is not.  Killed, without an answer, it is one or the other.
AnswersAreTrue ==
    [][pc # "idle" /\ pc' = "idle" =>
        \/ answer' # "ERROR" /\ Done(request, fs', Files(fs'))
        \/ answer' # "OK" /\ NotDone(request, Files(fs'))]_vars

FileStore == INSTANCE FileStore WITH files <- Files(fs), Sandboxed <- Inside

\* Seen as files only, every step is one of the abstract store, kills and
\* failures included: no file is ever missing, doubled or half moved.
ImplementsFileStore == FileStore!Spec
=============================================================================
