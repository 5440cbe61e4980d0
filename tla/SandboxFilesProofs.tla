-------------------------- MODULE SandboxFilesProofs --------------------------
(***************************************************************************)
(* Proofs about SandboxFiles, for any names, texts, arguments and bounds,  *)
(* and any world around the sandbox.                                       *)
(***************************************************************************)
EXTENDS SandboxFiles, SequenceTheorems, FiniteSetTheorems, WellFoundedInduction, TLAPS

-----------------------------------------------------------------------------
(* What an argument resolves to: by induction over its parts.              *)

\* A set of naturals with 0 in it and the successor of each of its members is
\* Nat: otherwise there were a smallest natural outside it.
LEMMA InductiveSetIsNat ==
  ASSUME NEW S, S \subseteq Nat, 0 \in S, \A n \in S : n + 1 \in S
  PROVE  S = Nat
<1> DEFINE T == Nat \ S
<1> SUFFICES ASSUME T # {} PROVE FALSE
  OBVIOUS
<1>1. PICK n \in T : \A m \in T : <<m, n>> \notin OpToRel(<, Nat)
  BY WFMin, NatLessThanWellFounded, Zenon
<1>2. \A m \in T : ~(m < n)
  BY <1>1, Zenon DEF OpToRel
<1>3. n # 0 /\ n - 1 \in Nat
  OBVIOUS
<1>4. n - 1 \in S
  BY <1>2, <1>3
<1> QED BY <1>3, <1>4

LEMMA ParentIsPath ==
  ASSUME NEW p \in Path
  PROVE  Parent(p) \in Path
<1>1. \A i \in 1..(Len(p) - 1) : p[i] \in Name
  BY ElementOfSeq DEF Path
<1> QED BY <1>1, SubSeqProperties DEF Parent, Path

\* Path.resolve() makes a path of whatever a client names: the part a client
\* gives is a name or "..", and the parent of / is /.
LEMMA ResolvedIsPath == \A arg \in Argument : Resolve(arg) \in Path
<1> SUFFICES ASSUME NEW arg \in Argument PROVE Resolve(arg) \in Path
  OBVIOUS
<1> DEFINE N == Len(arg.parts)
           Value(path, n) ==
             IF n = 0 THEN IF arg.absolute THEN <<>> ELSE Root
             ELSE IF arg.parts[n] = Up THEN Parent(path[n - 1])
             ELSE Append(path[n - 1], arg.parts[n])
           Walk(path) == path = [n \in 0..N |-> Value(path, n)]
<1>1. N \in Nat /\ \A n \in 1..N : arg.parts[n] \in Name \cup {Up}
  <2>1. arg.parts \in Seq(Name \cup {Up})
    BY ArgumentAssumption
  <2> QED BY <2>1, ElementOfSeq
<1>2. ASSUME NEW path, NEW n \in 0..N, n # 0 => path[n - 1] \in Path
      PROVE  Value(path, n) \in Path
  <2>1. CASE n = 0
    BY <2>1, RootAssumption DEF Path
  <2>2. CASE n # 0 /\ arg.parts[n] = Up
    BY <1>2, <2>2, ParentIsPath
  <2>3. CASE n # 0 /\ arg.parts[n] # Up
    <3>1. arg.parts[n] \in Name
      BY <1>1, <2>3
    <3> QED BY <1>2, <2>3, <3>1 DEF Path
  <2> QED BY <2>1, <2>2, <2>3
<1>3. \E path : Walk(path)
  <2> DEFINE S == {n \in Nat : n <= N =>
                     \E path \in [0..n -> Path] : \A k \in 0..n : path[k] = Value(path, k)}
  <2>1. 0 \in S
    <3> DEFINE path == [k \in 0..0 |-> Value(<<>>, 0)]
    <3>1. path \in [0..0 -> Path]
      BY <1>1, <1>2
    <3>2. \A k \in 0..0 : path[k] = Value(path, k)
      OBVIOUS
    <3> QED BY <3>1, <3>2
  <2>2. ASSUME NEW n \in S PROVE n + 1 \in S
    <3>n. n \in Nat /\ n + 1 \in Nat
      OBVIOUS
    <3> SUFFICES ASSUME n + 1 <= N
                 PROVE  \E path \in [0..(n + 1) -> Path] :
                            \A k \in 0..(n + 1) : path[k] = Value(path, k)
      <4> HIDE DEF Value
      <4> QED BY <3>n
    <3>1. PICK short \in [0..n -> Path] : \A k \in 0..n : short[k] = Value(short, k)
      BY <1>1
    <3> DEFINE path == [k \in 0..(n + 1) |-> IF k = n + 1 THEN Value(short, n + 1) ELSE short[k]]
    <3>2. Value(short, n + 1) \in Path
      BY <1>1, <1>2
    <3>3. path \in [0..(n + 1) -> Path]
      BY <3>2
    <3>4. ASSUME NEW k \in 0..(n + 1) PROVE path[k] = Value(path, k)
      <4>1. k # 0 => path[k - 1] = short[k - 1]
        OBVIOUS
      <4>2. Value(path, k) = Value(short, k)
        BY <4>1
      <4>3. path[k] = Value(short, k)
        <5> HIDE DEF Value
        <5>1. k = n + 1 \/ k \in 0..n
          BY <3>n
        <5> QED BY <3>1, <5>1
      <4> QED BY <4>2, <4>3
    <3> QED BY <3>3, <3>4
  <2>3. N \in S
    <3> HIDE DEF S
    <3>1. S \subseteq Nat
      BY DEF S
    <3>2. S = Nat
      BY <2>1, <2>2, <3>1, InductiveSetIsNat
    <3> QED BY <1>1, <3>2
  <2>4. PICK path \in [0..N -> Path] : \A k \in 0..N : path[k] = Value(path, k)
    BY <1>1, <2>3
  <2> HIDE DEF Value
  <2> QED BY <2>4
<1> DEFINE path == CHOOSE f : Walk(f)
<1>4. Walk(path)
  <2> HIDE DEF Walk
  <2> QED BY <1>3
<1>5. Resolve(arg) = path[N]
  BY DEF Resolve
<1> HIDE DEF path
<1>6. \A n \in 0..N : path[n] = Value(path, n)
  <2> HIDE DEF Value
  <2> QED BY <1>4
<1> HIDE DEF Walk, Value
<1> DEFINE S == {n \in Nat : n <= N => path[n] \in Path}
<1>7. 0 \in S
  <2>1. Value(path, 0) \in Path
    BY <1>1, <1>2
  <2> QED BY <1>1, <1>6, <2>1
<1>8. ASSUME NEW n \in S PROVE n + 1 \in S
  <2> SUFFICES ASSUME n + 1 <= N PROVE path[n + 1] \in Path
    OBVIOUS
  <2>1. path[(n + 1) - 1] \in Path
    BY <1>1
  <2>2. Value(path, n + 1) \in Path
    BY <1>1, <1>2, <2>1
  <2> QED BY <1>1, <1>6, <2>2
<1>9. S = Nat
  <2> HIDE DEF S
  <2>1. S \subseteq Nat
    BY DEF S
  <2> QED BY <1>7, <1>8, <2>1, InductiveSetIsNat
<1> QED BY <1>1, <1>5, <1>9

-----------------------------------------------------------------------------
(* Paths and their prefixes.                                               *)

LEMMA PrefixByNames ==
  ASSUME NEW p \in Path, NEW q \in Path
  PROVE  IsPrefix(p, q) <=> Len(p) <= Len(q) /\ \A i \in 1..Len(p) : p[i] = q[i]
<1> USE DEF Path
<1>1. CASE ~(Len(p) <= Len(q))
  BY <1>1 DEF IsPrefix
<1>2. CASE Len(p) <= Len(q)
  <2> DEFINE s == SubSeq(p, 1, Len(p))
             t == SubSeq(q, 1, Len(p))
  <2>1. s \in Seq(Name) /\ Len(s) = Len(p) /\ \A i \in 1..Len(p) : s[i] = p[i]
    BY SubSeqFull
  <2>2. \A i \in 1..Len(p) : q[i] \in Name
    BY <1>2, ElementOfSeq
  <2>3. t \in Seq(Name) /\ Len(t) = Len(p) /\ \A i \in 1..Len(p) : t[i] = q[i]
    <3>1. /\ t \in Seq(Name)
          /\ Len(t) = IF 1 <= Len(p) THEN Len(p) - 1 + 1 ELSE 0
          /\ \A i \in 1..(Len(p) - 1 + 1) : t[i] = q[1 + i - 1]
      BY <2>2, SubSeqProperties
    <3> QED BY <3>1
  <2>4. s = t <=> \A i \in 1..Len(p) : s[i] = t[i]
    <3> HIDE DEF s, t
    <3> QED BY <2>1, <2>3, SeqEqual
  <2> QED BY <1>2, <2>1, <2>3, <2>4 DEF IsPrefix
<1> QED BY <1>1, <1>2

LEMMA PrefixOfPrefix ==
  ASSUME NEW p \in Path, NEW q \in Path, NEW r \in Path, IsPrefix(p, q), IsPrefix(q, r)
  PROVE  IsPrefix(p, r)
<1>1. /\ Len(p) <= Len(q) /\ Len(q) <= Len(r) /\ Len(p) \in Nat /\ Len(q) \in Nat /\ Len(r) \in Nat
      /\ \A i \in 1..Len(p) : p[i] = q[i]
      /\ \A i \in 1..Len(q) : q[i] = r[i]
  BY PrefixByNames DEF Path
<1> QED BY <1>1, PrefixByNames

LEMMA PrefixEachOther ==
  ASSUME NEW p \in Path, NEW q \in Path, IsPrefix(p, q), IsPrefix(q, p)
  PROVE  p = q
<1>1. /\ Len(p) = Len(q)
      /\ \A i \in 1..Len(p) : p[i] = q[i]
  BY PrefixByNames DEF Path
<1> QED BY <1>1, SeqEqual DEF Path

LEMMA PrefixOfSame ==
  ASSUME NEW p \in Path, NEW q \in Path, NEW r \in Path, IsPrefix(p, r), IsPrefix(q, r),
         Len(p) <= Len(q)
  PROVE  IsPrefix(p, q)
<1>1. /\ Len(p) <= Len(q) /\ Len(p) \in Nat /\ Len(q) \in Nat
      /\ \A i \in 1..Len(p) : p[i] = r[i]
      /\ \A i \in 1..Len(q) : q[i] = r[i]
  BY PrefixByNames DEF Path
<1> QED BY <1>1, PrefixByNames

LEMMA PrefixOfItself ==
  ASSUME NEW p \in Path
  PROVE  IsPrefix(p, p)
BY PrefixByNames DEF Path

\* A path put together comes apart again.
LEMMA Together ==
  ASSUME NEW p \in Path, NEW u \in Path
  PROVE  /\ p \o u \in Path
         /\ IsPrefix(p, p \o u)
         /\ SubSeq(p \o u, Len(p) + 1, Len(p \o u)) = u
<1> USE DEF Path
<1> DEFINE t == p \o u
           s == SubSeq(t, Len(p) + 1, Len(t))
<1>1. /\ t \in Seq(Name) /\ Len(t) = Len(p) + Len(u) /\ Len(p) \in Nat /\ Len(u) \in Nat
      /\ \A i \in 1..(Len(p) + Len(u)) : t[i] = IF i <= Len(p) THEN p[i] ELSE u[i - Len(p)]
  BY ConcatProperties
<1> HIDE DEF t
<1>2. IsPrefix(p, t)
  BY <1>1, PrefixByNames, SMTT(30)
<1>3. \A i \in (Len(p) + 1)..Len(t) : t[i] \in Name
  BY <1>1, ElementOfSeq
<1>4. /\ s \in Seq(Name)
      /\ Len(s) = IF Len(p) + 1 <= Len(t) THEN Len(t) - (Len(p) + 1) + 1 ELSE 0
      /\ \A i \in 1..(Len(t) - (Len(p) + 1) + 1) : s[i] = t[(Len(p) + 1) + i - 1]
  BY <1>1, <1>3, SubSeqProperties
<1>5. Len(s) = Len(u)
  BY <1>1, <1>4
<1>6. \A i \in 1..Len(u) : s[i] = u[i]
  <2> SUFFICES ASSUME NEW i \in 1..Len(u) PROVE s[i] = u[i]
    OBVIOUS
  <2>1. s[i] = t[Len(p) + i]
    BY <1>1, <1>4
  <2>2. t[Len(p) + i] = u[(Len(p) + i) - Len(p)] /\ (Len(p) + i) - Len(p) = i
    BY <1>1, SMTT(30)
  <2> QED BY <2>1, <2>2
<1>7. s = u
  <2> HIDE DEF s
  <2> QED BY <1>4, <1>5, <1>6, SeqEqual
<1> QED BY <1>1, <1>2, <1>7 DEF t

\* And what comes apart can be put together.
LEMMA Apart ==
  ASSUME NEW p \in Path, NEW q \in Path, IsPrefix(p, q)
  PROVE  /\ SubSeq(q, Len(p) + 1, Len(q)) \in Path
         /\ q = p \o SubSeq(q, Len(p) + 1, Len(q))
<1> USE DEF Path
<1> DEFINE u == SubSeq(q, Len(p) + 1, Len(q))
           t == p \o u
<1>1. /\ Len(p) <= Len(q) /\ Len(p) \in Nat /\ Len(q) \in Nat
      /\ \A i \in 1..Len(p) : p[i] = q[i]
  BY PrefixByNames
<1>2. \A i \in (Len(p) + 1)..Len(q) : q[i] \in Name
  BY <1>1, ElementOfSeq
<1>3. /\ u \in Seq(Name)
      /\ Len(u) = IF Len(p) + 1 <= Len(q) THEN Len(q) - (Len(p) + 1) + 1 ELSE 0
      /\ \A i \in 1..(Len(q) - (Len(p) + 1) + 1) : u[i] = q[(Len(p) + 1) + i - 1]
  BY <1>1, <1>2, SubSeqProperties
<1>4. Len(u) = Len(q) - Len(p)
  BY <1>1, <1>3
<1> HIDE DEF u
<1>5. /\ t \in Seq(Name) /\ Len(t) = Len(p) + Len(u)
      /\ \A i \in 1..(Len(p) + Len(u)) : t[i] = IF i <= Len(p) THEN p[i] ELSE u[i - Len(p)]
  BY <1>3, ConcatProperties
<1>6. \A i \in 1..Len(q) : t[i] = q[i]
  <2> SUFFICES ASSUME NEW i \in 1..Len(q) PROVE t[i] = q[i]
    OBVIOUS
  <2>1. CASE i <= Len(p)
    BY <1>1, <1>4, <1>5, <2>1
  <2>2. CASE ~(i <= Len(p))
    <3>1. i - Len(p) \in 1..(Len(q) - Len(p)) /\ (Len(p) + 1) + (i - Len(p)) - 1 = i
      BY <1>1, <2>2
    <3>2. u[i - Len(p)] = q[i]
      BY <1>1, <1>3, <3>1
    <3> QED BY <1>1, <1>4, <1>5, <2>2, <3>2
  <2> QED BY <2>1, <2>2
<1>7. t = q
  <2>1. Len(t) = Len(q)
    BY <1>1, <1>4, <1>5
  <2> HIDE DEF t
  <2> QED BY <1>5, <1>6, <2>1, SeqEqual
<1> QED BY <1>3, <1>7 DEF u

\* What is outside has nothing inside above it.
LEMMA InsideGoesDown ==
  ASSUME NEW p \in Path, NEW q \in Path, Inside(p), IsPrefix(p, q)
  PROVE  Inside(q)
BY RootAssumption, PrefixOfPrefix DEF Inside

LEMMA Ancestor ==
  ASSUME NEW q \in Path, NEW p \in Ancestors(q)
  PROVE  p \in Path /\ IsPrefix(p, q) /\ p # q
<1> USE DEF Path
<1>1. PICK n \in 0..(Len(q) - 1) : p = SubSeq(q, 1, n)
  BY DEF Ancestors
<1>2. \A i \in 1..n : q[i] \in Name
  BY <1>1, ElementOfSeq
<1>3. /\ p \in Seq(Name)
      /\ Len(p) = IF 1 <= n THEN n - 1 + 1 ELSE 0
      /\ \A i \in 1..(n - 1 + 1) : p[i] = q[1 + i - 1]
  BY <1>1, <1>2, SubSeqProperties
<1>4. Len(p) = n /\ \A i \in 1..n : p[i] = q[i]
  BY <1>3
<1> QED BY <1>3, <1>4, PrefixByNames

\* And the other way round.
LEMMA PrefixIsAncestor ==
  ASSUME NEW q \in Path, NEW p \in Path, IsPrefix(p, q), Len(p) < Len(q)
  PROVE  p \in Ancestors(q)
<1>1. p = SubSeq(q, 1, Len(p))
  BY SubSeqFull DEF IsPrefix, Path
<1>2. Len(p) \in 0..(Len(q) - 1)
  BY DEF Path
<1> QED BY <1>1, <1>2 DEF Ancestors

-----------------------------------------------------------------------------
(* The inductive invariant.                                                *)

\* What a request that is under way may touch: it has been held to the sandbox.
RequestInv ==
    pc # "idle" =>
        /\ up
        /\ request.tool \in {"write_file", "move_file", "delete_file"} => Inside(request.target)
        /\ request.tool = "move_file" => Inside(request.source)
        /\ request.tool = "move_file" /\ pc = "begun" => request.source \in DOMAIN fs
        /\ request.tool = "delete_file" => request.target # Root
        /\ pc = "opened" => request.tool = "write_file" /\ request.target # Root

WorldStays ==
    /\ \A p \in DOMAIN World : p \in DOMAIN fs /\ fs[p] = World[p]
    /\ \A p \in DOMAIN fs \ DOMAIN World : Inside(p)

RootStays ==
    /\ up => Root \in DOMAIN fs
    /\ Root \in DOMAIN fs => fs[Root] = Dir

IndInv == TypeOK /\ WorldStays /\ RootStays /\ RequestInv

LEMMA IndInvIsConfined == IndInv => Confined
BY DEF IndInv, WorldStays, RootStays, Confined, IsDir

LEMMA WorldIsOutside == \A p \in DOMAIN World : p \in Path /\ ~Inside(p)
BY WorldAssumption

LEMMA RootIsInside == Root \in Path /\ Inside(Root) /\ Root \notin DOMAIN World
BY RootAssumption, PrefixOfItself, WorldAssumption DEF Inside

LEMMA IndInit == Init => IndInv
<1> SUFFICES ASSUME Init PROVE IndInv
  OBVIOUS
<1>1. TypeOK
  BY WorldAssumption, RootAssumption DEF Init, TypeOK, NoRequest, Request, Tool, Node
<1>2. WorldStays /\ RootStays /\ RequestInv
  BY RootIsInside DEF Init, WorldStays, RootStays, RequestInv
<1> QED BY <1>1, <1>2 DEF IndInv

\* A node that is put inside, and is a directory if at the root, disturbs nothing.
LEMMA PutInside ==
  ASSUME IndInv, NEW p \in Path, NEW node \in Node, Inside(p), p = Root => node = Dir,
         fs' = Put(p, node)
  PROVE  /\ DOMAIN fs' \subseteq Path /\ \A q \in DOMAIN fs' : fs'[q] \in Node
         /\ WorldStays'
         /\ Root \in DOMAIN fs => Root \in DOMAIN fs'
         /\ Root \in DOMAIN fs' => fs'[Root] = Dir
         /\ DOMAIN fs \subseteq DOMAIN fs'
<1> USE DEF IndInv
<1>1. DOMAIN fs' = DOMAIN fs \cup {p} /\ \A q \in DOMAIN fs' : fs'[q] = IF q = p THEN node ELSE fs[q]
  BY DEF Put
<1>2. DOMAIN fs' \subseteq Path /\ \A q \in DOMAIN fs' : fs'[q] \in Node
  BY <1>1 DEF TypeOK
<1>3. WorldStays'
  BY <1>1, WorldIsOutside DEF WorldStays
<1> QED BY <1>1, <1>2, <1>3 DEF RootStays

-----------------------------------------------------------------------------
(* The process, and the checks of a request.                               *)

LEMMA DirIsNode == Dir \in Node
BY DEF Node

LEMMA StartStep ==
  ASSUME IndInv, Start
  PROVE  IndInv'
<1> USE DEF IndInv
<1>1. CASE Root \in DOMAIN fs
  BY <1>1 DEF Start, TypeOK, WorldStays, RootStays, RequestInv, Inside
<1>2. CASE Root \notin DOMAIN fs
  <2>1. fs' = Put(Root, Dir)
    BY <1>2 DEF Start
  <2>2. /\ DOMAIN fs' \subseteq Path /\ \A q \in DOMAIN fs' : fs'[q] \in Node
        /\ WorldStays' /\ fs'[Root] = Dir /\ Root \in DOMAIN fs'
    BY <2>1, PutInside, RootIsInside, DirIsNode DEF Put
  <2> QED BY <2>2 DEF Start, TypeOK, RootStays, RequestInv
<1> QED BY <1>1, <1>2

LEMMA KillStep ==
  ASSUME IndInv, Kill
  PROVE  IndInv'
BY RootIsInside DEF IndInv, Kill, TypeOK, WorldStays, RootStays, RequestInv, NoRequest, Request, Tool, Inside

LEMMA BeginStep ==
  ASSUME IndInv, NEW tool \in Tool, NEW source \in Argument, NEW target \in Argument,
         NEW text \in Content \cup {Partial}, NEW ok \in BOOLEAN,
         Begin(tool, source, target, text, ok),
         ok /\ tool \in {"write_file", "move_file", "delete_file"} => Within(target),
         ok /\ tool = "move_file" => Within(source) /\ Resolve(source) \in DOMAIN fs,
         ok /\ tool = "delete_file" => IsFile(Resolve(target))
  PROVE  IndInv'
<1> USE DEF IndInv
<1>1. UNCHANGED <<fs, up, before>> /\ up /\ pc = "idle"
  BY DEF Begin
<1>2. WorldStays' /\ RootStays'
  BY <1>1 DEF WorldStays, RootStays
<1>3. CASE ok
  <2>1. /\ request' = [tool |-> tool, source |-> Resolve(source), target |-> Resolve(target), text |-> text]
        /\ pc' = "begun" /\ answer' = "none"
    BY <1>3 DEF Begin
  <2>2. Resolve(source) \in Path /\ Resolve(target) \in Path
    BY ResolvedIsPath
  <2>3. TypeOK'
    BY <1>1, <2>1, <2>2 DEF TypeOK, Request
  <2>4. RequestInv'
    <3>1. tool = "delete_file" => Resolve(target) # Root
      BY <1>1, <1>3 DEF IsFile, RootStays
    <3> QED BY <1>1, <1>3, <2>1, <3>1 DEF RequestInv, Within, Inside
  <2> QED BY <1>2, <2>3, <2>4
<1>4. CASE ~ok
  BY <1>1, <1>2, <1>4 DEF Begin, TypeOK, RequestInv
<1> QED BY <1>3, <1>4

LEMMA RequestsStep ==
  ASSUME IndInv, Requests
  PROVE  IndInv'
<1> PICK arg \in Argument :
        \/ ListFiles(arg) \/ ReadFile(arg) \/ DeleteFile(arg)
        \/ \E text \in Content : WriteFile(arg, text)
        \/ \E destination \in Argument : MoveFile(arg, destination)
  BY DEF Requests
<1>1. CASE ListFiles(arg)
  <2> DEFINE ok == Within(arg) /\ IsDir(Resolve(arg))
  <2>1. ok \in BOOLEAN /\ "list_files" \in Tool /\ Begin("list_files", arg, arg, Partial, ok)
    BY <1>1 DEF ListFiles, Tool
  <2> HIDE DEF ok
  <2> QED BY <2>1, BeginStep
<1>2. CASE ReadFile(arg)
  <2> DEFINE ok == Within(arg) /\ IsFile(Resolve(arg))
  <2>1. ok \in BOOLEAN /\ "read_file" \in Tool /\ Begin("read_file", arg, arg, Partial, ok)
    BY <1>2 DEF ReadFile, Tool
  <2> HIDE DEF ok
  <2> QED BY <2>1, BeginStep
<1>3. CASE DeleteFile(arg)
  <2> DEFINE ok == Within(arg) /\ IsFile(Resolve(arg))
  <2>1. ok \in BOOLEAN /\ "delete_file" \in Tool /\ Begin("delete_file", arg, arg, Partial, ok)
    BY <1>3 DEF DeleteFile, Tool
  <2>2. ok => Within(arg) /\ IsFile(Resolve(arg))
    OBVIOUS
  <2> HIDE DEF ok
  <2> QED BY <2>1, <2>2, BeginStep
<1>4. ASSUME NEW text \in Content, WriteFile(arg, text) PROVE IndInv'
  <2> DEFINE ok == Within(arg)
  <2>1. ok \in BOOLEAN /\ "write_file" \in Tool /\ Begin("write_file", arg, arg, text, ok)
    BY <1>4 DEF WriteFile, Tool, Within, Inside, IsPrefix
  <2>2. ok => Within(arg)
    OBVIOUS
  <2> HIDE DEF ok
  <2> QED BY <2>1, <2>2, BeginStep
<1>5. ASSUME NEW destination \in Argument, MoveFile(arg, destination) PROVE IndInv'
  <2> DEFINE ok == Within(arg) /\ Within(destination) /\ Resolve(arg) \in DOMAIN fs
  <2>1. ok \in BOOLEAN /\ "move_file" \in Tool /\ Begin("move_file", arg, destination, Partial, ok)
    BY <1>5 DEF MoveFile, Tool
  <2>2. ok => Within(arg) /\ Within(destination) /\ Resolve(arg) \in DOMAIN fs
    OBVIOUS
  <2> HIDE DEF ok
  <2> QED BY <2>1, <2>2, BeginStep
<1> QED BY <1>1, <1>2, <1>3, <1>4, <1>5

-----------------------------------------------------------------------------
(* What a request does.                                                    *)

\* A request that has done its work leaves only the tree to look at.
LEMMA FinishStep ==
  ASSUME IndInv, Finish, pc # "idle",
         DOMAIN fs' \subseteq Path /\ \A q \in DOMAIN fs' : fs'[q] \in Node,
         WorldStays',
         Root \in DOMAIN fs', fs'[Root] = Dir
  PROVE  IndInv'
BY DEF IndInv, Finish, TypeOK, RootStays, RequestInv, Inside

LEMMA RootIsThere ==
  ASSUME IndInv, pc # "idle"
  PROVE  Root \in DOMAIN fs /\ fs[Root] = Dir
BY DEF IndInv, RootStays, RequestInv

LEMMA AnswerOnly ==
  ASSUME IndInv, NEW what \in {"OK", "ERROR"}, Answer(what), pc # "idle", UNCHANGED fs
  PROVE  IndInv'
BY RootIsInside DEF IndInv, Answer, TypeOK, WorldStays, RootStays, RequestInv, NoRequest, Request,
                   Tool

LEMMA LookStep ==
  ASSUME IndInv, Look
  PROVE  IndInv'
<1>1. pc # "idle" /\ Finish /\ UNCHANGED fs
  BY DEF Look, Busy
<1>2. DOMAIN fs' \subseteq Path /\ (\A q \in DOMAIN fs' : fs'[q] \in Node) /\ WorldStays'
  BY <1>1 DEF IndInv, TypeOK, WorldStays
<1> QED BY <1>1, <1>2, RootIsThere, FinishStep

LEMMA MakeDirStep ==
  ASSUME IndInv, NEW p \in Ancestors(request.target), MakeDir(p)
  PROVE  IndInv'
<1>1. /\ pc = "begun" /\ request.tool \in {"write_file", "move_file"} /\ Inside(request.target)
      /\ request.target \in Path /\ p \notin DOMAIN fs
  BY DEF IndInv, MakeDir, Busy, RequestInv, TypeOK, Request
<1>2. p \in Path /\ IsPrefix(p, request.target)
  BY <1>1, Ancestor
<1>3. Inside(p)
  <2>1. CASE Len(p) < Len(Root)
    <3>1. IsPrefix(p, Root)
      BY <1>1, <1>2, <2>1, RootIsInside, PrefixOfSame DEF Inside, Path
    <3>2. p \in Ancestors(Root)
      BY <1>2, <2>1, <3>1, RootIsInside, PrefixIsAncestor
    <3>3. p \in DOMAIN World
      BY <3>2, WorldAssumption
    <3> QED BY <1>1, <3>3 DEF IndInv, WorldStays
  <2>2. CASE Len(Root) <= Len(p)
    BY <1>1, <1>2, <2>2, RootIsInside, PrefixOfSame DEF Inside
  <2> QED BY <1>2, <2>1, <2>2, RootIsInside DEF Path
<1>4. fs' = Put(p, Dir) /\ UNCHANGED <<up, pc, request, before, answer>>
  BY DEF MakeDir
<1>5. /\ DOMAIN fs' \subseteq Path /\ \A q \in DOMAIN fs' : fs'[q] \in Node
      /\ WorldStays'
      /\ Root \in DOMAIN fs => Root \in DOMAIN fs'
      /\ Root \in DOMAIN fs' => fs'[Root] = Dir
      /\ DOMAIN fs \subseteq DOMAIN fs'
  BY <1>2, <1>3, <1>4, PutInside, DirIsNode
<1> QED BY <1>4, <1>5 DEF IndInv, TypeOK, RootStays, RequestInv, Inside

LEMMA TruncateStep ==
  ASSUME IndInv, Truncate
  PROVE  IndInv'
<1>1. /\ pc = "begun" /\ request.tool = "write_file" /\ Inside(request.target)
      /\ request.target \in Path /\ ~IsDir(request.target)
      /\ fs' = Put(request.target, Partial) /\ pc' = "opened"
      /\ UNCHANGED <<up, request, before, answer>>
  BY DEF IndInv, Truncate, Busy, RequestInv, TypeOK, Request
<1>2. request.target # Root
  BY <1>1, RootIsThere DEF IsDir
<1>3. Partial \in Node
  BY DEF Node
<1>4. /\ DOMAIN fs' \subseteq Path /\ \A q \in DOMAIN fs' : fs'[q] \in Node
      /\ WorldStays'
      /\ Root \in DOMAIN fs => Root \in DOMAIN fs'
      /\ Root \in DOMAIN fs' => fs'[Root] = Dir
  BY <1>1, <1>2, <1>3, PutInside
<1> QED BY <1>1, <1>2, <1>4 DEF IndInv, TypeOK, RootStays, RequestInv, Inside

LEMMA WriteTextStep ==
  ASSUME IndInv, WriteText
  PROVE  IndInv'
<1>1. /\ pc = "opened" /\ Inside(request.target) /\ request.target # Root
      /\ request.target \in Path /\ request.text \in Node
      /\ fs' = Put(request.target, request.text) /\ Finish
  BY DEF IndInv, WriteText, RequestInv, TypeOK, Request, Node
<1>2. /\ DOMAIN fs' \subseteq Path /\ \A q \in DOMAIN fs' : fs'[q] \in Node
      /\ WorldStays'
      /\ Root \in DOMAIN fs => Root \in DOMAIN fs'
      /\ Root \in DOMAIN fs' => fs'[Root] = Dir
  BY <1>1, PutInside
<1> QED BY <1>1, <1>2, RootIsThere, FinishStep

LEMMA UnlinkStep ==
  ASSUME IndInv, Unlink
  PROVE  IndInv'
<1>1. /\ pc # "idle" /\ Inside(request.target) /\ request.target # Root
      /\ fs' = [p \in DOMAIN fs \ {request.target} |-> fs[p]] /\ Finish
  BY DEF IndInv, Unlink, Busy, RequestInv
<1>2. DOMAIN fs' \subseteq Path /\ \A q \in DOMAIN fs' : fs'[q] \in Node
  BY <1>1 DEF IndInv, TypeOK
<1>3. WorldStays'
  BY <1>1, WorldIsOutside DEF IndInv, WorldStays
<1>4. Root \in DOMAIN fs' /\ fs'[Root] = Dir
  BY <1>1, RootIsThere
<1> QED BY <1>1, <1>2, <1>3, <1>4, FinishStep

\* The tree after a move: what was not under from is as it was, but where
\* something has arrived under to; and that was somewhere before.
LEMMA MovedTree ==
  ASSUME IndInv, NEW from \in Path, NEW to \in Path
  PROVE  LET new == Moved(from, to) IN
         /\ DOMAIN new \subseteq Path
         /\ \A p \in DOMAIN new : new[p] \in Node
         /\ \A p \in DOMAIN fs : ~IsPrefix(from, p) /\ ~IsPrefix(to, p) => p \in DOMAIN new /\ new[p] = fs[p]
         /\ \A p \in DOMAIN new : p \in DOMAIN fs \/ IsPrefix(to, p)
         /\ \A p \in DOMAIN new : IsPrefix(to, p) \/ new[p] = fs[p]
<1> DEFINE under == {q \in DOMAIN fs : IsPrefix(from, q)}
           rest(p) == SubSeq(p, Len(from) + 1, Len(p))
           arrived == {to \o rest(p) : p \in under}
           new == Moved(from, to)
<1>1. /\ DOMAIN new = {q \in DOMAIN fs : ~IsPrefix(from, q)} \cup arrived
      /\ \A p \in DOMAIN new : new[p] = IF p \in arrived THEN fs[from \o SubSeq(p, Len(to) + 1, Len(p))] ELSE fs[p]
  BY DEF Moved
<1> HIDE DEF new
<1>2. ASSUME NEW p \in arrived
      PROVE  p \in Path /\ IsPrefix(to, p) /\ fs[from \o SubSeq(p, Len(to) + 1, Len(p))] \in Node
  <2> PICK q \in under : p = to \o rest(q)
    OBVIOUS
  <2>1. q \in Path /\ IsPrefix(from, q) /\ q \in DOMAIN fs
    BY DEF IndInv, TypeOK
  <2>2. rest(q) \in Path /\ q = from \o rest(q)
    BY <2>1, Apart
  <2> HIDE DEF rest
  <2>3. p \in Path /\ IsPrefix(to, p) /\ SubSeq(p, Len(to) + 1, Len(p)) = rest(q)
    BY <2>2, Together
  <2> QED BY <2>1, <2>2, <2>3 DEF IndInv, TypeOK
<1> HIDE DEF arrived
<1>3. \A p \in DOMAIN new : p \in Path /\ new[p] \in Node
  BY <1>1, <1>2 DEF IndInv, TypeOK
<1>4. \A p \in DOMAIN fs : ~IsPrefix(from, p) /\ ~IsPrefix(to, p) => p \in DOMAIN new /\ new[p] = fs[p]
  BY <1>1, <1>2
<1>5. \A p \in DOMAIN new : (p \in DOMAIN fs \/ IsPrefix(to, p)) /\ (IsPrefix(to, p) \/ new[p] = fs[p])
  BY <1>1, <1>2
<1> QED BY <1>3, <1>4, <1>5 DEF new

\* A path renamed to itself.
LEMMA MovedSame ==
  ASSUME IndInv, NEW from \in Path
  PROVE  /\ DOMAIN Moved(from, from) = DOMAIN fs
         /\ \A p \in DOMAIN fs : Moved(from, from)[p] = fs[p]
<1> DEFINE under == {q \in DOMAIN fs : IsPrefix(from, q)}
           rest(p) == SubSeq(p, Len(from) + 1, Len(p))
           arrived == {from \o rest(p) : p \in under}
<1>1. \A p \in under : from \o rest(p) = p
  BY Apart DEF IndInv, TypeOK
<1>2. arrived = under
  <2> HIDE DEF rest, under
  <2> QED BY <1>1
<1> QED BY <1>1, <1>2 DEF Moved

\* The root is neither moved nor replaced.
LEMMA RootIsNotMoved ==
  ASSUME IndInv, NEW from \in Path, NEW to \in Path, Inside(from), Inside(to), from # to,
         from \in DOMAIN fs, Root \in DOMAIN fs, fs[Root] = Dir, Renamable(from, to)
  PROVE  ~IsPrefix(from, Root) /\ ~IsPrefix(to, Root)
<1>1. IsPrefix(Root, from) /\ IsPrefix(Root, to) /\ Root \in Path
  BY RootIsInside DEF Inside
<1>2. /\ ~IsPrefix(from, to)
      /\ \/ to \notin DOMAIN fs
         \/ IsFile(from) /\ IsFile(to)
         \/ IsDir(from) /\ IsDir(to) /\ \A p \in DOMAIN fs : ~IsStrictPrefix(to, p)
  BY DEF Renamable
<1>3. from # Root
  BY <1>1, <1>2
<1>4. to # Root
  <2> SUFFICES ASSUME to = Root PROVE FALSE
    OBVIOUS
  <2>1. \A p \in DOMAIN fs : ~IsStrictPrefix(Root, p)
    BY <1>2 DEF IsFile
  <2> QED BY <1>1, <1>3, <2>1 DEF IsStrictPrefix
<1> QED BY <1>1, <1>3, <1>4, PrefixEachOther

LEMMA RenameStep ==
  ASSUME IndInv, Rename
  PROVE  IndInv'
<1> DEFINE from == request.source
           to == request.target
<1>1. /\ pc # "idle" /\ Inside(from) /\ Inside(to) /\ from \in Path /\ to \in Path
      /\ from \in DOMAIN fs /\ Renamable(from, to) /\ fs' = Moved(from, to) /\ Finish
  BY DEF IndInv, Rename, Busy, RequestInv, TypeOK, Request
<1> HIDE DEF from, to
<1>2. /\ DOMAIN fs' \subseteq Path /\ \A p \in DOMAIN fs' : fs'[p] \in Node
      /\ \A p \in DOMAIN fs : ~IsPrefix(from, p) /\ ~IsPrefix(to, p) => p \in DOMAIN fs' /\ fs'[p] = fs[p]
      /\ \A p \in DOMAIN fs' : p \in DOMAIN fs \/ IsPrefix(to, p)
  BY <1>1, MovedTree
<1>3. WorldStays'
  <2>1. \A p \in DOMAIN World : ~IsPrefix(from, p) /\ ~IsPrefix(to, p)
    BY <1>1, WorldIsOutside, InsideGoesDown
  <2>2. \A p \in DOMAIN World : p \in DOMAIN fs' /\ fs'[p] = World[p]
    BY <1>2, <2>1 DEF IndInv, WorldStays
  <2>3. \A p \in DOMAIN fs' \ DOMAIN World : Inside(p)
    BY <1>1, <1>2, InsideGoesDown DEF IndInv, WorldStays
  <2> QED BY <2>2, <2>3 DEF WorldStays, Inside
<1>4. Root \in DOMAIN fs' /\ fs'[Root] = Dir
  <2>1. Root \in DOMAIN fs /\ fs[Root] = Dir
    BY <1>1, RootIsThere
  <2>2. CASE from # to
    BY <1>1, <1>2, <2>1, <2>2, RootIsNotMoved
  <2>3. CASE from = to
    BY <1>1, <2>1, <2>3, MovedSame
  <2> QED BY <2>2, <2>3
<1> QED BY <1>1, <1>2, <1>3, <1>4, FinishStep

-----------------------------------------------------------------------------
LEMMA IndStep == IndInv /\ [Next]_vars => IndInv'
<1> SUFFICES ASSUME IndInv, [Next]_vars PROVE IndInv'
  OBVIOUS
<1>1. CASE OsError
  BY <1>1, AnswerOnly DEF OsError
<1>2. CASE Reply
  BY <1>2, AnswerOnly DEF Reply
<1>3. CASE UNCHANGED vars
  BY <1>3 DEF vars, IndInv, TypeOK, WorldStays, RootStays, RequestInv, Inside
<1> QED BY <1>1, <1>2, <1>3, StartStep, KillStep, RequestsStep, MakeDirStep, TruncateStep,
           LookStep, WriteTextStep, RenameStep, UnlinkStep DEF Next

\* Type correctness, for any tree that grows from any world.
THEOREM SandboxTypeCorrect == Spec => []TypeOK
<1>1. IndInv => TypeOK
  BY DEF IndInv
<1> QED BY <1>1, IndInit, IndStep, PTL DEF Spec

\* Whatever is asked for and however it ends, nothing outside the sandbox is
\* made, changed or lost, and its root stays.
THEOREM NothingLeavesTheSandbox == Spec => []Confined
<1> QED BY IndInvIsConfined, IndInit, IndStep, PTL DEF Spec

-----------------------------------------------------------------------------
(***************************************************************************)
(* What the answers say rests on the tree being one, and on what the       *)
(* request under way has changed so far.                                   *)
(***************************************************************************)

Tree ==
    /\ IsFiniteSet(DOMAIN fs)
    /\ \A p \in DOMAIN fs : \A a \in Ancestors(p) : IsDir(a)

\* Only directories have been made.
Begun ==
    /\ \A p \in DOMAIN before : p \in DOMAIN fs /\ fs[p] = before[p]
    /\ \A p \in DOMAIN fs \ DOMAIN before : fs[p] = Dir
    /\ request.tool \notin {"write_file", "move_file"} => fs = before
    /\ request.tool = "write_file" => request.text \in Content
    /\ request.tool = "delete_file" => IsFile(request.target)

\* And the target of the write has been emptied.
Opened ==
    /\ request.text \in Content
    /\ Files(fs) = [p \in DOMAIN Files(before) \cup {request.target} |->
                      IF p = request.target THEN Partial ELSE before[p]]

RequestFiles ==
    /\ pc = "idle" => before = fs
    /\ pc = "begun" => Begun
    /\ pc = "opened" => Opened
    /\ pc = "done" => Done(request, fs, Files(fs))

FilesInv == IndInv /\ Tree /\ RequestFiles

\* Nothing is under a file, and what is between two directories is one.
LEMMA NothingUnderFiles ==
  ASSUME TypeOK, Tree, NEW p \in DOMAIN fs, NEW q \in Path, IsPrefix(q, p), q # p
  PROVE  IsDir(q) /\ q \in Ancestors(p)
<1>1. p \in Path
  BY DEF TypeOK
<1>2. Len(q) < Len(p)
  <2>1. Len(q) <= Len(p) /\ \A i \in 1..Len(q) : q[i] = p[i]
    BY <1>1, PrefixByNames
  <2>2. Len(q) # Len(p)
    BY <1>1, <2>1, SeqEqual DEF Path
  <2> QED BY <1>1, <2>1, <2>2 DEF Path
<1>3. q \in Ancestors(p)
  BY <1>1, <1>2, PrefixIsAncestor
<1> QED BY <1>3 DEF Tree

\* The ancestors of a path are its parent and the ancestors of that.
LEMMA AncestorsByParent ==
  ASSUME NEW p \in Path, NEW a \in Ancestors(p)
  PROVE  Parent(p) \in Path /\ (a = Parent(p) \/ a \in Ancestors(Parent(p)))
<1>1. a \in Path /\ IsPrefix(a, p) /\ a # p
  BY Ancestor
<1>2. Len(a) < Len(p) /\ Len(a) \in Nat /\ Len(p) \in Nat
  <2>1. Len(a) <= Len(p) /\ \A i \in 1..Len(a) : a[i] = p[i]
    BY <1>1, PrefixByNames
  <2> QED BY <1>1, <2>1, SeqEqual DEF Path
<1>3. Parent(p) \in Ancestors(p)
  <2>1. Len(p) - 1 \in 0..(Len(p) - 1)
    BY <1>2
  <2> QED BY <2>1, Zenon DEF Parent, Ancestors
<1>4. Parent(p) \in Path /\ IsPrefix(Parent(p), p)
  BY <1>3, Ancestor
<1>5. Len(Parent(p)) = Len(p) - 1
  <2> DEFINE n == Len(p) - 1
  <2>1. n \in Nat /\ \A i \in 1..n : p[i] \in Name
    BY <1>2, ElementOfSeq DEF Path
  <2>2. Len(SubSeq(p, 1, n)) = IF 1 <= n THEN n - 1 + 1 ELSE 0
    BY <1>2, <2>1, SubSeqProperties DEF Path
  <2>3. Len(SubSeq(p, 1, n)) = n
    <3> HIDE DEF n
    <3> QED BY <2>1, <2>2
  <2> QED BY <2>3 DEF Parent
<1>6. IsPrefix(a, Parent(p))
  BY <1>1, <1>2, <1>4, <1>5, PrefixOfSame
<1>7. CASE Len(a) = Len(p) - 1
  <2>1. IsPrefix(Parent(p), a)
    BY <1>1, <1>4, <1>5, <1>7, PrefixOfSame
  <2> QED BY <1>1, <1>4, <1>6, <2>1, PrefixEachOther
<1>8. CASE Len(a) # Len(p) - 1
  BY <1>1, <1>2, <1>4, <1>5, <1>6, <1>8, PrefixIsAncestor
<1> QED BY <1>4, <1>7, <1>8

\* Below a directory there are only directories to go through.
LEMMA DirsAbove ==
  ASSUME TypeOK, Tree, NEW p \in Path, IsDir(Parent(p)), NEW a \in Ancestors(p)
  PROVE  IsDir(a)
BY AncestorsByParent DEF Tree, IsDir

NewPlace(p, from, to) == FileStore!NewPlace(p, from, to)

LEMMA SamePrefix == \A p, q : FileStore!IsPrefix(p, q) <=> IsPrefix(p, q)
BY DEF FileStore!IsPrefix, IsPrefix

\* Where a path goes when from is moved to to, and that nothing else goes there.
LEMMA Places ==
  ASSUME NEW from \in Path, NEW to \in Path, NEW p \in Path
  PROVE  /\ ~IsPrefix(from, p) => NewPlace(p, from, to) = p
         /\ IsPrefix(from, p) =>
              /\ NewPlace(p, from, to) = to \o SubSeq(p, Len(from) + 1, Len(p))
              /\ NewPlace(p, from, to) \in Path
              /\ IsPrefix(to, NewPlace(p, from, to))
              /\ p = from \o SubSeq(NewPlace(p, from, to), Len(to) + 1, Len(NewPlace(p, from, to)))
<1>1. ~IsPrefix(from, p) => NewPlace(p, from, to) = p
  BY SamePrefix DEF NewPlace, FileStore!NewPlace
<1>2. ASSUME IsPrefix(from, p)
      PROVE  /\ NewPlace(p, from, to) = to \o SubSeq(p, Len(from) + 1, Len(p))
             /\ NewPlace(p, from, to) \in Path
             /\ IsPrefix(to, NewPlace(p, from, to))
             /\ p = from \o SubSeq(NewPlace(p, from, to), Len(to) + 1, Len(NewPlace(p, from, to)))
  <2> DEFINE u == SubSeq(p, Len(from) + 1, Len(p))
  <2>1. NewPlace(p, from, to) = to \o u
    BY <1>2, SamePrefix DEF NewPlace, FileStore!NewPlace
  <2>2. u \in Path /\ p = from \o u
    BY <1>2, Apart
  <2> HIDE DEF u
  <2>3. to \o u \in Path /\ IsPrefix(to, to \o u) /\ SubSeq(to \o u, Len(to) + 1, Len(to \o u)) = u
    BY <2>2, Together
  <2>4. p = from \o SubSeq(NewPlace(p, from, to), Len(to) + 1, Len(NewPlace(p, from, to)))
    BY <2>1, <2>2, <2>3
  <2> QED BY <2>1, <2>3, <2>4 DEF u
<1> QED BY <1>1, <1>2

LEMMA PrefixTogether ==
  ASSUME NEW p \in Path, NEW u \in Path, NEW v \in Path
  PROVE  IsPrefix(v, u) <=> IsPrefix(p \o v, p \o u)
<1> DEFINE pv == p \o v
           pu == p \o u
<1>1. /\ pv \in Path /\ pu \in Path
      /\ Len(pv) = Len(p) + Len(v) /\ Len(pu) = Len(p) + Len(u)
      /\ Len(p) \in Nat /\ Len(u) \in Nat /\ Len(v) \in Nat
      /\ \A i \in 1..(Len(p) + Len(v)) : pv[i] = IF i <= Len(p) THEN p[i] ELSE v[i - Len(p)]
      /\ \A i \in 1..(Len(p) + Len(u)) : pu[i] = IF i <= Len(p) THEN p[i] ELSE u[i - Len(p)]
  BY ConcatProperties DEF Path
<1> HIDE DEF pv, pu
<1>2. ASSUME IsPrefix(v, u) PROVE IsPrefix(pv, pu)
  <2>1. Len(v) <= Len(u) /\ \A i \in 1..Len(v) : v[i] = u[i]
    BY <1>2, PrefixByNames
  <2>2. ASSUME NEW i \in 1..Len(pv) PROVE pv[i] = pu[i]
    <3>1. i \in 1..Len(pu) /\ (i <= Len(p) \/ i - Len(p) \in 1..Len(v))
      BY <1>1, <2>1
    <3> QED BY <1>1, <2>1, <3>1
  <2> QED BY <1>1, <2>1, <2>2, PrefixByNames
<1>3. ASSUME IsPrefix(pv, pu) PROVE IsPrefix(v, u)
  <2>1. Len(pv) <= Len(pu) /\ \A i \in 1..Len(pv) : pv[i] = pu[i]
    BY <1>1, <1>3, PrefixByNames
  <2>2. Len(v) <= Len(u)
    BY <1>1, <2>1
  <2>3. ASSUME NEW i \in 1..Len(v) PROVE v[i] = u[i]
    <3>1. /\ Len(p) + i \in 1..Len(pv) /\ Len(p) + i \in 1..Len(pu)
          /\ ~(Len(p) + i <= Len(p)) /\ (Len(p) + i) - Len(p) = i
      BY <1>1, <2>2
    <3> QED BY <1>1, <2>1, <3>1
  <2> QED BY <2>2, <2>3, PrefixByNames
<1> QED BY <1>2, <1>3 DEF pv, pu

\* What a rename meets, when it is not to the path itself.
LEMMA RenameMeets ==
  ASSUME TypeOK, Tree, NEW from \in Path, NEW to \in Path, from \in DOMAIN fs, from # to,
         Renamable(from, to)
  PROVE  /\ ~IsPrefix(from, to) /\ ~IsPrefix(to, from)
         /\ \A p \in DOMAIN fs : IsPrefix(to, p) => p = to
         /\ to \in DOMAIN fs /\ fs[to] # Dir => fs[from] # Dir
         /\ to \in DOMAIN fs /\ fs[to] = Dir => fs[from] = Dir
<1>1. /\ ~IsPrefix(from, to)
      /\ \/ to \notin DOMAIN fs
         \/ IsFile(from) /\ IsFile(to)
         \/ IsDir(from) /\ IsDir(to) /\ \A p \in DOMAIN fs : ~IsStrictPrefix(to, p)
  BY DEF Renamable
<1>2. ASSUME NEW p \in DOMAIN fs, IsPrefix(to, p) PROVE p = to
  <2> SUFFICES ASSUME p # to PROVE FALSE
    OBVIOUS
  <2>1. IsDir(to)
    BY <1>2, NothingUnderFiles
  <2>2. IsStrictPrefix(to, p)
    BY <1>2 DEF IsStrictPrefix
  <2> QED BY <1>1, <2>1, <2>2 DEF IsDir, IsFile
<1>3. ~IsPrefix(to, from)
  BY <1>2
<1> QED BY <1>1, <1>2, <1>3 DEF IsDir, IsFile

\* A rename moves every path, but the target, to its new place, and to one of
\* its own; and that is all there is then.
LEMMA RenameMoves ==
  ASSUME TypeOK, Tree, NEW from \in Path, NEW to \in Path, from \in DOMAIN fs, from # to,
         Renamable(from, to)
  PROVE  LET new == Moved(from, to) IN
         /\ \A p \in DOMAIN fs \ {to} : /\ NewPlace(p, from, to) \in DOMAIN new
                                        /\ new[NewPlace(p, from, to)] = fs[p]
         /\ DOMAIN new = {NewPlace(p, from, to) : p \in DOMAIN fs \ {to}}
         /\ \A p, q \in DOMAIN fs \ {to} :
              NewPlace(p, from, to) = NewPlace(q, from, to) => p = q
<1> DEFINE under == {q \in DOMAIN fs : IsPrefix(from, q)}
           rest(p) == SubSeq(p, Len(from) + 1, Len(p))
           arrived == {to \o rest(p) : p \in under}
           new == Moved(from, to)
           place(p) == NewPlace(p, from, to)
<1>1. /\ DOMAIN new = {q \in DOMAIN fs : ~IsPrefix(from, q)} \cup arrived
      /\ \A p \in DOMAIN new :
           new[p] = IF p \in arrived THEN fs[from \o SubSeq(p, Len(to) + 1, Len(p))] ELSE fs[p]
  BY DEF Moved
<1>2. /\ ~IsPrefix(from, to) /\ ~IsPrefix(to, from)
      /\ \A p \in DOMAIN fs : IsPrefix(to, p) => p = to
  BY RenameMeets
<1>3. \A p \in DOMAIN fs : p \in Path
  BY DEF TypeOK
<1>4. \A p \in under : /\ place(p) = to \o rest(p) /\ IsPrefix(to, place(p))
                       /\ p = from \o SubSeq(place(p), Len(to) + 1, Len(place(p)))
                       /\ p # to
  <2> SUFFICES ASSUME NEW p \in under
               PROVE  /\ place(p) = to \o rest(p) /\ IsPrefix(to, place(p))
                      /\ p = from \o SubSeq(place(p), Len(to) + 1, Len(place(p)))
                      /\ p # to
    OBVIOUS
  <2>1. p \in Path /\ IsPrefix(from, p) /\ p # to
    BY <1>2, <1>3
  <2> HIDE DEF under, arrived, new
  <2>2. LET q == NewPlace(p, from, to)
        IN  q = to \o SubSeq(p, Len(from) + 1, Len(p)) /\ IsPrefix(to, q)
            /\ p = from \o SubSeq(q, Len(to) + 1, Len(q))
    BY <2>1, Places, ZenonT(60)
  <2> QED BY <2>1, <2>2, Zenon
<1>5. \A p \in DOMAIN fs \ under : place(p) = p
  BY <1>3, Places
<1> HIDE DEF place, rest, new
<1>6. (\A p \in under : place(p) \in arrived) /\ \A q \in arrived : \E p \in under : q = place(p)
  BY <1>4
<1> HIDE DEF arrived
<1>7. \A p \in DOMAIN fs \ {to} : p \notin under => p \notin arrived
  BY <1>2, <1>4, <1>6
<1>8. ASSUME NEW p \in DOMAIN fs \ {to} PROVE place(p) \in DOMAIN new /\ new[place(p)] = fs[p]
  <2>1. CASE p \in under
    BY <1>1, <1>4, <1>6, <2>1
  <2>2. CASE p \notin under
    BY <1>1, <1>5, <1>7, <2>2
  <2> QED BY <2>1, <2>2
<1>9. ASSUME NEW q \in DOMAIN new PROVE \E p \in DOMAIN fs \ {to} : q = place(p)
  <2>1. CASE q \in arrived
    BY <1>4, <1>6, <2>1
  <2>2. CASE q \notin arrived
    <3>1. q \in DOMAIN fs /\ ~IsPrefix(from, q)
      BY <1>1, <2>2
    <3>2. q # to
      <4>1. from \in under /\ place(from) = to
        <5>1. from \in under
          BY PrefixOfItself
        <5>2. SubSeq(from, Len(from) + 1, Len(from)) = <<>>
          BY DEF Path
        <5>3. to \o <<>> = to
          BY DEF Path
        <5> QED BY <1>4, <5>1, <5>2, <5>3 DEF rest
      <4> QED BY <1>6, <2>2, <4>1
    <3> QED BY <1>5, <3>1, <3>2
  <2> QED BY <2>1, <2>2
<1>10. ASSUME NEW p \in DOMAIN fs \ {to}, NEW q \in DOMAIN fs \ {to}, place(p) = place(q)
       PROVE  p = q
  <2>1. CASE p \in under /\ q \in under
    BY <1>4, <1>10, <2>1
  <2>2. CASE p \notin under \/ q \notin under
    BY <1>2, <1>4, <1>5, <1>10, <2>2
  <2> QED BY <2>1, <2>2
<1>11. DOMAIN new = {place(p) : p \in DOMAIN fs \ {to}}
  BY <1>8, <1>9
<1> QED BY <1>8, <1>10, <1>11 DEF new, place

-----------------------------------------------------------------------------
(* The tree stays one.                                                     *)

LEMMA TreePut ==
  ASSUME TypeOK, Tree, NEW p \in Path, NEW node, \A a \in Ancestors(p) : IsDir(a),
         IsDir(p) => node = Dir, fs' = Put(p, node)
  PROVE  Tree'
<1>1. DOMAIN fs' = DOMAIN fs \cup {p} /\ \A q \in DOMAIN fs' : fs'[q] = IF q = p THEN node ELSE fs[q]
  BY DEF Put
<1>2. IsFiniteSet(DOMAIN fs')
  BY <1>1, FS_AddElement DEF Tree
<1>3. ASSUME NEW q \in DOMAIN fs', NEW a \in Ancestors(q) PROVE a \in DOMAIN fs' /\ fs'[a] = Dir
  <2>1. IsDir(a)
    BY <1>1 DEF Tree
  <2> QED BY <1>1, <2>1 DEF IsDir
<1> QED BY <1>2, <1>3 DEF Tree, IsDir

LEMMA TreeRemove ==
  ASSUME Tree, NEW p, ~IsDir(p), fs' = [q \in DOMAIN fs \ {p} |-> fs[q]]
  PROVE  Tree'
<1>1. IsFiniteSet(DOMAIN fs')
  BY FS_RemoveElement DEF Tree
<1>2. \A q \in DOMAIN fs' : \A a \in Ancestors(q) : a \in DOMAIN fs' /\ fs'[a] = Dir
  BY DEF Tree, IsDir
<1> QED BY <1>1, <1>2 DEF Tree, IsDir

LEMMA TreeRename ==
  ASSUME TypeOK, Tree, NEW from \in Path, NEW to \in Path, from \in DOMAIN fs, from # to,
         Renamable(from, to), fs' = Moved(from, to)
  PROVE  Tree'
<1> DEFINE place(p) == NewPlace(p, from, to)
           S == DOMAIN fs \ {to}
<1>1. /\ \A p \in S : place(p) \in DOMAIN fs' /\ fs'[place(p)] = fs[p]
      /\ DOMAIN fs' = {place(p) : p \in S}
  BY RenameMoves
<1>2. /\ ~IsPrefix(from, to)
      /\ \A p \in DOMAIN fs : IsPrefix(to, p) => p = to
      /\ IsDir(Parent(to))
  BY RenameMeets DEF Renamable
<1>3. \A p \in Path : ~IsPrefix(from, p) => place(p) = p
  BY Places
<1>4. \A p \in DOMAIN fs : p \in Path
  BY DEF TypeOK
<1> HIDE DEF place
<1>5. IsFiniteSet(DOMAIN fs')
  <2> DEFINE f == [p \in S |-> place(p)]
  <2>1. IsFiniteSet(S)
    BY FS_RemoveElement DEF Tree
  <2>2. f \in Surjection(S, DOMAIN fs')
    BY <1>1 DEF Surjection
  <2> QED BY <2>1, <2>2, FS_Surjection
<1>6. ASSUME NEW q \in DOMAIN fs', NEW a \in Ancestors(q) PROVE a \in DOMAIN fs' /\ fs'[a] = Dir
  <2>1. PICK p \in S : q = place(p)
    BY <1>1
  <2>2. CASE ~IsPrefix(from, p)
    <3>1. q = p /\ a \in Path /\ IsPrefix(a, p) /\ IsDir(a)
      BY <1>3, <1>4, <1>6, <2>1, <2>2, Ancestor DEF Tree
    <3>2. ~IsPrefix(from, a)
      BY <1>4, <2>2, <3>1, PrefixOfPrefix
    <3>3. a # to
      BY <1>2, <3>1
    <3> QED BY <1>1, <1>3, <3>1, <3>2, <3>3 DEF IsDir
  <2>3. CASE IsPrefix(from, p)
    <3> DEFINE u == SubSeq(p, Len(from) + 1, Len(p))
    <3>1. q = to \o u /\ q \in Path /\ IsPrefix(to, q) /\ u \in Path /\ p = from \o u
      <4>1. p \in Path
        BY <1>4
      <4>2. q = to \o u /\ q \in Path /\ IsPrefix(to, q)
        BY <2>1, <2>3, <4>1, Places, ZenonT(60) DEF place
      <4> QED BY <2>3, <4>1, <4>2, Apart
    <3>2. a \in Path /\ IsPrefix(a, q) /\ a # q
      BY <1>6, <3>1, Ancestor
    <3> HIDE DEF u
    <3>3. CASE Len(a) < Len(to)
      <4>1. IsPrefix(a, to)
        <5>1. Len(a) <= Len(to)
          BY <3>2, <3>3 DEF Path
        <5> QED BY <3>1, <3>2, <5>1, PrefixOfSame
      <4>2. IsDir(a)
        BY <1>2, <3>2, <3>3, <4>1, PrefixIsAncestor, DirsAbove
      <4>3. ~IsPrefix(from, a) /\ a # to
        BY <1>2, <3>2, <3>3, <4>1, PrefixOfPrefix
      <4> QED BY <1>1, <1>3, <3>2, <4>2, <4>3 DEF IsDir
    <3>4. CASE Len(to) <= Len(a)
      <4> DEFINE v == SubSeq(a, Len(to) + 1, Len(a))
                 b == from \o v
      <4>1. IsPrefix(to, a)
        BY <3>1, <3>2, <3>4, PrefixOfSame
      <4>2. v \in Path /\ a = to \o v
        BY <3>2, <4>1, Apart
      <4> HIDE DEF v
      <4>3. b \in Path /\ IsPrefix(from, b) /\ SubSeq(b, Len(from) + 1, Len(b)) = v
        BY <4>2, Together
      <4>4. IsPrefix(b, p) /\ b # p
        <5>1. IsPrefix(v, u)
          BY <3>1, <3>2, <4>2, PrefixTogether
        <5>2. IsPrefix(b, p)
          BY <3>1, <4>2, <5>1, PrefixTogether
        <5>3. b = p => v = u
          <6>1. SubSeq(p, Len(from) + 1, Len(p)) = u
            BY DEF u
          <6> HIDE DEF b
          <6> QED BY <4>3, <6>1, Zenon
        <5> QED BY <3>1, <3>2, <4>2, <5>2, <5>3
      <4>5. b # to
        BY <1>2, <4>3
      <4> HIDE DEF b
      <4>6. IsDir(b)
        BY <4>3, <4>4, NothingUnderFiles
      <4>7. place(b) = a
        <5>1. place(b) = to \o SubSeq(b, Len(from) + 1, Len(b))
          BY <4>3, Places, ZenonT(60) DEF place
        <5> QED BY <4>2, <4>3, <5>1, Zenon
      <4> QED BY <1>1, <4>5, <4>6, <4>7 DEF IsDir
    <3> QED BY <3>2, <3>3, <3>4 DEF Path
  <2> QED BY <2>2, <2>3
<1> QED BY <1>5, <1>6 DEF Tree, IsDir

-----------------------------------------------------------------------------
(* What a request has changed so far.                                      *)

\* The files, as one node is put or removed.
LEMMA FilesOfPut ==
  ASSUME NEW p, NEW node
  PROVE  /\ node # Dir => Files(Put(p, node)) = [q \in DOMAIN Files(fs) \cup {p} |->
                                                   IF q = p THEN node ELSE fs[q]]
         /\ p \notin DOMAIN fs /\ node = Dir => Files(Put(p, node)) = Files(fs)
<1> DEFINE new == Put(p, node)
<1>1. DOMAIN new = DOMAIN fs \cup {p} /\ \A q \in DOMAIN new : new[q] = IF q = p THEN node ELSE fs[q]
  BY DEF Put
<1> HIDE DEF new
<1>2. ASSUME node # Dir
      PROVE  Files(new) = [q \in DOMAIN Files(fs) \cup {p} |-> IF q = p THEN node ELSE fs[q]]
  BY <1>1, <1>2 DEF Files
<1>3. ASSUME p \notin DOMAIN fs, node = Dir PROVE Files(new) = Files(fs)
  BY <1>1, <1>3 DEF Files
<1> QED BY <1>2, <1>3 DEF new

LEMMA FilesOfRemove ==
  ASSUME NEW p
  PROVE  Files([q \in DOMAIN fs \ {p} |-> fs[q]]) = [q \in DOMAIN Files(fs) \ {p} |-> fs[q]]
<1> DEFINE new == [q \in DOMAIN fs \ {p} |-> fs[q]]
<1>1. DOMAIN new = DOMAIN fs \ {p} /\ \A q \in DOMAIN new : new[q] = fs[q]
  OBVIOUS
<1> HIDE DEF new
<1>2. Files(new) = [q \in DOMAIN Files(fs) \ {p} |-> fs[q]]
  BY <1>1 DEF Files
<1> QED BY <1>2 DEF new

LEMMA BegunFiles == Begun => Files(fs) = Files(before)
<1> SUFFICES ASSUME Begun PROVE Files(fs) = Files(before)
  OBVIOUS
<1>1. {q \in DOMAIN fs : fs[q] # Dir} = {q \in DOMAIN before : before[q] # Dir}
  BY DEF Begun
<1> QED BY <1>1 DEF Begun, Files

LEMMA BeginFiles ==
  ASSUME FilesInv, NEW tool, NEW source, NEW target, NEW text, NEW ok,
         Begin(tool, source, target, text, ok),
         ok /\ tool = "write_file" => text \in Content,
         ok /\ tool = "delete_file" => IsFile(Resolve(target))
  PROVE  Tree' /\ RequestFiles'
<1>1. UNCHANGED <<fs, before>> /\ pc = "idle" /\ before = fs
  BY DEF Begin, FilesInv, RequestFiles
<1>2. Tree'
  BY <1>1 DEF FilesInv, Tree, IsDir
<1>3. CASE ok
  <2>1. /\ request' = [tool |-> tool, source |-> Resolve(source), target |-> Resolve(target), text |-> text]
        /\ pc' = "begun"
    BY <1>3 DEF Begin
  <2>2. Begun'
    BY <1>1, <1>3, <2>1 DEF Begun, IsFile
  <2> QED BY <1>2, <2>1, <2>2 DEF RequestFiles
<1>4. CASE ~ok
  <2>1. UNCHANGED <<request, pc>>
    BY <1>4 DEF Begin
  <2> QED BY <1>1, <1>2, <2>1 DEF RequestFiles
<1> QED BY <1>3, <1>4

LEMMA RequestsFiles == FilesInv /\ Requests => Tree' /\ RequestFiles'
<1> SUFFICES ASSUME FilesInv, Requests PROVE Tree' /\ RequestFiles'
  OBVIOUS
<1> PICK arg \in Argument :
        \/ ListFiles(arg) \/ ReadFile(arg) \/ DeleteFile(arg)
        \/ \E text \in Content : WriteFile(arg, text)
        \/ \E destination \in Argument : MoveFile(arg, destination)
  BY DEF Requests
<1>1. CASE ListFiles(arg) \/ ReadFile(arg)
  BY <1>1, BeginFiles DEF ListFiles, ReadFile
<1>2. CASE DeleteFile(arg)
  BY <1>2, BeginFiles DEF DeleteFile
<1>3. ASSUME NEW text \in Content, WriteFile(arg, text) PROVE Tree' /\ RequestFiles'
  BY <1>3, BeginFiles DEF WriteFile
<1>4. ASSUME NEW destination \in Argument, MoveFile(arg, destination) PROVE Tree' /\ RequestFiles'
  BY <1>4, BeginFiles DEF MoveFile
<1> QED BY <1>1, <1>2, <1>3, <1>4

\* What the steps of a request find.
LEMMA RequestFinds ==
  ASSUME FilesInv, pc # "idle"
  PROVE  /\ request.target \in Path /\ request.source \in Path
         /\ pc = "begun" => Begun
         /\ pc = "opened" => /\ Opened /\ request.tool = "write_file"
                             /\ request.target \in DOMAIN fs /\ fs[request.target] = Partial
                             /\ ~IsDir(request.target)
<1>1. request.target \in Path /\ request.source \in Path /\ pc \in {"begun", "opened", "done"}
  BY DEF FilesInv, IndInv, TypeOK, Request
<1>2. CASE pc = "begun"
  BY <1>1, <1>2 DEF FilesInv, RequestFiles
<1>3. CASE pc = "opened"
  <2>1. Opened /\ request.tool = "write_file"
    BY <1>3 DEF FilesInv, RequestFiles, IndInv, RequestInv
  <2>2. request.target \in DOMAIN Files(fs) /\ Files(fs)[request.target] = Partial
    BY <2>1 DEF Opened
  <2>3. request.target \in DOMAIN fs /\ fs[request.target] = Partial /\ fs[request.target] # Dir
    BY <2>2 DEF Files
  <2> QED BY <1>1, <1>3, <2>1, <2>3 DEF IsDir
<1> QED BY <1>1, <1>2, <1>3

LEMMA TreeStep == FilesInv /\ [Next]_vars => Tree'
<1> SUFFICES ASSUME FilesInv, [Next]_vars PROVE Tree'
  OBVIOUS
<1>0. IndInv /\ TypeOK /\ Tree
  BY DEF FilesInv, IndInv
<1>1. CASE UNCHANGED fs
  BY <1>0, <1>1 DEF Tree, IsDir
<1>2. CASE Start
  <2>1. CASE Root \notin DOMAIN fs
    <3>1. fs' = Put(Root, Dir)
      BY <1>2, <2>1 DEF Start
    <3>2. \A a \in Ancestors(Root) : IsDir(a)
      BY <1>0, WorldAssumption DEF IndInv, WorldStays, IsDir
    <3> QED BY <1>0, <3>1, <3>2, RootAssumption, TreePut
  <2> QED BY <1>1, <1>2, <2>1 DEF Start
<1>3. CASE Requests
  BY <1>3, RequestsFiles
<1>4. ASSUME NEW p \in Ancestors(request.target), MakeDir(p) PROVE Tree'
  <2>1. p \in Path
    BY <1>4, RequestFinds, Ancestor DEF MakeDir, Busy
  <2>2. \A a \in Ancestors(p) : IsDir(a)
    BY <1>0, <1>4, <2>1, DirsAbove DEF MakeDir
  <2> QED BY <1>0, <1>4, <2>1, <2>2, TreePut DEF MakeDir
<1>5. CASE Truncate
  <2>1. request.target \in Path
    BY <1>5, RequestFinds DEF Truncate, Busy
  <2>2. \A a \in Ancestors(request.target) : IsDir(a)
    BY <1>0, <1>5, <2>1, DirsAbove DEF Truncate
  <2> QED BY <1>0, <1>5, <2>1, <2>2, TreePut DEF Truncate
<1>6. CASE WriteText
  <2>1. /\ request.target \in Path /\ request.target \in DOMAIN fs /\ ~IsDir(request.target)
        /\ fs' = Put(request.target, request.text)
    BY <1>6, RequestFinds DEF WriteText
  <2> QED BY <1>0, <2>1, TreePut DEF Tree
<1>7. CASE Rename
  <2>1. /\ request.source \in Path /\ request.target \in Path /\ request.source \in DOMAIN fs
        /\ Renamable(request.source, request.target) /\ fs' = Moved(request.source, request.target)
    BY <1>0, <1>7, RequestFinds DEF Rename, Busy, IndInv, RequestInv
  <2>2. CASE request.source = request.target
    BY <1>0, <2>1, <2>2, MovedSame DEF Tree, IsDir
  <2> QED BY <1>0, <2>1, <2>2, TreeRename
<1>8. CASE Unlink
  <2>1. ~IsDir(request.target) /\ fs' = [p \in DOMAIN fs \ {request.target} |-> fs[p]]
    BY <1>8, RequestFinds DEF Unlink, Busy, Begun, IsFile, IsDir
  <2> QED BY <1>0, <2>1, TreeRemove
<1>9. CASE Kill \/ Look \/ OsError \/ Reply \/ UNCHANGED vars
  BY <1>1, <1>9 DEF Kill, Look, OsError, Reply, vars
<1> QED BY <1>2, <1>3, <1>4, <1>5, <1>6, <1>7, <1>8, <1>9 DEF Next

-----------------------------------------------------------------------------
(* What is answered.                                                       *)

LEMMA NotDoneYet ==
  ASSUME FilesInv, pc \in {"begun", "opened"}
  PROVE  NotDone(request, Files(fs))
<1>1. CASE pc = "begun"
  BY <1>1, RequestFinds, BegunFiles DEF NotDone
<1>2. CASE pc = "opened"
  BY <1>2, RequestFinds DEF NotDone, Opened
<1> QED BY <1>1, <1>2

LEMMA LookIsDone ==
  ASSUME FilesInv, Look
  PROVE  Done(request, fs', Files(fs'))
BY RequestFinds DEF Look, Busy, Begun, Done

LEMMA WriteIsDone ==
  ASSUME FilesInv, WriteText
  PROVE  Done(request, fs', Files(fs'))
<1>1. /\ Opened /\ request.tool = "write_file" /\ request.text # Dir
      /\ fs' = Put(request.target, request.text)
  BY RequestFinds, NodeAssumption DEF WriteText, Opened
<1>2. Files(fs') = [q \in DOMAIN Files(fs) \cup {request.target} |->
                      IF q = request.target THEN request.text ELSE fs[q]]
  <2> DEFINE target == request.target
             text == request.text
  <2>1. text # Dir /\ fs' = Put(target, text)
    BY <1>1
  <2> HIDE DEF target, text
  <2>2. Files(Put(target, text)) = [q \in DOMAIN Files(fs) \cup {target} |->
                                      IF q = target THEN text ELSE fs[q]]
    BY <2>1, FilesOfPut
  <2> QED BY <2>1, <2>2 DEF target, text
<1>3. /\ DOMAIN Files(fs) \cup {request.target} = DOMAIN Files(before) \cup {request.target}
      /\ \A q \in DOMAIN Files(before) \ {request.target} : fs[q] = Files(before)[q]
  <2>1. /\ DOMAIN Files(fs) = DOMAIN Files(before) \cup {request.target}
        /\ \A q \in DOMAIN Files(before) \ {request.target} : Files(fs)[q] = before[q]
    BY <1>1 DEF Opened
  <2>2. /\ \A q \in DOMAIN Files(fs) : Files(fs)[q] = fs[q]
        /\ \A q \in DOMAIN Files(before) : Files(before)[q] = before[q]
    BY DEF Files
  <2> QED BY <2>1, <2>2
<1> QED BY <1>1, <1>2, <1>3 DEF Done

LEMMA DeleteIsDone ==
  ASSUME FilesInv, Unlink
  PROVE  Done(request, fs', Files(fs'))
<1>1. /\ request.tool = "delete_file" /\ fs = before
      /\ fs' = [p \in DOMAIN fs \ {request.target} |-> fs[p]]
  BY RequestFinds DEF Unlink, Busy, Begun
<1>2. Files(fs') = [p \in DOMAIN Files(before) \ {request.target} |-> before[p]]
  <2> DEFINE target == request.target
  <2>1. fs' = [p \in DOMAIN fs \ {target} |-> fs[p]]
    BY <1>1
  <2> HIDE DEF target
  <2>2. Files([p \in DOMAIN fs \ {target} |-> fs[p]]) = [p \in DOMAIN Files(fs) \ {target} |-> fs[p]]
    BY FilesOfRemove
  <2> QED BY <1>1, <2>1, <2>2 DEF target
<1>3. \A p \in DOMAIN Files(before) : Files(before)[p] = before[p]
  BY DEF Files
<1> QED BY <1>1, <1>2, <1>3 DEF Done

\* What a rename does to the files: each, but one at the target, is at its new
\* place.
LEMMA RenameFiles ==
  ASSUME FilesInv, Rename, request.source # request.target
  PROVE  LET from == request.source
             to == request.target
             old == Files(fs)
             new == Files(fs')
         IN  /\ \A p \in DOMAIN old \ {to} : /\ NewPlace(p, from, to) \in DOMAIN new
                                             /\ new[NewPlace(p, from, to)] = old[p]
             /\ DOMAIN new = {NewPlace(p, from, to) : p \in DOMAIN old \ {to}}
<1> DEFINE from == request.source
           to == request.target
           old == Files(fs)
           new == Files(fs')
           place(p) == NewPlace(p, from, to)
<1>1. /\ from \in Path /\ to \in Path /\ from \in DOMAIN fs /\ Renamable(from, to)
      /\ fs' = Moved(from, to) /\ TypeOK /\ Tree
  BY RequestFinds DEF Rename, Busy, FilesInv, IndInv, RequestInv
<1> HIDE DEF from, to
<1>2. /\ \A p \in DOMAIN fs \ {to} : place(p) \in DOMAIN fs' /\ fs'[place(p)] = fs[p]
      /\ DOMAIN fs' = {place(p) : p \in DOMAIN fs \ {to}}
  BY <1>1, RenameMoves DEF from, to
<1> HIDE DEF place
<1>3. /\ DOMAIN old = {p \in DOMAIN fs : fs[p] # Dir} /\ \A p \in DOMAIN old : old[p] = fs[p]
      /\ DOMAIN new = {p \in DOMAIN fs' : fs'[p] # Dir} /\ \A p \in DOMAIN new : new[p] = fs'[p]
  BY DEF Files
<1> HIDE DEF old, new
<1>4. \A p \in DOMAIN old \ {to} : place(p) \in DOMAIN new /\ new[place(p)] = old[p]
  BY <1>2, <1>3
<1>5. \A q \in DOMAIN new : \E p \in DOMAIN old \ {to} : q = place(p)
  BY <1>2, <1>3
<1>6. DOMAIN new = {place(p) : p \in DOMAIN old \ {to}}
  BY <1>4, <1>5
<1> QED BY <1>4, <1>6 DEF old, new, place, from, to

LEMMA FilesAreFinite == Tree => IsFiniteSet(DOMAIN Files(fs)) /\ Cardinality(DOMAIN Files(fs)) \in Nat
<1>1. DOMAIN Files(fs) \subseteq DOMAIN fs
  BY DEF Files
<1> QED BY <1>1, FS_Subset, FS_CardinalityType DEF Tree

LEMMA MoveIsDone ==
  ASSUME FilesInv, Rename
  PROVE  Done(request, fs', Files(fs'))
<1> DEFINE from == request.source
           to == request.target
           old == Files(before)
           new == Files(fs')
           source == {p \in DOMAIN before : IsPrefix(from, p)}
           rest(p) == SubSeq(p, Len(from) + 1, Len(p))
           place(p) == NewPlace(p, from, to)
<1>0. /\ request.tool = "move_file" /\ TypeOK /\ Tree /\ Begun /\ IndInv
      /\ from \in Path /\ to \in Path /\ from \in DOMAIN fs /\ Renamable(from, to)
      /\ fs' = Moved(from, to)
  BY RequestFinds DEF Rename, Busy, FilesInv, IndInv, RequestInv
<1>1. /\ old = Files(fs)
      /\ \A p \in DOMAIN before : p \in DOMAIN fs /\ fs[p] = before[p] /\ p \in Path
      /\ \A p \in DOMAIN old : p \in DOMAIN before /\ old[p] = before[p]
  BY <1>0, BegunFiles DEF Begun, Files, TypeOK
<1>2. SUFFICES
        /\ \A p \in source : to \o rest(p) \in DOMAIN fs' /\ fs'[to \o rest(p)] = before[p]
        /\ from # to => from \notin DOMAIN fs'
        /\ \A p \in DOMAIN old \ (source \cup {to}) : p \in DOMAIN new /\ new[p] = old[p]
        /\ Cardinality(DOMAIN new) >= Cardinality(DOMAIN old) - 1
  BY <1>0 DEF Done
<1>3. CASE from = to
  <2>1. DOMAIN fs' = DOMAIN fs /\ \A p \in DOMAIN fs : fs'[p] = fs[p]
    BY <1>0, <1>3, MovedSame
  <2>2. \A p \in source : to \o rest(p) = p
    BY <1>0, <1>1, <1>3, Apart
  <2>3. new = Files(fs)
    BY <2>1 DEF Files
  <2>4. Cardinality(DOMAIN new) = Cardinality(DOMAIN old) /\ Cardinality(DOMAIN old) \in Nat
    BY <1>0, <1>1, <2>3, FilesAreFinite
  <2>5. \A p \in source : p \in DOMAIN fs' /\ fs'[p] = before[p]
    BY <1>1, <2>1
  <2> HIDE DEF rest, new, old, source
  <2>6. \A p \in source : to \o rest(p) \in DOMAIN fs' /\ fs'[to \o rest(p)] = before[p]
    BY <2>2, <2>5
  <2>7. \A p \in DOMAIN old : p \in DOMAIN new /\ new[p] = old[p]
    BY <1>1, <2>3
  <2>8. Cardinality(DOMAIN new) >= Cardinality(DOMAIN old) - 1
    BY <2>4
  <2> QED BY <1>3, <2>6, <2>7, <2>8
<1>4. CASE from # to
  <2>1. /\ \A p \in DOMAIN fs \ {to} : place(p) \in DOMAIN fs' /\ fs'[place(p)] = fs[p]
        /\ DOMAIN fs' = {place(p) : p \in DOMAIN fs \ {to}}
        /\ \A p, q \in DOMAIN fs \ {to} : place(p) = place(q) => p = q
    BY <1>0, <1>4, RenameMoves
  <2>2. /\ \A p \in DOMAIN old \ {to} : place(p) \in DOMAIN new /\ new[place(p)] = old[p]
        /\ DOMAIN new = {place(p) : p \in DOMAIN old \ {to}}
    BY <1>1, <1>4, RenameFiles
  <2>3. ~IsPrefix(from, to) /\ ~IsPrefix(to, from)
    BY <1>0, <1>4, RenameMeets
  <2>4. \A p \in source : place(p) = to \o rest(p)
    BY <1>0, <1>1, Places, ZenonT(60)
  <2>5. \A p \in Path : ~IsPrefix(from, p) => place(p) = p
    BY <1>0, Places
  <2>6. \A p \in DOMAIN fs : p \in Path /\ (IsPrefix(from, p) => IsPrefix(to, place(p)))
    BY <1>0, Places DEF TypeOK
  <2> HIDE DEF place, rest
  <2>7. \A p \in source : to \o rest(p) \in DOMAIN fs' /\ fs'[to \o rest(p)] = before[p]
    BY <1>1, <2>1, <2>3, <2>4
  <2>8. from \notin DOMAIN fs'
    <3> SUFFICES ASSUME NEW p \in DOMAIN fs \ {to}, place(p) = from PROVE FALSE
      BY <2>1
    <3>1. ~IsPrefix(from, p)
      BY <2>3, <2>6
    <3>2. p = from
      BY <2>5, <2>6, <3>1
    <3> QED BY <1>0, <3>1, <3>2, PrefixOfItself
  <2>9. \A p \in DOMAIN old \ (source \cup {to}) : p \in DOMAIN new /\ new[p] = old[p]
    BY <1>1, <2>2, <2>5
  <2>10. Cardinality(DOMAIN new) >= Cardinality(DOMAIN old) - 1
    <3> DEFINE S == DOMAIN old \ {to}
               f == [p \in S |-> place(p)]
    <3>1. IsFiniteSet(DOMAIN old) /\ Cardinality(DOMAIN old) \in Nat
      BY <1>0, <1>1, FilesAreFinite
    <3>2. /\ IsFiniteSet(S)
          /\ Cardinality(S) = IF to \in DOMAIN old THEN Cardinality(DOMAIN old) - 1
                                                   ELSE Cardinality(DOMAIN old)
      BY <3>1, FS_RemoveElement
    <3> HIDE DEF old, new
    <3>3. f \in [S -> DOMAIN new] /\ \A q \in DOMAIN new : \E p \in S : f[p] = q
      BY <2>2
    <3>4. IsFiniteSet(DOMAIN new)
      <4>1. f \in Surjection(S, DOMAIN new)
        BY <3>3 DEF Surjection
      <4> QED BY <3>2, <4>1, FS_Surjection
    <3>5. f \in Injection(S, DOMAIN new)
      <4>1. \A p, q \in S : f[p] = f[q] => p = q
        BY <1>1, <2>1
      <4> QED BY <3>3, <4>1 DEF Injection, IsInjective
    <3>6. Cardinality(S) <= Cardinality(DOMAIN new) /\ Cardinality(DOMAIN new) \in Nat
      BY <3>4, <3>5, FS_Injection, FS_CardinalityType
    <3> HIDE DEF S
    <3> QED BY <3>1, <3>2, <3>6
  <2> QED BY <2>7, <2>8, <2>9, <2>10
<1> QED BY <1>3, <1>4

LEMMA RequestFilesStep == FilesInv /\ [Next]_vars => RequestFiles'
<1> SUFFICES ASSUME FilesInv, [Next]_vars PROVE RequestFiles'
  OBVIOUS
<1>1. CASE Start
  <2>1. pc' = "idle" /\ before' = fs'
    BY <1>1 DEF Start, FilesInv, IndInv, RequestInv
  <2> QED BY <2>1 DEF RequestFiles
<1>2. CASE Kill \/ OsError \/ Reply
  <2>1. pc' = "idle" /\ before' = fs'
    BY <1>2 DEF Kill, OsError, Reply, Answer
  <2> QED BY <2>1 DEF RequestFiles
<1>3. CASE Requests
  BY <1>3, RequestsFiles
<1>4. ASSUME NEW p \in Ancestors(request.target), MakeDir(p) PROVE RequestFiles'
  <2>1. /\ Begun /\ p \notin DOMAIN fs /\ fs' = Put(p, Dir) /\ pc' = "begun"
        /\ request.tool \in {"write_file", "move_file"} /\ UNCHANGED <<request, before>>
    BY <1>4, RequestFinds DEF MakeDir, Busy
  <2>2. Begun'
    BY <2>1 DEF Begun, Put
  <2> QED BY <2>1, <2>2 DEF RequestFiles
<1>5. CASE Truncate
  <2>1. /\ Begun /\ request.tool = "write_file" /\ fs' = Put(request.target, Partial)
        /\ pc' = "opened" /\ UNCHANGED <<request, before>>
    BY <1>5, RequestFinds DEF Truncate, Busy
  <2>2. Files(fs') = [q \in DOMAIN Files(fs) \cup {request.target} |->
                        IF q = request.target THEN Partial ELSE fs[q]]
    BY <2>1, FilesOfPut, NodeAssumption
  <2>3. Files(fs') = [q \in DOMAIN Files(before) \cup {request.target} |->
                        IF q = request.target THEN Partial ELSE before[q]]
    <3>1. DOMAIN Files(fs) = DOMAIN Files(before)
          /\ \A q \in DOMAIN Files(before) : fs[q] = before[q]
      BY <2>1, BegunFiles DEF Begun, Files
    <3> QED BY <2>2, <3>1
  <2> QED BY <2>1, <2>3 DEF RequestFiles, Opened, Begun, Files
<1>6. CASE Look \/ WriteText \/ Rename \/ Unlink
  <2>1. Done(request, fs', Files(fs'))
    BY <1>6, LookIsDone, WriteIsDone, MoveIsDone, DeleteIsDone
  <2>2. pc' = "done" /\ UNCHANGED <<request, before>>
    BY <1>6 DEF Look, WriteText, Rename, Unlink, Finish
  <2>3. Done(request, fs, Files(fs))'
    BY <2>1, <2>2 DEF Done
  <2> QED BY <2>2, <2>3 DEF RequestFiles
<1>7. CASE UNCHANGED vars
  <2>1. Done(request, fs, Files(fs)) => Done(request, fs, Files(fs))'
    BY <1>7 DEF vars, Done
  <2> QED BY <1>7, <2>1 DEF vars, FilesInv, RequestFiles, Begun, Opened, Files, IsFile
<1> QED BY <1>1, <1>2, <1>3, <1>4, <1>5, <1>6, <1>7 DEF Next

LEMMA FilesInvariant == Spec => []FilesInv
<1>1. Init => FilesInv
  <2>1. Init => Tree
    BY WorldAssumption DEF Init, Tree, IsDir
  <2> QED BY <2>1, IndInit DEF Init, FilesInv, RequestFiles
<1>2. FilesInv /\ [Next]_vars => FilesInv'
  BY IndStep, TreeStep, RequestFilesStep DEF FilesInv
<1> QED BY <1>1, <1>2, PTL DEF Spec

LEMMA AnswerTrue ==
  ASSUME FilesInv, [Next]_vars, pc # "idle", pc' = "idle"
  PROVE  \/ answer' # "ERROR" /\ Done(request, fs', Files(fs'))
         \/ answer' # "OK" /\ NotDone(request, Files(fs'))
<1>1. CASE OsError
  <2>1. fs' = fs /\ answer' = "ERROR" /\ pc \in {"begun", "opened"}
    BY <1>1 DEF OsError, Answer
  <2> QED BY <2>1, NotDoneYet
<1>2. CASE Reply
  <2>1. fs' = fs /\ answer' = "OK" /\ Done(request, fs, Files(fs))
    BY <1>2 DEF Reply, Answer, FilesInv, RequestFiles
  <2> QED BY <2>1
<1>3. CASE Kill
  <2>1. fs' = fs /\ answer' = "none" /\ pc \in {"begun", "opened", "done"}
    BY <1>3 DEF Kill, FilesInv, IndInv, TypeOK
  <2>2. CASE pc = "done"
    <3>1. Done(request, fs, Files(fs))
      BY <2>2 DEF FilesInv, RequestFiles
    <3> QED BY <2>1, <3>1
  <2>3. CASE pc # "done"
    BY <2>1, <2>3, NotDoneYet
  <2> QED BY <2>2, <2>3
<1>4. ~Start /\ ~UNCHANGED vars
  BY DEF Start, vars, FilesInv, IndInv, RequestInv
<1>5. ~Requests
  BY DEF Requests, ListFiles, ReadFile, DeleteFile, WriteFile, MoveFile, Begin
<1>6. ~Truncate /\ \A p \in Ancestors(request.target) : ~MakeDir(p)
  BY DEF Truncate, MakeDir
<1>7. ~Look /\ ~WriteText /\ ~Rename /\ ~Unlink
  BY DEF Look, WriteText, Rename, Unlink, Finish
<1> QED BY <1>1, <1>2, <1>3, <1>4, <1>5, <1>6, <1>7 DEF Next

\* What was answered is what was done, and a request that is killed is done or it
\* is not, wherever it is interrupted; see AnswersAreTrue.
THEOREM AnswersTellTheTruth == Spec => AnswersAreTrue
<1>1. FilesInv /\ [Next]_vars =>
        [pc # "idle" /\ pc' = "idle" =>
           \/ answer' # "ERROR" /\ Done(request, fs', Files(fs'))
           \/ answer' # "OK" /\ NotDone(request, Files(fs'))]_vars
  BY AnswerTrue
<1> QED BY <1>1, FilesInvariant, PTL DEF Spec, AnswersAreTrue

-----------------------------------------------------------------------------
(* The abstract store.                                                     *)

LEMMA TruncateEmpties ==
  ASSUME FilesInv, Truncate
  PROVE  FileStore!Next
<1> DEFINE target == request.target
<1>1. target \in Path /\ Inside(target) /\ fs' = Put(target, Partial) /\ Partial # Dir
  BY RequestFinds, NodeAssumption DEF Truncate, Busy, FilesInv, IndInv, RequestInv
<1> HIDE DEF target
<1>2. Files(fs') = [q \in DOMAIN Files(fs) \cup {target} |-> IF q = target THEN Partial ELSE fs[q]]
  BY <1>1, FilesOfPut
<1>3. \A q \in DOMAIN Files(fs) : fs[q] = Files(fs)[q]
  BY DEF Files
<1>4. Files(fs') = [q \in DOMAIN Files(fs) \cup {target} |->
                      IF q = target THEN Partial ELSE Files(fs)[q]]
  BY <1>2, <1>3
<1>5. target \in DOMAIN Files(fs') /\ FileStore!Empty(target)
  BY <1>1, <1>4 DEF FileStore!Empty
<1> QED BY <1>5 DEF FileStore!Next

LEMMA WriteFills ==
  ASSUME FilesInv, WriteText
  PROVE  FileStore!Next
<1> DEFINE target == request.target
           text == request.text
<1>1. /\ target \in DOMAIN fs /\ fs[target] = Partial /\ fs' = Put(target, text)
      /\ text \in Content /\ text # Dir /\ Partial # Dir
  BY RequestFinds, NodeAssumption DEF WriteText, Opened
<1> HIDE DEF target, text
<1>2. Files(fs') = [q \in DOMAIN Files(fs) \cup {target} |-> IF q = target THEN text ELSE fs[q]]
  BY <1>1, FilesOfPut
<1>3. target \in DOMAIN Files(fs) /\ \A q \in DOMAIN Files(fs) : fs[q] = Files(fs)[q]
  BY <1>1 DEF Files
<1>4. Files(fs') = [Files(fs) EXCEPT ![target] = text]
  <2>1. DOMAIN Files(fs) \cup {target} = DOMAIN Files(fs)
    BY <1>3
  <2>2. Files(fs) = [q \in DOMAIN Files(fs) |-> Files(fs)[q]]
    BY DEF Files
  <2> DEFINE old == Files(fs)
  <2>3. Files(fs') = [q \in DOMAIN old |-> IF q = target THEN text ELSE old[q]]
    BY <1>2, <1>3, <2>1
  <2> HIDE DEF old
  <2>4. [old EXCEPT ![target] = text] = [q \in DOMAIN old |-> IF q = target THEN text ELSE old[q]]
    OBVIOUS
  <2> QED BY <2>3, <2>4 DEF old
<1>5. FileStore!Fill(target)
  BY <1>1, <1>3, <1>4 DEF FileStore!Fill
<1>6. target \in DOMAIN Files(fs')
  BY <1>2
<1> QED BY <1>5, <1>6 DEF FileStore!Next

LEMMA UnlinkDeletes ==
  ASSUME FilesInv, Unlink
  PROVE  FileStore!Next
<1> DEFINE target == request.target
<1>1. /\ IsFile(target) /\ Inside(target) /\ fs' = [p \in DOMAIN fs \ {target} |-> fs[p]]
  BY RequestFinds DEF Unlink, Busy, Begun, FilesInv, IndInv, RequestInv
<1> HIDE DEF target
<1>2. Files(fs') = [p \in DOMAIN Files(fs) \ {target} |-> fs[p]]
  BY <1>1, FilesOfRemove
<1>3. target \in DOMAIN Files(fs) /\ \A q \in DOMAIN Files(fs) : fs[q] = Files(fs)[q]
  BY <1>1 DEF Files, IsFile
<1>4. Files(fs') = [p \in DOMAIN Files(fs) \ {target} |-> Files(fs)[p]]
  BY <1>2, <1>3
<1>5. FileStore!Delete(target)
  BY <1>1, <1>4 DEF FileStore!Delete
<1> QED BY <1>3, <1>5 DEF FileStore!Next

\* A path on the way to a file is one of the places of the store.
LEMMA PlaceOf ==
  ASSUME NEW tree, NEW p \in DOMAIN tree, NEW q \in Path, p \in Path, IsPrefix(q, p)
  PROVE  q \in FileStore!Places(tree)
<1>1. Len(q) \in 0..Len(p) /\ q = SubSeq(p, 1, Len(q))
  BY SubSeqFull, PrefixByNames DEF IsPrefix, Path
<1>2. q \in FileStore!Prefixes(p)
  BY <1>1 DEF FileStore!Prefixes
<1> QED BY <1>2 DEF FileStore!Places

LEMMA RenameMovesFiles ==
  ASSUME FilesInv, Rename
  PROVE  FileStore!Next \/ UNCHANGED Files(fs)
<1> DEFINE from == request.source
           to == request.target
           old == Files(fs)
           new == Files(fs')
           place(p) == NewPlace(p, from, to)
<1>1. /\ from \in Path /\ to \in Path /\ from \in DOMAIN fs /\ Renamable(from, to)
      /\ fs' = Moved(from, to) /\ TypeOK /\ Tree /\ IndInv /\ Inside(from) /\ Inside(to)
  BY RequestFinds DEF Rename, Busy, FilesInv, IndInv, RequestInv
<1>2. /\ DOMAIN old = {p \in DOMAIN fs : fs[p] # Dir} /\ \A p \in DOMAIN old : old[p] = fs[p]
      /\ \A p \in DOMAIN old : p \in Path
  BY <1>1 DEF Files, TypeOK
<1>3. CASE from = to
  <2>1. DOMAIN fs' = DOMAIN fs /\ \A p \in DOMAIN fs : fs'[p] = fs[p]
    BY <1>1, <1>3, MovedSame
  <2> QED BY <2>1 DEF Files
<1>4. CASE from # to
  <2>1. /\ \A p \in DOMAIN old \ {to} : place(p) \in DOMAIN new /\ new[place(p)] = old[p]
        /\ DOMAIN new = {place(p) : p \in DOMAIN old \ {to}}
    BY <1>4, RenameFiles
  <2>2. /\ ~IsPrefix(from, to)
        /\ \A p \in DOMAIN fs : IsPrefix(to, p) => p = to
        /\ to \in DOMAIN fs /\ fs[to] # Dir => fs[from] # Dir
    BY <1>1, <1>4, RenameMeets
  <2>3. \A p \in Path : ~IsPrefix(from, p) => place(p) = p
    BY <1>1, Places
  <2>4. \A p \in Path : IsPrefix(from, p) => place(p) \in Path /\ IsPrefix(to, place(p))
    BY <1>1, Places
  <2>5. CASE \E p \in DOMAIN old : IsPrefix(from, p)
    <3>1. PICK p \in DOMAIN old : IsPrefix(from, p)
      BY <2>5
    <3>2. from \in FileStore!Places(old)
      BY <1>1, <1>2, <3>1, PlaceOf
    <3>3. place(p) \in DOMAIN new /\ place(p) \in Path /\ IsPrefix(to, place(p))
      BY <1>2, <2>1, <2>2, <2>4, <3>1
    <3>4. to \in FileStore!Places(new)
      BY <1>1, <3>3, PlaceOf
    <3>5. \A q \in DOMAIN old : IsPrefix(to, q) => q = to /\ from \in DOMAIN old
      BY <1>1, <1>2, <2>2
    <3>6. FileStore!Move(from, to)
      BY <1>1, <1>4, <2>1, <3>5, SamePrefix DEF FileStore!Move, NewPlace
    <3> QED BY <3>2, <3>4, <3>6 DEF FileStore!Next
  <2>6. CASE \A p \in DOMAIN old : ~IsPrefix(from, p)
    <3>1. to \notin DOMAIN old
      BY <1>1, <1>2, <2>2, <2>6, PrefixOfItself
    <3>2. \A p \in DOMAIN old : place(p) = p
      BY <1>2, <2>3, <2>6
    <3> HIDE DEF place
    <3>3. DOMAIN new = DOMAIN old /\ \A p \in DOMAIN old : new[p] = old[p]
      BY <2>1, <3>1, <3>2
    <3> QED BY <3>3 DEF Files
  <2> QED BY <2>5, <2>6
<1> QED BY <1>3, <1>4

LEMMA StoreNext == FilesInv /\ [Next]_vars => [FileStore!Next]_(Files(fs))
<1> SUFFICES ASSUME FilesInv, [Next]_vars PROVE FileStore!Next \/ UNCHANGED Files(fs)
  OBVIOUS
<1>1. CASE Start
  <2>1. fs' = fs \/ (Root \notin DOMAIN fs /\ fs' = Put(Root, Dir))
    BY <1>1 DEF Start
  <2>2. CASE fs' = fs
    BY <2>2
  <2>3. CASE Root \notin DOMAIN fs /\ fs' = Put(Root, Dir)
    BY <2>3, FilesOfPut
  <2> QED BY <2>1, <2>2, <2>3
<1>2. ASSUME NEW p \in Ancestors(request.target), MakeDir(p) PROVE UNCHANGED Files(fs)
  <2>1. p \notin DOMAIN fs /\ fs' = Put(p, Dir)
    BY <1>2 DEF MakeDir
  <2>2. Files(fs') = Files(fs)
    BY <2>1, FilesOfPut
  <2> QED BY <2>2
<1>3. CASE Kill \/ Requests \/ Look \/ OsError \/ Reply \/ UNCHANGED vars
  <2>1. fs' = fs
    BY <1>3 DEF Kill, Requests, ListFiles, ReadFile, DeleteFile, WriteFile, MoveFile, Begin, Look,
                OsError, Reply, vars
  <2> QED BY <2>1
<1> QED BY <1>1, <1>2, <1>3, TruncateEmpties, WriteFills, UnlinkDeletes, RenameMovesFiles DEF Next

\* Whatever fails or dies, the files are those of the abstract store; see
\* ImplementsFileStore.
THEOREM SandboxIsAStore == Spec => ImplementsFileStore
<1>1. Init => Files(fs) \in [DOMAIN Files(fs) -> Content \cup {Partial}]
  <2>1. Init => \A p \in DOMAIN fs : fs[p] \in Content \cup {Partial, Dir}
    BY WorldAssumption DEF Init, Node
  <2> QED BY <2>1 DEF Files
<1> QED BY <1>1, StoreNext, FilesInvariant, PTL DEF Spec, ImplementsFileStore, FileStore!Spec
=============================================================================
