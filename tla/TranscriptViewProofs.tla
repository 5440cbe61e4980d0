------------------------ MODULE TranscriptViewProofs -------------------------
(***************************************************************************)
(* Proofs about TranscriptView, for any turns, calls, limits and bounds.   *)
(***************************************************************************)
EXTENDS TranscriptView, FiniteSetTheorems, TLAPS

Active(c) == stage[c] \notin {"idle", "done"}
Resolved == {"granted", "rejected"}

\* What a row says has happened.
Grounded(row, turns, stages) ==
    /\ row.kind = "user" => turns[row.of] # "none"
    /\ row.kind = "model" => turns[row.of] = "answered"
    /\ row.kind = "tool" => stages[row.of] \in {"recorded", "done"}

\* What the backend's parts know of each other, and what rows there are.
Backed ==
    /\ \A c \in Call : Active(c) => maker[c] \in Turn /\ turn[maker[c]] = "running"
    /\ \A t \in Turn : turn[t] # "none" => post[t] # "none"
    /\ \A c \in Call : status[c] = "PENDING" => stage[c] \in {"asked", "announced"}
    /\ \A i \in DOMAIN stored : Grounded(stored[i], turn, stage)

\* And the page's; at most one of its POSTs is under way.
Paged ==
    /\ socket \in {"closed", "connecting"} => queue = <<>>
    /\ socket = "open" => hasConnectedBefore
    /\ ~mounted => \A g \in Get : get[g] = "none"
    /\ clear \in {"sent", "deleted"} => mounted
    /\ \A t \in Turn : /\ post[t] = "sent" => mounted
                       /\ post[t] = "done" => turn[t] \in {"answered", "failed"}
    /\ \A t, u \in Turn : post[t] = "sent" /\ post[u] = "sent" => t = u

\* An approval is announced before its decision, and decided before its row.
Announced ==
    \A i \in DOMAIN queue :
        LET c == queue[i].of IN
        /\ queue[i].kind = "pending" =>
             \/ stage[c] = "announced"
             \/ \E j \in DOMAIN queue : j > i /\ queue[j].of = c /\ queue[j].kind \in Resolved
        /\ queue[i].kind \in Resolved => stage[c] \in {"recording", "recorded", "done"}

In(entries, kind, of) == \E i \in DOMAIN entries : entries[i] = [kind |-> kind, of |-> of]

\* What the answer of a GET shows is what it was made from.
Answers ==
    \A g \in Get : get[g] = "answered" =>
        /\ \A row \in read[g] : In(snapshot[g], Face(row).kind, row.of)
        /\ \A c \in Call :
             In(snapshot[g], "pending", c) => [kind |-> "approval", of |-> c] \in read[g]

\* The page is connected, and waits for no GET.
Settled == socket = "open" /\ \A g \in Get : get[g] = "none"

\* A row is told on the page, or it will be by an event or by the answer to a POST,
\* or its turn's page has gone.
Told(row, entries, events, stages, posts) ==
    \/ In(entries, Face(row).kind, row.of)
    \/ row.kind = "tool" /\ (stages[row.of] = "recorded" \/ In(events, "result", row.of))
    \/ row.kind = "approval" /\ (stages[row.of] = "asked" \/ In(events, "pending", row.of))
    \/ row.kind \in {"user", "model"} /\ posts[row.of] = "orphaned"
    \/ row.kind = "model" /\ posts[row.of] = "sent"

\* An approval is pending, or the event of its decision will come.
Waits(c, events, stages) ==
    \/ stages[c] \in {"asked", "announced"}
    \/ \E kind \in Resolved : In(events, kind, c)

UpToDate ==
    mounted /\ Settled =>
        /\ \A i \in Returned :
             Told(stored[i], transcript, queue, stage, post) \/ stored[i] \in missed
        /\ \A c \in Call : In(transcript, "pending", c) =>
             Waits(c, queue, stage) \/ [kind |-> "approval", of |-> c] \in missed
        /\ \A t \in Turn : post[t] = "sent" =>
             In(transcript, "user", t) \/ [kind |-> "user", of |-> t] \in missed

StrandInv == Backed /\ Paged /\ Announced /\ Answers /\ UpToDate

-----------------------------------------------------------------------------
(***************************************************************************)
(* The operators.                                                          *)
(***************************************************************************)

\* A finite set of numbers, written in order: every member has its place.
LEMMA AscendingNumbers ==
  ASSUME NEW S \in SUBSET Nat, IsFiniteSet(S)
  PROVE  /\ Cardinality(S) \in Nat
         /\ Ascending(S) \in [1..Cardinality(S) -> S]
         /\ \A i \in S : \E n \in 1..Cardinality(S) : Ascending(S)[n] = i
         /\ \A m, n \in 1..Cardinality(S) : m < n <=> Ascending(S)[m] < Ascending(S)[n]
<1> DEFINE N == Cardinality(S)
           upto(i) == {j \in S : j <= i}
           rank == [i \in S |-> Cardinality(upto(i))]
<1>1. N \in Nat
  BY FS_CardinalityType
<1>2. ASSUME NEW i \in S
      PROVE  IsFiniteSet(upto(i)) /\ Cardinality(upto(i)) \in 1..N
  <2>1. IsFiniteSet(upto(i)) /\ Cardinality(upto(i)) <= N
    BY FS_Subset
  <2>2. Cardinality(upto(i)) \in Nat
    BY <2>1, FS_CardinalityType
  <2>3. i \in upto(i)
    OBVIOUS
  <2>4. Cardinality(upto(i)) # 0
    BY <2>1, <2>3, FS_EmptySet
  <2> HIDE DEF upto
  <2> QED BY <1>1, <2>1, <2>2, <2>4
<1>3. ASSUME NEW i \in S, NEW k \in S, i < k
      PROVE  Cardinality(upto(i)) < Cardinality(upto(k))
  <2>1. upto(i) \subseteq upto(k)
    <3> SUFFICES ASSUME NEW j \in S, j <= i PROVE j <= k
      OBVIOUS
    <3> QED BY <1>3
  <2> k \in upto(k) /\ k \notin upto(i)
    BY <1>3
  <2>2. upto(i) # upto(k)
    BY <2>1
  <2>3. Cardinality(upto(i)) <= Cardinality(upto(k)) /\ Cardinality(upto(i)) # Cardinality(upto(k))
    BY <1>2, <2>1, <2>2, FS_Subset
  <2> HIDE DEF upto
  <2> QED BY <1>1, <1>2, <2>3
<1>4. /\ rank \in [S -> 1..N]
      /\ \A i, k \in S : i < k <=> rank[i] < rank[k]
  <2>1. \A i \in S : rank[i] = Cardinality(upto(i)) /\ rank[i] \in 1..N
    BY <1>2
  <2> HIDE DEF upto
  <2>2. \A i, k \in S : i < k => rank[i] < rank[k]
    BY <1>3, <2>1
  <2>3. \A i, k \in S : i < k \/ i = k \/ k < i
    OBVIOUS
  <2> HIDE DEF rank
  <2>4. \A i, k \in S : rank[i] < rank[k] => i < k
    BY <1>1, <2>1, <2>2, <2>3
  <2> QED BY <2>1, <2>2, <2>4 DEF rank
<1>5. rank \in Surjection(S, 1..N)
  <2> HIDE DEF rank
  <2>1. \A i, k \in S : rank[i] = rank[k] => i = k
    BY <1>1, <1>4
  <2>2. rank \in Injection(S, 1..N)
    BY <1>4, <2>1 DEF Injection, IsInjective
  <2>3. IsFiniteSet(1..N) /\ Cardinality(1..N) = N
    <3> HIDE DEF N
    <3> QED BY <1>1, FS_Interval
  <2> QED BY <2>2, <2>3, FS_Injection
<1>6. ASSUME NEW n \in 1..N PROVE Ascending(S)[n] \in S /\ rank[Ascending(S)[n]] = n
  <2>1. \E i \in S : Cardinality(upto(i)) = n
    BY <1>5 DEF Surjection
  <2> QED BY <2>1 DEF Ascending
<1> DEFINE at(n) == CHOOSE i \in S : Cardinality({j \in S : j <= i}) = n
           a == Ascending(S)
<1>7. a = [n \in 1..N |-> at(n)]
  BY DEF Ascending
<1> HIDE DEF rank, N, a, at
<1>8. a \in [1..N -> S]
  <2>1. \A n \in 1..N : at(n) \in S
    BY <1>6, <1>7 DEF a
  <2> QED BY <1>7, <2>1
<1>9. ASSUME NEW m \in 1..N, NEW n \in 1..N PROVE m < n <=> a[m] < a[n]
  <2>1. a[m] \in S /\ a[n] \in S /\ rank[a[m]] = m /\ rank[a[n]] = n
    BY <1>6 DEF a
  <2>2. a[m] < a[n] <=> rank[a[m]] < rank[a[n]]
    BY <1>4, <2>1
  <2> QED BY <2>1, <2>2
<1>10. ASSUME NEW i \in S PROVE \E n \in 1..N : a[n] = i
  <2>1. rank[i] \in 1..N /\ rank[a[rank[i]]] = rank[i] /\ a[rank[i]] \in S
    BY <1>4, <1>6 DEF a
  <2>2. a[rank[i]] = i
    <3>1. /\ i < a[rank[i]] <=> rank[i] < rank[a[rank[i]]]
          /\ a[rank[i]] < i <=> rank[a[rank[i]]] < rank[i]
      BY <1>4, <2>1
    <3>2. i \in Nat /\ a[rank[i]] \in Nat
      BY <2>1
    <3>3. rank[i] \in Nat
      BY <2>1, <1>1
    <3> QED BY <2>1, <3>1, <3>2, <3>3
  <2> QED BY <2>1, <2>2
<1> QED BY <1>1, <1>8, <1>9, <1>10 DEF N, a

\* The places of a row, and of its entries.
LEMMA PlaceOf ==
  ASSUME NEW i \in Nat \ {0}, NEW k \in 1..3
  PROVE  /\ 3 * (i - 1) + k \in Nat \ {0}
         /\ RowAt(3 * (i - 1) + k) = i
         /\ BlockAt(3 * (i - 1) + k) = k
<1>1. RowAt(3 * (i - 1) + k) = i
  BY DEF RowAt
<1> QED BY <1>1 DEF BlockAt

LEMMA RowOfPlace ==
  ASSUME NEW p \in Nat \ {0}
  PROVE  RowAt(p) \in Nat \ {0} /\ BlockAt(p) \in 1..3 /\ p = 3 * (RowAt(p) - 1) + BlockAt(p)
BY DEF RowAt, BlockAt

LEMMA PlacesAscend ==
  ASSUME NEW i \in Nat \ {0}, NEW j \in Nat \ {0}, NEW k \in 1..3, NEW l \in 1..3,
         3 * (i - 1) + k < 3 * (j - 1) + l
  PROVE  i < j \/ (i = j /\ k < l)
<1>1. k >= 1 /\ l <= 3 /\ k \in Nat /\ l \in Nat
  OBVIOUS
<1>2. CASE i < j
  BY <1>2
<1>3. CASE i = j
  BY <1>1, <1>3
<1>4. CASE j < i
  <2>1. j + 1 <= i
    BY <1>4
  <2> QED BY <1>1, <2>1
<1> QED BY <1>2, <1>3, <1>4

LEMMA BlocksOf ==
  ASSUME NEW row \in Row
  PROVE  /\ Len(Blocks(row)) \in 1..3
         /\ DOMAIN Blocks(row) = 1..Len(Blocks(row))
         /\ \A k \in DOMAIN Blocks(row) : Blocks(row)[k] \in Entry
         /\ Blocks(row)[Len(Blocks(row))] = Face(row)
         /\ \A k \in DOMAIN Blocks(row) : Blocks(row)[k].kind = "pending" =>
              row.kind = "approval" /\ Blocks(row)[k].of = row.of
<1>1. CASE row.kind = "tool"
  <2>1. row.of \in Call
    BY <1>1 DEF Row, Message
  <2>2. Blocks(row) = << [kind |-> "requested", of |-> row.of], [kind |-> "decided", of |-> row.of],
                         [kind |-> "result", of |-> row.of] >>
    BY <1>1 DEF Blocks
  <2> QED BY <1>1, <2>1, <2>2 DEF Face, Entry, Event
<1>2. CASE row.kind = "approval"
  <2>1. row.of \in Call
    BY <1>2 DEF Row, Message
  <2>2. Blocks(row) = << [kind |-> "pending", of |-> row.of] >>
    BY <1>2 DEF Blocks
  <2> QED BY <1>2, <2>1, <2>2 DEF Face, Entry, Event
<1>3. CASE row.kind \notin {"tool", "approval"}
  <2>1. row \in Message /\ Blocks(row) = <<row>>
    BY <1>3 DEF Blocks, Row
  <2>2. Face(row) = row
    BY <1>3, <2>1 DEF Face, Message
  <2> QED BY <1>3, <2>1, <2>2 DEF Entry, Message
<1> QED BY <1>1, <1>2, <1>3

LEMMA Appended ==
  ASSUME NEW T, NEW s \in Seq(T), NEW e \in T
  PROVE  /\ Append(s, e) \in Seq(T)
         /\ Len(s) \in Nat
         /\ DOMAIN s = 1..Len(s)
         /\ DOMAIN Append(s, e) = 1..(Len(s) + 1)
         /\ \A i \in 1..Len(s) : Append(s, e)[i] = s[i]
         /\ Append(s, e)[Len(s) + 1] = e
OBVIOUS

LEMMA TailOf ==
  ASSUME NEW T, NEW s \in Seq(T), s # <<>>
  PROVE  /\ Tail(s) \in Seq(T) /\ Head(s) \in T
         /\ Len(s) \in Nat \ {0}
         /\ DOMAIN s = 1..Len(s)
         /\ DOMAIN Tail(s) = 1..(Len(s) - 1)
         /\ Head(s) = s[1]
         /\ \A i \in 1..(Len(s) - 1) : Tail(s)[i] = s[i + 1]
OBVIOUS

LEMMA AppendIn ==
  ASSUME NEW T, NEW s \in Seq(T), NEW e \in T
  PROVE  \A kind, of : In(Append(s, e), kind, of) <=> In(s, kind, of)
           \/ e = [kind |-> kind, of |-> of]
<1> DEFINE a == Append(s, e)
<1>1. /\ DOMAIN s = 1..Len(s) /\ DOMAIN a = 1..(Len(s) + 1) /\ Len(s) \in Nat
      /\ \A i \in 1..Len(s) : a[i] = s[i]
      /\ a[Len(s) + 1] = e
  BY Appended
<1> HIDE DEF a
<1>2. \A i : i \in DOMAIN a <=> i \in DOMAIN s \/ i = Len(s) + 1
  BY <1>1
<1>3. \A kind, of : In(a, kind, of) <=> In(s, kind, of) \/ e = [kind |-> kind, of |-> of]
  BY <1>1, <1>2, Zenon DEF In
<1> QED BY <1>3 DEF a

LEMMA TailIn ==
  ASSUME NEW T, NEW s \in Seq(T), s # <<>>
  PROVE  \A kind, of : In(s, kind, of) <=> In(Tail(s), kind, of)
           \/ Head(s) = [kind |-> kind, of |-> of]
<1> DEFINE t == Tail(s)
           h == Head(s)
<1>1. /\ DOMAIN s = 1..Len(s) /\ DOMAIN t = 1..(Len(s) - 1) /\ Len(s) \in Nat \ {0}
      /\ h = s[1]
      /\ \A i \in 1..(Len(s) - 1) : t[i] = s[i + 1]
  BY TailOf
<1> HIDE DEF t, h
<1>2. \A i \in DOMAIN s : i = 1 \/ (i - 1 \in DOMAIN t /\ t[i - 1] = s[i])
  BY <1>1
<1>3. \A i \in DOMAIN t : i + 1 \in DOMAIN s /\ t[i] = s[i + 1]
  BY <1>1
<1>4. 1 \in DOMAIN s
  BY <1>1
<1>5. \A kind, of : In(s, kind, of) <=> In(t, kind, of) \/ h = [kind |-> kind, of |-> of]
  <2> SUFFICES ASSUME NEW kind, NEW of
               PROVE  In(s, kind, of) <=> In(t, kind, of) \/ h = [kind |-> kind, of |-> of]
    OBVIOUS
  <2> DEFINE e == [kind |-> kind, of |-> of]
  <2>1. In(s, kind, of) <=> \E i \in DOMAIN s : s[i] = e
    BY DEF In
  <2>2. In(t, kind, of) <=> \E i \in DOMAIN t : t[i] = e
    BY DEF In
  <2> HIDE DEF e
  <2>3. (\E i \in DOMAIN s : s[i] = e) <=> (\E i \in DOMAIN t : t[i] = e) \/ h = e
    BY <1>1, <1>2, <1>3, <1>4, Zenon
  <2> QED BY <2>1, <2>2, <2>3 DEF e
<1> QED BY <1>5 DEF t, h

\* An event of an approval takes the place of what was there of it before.
LEMMA UpsertIn ==
  ASSUME transcript \in Seq(Entry), NEW e \in Event, e.kind \in Approval
  PROVE  /\ Upsert(e) \in Seq(Entry)
         /\ \A kind, of : In(Upsert(e), kind, of) <=>
              \/ e = [kind |-> kind, of |-> of]
              \/ In(transcript, kind, of) /\ ~(kind \in Approval /\ of = e.of)
<1> DEFINE places == {i \in DOMAIN transcript :
                        transcript[i].kind \in Approval /\ transcript[i].of = e.of}
           new == [i \in DOMAIN transcript |-> IF i \in places THEN e ELSE transcript[i]]
<1>1. e \in Entry
  BY DEF Entry
<1>2. CASE places = {}
  <2>1. Upsert(e) = Append(transcript, e)
    BY <1>2 DEF Upsert
  <2>2. /\ Append(transcript, e) \in Seq(Entry)
        /\ \A kind, of : In(Append(transcript, e), kind, of) <=>
             In(transcript, kind, of) \/ e = [kind |-> kind, of |-> of]
    BY <1>1, AppendIn, Appended
  <2>3. \A kind, of : In(transcript, kind, of) => ~(kind \in Approval /\ of = e.of)
    BY <1>2 DEF In
  <2> QED BY <2>1, <2>2, <2>3, Zenon
<1>3. CASE places # {}
  <2>1. Upsert(e) = new
    BY <1>3 DEF Upsert
  <2>2. new \in Seq(Entry) /\ DOMAIN new = DOMAIN transcript
    BY <1>1
  <2>3. \A i \in DOMAIN transcript : new[i] = IF i \in places THEN e ELSE transcript[i]
    OBVIOUS
  <2>4. PICK p \in DOMAIN transcript : p \in places
    BY <1>3
  <2> HIDE DEF new
  <2>5. ASSUME NEW kind, NEW of
        PROVE  In(new, kind, of) <=>
                 \/ e = [kind |-> kind, of |-> of]
                 \/ In(transcript, kind, of) /\ ~(kind \in Approval /\ of = e.of)
    <3> DEFINE entry == [kind |-> kind, of |-> of]
    <3>1. entry.kind = kind /\ entry.of = of
      OBVIOUS
    <3>2. \A i \in DOMAIN transcript : transcript[i] = entry =>
            (i \in places <=> kind \in Approval /\ of = e.of)
      BY <3>1
    <3> HIDE DEF entry, places
    <3>3. In(new, kind, of) <=> \E i \in DOMAIN transcript : new[i] = entry
      BY <2>2 DEF In, entry
    <3>4. In(transcript, kind, of) <=> \E i \in DOMAIN transcript : transcript[i] = entry
      BY DEF In, entry
    <3>5. In(new, kind, of) <=>
            e = entry \/ (In(transcript, kind, of) /\ ~(kind \in Approval /\ of = e.of))
      <4>1. ASSUME In(new, kind, of)
            PROVE  e = entry \/ (In(transcript, kind, of) /\ ~(kind \in Approval /\ of = e.of))
        BY <4>1, <2>3, <3>2, <3>3, <3>4
      <4>2. ASSUME e = entry PROVE In(new, kind, of)
        BY <4>2, <2>3, <2>4, <3>3
      <4>3. ASSUME In(transcript, kind, of), ~(kind \in Approval /\ of = e.of)
            PROVE  In(new, kind, of)
        BY <4>3, <2>3, <3>2, <3>3, <3>4
      <4> QED BY <4>1, <4>2, <4>3
    <3> QED BY <3>5 DEF entry
  <2> QED BY <2>1, <2>2, <2>5, Zenon
<1> QED BY <1>2, <1>3

\* The places that these rows' entries have, in order.
Places(rows) ==
    Ascending({p \in 1..(3 * Len(stored)) :
                 RowAt(p) \in rows /\ BlockAt(p) \in DOMAIN Blocks(stored[RowAt(p)])})

\* entriesFromChatState lists each entry of each row, in the order of the rows.
LEMMA EntriesOf ==
  ASSUME stored \in Seq(Row), NEW rows \in SUBSET DOMAIN stored
  PROVE  /\ EntriesFrom(rows) \in Seq(Entry)
         /\ DOMAIN EntriesFrom(rows) = DOMAIN Places(rows)
         /\ \A n \in DOMAIN Places(rows) :
              LET i == RowAt(Places(rows)[n])
                  k == BlockAt(Places(rows)[n])
              IN  /\ Places(rows)[n] \in Nat \ {0}
                  /\ i \in rows /\ k \in DOMAIN Blocks(stored[i])
                  /\ EntriesFrom(rows)[n] = Blocks(stored[i])[k]
         /\ \A i \in rows : \A k \in DOMAIN Blocks(stored[i]) :
              \E n \in DOMAIN Places(rows) : Places(rows)[n] = 3 * (i - 1) + k
         /\ \A m, n \in DOMAIN Places(rows) : m < n <=> Places(rows)[m] < Places(rows)[n]
<1> DEFINE L == Len(stored)
           S == {p \in 1..(3 * L) :
                   RowAt(p) \in rows /\ BlockAt(p) \in DOMAIN Blocks(stored[RowAt(p)])}
           N == Cardinality(S)
           P == Ascending(S)
           es == EntriesFrom(rows)
<1>1. L \in Nat /\ DOMAIN stored = 1..L /\ \A i \in rows : stored[i] \in Row /\ i \in 1..L
  OBVIOUS
<1>2. S \in SUBSET Nat /\ IsFiniteSet(S)
  <2> HIDE DEF L
  <2>1. IsFiniteSet(1..(3 * L))
    BY <1>1, FS_Interval
  <2> QED BY <1>1, <2>1, FS_Subset
<1>3. /\ N \in Nat /\ P \in [1..N -> S]
      /\ \A p \in S : \E n \in 1..N : P[n] = p
      /\ \A m, n \in 1..N : m < n <=> P[m] < P[n]
  <2> HIDE DEF S
  <2> QED BY <1>2, AscendingNumbers
<1>4. Places(rows) = P
  BY DEF Places
<1>5. es = [n \in DOMAIN P |-> Blocks(stored[RowAt(P[n])])[BlockAt(P[n])]]
  BY DEF EntriesFrom
<1> HIDE DEF es, P, N
<1>6. \A p \in S : /\ p \in Nat \ {0} /\ RowAt(p) \in rows
                   /\ BlockAt(p) \in DOMAIN Blocks(stored[RowAt(p)])
  OBVIOUS
<1>7. \A i \in rows : \A k \in DOMAIN Blocks(stored[i]) : 3 * (i - 1) + k \in S
  <2> SUFFICES ASSUME NEW i \in rows, NEW k \in DOMAIN Blocks(stored[i])
               PROVE  3 * (i - 1) + k \in S
    OBVIOUS
  <2>1. i \in 1..L /\ i \in Nat \ {0} /\ k \in 1..3
    BY <1>1, BlocksOf
  <2>2. RowAt(3 * (i - 1) + k) = i /\ BlockAt(3 * (i - 1) + k) = k
    BY <2>1, PlaceOf
  <2>3. 3 * (i - 1) + k \in 1..(3 * L)
    <3> HIDE DEF L
    <3> QED BY <1>1, <2>1
  <2> QED BY <2>2, <2>3
<1> HIDE DEF S
<1>8. \A n \in 1..N : P[n] \in S
  BY <1>3
<1>9. es \in Seq(Entry)
  <2>1. \A n \in 1..N : Blocks(stored[RowAt(P[n])])[BlockAt(P[n])] \in Entry
    BY <1>1, <1>6, <1>8, BlocksOf
  <2> QED BY <1>3, <1>5, <2>1
<1>10. DOMAIN es = 1..N /\ DOMAIN P = 1..N
  BY <1>3, <1>5
<1>11. \A n \in 1..N : es[n] = Blocks(stored[RowAt(P[n])])[BlockAt(P[n])]
  BY <1>5, <1>10
<1>12. \A i \in rows : \A k \in DOMAIN Blocks(stored[i]) : \E n \in 1..N : P[n] = 3 * (i - 1) + k
  BY <1>3, <1>7
<1>13. \A n \in 1..N : /\ P[n] \in Nat \ {0} /\ RowAt(P[n]) \in rows
                       /\ BlockAt(P[n]) \in DOMAIN Blocks(stored[RowAt(P[n])])
  BY <1>6, <1>8
<1> QED BY <1>3, <1>4, <1>9, <1>10, <1>11, <1>12, <1>13, Zenon DEF es

\* So a row shows, and only approvals show as pending.
LEMMA EntriesTell ==
  ASSUME stored \in Seq(Row), NEW rows \in SUBSET DOMAIN stored
  PROVE  /\ \A i \in rows : In(EntriesFrom(rows), Face(stored[i]).kind, stored[i].of)
         /\ \A c : In(EntriesFrom(rows), "pending", c) =>
              \E i \in rows : stored[i].kind = "approval" /\ stored[i].of = c
<1> DEFINE es == EntriesFrom(rows)
           P == Places(rows)
<1>1. \A i \in rows : stored[i] \in Row /\ i \in Nat \ {0}
  OBVIOUS
<1>2. /\ DOMAIN es = DOMAIN P
      /\ \A n \in DOMAIN P :
           /\ RowAt(P[n]) \in rows /\ BlockAt(P[n]) \in DOMAIN Blocks(stored[RowAt(P[n])])
           /\ es[n] = Blocks(stored[RowAt(P[n])])[BlockAt(P[n])]
      /\ \A i \in rows : \A k \in DOMAIN Blocks(stored[i]) :
           \E n \in DOMAIN P : P[n] = 3 * (i - 1) + k
  BY EntriesOf, Zenon
<1> HIDE DEF es, P
<1>3. ASSUME NEW i \in rows PROVE In(es, Face(stored[i]).kind, stored[i].of)
  <2> DEFINE k == Len(Blocks(stored[i]))
  <2>1. k \in 1..3 /\ k \in DOMAIN Blocks(stored[i]) /\ Blocks(stored[i])[k] = Face(stored[i])
    <3>1. stored[i] \in Row
      BY <1>1
    <3>2. /\ k \in 1..3 /\ DOMAIN Blocks(stored[i]) = 1..k
          /\ Blocks(stored[i])[k] = Face(stored[i])
      BY <3>1, BlocksOf
    <3> HIDE DEF k
    <3> QED BY <3>2
  <2>2. PICK n \in DOMAIN P : P[n] = 3 * (i - 1) + k
    BY <1>2, <2>1
  <2>3. RowAt(P[n]) = i /\ BlockAt(P[n]) = k
    BY <1>1, <2>1, <2>2, PlaceOf
  <2>4. es[n] = Face(stored[i]) /\ n \in DOMAIN es
    BY <1>2, <2>1, <2>3
  <2>5. Face(stored[i]) = [kind |-> Face(stored[i]).kind, of |-> stored[i].of]
    BY DEF Face
  <2> QED BY <2>4, <2>5 DEF In
<1>4. ASSUME NEW c, In(es, "pending", c)
      PROVE  \E i \in rows : stored[i].kind = "approval" /\ stored[i].of = c
  <2>1. PICK n \in DOMAIN es : es[n] = [kind |-> "pending", of |-> c]
    BY <1>4 DEF In
  <2> DEFINE i == RowAt(P[n])
             k == BlockAt(P[n])
  <2>2. /\ i \in rows /\ k \in DOMAIN Blocks(stored[i])
        /\ Blocks(stored[i])[k].kind = "pending" /\ Blocks(stored[i])[k].of = c
    BY <1>2, <2>1
  <2>3. stored[i] \in Row
    BY <1>1, <2>2
  <2>4. stored[i].kind = "approval" /\ Blocks(stored[i])[k].of = stored[i].of
    BY <2>2, <2>3, BlocksOf
  <2> QED BY <2>2, <2>4
<1> QED BY <1>3, <1>4 DEF es

\* The rows of a kind, listed again from the first.
LEMMA KeptRows ==
  ASSUME stored \in Seq(Row), NEW rows \in SUBSET DOMAIN stored
  PROVE  LET kept == Ascending(rows)
             listed == [n \in DOMAIN kept |-> stored[kept[n]]]
         IN  listed \in Seq(Row) /\ \A n \in DOMAIN listed : \E i \in rows : listed[n] = stored[i]
<1> DEFINE kept == Ascending(rows)
           listed == [n \in DOMAIN kept |-> stored[kept[n]]]
           N == Cardinality(rows)
<1>1. rows \in SUBSET Nat /\ IsFiniteSet(rows)
  <2>1. DOMAIN stored = 1..Len(stored) /\ Len(stored) \in Nat
    OBVIOUS
  <2>2. IsFiniteSet(DOMAIN stored)
    BY <2>1, FS_Interval
  <2> QED BY <2>1, <2>2, FS_Subset
<1>2. N \in Nat /\ kept \in [1..N -> rows]
  BY <1>1, AscendingNumbers
<1> HIDE DEF kept, N
<1>3. \A n \in 1..N : kept[n] \in rows /\ stored[kept[n]] \in Row
  BY <1>2
<1>4. DOMAIN listed = 1..N /\ \A n \in 1..N : listed[n] = stored[kept[n]]
  BY <1>2
<1>5. listed \in Seq(Row)
  BY <1>2, <1>3
<1>6. \A n \in DOMAIN listed : \E i \in rows : listed[n] = stored[i]
  BY <1>3, <1>4
<1> QED BY <1>5, <1>6 DEF kept

-----------------------------------------------------------------------------
(***************************************************************************)
(* Types.                                                                  *)
(***************************************************************************)

LEMMA RecentRows ==
  \A kinds : Recent(kinds) \subseteq DOMAIN stored
BY DEF Recent

LEMMA ReturnedRows ==
  /\ Returned \subseteq DOMAIN stored
  /\ \A i \in Returned : stored[i].kind = "approval" => status[stored[i].of] = "PENDING"
BY DEF Returned, Recent

LEMMA BroadcastTyped ==
  ASSUME queue \in Seq(Event), NEW c \in Call,
         NEW kind \in {"requested", "decided", "pending", "granted", "rejected", "result"},
         Broadcast(kind, c)
  PROVE  queue' \in Seq(Event)
<1>1. [kind |-> kind, of |-> c] \in Event
  BY DEF Event
<1> QED BY <1>1, Appended DEF Broadcast

LEMMA StoreTyped ==
  ASSUME stored \in Seq(Row), NEW kind, NEW of, [kind |-> kind, of |-> of] \in Row, Store(kind, of)
  PROVE  stored' \in Seq(Row)
BY Appended DEF Store

LEMMA AtTyped ==
  ASSUME stage \in [Call -> Stage], NEW c \in Call, NEW from, NEW to \in Stage, At(c, from, to)
  PROVE  stage' \in [Call -> Stage]
BY DEF At

LEMMA WrongTyped ==
  ASSUME TypeOK, NEW rows \in SUBSET Row
  PROVE  WrongIn(rows) \subseteq Row
<1>1. \A i \in Returned : stored[i] \in Row
  BY ReturnedRows DEF TypeOK
<1>2. \A t \in Turn : [kind |-> "user", of |-> t] \in Row
  BY DEF Row, Message
<1> QED BY <1>1, <1>2 DEF WrongIn, ToShow

LEMMA ForgetTyped ==
  ASSUME TypeOK, NEW g \in Get, Forget(g)
  PROVE  /\ get' \in [Get -> {"none", "sent", "answered"}]
         /\ snapshot' \in [Get -> Seq(Entry)]
         /\ read' \in [Get -> SUBSET Row]
         /\ disturbed' \in BOOLEAN
<1>1. <<>> \in Seq(Entry)
  OBVIOUS
<1> QED BY <1>1 DEF Forget, TypeOK, Late

LEMMA TroubleTyped ==
  ASSUME troubles \in 0..MaxTroubles, Trouble
  PROVE  troubles' \in 0..MaxTroubles
BY BoundsAssumption DEF Trouble

LEMMA TypeStep ==
  ASSUME TypeOK, [Next]_vars
  PROVE  TypeOK'
<1> USE DEF backend, connection, requests, history, TypeOK
<1>1. CASE UNCHANGED vars
  BY <1>1 DEF vars
<1> Row \subseteq [kind : {"user", "model", "tool", "approval"}, of : Turn \cup Call]
  BY DEF Row, Message
<1> /\ \A kind \in {"user", "model"}, t \in Turn : [kind |-> kind, of |-> t] \in Row
         /\ [kind |-> kind, of |-> t] \in Entry
    /\ \A kind \in {"tool", "approval"}, c \in Call : [kind |-> kind, of |-> c] \in Row
  BY DEF Row, Entry, Message
<1> <<>> \in Seq(Entry) /\ <<>> \in Seq(Event)
  OBVIOUS
<1>2. ASSUME NEW t \in Turn, BeginTurn(t) PROVE TypeOK'
  <2>1. stored' \in Seq(Row)
    BY <1>2, StoreTyped DEF BeginTurn
  <2> QED BY <1>2, <2>1 DEF BeginTurn
<1>3. ASSUME NEW t \in Turn, EndTurn(t) PROVE TypeOK'
  <2>1. stored' \in Seq(Row)
    BY <1>3, StoreTyped DEF EndTurn
  <2> QED BY <1>3, <2>1 DEF EndTurn
<1>4. ASSUME NEW t \in Turn, Send(t) PROVE TypeOK'
  BY <1>4, Appended DEF Send
<1>5. ASSUME NEW t \in Turn, PostReturns(t) PROVE TypeOK'
  BY <1>5, Appended DEF PostReturns
<1>6. ASSUME NEW t \in Turn, NEW c \in Call, RequestTool(t, c) PROVE TypeOK'
  <2>1. queue' \in Seq(Event) /\ stage' \in [Call -> Stage]
    BY <1>6, BroadcastTyped, AtTyped DEF RequestTool, Stage
  <2> QED BY <1>6, <2>1 DEF RequestTool
<1>7. ASSUME NEW c \in Call, Decide(c) PROVE TypeOK'
  <2>1. queue' \in Seq(Event) /\ stage' \in [Call -> Stage]
    BY <1>7, BroadcastTyped, AtTyped DEF Decide, Stage
  <2> QED BY <1>7, <2>1 DEF Decide
<1>8. ASSUME NEW c \in Call, PolicyError(c) PROVE TypeOK'
  BY <1>8, AtTyped DEF PolicyError, Stage
<1>9. ASSUME NEW c \in Call, PersistApprovalRequest(c) PROVE TypeOK'
  <2>1. stored' \in Seq(Row) /\ stage' \in [Call -> Stage]
    BY <1>9, StoreTyped, AtTyped DEF PersistApprovalRequest, Stage
  <2> QED BY <1>9, <2>1 DEF PersistApprovalRequest
<1>10. ASSUME NEW c \in Call, AnnounceApproval(c) PROVE TypeOK'
  <2>1. queue' \in Seq(Event) /\ stage' \in [Call -> Stage]
    BY <1>10, BroadcastTyped, AtTyped DEF AnnounceApproval, Stage
  <2> QED BY <1>10, <2>1 DEF AnnounceApproval
<1>11. ASSUME NEW c \in Call, TryDecide(c) PROVE TypeOK'
  BY <1>11 DEF TryDecide
<1>12. ASSUME NEW c \in Call, Resume(c) PROVE TypeOK'
  <2>1. queue' \in Seq(Event) /\ stage' \in [Call -> Stage]
    BY <1>12, BroadcastTyped, AtTyped DEF Resume, Stage
  <2> QED BY <1>12, <2>1 DEF Resume
<1>13. ASSUME NEW c \in Call, PersistToolExecution(c) PROVE TypeOK'
  <2>1. stored' \in Seq(Row) /\ stage' \in [Call -> Stage]
    BY <1>13, StoreTyped, AtTyped DEF PersistToolExecution, Stage
  <2> QED BY <1>13, <2>1 DEF PersistToolExecution
<1>14. ASSUME NEW c \in Call, Report(c) PROVE TypeOK'
  <2>1. queue' \in Seq(Event) /\ stage' \in [Call -> Stage]
    BY <1>14, BroadcastTyped, AtTyped DEF Report, Stage
  <2> QED BY <1>14, <2>1 DEF Report
<1>15. ASSUME NEW g \in Get, ReadState(g) PROVE TypeOK'
  <2>1. EntriesFrom(Returned) \in Seq(Entry)
    BY EntriesOf, ReturnedRows
  <2>2. {stored[i] : i \in Returned} \subseteq Row
    BY ReturnedRows
  <2>3. /\ get' \in [Get -> {"none", "sent", "answered"}]
        /\ snapshot' \in [Get -> Seq(Entry)]
    BY <1>15, <2>1 DEF ReadState
  <2>4. read' \in [Get -> SUBSET Row]
    BY <1>15, <2>2 DEF ReadState
  <2> QED BY <1>15, <2>3, <2>4 DEF ReadState
<1>16. ASSUME NEW g \in Get, Reconcile(g) PROVE TypeOK'
  <2>1. transcript' \in Seq(Entry) /\ read[g] \in SUBSET Row
    BY <1>16 DEF Reconcile
  <2>2. missed' \subseteq Row
    BY <1>16, <2>1, WrongTyped DEF Reconcile
  <2>3. Forget(g)
    BY <1>16 DEF Reconcile
  <2>4. /\ get' \in [Get -> {"none", "sent", "answered"}]
        /\ snapshot' \in [Get -> Seq(Entry)]
        /\ read' \in [Get -> SUBSET Row]
        /\ disturbed' \in BOOLEAN
    BY <2>3, ForgetTyped
  <2> QED BY <1>16, <2>1, <2>2, <2>3, <2>4 DEF Reconcile, Forget
<1>17. ASSUME NEW g \in Get, GetFails(g) PROVE TypeOK'
  <2>1. ShownIn(transcript) \in SUBSET Row
    BY DEF ShownIn
  <2>2. missed' \subseteq Row
    BY <1>17, <2>1, WrongTyped DEF GetFails
  <2>3. Forget(g)
    BY <1>17 DEF GetFails
  <2>4. /\ get' \in [Get -> {"none", "sent", "answered"}]
        /\ snapshot' \in [Get -> Seq(Entry)]
        /\ read' \in [Get -> SUBSET Row]
        /\ disturbed' \in BOOLEAN
    BY <2>3, ForgetTyped
  <2>5. troubles' \in 0..MaxTroubles
    BY <1>17, TroubleTyped DEF GetFails
  <2> QED BY <1>17, <2>2, <2>3, <2>4, <2>5 DEF GetFails, Forget
<1>18. CASE Connect \/ Accept \/ Open \/ Break
  <2>1. CASE Connect \/ Accept
    BY <2>1 DEF Connect, Accept
  <2>2. CASE Open
    <3>1. get' \in [Get -> {"none", "sent", "answered"}]
      <4>1. get' = [get EXCEPT ![reconnect] = "sent"] \/ get' = get
        BY <2>2, Zenon DEF Open, Fetch
      <4> QED BY <4>1
    <3>2. missed' \subseteq Row
      <4>1. WrongIn(ShownIn(transcript)) \subseteq Row
        BY WrongTyped DEF ShownIn
      <4>2. missed' = missed \/ missed' = WrongIn(ShownIn(transcript))
        BY <2>2 DEF Open
      <4> QED BY <4>1, <4>2
    <3>3. disturbed' \in BOOLEAN
      BY <2>2 DEF Open, Late
    <3> QED BY <2>2, <3>1, <3>2, <3>3 DEF Open
  <2>3. CASE Break
    <3>1. troubles' \in 0..MaxTroubles
      BY <2>3, TroubleTyped DEF Break
    <3> QED BY <2>3, <3>1 DEF Break
  <2> QED BY <1>18, <2>1, <2>2, <2>3
<1>19. CASE Mount \/ Unmount
  <2>1. CASE Mount
    BY <2>1 DEF Mount, Fetch
  <2>2. CASE Unmount
    <3>1. /\ get' \in [Get -> {"none", "sent", "answered"}]
          /\ post' \in [Turn -> {"none", "sent", "done", "orphaned"}]
          /\ clear' \in {"none", "sent", "deleted", "orphaned"}
      BY <2>2 DEF Unmount
    <3>2. snapshot' \in [Get -> Seq(Entry)] /\ read' \in [Get -> SUBSET Row]
      BY <2>2 DEF Unmount
    <3>3. troubles' \in 0..MaxTroubles
      BY <2>2, TroubleTyped DEF Unmount
    <3> QED BY <2>2, <3>1, <3>2, <3>3 DEF Unmount
  <2> QED BY <1>19, <2>1, <2>2
<1>20. CASE Receive
  <2> DEFINE e == Head(queue)
  <2>1. e \in Event /\ e \in Entry /\ Tail(queue) \in Seq(Event)
    BY <1>20, TailOf DEF Receive, Entry
  <2>2. Append(transcript, e) \in Seq(Entry) /\ (e.kind \in Approval => Upsert(e) \in Seq(Entry))
    BY <2>1, Appended, UpsertIn
  <2> HIDE DEF e
  <2>3. transcript' \in Seq(Entry)
    BY <1>20, <2>1, <2>2, Zenon DEF Receive, e
  <2>4. missed' \subseteq missed
    BY <1>20 DEF Receive
  <2> QED BY <1>20, <2>1, <2>3, <2>4 DEF Receive
<1>21. CASE ClearChat \/ Cleared
  <2>1. CASE ClearChat
    <3>1. troubles' \in 0..MaxTroubles
      BY <2>1, TroubleTyped DEF ClearChat
    <3> QED BY <2>1, <3>1 DEF ClearChat
  <2>2. CASE Cleared
    <3>1. missed' \subseteq Row
      BY <2>2, WrongTyped DEF Cleared
    <3> QED BY <2>2, <3>1 DEF Cleared
  <2> QED BY <1>21, <2>1, <2>2
<1>22. CASE DeleteRows
  <2>1. stored' \in Seq(Row)
    BY <1>22, KeptRows DEF DeleteRows
  <2> QED BY <1>22, <2>1 DEF DeleteRows
<1> QED BY <1>1, <1>2, <1>3, <1>4, <1>5, <1>6, <1>7, <1>8, <1>9, <1>10, <1>11, <1>12, <1>13, <1>14,
           <1>15, <1>16, <1>17, <1>18, <1>19, <1>20, <1>21, <1>22 DEF Next

LEMMA TypeInit == Init => TypeOK
<1> SUFFICES ASSUME Init PROVE TypeOK
  OBVIOUS
<1>1. stored \in Seq(Row) /\ queue \in Seq(Event) /\ transcript \in Seq(Entry)
  BY DEF Init
<1>2. snapshot \in [Get -> Seq(Entry)]
  <2>1. <<>> \in Seq(Entry)
    OBVIOUS
  <2> QED BY <2>1, Zenon DEF Init
<1>3. troubles \in 0..MaxTroubles /\ missed \subseteq Row
  BY BoundsAssumption DEF Init
<1> QED BY <1>1, <1>2, <1>3 DEF Init, TypeOK, Stage

\* The page and what it is made from have the types they are declared with.
THEOREM TranscriptTypes == Spec => []TypeOK
<1>1. Init => TypeOK
  BY TypeInit
<1>2. TypeOK /\ [Next]_vars => TypeOK'
  BY TypeStep
<1> QED BY <1>1, <1>2, PTL DEF Spec

-----------------------------------------------------------------------------
(***************************************************************************)
(* What the backend, the connection and the page know of each other.       *)
(***************************************************************************)

LEMMA Stored ==
  ASSUME stored \in Seq(Row), NEW kind, NEW of, [kind |-> kind, of |-> of] \in Row, Store(kind, of)
  PROVE  /\ DOMAIN stored = 1..Len(stored) /\ Len(stored) \in Nat
         /\ DOMAIN stored' = 1..(Len(stored) + 1)
         /\ \A i \in DOMAIN stored : i \in DOMAIN stored' /\ stored'[i] = stored[i]
         /\ Len(stored) + 1 \in DOMAIN stored'
         /\ stored'[Len(stored) + 1] = [kind |-> kind, of |-> of]
         /\ \A i \in DOMAIN stored' : i \in DOMAIN stored \/ i = Len(stored) + 1
<1> DEFINE row == [kind |-> kind, of |-> of]
           new == Append(stored, row)
<1>1. /\ DOMAIN stored = 1..Len(stored) /\ DOMAIN new = 1..(Len(stored) + 1)
      /\ Len(stored) \in Nat
      /\ \A i \in 1..Len(stored) : new[i] = stored[i]
      /\ new[Len(stored) + 1] = row
  BY Appended
<1>2. stored' = new
  BY DEF Store
<1> HIDE DEF new
<1> QED BY <1>1, <1>2

LEMMA NewRow ==
  ASSUME stored \in Seq(Row), NEW kind, NEW of, [kind |-> kind, of |-> of] \in Row, Store(kind, of)
  PROVE  \A i \in DOMAIN stored' :
           stored'[i] = [kind |-> kind, of |-> of]
             \/ (i \in DOMAIN stored /\ stored'[i] = stored[i])
BY Stored

LEMMA RowsLeft ==
  ASSUME TypeOK, DeleteRows
  PROVE  \A n \in DOMAIN stored' :
           stored'[n].kind = "approval" /\ \E i \in DOMAIN stored : stored'[n] = stored[i]
<1> DEFINE rows == {i \in DOMAIN stored : stored[i].kind = "approval"}
<1>1. rows \in SUBSET DOMAIN stored /\ stored \in Seq(Row)
  BY DEF TypeOK
<1>2. stored' = [n \in DOMAIN Ascending(rows) |-> stored[Ascending(rows)[n]]]
  BY DEF DeleteRows
<1>3. \A i \in rows : i \in DOMAIN stored /\ stored[i].kind = "approval"
  OBVIOUS
<1> HIDE DEF rows
<1>4. \A n \in DOMAIN stored' : \E i \in rows : stored'[n] = stored[i]
  BY <1>1, <1>2, KeptRows
<1> QED BY <1>3, <1>4

LEMMA RowKinds ==
  \A row \in Row : /\ row.kind \in {"user", "model", "tool", "approval"}
                   /\ row.kind \in {"user", "model"} => row.of \in Turn
                   /\ row.kind \in {"tool", "approval"} => row.of \in Call
BY DEF Row, Message

LEMMA RowTyped ==
  /\ \A kind \in {"user", "model"}, t \in Turn : [kind |-> kind, of |-> t] \in Row
  /\ \A kind \in {"tool", "approval"}, c \in Call : [kind |-> kind, of |-> c] \in Row
BY DEF Row, Message

LEMMA BackedStep ==
  ASSUME TypeOK, Backed, [Next]_vars
  PROVE  Backed'
<1> USE DEF backend, connection, requests, history
<1>0. \A i \in DOMAIN stored : stored[i] \in Row
  BY DEF TypeOK
<1>1. ASSUME UNCHANGED backend, \A t \in Turn : post'[t] = "none" => post[t] = "none"
      PROVE  Backed'
  BY <1>1 DEF Backed, Active
<1>2. ASSUME NEW t \in Turn, BeginTurn(t) PROVE Backed'
  <2>1. Store("user", t) /\ [kind |-> "user", of |-> t] \in Row
    BY <1>2, RowTyped DEF BeginTurn
  <2>2. /\ turn[t] = "none" /\ turn' = [turn EXCEPT ![t] = "running"] /\ post[t] # "none"
        /\ UNCHANGED <<maker, stage, status, post>>
    BY <1>2 DEF BeginTurn
  <2>3. turn'[t] = "running" /\ \A u \in Turn : u # t => turn'[u] = turn[u]
    BY <2>2 DEF TypeOK
  <2>4. \A i \in DOMAIN stored : Grounded(stored[i], turn', stage')
    BY <1>0, <2>2, <2>3, RowKinds DEF Backed, Grounded
  <2>5. \A i \in DOMAIN stored' : Grounded(stored'[i], turn', stage')
    <3>1. Grounded([kind |-> "user", of |-> t], turn', stage')
      BY <2>3 DEF Grounded
    <3>2. stored \in Seq(Row)
      BY DEF TypeOK
    <3> QED BY <2>1, <2>4, <3>1, <3>2, NewRow
  <2>6. \A c \in Call : maker[c] \in Turn /\ turn[maker[c]] = "running"
          => turn'[maker[c]] = "running"
    BY <2>3
  <2>7. \A u \in Turn : turn'[u] # "none" => post[u] # "none"
    BY <2>2, <2>3 DEF Backed
  <2> QED BY <2>2, <2>5, <2>6, <2>7 DEF Backed, Active
<1>3. ASSUME NEW t \in Turn, EndTurn(t) PROVE Backed'
  <2>1. /\ turn[t] = "running" /\ ~Executes(t)
        /\ turn' \in {[turn EXCEPT ![t] = "answered"], [turn EXCEPT ![t] = "failed"]}
        /\ UNCHANGED <<maker, stage, status, post>>
    BY <1>3 DEF EndTurn
  <2>2. /\ turn'[t] \in {"answered", "failed"} /\ \A u \in Turn : u # t => turn'[u] = turn[u]
    BY <2>1 DEF TypeOK
  <2>3. \A c \in Call : Active(c) => maker[c] # t
    BY <2>1 DEF Active, Executes, Backed
  <2>4. \A i \in DOMAIN stored : Grounded(stored[i], turn', stage')
    BY <1>0, <2>1, <2>2, RowKinds DEF Backed, Grounded
  <2>5. \A i \in DOMAIN stored' : Grounded(stored'[i], turn', stage')
    <3>1. CASE turn' = [turn EXCEPT ![t] = "answered"] /\ Store("model", t)
      <4>1. [kind |-> "model", of |-> t] \in Row
        BY RowTyped
      <4>2. turn'[t] = "answered"
        BY <3>1 DEF TypeOK
      <4>3. Grounded([kind |-> "model", of |-> t], turn', stage')
        BY <4>2 DEF Grounded
      <4>4. \A i \in DOMAIN stored' :
              stored'[i] = [kind |-> "model", of |-> t]
                \/ (i \in DOMAIN stored /\ stored'[i] = stored[i])
        BY <3>1, <4>1, NewRow DEF TypeOK
      <4> QED BY <2>4, <4>3, <4>4
    <3>2. CASE UNCHANGED stored
      BY <2>4, <3>2
    <3> QED BY <1>3, <3>1, <3>2 DEF EndTurn
  <2> QED BY <2>1, <2>2, <2>3, <2>5 DEF Backed, Active
<1>4. ASSUME NEW t \in Turn, NEW c \in Call, RequestTool(t, c) PROVE Backed'
  <2>1. /\ maker'[c] = t /\ \A d \in Call : d # c => maker'[d] = maker[d] /\ stage'[d] = stage[d]
        /\ turn[t] = "running" /\ UNCHANGED <<turn, status, post, stored>>
        /\ stage[c] = "idle" /\ stage'[c] = "requested"
    BY <1>4 DEF RequestTool, At, TypeOK
  <2> QED BY <1>0, <2>1, RowKinds DEF Backed, Active, Grounded
<1>5. ASSUME NEW c \in Call, NEW from \in Stage \ {"idle", "done", "asked", "announced"},
             NEW to \in Stage \ {"idle"}, At(c, from, to),
             from = "recorded" => to = "done",
             UNCHANGED <<turn, maker, status, post, stored>>
      PROVE  Backed'
  <2>1. /\ stage[c] = from /\ stage'[c] = to /\ \A d \in Call : d # c => stage'[d] = stage[d]
    BY <1>5 DEF At, TypeOK
  <2> QED BY <1>0, <1>5, <2>1, RowKinds DEF Backed, Active, Grounded
<1>6. ASSUME NEW c \in Call, PersistApprovalRequest(c) PROVE Backed'
  <2>1. Store("approval", c) /\ [kind |-> "approval", of |-> c] \in Row
    BY <1>6, RowTyped DEF PersistApprovalRequest
  <2>2. /\ stage[c] = "asking" /\ stage'[c] = "asked" /\ status'[c] = "PENDING"
        /\ \A d \in Call : d # c => stage'[d] = stage[d] /\ status'[d] = status[d]
        /\ UNCHANGED <<turn, maker, post>>
    BY <1>6 DEF PersistApprovalRequest, At, TypeOK
  <2>3. \A i \in DOMAIN stored : Grounded(stored[i], turn', stage')
    BY <1>0, <2>2, RowKinds DEF Backed, Grounded
  <2>4. \A i \in DOMAIN stored' : Grounded(stored'[i], turn', stage')
    <3>1. Grounded([kind |-> "approval", of |-> c], turn', stage')
      BY DEF Grounded
    <3>2. stored \in Seq(Row)
      BY DEF TypeOK
    <3> QED BY <2>1, <2>3, <3>1, <3>2, NewRow
  <2> QED BY <2>2, <2>4 DEF Backed, Active
<1>7. ASSUME NEW c \in Call, PersistToolExecution(c) PROVE Backed'
  <2>1. Store("tool", c) /\ [kind |-> "tool", of |-> c] \in Row
    BY <1>7, RowTyped DEF PersistToolExecution
  <2>2. /\ stage[c] = "recording" /\ stage'[c] = "recorded"
        /\ \A d \in Call : d # c => stage'[d] = stage[d]
        /\ UNCHANGED <<turn, maker, post, status>>
    BY <1>7 DEF PersistToolExecution, At, TypeOK
  <2>3. \A i \in DOMAIN stored : Grounded(stored[i], turn', stage')
    BY <1>0, <2>2, RowKinds DEF Backed, Grounded
  <2>4. \A i \in DOMAIN stored' : Grounded(stored'[i], turn', stage')
    <3>1. Grounded([kind |-> "tool", of |-> c], turn', stage')
      BY <2>2 DEF Grounded
    <3>2. stored \in Seq(Row)
      BY DEF TypeOK
    <3> QED BY <2>1, <2>3, <3>1, <3>2, NewRow
  <2> QED BY <2>2, <2>4 DEF Backed, Active
<1>8. ASSUME NEW c \in Call, TryDecide(c) PROVE Backed'
  <2>1. /\ status'[c] # "PENDING" /\ \A d \in Call : d # c => status'[d] = status[d]
        /\ UNCHANGED <<stored, turn, maker, stage, post>>
    BY <1>8 DEF TryDecide, TypeOK
  <2> QED BY <2>1 DEF Backed, Active
<1>9. ASSUME NEW c \in Call, AnnounceApproval(c) \/ Resume(c) PROVE Backed'
  <2>1. /\ stage[c] \in {"asked", "announced"} /\ stage'[c] \in {"announced", "recording"}
        /\ stage'[c] = "recording" => status[c] # "PENDING"
        /\ \A d \in Call : d # c => stage'[d] = stage[d]
        /\ UNCHANGED <<stored, turn, maker, status, post>>
    BY <1>9 DEF AnnounceApproval, Resume, At, TypeOK
  <2> QED BY <1>0, <2>1, RowKinds DEF Backed, Active, Grounded
<1>10. CASE DeleteRows
  <2>1. \A n \in DOMAIN stored' : \E i \in DOMAIN stored : stored'[n] = stored[i]
    BY <1>10, RowsLeft
  <2>2. UNCHANGED <<turn, maker, stage, status, post>>
    BY <1>10 DEF DeleteRows
  <2> QED BY <2>1, <2>2 DEF Backed, Active
<1>11. CASE Unmount
  BY <1>1, <1>11 DEF Unmount, TypeOK
<1>12. ASSUME NEW t \in Turn, Send(t) \/ PostReturns(t) PROVE Backed'
  BY <1>1, <1>12 DEF Send, PostReturns, TypeOK
<1>13. ASSUME NEW c \in Call, Decide(c) \/ PolicyError(c) \/ Report(c) PROVE Backed'
  <2>1. CASE Decide(c)
    BY <1>5, <2>1 DEF Decide, Stage
  <2>2. CASE PolicyError(c)
    BY <1>5, <2>2 DEF PolicyError, Stage
  <2>3. CASE Report(c)
    BY <1>5, <2>3 DEF Report, Stage
  <2> QED BY <1>13, <2>1, <2>2, <2>3
<1>14. ASSUME NEW g \in Get, ReadState(g) \/ Reconcile(g) \/ GetFails(g) PROVE Backed'
  BY <1>1, <1>14 DEF ReadState, Reconcile, GetFails, Forget
<1>15. CASE Connect \/ Accept \/ Open \/ Break \/ Mount
  BY <1>1, <1>15 DEF Connect, Accept, Open, Break, Mount
<1>16. CASE Receive \/ ClearChat \/ Cleared \/ UNCHANGED vars
  BY <1>1, <1>16 DEF Receive, ClearChat, Cleared, vars
<1> QED BY <1>2, <1>3, <1>4, <1>6, <1>7, <1>8, <1>9, <1>10, <1>11, <1>12, <1>13, <1>14, <1>15, <1>16
        DEF Next

LEMMA PagedStep ==
  ASSUME TypeOK, Paged, [Next]_vars
  PROVE  Paged'
<1> USE DEF backend, connection, requests, history
<1>1. ASSUME UNCHANGED <<socket, hasConnectedBefore, mounted, get, clear, post>>,
             socket \in {"closed", "connecting"} => UNCHANGED queue,
             \A t \in Turn : turn[t] \in {"answered", "failed"} => turn'[t] = turn[t]
      PROVE  Paged'
  BY <1>1 DEF Paged
<1>2. ASSUME UNCHANGED <<queue, socket, hasConnectedBefore, turn, get, clear, mounted>>,
             NEW t \in Turn, Send(t) \/ PostReturns(t)
      PROVE  Paged'
  <2>1. \A u \in Turn : u # t => post'[u] = post[u]
    BY <1>2 DEF Send, PostReturns, TypeOK
  <2>2. CASE Send(t)
    <3>1. mounted /\ \A u \in Turn : post[u] # "sent"
      BY <2>2 DEF Send, sending
    <3>2. post'[t] = "sent"
      BY <2>2 DEF Send, TypeOK
    <3> QED BY <1>2, <2>1, <3>1, <3>2 DEF Paged
  <2>3. CASE PostReturns(t)
    <3>1. post'[t] = "done" /\ turn[t] \in {"answered", "failed"}
      BY <2>3 DEF PostReturns, TypeOK
    <3> QED BY <1>2, <2>1, <3>1 DEF Paged
  <2> QED BY <1>2, <2>2, <2>3
<1>3. ASSUME NEW t \in Turn, BeginTurn(t) \/ EndTurn(t) PROVE Paged'
  BY <1>1, <1>3 DEF BeginTurn, EndTurn, TypeOK
<1>4. ASSUME NEW t \in Turn, Send(t) \/ PostReturns(t) PROVE Paged'
  BY <1>2, <1>4 DEF Send, PostReturns
<1>5. ASSUME NEW kind, NEW c, Broadcast(kind, c),
             UNCHANGED <<socket, hasConnectedBefore, mounted, get, clear, post, turn>>
      PROVE  Paged'
  BY <1>1, <1>5 DEF Broadcast
<1>6. ASSUME NEW t \in Turn, NEW c \in Call, RequestTool(t, c) PROVE Paged'
  BY <1>5, <1>6 DEF RequestTool
<1>7. ASSUME NEW c \in Call, Decide(c) \/ AnnounceApproval(c) \/ Resume(c) \/ Report(c) PROVE Paged'
  BY <1>5, <1>7 DEF Decide, AnnounceApproval, Resume, Report
<1>8. ASSUME NEW c \in Call,
             PolicyError(c) \/ PersistApprovalRequest(c) \/ TryDecide(c) \/ PersistToolExecution(c)
      PROVE  Paged'
  BY <1>1, <1>8 DEF PolicyError, PersistApprovalRequest, TryDecide, PersistToolExecution
<1>9. ASSUME NEW g \in Get, ReadState(g) \/ Reconcile(g) \/ GetFails(g) PROVE Paged'
  <2>1. /\ mounted
        /\ UNCHANGED <<socket, hasConnectedBefore, queue, mounted, clear, post, turn>>
    BY <1>9 DEF ReadState, Reconcile, GetFails, Forget, Paged
  <2> QED BY <2>1 DEF Paged
<1>10. CASE Connect \/ Accept
  BY <1>10 DEF Connect, Accept, Paged
<1>11. CASE Open
  BY <1>11 DEF Open, Paged
<1>12. CASE Break
  BY <1>12 DEF Break, Paged
<1>13. CASE Mount
  BY <1>13 DEF Mount, Paged
<1>14. CASE Unmount
  <2>1. \A t \in Turn : post'[t] # "sent" /\ (post'[t] = "done" => post[t] = "done")
    BY <1>14 DEF Unmount, TypeOK
  <2>2. clear' \notin {"sent", "deleted"}
    BY <1>14 DEF Unmount
  <2>3. (\A g \in Get : get'[g] = "none") /\ UNCHANGED <<socket, queue, hasConnectedBefore, turn>>
    BY <1>14 DEF Unmount
  <2> QED BY <2>1, <2>2, <2>3 DEF Paged
<1>15. CASE Receive
  BY <1>15 DEF Receive, Paged
<1>16. CASE ClearChat \/ DeleteRows \/ Cleared
  BY <1>16 DEF ClearChat, DeleteRows, Cleared, Paged
<1>17. CASE UNCHANGED vars
  BY <1>17 DEF vars, Paged
<1> QED BY <1>3, <1>4, <1>6, <1>7, <1>8, <1>9, <1>10, <1>11, <1>12, <1>13, <1>14, <1>15, <1>16,
           <1>17
        DEF Next

\* An event follows those that are on their way.
LEMMA Sent ==
  ASSUME queue \in Seq(Event), NEW c \in Call,
         NEW kind \in {"requested", "decided", "pending", "granted", "rejected", "result"},
         Broadcast(kind, c)
  PROVE  \/ /\ socket \in {"accepted", "open"}
            /\ Len(queue) \in Nat /\ DOMAIN queue = 1..Len(queue)
            /\ DOMAIN queue' = 1..(Len(queue) + 1)
            /\ \A i \in DOMAIN queue : queue'[i] = queue[i]
            /\ queue'[Len(queue) + 1] = [kind |-> kind, of |-> c]
         \/ socket \notin {"accepted", "open"} /\ queue' = queue
<1> DEFINE new == Append(queue, [kind |-> kind, of |-> c])
<1>1. [kind |-> kind, of |-> c] \in Event
  BY DEF Event
<1>2. /\ Len(queue) \in Nat /\ DOMAIN queue = 1..Len(queue)
      /\ DOMAIN new = 1..(Len(queue) + 1)
      /\ \A i \in 1..Len(queue) : new[i] = queue[i]
      /\ new[Len(queue) + 1] = [kind |-> kind, of |-> c]
  BY <1>1, Appended
<1>3. queue' = IF socket \in {"accepted", "open"} THEN new ELSE queue
  BY DEF Broadcast
<1> HIDE DEF new
<1> QED BY <1>2, <1>3

LEMMA QueueOfCalls ==
  ASSUME TypeOK
  PROVE  \A i \in DOMAIN queue : queue[i] \in Event /\ queue[i].of \in Call
<1>1. queue \in Seq(Event)
  BY DEF TypeOK
<1>2. \A i \in DOMAIN queue : queue[i] \in Event
  BY <1>1
<1> QED BY <1>2 DEF Event

LEMMA AnnouncedStep ==
  ASSUME TypeOK, Backed, Paged, Announced, [Next]_vars
  PROVE  Announced'
<1> USE DEF backend, connection, requests, history
<1>1. ASSUME UNCHANGED queue,
             \A c \in Call : stage[c] = "announced" => stage'[c] = "announced",
             \A c \in Call : stage[c] \in {"recording", "recorded", "done"} =>
               stage'[c] \in {"recording", "recorded", "done"}
      PROVE  Announced'
  <2>1. \A i \in DOMAIN queue : queue[i].of \in Call
    BY QueueOfCalls
  <2> QED BY <1>1, <2>1 DEF Announced
<1>2. ASSUME NEW c \in Call, NEW kind \in {"requested", "decided", "pending", "granted",
               "rejected", "result"},
             Broadcast(kind, c),
             \A d \in Call : d # c => stage'[d] = stage[d],
             kind = "pending" => stage'[c] = "announced",
             kind \in Resolved => stage'[c] = "recording",
             stage[c] = "announced" => stage'[c] = "announced" \/ kind \in Resolved,
             stage[c] \in {"recording", "recorded", "done"} =>
               stage'[c] \in {"recording", "recorded", "done"}
      PROVE  Announced'
  <2>1. \A i \in DOMAIN queue : queue[i].of \in Call
    BY QueueOfCalls
  <2>2. CASE socket \notin {"accepted", "open"}
    <3>1. queue = <<>> /\ queue' = queue
      BY <1>2, <2>2 DEF Broadcast, Paged, TypeOK
    <3> QED BY <3>1 DEF Announced
  <2>3. CASE socket \in {"accepted", "open"}
    <3> DEFINE n == Len(queue) + 1
    <3>1. /\ Len(queue) \in Nat /\ DOMAIN queue = 1..Len(queue)
          /\ DOMAIN queue' = 1..n
          /\ \A i \in DOMAIN queue : queue'[i] = queue[i]
          /\ queue'[n] = [kind |-> kind, of |-> c]
      BY <1>2, <2>3, Sent DEF TypeOK
    <3>2. n \in DOMAIN queue' /\ \A i \in DOMAIN queue : n > i /\ i \in DOMAIN queue'
      BY <3>1
    <3>3. \A i \in DOMAIN queue' : i \in DOMAIN queue \/ i = n
      BY <3>1
    <3> HIDE DEF n
    <3>4. ASSUME NEW i \in DOMAIN queue'
          PROVE  /\ queue'[i].kind = "pending" =>
                      \/ stage'[queue'[i].of] = "announced"
                      \/ \E j \in DOMAIN queue' : j > i /\ queue'[j].of = queue'[i].of
                                                       /\ queue'[j].kind \in Resolved
                 /\ queue'[i].kind \in Resolved
                      => stage'[queue'[i].of] \in {"recording", "recorded", "done"}
      <4>1. CASE i = n
        BY <1>2, <3>1, <4>1 DEF Resolved
      <4>2. CASE i \in DOMAIN queue
        <5>1. queue'[i] = queue[i] /\ queue[i].of \in Call
          BY <2>1, <3>1, <4>2
        <5>2. queue[i].kind \in Resolved
                => stage'[queue[i].of] \in {"recording", "recorded", "done"}
          BY <1>2, <4>2, <5>1 DEF Announced
        <5>3. ASSUME queue[i].kind = "pending"
              PROVE  \/ stage'[queue[i].of] = "announced"
                     \/ \E j \in DOMAIN queue' : j > i /\ queue'[j].of = queue[i].of
                                                      /\ queue'[j].kind \in Resolved
          <6>1. CASE stage[queue[i].of] = "announced"
            BY <1>2, <3>1, <3>2, <4>2, <5>1, <6>1
          <6>2. CASE stage[queue[i].of] # "announced"
            <7>1. PICK j \in DOMAIN queue : j > i /\ queue[j].of = queue[i].of
                    /\ queue[j].kind \in Resolved
              BY <4>2, <5>3, <6>2 DEF Announced
            <7>2. j \in DOMAIN queue' /\ queue'[j] = queue[j]
              BY <3>1, <3>2
            <7> QED BY <7>1, <7>2
          <6> QED BY <6>1, <6>2
        <5> QED BY <5>1, <5>2, <5>3
      <4> QED BY <3>3, <4>1, <4>2
    <3> QED BY <3>4 DEF Announced
  <2> QED BY <2>2, <2>3
<1>3. ASSUME NEW t \in Turn, NEW c \in Call, RequestTool(t, c) PROVE Announced'
  <2>1. /\ stage[c] = "idle" /\ stage'[c] = "requested" /\ Broadcast("requested", c)
        /\ \A d \in Call : d # c => stage'[d] = stage[d]
    BY <1>3 DEF RequestTool, At, TypeOK
  <2> QED BY <1>2, <2>1 DEF Resolved
<1>4. ASSUME NEW c \in Call, Decide(c) PROVE Announced'
  <2>1. /\ stage[c] = "requested" /\ stage'[c] \in {"asking", "recording"}
             /\ Broadcast("decided", c)
        /\ \A d \in Call : d # c => stage'[d] = stage[d]
    BY <1>4 DEF Decide, At, TypeOK
  <2> QED BY <1>2, <2>1 DEF Resolved
<1>5. ASSUME NEW c \in Call, AnnounceApproval(c) PROVE Announced'
  <2>1. /\ stage[c] = "asked" /\ stage'[c] = "announced" /\ Broadcast("pending", c)
        /\ \A d \in Call : d # c => stage'[d] = stage[d]
    BY <1>5 DEF AnnounceApproval, At, TypeOK
  <2> QED BY <1>2, <2>1 DEF Resolved
<1>6. ASSUME NEW c \in Call, Resume(c) PROVE Announced'
  <2> DEFINE kind == IF status[c] = "APPROVED" THEN "granted" ELSE "rejected"
  <2>1. kind \in Resolved
          /\ kind \in {"requested", "decided", "pending", "granted", "rejected", "result"}
    BY DEF Resolved
  <2>2. /\ stage[c] = "announced" /\ stage'[c] = "recording" /\ Broadcast(kind, c)
        /\ \A d \in Call : d # c => stage'[d] = stage[d]
    BY <1>6 DEF Resume, At, TypeOK
  <2>3. kind # "pending"
    OBVIOUS
  <2> HIDE DEF kind
  <2> QED BY <1>2, <2>1, <2>2, <2>3
<1>7. ASSUME NEW c \in Call, Report(c) PROVE Announced'
  <2>1. /\ stage[c] = "recorded" /\ stage'[c] = "done" /\ Broadcast("result", c)
        /\ \A d \in Call : d # c => stage'[d] = stage[d]
    BY <1>7 DEF Report, At, TypeOK
  <2> QED BY <1>2, <2>1 DEF Resolved
<1>8. ASSUME NEW c \in Call,
             PolicyError(c) \/ PersistApprovalRequest(c) \/ TryDecide(c) \/ PersistToolExecution(c)
      PROVE  Announced'
  <2>1. /\ \A d \in Call : d # c => stage'[d] = stage[d]
        /\ UNCHANGED queue
        /\ stage'[c] # stage[c] =>
             \/ stage[c] \notin {"announced", "recording", "recorded", "done"}
             \/ stage[c] = "recording" /\ stage'[c] = "recorded"
    BY <1>8 DEF PolicyError, PersistApprovalRequest, TryDecide, PersistToolExecution, At, TypeOK
  <2> QED BY <1>1, <2>1
<1>9. ASSUME NEW t \in Turn, BeginTurn(t) \/ EndTurn(t) \/ Send(t) \/ PostReturns(t)
      PROVE  Announced'
  BY <1>1, <1>9 DEF BeginTurn, EndTurn, Send, PostReturns
<1>10. ASSUME NEW g \in Get, ReadState(g) \/ Reconcile(g) \/ GetFails(g) PROVE Announced'
  BY <1>1, <1>10 DEF ReadState, Reconcile, GetFails, Forget
<1>11. CASE Connect \/ Accept \/ Open \/ Mount \/ Unmount
  BY <1>1, <1>11 DEF Connect, Accept, Open, Mount, Unmount
<1>12. CASE Break
  BY <1>12 DEF Break, Announced
<1>13. CASE Receive
  <2> DEFINE rest == Tail(queue)
  <2>1. /\ Len(queue) \in Nat \ {0} /\ DOMAIN queue = 1..Len(queue)
        /\ DOMAIN rest = 1..(Len(queue) - 1)
        /\ \A i \in 1..(Len(queue) - 1) : rest[i] = queue[i + 1]
    BY <1>13, TailOf DEF Receive, TypeOK
  <2>2. queue' = rest /\ UNCHANGED stage
    BY <1>13 DEF Receive
  <2> HIDE DEF rest
  <2>3. ASSUME NEW i \in DOMAIN rest
        PROVE  /\ rest[i].kind = "pending" =>
                    \/ stage[rest[i].of] = "announced"
                    \/ \E j \in DOMAIN rest : j > i /\ rest[j].of = rest[i].of
                                                   /\ rest[j].kind \in Resolved
               /\ rest[i].kind \in Resolved
                    => stage[rest[i].of] \in {"recording", "recorded", "done"}
    <3>1. i + 1 \in DOMAIN queue /\ rest[i] = queue[i + 1] /\ i \in Nat
      BY <2>1
    <3>2. \A j \in DOMAIN queue : j > i + 1 =>
            j - 1 \in DOMAIN rest /\ rest[j - 1] = queue[j] /\ j - 1 > i
      BY <2>1, <3>1
    <3> QED BY <3>1, <3>2 DEF Announced
  <2> QED BY <2>2, <2>3 DEF Announced
<1>14. CASE ClearChat \/ DeleteRows \/ Cleared \/ UNCHANGED vars
  BY <1>1, <1>14 DEF ClearChat, DeleteRows, Cleared, vars
<1> QED BY <1>3, <1>4, <1>5, <1>6, <1>7, <1>8, <1>9, <1>10, <1>11, <1>12, <1>13, <1>14 DEF Next

-----------------------------------------------------------------------------
(***************************************************************************)
(* What the page shows, and what it missed.                                *)
(***************************************************************************)

BackendStep ==
    \/ \E t \in Turn : BeginTurn(t) \/ EndTurn(t) \/ \E c \in Call : RequestTool(t, c)
    \/ \E c \in Call : \/ Decide(c) \/ PolicyError(c) \/ PersistApprovalRequest(c)
                       \/ AnnounceApproval(c) \/ TryDecide(c) \/ Resume(c)
                       \/ PersistToolExecution(c) \/ Report(c)

\* The backend does not change the page.
LEMMA BackendFrame ==
  ASSUME TypeOK, BackendStep
  PROVE  /\ UNCHANGED <<socket, hasConnectedBefore, mounted, transcript, get, snapshot, read, post,
                        clear, disturbed, missed, troubles>>
         /\ \A t \in Turn : turn'[t] = "none" => turn[t] = "none"
<1> USE DEF connection, requests, history
<1>1. CASE \E t \in Turn : BeginTurn(t) \/ EndTurn(t)
  BY <1>1 DEF BeginTurn, EndTurn, TypeOK
<1>2. CASE \E t \in Turn, c \in Call : RequestTool(t, c)
  BY <1>2 DEF RequestTool, At
<1>3. CASE \E c \in Call : Decide(c) \/ PolicyError(c) \/ PersistApprovalRequest(c)
  BY <1>3 DEF Decide, PolicyError, PersistApprovalRequest, At
<1>4. CASE \E c \in Call : AnnounceApproval(c) \/ TryDecide(c) \/ Resume(c)
  BY <1>4 DEF AnnounceApproval, TryDecide, Resume, At
<1>5. CASE \E c \in Call : PersistToolExecution(c) \/ Report(c)
  BY <1>5 DEF PersistToolExecution, Report, At
<1> QED BY <1>1, <1>2, <1>3, <1>4, <1>5 DEF BackendStep

\* What the page makes of an event is there of it; a message stays.
LEMMA ReceiveIn ==
  ASSUME TypeOK, Receive
  PROVE  /\ \A kind, of : kind \notin Approval /\ In(transcript, kind, of)
              => In(transcript', kind, of)
         /\ mounted => In(transcript', Head(queue).kind, Head(queue).of)
         /\ \A of : In(transcript', "pending", of) =>
              \/ Head(queue) = [kind |-> "pending", of |-> of]
              \/ /\ In(transcript, "pending", of)
                 /\ ~(mounted /\ Head(queue).kind \in Approval /\ Head(queue).of = of)
         /\ \A of : In(transcript, "pending", of) =>
              In(transcript', "pending", of)
                \/ (Head(queue).kind \in Approval /\ Head(queue).of = of)
<1> DEFINE e == Head(queue)
<1>1. e \in Event /\ transcript \in Seq(Entry)
  BY TailOf DEF Receive, TypeOK
<1>2. e \in Entry /\ e = [kind |-> e.kind, of |-> e.of]
  BY <1>1 DEF Entry, Event
<1>3. transcript' = CASE ~mounted -> transcript
                      [] mounted /\ e.kind \in Approval -> Upsert(e)
                      [] OTHER -> Append(transcript, e)
  BY DEF Receive
<1>4. \A kind, of : e = [kind |-> kind, of |-> of] => kind = e.kind /\ of = e.of
  OBVIOUS
<1>5. \A kind, of : In(Append(transcript, e), kind, of) <=>
        In(transcript, kind, of) \/ e = [kind |-> kind, of |-> of]
  BY <1>1, <1>2, AppendIn
<1>6. e.kind \in Approval =>
        \A kind, of : In(Upsert(e), kind, of) <=>
          \/ e = [kind |-> kind, of |-> of]
          \/ In(transcript, kind, of) /\ ~(kind \in Approval /\ of = e.of)
  BY <1>1, UpsertIn
<1> HIDE DEF e
<1> DEFINE new(kind, of) == In(transcript', kind, of)
           old(kind, of) == In(transcript, kind, of)
<1>7. "pending" \in Approval
  BY DEF Approval
<1>8. /\ \A kind, of : kind \notin Approval /\ old(kind, of) => new(kind, of)
      /\ mounted => new(e.kind, e.of)
      /\ \A of : new("pending", of) =>
           \/ e = [kind |-> "pending", of |-> of]
           \/ old("pending", of) /\ ~(mounted /\ e.kind \in Approval /\ e.of = of)
      /\ \A of : old("pending", of) => new("pending", of) \/ (e.kind \in Approval /\ e.of = of)
  <2>1. CASE ~mounted
    <3>1. transcript' = transcript
      BY <1>3, <2>1
    <3>2. \A kind, of : new(kind, of) <=> old(kind, of)
      BY <3>1
    <3> HIDE DEF new, old
    <3> QED BY <2>1, <3>2
  <2>2. CASE mounted /\ e.kind \in Approval
    <3>1. transcript' = Upsert(e)
      BY <1>3, <2>2
    <3>2. \A kind, of : new(kind, of) <=>
            \/ e = [kind |-> kind, of |-> of]
            \/ old(kind, of) /\ ~(kind \in Approval /\ of = e.of)
      BY <1>6, <2>2, <3>1
    <3> HIDE DEF new, old
    <3> QED BY <1>2, <1>7, <2>2, <3>2
  <2>3. CASE mounted /\ e.kind \notin Approval
    <3>1. transcript' = Append(transcript, e)
      BY <1>3, <2>3
    <3>2. \A kind, of : new(kind, of) <=> old(kind, of) \/ e = [kind |-> kind, of |-> of]
      BY <1>5, <3>1
    <3>3. \A kind, of : e = [kind |-> kind, of |-> of] => e.kind = kind /\ e.of = of
      OBVIOUS
    <3> HIDE DEF new, old
    <3> QED BY <1>2, <2>3, <3>2, <3>3
  <2> QED BY <2>1, <2>2, <2>3
<1> QED BY <1>8 DEF e

\* A new row only takes the place of older ones among the recent.
LEMMA RecentGrows ==
  ASSUME stored \in Seq(Row), NEW kind, NEW of, [kind |-> kind, of |-> of] \in Row, Store(kind, of),
         NEW kinds, NEW i \in Recent(kinds)', i \in DOMAIN stored
  PROVE  i \in Recent(kinds) /\ stored'[i] = stored[i]
<1> DEFINE old == {j \in DOMAIN stored : stored[j].kind \in kinds}
           new == {j \in DOMAIN stored' : stored'[j].kind \in kinds}
           after == {j \in old : j > i}
           behind == {j \in new : j > i}
<1>1. /\ DOMAIN stored' = 1..(Len(stored) + 1) /\ Len(stored) \in Nat
      /\ \A j \in DOMAIN stored : j \in DOMAIN stored' /\ stored'[j] = stored[j]
  BY Stored
<1>2. i \in new /\ Cardinality(behind) < Limit
  BY DEF Recent
<1>3. i \in old /\ after \subseteq behind
  BY <1>1, <1>2
<1>4. IsFiniteSet(behind)
  <2>1. IsFiniteSet(1..(Len(stored) + 1))
    BY <1>1, FS_Interval
  <2>2. behind \subseteq 1..(Len(stored) + 1)
    BY <1>1
  <2> HIDE DEF behind
  <2> QED BY <2>1, <2>2, FS_Subset
<1>5. Cardinality(after) <= Cardinality(behind) /\ IsFiniteSet(after)
  <2> HIDE DEF after, behind
  <2> QED BY <1>3, <1>4, FS_Subset
<1>6. Cardinality(after) \in Nat /\ Cardinality(behind) \in Nat
  <2> HIDE DEF after, behind
  <2> QED BY <1>4, <1>5, FS_CardinalityType
<1>7. Cardinality(after) < Limit
  <2> HIDE DEF after, behind
  <2> QED BY <1>2, <1>5, <1>6, BoundsAssumption
<1> QED BY <1>1, <1>3, <1>7 DEF Recent

\* What is returned, of the rows of before.
LEMMA ReturnedGrows ==
  ASSUME stored \in Seq(Row), NEW kind, NEW of, [kind |-> kind, of |-> of] \in Row, Store(kind, of),
         NEW i \in Returned', i \in DOMAIN stored,
         stored[i].kind = "approval" /\ status'[stored[i].of] = "PENDING" =>
           status[stored[i].of] = "PENDING"
  PROVE  i \in Returned /\ stored'[i] = stored[i]
<1>1. stored'[i] = stored[i]
  BY Stored
<1>2. CASE i \in Recent({"user", "model"})'
  BY <1>2, RecentGrows DEF Returned
<1>3. CASE i \in Recent({"tool"})'
  BY <1>3, RecentGrows DEF Returned
<1>4. CASE stored'[i].kind = "approval" /\ status'[stored'[i].of] = "PENDING"
  BY <1>1, <1>4 DEF Returned
<1> QED BY <1>1, <1>2, <1>3, <1>4 DEF Returned

LEMMA SameRows ==
  ASSUME UNCHANGED stored
  PROVE  \A i \in Returned' : i \in Recent({"user", "model"}) \cup Recent({"tool"})
                                \/ (stored[i].kind = "approval"
                                     /\ status'[stored[i].of] = "PENDING")
<1>1. Recent({"user", "model"})' = Recent({"user", "model"}) /\ Recent({"tool"})' = Recent({"tool"})
  BY DEF Recent
<1> QED BY <1>1 DEF Returned

LEMMA SameReturned ==
  ASSUME UNCHANGED stored, \A c : status'[c] = "PENDING" => status[c] = "PENDING"
  PROVE  \A i \in Returned' : i \in Returned /\ stored'[i] = stored[i]
BY SameRows, RecentRows DEF Returned, Recent

LEMMA BroadcastIn ==
  ASSUME queue \in Seq(Event), NEW c \in Call,
         NEW kind \in {"requested", "decided", "pending", "granted", "rejected", "result"},
         Broadcast(kind, c), socket = "open"
  PROVE  In(queue', kind, c) /\ \A k, d : In(queue, k, d) => In(queue', k, d)
<1>1. [kind |-> kind, of |-> c] \in Event
  BY DEF Event
<1>2. queue' = Append(queue, [kind |-> kind, of |-> c])
  BY DEF Broadcast
<1> QED BY <1>1, <1>2, AppendIn

LEMMA AnswersStep ==
  ASSUME TypeOK, Answers, [Next]_vars
  PROVE  Answers'
<1> USE DEF backend, connection, requests, history
<1>1. ASSUME \A g \in Get : get'[g] = "answered" =>
               get[g] = "answered" /\ snapshot'[g] = snapshot[g] /\ read'[g] = read[g]
      PROVE  Answers'
  BY <1>1 DEF Answers
<1>2. CASE BackendStep
  BY <1>1, <1>2, BackendFrame
<1>3. ASSUME NEW t \in Turn, Send(t) \/ PostReturns(t) PROVE Answers'
  BY <1>1, <1>3 DEF Send, PostReturns
<1>4. ASSUME NEW g \in Get, ReadState(g) PROVE Answers'
  <2> DEFINE es == EntriesFrom(Returned)
             rows == {stored[i] : i \in Returned}
  <2>1. /\ \A i \in Returned : In(es, Face(stored[i]).kind, stored[i].of)
        /\ \A c : In(es, "pending", c) => \E i \in Returned : stored[i].kind = "approval"
             /\ stored[i].of = c
    BY EntriesTell, ReturnedRows DEF TypeOK
  <2>2. \A row \in rows : In(es, Face(row).kind, row.of)
    BY <2>1
  <2> HIDE DEF es
  <2>3. \A c \in Call : In(es, "pending", c) => [kind |-> "approval", of |-> c] \in rows
    <3> SUFFICES ASSUME NEW c \in Call, In(es, "pending", c)
                 PROVE  [kind |-> "approval", of |-> c] \in rows
      OBVIOUS
    <3>1. PICK i \in Returned : stored[i].kind = "approval" /\ stored[i].of = c
      BY <2>1
    <3>2. stored[i] \in Row
      BY ReturnedRows DEF TypeOK
    <3>3. stored[i] = [kind |-> "approval", of |-> c]
      BY <3>1, <3>2 DEF Row, Message
    <3> QED BY <3>3
  <2> HIDE DEF rows
  <2>4. /\ snapshot'[g] = es /\ read'[g] = rows
        /\ \A h \in Get : h # g =>
             snapshot'[h] = snapshot[h] /\ get'[h] = get[h] /\ read'[h] = read[h]
    BY <1>4 DEF ReadState, TypeOK, es, rows
  <2> QED BY <2>2, <2>3, <2>4 DEF Answers
<1>5. ASSUME NEW g \in Get, Reconcile(g) \/ GetFails(g) PROVE Answers'
  BY <1>1, <1>5 DEF Reconcile, GetFails, Forget, TypeOK
<1>6. CASE Connect \/ Accept \/ Break \/ Receive \/ ClearChat \/ DeleteRows \/ Cleared
             \/ UNCHANGED vars
  BY <1>1, <1>6 DEF Connect, Accept, Break, Receive, ClearChat, DeleteRows, Cleared, vars
<1>7. CASE Open \/ Mount
  <2>1. \A g \in Get : get'[g] = "answered" => get[g] = "answered"
    BY <1>7 DEF Open, Mount, Fetch, TypeOK
  <2> QED BY <1>1, <1>7, <2>1 DEF Open, Mount
<1>8. CASE Unmount
  <2>1. \A g \in Get : get'[g] = "none"
    BY <1>8 DEF Unmount
  <2> QED BY <2>1 DEF Answers
<1> QED BY <1>2, <1>3, <1>4, <1>5, <1>6, <1>7, <1>8 DEF Next, BackendStep

\* While the page is connected, every change of what is stored is announced to it.
LEMMA UpToDateBackend ==
  ASSUME TypeOK, Backed, Paged, UpToDate, BackendStep
  PROVE  UpToDate'
<1> USE DEF backend, connection, requests, history
<1> SUFFICES ASSUME mounted', Settled' PROVE UpToDate'
  BY DEF UpToDate
<1>1. UNCHANGED <<socket, mounted, transcript, get, post, missed>>
  BY BackendFrame
<1>2. mounted /\ Settled /\ socket = "open"
  BY <1>1 DEF Settled
<1>3. /\ \A i \in Returned : Told(stored[i], transcript, queue, stage, post) \/ stored[i] \in missed
      /\ \A c \in Call : In(transcript, "pending", c) =>
           Waits(c, queue, stage) \/ [kind |-> "approval", of |-> c] \in missed
      /\ \A t \in Turn : post[t] = "sent" =>
           In(transcript, "user", t) \/ [kind |-> "user", of |-> t] \in missed
  BY <1>2 DEF UpToDate
<1>5. \A i \in DOMAIN stored : stored[i] \in Row
  BY DEF TypeOK
<1>6. ASSUME \A kind, c : In(queue, kind, c) => In(queue', kind, c),
             \A c \in Call : stage[c] = "recorded" => stage'[c] = "recorded"
               \/ In(queue', "result", c),
             \A c \in Call : stage[c] = "asked" => stage'[c] = "asked" \/ In(queue', "pending", c),
             \A c \in Call : stage[c] \in {"asked", "announced"} => Waits(c, queue', stage'),
             \A i \in Returned' : \/ i \in Returned /\ stored'[i] = stored[i]
                                  \/ Told(stored'[i], transcript, queue', stage', post)
                                  \/ stored'[i] \in missed
      PROVE  UpToDate'
  <2>1. ASSUME NEW i \in Returned, stored'[i] = stored[i]
        PROVE  Told(stored'[i], transcript, queue', stage', post) \/ stored'[i] \in missed
    <3> DEFINE row == stored[i]
    <3>1. row \in Row /\ (Told(row, transcript, queue, stage, post) \/ row \in missed)
      BY <1>3, <1>5, ReturnedRows
    <3>2. row.kind \in {"tool", "approval"} => row.of \in Call
      BY <3>1, RowKinds
    <3> HIDE DEF row
    <3>3. Told(row, transcript, queue, stage, post) => Told(row, transcript, queue', stage', post)
      BY <1>6, <3>1, <3>2 DEF Told
    <3> QED BY <2>1, <3>1, <3>3 DEF row
  <2>2. \A c \in Call : Waits(c, queue, stage) => Waits(c, queue', stage')
    BY <1>6 DEF Waits
  <2>3. transcript' = transcript /\ post' = post /\ missed' = missed
    BY <1>1
  <2>4. \A i \in Returned' :
          Told(stored'[i], transcript, queue', stage', post) \/ stored'[i] \in missed
    BY <1>6, <2>1
  <2>5. \A c \in Call : In(transcript, "pending", c) =>
          Waits(c, queue', stage') \/ [kind |-> "approval", of |-> c] \in missed
    BY <1>3, <2>2
  <2> QED BY <1>3, <2>3, <2>4, <2>5 DEF UpToDate
<1>7. ASSUME NEW kind, NEW of, [kind |-> kind, of |-> of] \in Row, Store(kind, of),
             \/ Told([kind |-> kind, of |-> of], transcript, queue', stage', post)
             \/ [kind |-> kind, of |-> of] \in missed,
             NEW i \in Returned',
             i \in DOMAIN stored /\ stored[i].kind = "approval"
               /\ status'[stored[i].of] = "PENDING" =>
               status[stored[i].of] = "PENDING"
      PROVE  \/ i \in Returned /\ stored'[i] = stored[i]
             \/ Told(stored'[i], transcript, queue', stage', post)
             \/ stored'[i] \in missed
  <2>1. i \in DOMAIN stored'
    BY <1>7 DEF Returned, Recent
  <2>2. CASE i \in DOMAIN stored
    BY <1>7, <2>2, ReturnedGrows DEF TypeOK
  <2>3. CASE i \notin DOMAIN stored
    <3>1. stored'[i] = [kind |-> kind, of |-> of]
      BY <1>7, <2>1, <2>3, NewRow DEF TypeOK
    <3> QED BY <1>7, <3>1
  <2> QED BY <2>2, <2>3
<1>8. ASSUME NEW t \in Turn, BeginTurn(t) PROVE UpToDate'
  <2> DEFINE row == [kind |-> "user", of |-> t]
  <2>1. UNCHANGED <<queue, stage, status>> /\ Store("user", t) /\ row \in Row
    BY <1>8, RowTyped DEF BeginTurn
  <2>2. Told(row, transcript, queue', stage', post) \/ row \in missed
    <3>1. row.kind = "user" /\ row.of = t /\ Face(row).kind = "user"
      BY DEF Face
    <3>2. post[t] = "orphaned" \/ In(transcript, "user", t) \/ row \in missed
      BY <1>3, <1>8 DEF BeginTurn
    <3> HIDE DEF row
    <3> QED BY <3>1, <3>2 DEF Told
  <2>3. \A i \in Returned' : \/ i \in Returned /\ stored'[i] = stored[i]
                             \/ Told(stored'[i], transcript, queue', stage', post)
                             \/ stored'[i] \in missed
    BY <1>7, <2>1, <2>2
  <2> QED BY <1>6, <2>1, <2>3 DEF Waits
<1>9. ASSUME NEW t \in Turn, EndTurn(t) PROVE UpToDate'
  <2> DEFINE row == [kind |-> "model", of |-> t]
  <2>1. /\ UNCHANGED <<queue, stage, status>> /\ row \in Row
        /\ Store("model", t) \/ UNCHANGED stored
    BY <1>9, RowTyped DEF EndTurn
  <2>2. Told(row, transcript, queue', stage', post)
    <3>1. row.kind = "model" /\ row.of = t
      OBVIOUS
    <3>2. post[t] = "orphaned" \/ post[t] = "sent"
      BY <1>9 DEF EndTurn, Backed, Paged, TypeOK
    <3> HIDE DEF row
    <3> QED BY <3>1, <3>2 DEF Told
  <2>3. \A i \in Returned' : \/ i \in Returned /\ stored'[i] = stored[i]
                             \/ Told(stored'[i], transcript, queue', stage', post)
                             \/ stored'[i] \in missed
    <3>1. CASE Store("model", t)
      BY <1>7, <2>1, <2>2, <3>1
    <3>2. CASE UNCHANGED stored
      BY <2>1, <3>2, SameReturned
    <3> QED BY <2>1, <3>1, <3>2
  <2> QED BY <1>6, <2>1, <2>3 DEF Waits
<1>10. ASSUME UNCHANGED <<stored, status>>,
              \A kind, c : In(queue, kind, c) => In(queue', kind, c),
              \A c \in Call : stage[c] = "recorded"
                => stage'[c] = "recorded" \/ In(queue', "result", c),
              \A c \in Call : stage[c] = "asked" => stage'[c] = "asked" \/ In(queue', "pending", c),
              \A c \in Call : stage[c] \in {"asked", "announced"} => Waits(c, queue', stage')
       PROVE  UpToDate'
  BY <1>6, <1>10, SameReturned
<1>11. ASSUME NEW t \in Turn, NEW c \in Call, RequestTool(t, c) PROVE UpToDate'
  <2>1. /\ stage[c] = "idle" /\ \A d \in Call : d # c => stage'[d] = stage[d]
        /\ Broadcast("requested", c) /\ UNCHANGED <<stored, status>>
    BY <1>11 DEF RequestTool, At, TypeOK
  <2>2. \A kind, d : In(queue, kind, d) => In(queue', kind, d)
    BY <1>2, <2>1, BroadcastIn DEF TypeOK
  <2> QED BY <1>10, <2>1, <2>2 DEF Waits
<1>12. ASSUME NEW c \in Call, Decide(c) PROVE UpToDate'
  <2>1. /\ stage[c] = "requested" /\ \A d \in Call : d # c => stage'[d] = stage[d]
        /\ Broadcast("decided", c) /\ UNCHANGED <<stored, status>>
    BY <1>12 DEF Decide, At, TypeOK
  <2>2. \A kind, d : In(queue, kind, d) => In(queue', kind, d)
    BY <1>2, <2>1, BroadcastIn DEF TypeOK
  <2> QED BY <1>10, <2>1, <2>2 DEF Waits
<1>13. ASSUME NEW c \in Call, PolicyError(c) PROVE UpToDate'
  <2>1. /\ stage[c] = "requested" /\ \A d \in Call : d # c => stage'[d] = stage[d]
        /\ UNCHANGED <<stored, status, queue>>
    BY <1>13 DEF PolicyError, At, TypeOK
  <2> QED BY <1>10, <2>1 DEF Waits
<1>14. ASSUME NEW c \in Call, PersistApprovalRequest(c) PROVE UpToDate'
  <2> DEFINE row == [kind |-> "approval", of |-> c]
  <2>1. /\ stage[c] = "asking" /\ stage'[c] = "asked"
        /\ \A d \in Call : d # c => stage'[d] = stage[d] /\ status'[d] = status[d]
        /\ Store("approval", c) /\ row \in Row /\ UNCHANGED queue
    BY <1>14, RowTyped DEF PersistApprovalRequest, At, TypeOK
  <2>2. ASSUME NEW other, other.kind = "approval", other.of = c
        PROVE  Told(other, transcript, queue', stage', post)
    BY <2>1, <2>2 DEF Told
  <2>3. ASSUME NEW i \in Returned'
        PROVE  \/ i \in Returned /\ stored'[i] = stored[i]
               \/ Told(stored'[i], transcript, queue', stage', post)
               \/ stored'[i] \in missed
    <3>1. CASE stored'[i].kind = "approval" /\ stored'[i].of = c
      BY <2>2, <3>1
    <3>2. CASE ~(stored'[i].kind = "approval" /\ stored'[i].of = c)
      <4>1. i \in DOMAIN stored => stored'[i] = stored[i] /\ stored[i] \in Row
        BY <1>5, <2>1, Stored DEF TypeOK
      <4>2. i \in DOMAIN stored /\ stored[i].kind = "approval" =>
              status'[stored[i].of] = status[stored[i].of]
        BY <2>1, <3>2, <4>1, RowKinds
      <4>3. Told(row, transcript, queue', stage', post)
        BY <2>2
      <4> HIDE DEF row
      <4> QED BY <1>7, <2>1, <4>2, <4>3 DEF row
    <3> QED BY <3>1, <3>2
  <2> HIDE DEF row
  <2> QED BY <1>6, <2>1, <2>3 DEF Waits
<1>15. ASSUME NEW c \in Call, AnnounceApproval(c) PROVE UpToDate'
  <2>1. /\ stage[c] = "asked" /\ stage'[c] = "announced" /\ \A d \in Call : d # c
             => stage'[d] = stage[d]
        /\ Broadcast("pending", c) /\ UNCHANGED <<stored, status>>
    BY <1>15 DEF AnnounceApproval, At, TypeOK
  <2>2. In(queue', "pending", c) /\ \A kind, d : In(queue, kind, d) => In(queue', kind, d)
    BY <1>2, <2>1, BroadcastIn DEF TypeOK
  <2> QED BY <1>10, <2>1, <2>2 DEF Waits
<1>16. ASSUME NEW c \in Call, TryDecide(c) PROVE UpToDate'
  <2>1. /\ UNCHANGED <<stored, stage, queue>> /\ \A d \in Call : status'[d] = "PENDING"
             => status[d] = "PENDING"
    BY <1>16 DEF TryDecide, TypeOK
  <2>2. \A i \in Returned' : i \in Returned /\ stored'[i] = stored[i]
    BY <1>5, <2>1, SameRows, RowKinds DEF Returned, Recent
  <2> QED BY <1>6, <2>1, <2>2 DEF Waits
<1>17. ASSUME NEW c \in Call, Resume(c) PROVE UpToDate'
  <2> DEFINE kind == IF status[c] = "APPROVED" THEN "granted" ELSE "rejected"
  <2>1. kind \in Resolved
          /\ kind \in {"requested", "decided", "pending", "granted", "rejected", "result"}
    BY DEF Resolved
  <2>2. /\ stage[c] = "announced" /\ \A d \in Call : d # c => stage'[d] = stage[d]
        /\ Broadcast(kind, c) /\ UNCHANGED <<stored, status>>
    BY <1>17 DEF Resume, At, TypeOK
  <2> HIDE DEF kind
  <2>3. In(queue', kind, c) /\ \A k, d : In(queue, k, d) => In(queue', k, d)
    BY <1>2, <2>1, <2>2, BroadcastIn DEF TypeOK
  <2> QED BY <1>10, <2>1, <2>2, <2>3 DEF Waits
<1>18. ASSUME NEW c \in Call, PersistToolExecution(c) PROVE UpToDate'
  <2> DEFINE row == [kind |-> "tool", of |-> c]
  <2>1. /\ stage[c] = "recording" /\ stage'[c] = "recorded" /\ \A d \in Call : d # c
             => stage'[d] = stage[d]
        /\ Store("tool", c) /\ row \in Row /\ UNCHANGED <<queue, status>>
    BY <1>18, RowTyped DEF PersistToolExecution, At, TypeOK
  <2>2. Told(row, transcript, queue', stage', post)
    <3>1. row.kind = "tool" /\ row.of = c
      OBVIOUS
    <3> HIDE DEF row
    <3> QED BY <2>1, <3>1 DEF Told
  <2>3. \A i \in Returned' : \/ i \in Returned /\ stored'[i] = stored[i]
                             \/ Told(stored'[i], transcript, queue', stage', post)
                             \/ stored'[i] \in missed
    BY <1>7, <2>1, <2>2
  <2> QED BY <1>6, <2>1, <2>3 DEF Waits
<1>19. ASSUME NEW c \in Call, Report(c) PROVE UpToDate'
  <2>1. /\ stage[c] = "recorded" /\ \A d \in Call : d # c => stage'[d] = stage[d]
        /\ Broadcast("result", c) /\ UNCHANGED <<stored, status>>
    BY <1>19 DEF Report, At, TypeOK
  <2>2. In(queue', "result", c) /\ \A kind, d : In(queue, kind, d) => In(queue', kind, d)
    BY <1>2, <2>1, BroadcastIn DEF TypeOK
  <2> QED BY <1>10, <2>1, <2>2 DEF Waits
<1> QED BY <1>8, <1>9, <1>11, <1>12, <1>13, <1>14, <1>15, <1>16, <1>17, <1>18, <1>19 DEF BackendStep

\* What ends a GET, or the time before the first connection, or empties the page,
\* takes note of what the page is wrong about then.
LEMMA WrongRows ==
  ASSUME TypeOK, Backed, NEW rows, NEW entries,
         \A row \in rows : In(entries, Face(row).kind, row.of),
         \A c \in Call : In(entries, "pending", c) => [kind |-> "approval", of |-> c] \in rows
  PROVE  /\ \A i \in Returned : In(entries, Face(stored[i]).kind, stored[i].of)
                                \/ stored[i] \in WrongIn(rows)
         /\ \A c \in Call : In(entries, "pending", c) =>
              \/ stage[c] \in {"asked", "announced"}
              \/ [kind |-> "approval", of |-> c] \in WrongIn(rows)
         /\ \A t \in Turn : post[t] = "sent" =>
              In(entries, "user", t) \/ [kind |-> "user", of |-> t] \in WrongIn(rows)
<1>1. \A i \in Returned : stored[i] \in ToShow
  BY DEF ToShow
<1>2. \A t \in Turn : post[t] = "sent" => [kind |-> "user", of |-> t] \in ToShow
  BY DEF ToShow
<1>3. \A row \in ToShow : row \in rows \/ row \in WrongIn(rows)
  BY DEF WrongIn
<1>4. ASSUME NEW c \in Call, In(entries, "pending", c)
      PROVE  \/ stage[c] \in {"asked", "announced"}
             \/ [kind |-> "approval", of |-> c] \in WrongIn(rows)
  BY <1>4 DEF WrongIn, Backed
<1>5. ASSUME NEW t \in Turn, post[t] = "sent"
      PROVE  In(entries, "user", t) \/ [kind |-> "user", of |-> t] \in WrongIn(rows)
  <2> DEFINE row == [kind |-> "user", of |-> t]
  <2>1. row.of = t /\ Face(row).kind = "user"
    BY DEF Face
  <2>2. row \in rows \/ row \in WrongIn(rows)
    BY <1>2, <1>3, <1>5
  <2> HIDE DEF row
  <2>3. In(entries, "user", t) \/ row \in WrongIn(rows)
    BY <2>1, <2>2
  <2> QED BY <2>3 DEF row
<1> QED BY <1>1, <1>3, <1>4, <1>5

LEMMA ShownRows ==
  ASSUME NEW entries
  PROVE  /\ \A row \in ShownIn(entries) : In(entries, Face(row).kind, row.of)
         /\ \A c \in Call : In(entries, "pending", c) =>
              [kind |-> "approval", of |-> c] \in ShownIn(entries)
<1>1. ASSUME NEW row \in ShownIn(entries) PROVE In(entries, Face(row).kind, row.of)
  <2>1. Face(row) = [kind |-> Face(row).kind, of |-> row.of]
    BY DEF Face
  <2>2. Has(entries, Face(row))
    BY DEF ShownIn
  <2> HIDE DEF Face
  <2> QED BY <2>1, <2>2 DEF Has, In
<1>2. ASSUME NEW c \in Call, In(entries, "pending", c)
      PROVE  [kind |-> "approval", of |-> c] \in ShownIn(entries)
  <2> DEFINE row == [kind |-> "approval", of |-> c]
  <2>1. row \in Row /\ Face(row) = [kind |-> "pending", of |-> c]
    BY RowTyped DEF Face
  <2> HIDE DEF row
  <2> QED BY <1>2, <2>1 DEF ShownIn, Has, In, row
<1> QED BY <1>1, <1>2

LEMMA Rebased ==
  ASSUME TypeOK, Backed, UNCHANGED <<stored, stage, status, post>>, NEW rows,
         missed' = WrongIn(rows),
         \A row \in rows : In(transcript', Face(row).kind, row.of),
         \A c \in Call : In(transcript', "pending", c) => [kind |-> "approval", of |-> c] \in rows
  PROVE  UpToDate'
<1>1. /\ \A i \in Returned :
           In(transcript', Face(stored[i]).kind, stored[i].of) \/ stored[i] \in missed'
      /\ \A c \in Call : In(transcript', "pending", c) =>
           stage[c] \in {"asked", "announced"} \/ [kind |-> "approval", of |-> c] \in missed'
      /\ \A t \in Turn : post[t] = "sent" =>
           In(transcript', "user", t) \/ [kind |-> "user", of |-> t] \in missed'
  <2> DEFINE entries == transcript'
  <2>1. /\ \A row \in rows : In(entries, Face(row).kind, row.of)
        /\ \A c \in Call : In(entries, "pending", c) => [kind |-> "approval", of |-> c] \in rows
    OBVIOUS
  <2> HIDE DEF entries
  <2>2. /\ \A i \in Returned : In(entries, Face(stored[i]).kind, stored[i].of)
                                 \/ stored[i] \in WrongIn(rows)
        /\ \A c \in Call : In(entries, "pending", c) =>
             \/ stage[c] \in {"asked", "announced"}
             \/ [kind |-> "approval", of |-> c] \in WrongIn(rows)
        /\ \A t \in Turn : post[t] = "sent" =>
             In(entries, "user", t) \/ [kind |-> "user", of |-> t] \in WrongIn(rows)
    BY <2>1, WrongRows
  <2> QED BY <2>2 DEF entries
<1>2. \A i \in Returned' : i \in Returned /\ stored'[i] = stored[i]
  BY SameReturned
<1> QED BY <1>1, <1>2 DEF UpToDate, Told, Waits

\* What the page and the connection do loses nothing the page was told.
LEMMA UpToDatePage ==
  ASSUME TypeOK, Backed, Paged, Announced, Answers, UpToDate, [Next]_vars, ~BackendStep
  PROVE  UpToDate'
<1> USE DEF backend, connection, requests, history
<1>1. \A i \in Returned : i \in DOMAIN stored /\ stored[i] \in Row
  BY ReturnedRows DEF TypeOK
<1>2. ASSUME UNCHANGED <<stored, stage, status, mounted, missed, queue>>,
             Settled' => Settled,
             \A kind, of : In(transcript, kind, of) => In(transcript', kind, of),
             \A c : In(transcript', "pending", c) => In(transcript, "pending", c),
             \A t \in Turn : post[t] = "orphaned" => post'[t] = "orphaned",
             \A t \in Turn : post[t] = "sent" =>
               post'[t] = "sent" \/ turn[t] # "answered" \/ In(transcript', "model", t),
             \A t \in Turn : post'[t] = "sent" => post[t] = "sent" \/ In(transcript', "user", t)
      PROVE  UpToDate'
  <2> SUFFICES ASSUME mounted', Settled' PROVE UpToDate'
    BY DEF UpToDate
  <2>1. \A i \in Returned' : i \in Returned /\ stored'[i] = stored[i]
    BY <1>2, SameReturned
  <2>2. ASSUME NEW i \in Returned
        PROVE  Told(stored[i], transcript', queue, stage, post') \/ stored[i] \in missed
    <3> DEFINE row == stored[i]
    <3>1. row \in Row /\ (Told(row, transcript, queue, stage, post) \/ row \in missed)
      BY <1>1, <1>2 DEF UpToDate
    <3>2. row.kind = "model" => turn[row.of] = "answered" /\ row.of \in Turn
      BY <1>1, <3>1, RowKinds DEF Backed, Grounded
    <3>3. row.kind = "user" => row.of \in Turn
      BY <3>1, RowKinds
    <3>4. row.kind = "model" => Face(row).kind = "model"
      BY DEF Face
    <3> HIDE DEF row
    <3>5. Told(row, transcript, queue, stage, post) => Told(row, transcript', queue, stage, post')
      BY <1>2, <3>1, <3>2, <3>3, <3>4 DEF Told
    <3> QED BY <3>1, <3>5 DEF row
  <2>3. \A c \in Call : In(transcript', "pending", c) =>
          Waits(c, queue, stage) \/ [kind |-> "approval", of |-> c] \in missed
    BY <1>2 DEF UpToDate
  <2>4. \A t \in Turn : post'[t] = "sent" =>
          In(transcript', "user", t) \/ [kind |-> "user", of |-> t] \in missed
    BY <1>2 DEF UpToDate
  <2> QED BY <1>2, <2>1, <2>2, <2>3, <2>4 DEF UpToDate
<1>3. ASSUME UNCHANGED <<stored, stage, status, mounted, missed, queue, transcript, post>>,
             Settled' => Settled
      PROVE  UpToDate'
  BY <1>2, <1>3
<1>4. ASSUME NEW t \in Turn, Send(t) PROVE UpToDate'
  <2> DEFINE e == [kind |-> "user", of |-> t]
  <2>1. e \in Entry /\ transcript' = Append(transcript, e)
    BY <1>4 DEF Send, Entry, Message
  <2>2. \A kind, of : In(transcript', kind, of) <=> In(transcript, kind, of)
          \/ e = [kind |-> kind, of |-> of]
    BY <2>1, AppendIn DEF TypeOK
  <2>3. /\ UNCHANGED <<stored, stage, status, mounted, missed, get, socket, queue>>
        /\ \A u \in Turn : post[u] \in {"sent", "orphaned"} => post'[u] = post[u]
        /\ \A u \in Turn : post'[u] = "sent" => post[u] = "sent" \/ u = t
    BY <1>4 DEF Send, TypeOK
  <2>4. Settled' => Settled
    BY <2>3 DEF Settled
  <2>5. (\A c : e # [kind |-> "pending", of |-> c]) /\ In(transcript', "user", t)
    BY <2>2
  <2> HIDE DEF e
  <2>6. /\ \A kind, of : In(transcript, kind, of) => In(transcript', kind, of)
        /\ \A c : In(transcript', "pending", c) => In(transcript, "pending", c)
    BY <2>2, <2>5
  <2> QED BY <1>2, <2>3, <2>4, <2>5, <2>6
<1>5. ASSUME NEW t \in Turn, PostReturns(t) PROVE UpToDate'
  <2> DEFINE e == [kind |-> "model", of |-> t]
  <2>1. e \in Entry
    BY DEF Entry, Message
  <2>2. \A kind, of : In(Append(transcript, e), kind, of) <=>
          In(transcript, kind, of) \/ e = [kind |-> kind, of |-> of]
    BY <2>1, AppendIn DEF TypeOK
  <2>3. /\ UNCHANGED <<stored, stage, status, mounted, missed, get, socket, queue>>
        /\ \A u \in Turn : u # t => post'[u] = post[u]
        /\ post[t] = "sent" /\ post'[t] = "done"
        /\ transcript' = IF turn[t] = "answered" THEN Append(transcript, e) ELSE transcript
    BY <1>5 DEF PostReturns, TypeOK
  <2>4. Settled' => Settled
    BY <2>3 DEF Settled
  <2>5. CASE turn[t] = "answered"
    <3>1. transcript' = Append(transcript, e)
      BY <2>3, <2>5
    <3>2. \A kind, of : In(transcript, kind, of) => In(transcript', kind, of)
      BY <2>2, <3>1
    <3>3. \A c : e # [kind |-> "pending", of |-> c]
      OBVIOUS
    <3>4. \A c : In(transcript', "pending", c) => In(transcript, "pending", c)
      BY <2>2, <3>1, <3>3
    <3>5. (turn[t] = "answered" /\ post'[t] = "done") => In(transcript', "model", t)
      BY <2>2, <3>1
    <3> HIDE DEF e
    <3>6. /\ \A u \in Turn : post[u] = "orphaned" => post'[u] = post[u]
          /\ \A u \in Turn : post'[u] = "sent" => post[u] = "sent"
      BY <2>3
    <3> QED BY <1>2, <2>3, <2>4, <3>2, <3>4, <3>5, <3>6
  <2>6. CASE turn[t] # "answered"
    <3>1. transcript' = transcript
      BY <2>3, <2>6
    <3> QED BY <1>2, <2>3, <2>4, <2>6, <3>1
  <2> QED BY <2>5, <2>6
<1>6. ASSUME NEW g \in Get, ReadState(g) PROVE UpToDate'
  <2>1. ~Settled'
    BY <1>6 DEF ReadState, Settled, TypeOK
  <2> QED BY <2>1 DEF UpToDate
<1>7. ASSUME NEW g \in Get, GetFails(g) PROVE UpToDate'
  <2>1. /\ UNCHANGED <<stored, stage, status, post, transcript>>
        /\ missed' = WrongIn(ShownIn(transcript))
    BY <1>7 DEF GetFails, Forget
  <2> QED BY <2>1, ShownRows, Rebased
<1>8. ASSUME NEW g \in Get, Reconcile(g) PROVE UpToDate'
  <2>1. /\ get[g] = "answered" /\ transcript' = snapshot[g]
        /\ UNCHANGED <<stored, stage, status, post>>
        /\ missed' = WrongIn(read[g])
    BY <1>8 DEF Reconcile, Forget
  <2>2. /\ \A row \in read[g] : In(transcript', Face(row).kind, row.of)
        /\ \A c \in Call :
             In(transcript', "pending", c) => [kind |-> "approval", of |-> c] \in read[g]
    BY <2>1 DEF Answers
  <2> QED BY <2>1, <2>2, Rebased
<1>9. CASE Connect \/ Accept \/ Break
  <2>1. ~Settled'
    BY <1>9 DEF Connect, Accept, Break, Settled
  <2> QED BY <2>1 DEF UpToDate
<1>10. CASE Open
  <2>1. CASE mounted /\ hasConnectedBefore
    <3>1. get' = [get EXCEPT ![reconnect] = "sent"]
      BY <1>10, <2>1 DEF Open, Fetch
    <3>2. reconnect \in Get
      BY DEF Get, reconnect, TypeOK
    <3>3. ~Settled'
      BY <3>1, <3>2 DEF Settled, TypeOK
    <3> QED BY <3>3 DEF UpToDate
  <2>2. CASE ~mounted
    BY <1>10, <2>2 DEF Open, UpToDate
  <2>3. CASE mounted /\ ~hasConnectedBefore
    <3>1. /\ UNCHANGED <<stored, stage, status, post, transcript>>
          /\ missed' = WrongIn(ShownIn(transcript))
      BY <1>10, <2>3 DEF Open
    <3> QED BY <3>1, ShownRows, Rebased
  <2> QED BY <2>1, <2>2, <2>3
<1>11. CASE Mount
  <2>1. ~Settled'
    BY <1>11, BoundsAssumption DEF Mount, Fetch, Settled, Get, mount, TypeOK
  <2> QED BY <2>1 DEF UpToDate
<1>12. CASE Unmount
  BY <1>12 DEF Unmount, UpToDate
<1>13. CASE Receive
  <2> SUFFICES ASSUME mounted', Settled' PROVE UpToDate'
    BY DEF UpToDate
  <2> DEFINE e == Head(queue)
             rest == Tail(queue)
  <2>1. /\ socket = "open" /\ queue # <<>> /\ queue' = rest
        /\ UNCHANGED <<stored, stage, status, mounted, get, post, socket>>
        /\ missed' = {row \in missed : ~Tells(e, row)}
    BY <1>13 DEF Receive
  <2>2. mounted /\ Settled
    BY <2>1 DEF Settled
  <2>3. /\ \A kind, of : In(queue, kind, of) <=> In(rest, kind, of)
             \/ e = [kind |-> kind, of |-> of]
        /\ e \in Event /\ e = queue[1] /\ 1 \in DOMAIN queue
        /\ e.of \in Call
    <3>1. queue \in Seq(Event)
      BY DEF TypeOK
    <3>2. e \in Event /\ e = queue[1] /\ 1 \in DOMAIN queue
      BY <2>1, <3>1, TailOf
    <3> QED BY <2>1, <3>1, <3>2, TailIn DEF Event
  <2>4. /\ \A kind, of : kind \notin Approval /\ In(transcript, kind, of)
             => In(transcript', kind, of)
        /\ In(transcript', e.kind, e.of)
        /\ \A of : In(transcript', "pending", of) =>
             \/ e = [kind |-> "pending", of |-> of]
             \/ In(transcript, "pending", of) /\ ~(e.kind \in Approval /\ e.of = of)
        /\ \A of : In(transcript, "pending", of) =>
             In(transcript', "pending", of) \/ (e.kind \in Approval /\ e.of = of)
    BY <1>13, <2>2, ReceiveIn
  <2>5. e.kind \in Resolved => stage[e.of] \in {"recording", "recorded", "done"}
    BY <2>3 DEF Announced
  <2>6. ASSUME e.kind = "pending"
        PROVE  stage[e.of] = "announced" \/ \E kind \in Resolved : In(rest, kind, e.of)
    <3>1. CASE stage[e.of] # "announced"
      <4>1. PICK j \in DOMAIN queue : j > 1 /\ queue[j].of = e.of /\ queue[j].kind \in Resolved
        BY <2>3, <2>6, <3>1 DEF Announced
      <4>2. queue[j] = [kind |-> queue[j].kind, of |-> e.of]
        BY <4>1, QueueOfCalls DEF Event
      <4>3. In(queue, queue[j].kind, e.of)
        BY <4>2 DEF In
      <4>4. queue[j].kind # "pending"
        BY <4>1 DEF Resolved
      <4>5. In(rest, queue[j].kind, e.of)
        BY <2>3, <2>6, <4>3, <4>4
      <4> QED BY <4>1, <4>5
    <3> QED BY <3>1
  <2>7. Approval = Resolved \cup {"pending"}
    BY DEF Approval, Resolved
  <2>8. \A i \in Returned' : i \in Returned /\ stored'[i] = stored[i]
    BY <2>1, SameReturned
  <2>9. \A kind, of : e = [kind |-> kind, of |-> of] => e.kind = kind /\ e.of = of
    OBVIOUS
  <2> HIDE DEF e, rest
  <2>10. ASSUME NEW i \in Returned
         PROVE  Told(stored[i], transcript', rest, stage, post) \/ stored[i] \in missed'
    <3> DEFINE row == stored[i]
    <3>1. row \in Row /\ (Told(row, transcript, queue, stage, post) \/ row \in missed)
      BY <1>1, <2>2 DEF UpToDate
    <3>2. CASE row.kind \notin {"approval"}
      <4>1. Face(row).kind \notin Approval /\ (row.kind = "tool" => Face(row).kind = "result")
        BY <3>1, <3>2, RowKinds DEF Face, Approval
      <4>2. In(transcript, Face(row).kind, row.of) => In(transcript', Face(row).kind, row.of)
        BY <2>4, <4>1
      <4>3. row.kind = "tool" /\ In(queue, "result", row.of) =>
              In(rest, "result", row.of) \/ In(transcript', Face(row).kind, row.of)
        BY <2>3, <2>4, <2>9, <4>1
      <4>4. Tells(e, row) => In(transcript', Face(row).kind, row.of)
        BY <2>4, <3>2, <4>1 DEF Tells
      <4> HIDE DEF row
      <4>5. Told(row, transcript, queue, stage, post) => Told(row, transcript', rest, stage, post)
        BY <3>1, <3>2, <4>2, <4>3 DEF Told
      <4>6. row \in missed => row \in missed' \/ Told(row, transcript', rest, stage, post)
        BY <2>1, <4>4 DEF Told
      <4> QED BY <3>1, <4>5, <4>6 DEF row
    <3>3. CASE row.kind = "approval"
      <4>1. Face(row).kind = "pending" /\ row.of \in Call /\ status[row.of] = "PENDING"
        BY <3>1, <3>3, RowKinds, ReturnedRows DEF Face
      <4>2. stage[row.of] \in {"asked", "announced"}
        BY <4>1 DEF Backed
      <4>3. e.kind \in Approval /\ e.of = row.of => e.kind = "pending"
        BY <2>5, <2>7, <4>2
      <4>4. In(transcript, "pending", row.of) => In(transcript', "pending", row.of)
        BY <2>4, <4>3
      <4>5. In(queue, "pending", row.of) => In(rest, "pending", row.of)
              \/ In(transcript', "pending", row.of)
        BY <2>3, <2>4, <2>9
      <4>6. Tells(e, row) => In(transcript', "pending", row.of)
        BY <2>4, <3>3, <4>3 DEF Tells
      <4> HIDE DEF row
      <4>7. Told(row, transcript, queue, stage, post) => Told(row, transcript', rest, stage, post)
        BY <3>1, <3>3, <4>1, <4>4, <4>5 DEF Told
      <4>8. row \in missed => row \in missed' \/ Told(row, transcript', rest, stage, post)
        BY <2>1, <4>1, <4>6 DEF Told
      <4> QED BY <3>1, <4>7, <4>8 DEF row
    <3> QED BY <3>2, <3>3
  <2>11. ASSUME NEW c \in Call, In(transcript', "pending", c)
         PROVE  Waits(c, rest, stage) \/ [kind |-> "approval", of |-> c] \in missed'
    <3>1. CASE e = [kind |-> "pending", of |-> c]
      BY <2>6, <2>9, <3>1 DEF Waits
    <3>2. CASE In(transcript, "pending", c) /\ ~(e.kind \in Approval /\ e.of = c)
      <4>1. Waits(c, queue, stage) \/ [kind |-> "approval", of |-> c] \in missed
        BY <2>2, <3>2 DEF UpToDate
      <4>2. \A kind \in Resolved : In(queue, kind, c) => In(rest, kind, c)
        BY <2>3, <2>7, <2>9, <3>2
      <4>3. Waits(c, queue, stage) => Waits(c, rest, stage)
        BY <4>2 DEF Waits
      <4>4. ~Tells(e, [kind |-> "approval", of |-> c])
        BY <3>2 DEF Tells
      <4> QED BY <2>1, <4>1, <4>3, <4>4
    <3> QED BY <2>4, <2>11, <3>1, <3>2
  <2>12. ASSUME NEW t \in Turn, post[t] = "sent"
         PROVE  In(transcript', "user", t) \/ [kind |-> "user", of |-> t] \in missed'
    <3>1. In(transcript, "user", t) \/ [kind |-> "user", of |-> t] \in missed
      BY <2>2, <2>12 DEF UpToDate
    <3>2. In(transcript, "user", t) => In(transcript', "user", t)
      BY <2>4 DEF Approval
    <3>3. ~Tells(e, [kind |-> "user", of |-> t])
      BY DEF Tells
    <3> QED BY <2>1, <3>1, <3>2, <3>3
  <2> QED BY <2>1, <2>8, <2>10, <2>11, <2>12 DEF UpToDate
<1>14. CASE ClearChat
  <2>1. UNCHANGED <<stored, stage, status, mounted, missed, get, socket, queue, transcript, post>>
    BY <1>14 DEF ClearChat
  <2> QED BY <1>3, <2>1 DEF Settled
<1>15. CASE DeleteRows
  <2>1. UNCHANGED <<stage, status, mounted, missed, get, socket, queue, transcript, post>>
    BY <1>15 DEF DeleteRows
  <2> SUFFICES ASSUME mounted', Settled' PROVE UpToDate'
    BY DEF UpToDate
  <2>2. mounted /\ Settled
    BY <2>1 DEF Settled
  <2>3. ASSUME NEW n \in Returned'
        PROVE  Told(stored'[n], transcript, queue, stage, post) \/ stored'[n] \in missed
    <3>1. n \in DOMAIN stored'
      BY DEF Returned, Recent
    <3>2. PICK i \in DOMAIN stored : stored'[n] = stored[i] /\ stored[i].kind = "approval"
      BY <1>15, <3>1, RowsLeft
    <3>3. status'[stored'[n].of] = "PENDING"
      BY <1>15, <3>2, RowsLeft DEF Returned, Recent
    <3>4. i \in Returned
      BY <2>1, <3>2, <3>3 DEF Returned
    <3> QED BY <2>2, <3>2, <3>4 DEF UpToDate
  <2> QED BY <2>1, <2>2, <2>3 DEF UpToDate
<1>16. CASE Cleared
  <2>1. /\ UNCHANGED <<stored, stage, status, post>> /\ transcript' = <<>>
        /\ missed' = WrongIn({})
    BY <1>16 DEF Cleared
  <2>2. \A c : ~In(transcript', "pending", c)
    BY <2>1 DEF In
  <2> QED BY <2>1, <2>2, Rebased
<1>17. CASE UNCHANGED vars
  <2>1. UNCHANGED <<stored, stage, status, mounted, missed, get, socket, queue, transcript, post>>
    BY <1>17 DEF vars
  <2> QED BY <1>3, <2>1 DEF Settled
<1> QED BY <1>4, <1>5, <1>6, <1>7, <1>8, <1>9, <1>10, <1>11, <1>12, <1>13, <1>14, <1>15, <1>16,
           <1>17 DEF Next, BackendStep

LEMMA StrandInvariant == Spec => [](TypeOK /\ StrandInv)
<1>1. Init => TypeOK /\ StrandInv
  <2> SUFFICES ASSUME Init PROVE StrandInv
    BY TypeInit
  <2>1. Backed /\ Paged /\ Announced
    BY DEF Init, Backed, Active, Paged, Announced
  <2>2. ~Settled /\ \A g \in Get : get[g] # "answered"
    BY DEF Init, Settled
  <2> QED BY <2>1, <2>2 DEF StrandInv, Answers, UpToDate
<1>2. TypeOK /\ StrandInv /\ [Next]_vars => (TypeOK /\ StrandInv)'
  <2> SUFFICES ASSUME TypeOK, StrandInv, [Next]_vars PROVE TypeOK' /\ StrandInv'
    OBVIOUS
  <2>1. TypeOK' /\ Backed' /\ Paged' /\ Announced'
    BY TypeStep, BackedStep, PagedStep, AnnouncedStep DEF StrandInv
  <2>2. Answers' /\ UpToDate'
    BY AnswersStep, UpToDateBackend, UpToDatePage DEF StrandInv
  <2> QED BY <2>1, <2>2 DEF StrandInv
<1> QED BY <1>1, <1>2, PTL DEF Spec

\* However often the page comes and goes and its connection breaks, and whatever
\* calls, GETs and clears are under way then: a page at rest misses nothing of what
\* GET /chat/state would return, and shows as pending only what is, but for the rows
\* that an overtaken answer, a failed GET, a clear or a late first connection made
\* it miss (AgentPage.tsx:71, main.py:414).
THEOREM NothingStaysStranded == Spec => []NothingIsStranded
<1>1. TypeOK /\ StrandInv => NothingIsStranded
  <2> SUFFICES ASSUME TypeOK, StrandInv, AtRest
               PROVE  /\ \A i \in Returned : LET row == stored[i] IN
                           Has(transcript, Face(row)) \/ Untold(row) \/ row \in missed
                      /\ \A row \in [kind: {"approval"}, of: Call] :
                           Has(transcript, Face(row)) =>
                             \/ status[row.of] = "PENDING"
                             \/ stage[row.of] \in {"asked", "announced"}
                             \/ row \in missed
    BY DEF NothingIsStranded
  <2>1. mounted /\ Settled /\ \A kind, of : ~In(queue, kind, of)
    BY DEF AtRest, Settled, In
  <2>2. /\ \A i \in Returned :
             Told(stored[i], transcript, queue, stage, post) \/ stored[i] \in missed
        /\ \A c \in Call : In(transcript, "pending", c) =>
             Waits(c, queue, stage) \/ [kind |-> "approval", of |-> c] \in missed
    BY <2>1 DEF StrandInv, UpToDate
  <2>3. \A row : Has(transcript, Face(row)) <=> In(transcript, Face(row).kind, row.of)
    <3> SUFFICES ASSUME NEW row
                 PROVE  Has(transcript, Face(row)) <=> In(transcript, Face(row).kind, row.of)
      OBVIOUS
    <3>1. Face(row) = [kind |-> Face(row).kind, of |-> row.of]
      BY DEF Face
    <3> HIDE DEF Face
    <3> QED BY <3>1 DEF Has, In
  <2>4. ASSUME NEW i \in Returned
        PROVE  Has(transcript, Face(stored[i])) \/ Untold(stored[i]) \/ stored[i] \in missed
    <3> DEFINE row == stored[i]
    <3>1. /\ i \in DOMAIN stored /\ row \in Row
          /\ Told(row, transcript, queue, stage, post) \/ row \in missed
      BY <2>2, ReturnedRows DEF TypeOK
    <3>2. row.kind = "model" => row.of \in Turn /\ turn[row.of] = "answered"
      BY <3>1, RowKinds DEF StrandInv, Backed, Grounded
    <3>3. row.kind = "model" => post[row.of] # "sent"
      BY <3>2 DEF AtRest
    <3> HIDE DEF row
    <3>4. Told(row, transcript, queue, stage, post) => Has(transcript, Face(row)) \/ Untold(row)
      BY <2>1, <2>3, <3>3 DEF Told, Untold
    <3> QED BY <3>1, <3>4 DEF row
  <2>5. ASSUME NEW row \in [kind: {"approval"}, of: Call], Has(transcript, Face(row))
        PROVE  stage[row.of] \in {"asked", "announced"} \/ row \in missed
    <3>1. /\ row = [kind |-> "approval", of |-> row.of] /\ row.of \in Call
          /\ Face(row).kind = "pending"
      BY DEF Face
    <3>2. In(transcript, "pending", row.of)
      BY <2>3, <2>5, <3>1
    <3> QED BY <2>1, <2>2, <3>1, <3>2 DEF Waits
  <2> QED BY <2>4, <2>5
<1> QED BY <1>1, StrandInvariant, PTL

-----------------------------------------------------------------------------
(***************************************************************************)
(* What a page shows that was never disturbed.                             *)
(***************************************************************************)

User(t) == [kind |-> "user", of |-> t]
Model(t) == [kind |-> "model", of |-> t]
Requested(c) == [kind |-> "requested", of |-> c]
Result(c) == [kind |-> "result", of |-> c]
ToolRow(c) == [kind |-> "tool", of |-> c]

\* On the page, and after it in the events on their way, no f comes before an e.
\* (Of an e and itself it says that there is at most one.)
InOrder(entries, events, e, f) ==
    /\ \A p, q \in DOMAIN entries : entries[p] = e /\ entries[q] = f => p <= q
    /\ \A p, q \in DOMAIN events : events[p] = e /\ events[q] = f => p <= q
    /\ ~(Has(entries, f) /\ Has(events, e))

\* It was mounted and connected before anything was stored or shown.
Undisturbed ==
    /\ mounted /\ clear = "none" /\ socket # "closed"
    /\ socket = "open" <=> hasConnectedBefore
    /\ \A g \in Get \ {mount} : get[g] = "none"
    /\ \A t \in Turn : post[t] # "orphaned"
    /\ get[mount] # "none" =>
         stored = <<>> /\ queue = <<>> /\ transcript = <<>> /\ snapshot[mount] = <<>>

\* Each message and each tool call has one row.
RowsOnce ==
    \A i, j \in DOMAIN stored :
        stored[i] = stored[j] /\ stored[i].kind # "approval" => i = j

\* The messages: how far each turn has got, and that the question of the POST that
\* is under way is the last message shown, and its answer the last one stored.
MessagesThere ==
    \A t \in Turn :
        /\ Has(transcript, User(t)) <=> post[t] # "none"
        /\ Has(stored, User(t)) <=> turn[t] # "none"
        /\ Has(transcript, Model(t)) <=> post[t] = "done" /\ turn[t] = "answered"
        /\ Has(stored, Model(t)) <=> turn[t] = "answered"

MessagesInOrder ==
    /\ \A i, j \in DOMAIN stored :
         i <= j /\ stored[i].kind \in {"user", "model"} /\ stored[j].kind \in {"user", "model"} =>
           InOrder(transcript, queue, stored[i], stored[j])
    /\ \A t \in Turn : post[t] = "sent" =>
         /\ \A u \in Turn : /\ InOrder(transcript, queue, User(u), User(t))
                            /\ InOrder(transcript, queue, Model(u), User(t))
         /\ \A i, j \in DOMAIN stored :
              stored[i] = Model(t) /\ stored[j].kind \in {"user", "model"} => j <= i

\* The tool calls: how far each has got, one after the other.
CallsThere ==
    /\ \A c \in Call :
         /\ Has(transcript, Requested(c)) \/ Has(queue, Requested(c)) <=> stage[c] # "idle"
         /\ Has(transcript, Result(c)) \/ Has(queue, Result(c)) <=> stage[c] = "done"
         /\ Has(stored, ToolRow(c)) <=> stage[c] \in {"recorded", "done"}
    /\ \A c, d \in Call : Active(c) /\ Active(d) => c = d

CallsInOrder ==
    /\ \A c \in Call : /\ InOrder(transcript, queue, Requested(c), Requested(c))
                       /\ InOrder(transcript, queue, Requested(c), Result(c))
                       /\ InOrder(transcript, queue, Result(c), Result(c))
    /\ \A c, d \in Call : stage[c] = "done" /\ Active(d) =>
         InOrder(transcript, queue, Result(c), Requested(d))
    /\ \A i, j \in DOMAIN stored : \A c, d \in Call :
         i < j /\ stored[i] = ToolRow(c) /\ stored[j] = ToolRow(d) =>
           InOrder(transcript, queue, Result(c), Requested(d))
    /\ \A c \in Call : stage[c] = "recorded" =>
         \A i, j \in DOMAIN stored : stored[i] = ToolRow(c) /\ stored[j].kind = "tool" => j <= i

\* The page has its first answer and connection, or else nothing was asked yet.
Ready == hasConnectedBefore /\ \A g \in Get : get[g] = "none"
InTime == ~disturbed /\ (Late => Ready)

LiveInv ==
    InTime =>
        Undisturbed /\ RowsOnce /\ MessagesThere /\ MessagesInOrder /\ CallsThere /\ CallsInOrder

LEMMA AppendHas ==
  ASSUME NEW T, NEW s \in Seq(T), NEW x \in T
  PROVE  \A e : Has(Append(s, x), e) <=> Has(s, e) \/ x = e
<1> DEFINE a == Append(s, x)
<1>1. /\ DOMAIN s = 1..Len(s) /\ DOMAIN a = 1..(Len(s) + 1) /\ Len(s) \in Nat
      /\ \A i \in 1..Len(s) : a[i] = s[i]
      /\ a[Len(s) + 1] = x
  BY Appended
<1> HIDE DEF a
<1>2. \A i : i \in DOMAIN a <=> i \in DOMAIN s \/ i = Len(s) + 1
  BY <1>1
<1>3. \A e : Has(a, e) <=> Has(s, e) \/ x = e
  BY <1>1, <1>2, Zenon DEF Has
<1> QED BY <1>3 DEF a

LEMMA TailHas ==
  ASSUME NEW T, NEW s \in Seq(T), s # <<>>
  PROVE  \A e : Has(s, e) <=> Has(Tail(s), e) \/ Head(s) = e
<1> DEFINE t == Tail(s)
           h == Head(s)
<1>1. /\ DOMAIN s = 1..Len(s) /\ DOMAIN t = 1..(Len(s) - 1) /\ Len(s) \in Nat \ {0}
      /\ h = s[1]
      /\ \A i \in 1..(Len(s) - 1) : t[i] = s[i + 1]
  BY TailOf
<1> HIDE DEF t, h
<1>2. \A i \in DOMAIN s : i = 1 \/ (i - 1 \in DOMAIN t /\ t[i - 1] = s[i])
  BY <1>1
<1>3. \A i \in DOMAIN t : i + 1 \in DOMAIN s /\ t[i] = s[i + 1]
  BY <1>1
<1>4. 1 \in DOMAIN s
  BY <1>1
<1>5. \A e : Has(s, e) <=> Has(t, e) \/ h = e
  BY <1>1, <1>2, <1>3, <1>4, Zenon DEF Has
<1> QED BY <1>5 DEF t, h

\* What is not there is in order.
LEMMA AbsentInOrder ==
  \A a, b, e, f : (~Has(a, e) /\ ~Has(b, e)) \/ (~Has(a, f) /\ ~Has(b, f)) => InOrder(a, b, e, f)
BY DEF InOrder, Has

\* Adding to a sequence: what is new comes last.
LEMMA LastInOrder ==
  ASSUME NEW T, NEW s \in Seq(T), NEW x \in T, NEW e, NEW f,
         \A p, q \in DOMAIN s : s[p] = e /\ s[q] = f => p <= q,
         x = e => ~Has(s, f)
  PROVE  \A p, q \in DOMAIN Append(s, x) : Append(s, x)[p] = e /\ Append(s, x)[q] = f => p <= q
<1> DEFINE a == Append(s, x)
           n == Len(s) + 1
<1>1. /\ DOMAIN s = 1..Len(s) /\ DOMAIN a = 1..n /\ Len(s) \in Nat
      /\ \A i \in DOMAIN s : a[i] = s[i]
      /\ a[n] = x
  BY Appended
<1> HIDE DEF a
<1> SUFFICES ASSUME NEW p \in DOMAIN a, NEW q \in DOMAIN a, a[p] = e, a[q] = f PROVE p <= q
  BY DEF a
<1>2. CASE q = n
  BY <1>1, <1>2
<1>3. CASE q # n /\ p # n
  <2>1. p \in DOMAIN s /\ q \in DOMAIN s
    BY <1>1, <1>3
  <2>2. s[p] = e /\ s[q] = f
    BY <1>1, <2>1
  <2> QED BY <2>1, <2>2
<1>4. CASE q # n /\ p = n
  <2>1. q \in DOMAIN s /\ s[q] = f /\ x = e
    BY <1>1, <1>4
  <2> QED BY <2>1 DEF Has
<1> QED BY <1>2, <1>3, <1>4

LEMMA SentInOrder ==
  ASSUME NEW T, NEW a, NEW b \in Seq(T), NEW x \in T, NEW e, NEW f,
         InOrder(a, b, e, f),
         x = e => ~Has(a, f) /\ ~Has(b, f)
  PROVE  InOrder(a, Append(b, x), e, f)
<1>1. \A p, q \in DOMAIN Append(b, x) : Append(b, x)[p] = e /\ Append(b, x)[q] = f => p <= q
  BY LastInOrder DEF InOrder
<1>2. Has(Append(b, x), e) <=> Has(b, e) \/ x = e
  BY AppendHas
<1> DEFINE c == Append(b, x)
<1> HIDE DEF c
<1>3. \A p, q \in DOMAIN c : c[p] = e /\ c[q] = f => p <= q
  BY <1>1 DEF c
<1>4. ~(Has(a, f) /\ Has(c, e))
  BY <1>2 DEF InOrder, c
<1>5. \A p, q \in DOMAIN a : a[p] = e /\ a[q] = f => p <= q
  BY DEF InOrder
<1>6. InOrder(a, c, e, f)
  BY <1>3, <1>4, <1>5, Zenon DEF InOrder
<1> QED BY <1>6 DEF c

LEMMA ShownInOrder ==
  ASSUME NEW T, NEW a \in Seq(T), NEW b, NEW x \in T, NEW e, NEW f,
         InOrder(a, b, e, f),
         x = e => ~Has(a, f),
         x = f => ~Has(b, e)
  PROVE  InOrder(Append(a, x), b, e, f)
<1>1. \A p, q \in DOMAIN Append(a, x) : Append(a, x)[p] = e /\ Append(a, x)[q] = f => p <= q
  BY LastInOrder DEF InOrder
<1>2. Has(Append(a, x), f) <=> Has(a, f) \/ x = f
  BY AppendHas
<1> DEFINE c == Append(a, x)
<1> HIDE DEF c
<1>3. \A p, q \in DOMAIN c : c[p] = e /\ c[q] = f => p <= q
  BY <1>1 DEF c
<1>4. ~(Has(c, f) /\ Has(b, e))
  BY <1>2 DEF InOrder, c
<1>5. \A p, q \in DOMAIN b : b[p] = e /\ b[q] = f => p <= q
  BY DEF InOrder
<1>6. InOrder(c, b, e, f)
  BY <1>3, <1>4, <1>5, Zenon DEF InOrder
<1> QED BY <1>6 DEF c

\* The first event comes before the rest.
LEMMA RestInOrder ==
  ASSUME NEW T, NEW b \in Seq(T), b # <<>>, NEW e, NEW f,
         \A p, q \in DOMAIN b : b[p] = e /\ b[q] = f => p <= q
  PROVE  /\ \A p, q \in DOMAIN Tail(b) : Tail(b)[p] = e /\ Tail(b)[q] = f => p <= q
         /\ Head(b) = f => ~Has(Tail(b), e)
<1> DEFINE t == Tail(b)
           h == Head(b)
<1>1. /\ DOMAIN b = 1..Len(b) /\ DOMAIN t = 1..(Len(b) - 1) /\ Len(b) \in Nat \ {0}
      /\ h = b[1]
      /\ \A i \in 1..(Len(b) - 1) : t[i] = b[i + 1]
  BY TailOf
<1> HIDE DEF t, h
<1>2. \A i \in DOMAIN t : i \in Nat \ {0} /\ i + 1 \in DOMAIN b /\ t[i] = b[i + 1]
  BY <1>1
<1>3. 1 \in DOMAIN b
  BY <1>1
<1>4. ASSUME NEW p \in DOMAIN t, NEW q \in DOMAIN t, t[p] = e, t[q] = f PROVE p <= q
  <2>1. p + 1 <= q + 1
    BY <1>2, <1>4
  <2> QED BY <1>2, <2>1
<1>5. ASSUME h = f, NEW p \in DOMAIN t, t[p] = e PROVE FALSE
  <2>1. p + 1 <= 1
    BY <1>1, <1>2, <1>3, <1>5
  <2> QED BY <1>2, <2>1
<1>6. h = f => ~Has(t, e)
  BY <1>5 DEF Has
<1> QED BY <1>4, <1>6 DEF t, h

\* Receiving an event changes neither the order nor what there is, but for the
\* approvals.
LEMMA ReceiveInOrder ==
  ASSUME TypeOK, Receive, mounted,
         NEW e, NEW f, e.kind \notin Approval, f.kind \notin Approval,
         InOrder(transcript, queue, e, f)
  PROVE  InOrder(transcript', queue', e, f)
<1> DEFINE h == Head(queue)
           rest == Tail(queue)
           new == transcript'
<1>1. /\ queue # <<>> /\ queue \in Seq(Event) /\ h \in Event /\ h \in Entry
           /\ transcript \in Seq(Entry)
      /\ queue' = rest
  BY TailOf DEF Receive, TypeOK, Entry
<1>2. \A x : Has(queue, x) <=> Has(rest, x) \/ h = x
  BY <1>1, TailHas
<1>3. /\ \A p, q \in DOMAIN rest : rest[p] = e /\ rest[q] = f => p <= q
      /\ h = f => ~Has(rest, e)
  BY <1>1, RestInOrder DEF InOrder
<1>4. new = IF h.kind \in Approval THEN Upsert(h) ELSE Append(transcript, h)
  BY DEF Receive
<1>5. /\ \A p, q \in DOMAIN transcript : transcript[p] = e /\ transcript[q] = f => p <= q
      /\ ~(Has(transcript, f) /\ Has(queue, e))
  BY DEF InOrder
<1> HIDE DEF h, rest
<1>6. CASE new = Append(transcript, h)
  <2>1. h = e => ~Has(transcript, f)
    BY <1>2, <1>5
  <2>2. \A p, q \in DOMAIN new : new[p] = e /\ new[q] = f => p <= q
    BY <1>1, <1>5, <1>6, <2>1, LastInOrder
  <2>3. Has(new, f) <=> Has(transcript, f) \/ h = f
    BY <1>1, <1>6, AppendHas
  <2>4. ~(Has(new, f) /\ Has(rest, e))
    BY <1>2, <1>3, <1>5, <2>3
  <2> HIDE DEF new
  <2>5. InOrder(new, rest, e, f)
    BY <1>3, <2>2, <2>4, Zenon DEF InOrder
  <2> QED BY <1>1, <2>5 DEF new
<1>7. CASE h.kind \in Approval /\ new # Append(transcript, h)
  <2> DEFINE places == {i \in DOMAIN transcript :
                          transcript[i].kind \in Approval /\ transcript[i].of = h.of}
             changed == [i \in DOMAIN transcript |-> IF i \in places THEN h ELSE transcript[i]]
  <2>1. new = changed
    BY <1>4, <1>7 DEF Upsert
  <2>2. DOMAIN changed = DOMAIN transcript
    OBVIOUS
  <2>3. \A i \in DOMAIN transcript : \A x :
          x.kind \notin Approval => (changed[i] = x <=> transcript[i] = x)
    BY <1>7
  <2> HIDE DEF changed, new
  <2>4. \A p, q \in DOMAIN new : new[p] = e /\ new[q] = f => p <= q
    BY <1>5, <2>1, <2>2, <2>3
  <2>5. Has(new, f) => Has(transcript, f)
    BY <2>1, <2>2, <2>3, Zenon DEF Has
  <2>6. ~(Has(new, f) /\ Has(rest, e))
    BY <1>2, <1>5, <2>5
  <2>7. InOrder(new, rest, e, f)
    BY <1>3, <2>4, <2>6, Zenon DEF InOrder
  <2> QED BY <1>1, <2>7 DEF new
<1> QED BY <1>4, <1>6, <1>7

LEMMA ReceiveHas ==
  ASSUME TypeOK, Receive, mounted
  PROVE  /\ \A x : x.kind \notin Approval =>
              (Has(transcript', x) \/ Has(queue', x) <=> Has(transcript, x) \/ Has(queue, x))
         /\ \A x \in Message : Has(transcript', x) <=> Has(transcript, x)
<1> DEFINE h == Head(queue)
           rest == Tail(queue)
           new == transcript'
<1>1. /\ queue # <<>> /\ queue \in Seq(Event) /\ h \in Event /\ h \in Entry
           /\ transcript \in Seq(Entry)
      /\ queue' = rest
  BY TailOf DEF Receive, TypeOK, Entry
<1>2. \A x : Has(queue, x) <=> Has(rest, x) \/ h = x
  BY <1>1, TailHas
<1>3. new = IF h.kind \in Approval THEN Upsert(h) ELSE Append(transcript, h)
  BY DEF Receive
<1>4. \A x \in Message : x # h /\ x.kind \notin Approval
  BY <1>1 DEF Message, Event, Approval
<1> HIDE DEF h, rest
<1>5. CASE new = Append(transcript, h)
  <2>1. \A x : Has(new, x) <=> Has(transcript, x) \/ h = x
    BY <1>1, <1>5, AppendHas
  <2> HIDE DEF new
  <2>2. /\ \A x : Has(new, x) \/ Has(rest, x) <=> Has(transcript, x) \/ Has(queue, x)
        /\ \A x \in Message : Has(new, x) <=> Has(transcript, x)
    BY <1>2, <1>4, <2>1
  <2> QED BY <1>1, <2>2 DEF new
<1>6. CASE h.kind \in Approval /\ new # Append(transcript, h)
  <2> DEFINE places == {i \in DOMAIN transcript :
                          transcript[i].kind \in Approval /\ transcript[i].of = h.of}
             changed == [i \in DOMAIN transcript |-> IF i \in places THEN h ELSE transcript[i]]
  <2>1. new = changed
    BY <1>3, <1>6 DEF Upsert
  <2>2. DOMAIN changed = DOMAIN transcript
    OBVIOUS
  <2>3. \A i \in DOMAIN transcript : \A x :
          x.kind \notin Approval => (changed[i] = x <=> transcript[i] = x)
    BY <1>6
  <2> HIDE DEF changed, new
  <2>4. \A x : x.kind \notin Approval => (Has(new, x) <=> Has(transcript, x)) /\ x # h
    BY <1>6, <2>1, <2>2, <2>3, Zenon DEF Has
  <2>5. /\ \A x : x.kind \notin Approval =>
             (Has(new, x) \/ Has(rest, x) <=> Has(transcript, x) \/ Has(queue, x))
        /\ \A x \in Message : Has(new, x) <=> Has(transcript, x)
    BY <1>2, <1>4, <2>4
  <2> QED BY <1>1, <2>5 DEF new
<1> QED BY <1>3, <1>5, <1>6

CallEntry == [kind: {"requested", "result"}, of: Call]

LEMMA MessageFacts ==
  /\ \A t \in Turn : /\ User(t) \in Message /\ User(t) \in Row /\ User(t) \in Entry
                     /\ Model(t) \in Message /\ Model(t) \in Row /\ Model(t) \in Entry
  /\ \A t : User(t).kind = "user" /\ Model(t).kind = "model"
  /\ \A t, u : /\ User(t) = User(u) => t = u
               /\ Model(t) = Model(u) => t = u
               /\ User(t) # Model(u)
  /\ \A x \in Row : x.kind \in {"user", "model"} =>
       x \in Message /\ \E t \in Turn : x = User(t) \/ x = Model(t)
  /\ \A x \in Message : x.kind \in {"user", "model"} /\ x.kind \notin Approval
  /\ \A x \in Message : x \notin Event
<1>1. \A t \in Turn : User(t) \in Message /\ Model(t) \in Message
  BY DEF User, Model, Message
<1>2. \A x \in Message : x.kind \in {"user", "model"} /\ x.of \in Turn
        /\ (x = User(x.of) \/ x = Model(x.of))
  BY DEF User, Model, Message
<1>3. \A t : User(t).kind = "user" /\ Model(t).kind = "model"
  BY DEF User, Model
<1>4. \A t, u : /\ User(t) = User(u) => t = u
                /\ Model(t) = Model(u) => t = u
                /\ User(t) # Model(u)
  BY DEF User, Model
<1>5. \A x \in Row : x.kind \in {"user", "model"} => x \in Message
  BY DEF Row, Message
<1>6. \A x \in Message : x \notin Event
  BY <1>2 DEF Event
<1>7. \A x \in Message : x.kind \notin Approval /\ x \in Row /\ x \in Entry
  BY <1>2 DEF Approval, Row, Entry
<1> QED BY <1>1, <1>2, <1>3, <1>4, <1>5, <1>6, <1>7

LEMMA CallFacts ==
  /\ \A c \in Call : /\ Requested(c) \in CallEntry /\ Requested(c) \in Event
                     /\ Result(c) \in CallEntry /\ Result(c) \in Event
                     /\ ToolRow(c) \in Row
  /\ \A c : ToolRow(c).kind = "tool" /\ ToolRow(c).of = c
  /\ \A c, d : /\ Requested(c) = Requested(d) => c = d
               /\ Result(c) = Result(d) => c = d
               /\ ToolRow(c) = ToolRow(d) => c = d
               /\ Requested(c) # Result(d)
  /\ \A x \in CallEntry : x.kind \notin Approval /\ x.kind \in {"requested", "result"}
  /\ \A x \in CallEntry : x \notin Message
  /\ \A x \in Row : x.kind = "tool" => x.of \in Call /\ x = ToolRow(x.of)
<1>1. \A c \in Call : /\ Requested(c) \in CallEntry /\ Requested(c) \in Event
                      /\ Result(c) \in CallEntry /\ Result(c) \in Event
                      /\ ToolRow(c) \in Row
  BY DEF Requested, Result, ToolRow, CallEntry, Event, Row
<1>2. /\ \A c : ToolRow(c).kind = "tool" /\ ToolRow(c).of = c
      /\ \A c, d : /\ Requested(c) = Requested(d) => c = d
                   /\ Result(c) = Result(d) => c = d
                   /\ ToolRow(c) = ToolRow(d) => c = d
                   /\ Requested(c) # Result(d)
  BY DEF Requested, Result, ToolRow
<1>3. \A x \in CallEntry : x.kind \notin Approval /\ x.kind \in {"requested", "result"}
  BY DEF CallEntry, Approval
<1>4. \A x \in CallEntry : x \notin Message
  BY <1>3 DEF Message
<1>5. \A x \in Row : x.kind = "tool" => x.of \in Call /\ x = ToolRow(x.of)
  BY DEF Row, Message, ToolRow
<1> QED BY <1>1, <1>2, <1>3, <1>4, <1>5

\* The rows of these kinds are those of before.
KeepsRows(kinds) ==
    /\ \A i : i \in DOMAIN stored' /\ stored'[i].kind \in kinds
         <=> i \in DOMAIN stored /\ stored[i].kind \in kinds
    /\ \A i \in DOMAIN stored : stored[i].kind \in kinds => stored'[i] = stored[i]

LEMMA StoreKeepsRows ==
  ASSUME TypeOK, NEW kind, NEW of, [kind |-> kind, of |-> of] \in Row, Store(kind, of),
         NEW kinds, kind \notin kinds
  PROVE  KeepsRows(kinds)
<1>1. /\ \A i \in DOMAIN stored : i \in DOMAIN stored' /\ stored'[i] = stored[i]
      /\ stored'[Len(stored) + 1] = [kind |-> kind, of |-> of]
      /\ \A i \in DOMAIN stored' : i \in DOMAIN stored \/ i = Len(stored) + 1
  BY Stored DEF TypeOK
<1>2. stored'[Len(stored) + 1].kind \notin kinds
  BY <1>1
<1> DEFINE n == Len(stored) + 1
<1> HIDE DEF n
<1> QED BY <1>1, <1>2 DEF KeepsRows, n

LEMMA KeepsHas ==
  ASSUME NEW kinds, KeepsRows(kinds), NEW e, e.kind \in kinds
  PROVE  Has(stored', e) <=> Has(stored, e)
BY DEF KeepsRows, Has

LEMMA SameKeepsRows ==
  ASSUME UNCHANGED stored
  PROVE  \A kinds : KeepsRows(kinds)
BY DEF KeepsRows

\* An event comes after what is there.
LEMMA BroadcastOrder ==
  ASSUME TypeOK, NEW c \in Call,
         NEW kind \in {"requested", "decided", "pending", "granted", "rejected", "result"},
         Broadcast(kind, c),
         NEW x, x = [kind |-> kind, of |-> c]
  PROVE  /\ \A e, f : /\ InOrder(transcript, queue, e, f)
                      /\ x = e => ~Has(transcript, f) /\ ~Has(queue, f)
                      => InOrder(transcript, queue', e, f)
         /\ \A e : e # x => (Has(queue', e) <=> Has(queue, e))
         /\ socket = "open" => Has(queue', x)
<1>1. x \in Event /\ queue \in Seq(Event)
  BY DEF Event, TypeOK
<1>2. queue' = IF socket \in {"accepted", "open"} THEN Append(queue, x) ELSE queue
  BY DEF Broadcast
<1>3. \A e, f : /\ InOrder(transcript, queue, e, f)
                /\ x = e => ~Has(transcript, f) /\ ~Has(queue, f)
                => InOrder(transcript, Append(queue, x), e, f)
  BY <1>1, SentInOrder
<1>4. \A e : Has(Append(queue, x), e) <=> Has(queue, e) \/ x = e
  BY <1>1, AppendHas
<1> DEFINE new == Append(queue, x)
<1> HIDE DEF new
<1> QED BY <1>2, <1>3, <1>4 DEF new

\* What came in time was so all the time; nothing is stored before it is asked for.
LEMMA InTimeStep ==
  ASSUME TypeOK, Backed, [Next]_vars, InTime'
  PROVE  InTime /\ (BackendStep \/ (\E t \in Turn : Send(t)) => Ready)
<1> USE DEF backend, connection, requests, history
<1>1. CASE BackendStep
  <2>1. UNCHANGED <<post, get, hasConnectedBefore, disturbed>>
    BY <1>1, BackendFrame
  <2>2. Late
    <3>1. \A c \in Call : Active(c) => Late
      BY DEF Backed, Late
    <3>2. \A t \in Turn : turn[t] = "running" => Late
      BY DEF Backed, Late
    <3>3. CASE \E t \in Turn : BeginTurn(t) \/ EndTurn(t) \/ \E c \in Call : RequestTool(t, c)
      BY <3>2, <3>3 DEF BeginTurn, EndTurn, RequestTool, Late
    <3>4. CASE \E c \in Call : Decide(c) \/ PolicyError(c) \/ PersistApprovalRequest(c)
                                 \/ AnnounceApproval(c)
      BY <3>1, <3>4 DEF Decide, PolicyError, PersistApprovalRequest, AnnounceApproval, At, Active
    <3>5. CASE \E c \in Call : Resume(c) \/ PersistToolExecution(c) \/ Report(c)
      BY <3>1, <3>5 DEF Resume, PersistToolExecution, Report, At, Active
    <3>6. CASE \E c \in Call : TryDecide(c)
      BY <3>1, <3>6 DEF TryDecide, Backed, Active
    <3> QED BY <1>1, <3>3, <3>4, <3>5, <3>6 DEF BackendStep
  <2>3. Ready
    BY <2>1, <2>2 DEF InTime, Late, Ready
  <2> QED BY <2>1, <2>2, <2>3 DEF InTime
<1>2. ASSUME NEW t \in Turn, Send(t) PROVE InTime /\ Ready
  <2>1. UNCHANGED <<get, hasConnectedBefore, disturbed>> /\ post'[t] = "sent"
    BY <1>2 DEF Send, TypeOK
  <2>2. Late'
    BY <2>1 DEF Late
  <2> QED BY <2>1, <2>2 DEF InTime, Ready
<1>3. ASSUME disturbed' = disturbed, Late => Late', Ready' => Ready PROVE InTime
  BY <1>3 DEF InTime
<1>4. ASSUME disturbed' = (disturbed \/ Late) PROVE InTime
  BY <1>4 DEF InTime
<1>5. ASSUME NEW t \in Turn, PostReturns(t) PROVE InTime
  <2>1. UNCHANGED <<get, hasConnectedBefore, disturbed>> /\ \A u \in Turn : post[u] # "none"
             => post'[u] # "none"
    BY <1>5 DEF PostReturns, TypeOK
  <2> QED BY <1>3, <2>1 DEF Late, Ready
<1>6. ASSUME NEW g \in Get, ReadState(g) PROVE InTime
  <2>1. UNCHANGED <<post, disturbed>> /\ get'[g] # "none"
    BY <1>6 DEF ReadState, TypeOK
  <2>2. ~Ready'
    BY <2>1 DEF Ready
  <2> QED BY <1>3, <2>1, <2>2 DEF Late
<1>7. ASSUME NEW g \in Get, Reconcile(g) \/ GetFails(g) PROVE InTime
  BY <1>4, <1>7 DEF Reconcile, GetFails, Forget
<1>8. ASSUME Open PROVE InTime
  BY <1>4, <1>8 DEF Open
<1>9. ASSUME Break \/ Unmount \/ ClearChat PROVE InTime
  BY <1>9 DEF Break, Unmount, ClearChat, InTime
<1>10. ASSUME Mount PROVE InTime
  <2>1. UNCHANGED <<post, disturbed>> /\ get'[mount] = "sent" /\ mount \in Get
    BY <1>10, BoundsAssumption DEF Mount, Fetch, TypeOK, Get, mount
  <2>2. ~Ready'
    BY <2>1 DEF Ready
  <2> QED BY <1>3, <2>1, <2>2 DEF Late
<1>11. ASSUME Connect \/ Accept \/ Receive \/ DeleteRows \/ Cleared \/ UNCHANGED vars PROVE InTime
  <2>1. UNCHANGED <<post, disturbed, get, hasConnectedBefore>>
    BY <1>11 DEF Connect, Accept, Receive, DeleteRows, Cleared, vars
  <2> QED BY <1>3, <2>1 DEF Late, Ready
<1>12. /\ BackendStep => InTime /\ Ready
       /\ (\E t \in Turn : Send(t)) => InTime /\ Ready
  BY <1>1, <1>2
<1>13. InTime
  BY <1>12, <1>5, <1>6, <1>7, <1>8, <1>9, <1>10, <1>11 DEF Next, BackendStep
<1> QED BY <1>12, <1>13

\* A page that was there all the time is not replaced, and nothing it was sent is lost.
LEMMA UndisturbedStep ==
  ASSUME TypeOK, Undisturbed, MessagesThere, ~disturbed', [Next]_vars,
         BackendStep \/ (\E t \in Turn : Send(t)) => Ready
  PROVE  /\ Undisturbed'
         /\ \/ BackendStep
            \/ \E t \in Turn : Send(t) \/ PostReturns(t)
            \/ Receive
            \/ UNCHANGED <<stored, turn, maker, stage, queue, transcript, post>>
<1> USE DEF backend, connection, requests, history
<1>1. mount \in Get
  BY BoundsAssumption DEF Get, mount
<1>2. get[mount] # "none" => \A t \in Turn : post[t] = "none"
  <2>1. transcript = <<>> => \A e : ~Has(transcript, e)
    BY DEF Has
  <2> QED BY <2>1 DEF Undisturbed, MessagesThere
<1>3. CASE BackendStep
  <2>1. \A g \in Get : get'[g] = "none"
    BY <1>3, BackendFrame DEF Ready
  <2>2. UNCHANGED <<socket, hasConnectedBefore, mounted, post, clear>>
    BY <1>3, BackendFrame
  <2>3. Undisturbed'
    BY <1>1, <2>1, <2>2 DEF Undisturbed
  <2> QED BY <1>3, <2>3
<1>4. ASSUME NEW t \in Turn, Send(t) PROVE Undisturbed'
  <2>1. (\A g \in Get : get'[g] = "none") /\ UNCHANGED <<socket, hasConnectedBefore, mounted,
          clear>>
    BY <1>4 DEF Send, Ready
  <2>2. \A u \in Turn : post'[u] # "orphaned"
    BY <1>4 DEF Send, TypeOK, Undisturbed
  <2> QED BY <1>1, <2>1, <2>2 DEF Undisturbed
<1>5. ASSUME NEW t \in Turn, PostReturns(t) PROVE Undisturbed'
  <2>1. UNCHANGED <<get, socket, hasConnectedBefore, mounted, clear>> /\ get[mount] = "none"
    BY <1>2, <1>5 DEF PostReturns, TypeOK
  <2>2. \A u \in Turn : post'[u] # "orphaned"
    BY <1>5 DEF PostReturns, TypeOK, Undisturbed
  <2> QED BY <2>1, <2>2 DEF Undisturbed
<1>6. CASE Receive
  <2>1. UNCHANGED <<get, socket, hasConnectedBefore, mounted, clear, post>> /\ get[mount] = "none"
    BY <1>6 DEF Receive, Undisturbed
  <2> QED BY <1>6, <2>1 DEF Undisturbed
<1>7. ASSUME NEW g \in Get, ReadState(g) \/ Reconcile(g) \/ GetFails(g)
      PROVE  Undisturbed' /\ UNCHANGED <<stored, turn, maker, stage, queue, transcript, post>>
  <2>1. g = mount
    BY <1>7 DEF ReadState, Reconcile, GetFails, Undisturbed
  <2>2. /\ get[mount] # "none"
        /\ UNCHANGED <<socket, hasConnectedBefore, mounted, clear, post, stored, turn, maker,
             stage, queue>>
        /\ \A h \in Get \ {mount} : get'[h] = get[h]
    <3>1. CASE ReadState(g)
      BY <1>1, <2>1, <3>1 DEF ReadState, TypeOK
    <3>2. CASE Reconcile(g)
      BY <1>1, <2>1, <3>2 DEF Reconcile, Forget, TypeOK
    <3>3. CASE GetFails(g)
      BY <1>1, <2>1, <3>3 DEF GetFails, Forget, TypeOK
    <3> QED BY <1>7, <3>1, <3>2, <3>3
  <2>3. /\ stored = <<>> /\ queue = <<>> /\ transcript = <<>> /\ snapshot[mount] = <<>>
    BY <2>2 DEF Undisturbed
  <2>4. UNCHANGED transcript
    BY <1>7, <2>1, <2>3 DEF ReadState, Reconcile, GetFails, Forget
  <2>5. get'[mount] # "none" => snapshot'[mount] = <<>>
    <3>1. CASE ReadState(g)
      <4> DEFINE es == EntriesFrom(Returned)
      <4>1. Returned = {}
        BY <2>3, ReturnedRows
      <4>2. es \in Seq(Entry) /\ DOMAIN es = {}
        <5>1. /\ es \in Seq(Entry) /\ DOMAIN es = DOMAIN Places(Returned)
              /\ \A n \in DOMAIN Places(Returned) : RowAt(Places(Returned)[n]) \in Returned
          BY ReturnedRows, EntriesOf, Zenon DEF TypeOK
        <5> HIDE DEF es
        <5> QED BY <4>1, <5>1
      <4> HIDE DEF es
      <4>3. es = <<>>
        BY <4>2
      <4> QED BY <1>1, <2>1, <3>1, <4>3 DEF ReadState, TypeOK, es
    <3>2. CASE Reconcile(g) \/ GetFails(g)
      BY <1>1, <2>1, <3>2 DEF Reconcile, GetFails, Forget, TypeOK
    <3> QED BY <1>7, <3>1, <3>2
  <2> QED BY <2>2, <2>3, <2>4, <2>5 DEF Undisturbed
<1>8. CASE Connect \/ Accept
  <2>1. ~Connect
    BY DEF Connect, Undisturbed
  <2>2. socket' = "accepted" /\ ~hasConnectedBefore /\ hasConnectedBefore' = hasConnectedBefore
    <3>1. socket = "connecting" /\ socket' = "accepted" /\ hasConnectedBefore' = hasConnectedBefore
      BY <1>8, <2>1 DEF Accept
    <3>2. ~hasConnectedBefore
      BY <3>1 DEF Undisturbed
    <3> QED BY <3>1, <3>2
  <2>3. UNCHANGED <<stored, turn, maker, stage, queue, transcript, post, mounted, clear, get,
          snapshot>>
    BY <1>8, <2>1 DEF Accept
  <2> QED BY <2>2, <2>3 DEF Undisturbed
<1>9. CASE Open
  <2>1. UNCHANGED get
    BY <1>9 DEF Open, Undisturbed
  <2> QED BY <1>9, <2>1 DEF Open, Undisturbed
<1>10. CASE Break \/ Unmount \/ ClearChat
  BY <1>10 DEF Break, Unmount, ClearChat
<1>11. CASE Mount \/ DeleteRows \/ Cleared
  BY <1>11 DEF Mount, DeleteRows, Cleared, Undisturbed
<1>12. CASE UNCHANGED vars
  BY <1>12 DEF vars, Undisturbed
<1> QED BY <1>3, <1>4, <1>5, <1>6, <1>7, <1>8, <1>9, <1>10, <1>11, <1>12 DEF Next, BackendStep

LEMMA StoreOnce ==
  ASSUME TypeOK, RowsOnce, NEW kind, NEW of, [kind |-> kind, of |-> of] \in Row, Store(kind, of),
         kind # "approval" => ~Has(stored, [kind |-> kind, of |-> of])
  PROVE  RowsOnce'
<1> DEFINE x == [kind |-> kind, of |-> of]
           n == Len(stored) + 1
<1>1. /\ \A i \in DOMAIN stored : i \in DOMAIN stored' /\ stored'[i] = stored[i]
      /\ stored'[n] = x
      /\ \A i \in DOMAIN stored' : i \in DOMAIN stored \/ i = n
  BY Stored DEF TypeOK
<1>2. x.kind # "approval" => \A i \in DOMAIN stored : stored[i] # x
  BY DEF Has
<1> HIDE DEF x, n
<1> QED BY <1>1, <1>2 DEF RowsOnce

LEMMA RowsOnceStep ==
  ASSUME TypeOK, RowsOnce, MessagesThere, CallsThere,
         BackendStep \/ UNCHANGED stored
  PROVE  RowsOnce'
<1> USE DEF connection, requests, history
<1>1. CASE UNCHANGED stored
  BY <1>1 DEF RowsOnce
<1>2. ASSUME NEW t \in Turn, BeginTurn(t) PROVE RowsOnce'
  BY <1>2, StoreOnce, RowTyped DEF BeginTurn, MessagesThere, User
<1>3. ASSUME NEW t \in Turn, EndTurn(t) PROVE RowsOnce'
  <2>1. turn[t] = "running" /\ (Store("model", t) \/ UNCHANGED stored)
    BY <1>3 DEF EndTurn
  <2>2. [kind |-> "model", of |-> t] \in Row /\ ~Has(stored, [kind |-> "model", of |-> t])
    BY <2>1, RowTyped DEF MessagesThere, Model
  <2> QED BY <1>1, <2>1, <2>2, StoreOnce
<1>4. ASSUME NEW c \in Call, PersistToolExecution(c) PROVE RowsOnce'
  <2>1. stage[c] = "recording" /\ Store("tool", c)
    BY <1>4 DEF PersistToolExecution, At
  <2>2. [kind |-> "tool", of |-> c] \in Row /\ ~Has(stored, [kind |-> "tool", of |-> c])
    BY <2>1, RowTyped DEF CallsThere, ToolRow
  <2> QED BY <2>1, <2>2, StoreOnce
<1>5. ASSUME NEW c \in Call, PersistApprovalRequest(c) PROVE RowsOnce'
  <2>1. Store("approval", c) /\ [kind |-> "approval", of |-> c] \in Row
    BY <1>5, RowTyped DEF PersistApprovalRequest
  <2> QED BY <2>1, StoreOnce
<1>6. ASSUME NEW t \in Turn, NEW c \in Call, RequestTool(t, c) PROVE RowsOnce'
  BY <1>1, <1>6 DEF RequestTool
<1>7. ASSUME NEW c \in Call, Decide(c) \/ PolicyError(c) \/ AnnounceApproval(c) PROVE RowsOnce'
  BY <1>1, <1>7 DEF Decide, PolicyError, AnnounceApproval
<1>8. ASSUME NEW c \in Call, TryDecide(c) \/ Resume(c) \/ Report(c) PROVE RowsOnce'
  BY <1>1, <1>8 DEF TryDecide, Resume, Report
<1> QED BY <1>1, <1>2, <1>3, <1>4, <1>5, <1>6, <1>7, <1>8 DEF BackendStep

Messages == {"user", "model"}

LEMMA MessagesKept ==
  ASSUME TypeOK, MessagesThere, MessagesInOrder, UNCHANGED <<turn, post>>, KeepsRows(Messages),
         \A x \in Message : Has(transcript', x) <=> Has(transcript, x),
         \A x, y \in Message : InOrder(transcript, queue, x, y)
           => InOrder(transcript', queue', x, y)
  PROVE  MessagesThere' /\ MessagesInOrder'
<1>1. \A t \in Turn : /\ User(t) \in Message /\ Model(t) \in Message
                      /\ Has(stored', User(t)) <=> Has(stored, User(t))
                      /\ Has(stored', Model(t)) <=> Has(stored, Model(t))
  BY KeepsHas, MessageFacts DEF Messages
<1>2. MessagesThere'
  BY <1>1 DEF MessagesThere
<1>3. \A i \in DOMAIN stored' : stored'[i].kind \in Messages =>
        i \in DOMAIN stored /\ stored'[i] = stored[i] /\ stored[i] \in Message
  <2>1. \A i \in DOMAIN stored : stored[i] \in Row
    BY DEF TypeOK
  <2> QED BY <2>1, MessageFacts DEF KeepsRows, Messages
<1>4. \A t : Model(t).kind \in Messages
  BY MessageFacts DEF Messages
<1>5. ASSUME NEW i \in DOMAIN stored', NEW j \in DOMAIN stored',
             i <= j, stored'[i].kind \in Messages, stored'[j].kind \in Messages
      PROVE  InOrder(transcript', queue', stored'[i], stored'[j])
  BY <1>3, <1>5 DEF MessagesInOrder, Messages
<1>6. ASSUME NEW t \in Turn, post[t] = "sent", NEW u \in Turn
      PROVE  InOrder(transcript', queue', User(u), User(t))
               /\ InOrder(transcript', queue', Model(u), User(t))
  BY <1>1, <1>6 DEF MessagesInOrder
<1>7. ASSUME NEW t \in Turn, post[t] = "sent", NEW i \in DOMAIN stored', NEW j \in DOMAIN stored',
             stored'[i] = Model(t), stored'[j].kind \in Messages
      PROVE  j <= i
  BY <1>3, <1>4, <1>7 DEF MessagesInOrder, Messages
<1> QED BY <1>2, <1>5, <1>6, <1>7 DEF MessagesInOrder, Messages

\* What a call does to the rows and the events.
LEMMA CallFrame ==
  ASSUME TypeOK, NEW c \in Call,
         \/ \E t \in Turn : RequestTool(t, c)
         \/ Decide(c) \/ PolicyError(c) \/ PersistApprovalRequest(c) \/ AnnounceApproval(c)
         \/ TryDecide(c) \/ Resume(c) \/ PersistToolExecution(c) \/ Report(c)
  PROVE  /\ UNCHANGED <<turn, transcript, post>>
         /\ UNCHANGED stored \/ Store("approval", c) \/ Store("tool", c)
         /\ \/ UNCHANGED queue
            \/ \E kind \in {"requested", "decided", "pending", "granted", "rejected", "result"} :
                 Broadcast(kind, c)
<1> USE DEF connection, requests, history
<1>1. CASE \E t \in Turn : RequestTool(t, c)
  BY <1>1 DEF RequestTool
<1>2. CASE Decide(c) \/ PolicyError(c) \/ PersistApprovalRequest(c) \/ AnnounceApproval(c)
  BY <1>2 DEF Decide, PolicyError, PersistApprovalRequest, AnnounceApproval
<1>3. CASE TryDecide(c) \/ Resume(c) \/ PersistToolExecution(c) \/ Report(c)
  BY <1>3 DEF TryDecide, Resume, PersistToolExecution, Report
<1> QED BY <1>1, <1>2, <1>3

LEMMA MessagesCall ==
  ASSUME TypeOK, MessagesThere, MessagesInOrder, NEW c \in Call,
         UNCHANGED <<turn, transcript, post>>,
         UNCHANGED stored \/ Store("approval", c) \/ Store("tool", c),
         \/ UNCHANGED queue
         \/ \E kind \in {"requested", "decided", "pending", "granted", "rejected", "result"} :
              Broadcast(kind, c)
  PROVE  MessagesThere' /\ MessagesInOrder'
<1>1. KeepsRows(Messages)
  <2>1. CASE UNCHANGED stored
    BY <2>1, SameKeepsRows
  <2>2. ASSUME NEW kind \in {"tool", "approval"}, Store(kind, c) PROVE KeepsRows(Messages)
    <3>1. kind \notin Messages /\ [kind |-> kind, of |-> c] \in Row
      BY RowTyped DEF Messages
    <3> QED BY <2>2, <3>1, StoreKeepsRows
  <2> QED BY <2>1, <2>2
<1>2. \A x, y \in Message : InOrder(transcript, queue, x, y) => InOrder(transcript, queue', x, y)
  <2>1. CASE UNCHANGED queue
    BY <2>1
  <2>2. ASSUME NEW kind \in {"requested", "decided", "pending", "granted", "rejected", "result"},
               Broadcast(kind, c)
        PROVE  \A x, y \in Message : InOrder(transcript, queue, x, y)
                 => InOrder(transcript, queue', x, y)
    <3> DEFINE event == [kind |-> kind, of |-> c]
    <3>1. event \in Event
      BY DEF Event
    <3>2. \A x \in Message : x # event
      BY <3>1, MessageFacts
    <3> event = [kind |-> kind, of |-> c]
      OBVIOUS
    <3> HIDE DEF event
    <3>3. \A e, f : /\ InOrder(transcript, queue, e, f)
                    /\ event = e => ~Has(transcript, f) /\ ~Has(queue, f)
                    => InOrder(transcript, queue', e, f)
      BY <2>2, BroadcastOrder
    <3> QED BY <3>2, <3>3
  <2> QED BY <2>1, <2>2
<1> QED BY <1>1, <1>2, MessagesKept

LEMMA NoMessageSent ==
  ASSUME TypeOK
  PROVE  \A x \in Message : ~Has(queue, x)
BY QueueOfCalls, MessageFacts DEF Has

\* The turn of the page's POST begins: its question is the last message shown.
LEMMA MessagesBegin ==
  ASSUME TypeOK, Paged, Undisturbed, MessagesThere, MessagesInOrder,
         NEW t \in Turn, BeginTurn(t)
  PROVE  MessagesThere' /\ MessagesInOrder'
<1> DEFINE n == Len(stored) + 1
<1>1. /\ post[t] = "sent" /\ turn[t] = "none" /\ turn'[t] = "running"
      /\ \A u \in Turn : u # t => turn'[u] = turn[u]
      /\ UNCHANGED <<queue, transcript, post>>
      /\ stored' = Append(stored, User(t))
  BY DEF BeginTurn, Undisturbed, TypeOK, connection, requests, Store, User
<1>2. /\ User(t) \in Row /\ stored \in Seq(Row) /\ \A i \in DOMAIN stored : stored[i] \in Row
  BY MessageFacts DEF TypeOK
<1>3. /\ \A i \in DOMAIN stored : stored'[i] = stored[i]
      /\ stored'[n] = User(t)
      /\ DOMAIN stored = 1..Len(stored) /\ DOMAIN stored' = 1..n /\ Len(stored) \in Nat
  BY <1>1, <1>2, Appended
<1>4. \A e : Has(stored', e) <=> Has(stored, e) \/ User(t) = e
  BY <1>1, <1>2, AppendHas
<1>5. MessagesThere'
  <2>1. \A u \in Turn : /\ Has(stored', User(u)) <=> turn'[u] # "none"
                        /\ Has(stored', Model(u)) <=> turn'[u] = "answered"
    BY <1>1, <1>4, MessageFacts DEF MessagesThere
  <2>2. \A u \in Turn : turn'[u] = "answered" <=> turn[u] = "answered"
    BY <1>1
  <2> QED BY <1>1, <2>1, <2>2 DEF MessagesThere
<1>6. \A i \in DOMAIN stored' : i \in DOMAIN stored \/ i = n
  BY <1>3
<1>7. \A i \in DOMAIN stored : i < n
  BY <1>3
<1> HIDE DEF n
<1>8. ASSUME NEW i \in DOMAIN stored', NEW j \in DOMAIN stored', i <= j,
             stored'[i].kind \in {"user", "model"}, stored'[j].kind \in {"user", "model"}
      PROVE  InOrder(transcript, queue, stored'[i], stored'[j])
  <2>1. CASE j = n
    <3>1. stored'[i] \in Row
      BY <1>2, <1>3, <1>6
    <3>2. PICK u \in Turn : stored'[i] = User(u) \/ stored'[i] = Model(u)
      BY <1>8, <3>1, MessageFacts
    <3> QED BY <1>1, <1>3, <2>1, <3>2 DEF MessagesInOrder
  <2>2. CASE j # n
    <3>1. i \in DOMAIN stored /\ j \in DOMAIN stored
      BY <1>3, <1>6, <1>7, <1>8, <2>2
    <3> QED BY <1>3, <1>8, <3>1 DEF MessagesInOrder
  <2> QED BY <2>1, <2>2
<1>9. ASSUME NEW s \in Turn, post[s] = "sent" PROVE ~Has(stored', Model(s))
  <2>1. s = t
    BY <1>1, <1>9 DEF Paged
  <2> QED BY <1>1, <1>4, <2>1, MessageFacts DEF MessagesThere
<1>10. MessagesInOrder'
  BY <1>1, <1>8, <1>9 DEF MessagesInOrder, Has
<1> QED BY <1>5, <1>10

\* It ends: its answer is the last message stored, and not shown yet.
LEMMA MessagesEnd ==
  ASSUME TypeOK, Backed, Paged, Undisturbed, MessagesThere, MessagesInOrder,
         NEW t \in Turn, EndTurn(t)
  PROVE  MessagesThere' /\ MessagesInOrder'
<1> DEFINE n == Len(stored) + 1
<1>1. /\ turn[t] = "running" /\ \A u \in Turn : u # t => turn'[u] = turn[u]
      /\ UNCHANGED <<queue, transcript, post>>
      /\ \/ turn'[t] = "answered" /\ stored' = Append(stored, Model(t))
         \/ turn'[t] = "failed" /\ stored' = stored
  BY DEF EndTurn, TypeOK, connection, requests, Store, Model
<1>2. post[t] = "sent"
  <2>1. post[t] # "none" /\ post[t] # "done" /\ post[t] # "orphaned"
    BY <1>1 DEF Backed, Paged, Undisturbed
  <2> QED BY <2>1 DEF TypeOK
<1>3. CASE turn'[t] = "failed" /\ stored' = stored
  <2>1. \A u \in Turn : (turn'[u] = "none" <=> turn[u] = "none")
          /\ (turn'[u] = "answered" <=> turn[u] = "answered")
    BY <1>1, <1>3
  <2>2. MessagesThere'
    BY <1>1, <1>3, <2>1 DEF MessagesThere
  <2>3. MessagesInOrder'
    BY <1>1, <1>3 DEF MessagesInOrder
  <2> QED BY <2>2, <2>3
<1>4. CASE turn'[t] = "answered" /\ stored' = Append(stored, Model(t))
  <2>1. /\ Model(t) \in Row /\ stored \in Seq(Row) /\ \A i \in DOMAIN stored : stored[i] \in Row
    BY MessageFacts DEF TypeOK
  <2>2. /\ \A i \in DOMAIN stored : stored'[i] = stored[i]
        /\ stored'[n] = Model(t)
        /\ DOMAIN stored = 1..Len(stored) /\ DOMAIN stored' = 1..n /\ Len(stored) \in Nat
    BY <1>4, <2>1, Appended
  <2>3. \A e : Has(stored', e) <=> Has(stored, e) \/ Model(t) = e
    BY <1>4, <2>1, AppendHas
  <2>4. MessagesThere'
    <3>1. \A u \in Turn : /\ Has(stored', User(u)) <=> turn'[u] # "none"
                          /\ Has(stored', Model(u)) <=> turn'[u] = "answered"
      BY <1>1, <1>4, <2>3, MessageFacts DEF MessagesThere
    <3>2. \A u \in Turn : u # t => (turn'[u] = "answered" <=> turn[u] = "answered")
      BY <1>1
    <3> QED BY <1>1, <1>2, <3>1, <3>2 DEF MessagesThere
  <2>5. \A i \in DOMAIN stored' : i \in DOMAIN stored \/ i = n
    BY <2>2
  <2>6. \A i \in DOMAIN stored : i < n
    BY <2>2
  <2>7. ~Has(transcript, Model(t)) /\ ~Has(queue, Model(t))
    BY <1>2, NoMessageSent, MessageFacts DEF MessagesThere
  <2>8. \A i \in DOMAIN stored : stored[i] # Model(t)
    BY <1>1 DEF MessagesThere, Has
  <2> HIDE DEF n
  <2>9. ASSUME NEW i \in DOMAIN stored', NEW j \in DOMAIN stored', i <= j,
               stored'[i].kind \in {"user", "model"}, stored'[j].kind \in {"user", "model"}
        PROVE  InOrder(transcript, queue, stored'[i], stored'[j])
    <3>1. CASE j = n
      BY <2>2, <2>7, <3>1, AbsentInOrder
    <3>2. CASE j # n
      <4>1. i \in DOMAIN stored /\ j \in DOMAIN stored
        BY <2>2, <2>5, <2>6, <2>9, <3>2
      <4> QED BY <2>2, <2>9, <4>1 DEF MessagesInOrder
    <3> QED BY <3>1, <3>2
  <2>10. ASSUME NEW s \in Turn, post[s] = "sent", NEW i \in DOMAIN stored',
                  NEW j \in DOMAIN stored',
                stored'[i] = Model(s)
         PROVE  j <= i
    <3>1. s = t
      BY <1>2, <2>10 DEF Paged
    <3>2. i = n
      BY <2>2, <2>5, <2>8, <2>10, <3>1
    <3> QED BY <2>2, <2>5, <2>6, <3>2 DEF n
  <2>11. MessagesInOrder'
    BY <1>1, <2>9, <2>10 DEF MessagesInOrder
  <2> QED BY <2>4, <2>11
<1> QED BY <1>1, <1>3, <1>4

\* The page shows its question, after all there is.
LEMMA MessagesSend ==
  ASSUME TypeOK, Backed, Undisturbed, MessagesThere, MessagesInOrder,
         NEW t \in Turn, Send(t)
  PROVE  MessagesThere' /\ MessagesInOrder'
<1> DEFINE x == User(t)
<1>1. /\ post[t] = "none" /\ post'[t] = "sent" /\ \A u \in Turn : u # t
           => post'[u] = post[u] /\ post'[u] # "sent"
      /\ UNCHANGED <<stored, turn, queue>>
      /\ transcript' = Append(transcript, x)
  BY DEF Send, sending, TypeOK, connection, backend, User
<1>2. x \in Entry /\ x \in Message /\ transcript \in Seq(Entry) /\ turn[t] = "none"
  BY <1>1, MessageFacts DEF TypeOK, Backed
<1>3. \A e : Has(transcript', e) <=> Has(transcript, e) \/ x = e
  BY <1>1, <1>2, AppendHas
<1>4. /\ ~Has(stored, User(t)) /\ ~Has(stored, Model(t))
      /\ ~Has(transcript, x) /\ \A e \in Message : ~Has(queue, e)
  BY <1>1, <1>2, NoMessageSent DEF MessagesThere
<1>5. MessagesThere'
  BY <1>1, <1>2, <1>3, MessageFacts DEF MessagesThere
<1> HIDE DEF x
<1>6. \A e, f : /\ InOrder(transcript, queue, e, f)
                /\ x = e => ~Has(transcript, f)
                /\ x = f => ~Has(queue, e)
                => InOrder(transcript', queue, e, f)
  BY <1>1, <1>2, ShownInOrder
<1>7. ASSUME NEW i \in DOMAIN stored, NEW j \in DOMAIN stored, i <= j,
             stored[i].kind \in {"user", "model"}, stored[j].kind \in {"user", "model"}
      PROVE  InOrder(transcript', queue, stored[i], stored[j])
  <2>1. x # stored[i] /\ x # stored[j]
    BY <1>4 DEF Has, x
  <2> QED BY <1>6, <1>7, <2>1 DEF MessagesInOrder
<1>8. ASSUME NEW u \in Turn
      PROVE  InOrder(transcript', queue, User(u), x) /\ InOrder(transcript', queue, Model(u), x)
  <2>1. InOrder(transcript, queue, User(u), x) /\ InOrder(transcript, queue, Model(u), x)
    BY <1>2, <1>4, AbsentInOrder
  <2> QED BY <1>4, <1>6, <2>1, MessageFacts
<1>9. MessagesInOrder'
  <2>1. \A s \in Turn : post'[s] = "sent" => s = t
    BY <1>1
  <2>2. \A i \in DOMAIN stored : stored[i] # Model(t)
    BY <1>4 DEF Has
  <2> QED BY <1>1, <1>7, <1>8, <2>1, <2>2 DEF MessagesInOrder, x
<1> QED BY <1>5, <1>9

\* The page shows the answer, which is the last message stored.
LEMMA MessagesReturn ==
  ASSUME TypeOK, Paged, MessagesThere, MessagesInOrder, RowsOnce,
         NEW t \in Turn, PostReturns(t)
  PROVE  MessagesThere' /\ MessagesInOrder'
<1> DEFINE x == Model(t)
<1>1. /\ post[t] = "sent" /\ post'[t] = "done" /\ \A u \in Turn : u # t => post'[u] = post[u]
      /\ turn[t] \in {"answered", "failed"}
      /\ UNCHANGED <<stored, turn, queue>>
      /\ transcript' = IF turn[t] = "answered" THEN Append(transcript, x) ELSE transcript
  BY DEF PostReturns, TypeOK, connection, backend, Model
<1>2. \A u \in Turn : post'[u] # "sent"
  BY <1>1 DEF Paged
<1>3. CASE turn[t] # "answered"
  <2>1. transcript' = transcript
    BY <1>1, <1>3
  <2> QED BY <1>1, <1>2, <1>3, <2>1 DEF MessagesThere, MessagesInOrder
<1>4. CASE turn[t] = "answered"
  <2>1. transcript' = Append(transcript, x)
    BY <1>1, <1>4
  <2>2. x \in Entry /\ x \in Message /\ transcript \in Seq(Entry)
    BY MessageFacts DEF TypeOK
  <2>3. \A e : Has(transcript', e) <=> Has(transcript, e) \/ x = e
    BY <2>1, <2>2, AppendHas
  <2>4. ~Has(transcript, x) /\ \A e \in Message : ~Has(queue, e)
    BY <1>1, NoMessageSent DEF MessagesThere
  <2>5. MessagesThere'
    BY <1>1, <1>4, <2>3, MessageFacts DEF MessagesThere
  <2> HIDE DEF x
  <2>6. \A e, f : /\ InOrder(transcript, queue, e, f)
                  /\ x = e => ~Has(transcript, f)
                  /\ x = f => ~Has(queue, e)
                  => InOrder(transcript', queue, e, f)
    BY <2>1, <2>2, ShownInOrder
  <2>7. ASSUME NEW i \in DOMAIN stored, NEW j \in DOMAIN stored, i <= j,
               stored[i].kind \in {"user", "model"}, stored[j].kind \in {"user", "model"}
        PROVE  InOrder(transcript', queue, stored[i], stored[j])
    <3>1. x = stored[i] => stored[j] = x
      <4>1. ASSUME x = stored[i] PROVE j <= i
        BY <1>1, <2>7, <4>1 DEF MessagesInOrder, x
      <4>2. i \in Nat /\ j \in Nat
        BY DEF TypeOK
      <4> QED BY <2>7, <4>1, <4>2
    <3>2. stored[i] \in Message
      BY <2>7, MessageFacts DEF TypeOK
    <3>3. InOrder(transcript, queue, stored[i], stored[j])
      BY <2>7 DEF MessagesInOrder
    <3> QED BY <2>4, <2>6, <3>1, <3>2, <3>3
  <2>8. MessagesInOrder'
    BY <1>1, <1>2, <2>7 DEF MessagesInOrder
  <2> QED BY <2>5, <2>8
<1> QED BY <1>3, <1>4

LEMMA MessagesStep ==
  ASSUME TypeOK, Backed, Paged, Undisturbed, RowsOnce, MessagesThere, MessagesInOrder,
         \/ BackendStep
         \/ \E t \in Turn : Send(t) \/ PostReturns(t)
         \/ Receive
         \/ UNCHANGED <<stored, turn, maker, stage, queue, transcript, post>>
  PROVE  MessagesThere' /\ MessagesInOrder'
<1>1. ASSUME NEW t \in Turn, BeginTurn(t) \/ EndTurn(t) \/ Send(t) \/ PostReturns(t)
      PROVE  MessagesThere' /\ MessagesInOrder'
  BY <1>1, MessagesBegin, MessagesEnd, MessagesSend, MessagesReturn
<1>2. ASSUME NEW c \in Call,
             \/ \E t \in Turn : RequestTool(t, c)
             \/ Decide(c) \/ PolicyError(c) \/ PersistApprovalRequest(c) \/ AnnounceApproval(c)
             \/ TryDecide(c) \/ Resume(c) \/ PersistToolExecution(c) \/ Report(c)
      PROVE  MessagesThere' /\ MessagesInOrder'
  BY <1>2, CallFrame, MessagesCall
<1>3. CASE Receive
  <2>1. UNCHANGED <<stored, turn, post>> /\ mounted
    BY <1>3 DEF Receive, backend, requests, Undisturbed
  <2>2. \A x \in Message : Has(transcript', x) <=> Has(transcript, x)
    BY <1>3, <2>1, ReceiveHas
  <2>3. \A x, y \in Message : InOrder(transcript, queue, x, y) => InOrder(transcript', queue', x, y)
    BY <1>3, <2>1, ReceiveInOrder, MessageFacts
  <2>4. KeepsRows(Messages)
    BY <2>1, SameKeepsRows
  <2> QED BY <2>1, <2>2, <2>3, <2>4, MessagesKept
<1>4. CASE UNCHANGED <<stored, turn, maker, stage, queue, transcript, post>>
  BY <1>4, SameKeepsRows, MessagesKept
<1> QED BY <1>1, <1>2, <1>3, <1>4 DEF BackendStep

LEMMA StageStep ==
  ASSUME TypeOK, NEW c \in Call, NEW from, NEW to, At(c, from, to)
  PROVE  /\ stage[c] = from /\ stage'[c] = to
         /\ \A d \in Call : d # c => stage'[d] = stage[d]
BY DEF At, TypeOK

LEMMA CallsKept ==
  ASSUME TypeOK, CallsThere, CallsInOrder, KeepsRows({"tool"}),
         \A x \in CallEntry :
           Has(transcript', x) \/ Has(queue', x) <=> Has(transcript, x) \/ Has(queue, x),
         \A x, y \in CallEntry :
           InOrder(transcript, queue, x, y) => InOrder(transcript', queue', x, y),
         \A c \in Call : \A s \in {"idle", "recorded", "done"} : stage'[c] = s <=> stage[c] = s
  PROVE  CallsThere' /\ CallsInOrder'
<1>1. \A c \in Call : /\ Requested(c) \in CallEntry /\ Result(c) \in CallEntry
                      /\ Has(stored', ToolRow(c)) <=> Has(stored, ToolRow(c))
                      /\ ToolRow(c).kind = "tool"
  <2>1. \A c \in Call : ToolRow(c).kind \in {"tool"}
    BY CallFacts
  <2>2. \A c \in Call : Has(stored', ToolRow(c)) <=> Has(stored, ToolRow(c))
    BY <2>1, KeepsHas
  <2> QED BY <2>1, <2>2, CallFacts
<1>2. \A c \in Call : /\ stage'[c] = "idle" <=> stage[c] = "idle"
                      /\ stage'[c] = "recorded" <=> stage[c] = "recorded"
                      /\ stage'[c] = "done" <=> stage[c] = "done"
  OBVIOUS
<1>3. \A c \in Call : Active(c)' <=> Active(c)
  BY <1>2 DEF Active
<1>4. CallsThere'
  BY <1>1, <1>2, <1>3 DEF CallsThere
<1>5. \A i \in DOMAIN stored' : stored'[i].kind = "tool" =>
        i \in DOMAIN stored /\ stored'[i] = stored[i]
  BY DEF KeepsRows
<1>6. ASSUME NEW c \in Call
      PROVE  /\ InOrder(transcript', queue', Requested(c), Requested(c))
             /\ InOrder(transcript', queue', Requested(c), Result(c))
             /\ InOrder(transcript', queue', Result(c), Result(c))
  BY <1>1 DEF CallsInOrder
<1>7. ASSUME NEW c \in Call, NEW d \in Call, stage'[c] = "done", Active(d)'
      PROVE  InOrder(transcript', queue', Result(c), Requested(d))
  BY <1>1, <1>2, <1>3, <1>7 DEF CallsInOrder
<1>8. ASSUME NEW i \in DOMAIN stored', NEW j \in DOMAIN stored', NEW c \in Call, NEW d \in Call,
             i < j, stored'[i] = ToolRow(c), stored'[j] = ToolRow(d)
      PROVE  InOrder(transcript', queue', Result(c), Requested(d))
  <2>1. /\ i \in DOMAIN stored /\ stored[i] = ToolRow(c)
        /\ j \in DOMAIN stored /\ stored[j] = ToolRow(d)
    BY <1>1, <1>5, <1>8
  <2> QED BY <1>1, <1>8, <2>1 DEF CallsInOrder
<1>9. ASSUME NEW c \in Call, stage'[c] = "recorded", NEW i \in DOMAIN stored',
               NEW j \in DOMAIN stored',
             stored'[i] = ToolRow(c), stored'[j].kind = "tool"
      PROVE  j <= i
  <2>1. i \in DOMAIN stored /\ stored[i] = ToolRow(c) /\ j \in DOMAIN stored
          /\ stored[j].kind = "tool"
    BY <1>1, <1>5, <1>9
  <2> QED BY <1>2, <1>9, <2>1 DEF CallsInOrder
<1> QED BY <1>4, <1>6, <1>7, <1>8, <1>9 DEF CallsInOrder

\* The other events of a call are in no order that matters here.
LEMMA CallsNeutral ==
  ASSUME TypeOK, CallsThere, CallsInOrder, NEW c \in Call,
         UNCHANGED transcript, UNCHANGED stored \/ Store("approval", c),
         \/ UNCHANGED queue
         \/ \E kind \in {"decided", "pending", "granted", "rejected"} : Broadcast(kind, c),
         \/ UNCHANGED stage
         \/ \E from, to \in Stage \ {"idle", "recorded", "done"} : At(c, from, to)
  PROVE  CallsThere' /\ CallsInOrder'
<1>1. KeepsRows({"tool"})
  <2>1. CASE UNCHANGED stored
    BY <2>1, SameKeepsRows
  <2>2. CASE Store("approval", c)
    <3>1. "approval" \notin {"tool"} /\ [kind |-> "approval", of |-> c] \in Row
      BY RowTyped
    <3> QED BY <2>2, <3>1, StoreKeepsRows
  <2> QED BY <2>1, <2>2
<1>2. /\ \A x \in CallEntry : Has(queue', x) <=> Has(queue, x)
      /\ \A x, y \in CallEntry : InOrder(transcript, queue, x, y)
           => InOrder(transcript, queue', x, y)
  <2>1. CASE UNCHANGED queue
    BY <2>1
  <2>2. ASSUME NEW kind \in {"decided", "pending", "granted", "rejected"}, Broadcast(kind, c)
        PROVE  /\ \A x \in CallEntry : Has(queue', x) <=> Has(queue, x)
               /\ \A x, y \in CallEntry :
                    InOrder(transcript, queue, x, y) => InOrder(transcript, queue', x, y)
    <3> DEFINE event == [kind |-> kind, of |-> c]
    <3>1. \A x \in CallEntry : x # event
      BY CallFacts
    <3> event = [kind |-> kind, of |-> c]
      OBVIOUS
    <3> HIDE DEF event
    <3>2. /\ \A e, f : /\ InOrder(transcript, queue, e, f)
                       /\ event = e => ~Has(transcript, f) /\ ~Has(queue, f)
                       => InOrder(transcript, queue', e, f)
          /\ \A e : e # event => (Has(queue', e) <=> Has(queue, e))
      BY <2>2, BroadcastOrder
    <3> QED BY <3>1, <3>2
  <2> QED BY <2>1, <2>2
<1>3. \A d \in Call : \A s \in {"idle", "recorded", "done"} : stage'[d] = s <=> stage[d] = s
  <2>1. CASE UNCHANGED stage
    BY <2>1
  <2>2. ASSUME NEW from \in Stage \ {"idle", "recorded", "done"},
               NEW to \in Stage \ {"idle", "recorded", "done"}, At(c, from, to)
        PROVE  \A d \in Call : \A s \in {"idle", "recorded", "done"} : stage'[d] = s
                 <=> stage[d] = s
    BY <2>2, StageStep
  <2> QED BY <2>1, <2>2
<1> QED BY <1>1, <1>2, <1>3, CallsKept

\* A message is added to the page.
LEMMA CallsMessage ==
  ASSUME TypeOK, CallsThere, CallsInOrder, NEW x \in Message,
         transcript' = Append(transcript, x), UNCHANGED <<stored, queue, stage>>
  PROVE  CallsThere' /\ CallsInOrder'
<1>1. x \in Entry /\ transcript \in Seq(Entry) /\ \A e \in CallEntry : e # x
  BY CallFacts DEF TypeOK, Entry
<1>2. \A e : Has(transcript', e) <=> Has(transcript, e) \/ x = e
  BY <1>1, AppendHas
<1>3. \A e, f : /\ InOrder(transcript, queue, e, f)
                /\ x = e => ~Has(transcript, f)
                /\ x = f => ~Has(queue, e)
                => InOrder(transcript', queue, e, f)
  BY <1>1, ShownInOrder
<1>4. KeepsRows({"tool"})
  BY SameKeepsRows
<1>5. \A e \in CallEntry :
        Has(transcript', e) \/ Has(queue', e) <=> Has(transcript, e) \/ Has(queue, e)
  BY <1>1, <1>2
<1>6. \A e, f \in CallEntry :
        InOrder(transcript, queue, e, f) => InOrder(transcript', queue', e, f)
  BY <1>1, <1>3
<1> QED BY <1>4, <1>5, <1>6, CallsKept

LEMMA OneRunningTurn ==
  ASSUME TypeOK, Backed, Paged, Undisturbed,
         NEW t \in Turn, turn[t] = "running", NEW u \in Turn, turn[u] = "running"
  PROVE  t = u
<1>1. ASSUME NEW v \in Turn, turn[v] = "running" PROVE post[v] = "sent"
  <2>1. post[v] # "none" /\ post[v] # "done" /\ post[v] # "orphaned"
    BY <1>1 DEF Backed, Paged, Undisturbed
  <2> QED BY <2>1 DEF TypeOK
<1> QED BY <1>1 DEF Paged

\* A turn makes its next call when it has no other, and is connected.
LEMMA CallsRequest ==
  ASSUME TypeOK, Backed, Paged, Undisturbed, CallsThere, CallsInOrder, hasConnectedBefore,
         NEW t \in Turn, NEW c \in Call, RequestTool(t, c)
  PROVE  CallsThere' /\ CallsInOrder'
<1> DEFINE x == Requested(c)
<1>1. /\ stage[c] = "idle" /\ stage'[c] = "requested"
      /\ \A d \in Call : d # c => stage'[d] = stage[d]
  BY StageStep DEF RequestTool
<1>2. /\ UNCHANGED <<stored, transcript>> /\ Broadcast("requested", c)
      /\ turn[t] = "running" /\ ~Executes(t)
  BY DEF RequestTool
<1>3. socket = "open"
  BY DEF Undisturbed
<1>4. /\ \A e, f : /\ InOrder(transcript, queue, e, f)
                   /\ x = e => ~Has(transcript, f) /\ ~Has(queue, f)
                   => InOrder(transcript, queue', e, f)
      /\ \A e : e # x => (Has(queue', e) <=> Has(queue, e))
      /\ Has(queue', x)
  BY <1>2, <1>3, BroadcastOrder DEF Requested
<1>5. \A d \in Call : ~Active(d)
  <2> SUFFICES ASSUME NEW d \in Call, Active(d) PROVE FALSE
    OBVIOUS
  <2>1. maker[d] \in Turn /\ turn[maker[d]] = "running" /\ stage[d] # "done"
    BY DEF Backed, Active
  <2>2. maker[d] = t
    BY <1>2, <2>1, OneRunningTurn
  <2> QED BY <1>2, <2>1, <2>2 DEF Executes
<1>6. \A d \in Call : Active(d)' <=> d = c
  BY <1>1, <1>5 DEF Active
<1>7. /\ ~Has(transcript, x) /\ ~Has(queue, x)
      /\ ~Has(transcript, Result(c)) /\ ~Has(queue, Result(c))
  BY <1>1 DEF CallsThere
<1>8. \A d : /\ Requested(d) = x => d = c
             /\ Result(d) # x
  BY CallFacts
<1> HIDE DEF x
<1>9. CallsThere'
  <2>1. ASSUME NEW d \in Call, d # c
        PROVE  /\ Has(transcript, Requested(d)) \/ Has(queue', Requested(d)) <=> stage'[d] # "idle"
               /\ Has(transcript, Result(d)) \/ Has(queue', Result(d)) <=> stage'[d] = "done"
               /\ Has(stored, ToolRow(d)) <=> stage'[d] \in {"recorded", "done"}
    BY <1>1, <1>4, <1>8, <2>1 DEF CallsThere
  <2>2. /\ Has(transcript, x) \/ Has(queue', x) <=> stage'[c] # "idle"
        /\ Has(transcript, Result(c)) \/ Has(queue', Result(c)) <=> stage'[c] = "done"
        /\ Has(stored, ToolRow(c)) <=> stage'[c] \in {"recorded", "done"}
    <3>1. ~Has(queue', Result(c)) /\ ~Has(stored, ToolRow(c))
      BY <1>1, <1>4, <1>7, <1>8 DEF CallsThere
    <3> QED BY <1>1, <1>4, <1>7, <3>1
  <2> QED BY <1>2, <1>6, <2>1, <2>2 DEF CallsThere, x
<1>10. ASSUME NEW d \in Call
       PROVE  /\ InOrder(transcript, queue', Requested(d), Requested(d))
              /\ InOrder(transcript, queue', Requested(d), Result(d))
              /\ InOrder(transcript, queue', Result(d), Result(d))
  <2>1. /\ InOrder(transcript, queue, Requested(d), Requested(d))
        /\ InOrder(transcript, queue, Requested(d), Result(d))
        /\ InOrder(transcript, queue, Result(d), Result(d))
    BY DEF CallsInOrder
  <2>2. x = Requested(d) => /\ ~Has(transcript, Requested(d)) /\ ~Has(queue, Requested(d))
                            /\ ~Has(transcript, Result(d)) /\ ~Has(queue, Result(d))
    BY <1>7, <1>8
  <2> QED BY <1>4, <1>8, <2>1, <2>2
<1>11. ASSUME NEW d \in Call, stage'[d] = "done"
       PROVE  InOrder(transcript, queue', Result(d), x)
  BY <1>4, <1>7, <1>8, AbsentInOrder
<1>12. ASSUME NEW i \in DOMAIN stored, NEW j \in DOMAIN stored, NEW d \in Call, NEW e \in Call,
              i < j, stored[i] = ToolRow(d), stored[j] = ToolRow(e)
       PROVE  InOrder(transcript, queue', Result(d), Requested(e))
  BY <1>4, <1>8, <1>12 DEF CallsInOrder
<1>13. ASSUME NEW d \in Call, stage'[d] = "recorded", NEW i \in DOMAIN stored,
                NEW j \in DOMAIN stored,
              stored[i] = ToolRow(d), stored[j].kind = "tool"
       PROVE  j <= i
  BY <1>1, <1>13 DEF CallsInOrder
<1> QED BY <1>2, <1>6, <1>9, <1>10, <1>11, <1>12, <1>13 DEF CallsInOrder, x

\* A call gets its row: each before it is done, and its result came before this
\* call was requested.
LEMMA CallsPersist ==
  ASSUME TypeOK, CallsThere, CallsInOrder, NEW c \in Call, PersistToolExecution(c)
  PROVE  CallsThere' /\ CallsInOrder'
<1> DEFINE n == Len(stored) + 1
<1>1. /\ stage[c] = "recording" /\ stage'[c] = "recorded"
      /\ \A d \in Call : d # c => stage'[d] = stage[d]
  BY StageStep DEF PersistToolExecution
<1>2. UNCHANGED <<queue, transcript>> /\ stored' = Append(stored, ToolRow(c))
  BY DEF PersistToolExecution, connection, Store, ToolRow
<1>3. /\ ToolRow(c) \in Row /\ stored \in Seq(Row)
      /\ \A d : ToolRow(d) = ToolRow(c) => d = c
  BY CallFacts DEF TypeOK
<1>4. /\ \A i \in DOMAIN stored : stored'[i] = stored[i]
      /\ stored'[n] = ToolRow(c)
      /\ DOMAIN stored = 1..Len(stored) /\ DOMAIN stored' = 1..n /\ Len(stored) \in Nat
  BY <1>2, <1>3, Appended
<1>5. /\ \A i \in DOMAIN stored' : (i \in DOMAIN stored \/ i = n) /\ i <= n
      /\ \A i \in DOMAIN stored : i < n
  BY <1>4
<1>6. \A e : Has(stored', e) <=> Has(stored, e) \/ ToolRow(c) = e
  BY <1>2, <1>3, AppendHas
<1>7. \A d \in Call : Active(d)' <=> Active(d)
  BY <1>1 DEF Active
<1>8. Active(c) /\ \A d \in Call : d # c => ~Active(d)
  <2>1. Active(c)
    BY <1>1 DEF Active
  <2> QED BY <2>1 DEF CallsThere
<1>9. ~Has(stored, ToolRow(c))
  BY <1>1 DEF CallsThere
<1>10. \A d \in Call : /\ stage'[d] = "idle" <=> stage[d] = "idle"
                       /\ stage'[d] = "done" <=> stage[d] = "done"
  BY <1>1
<1> HIDE DEF n
<1>11. CallsThere'
  <2>1. \A d \in Call : Has(stored', ToolRow(d)) <=> stage'[d] \in {"recorded", "done"}
    BY <1>1, <1>3, <1>6 DEF CallsThere
  <2> QED BY <1>2, <1>7, <1>10, <2>1 DEF CallsThere
<1>12. ASSUME NEW i \in DOMAIN stored', NEW j \in DOMAIN stored', NEW d \in Call, NEW e \in Call,
              i < j, stored'[i] = ToolRow(d), stored'[j] = ToolRow(e)
       PROVE  InOrder(transcript, queue, Result(d), Requested(e))
  <2>1. i \in DOMAIN stored /\ stored[i] = ToolRow(d)
    <3>1. i # n
      <4>1. i \in Nat /\ j \in Nat /\ n \in Nat /\ j <= n
        BY <1>4, <1>5 DEF n
      <4> QED BY <1>12, <4>1
    <3> QED BY <1>4, <1>5, <1>12, <3>1
  <2>2. CASE j = n
    <3>1. e = c
      BY <1>3, <1>4, <1>12, <2>2
    <3>2. Has(stored, ToolRow(d))
      BY <2>1 DEF Has
    <3>3. d # c
      BY <1>9, <3>2
    <3>4. stage[d] = "done"
      BY <1>8, <3>2, <3>3 DEF CallsThere, Active
    <3> QED BY <1>8, <3>1, <3>4 DEF CallsInOrder
  <2>3. CASE j # n
    <3>1. j \in DOMAIN stored /\ stored[j] = ToolRow(e)
      BY <1>4, <1>5, <1>12, <2>3
    <3> QED BY <1>12, <2>1, <3>1 DEF CallsInOrder
  <2> QED BY <2>2, <2>3
<1>13. ASSUME NEW d \in Call, stage'[d] = "recorded", NEW i \in DOMAIN stored',
                NEW j \in DOMAIN stored',
              stored'[i] = ToolRow(d)
       PROVE  j <= i
  <2>1. d = c
    BY <1>1, <1>8, <1>13 DEF Active
  <2>2. i = n
    <3>1. ~(i \in DOMAIN stored)
      BY <1>4, <1>9, <1>13, <2>1 DEF Has
    <3> QED BY <1>5, <3>1
  <2> QED BY <1>5, <2>2
<1>14. /\ \A d \in Call : /\ InOrder(transcript, queue, Requested(d), Requested(d))
                          /\ InOrder(transcript, queue, Requested(d), Result(d))
                          /\ InOrder(transcript, queue, Result(d), Result(d))
       /\ \A d, e \in Call : stage'[d] = "done" /\ Active(e)' =>
            InOrder(transcript, queue, Result(d), Requested(e))
  BY <1>7, <1>10 DEF CallsInOrder
<1> QED BY <1>2, <1>11, <1>12, <1>13, <1>14 DEF CallsInOrder

\* The result is reported: no call has a row after this one's, and none is active.
LEMMA CallsReport ==
  ASSUME TypeOK, Undisturbed, CallsThere, CallsInOrder, hasConnectedBefore,
         NEW c \in Call, Report(c)
  PROVE  CallsThere' /\ CallsInOrder'
<1> DEFINE x == Result(c)
<1>1. /\ stage[c] = "recorded" /\ stage'[c] = "done"
      /\ \A d \in Call : d # c => stage'[d] = stage[d]
  BY StageStep DEF Report
<1>2. UNCHANGED <<stored, transcript>> /\ Broadcast("result", c)
  BY DEF Report
<1>3. socket = "open"
  BY DEF Undisturbed
<1>4. /\ \A e, f : /\ InOrder(transcript, queue, e, f)
                   /\ x = e => ~Has(transcript, f) /\ ~Has(queue, f)
                   => InOrder(transcript, queue', e, f)
      /\ \A e : e # x => (Has(queue', e) <=> Has(queue, e))
      /\ Has(queue', x)
  BY <1>2, <1>3, BroadcastOrder DEF Result
<1>5. \A d \in Call : d # c => ~Active(d)
  <2>1. Active(c)
    BY <1>1 DEF Active
  <2> QED BY <2>1 DEF CallsThere
<1>6. \A d \in Call : ~Active(d)' /\ stage'[d] # "recorded"
  BY <1>1, <1>5 DEF Active
<1>7. ~Has(transcript, x) /\ ~Has(queue, x)
  BY <1>1 DEF CallsThere
<1>8. \A d : /\ Result(d) = x => d = c
             /\ Requested(d) # x
  BY CallFacts
<1> HIDE DEF x
<1>9. CallsThere'
  <2>1. ASSUME NEW d \in Call, d # c
        PROVE  /\ Has(transcript, Requested(d)) \/ Has(queue', Requested(d)) <=> stage'[d] # "idle"
               /\ Has(transcript, Result(d)) \/ Has(queue', Result(d)) <=> stage'[d] = "done"
               /\ Has(stored, ToolRow(d)) <=> stage'[d] \in {"recorded", "done"}
    BY <1>1, <1>4, <1>8, <2>1 DEF CallsThere
  <2>2. /\ Has(transcript, Requested(c)) \/ Has(queue', Requested(c)) <=> stage'[c] # "idle"
        /\ Has(transcript, x) \/ Has(queue', x) <=> stage'[c] = "done"
        /\ Has(stored, ToolRow(c)) <=> stage'[c] \in {"recorded", "done"}
    BY <1>1, <1>4, <1>8 DEF CallsThere
  <2> QED BY <1>2, <1>6, <2>1, <2>2 DEF CallsThere, x
<1>10. ASSUME NEW d \in Call
       PROVE  /\ InOrder(transcript, queue', Requested(d), Requested(d))
              /\ InOrder(transcript, queue', Requested(d), Result(d))
              /\ InOrder(transcript, queue', Result(d), Result(d))
  <2>1. /\ InOrder(transcript, queue, Requested(d), Requested(d))
        /\ InOrder(transcript, queue, Requested(d), Result(d))
        /\ InOrder(transcript, queue, Result(d), Result(d))
    BY DEF CallsInOrder
  <2>2. x = Result(d) => ~Has(transcript, Result(d)) /\ ~Has(queue, Result(d))
    BY <1>7, <1>8
  <2> QED BY <1>4, <1>8, <2>1, <2>2
<1>11. ASSUME NEW i \in DOMAIN stored, NEW j \in DOMAIN stored, NEW d \in Call, NEW e \in Call,
              i < j, stored[i] = ToolRow(d), stored[j] = ToolRow(e)
       PROVE  InOrder(transcript, queue', Result(d), Requested(e))
  <2>1. d # c
    <3>1. ASSUME d = c PROVE j <= i
      BY <1>1, <1>11, <3>1, CallFacts DEF CallsInOrder
    <3>2. i \in Nat /\ j \in Nat
      BY DEF TypeOK
    <3> QED BY <1>11, <3>1, <3>2
  <2> QED BY <1>4, <1>8, <1>11, <2>1 DEF CallsInOrder
<1> QED BY <1>2, <1>6, <1>9, <1>10, <1>11 DEF CallsInOrder

LEMMA CallsStep ==
  ASSUME TypeOK, Backed, Paged, Undisturbed, MessagesThere, CallsThere, CallsInOrder,
         BackendStep => hasConnectedBefore,
         \/ BackendStep
         \/ \E t \in Turn : Send(t) \/ PostReturns(t)
         \/ Receive
         \/ UNCHANGED <<stored, turn, maker, stage, queue, transcript, post>>
  PROVE  CallsThere' /\ CallsInOrder'
<1> USE DEF backend, connection, requests, history
<1>1. ASSUME NEW t \in Turn, NEW c \in Call, RequestTool(t, c) PROVE CallsThere' /\ CallsInOrder'
  BY <1>1, CallsRequest DEF BackendStep
<1>2. ASSUME NEW c \in Call, PersistToolExecution(c) \/ Report(c) PROVE CallsThere' /\ CallsInOrder'
  BY <1>2, CallsPersist, CallsReport DEF BackendStep
<1>3. ASSUME NEW c \in Call,
             \/ Decide(c) \/ PolicyError(c) \/ PersistApprovalRequest(c) \/ AnnounceApproval(c)
             \/ TryDecide(c) \/ Resume(c)
      PROVE  CallsThere' /\ CallsInOrder'
  <2> DEFINE moves == \E from, to \in Stage \ {"idle", "recorded", "done"} : At(c, from, to)
             tells == \E kind \in {"decided", "pending", "granted", "rejected"} : Broadcast(kind, c)
  <2>1. /\ UNCHANGED transcript
        /\ UNCHANGED stored \/ Store("approval", c)
    BY <1>3 DEF Decide, PolicyError, PersistApprovalRequest, AnnounceApproval, TryDecide, Resume
  <2>2. UNCHANGED queue \/ tells
    BY <1>3 DEF Decide, PolicyError, PersistApprovalRequest, AnnounceApproval, TryDecide, Resume
  <2>3. UNCHANGED stage \/ moves
    BY <1>3 DEF Decide, PolicyError, PersistApprovalRequest, AnnounceApproval, TryDecide, Resume,
      Stage
  <2> QED BY <2>1, <2>2, <2>3, CallsNeutral
<1>4. ASSUME NEW t \in Turn, BeginTurn(t) \/ EndTurn(t) PROVE CallsThere' /\ CallsInOrder'
  <2>1. UNCHANGED <<queue, stage, transcript>>
    BY <1>4 DEF BeginTurn, EndTurn
  <2>2. UNCHANGED stored \/ Store("user", t) \/ Store("model", t)
    BY <1>4 DEF BeginTurn, EndTurn
  <2>3. KeepsRows({"tool"})
    <3>1. CASE UNCHANGED stored
      BY <3>1, SameKeepsRows
    <3>2. ASSUME NEW kind \in {"user", "model"}, Store(kind, t) PROVE KeepsRows({"tool"})
      <4>1. kind \notin {"tool"} /\ [kind |-> kind, of |-> t] \in Row
        BY RowTyped
      <4> QED BY <3>2, <4>1, StoreKeepsRows
    <3> QED BY <2>2, <3>1, <3>2
  <2> QED BY <2>1, <2>3, CallsKept
<1>5. ASSUME NEW t \in Turn, Send(t) \/ PostReturns(t) PROVE CallsThere' /\ CallsInOrder'
  <2>1. UNCHANGED <<stored, queue, stage>>
    BY <1>5 DEF Send, PostReturns
  <2>2. \/ UNCHANGED transcript
        \/ transcript' = Append(transcript, User(t))
        \/ transcript' = Append(transcript, Model(t))
    BY <1>5 DEF Send, PostReturns, User, Model
  <2>3. CASE UNCHANGED transcript
    BY <2>1, <2>3, SameKeepsRows, CallsKept
  <2> QED BY <2>1, <2>2, <2>3, CallsMessage, MessageFacts
<1>6. CASE Receive
  <2>1. UNCHANGED <<stored, stage>> /\ mounted
    BY <1>6 DEF Receive, Undisturbed
  <2>2. \A x \in CallEntry : Has(transcript', x) \/ Has(queue', x)
          <=> Has(transcript, x) \/ Has(queue, x)
    BY <1>6, <2>1, ReceiveHas, CallFacts
  <2>3. \A x, y \in CallEntry : InOrder(transcript, queue, x, y)
          => InOrder(transcript', queue', x, y)
    BY <1>6, <2>1, ReceiveInOrder, CallFacts
  <2> QED BY <2>1, <2>2, <2>3, SameKeepsRows, CallsKept
<1>7. CASE UNCHANGED <<stored, turn, maker, stage, queue, transcript, post>>
  BY <1>7, SameKeepsRows, CallsKept
<1> QED BY <1>1, <1>2, <1>3, <1>4, <1>5, <1>6, <1>7 DEF BackendStep

LEMMA LiveInit == Init => LiveInv
<1> SUFFICES ASSUME Init, InTime
             PROVE  Undisturbed /\ RowsOnce /\ MessagesThere /\ MessagesInOrder /\ CallsThere
                      /\ CallsInOrder
  BY DEF LiveInv
<1>1. /\ stored = <<>> /\ queue = <<>> /\ transcript = <<>> /\ snapshot = [g \in Get |-> <<>>]
      /\ mounted /\ clear = "none" /\ socket = "connecting" /\ ~hasConnectedBefore
      /\ \A g \in Get \ {mount} : get[g] = "none"
      /\ \A t \in Turn : post[t] = "none" /\ turn[t] = "none"
      /\ \A c \in Call : stage[c] = "idle"
  BY DEF Init, InTime
<1>2. /\ \A e : ~Has(stored, e) /\ ~Has(queue, e) /\ ~Has(transcript, e)
      /\ DOMAIN stored = {}
  BY <1>1 DEF Has
<1>3. \A e, f : InOrder(transcript, queue, e, f)
  BY <1>2, AbsentInOrder
<1>4. Undisturbed
  BY <1>1, BoundsAssumption DEF Undisturbed, Get, mount
<1>5. RowsOnce
  BY <1>2 DEF RowsOnce
<1>6. MessagesThere
  BY <1>1, <1>2 DEF MessagesThere
<1>7. MessagesInOrder
  BY <1>1, <1>2 DEF MessagesInOrder
<1>8. CallsThere
  BY <1>1, <1>2 DEF CallsThere, Active
<1>9. CallsInOrder
  BY <1>2, <1>3 DEF CallsInOrder
<1> QED BY <1>4, <1>5, <1>6, <1>7, <1>8, <1>9

LEMMA LiveStep ==
  ASSUME TypeOK, StrandInv, LiveInv, [Next]_vars
  PROVE  LiveInv'
<1> SUFFICES ASSUME InTime'
             PROVE  /\ Undisturbed' /\ RowsOnce' /\ MessagesThere' /\ MessagesInOrder'
                    /\ CallsThere' /\ CallsInOrder'
  BY DEF LiveInv
<1>1. /\ InTime /\ ~disturbed'
      /\ BackendStep \/ (\E t \in Turn : Send(t)) => Ready
  BY InTimeStep DEF StrandInv, InTime
<1>2. /\ Undisturbed /\ RowsOnce /\ MessagesThere /\ MessagesInOrder /\ CallsThere /\ CallsInOrder
      /\ Backed /\ Paged
  BY <1>1 DEF LiveInv, StrandInv
<1>3. /\ Undisturbed'
      /\ \/ BackendStep
         \/ \E t \in Turn : Send(t) \/ PostReturns(t)
         \/ Receive
         \/ UNCHANGED <<stored, turn, maker, stage, queue, transcript, post>>
  BY <1>1, <1>2, UndisturbedStep
<1>4. MessagesThere' /\ MessagesInOrder'
  BY <1>2, <1>3, MessagesStep
<1>5. CallsThere' /\ CallsInOrder'
  BY <1>1, <1>2, <1>3, CallsStep DEF Ready
<1>6. RowsOnce'
  <2>1. BackendStep \/ UNCHANGED stored
    BY <1>3 DEF Send, PostReturns, Receive, backend
  <2> QED BY <1>2, <2>1, RowsOnceStep
<1> QED BY <1>3, <1>4, <1>5, <1>6

LEMMA LiveInvariant == Spec => [](TypeOK /\ StrandInv /\ LiveInv)
<1>1. Spec => [](TypeOK /\ StrandInv)
  BY StrandInvariant
<1>2. TypeOK /\ StrandInv /\ LiveInv /\ [Next]_vars => LiveInv'
  BY LiveStep
<1>3. Init => LiveInv
  BY LiveInit
<1> QED BY <1>1, <1>2, <1>3, PTL DEF Spec

\* Two lists tell the same story when each has what the other has, and the first
\* has it in the order of the second.
LEMMA SameStoryOf ==
  ASSUME NEW T, NEW a \in Seq(T), NEW b \in Seq(T), NEW kinds,
         \A i \in DOMAIN a : a[i].kind \in kinds => Has(b, a[i]),
         \A j \in DOMAIN b : b[j].kind \in kinds => Has(a, b[j]),
         \A j, l \in DOMAIN b : b[j].kind \in kinds /\ b[l].kind \in kinds =>
           /\ j <= l => \A p, q \in DOMAIN a : a[p] = b[j] /\ a[q] = b[l] => p <= q
           /\ j < l => b[j] # b[l]
  PROVE  SameStory(a, b, kinds)
<1> DEFINE E == {i \in DOMAIN a : a[i].kind \in kinds}
           O == {j \in DOMAIN b : b[j].kind \in kinds}
<1>1. {a[i] : i \in E} = {b[j] : j \in O}
  <2>1. ASSUME NEW i \in E PROVE \E j \in O : a[i] = b[j]
    BY DEF Has
  <2>2. ASSUME NEW j \in O PROVE \E i \in E : a[i] = b[j]
    BY DEF Has
  <2> QED BY <2>1, <2>2
<1>2. ASSUME NEW i \in E, NEW k \in E, NEW j \in O, NEW l \in O, a[i] = b[j], a[k] = b[l]
      PROVE  i < k <=> j < l
  <2>1. i \in Nat /\ k \in Nat /\ j \in Nat /\ l \in Nat
    OBVIOUS
  <2>2. /\ j <= l => i <= k
        /\ l <= j => k <= i
    BY <1>2
  <2>3. /\ j < l => b[j] # b[l]
        /\ l < j => b[j] # b[l]
    OBVIOUS
  <2>4. CASE j < l
    BY <1>2, <2>1, <2>2, <2>3, <2>4
  <2>5. CASE ~(j < l)
    BY <2>1, <2>2, <2>5
  <2> QED BY <2>4, <2>5
<1> QED BY <1>1, <1>2 DEF SameStory

\* What the page makes of all the rows: each message, and the request and the result
\* of each call that has a row; in the order of the rows, the request first.
LEMMA ReplayOf ==
  ASSUME stored \in Seq(Row), NEW es, es = EntriesFrom(DOMAIN stored)
  PROVE  /\ es \in Seq(Entry)
         /\ \A e \in Message : Has(stored, e) => Has(es, e)
         /\ \A c \in Call : Has(stored, ToolRow(c)) => Has(es, Requested(c)) /\ Has(es, Result(c))
         /\ \A n \in DOMAIN es : es[n].kind \in Messages =>
              \E i \in DOMAIN stored : i = RowAt(Places(DOMAIN stored)[n]) /\ stored[i] = es[n]
         /\ \A n \in DOMAIN es : es[n].kind \in {"requested", "result"} =>
              \E i \in DOMAIN stored, c \in Call :
                i = RowAt(Places(DOMAIN stored)[n]) /\ stored[i] = ToolRow(c)
                  /\ es[n] \in {Requested(c), Result(c)}
         /\ \A m, n \in DOMAIN es :
              LET i == RowAt(Places(DOMAIN stored)[m])
                  j == RowAt(Places(DOMAIN stored)[n])
              IN  /\ m <= n => i <= j
                  /\ m < n /\ es[m].kind \in Messages => i < j
                  /\ m < n /\ i = j /\ es[m].kind \in {"requested", "result"} =>
                       /\ es[m] # es[n]
                       /\ es[m].kind = "result" => es[n].kind \notin {"requested", "result"}
<1> DEFINE P == Places(DOMAIN stored)
<1>1. /\ es \in Seq(Entry) /\ DOMAIN es = DOMAIN P
      /\ \A n \in DOMAIN P :
           /\ P[n] \in Nat \ {0}
           /\ RowAt(P[n]) \in DOMAIN stored /\ BlockAt(P[n]) \in DOMAIN Blocks(stored[RowAt(P[n])])
           /\ es[n] = Blocks(stored[RowAt(P[n])])[BlockAt(P[n])]
      /\ \A i \in DOMAIN stored : \A k \in DOMAIN Blocks(stored[i]) :
           \E n \in DOMAIN P : P[n] = 3 * (i - 1) + k
      /\ \A m, n \in DOMAIN P : m < n <=> P[m] < P[n]
  <2>1. DOMAIN stored \in SUBSET DOMAIN stored
    OBVIOUS
  <2> QED BY <2>1, EntriesOf, Zenon
<1> HIDE DEF P
<1>2. \A i \in DOMAIN stored : i \in Nat \ {0} /\ stored[i] \in Row
  OBVIOUS
<1>3. ASSUME NEW i \in DOMAIN stored, NEW k \in DOMAIN Blocks(stored[i])
      PROVE  Has(es, Blocks(stored[i])[k])
  <2>1. PICK n \in DOMAIN P : P[n] = 3 * (i - 1) + k
    BY <1>1
  <2>2. k \in 1..3
    <3>1. stored[i] \in Row
      BY <1>2
    <3>2. Len(Blocks(stored[i])) \in 1..3 /\ k \in 1..Len(Blocks(stored[i]))
      BY <3>1, BlocksOf
    <3> QED BY <3>2
  <2>3. RowAt(P[n]) = i /\ BlockAt(P[n]) = k
    BY <1>2, <2>1, <2>2, PlaceOf
  <2> QED BY <1>1, <2>1, <2>3 DEF Has
<1>4. ASSUME NEW row \in Row, row.kind = "tool"
      PROVE  /\ DOMAIN Blocks(row) = 1..3
             /\ Blocks(row)[1] = Requested(row.of) /\ Blocks(row)[3] = Result(row.of)
             /\ Blocks(row)[2].kind = "decided"
  BY <1>4 DEF Blocks, Requested, Result
<1>5. ASSUME NEW row \in Row, row.kind \in Messages PROVE Blocks(row) = <<row>>
  BY <1>5 DEF Blocks, Messages
<1>6. ASSUME NEW row \in Row, row.kind = "approval"
      PROVE  DOMAIN Blocks(row) = {1} /\ Blocks(row)[1].kind = "pending"
  BY <1>6 DEF Blocks
<1>7. ASSUME NEW e \in Message, Has(stored, e) PROVE Has(es, e)
  <2>1. PICK i \in DOMAIN stored : stored[i] = e
    BY <1>7 DEF Has
  <2>2. Blocks(stored[i]) = <<e>>
    BY <1>2, <1>5, <2>1, MessageFacts DEF Messages
  <2>3. Blocks(stored[i])[1] = e /\ 1 \in DOMAIN Blocks(stored[i])
    BY <2>2
  <2> QED BY <1>3, <2>3
<1>8. ASSUME NEW c \in Call, Has(stored, ToolRow(c))
      PROVE  Has(es, Requested(c)) /\ Has(es, Result(c))
  <2>1. PICK i \in DOMAIN stored : stored[i] = ToolRow(c)
    BY <1>8 DEF Has
  <2>2. /\ DOMAIN Blocks(stored[i]) = 1..3
        /\ Blocks(stored[i])[1] = Requested(c) /\ Blocks(stored[i])[3] = Result(c)
    BY <1>2, <1>4, <2>1, CallFacts
  <2>3. 1 \in DOMAIN Blocks(stored[i]) /\ 3 \in DOMAIN Blocks(stored[i])
    BY <2>2
  <2> QED BY <1>3, <2>2, <2>3
<1>9. ASSUME NEW n \in DOMAIN es
      PROVE  LET i == RowAt(P[n])
                 k == BlockAt(P[n])
             IN  /\ i \in DOMAIN stored /\ i \in Nat \ {0} /\ k \in 1..3 /\ P[n] = 3 * (i - 1) + k
                 /\ es[n].kind \in Messages => stored[i] = es[n] /\ k = 1
                 /\ es[n].kind = "requested" =>
                      stored[i].of \in Call /\ stored[i] = ToolRow(stored[i].of)
                        /\ es[n] = Requested(stored[i].of) /\ k = 1
                 /\ es[n].kind = "result" =>
                      stored[i].of \in Call /\ stored[i] = ToolRow(stored[i].of)
                        /\ es[n] = Result(stored[i].of) /\ k = 3
                 /\ stored[i].kind \in Messages => k = 1
  <2> DEFINE i == RowAt(P[n])
             k == BlockAt(P[n])
  <2>1. /\ P[n] \in Nat \ {0} /\ i \in DOMAIN stored /\ k \in DOMAIN Blocks(stored[i])
        /\ es[n] = Blocks(stored[i])[k]
    BY <1>1
  <2>2. i \in Nat \ {0} /\ k \in 1..3 /\ P[n] = 3 * (i - 1) + k
    BY <2>1, RowOfPlace
  <2>3. stored[i] \in Row
    BY <1>2, <2>1
  <2> HIDE DEF i, k
  <2>4. CASE stored[i].kind = "tool"
    <3>1. /\ Blocks(stored[i])[1] = Requested(stored[i].of)
               /\ Blocks(stored[i])[3] = Result(stored[i].of)
          /\ Blocks(stored[i])[2].kind = "decided"
      BY <1>4, <2>3, <2>4
    <3>2. /\ stored[i].of \in Call /\ stored[i] = ToolRow(stored[i].of)
          /\ Requested(stored[i].of).kind = "requested" /\ Result(stored[i].of).kind = "result"
      BY <2>3, <2>4, CallFacts DEF Requested, Result
    <3>3. k = 1 \/ k = 2 \/ k = 3
      BY <2>2
    <3>4. "requested" \notin Messages /\ "result" \notin Messages /\ "decided" \notin Messages
            /\ "tool" \notin Messages
      BY DEF Messages
    <3> QED BY <2>1, <2>2, <2>4, <3>1, <3>2, <3>3, <3>4 DEF i, k
  <2>5. CASE stored[i].kind \in Messages
    <3>1. Blocks(stored[i]) = <<stored[i]>>
      BY <1>5, <2>3, <2>5
    <3>2. k = 1 /\ es[n] = stored[i]
      BY <2>1, <3>1
    <3> QED BY <2>1, <2>2, <2>5, <3>2 DEF i, k, Messages
  <2>6. CASE stored[i].kind = "approval"
    <3>1. k = 1 /\ es[n].kind = "pending"
      BY <1>6, <2>1, <2>3, <2>6
    <3> QED BY <2>1, <2>2, <2>6, <3>1 DEF i, k, Messages
  <2> QED BY <2>3, <2>4, <2>5, <2>6, RowKinds DEF Messages
<1>10. ASSUME NEW m \in DOMAIN es, NEW n \in DOMAIN es
       PROVE  LET i == RowAt(P[m])
                  j == RowAt(P[n])
              IN  /\ m <= n => i <= j
                  /\ m < n /\ es[m].kind \in Messages => i < j
                  /\ m < n /\ i = j /\ es[m].kind \in {"requested", "result"} =>
                       /\ es[m] # es[n]
                       /\ es[m].kind = "result" => es[n].kind \notin {"requested", "result"}
  <2> DEFINE i == RowAt(P[m])
             j == RowAt(P[n])
             k == BlockAt(P[m])
             l == BlockAt(P[n])
  <2>1. /\ i \in Nat \ {0} /\ j \in Nat \ {0} /\ k \in 1..3 /\ l \in 1..3
        /\ P[m] = 3 * (i - 1) + k /\ P[n] = 3 * (j - 1) + l
        /\ m \in Nat /\ n \in Nat
    <3>1. i \in Nat \ {0} /\ k \in 1..3 /\ P[m] = 3 * (i - 1) + k
      BY <1>9
    <3>2. j \in Nat \ {0} /\ l \in 1..3 /\ P[n] = 3 * (j - 1) + l
      BY <1>9
    <3>3. m \in Nat /\ n \in Nat
      <4>1. es \in Seq(Entry)
        BY <1>1
      <4> QED BY <4>1
    <3> QED BY <3>1, <3>2, <3>3
  <2>2. /\ es[m].kind \in Messages => k = 1 /\ stored[i] = es[m]
        /\ stored[j].kind \in Messages => l = 1
        /\ es[m].kind = "requested" => k = 1
        /\ es[m].kind = "result" => k = 3
        /\ es[n].kind = "requested" => l = 1
        /\ es[n].kind = "result" => l = 3
    BY <1>9
  <2>3. m < n <=> P[m] < P[n]
    BY <1>1
  <2> HIDE DEF i, j, k, l
  <2>4. m < n => i < j \/ (i = j /\ k < l)
    BY <2>1, <2>3, PlacesAscend
  <2>5. m <= n => i <= j
    <3>1. m = n => i = j
      BY DEF i, j
    <3>2. m < n => i <= j
      BY <2>1, <2>4
    <3>3. m <= n => m < n \/ m = n
      BY <2>1
    <3>4. i \in Nat
      BY <2>1
    <3> QED BY <3>1, <3>2, <3>3, <3>4
  <2>6. m < n /\ es[m].kind \in Messages => i < j
    <3>1. ASSUME m < n, es[m].kind \in Messages, i = j PROVE FALSE
      <4>1. k = 1 /\ stored[j].kind \in Messages
        BY <2>2, <3>1
      <4> QED BY <2>1, <2>2, <2>4, <3>1, <4>1
    <3> QED BY <2>4, <3>1
  <2>7. ASSUME m < n, i = j, es[m].kind \in {"requested", "result"}
        PROVE  /\ es[m] # es[n]
               /\ es[m].kind = "result" => es[n].kind \notin {"requested", "result"}
    <3>1. k < l
      BY <2>1, <2>4, <2>7
    <3>2. es[m] = es[n] => k = l
      BY <2>2, <2>7
    <3> QED BY <2>1, <2>2, <3>1, <3>2
  <2> QED BY <2>5, <2>6, <2>7 DEF i, j
<1>11. \A n \in DOMAIN es : es[n].kind \in Messages =>
         \E i \in DOMAIN stored : i = RowAt(P[n]) /\ stored[i] = es[n]
  BY <1>9
<1>12. \A n \in DOMAIN es : es[n].kind \in {"requested", "result"} =>
         \E i \in DOMAIN stored, c \in Call :
           i = RowAt(P[n]) /\ stored[i] = ToolRow(c) /\ es[n] \in {Requested(c), Result(c)}
  BY <1>9
<1> QED BY <1>1, <1>7, <1>8, <1>10, <1>11, <1>12 DEF P

\* What holds of a page at rest that was there, and connected, all the time.
LEMMA SettledFacts ==
  ASSUME TypeOK, StrandInv, LiveInv, AtRest, ~disturbed, \A t \in Turn : turn[t] # "running"
  PROVE  /\ Undisturbed /\ RowsOnce /\ MessagesThere /\ MessagesInOrder /\ CallsThere
              /\ CallsInOrder
         /\ queue = <<>>
         /\ \A c \in Call : stage[c] \in {"idle", "done"}
         /\ \A t \in Turn : \/ post[t] = "none" /\ turn[t] = "none"
                            \/ post[t] = "done" /\ turn[t] \in {"answered", "failed"}
<1>1. Undisturbed /\ RowsOnce /\ MessagesThere /\ MessagesInOrder /\ CallsThere /\ CallsInOrder
  BY DEF LiveInv, InTime, Ready, AtRest, StrandInv, Paged
<1>2. queue = <<>>
  BY DEF AtRest
<1>3. ASSUME NEW c \in Call PROVE stage[c] \in {"idle", "done"}
  BY DEF StrandInv, Backed, Active
<1>4. ASSUME NEW t \in Turn
      PROVE  \/ post[t] = "none" /\ turn[t] = "none"
             \/ post[t] = "done" /\ turn[t] \in {"answered", "failed"}
  <2>1. post[t] # "sent" /\ post[t] # "orphaned"
    BY <1>1 DEF AtRest, Undisturbed
  <2>2. post[t] \in {"none", "done"}
    BY <2>1 DEF TypeOK
  <2>3. /\ turn[t] # "none" => post[t] # "none"
        /\ post[t] = "done" => turn[t] \in {"answered", "failed"}
    BY DEF StrandInv, Backed, Paged
  <2> QED BY <2>2, <2>3
<1> QED BY <1>1, <1>2, <1>3, <1>4

LEMMA SameMessages ==
  ASSUME TypeOK, StrandInv, LiveInv, AtRest, ~disturbed, \A t \in Turn : turn[t] # "running"
  PROVE  SameStory(transcript, EntriesFrom(DOMAIN stored), Messages)
<1> DEFINE es == EntriesFrom(DOMAIN stored)
           row(n) == RowAt(Places(DOMAIN stored)[n])
<1>1. /\ RowsOnce /\ MessagesThere /\ MessagesInOrder
      /\ \A t \in Turn : \/ post[t] = "none" /\ turn[t] = "none"
                         \/ post[t] = "done" /\ turn[t] \in {"answered", "failed"}
  BY SettledFacts
<1>2. stored \in Seq(Row) /\ transcript \in Seq(Entry)
  BY DEF TypeOK
<1>3. /\ es \in Seq(Entry)
      /\ \A e \in Message : Has(stored, e) => Has(es, e)
      /\ \A n \in DOMAIN es : es[n].kind \in Messages =>
           row(n) \in DOMAIN stored /\ stored[row(n)] = es[n]
      /\ \A m, n \in DOMAIN es : m <= n => row(m) <= row(n)
      /\ \A m, n \in DOMAIN es : m < n /\ es[m].kind \in Messages => row(m) < row(n)
  BY <1>2, ReplayOf
<1> HIDE DEF es, row
<1>4. ASSUME NEW e \in Message PROVE Has(transcript, e) <=> Has(stored, e)
  <2>1. PICK t \in Turn : e = User(t) \/ e = Model(t)
    BY MessageFacts DEF Message, User, Model
  <2> QED BY <1>1, <2>1 DEF MessagesThere
<1>5. \A e \in Entry : e.kind \in Messages => e \in Message
  BY DEF Entry, Event, Message, Messages
<1>6. ASSUME NEW i \in DOMAIN transcript,
               transcript[i].kind \in Messages PROVE Has(es, transcript[i])
  <2>1. transcript[i] \in Entry /\ Has(transcript, transcript[i])
    BY <1>2 DEF Has
  <2> QED BY <1>3, <1>4, <1>5, <1>6, <2>1
<1>7. ASSUME NEW j \in DOMAIN es, es[j].kind \in Messages PROVE Has(transcript, es[j])
  <2>1. es[j] \in Entry
    BY <1>3
  <2>2. Has(stored, es[j])
    BY <1>3, <1>7 DEF Has
  <2> QED BY <1>4, <1>5, <1>7, <2>1, <2>2
<1>8. ASSUME NEW j \in DOMAIN es, NEW l \in DOMAIN es, es[j].kind \in Messages,
               es[l].kind \in Messages
      PROVE  /\ j <= l => \A p, q \in DOMAIN transcript : transcript[p] = es[j]
                  /\ transcript[q] = es[l] => p <= q
             /\ j < l => es[j] # es[l]
  <2>1. /\ row(j) \in DOMAIN stored /\ stored[row(j)] = es[j]
        /\ row(l) \in DOMAIN stored /\ stored[row(l)] = es[l]
    BY <1>3, <1>8
  <2>2. ASSUME j <= l
        PROVE  \A p, q \in DOMAIN transcript : transcript[p] = es[j] /\ transcript[q] = es[l]
                 => p <= q
    <3>1. row(j) <= row(l)
      BY <1>3, <2>2
    <3>2. InOrder(transcript, queue, es[j], es[l])
      BY <1>1, <1>8, <2>1, <3>1 DEF MessagesInOrder, Messages
    <3> QED BY <3>2 DEF InOrder
  <2>3. ASSUME j < l, es[j] = es[l] PROVE FALSE
    <3>1. row(j) < row(l)
      BY <1>3, <1>8, <2>3
    <3>2. row(j) = row(l)
      BY <1>1, <1>8, <2>1, <2>3 DEF RowsOnce, Messages
    <3>3. row(j) \in Nat
      BY <1>2, <2>1
    <3> QED BY <3>1, <3>2, <3>3
  <2> QED BY <2>2, <2>3
<1>9. SameStory(transcript, es, Messages)
  BY <1>2, <1>3, <1>6, <1>7, <1>8, SameStoryOf
<1> QED BY <1>9 DEF es

LEMMA SameCalls ==
  ASSUME TypeOK, StrandInv, LiveInv, AtRest, ~disturbed, \A t \in Turn : turn[t] # "running"
  PROVE  SameStory(transcript, EntriesFrom(DOMAIN stored), {"requested", "result"})
<1> DEFINE es == EntriesFrom(DOMAIN stored)
           row(n) == RowAt(Places(DOMAIN stored)[n])
           shows == {"requested", "result"}
<1>1. /\ RowsOnce /\ CallsThere /\ CallsInOrder /\ queue = <<>>
      /\ \A c \in Call : stage[c] \in {"idle", "done"}
  BY SettledFacts
<1>2. stored \in Seq(Row) /\ transcript \in Seq(Entry) /\ \A e : ~Has(queue, e)
  BY <1>1 DEF TypeOK, Has
<1>3. /\ es \in Seq(Entry)
      /\ \A c \in Call : Has(stored, ToolRow(c)) => Has(es, Requested(c)) /\ Has(es, Result(c))
      /\ \A n \in DOMAIN es : es[n].kind \in shows =>
           /\ row(n) \in DOMAIN stored
           /\ \E c \in Call : stored[row(n)] = ToolRow(c) /\ es[n] \in {Requested(c), Result(c)}
      /\ \A m, n \in DOMAIN es : m <= n => row(m) <= row(n)
      /\ \A m, n \in DOMAIN es : m < n /\ row(m) = row(n) /\ es[m].kind \in shows =>
           /\ es[m] # es[n]
           /\ es[m].kind = "result" => es[n].kind \notin shows
  BY <1>2, ReplayOf
<1> HIDE DEF es, row
<1>4. ASSUME NEW c \in Call
      PROVE  /\ Has(transcript, Requested(c)) <=> stage[c] = "done"
             /\ Has(transcript, Result(c)) <=> stage[c] = "done"
             /\ Has(stored, ToolRow(c)) <=> stage[c] = "done"
  <2>1. stage[c] = "idle" \/ stage[c] = "done"
    BY <1>1
  <2> QED BY <1>1, <1>2, <2>1 DEF CallsThere
<1>5. \A e \in Entry : e.kind \in shows => \E c \in Call : e \in {Requested(c), Result(c)}
  BY DEF Entry, Event, Message, Requested, Result
<1>6. ASSUME NEW i \in DOMAIN transcript, transcript[i].kind \in shows PROVE Has(es, transcript[i])
  <2>1. transcript[i] \in Entry /\ Has(transcript, transcript[i])
    BY <1>2 DEF Has
  <2>2. PICK c \in Call : transcript[i] \in {Requested(c), Result(c)}
    BY <1>5, <1>6, <2>1
  <2>3. Has(stored, ToolRow(c))
    BY <1>4, <2>1, <2>2
  <2> QED BY <1>3, <2>2, <2>3
<1>7. ASSUME NEW j \in DOMAIN es, es[j].kind \in shows PROVE Has(transcript, es[j])
  <2>1. PICK c \in Call : stored[row(j)] = ToolRow(c) /\ es[j] \in {Requested(c), Result(c)}
    BY <1>3, <1>7
  <2>2. Has(stored, ToolRow(c))
    BY <1>3, <1>7, <2>1 DEF Has
  <2> QED BY <1>4, <2>1, <2>2
<1>8. ASSUME NEW j \in DOMAIN es, NEW l \in DOMAIN es, es[j].kind \in shows, es[l].kind \in shows
      PROVE  /\ j <= l => \A p, q \in DOMAIN transcript : transcript[p] = es[j]
                  /\ transcript[q] = es[l] => p <= q
             /\ j < l => es[j] # es[l]
  <2>1. row(j) \in DOMAIN stored /\ row(l) \in DOMAIN stored /\ row(j) \in Nat /\ row(l) \in Nat
        /\ j \in Nat /\ l \in Nat
    <3>1. row(j) \in DOMAIN stored /\ row(l) \in DOMAIN stored
      BY <1>3, <1>8
    <3>2. es \in Seq(Entry)
      BY <1>3
    <3> QED BY <1>2, <3>1, <3>2
  <2>2. PICK c \in Call : stored[row(j)] = ToolRow(c) /\ es[j] \in {Requested(c), Result(c)}
    BY <1>3, <1>8
  <2>3. PICK d \in Call : stored[row(l)] = ToolRow(d) /\ es[l] \in {Requested(d), Result(d)}
    BY <1>3, <1>8
  <2>4. ToolRow(c).kind # "approval"
    BY CallFacts
  <2>5. \A x, y : InOrder(transcript, queue, x, y) =>
          \A p, q \in DOMAIN transcript : transcript[p] = x /\ transcript[q] = y => p <= q
    BY DEF InOrder
  <2>6. \A e \in Call : /\ InOrder(transcript, queue, Requested(e), Requested(e))
                        /\ InOrder(transcript, queue, Requested(e), Result(e))
                        /\ InOrder(transcript, queue, Result(e), Result(e))
    BY <1>1 DEF CallsInOrder
  <2>7. /\ \A e \in Call : Requested(e).kind = "requested" /\ Result(e).kind = "result"
        /\ ToolRow(c) = ToolRow(d) => c = d
    BY CallFacts DEF Requested, Result
  <2>8. CASE j = l
    <3>1. InOrder(transcript, queue, es[j], es[j])
      BY <2>2, <2>6
    <3> QED BY <2>1, <2>5, <2>8, <3>1
  <2>9. CASE j < l /\ row(j) = row(l)
    <3>1. c = d
      BY <2>2, <2>3, <2>7, <2>9
    <3>2. es[j] # es[l] /\ es[j].kind # "result"
      BY <1>3, <1>8, <2>9
    <3>3. es[j] = Requested(c) /\ es[l] \in {Requested(c), Result(c)}
      BY <2>2, <2>3, <2>7, <3>1, <3>2
    <3>4. InOrder(transcript, queue, es[j], es[l])
      BY <2>6, <3>3
    <3> QED BY <2>5, <3>2, <3>4
  <2>10. CASE j < l /\ row(j) # row(l)
    <3>1. row(j) < row(l)
      <4>1. row(j) <= row(l)
        BY <1>3, <2>1, <2>10
      <4> QED BY <2>1, <2>10, <4>1
    <3>2. c # d
      BY <1>1, <2>1, <2>2, <2>3, <2>4, <2>10 DEF RowsOnce
    <3>3. es[j] # es[l]
      BY <2>2, <2>3, <3>2, CallFacts
    <3>4. Has(stored, ToolRow(c)) /\ Has(stored, ToolRow(d))
      BY <2>1, <2>2, <2>3 DEF Has
    <3>5. PICK r \in DOMAIN transcript : transcript[r] = Result(c)
      BY <1>4, <3>4 DEF Has
    <3>6. PICK s \in DOMAIN transcript : transcript[s] = Requested(d)
      BY <1>4, <3>4 DEF Has
    <3>7. InOrder(transcript, queue, Result(c), Requested(d))
      BY <1>1, <2>1, <2>2, <2>3, <3>1 DEF CallsInOrder
    <3>8. r <= s
      BY <2>5, <3>5, <3>6, <3>7
    <3>9. InOrder(transcript, queue, es[j], Result(c))
            /\ InOrder(transcript, queue, Requested(d), es[l])
      BY <2>2, <2>3, <2>6
    <3>10. ASSUME NEW p \in DOMAIN transcript, NEW q \in DOMAIN transcript,
                  transcript[p] = es[j], transcript[q] = es[l]
           PROVE  p <= q
      <4>1. p <= r
        BY <2>5, <3>5, <3>9, <3>10
      <4>2. s <= q
        BY <2>5, <3>6, <3>9, <3>10
      <4>3. p \in Nat /\ q \in Nat /\ r \in Nat /\ s \in Nat
        BY <1>2
      <4> QED BY <3>8, <4>1, <4>2, <4>3
    <3> QED BY <3>3, <3>10
  <2>11. j < l \/ j = l \/ l < j
    BY <2>1
  <2> QED BY <2>1, <2>8, <2>9, <2>10, <2>11
<1>9. SameStory(transcript, es, shows)
  BY <1>2, <1>3, <1>6, <1>7, <1>8, SameStoryOf
<1> QED BY <1>9 DEF es

\* A page that was there and connected since before anything was asked shows, once
\* it is at rest, what a reload would make from the rows, in the same order: events
\* and rows tell the same story, on every branch of execute_tool (chat_state in
\* main.py, AgentPage.tsx).
THEOREM LiveReplays == Spec => []LiveIsReplay
<1>1. TypeOK /\ StrandInv /\ LiveInv => LiveIsReplay
  <2> SUFFICES ASSUME TypeOK, StrandInv, LiveInv, AtRest, ~disturbed,
                      \A t \in Turn : turn[t] # "running"
               PROVE  \A kinds \in {{"user", "model"}, {"requested", "result"}} :
                        SameStory(transcript, EntriesFrom(DOMAIN stored), kinds)
    BY DEF LiveIsReplay
  <2> QED BY SameMessages, SameCalls DEF Messages
<1> QED BY <1>1, LiveInvariant, PTL
=============================================================================
