-------------------------- MODULE Governance_proofs --------------------------
(***************************************************************************)
(* Proofs about the record repositories, for any tables of programs that   *)
(* have what ProgramsAssumption says: one call at a time, whatever was     *)
(* refused or left half done before, a record that was approved keeps its  *)
(* reviewer, and a record whose creation was answered is in the lists of   *)
(* its parents; however the calls overlap, the audit trail holds what the  *)
(* rows went through, and one call at a time it holds it in order.         *)
(***************************************************************************)
EXTENDS GovernedRecords, SequenceTheorems, FiniteSetTheorems, TLAPS

-----------------------------------------------------------------------------
(* Sequences, whatever they hold *)

IsSeq(s) == s \in Seq(ToSet(s))

LEMMA SeqOfAny ==
  ASSUME NEW S, NEW s \in Seq(S)
  PROVE  IsSeq(s) /\ Len(s) \in Nat /\ DOMAIN s = 1 .. Len(s) /\ \A i \in DOMAIN s : s[i] \in ToSet(s)
<1>1. Len(s) \in Nat /\ DOMAIN s = 1 .. Len(s)
  BY LenProperties
<1>2. s \in [1 .. Len(s) -> ToSet(s)]
  BY <1>1 DEF ToSet
<1> QED BY <1>1, <1>2 DEF IsSeq, ToSet

LEMMA TailOf ==
  ASSUME NEW t, IsSeq(t), t # <<>>
  PROVE  /\ IsSeq(Tail(t)) /\ Len(t) \in Nat /\ Len(t) > 0 /\ DOMAIN t = 1 .. Len(t)
         /\ DOMAIN Tail(t) = 1 .. Len(t) - 1
         /\ \A n \in 1 .. Len(t) - 1 : Tail(t)[n] = t[n + 1]
         /\ Head(t) = t[1] /\ 1 \in DOMAIN t /\ Head(t) \in ToSet(t) /\ ToSet(Tail(t)) \subseteq ToSet(t)
<1>1. t \in Seq(ToSet(t))
  BY DEF IsSeq
<1>2. Len(t) \in Nat /\ DOMAIN t = 1 .. Len(t) /\ Len(t) > 0
  BY <1>1, LenProperties, EmptySeq
<1>3. /\ Tail(t) \in Seq(ToSet(t)) /\ Len(Tail(t)) = Len(t) - 1 /\ Head(t) = t[1]
      /\ \A n \in 1 .. Len(Tail(t)) : Tail(t)[n] = t[n + 1]
  BY <1>1, HeadTailProperties
<1>4. IsSeq(Tail(t)) /\ DOMAIN Tail(t) = 1 .. Len(t) - 1
  BY <1>3, SeqOfAny
<1>5. 1 \in DOMAIN t /\ Head(t) \in ToSet(t)
  BY <1>2, <1>3 DEF ToSet
<1>6. ToSet(Tail(t)) \subseteq ToSet(t)
  BY <1>2, <1>3, <1>4 DEF ToSet
<1> QED BY <1>2, <1>3, <1>4, <1>5, <1>6

LEMMA Appended ==
  ASSUME NEW s, IsSeq(s), NEW e
  PROVE  /\ IsSeq(Append(s, e)) /\ Len(s) \in Nat /\ DOMAIN s = 1 .. Len(s)
         /\ Len(Append(s, e)) = Len(s) + 1
         /\ DOMAIN Append(s, e) = 1 .. Len(s) + 1
         /\ \A i \in 1 .. Len(s) : Append(s, e)[i] = s[i]
         /\ Append(s, e)[Len(s) + 1] = e
         /\ ToSet(Append(s, e)) = ToSet(s) \cup {e}
<1> DEFINE S == ToSet(s) \cup {e}
<1>1. s \in Seq(S) /\ e \in S
  <2>1. Len(s) \in Nat /\ DOMAIN s = 1 .. Len(s) /\ s \in [1 .. Len(s) -> ToSet(s)]
    BY SeqOfAny DEF IsSeq
  <2>2. s \in [1 .. Len(s) -> S]
    BY <2>1
  <2> QED BY <2>1, <2>2
<1>2. /\ Append(s, e) \in Seq(S) /\ Len(Append(s, e)) = Len(s) + 1
      /\ \A i \in 1 .. Len(s) : Append(s, e)[i] = s[i]
      /\ Append(s, e)[Len(s) + 1] = e
  <2> HIDE DEF S
  <2> QED BY <1>1, AppendProperties
<1>3. Len(s) \in Nat /\ DOMAIN s = 1 .. Len(s)
  BY SeqOfAny DEF IsSeq
<1>4. IsSeq(Append(s, e)) /\ DOMAIN Append(s, e) = 1 .. Len(s) + 1
  BY <1>2, SeqOfAny
<1>5. ToSet(Append(s, e)) = ToSet(s) \cup {e}
  <2>1. ToSet(Append(s, e)) \subseteq ToSet(s) \cup {e}
    BY <1>2, <1>3, <1>4 DEF ToSet
  <2>2. ToSet(s) \subseteq ToSet(Append(s, e))
    BY <1>2, <1>3, <1>4 DEF ToSet
  <2>3. e \in ToSet(Append(s, e))
    <3>1. Len(s) + 1 \in DOMAIN Append(s, e)
      BY <1>3, <1>4
    <3> QED BY <1>2, <3>1 DEF ToSet
  <2> QED BY <2>1, <2>2, <2>3
<1> QED BY <1>2, <1>3, <1>4, <1>5

\* What replaces the head, or what is left of a part that is skipped.
LEMMA Concatenated ==
  ASSUME NEW a, IsSeq(a), NEW b, IsSeq(b)
  PROVE  IsSeq(a \o b) /\ ToSet(a \o b) \subseteq ToSet(a) \cup ToSet(b)
<1> DEFINE S == ToSet(a) \cup ToSet(b)
<1>1. a \in Seq(S) /\ b \in Seq(S)
  <2>1. Len(a) \in Nat /\ a \in [1 .. Len(a) -> ToSet(a)] /\ Len(b) \in Nat /\ b \in [1 .. Len(b) -> ToSet(b)]
    BY SeqOfAny DEF IsSeq
  <2>2. a \in [1 .. Len(a) -> S] /\ b \in [1 .. Len(b) -> S]
    BY <2>1
  <2> QED BY <2>1, <2>2
<1>2. a \o b \in Seq(S)
  BY <1>1
<1>3. IsSeq(a \o b) /\ DOMAIN (a \o b) = 1 .. Len(a \o b) /\ \A i \in DOMAIN (a \o b) : (a \o b)[i] \in S
  <2> HIDE DEF S
  <2> QED BY <1>2, SeqOfAny, ElementOfSeq
<1> QED BY <1>3 DEF ToSet

LEMMA SkippedSteps ==
  ASSUME NEW t, IsSeq(t), NEW h, h \in ToSet(t)
  PROVE  /\ <<h>> \o SubSeq(t, 3, Len(t)) # <<>> /\ IsSeq(<<h>> \o SubSeq(t, 3, Len(t)))
         /\ ToSet(Tail(<<h>> \o SubSeq(t, 3, Len(t)))) \subseteq ToSet(t)
<1>1. PICK u : u = SubSeq(t, 3, Len(t))
  OBVIOUS
<1>2. t \in Seq(ToSet(t)) /\ Len(t) \in Nat
  BY SeqOfAny DEF IsSeq
<1>3. u \in Seq(ToSet(t))
  <2>1. \A i \in 3 .. Len(t) : t[i] \in ToSet(t)
    BY <1>2, ElementOfSeq
  <2> QED BY <1>1, <1>2, <2>1, SubSeqProperties
<1>4. IsSeq(u) /\ ToSet(u) \subseteq ToSet(t)
  <2>1. IsSeq(u) /\ DOMAIN u = 1 .. Len(u)
    BY <1>3, SeqOfAny
  <2>2. \A i \in DOMAIN u : u[i] \in ToSet(t)
    BY <1>3, <2>1, ElementOfSeq
  <2> QED BY <2>1, <2>2 DEF ToSet
<1>5. <<h>> \in Seq({h}) /\ ToSet(<<h>>) = {h}
  BY DEF ToSet
<1>6. IsSeq(<<h>>)
  BY <1>5 DEF IsSeq
<1>7. PICK v : v = <<h>> \o u
  OBVIOUS
<1>8. IsSeq(v) /\ ToSet(v) \subseteq ToSet(t)
  BY <1>4, <1>5, <1>6, <1>7, Concatenated
<1>9. v # <<>>
  <2>1. Len(v) = Len(<<h>>) + Len(u) /\ Len(u) \in Nat /\ Len(<<h>>) = 1
    BY <1>3, <1>5, <1>7
  <2> QED BY <2>1
<1>10. ToSet(Tail(v)) \subseteq ToSet(t)
  BY <1>8, <1>9, TailOf
<1> QED BY <1>1, <1>7, <1>8, <1>9, <1>10

LEMMA ReplacedStep ==
  ASSUME NEW t, IsSeq(t), NEW h, h \in ToSet(t), NEW make, IsSeq(make), NEW rest, IsSeq(rest), ToSet(rest) \subseteq ToSet(t)
  PROVE  /\ <<h>> \o make \o rest # <<>> /\ IsSeq(<<h>> \o make \o rest)
         /\ ToSet(Tail(<<h>> \o make \o rest)) \subseteq ToSet(make) \cup ToSet(t)
<1>1. <<h>> \in Seq({h}) /\ ToSet(<<h>>) = {h} /\ Len(<<h>>) = 1
  BY DEF ToSet
<1>2. IsSeq(<<h>>)
  BY <1>1 DEF IsSeq
<1>3. PICK u, v : u = <<h>> \o make /\ v = u \o rest
  OBVIOUS
<1>4. IsSeq(u) /\ ToSet(u) \subseteq {h} \cup ToSet(make)
  BY <1>1, <1>2, <1>3, Concatenated
<1>5. IsSeq(v) /\ ToSet(v) \subseteq ToSet(make) \cup ToSet(t)
  BY <1>3, <1>4, Concatenated
<1>6. v # <<>>
  <2>1. make \in Seq(ToSet(make)) /\ u \in Seq(ToSet(u)) /\ rest \in Seq(ToSet(rest))
    BY <1>4 DEF IsSeq
  <2>2. PICK g : g = <<h>>
    OBVIOUS
  <2>3. g \in Seq({h}) /\ Len(g) = 1
    BY <1>1, <2>2
  <2>4. Len(u) = Len(g) + Len(make) /\ Len(make) \in Nat /\ Len(rest) \in Nat
    BY <1>3, <2>1, <2>2, <2>3
  <2>5. Len(v) = Len(u) + Len(rest)
    BY <1>3, <2>1
  <2> QED BY <2>3, <2>4, <2>5
<1>7. ToSet(Tail(v)) \subseteq ToSet(v)
  BY <1>5, <1>6, TailOf
<1> QED BY <1>3, <1>5, <1>6, <1>7

-----------------------------------------------------------------------------
(* The invariant: tables and the one call in flight *)

IsRow(r) ==
  r = [kind |-> r.kind, key |-> r.key, status |-> r.status, of |-> r.of, refs |-> r.refs,
       hist |-> r.hist, trail |-> r.trail, journal |-> r.journal, reviewer |-> r.reviewer,
       whole |-> r.whole, number |-> r.number, latest |-> r.latest, opened |-> r.opened]

IsCall(r) ==
  r = [op |-> r.op, kind |-> r.kind, key |-> r.key, names |-> r.names, to |-> r.to,
       refs |-> r.refs, count |-> r.count, reviewer |-> r.reviewer, todo |-> r.todo]

TableOK(t) ==
  /\ IsSeq(t)
  /\ \A i \in DOMAIN t : /\ IsRow(t[i]) /\ t[i].of \subseteq DOMAIN t
                         /\ IsSeq(t[i].hist) /\ t[i].reviewer \in BOOLEAN /\ t[i].whole \in BOOLEAN

KeepsReviewer(k) == k \in DOMAIN R.moves /\ R.moves[k].others # "clear"

Reviewed(t) ==
  \A i \in DOMAIN t : KeepsReviewer(t[i].kind) /\ ToSet(t[i].hist) \cap R.moves[t[i].kind].signed # {}
                        => t[i].reviewer = TRUE

\* Row i is in the list of the parent p, if p keeps one.
InList(t, i, p) == t[p].kind \in Listers(t[i].kind) => i \in t[p].refs

InLists(t) == \A i \in DOMAIN t : t[i].whole = TRUE => \A p \in t[i].of : InList(t, i, p)

TableInv(t) == TableOK(t) /\ Reviewed(t) /\ InLists(t)

\* A status call has its row, and what it will write back is what the row holds.
MoveOK(r, t) ==
  LET d == R.moves[r.kind] IN
  /\ r.kind \in DOMAIN R.moves /\ r.to \in UNION Range(d.table) /\ r.reviewer \in BOOLEAN
  /\ r.kind \in DOMAIN r.names /\ r.names[r.kind] \in DOMAIN t
  /\ \A s \in ToSet(r.todo) :
       /\ s.do \in Writing \cup {"readStatus", "readUses", "writeUses", "audit", "readJournal", "writeJournal"}
       /\ s.arg = None
  /\ d.others = "writeBack" =>
       \/ /\ 1 \in DOMAIN r.todo /\ r.todo[1].do = "readStatus"
          /\ \A n \in DOMAIN r.todo : n > 2 => r.todo[n].do \notin Writing
       \/ /\ r.reviewer = t[r.names[r.kind]].reviewer
          /\ \A n \in DOMAIN r.todo : n > 1 => r.todo[n].do \notin Writing
       \/ \A n \in DOMAIN r.todo : r.todo[n].do \notin Writing

\* The parent a list step is about: the named one, or the one the row named instead is under.
ParentOf(names, kind, through, t) ==
  LET far == {p \in t[names[through]].of : t[p].kind = kind}
  IN  IF through = None THEN names[kind]
      ELSE IF far = {} THEN Missing ELSE CHOOSE p \in far : TRUE

ListRead(r, s, t) ==
  LET p == ParentOf(r.names, s.of, s.arg, t) IN IF p = Missing THEN {} ELSE {x \in t[p].refs : t[x].kind = r.kind}

\* The row is there, and each parent lists it or will.
WillBeListed(r, t) ==
  /\ r.kind \in DOMAIN r.names /\ r.names[r.kind] \in DOMAIN t
  /\ \A p \in t[r.names[r.kind]].of :
       \/ InList(t, r.names[r.kind], p)
       \/ \E m \in DOMAIN r.todo : /\ r.todo[m].do = "writeRefs" /\ r.todo[m].arg = None
                                   /\ r.todo[m].of \in DOMAIN r.names /\ r.names[r.todo[m].of] = p

Listing(r, t) ==
  /\ \A s \in ToSet(r.todo) : s.do \in {"find", "insert", "readRefs", "writeRefs", "audit"}
  /\ Paired(r.todo) /\ r.kind \notin Listers(r.kind)
  /\ InsertedThenListed(r.todo, r.kind, Listers(r.kind) \cap DOMAIN r.names)
  /\ (\E n \in DOMAIN r.todo : r.todo[n].do \in Inserting) \/ WillBeListed(r, t)
  /\ 1 \in DOMAIN r.todo /\ r.todo[1].do = "writeRefs" => r.refs = ListRead(r, r.todo[1], t)

CreateOK(r, t) ==
  /\ r.op \in DOMAIN R.creates /\ r.kind = R.creates[r.op].kind /\ r.to = R.creates[r.op].status
  /\ StatusesAreFresh(R, R.creates[r.op], r.todo)
  /\ r.kind \in DOMAIN r.names \/ WrittenWhenThere(r.todo, r.kind)
  /\ IF Listers(r.kind) = {} THEN Unlisted(R, r.todo) ELSE Listing(r, t)

NamesOK(names, t) ==
  /\ names = [k \in DOMAIN names |-> names[k]]
  /\ \A k \in DOMAIN names : /\ names[k] \in DOMAIN t \cup {Missing}
                             /\ names[k] \in DOMAIN t => t[names[k]].kind = k

CallOK(r, t) ==
  /\ IsCall(r) /\ IsSeq(r.todo) /\ NamesOK(r.names, t)
  /\ IF r.op = "move" THEN MoveOK(r, t) ELSE CreateOK(r, t)

Alone == \A c, d \in Slots : req[c] # Idle /\ req[d] # Idle => c = d

Serial ==
  /\ Alone /\ TableInv(rows)
  /\ req = [c \in Slots |-> req[c]]
  /\ \A c \in Slots : req[c] # Idle => CallOK(req[c], rows)

GovInv == repo \in DOMAIN Repositories /\ (mode = "serial" => Serial)

After(r) == [r EXCEPT !.todo = Tail(@)]

-----------------------------------------------------------------------------
LEMMA MoveIsNoCreation ==
  ASSUME repo \in DOMAIN Repositories
  PROVE  "move" \notin DOMAIN R.creates
BY ProgramsAssumption DEF R

Put(t, x, r) == [t EXCEPT ![x] = r]

LEMMA RowReplaced ==
  ASSUME NEW t, IsSeq(t), NEW x \in DOMAIN t, NEW r, NEW u, u = Put(t, x, r)
  PROVE  /\ IsSeq(u) /\ DOMAIN u = DOMAIN t /\ Len(u) = Len(t) /\ u[x] = r
         /\ \A i \in DOMAIN t \ {x} : u[i] = t[i]
<1>1. Len(t) \in Nat /\ DOMAIN t = 1 .. Len(t) /\ t \in [1 .. Len(t) -> ToSet(t)]
  BY SeqOfAny DEF IsSeq
<1>2. /\ u \in [1 .. Len(t) -> ToSet(t) \cup {r}] /\ u[x] = r
      /\ \A i \in DOMAIN t \ {x} : u[i] = t[i]
  BY <1>1 DEF Put
<1>3. u \in Seq(ToSet(t) \cup {r}) /\ Len(u) = Len(t)
  BY <1>1, <1>2
<1>4. IsSeq(u)
  BY <1>3, SeqOfAny
<1> QED BY <1>1, <1>2, <1>3, <1>4

\* A row is replaced by one that differs from it in what no list and no reviewer is about.
AlikeRows(r, q) ==
  /\ IsRow(r) /\ r.kind = q.kind /\ r.of = q.of /\ r.refs = q.refs
  /\ r.hist = q.hist /\ r.reviewer = q.reviewer /\ r.whole \in BOOLEAN

LEMMA RowAlike ==
  ASSUME NEW t, TableOK(t), NEW x \in DOMAIN t, NEW r, AlikeRows(r, t[x]), NEW u, u = Put(t, x, r)
  PROVE  /\ TableOK(u) /\ DOMAIN u = DOMAIN t /\ u[x] = r
         /\ \A i \in DOMAIN t : AlikeRows(u[i], t[i]) /\ (i # x => u[i] = t[i])
<1>1. IsSeq(t)
  BY DEF TableOK
<1>2. IsSeq(u) /\ DOMAIN u = DOMAIN t /\ u[x] = r /\ \A i \in DOMAIN t \ {x} : u[i] = t[i]
  BY <1>1, RowReplaced
<1>3. TableOK(u)
  BY <1>2 DEF TableOK, AlikeRows
<1> QED BY <1>2, <1>3 DEF AlikeRows, TableOK

\* The repository of a behaviour stays the same, so what holds of the new tables
\* holds of them in the next state.
LEMMA SameRepository ==
  ASSUME UNCHANGED frozen
  PROVE  /\ TableInv(rows') => TableInv(rows)'
         /\ \A c \in Slots : CallOK(req'[c], rows') => CallOK(req[c], rows)'
         /\ R' = R /\ mode' = mode
<1>1. R' = R /\ mode' = mode
  BY DEF frozen, R
<1>2. TableInv(rows') => TableInv(rows)'
  <2>1. TableOK(rows') => TableOK(rows)'
    BY DEF TableOK
  <2>2. Reviewed(rows') => Reviewed(rows)'
    BY <1>1 DEF Reviewed, KeepsReviewer
  <2>3. InLists(rows') => InLists(rows)'
    BY <1>1 DEF InLists, InList, Listers
  <2> QED BY <2>1, <2>2, <2>3 DEF TableInv
<1>3. ASSUME NEW c \in Slots, CallOK(req'[c], rows') PROVE CallOK(req[c], rows)'
  <2>1. MoveOK(req'[c], rows') => MoveOK(req[c], rows)'
    BY <1>1 DEF MoveOK
  <2>2. Listing(req'[c], rows') => Listing(req[c], rows)'
    <3>1. WillBeListed(req'[c], rows') => WillBeListed(req[c], rows)'
      BY <1>1 DEF WillBeListed, InList, Listers
    <3> QED BY <1>1, <3>1 DEF Listing, Listers
  <2>3. CreateOK(req'[c], rows') => CreateOK(req[c], rows)'
    BY <1>1, <2>2 DEF CreateOK, Listers
  <2> QED BY <1>3, <2>1, <2>3 DEF CallOK, NamesOK
<1> QED BY <1>1, <1>2, <1>3

LEMMA OthersAreIdle ==
  ASSUME Serial, NEW c \in Slots, req[c] # Idle, UNCHANGED frozen, TableInv(rows'),
         NEW q, req' = [req EXCEPT ![c] = q], q # Idle => CallOK(q, rows')
  PROVE  Serial'
<1>1. req' = [d \in Slots |-> req'[d]] /\ req'[c] = q /\ \A d \in Slots \ {c} : req'[d] = Idle
  BY DEF Serial, Alone
<1>2. Alone'
  BY <1>1 DEF Alone, Idle
<1>3. \A d \in Slots : req'[d] # Idle => CallOK(req'[d], rows')
  BY <1>1
<1>4. (\A d \in Slots : req[d] # Idle => CallOK(req[d], rows))'
  BY <1>3, SameRepository DEF Idle
<1> QED BY <1>1, <1>2, <1>4, SameRepository DEF Serial

LEMMA EndKeeps ==
  ASSUME Serial, NEW c \in Slots, req[c] # Idle, UNCHANGED frozen, End(c)
  PROVE  Serial'
<1>1. rows' = rows /\ req' = [req EXCEPT ![c] = Idle]
  BY DEF End
<1>2. TableInv(rows')
  BY <1>1 DEF Serial
<1> QED BY <1>1, <1>2, OthersAreIdle

\* A call goes on: enough that its table and what is left of it are in order.
LEMMA GoKeeps ==
  ASSUME Serial, NEW c \in Slots, req[c] # Idle, repo \in DOMAIN Repositories, UNCHANGED frozen,
         NEW r, IsCall(r), NEW table, TableInv(table), CallOK(After(r), table), Go(c, r, table)
  PROVE  Serial'
<1>1. PICK q : q = After(r)
  OBVIOUS
<1>2. /\ q.op = r.op /\ q.kind = r.kind /\ q.names = r.names /\ q.todo = Tail(r.todo)
      /\ q = [r EXCEPT !.todo = Tail(r.todo)] /\ CallOK(q, table)
  BY <1>1 DEF After, IsCall
<1>3. CASE Tail(r.todo) # <<>>
  <2>1. req' = [req EXCEPT ![c] = q] /\ rows' = table
    BY <1>2, <1>3 DEF Go
  <2> QED BY <1>2, <2>1, OthersAreIdle
<1>4. CASE Tail(r.todo) = <<>>
  <2>1. req' = [req EXCEPT ![c] = Idle]
    BY <1>4 DEF Go
  <2>2. CASE r.kind \notin DOMAIN r.names \/ r.names[r.kind] \notin DOMAIN table
    <3>1. rows' = table
      BY <1>4, <2>2 DEF Go, TableInv, TableOK, IsSeq
    <3> QED BY <2>1, <3>1, OthersAreIdle
  <2>3. CASE r.kind \in DOMAIN r.names /\ r.names[r.kind] \in DOMAIN table
    <3>1. PICK x : x = r.names[r.kind]
      OBVIOUS
    <3>2. PICK b : b = (r.op \in DOMAIN R.creates)
      OBVIOUS
    <3>3. PICK w : w = (table[x].whole \/ b)
      OBVIOUS
    <3>4. PICK s : s = [table[x] EXCEPT !.whole = w]
      OBVIOUS
    <3>5. rows' = Put(table, x, s)
      BY <1>4, <2>3, <3>1, <3>2, <3>3, <3>4 DEF Go, Put
    <3>6. x \in DOMAIN table /\ TableOK(table) /\ w \in BOOLEAN /\ (w = TRUE => table[x].whole = TRUE \/ b = TRUE)
      BY <2>3, <3>1, <3>2, <3>3 DEF TableInv, TableOK
    <3>7. /\ TableOK(rows') /\ DOMAIN rows' = DOMAIN table /\ rows'[x].whole = w
          /\ \A i \in DOMAIN table : AlikeRows(rows'[i], table[i]) /\ (i # x => rows'[i] = table[i])
      <4>1. AlikeRows(s, table[x]) /\ s.whole = w
        BY <3>4, <3>6 DEF TableOK, IsRow, AlikeRows
      <4> QED BY <3>5, <3>6, <4>1, RowAlike
    <3>8. Reviewed(rows')
      BY <3>7 DEF TableInv, Reviewed, AlikeRows
    <3>9. ASSUME b = TRUE PROVE \A p \in table[x].of : InList(table, x, p)
      <4>1. r.op # "move"
        BY <3>2, <3>9, MoveIsNoCreation
      <4>2. CreateOK(q, table) /\ DOMAIN q.todo = {}
        BY <1>2, <1>4, <4>1 DEF CallOK
      <4>3. table[x].kind = q.kind
        <5>1. q.kind \in DOMAIN q.names /\ q.names[q.kind] = x /\ x \in DOMAIN table
          BY <1>2, <2>3, <3>1
        <5> QED BY <1>2, <5>1 DEF CallOK, NamesOK
      <4>4. CASE Listers(q.kind) = {}
        BY <4>3, <4>4 DEF InList
      <4>5. CASE Listing(q, table)
        BY <1>2, <3>1, <4>2, <4>5 DEF Listing, WillBeListed
      <4> QED BY <4>2, <4>4, <4>5 DEF CreateOK
    <3>10. InLists(rows')
      <4> SUFFICES ASSUME NEW i \in DOMAIN table, rows'[i].whole = TRUE, NEW p \in table[i].of PROVE InList(rows', i, p)
        BY <3>7 DEF InLists, AlikeRows
      <4>1. p \in DOMAIN table
        BY <3>6 DEF TableOK
      <4>2. InList(table, i, p)
        BY <3>2, <3>6, <3>7, <3>9 DEF TableInv, InLists
      <4> QED BY <3>7, <4>1, <4>2 DEF InList, AlikeRows
    <3> QED BY <2>1, <3>7, <3>8, <3>10, OthersAreIdle DEF TableInv
  <2> QED BY <2>2, <2>3
<1> QED BY <1>3, <1>4

-----------------------------------------------------------------------------
(* What is left of a program *)

LEMMA FewerSteps ==
  ASSUME NEW rp, NEW d, NEW t, NEW u, ToSet(u) \subseteq ToSet(t)
  PROVE  /\ StatusesAreFresh(rp, d, t) => StatusesAreFresh(rp, d, u)
         /\ Unlisted(rp, t) => Unlisted(rp, u)
<1>1. StatusesAreFresh(rp, d, t) => StatusesAreFresh(rp, d, u)
  BY DEF StatusesAreFresh
<1>2. Unlisted(rp, t) => Unlisted(rp, u)
  BY DEF Unlisted
<1> QED BY <1>1, <1>2

LEMMA WrittenTail ==
  ASSUME NEW t, IsSeq(t), t # <<>>, NEW k, WrittenWhenThere(t, k), ~(t[1].do \in Inserting /\ t[1].of = k)
  PROVE  WrittenWhenThere(Tail(t), k)
<1> SUFFICES ASSUME NEW n \in DOMAIN Tail(t), Tail(t)[n].do \in Writing
             PROVE  \E m \in DOMAIN Tail(t) : m < n /\ Tail(t)[m].do \in Inserting /\ Tail(t)[m].of = k
  BY DEF WrittenWhenThere
<1>1. Len(t) \in Nat /\ DOMAIN t = 1 .. Len(t) /\ DOMAIN Tail(t) = 1 .. Len(t) - 1
      /\ \A i \in 1 .. Len(t) - 1 : Tail(t)[i] = t[i + 1]
  BY TailOf
<1>2. n + 1 \in DOMAIN t /\ t[n + 1].do \in Writing
  BY <1>1
<1>3. PICK m \in DOMAIN t : m < n + 1 /\ t[m].do \in Inserting /\ t[m].of = k
  BY <1>2 DEF WrittenWhenThere
<1>4. m # 1
  BY <1>3
<1>5. m - 1 \in DOMAIN Tail(t) /\ m - 1 < n /\ Tail(t)[m - 1] = t[m - 1 + 1] /\ m - 1 + 1 = m
  BY <1>1, <1>3, <1>4
<1> QED BY <1>3, <1>5

LEMMA PairedTail ==
  ASSUME NEW t, IsSeq(t), t # <<>>, Paired(t)
  PROVE  /\ Paired(Tail(t))
         /\ 1 \in DOMAIN Tail(t) /\ Tail(t)[1].do = "writeRefs" => t[1].do = "readRefs"
<1>1. Len(t) \in Nat /\ DOMAIN t = 1 .. Len(t) /\ DOMAIN Tail(t) = 1 .. Len(t) - 1
      /\ \A i \in 1 .. Len(t) - 1 : Tail(t)[i] = t[i + 1]
  BY TailOf
<1>2. ASSUME NEW n \in DOMAIN Tail(t), Tail(t)[n].do = "readRefs"
      PROVE  /\ n + 1 \in DOMAIN Tail(t) /\ Tail(t)[n + 1].do = "writeRefs"
             /\ Tail(t)[n + 1].of = Tail(t)[n].of /\ Tail(t)[n + 1].arg = Tail(t)[n].arg
  <2>1. n + 1 \in DOMAIN t /\ t[n + 1].do = "readRefs" /\ Tail(t)[n] = t[n + 1]
    BY <1>1, <1>2
  <2>2. /\ n + 1 + 1 \in DOMAIN t /\ t[n + 1 + 1].do = "writeRefs"
        /\ t[n + 1 + 1].of = t[n + 1].of /\ t[n + 1 + 1].arg = t[n + 1].arg
    BY <2>1 DEF Paired
  <2>3. n + 1 \in DOMAIN Tail(t) /\ Tail(t)[n + 1] = t[n + 1 + 1]
    BY <1>1, <2>2
  <2> QED BY <2>1, <2>2, <2>3
<1>3. ASSUME NEW n \in DOMAIN Tail(t), Tail(t)[n].do = "writeRefs" PROVE t[n].do = "readRefs"
  <2>1. n + 1 \in DOMAIN t /\ t[n + 1].do = "writeRefs" /\ n + 1 > 1
    BY <1>1, <1>3
  <2>2. t[n + 1 - 1].do = "readRefs" /\ n + 1 - 1 = n
    BY <1>1, <2>1 DEF Paired
  <2> QED BY <2>2
<1>4. ASSUME NEW n \in DOMAIN Tail(t), Tail(t)[n].do = "writeRefs", n > 1 PROVE Tail(t)[n - 1].do = "readRefs"
  <2>1. t[n].do = "readRefs"
    BY <1>3, <1>4
  <2>2. Tail(t)[n - 1] = t[n - 1 + 1] /\ n - 1 + 1 = n
    BY <1>1, <1>4
  <2> QED BY <2>1, <2>2
<1>5. Paired(Tail(t))
  BY <1>2, <1>4 DEF Paired
<1> QED BY <1>3, <1>5

LEMMA InsertedTail ==
  ASSUME NEW t, IsSeq(t), t # <<>>, NEW k, NEW P, InsertedThenListed(t, k, P)
  PROVE  InsertedThenListed(Tail(t), k, P)
<1>1. Len(t) \in Nat /\ DOMAIN t = 1 .. Len(t) /\ DOMAIN Tail(t) = 1 .. Len(t) - 1
      /\ \A i \in 1 .. Len(t) - 1 : Tail(t)[i] = t[i + 1]
  BY TailOf
<1> SUFFICES ASSUME NEW n \in DOMAIN Tail(t), Tail(t)[n].do \in Inserting
             PROVE  /\ Tail(t)[n].do = "insert" /\ Tail(t)[n].of = k /\ Tail(t)[n].arg = None
                    /\ \A m \in DOMAIN Tail(t) : Tail(t)[m].do \in Inserting => m = n
                    /\ \A p \in Tail(t)[n].under \cap P : \E m \in DOMAIN Tail(t) :
                         m > n /\ Tail(t)[m].do = "writeRefs" /\ Tail(t)[m].arg = None /\ Tail(t)[m].of = p
  BY DEF InsertedThenListed
<1>2. n + 1 \in DOMAIN t /\ t[n + 1].do \in Inserting /\ Tail(t)[n] = t[n + 1]
  BY <1>1
<1>3. /\ t[n + 1].do = "insert" /\ t[n + 1].of = k /\ t[n + 1].arg = None
      /\ \A m \in DOMAIN t : t[m].do \in Inserting => m = n + 1
      /\ \A p \in t[n + 1].under \cap P : \E m \in DOMAIN t :
           m > n + 1 /\ t[m].do = "writeRefs" /\ t[m].arg = None /\ t[m].of = p
  BY <1>2 DEF InsertedThenListed
<1>4. ASSUME NEW m \in DOMAIN Tail(t), Tail(t)[m].do \in Inserting PROVE m = n
  <2>1. m + 1 \in DOMAIN t /\ t[m + 1].do \in Inserting
    BY <1>1, <1>4
  <2>2. m + 1 = n + 1
    BY <1>3, <2>1
  <2> QED BY <1>1, <2>2
<1>5. ASSUME NEW p \in Tail(t)[n].under \cap P
      PROVE  \E m \in DOMAIN Tail(t) :
               m > n /\ Tail(t)[m].do = "writeRefs" /\ Tail(t)[m].arg = None /\ Tail(t)[m].of = p
  <2>1. PICK m \in DOMAIN t : m > n + 1 /\ t[m].do = "writeRefs" /\ t[m].arg = None /\ t[m].of = p
    BY <1>2, <1>3, <1>5
  <2>2. m - 1 \in DOMAIN Tail(t) /\ m - 1 > n /\ Tail(t)[m - 1] = t[m - 1 + 1] /\ m - 1 + 1 = m
    BY <1>1, <2>1
  <2> QED BY <2>1, <2>2
<1> QED BY <1>2, <1>3, <1>4, <1>5

\* What a step may do to the tables without any call or list noticing it.
Alike(t, u) == DOMAIN u = DOMAIN t /\ \A i \in DOMAIN t : AlikeRows(u[i], t[i]) /\ u[i].whole = t[i].whole

LEMMA AlikeTables ==
  ASSUME NEW t, TableInv(t), NEW u, TableOK(u), Alike(t, u)
  PROVE  TableInv(u)
<1>1. Reviewed(u)
  BY DEF TableInv, Reviewed, Alike, AlikeRows
<1>2. InLists(u)
  BY DEF TableInv, TableOK, InLists, InList, Alike, AlikeRows
<1> QED BY <1>1, <1>2 DEF TableInv

LEMMA ChangedAlike ==
  ASSUME NEW t, TableInv(t), NEW x, NEW r, x \in DOMAIN t => AlikeRows(r, t[x]) /\ r.whole = t[x].whole,
         NEW u, u = Put(t, x, r)
  PROVE  TableInv(u) /\ Alike(t, u)
<1>1. IsSeq(t) /\ TableOK(t)
  BY DEF TableInv, TableOK
<1>2. CASE x \in DOMAIN t
  <2>1. /\ TableOK(u) /\ DOMAIN u = DOMAIN t /\ u[x] = r
        /\ \A i \in DOMAIN t : AlikeRows(u[i], t[i]) /\ (i # x => u[i] = t[i])
    BY <1>1, <1>2, RowAlike
  <2>2. Alike(t, u)
    BY <1>2, <2>1 DEF Alike
  <2> QED BY <2>1, <2>2, AlikeTables
<1>3. CASE x \notin DOMAIN t
  <2>1. u = t
    BY <1>1, <1>3 DEF IsSeq, Put
  <2>2. Alike(t, t)
    BY <1>1 DEF Alike, AlikeRows, TableOK
  <2> QED BY <2>1, <2>2
<1> QED BY <1>2, <1>3

-----------------------------------------------------------------------------
(* A call takes a step that leaves its names and the lists alone *)

Silent(do) == do \notin Inserting \cup Writing \cup {"readStatus", "readRefs", "writeRefs"}

SameCall(q, r) ==
  IsCall(q) /\ q.op = r.op /\ q.kind = r.kind /\ q.names = r.names /\ q.to = r.to /\ q.reviewer = r.reviewer

\* The rows a call names are as they were, and so are the lists it may be in.
SameForCall(t, u, k) ==
  /\ DOMAIN u = DOMAIN t
  /\ \A i \in DOMAIN t : /\ u[i].kind = t[i].kind /\ u[i].of = t[i].of
                         /\ u[i].refs = t[i].refs \/ Listers(k) = {}

\* Nothing is taken from a list.
Grown(t, u) ==
  /\ DOMAIN u = DOMAIN t
  /\ \A i \in DOMAIN t : u[i].kind = t[i].kind /\ u[i].of = t[i].of /\ t[i].refs \subseteq u[i].refs

LEMMA MoveGoesOn ==
  ASSUME NEW r, NEW t, MoveOK(r, t), IsSeq(r.todo), r.todo # <<>>, Silent(r.todo[1].do),
         NEW q, SameCall(q, r), q.todo = Tail(r.todo), NEW u, DOMAIN u = DOMAIN t
  PROVE  MoveOK(q, u)
<1>1. /\ Len(r.todo) \in Nat /\ DOMAIN r.todo = 1 .. Len(r.todo) /\ DOMAIN q.todo = 1 .. Len(r.todo) - 1
      /\ \A n \in 1 .. Len(r.todo) - 1 : q.todo[n] = r.todo[n + 1]
      /\ ToSet(q.todo) \subseteq ToSet(r.todo)
  BY TailOf
<1>2. ASSUME R.moves[r.kind].others = "writeBack", NEW n \in DOMAIN q.todo PROVE q.todo[n].do \notin Writing
  <2>1. n + 1 \in DOMAIN r.todo /\ n + 1 > 1 /\ q.todo[n] = r.todo[n + 1]
    BY <1>1
  <2>2. \A m \in DOMAIN r.todo : m > 1 => r.todo[m].do \notin Writing
    BY <1>2 DEF MoveOK, Silent
  <2> QED BY <2>1, <2>2
<1> QED BY <1>1, <1>2 DEF MoveOK, SameCall

\* The list that is written next was just read, and the record is in the list
\* once it was written.
LEMMA ListingGoesOn ==
  ASSUME NEW r, NEW t, Listing(r, t), TableOK(t), IsSeq(r.todo), r.todo # <<>>, r.todo[1].do \notin Inserting,
         NEW q, SameCall(q, r), q.todo = Tail(r.todo), NEW u, Grown(t, u),
         r.todo[1].do = "readRefs" /\ 1 \in DOMAIN q.todo => q.refs = ListRead(q, q.todo[1], u),
         r.todo[1].do = "writeRefs" /\ r.todo[1].arg = None /\ r.names[r.todo[1].of] \in DOMAIN t
           => r.names[r.kind] \in u[r.names[r.todo[1].of]].refs
  PROVE  Listing(q, u)
<1>1. /\ Len(r.todo) \in Nat /\ DOMAIN r.todo = 1 .. Len(r.todo) /\ DOMAIN q.todo = 1 .. Len(r.todo) - 1
      /\ \A n \in 1 .. Len(r.todo) - 1 : q.todo[n] = r.todo[n + 1]
      /\ ToSet(q.todo) \subseteq ToSet(r.todo)
  BY TailOf
<1>2. Paired(q.todo) /\ (1 \in DOMAIN q.todo /\ q.todo[1].do = "writeRefs" => q.refs = ListRead(q, q.todo[1], u))
  <2>1. Paired(q.todo) /\ (1 \in DOMAIN q.todo /\ q.todo[1].do = "writeRefs" => r.todo[1].do = "readRefs")
    BY PairedTail DEF Listing
  <2> QED BY <2>1
<1>3. InsertedThenListed(q.todo, q.kind, Listers(q.kind) \cap DOMAIN q.names)
  BY InsertedTail DEF Listing, SameCall
<1>4. ASSUME NEW n \in DOMAIN r.todo, n # 1
      PROVE  n - 1 \in DOMAIN q.todo /\ q.todo[n - 1] = r.todo[n]
  <2>1. n - 1 \in 1 .. Len(r.todo) - 1 /\ n - 1 + 1 = n
    BY <1>1, <1>4
  <2> QED BY <1>1, <2>1
<1>5. (\E n \in DOMAIN q.todo : q.todo[n].do \in Inserting) \/ WillBeListed(q, u)
  <2>1. CASE \E n \in DOMAIN r.todo : r.todo[n].do \in Inserting
    <3>1. PICK n \in DOMAIN r.todo : r.todo[n].do \in Inserting
      BY <2>1
    <3>2. n - 1 \in DOMAIN q.todo /\ q.todo[n - 1] = r.todo[n]
      BY <1>4, <3>1
    <3> QED BY <3>1, <3>2
  <2>2. CASE WillBeListed(r, t)
    <3>1. PICK i : i = r.names[r.kind]
      OBVIOUS
    <3>2. /\ q.kind \in DOMAIN q.names /\ q.names[q.kind] = i /\ i \in DOMAIN t /\ i \in DOMAIN u
          /\ u[i].of = t[i].of /\ t[i].of \subseteq DOMAIN t
      BY <2>2, <3>1 DEF WillBeListed, SameCall, Grown, TableOK
    <3>3. ASSUME NEW p \in u[i].of
          PROVE  \/ InList(u, i, p)
                 \/ \E m \in DOMAIN q.todo : /\ q.todo[m].do = "writeRefs" /\ q.todo[m].arg = None
                                             /\ q.todo[m].of \in DOMAIN q.names /\ q.names[q.todo[m].of] = p
      <4>1. p \in DOMAIN t /\ p \in t[i].of
        BY <3>2, <3>3
      <4>2. CASE InList(t, i, p)
        BY <3>2, <4>1, <4>2 DEF InList, Grown
      <4>3. CASE \E m \in DOMAIN r.todo : /\ r.todo[m].do = "writeRefs" /\ r.todo[m].arg = None
                                          /\ r.todo[m].of \in DOMAIN r.names /\ r.names[r.todo[m].of] = p
        <5>1. PICK m \in DOMAIN r.todo : /\ r.todo[m].do = "writeRefs" /\ r.todo[m].arg = None
                                         /\ r.todo[m].of \in DOMAIN r.names /\ r.names[r.todo[m].of] = p
          BY <4>3
        <5>2. CASE m = 1
          BY <3>1, <4>1, <5>1, <5>2 DEF InList
        <5>3. CASE m # 1
          <6>1. m - 1 \in DOMAIN q.todo /\ q.todo[m - 1] = r.todo[m]
            BY <1>4, <5>3
          <6> QED BY <5>1, <6>1 DEF SameCall
        <5> QED BY <5>2, <5>3
      <4> QED BY <2>2, <3>1, <4>1, <4>2, <4>3 DEF WillBeListed
    <3> QED BY <3>2, <3>3 DEF WillBeListed
  <2> QED BY <2>1, <2>2 DEF Listing
<1>6. q.kind \notin Listers(q.kind) /\ \A s \in ToSet(q.todo) : s.do \in {"find", "insert", "readRefs", "writeRefs", "audit"}
  BY <1>1 DEF Listing, SameCall
<1> QED BY <1>2, <1>3, <1>5, <1>6 DEF Listing

\* A creating call goes on: enough that its lists are in order.
LEMMA CreateGoesOn ==
  ASSUME NEW r, NEW t, CallOK(r, t), r.todo # <<>>, r.todo[1].do \notin Inserting, r.op # "move",
         NEW q, SameCall(q, r), q.todo = Tail(r.todo),
         NEW u, DOMAIN u = DOMAIN t, \A i \in DOMAIN t : u[i].kind = t[i].kind,
         Listers(r.kind) # {} => Listing(q, u)
  PROVE  CallOK(q, u)
<1>1. IsSeq(r.todo)
  BY DEF CallOK
<1>2. IsSeq(q.todo) /\ ToSet(q.todo) \subseteq ToSet(r.todo)
  BY <1>1, TailOf
<1>3. NamesOK(q.names, u)
  BY DEF CallOK, NamesOK, SameCall
<1>4. CreateOK(r, t)
  BY DEF CallOK
<1>5. StatusesAreFresh(R, R.creates[r.op], q.todo) /\ (Unlisted(R, r.todo) => Unlisted(R, q.todo))
  BY <1>2, <1>4, FewerSteps DEF CreateOK
<1>6. r.kind \in DOMAIN r.names \/ WrittenWhenThere(q.todo, r.kind)
  BY <1>1, <1>4, WrittenTail DEF CreateOK
<1>7. CreateOK(q, u)
  BY <1>4, <1>5, <1>6 DEF CreateOK, SameCall
<1> QED BY <1>2, <1>3, <1>7 DEF CallOK, SameCall

LEMMA CallGoesOn ==
  ASSUME NEW r, NEW t, CallOK(r, t), TableOK(t), r.todo # <<>>, Silent(r.todo[1].do),
         NEW q, SameCall(q, r), q.todo = Tail(r.todo), NEW u, SameForCall(t, u, r.kind)
  PROVE  CallOK(q, u)
<1>1. IsSeq(r.todo) /\ DOMAIN u = DOMAIN t /\ \A i \in DOMAIN t : u[i].kind = t[i].kind
  BY DEF CallOK, SameForCall
<1>2. CASE r.op = "move"
  <2>1. MoveOK(q, u)
    BY <1>1, <1>2, MoveGoesOn DEF CallOK
  <2>2. IsSeq(q.todo)
    BY <1>1, TailOf
  <2>3. NamesOK(q.names, u)
    BY <1>1 DEF CallOK, NamesOK, SameCall
  <2> QED BY <1>2, <2>1, <2>2, <2>3 DEF CallOK, SameCall
<1>3. CASE r.op # "move"
  <2>1. ASSUME Listers(r.kind) # {} PROVE Listing(q, u)
    <3>1. Listing(r, t) /\ Grown(t, u)
      BY <1>3, <2>1 DEF CallOK, CreateOK, SameForCall, Grown
    <3> QED BY <1>1, <3>1, ListingGoesOn DEF Silent
  <2> QED BY <1>1, <1>3, <2>1, CreateGoesOn DEF Silent
<1> QED BY <1>2, <1>3

\* What is left of a call, when no field that matters changes on the way.
LEMMA SilentStep ==
  ASSUME Serial, NEW c \in Slots, req[c].todo # <<>>, Silent(Step(c).do), repo \in DOMAIN Repositories, UNCHANGED frozen,
         NEW r, SameCall(r, req[c]), r.todo = req[c].todo,
         NEW table, TableInv(table), SameForCall(rows, table, req[c].kind), Go(c, r, table)
  PROVE  Serial'
<1>1. req[c] # Idle
  BY DEF Idle
<1>2. CallOK(req[c], rows) /\ TableOK(rows) /\ IsSeq(req[c].todo)
  BY <1>1 DEF Serial, TableInv, CallOK
<1>3. Step(c) = req[c].todo[1]
  BY <1>2, TailOf DEF Step
<1>4. PICK q : q = After(r)
  OBVIOUS
<1>5. SameCall(q, req[c]) /\ q.todo = Tail(req[c].todo)
  BY <1>4 DEF After, SameCall, IsCall
<1>6. CallOK(After(r), table)
  BY <1>2, <1>3, <1>4, <1>5, CallGoesOn
<1> QED BY <1>1, <1>6, GoKeeps DEF SameCall

LEMMA SameTables ==
  ASSUME Serial, NEW c \in Slots, req[c].todo # <<>>
  PROVE  /\ req[c] # Idle /\ SameCall(req[c], req[c]) /\ TableInv(rows) /\ SameForCall(rows, rows, req[c].kind)
         /\ IsCall(req[c]) /\ IsSeq(req[c].todo) /\ Step(c) = req[c].todo[1]
<1>1. req[c] # Idle
  BY DEF Idle
<1>2. CallOK(req[c], rows) /\ TableInv(rows)
  BY <1>1 DEF Serial
<1>3. Step(c) = req[c].todo[1]
  BY <1>2, TailOf DEF Step, CallOK
<1> QED BY <1>1, <1>2, <1>3 DEF CallOK, SameCall, SameForCall

-----------------------------------------------------------------------------
(* The awaits that read, and the ones that write what no list is about *)

LEMMA AtStep ==
  ASSUME NEW c \in Slots, NEW do, At(c, do)
  PROVE  req[c].todo # <<>> /\ Step(c).do = do
BY DEF At, Step

LEMMA ReadsKeep ==
  ASSUME Serial, repo \in DOMAIN Repositories, UNCHANGED frozen, NEW c \in Slots,
         LookUp(c) \/ LookUpAny(c) \/ FindParent(c) \/ FindSource(c) \/ ReadNumbers(c) \/ ReadUses(c) \/ ReadJournal(c)
  PROVE  Serial'
<1>1. /\ req[c].todo # <<>>
      /\ Step(c).do \in {"lookUp", "lookUpAny", "find", "findSource", "readNumbers", "readUses", "readJournal"}
  BY Zenon DEF At, Step, LookUp, LookUpAny, FindParent, FindSource, ReadNumbers, ReadUses, ReadJournal
<1>2. Silent(Step(c).do)
  BY <1>1 DEF Silent, Inserting, Writing
<1>3. /\ req[c] # Idle /\ SameCall(req[c], req[c]) /\ TableInv(rows) /\ SameForCall(rows, rows, req[c].kind) /\ IsCall(req[c])
  BY <1>1, SameTables
<1>4. End(c) \/ Go(c, req[c], rows) \/ \E n : Go(c, [req[c] EXCEPT !.count = n], rows)
  BY DEF LookUp, LookUpAny, FindParent, FindSource, ReadNumbers, ReadUses, ReadJournal
<1>5. CASE End(c)
  BY <1>3, <1>5, EndKeeps
<1>6. CASE Go(c, req[c], rows)
  BY <1>1, <1>2, <1>3, <1>6, SilentStep
<1>7. CASE \E n : Go(c, [req[c] EXCEPT !.count = n], rows)
  <2>1. PICK n : Go(c, [req[c] EXCEPT !.count = n], rows)
    BY <1>7
  <2>2. PICK r : r = [req[c] EXCEPT !.count = n]
    OBVIOUS
  <2>3. SameCall(r, req[c]) /\ r.todo = req[c].todo
    BY <1>3, <2>2 DEF SameCall, IsCall
  <2> QED BY <1>1, <1>2, <1>3, <2>1, <2>2, <2>3, SilentStep
<1> QED BY <1>4, <1>5, <1>6, <1>7, Zenon

LEMMA AlikeForCall ==
  ASSUME NEW t, NEW u, Alike(t, u), NEW k
  PROVE  SameForCall(t, u, k)
BY DEF Alike, AlikeRows, SameForCall

LEMMA AuditKeeps ==
  ASSUME Serial, repo \in DOMAIN Repositories, UNCHANGED frozen, NEW c \in Slots, Audit(c)
  PROVE  Serial'
<1>1. req[c].todo # <<>> /\ Silent(Step(c).do)
  <2>1. req[c].todo # <<>> /\ Step(c).do = "audit"
    BY AtStep, Zenon DEF Audit
  <2> QED BY <2>1, Zenon DEF Silent, Inserting, Writing
<1>2. SameCall(req[c], req[c]) /\ TableInv(rows)
  BY <1>1, SameTables
<1>3. PICK i, e : Go(c, req[c], [rows EXCEPT ![i].trail = Append(@, e)])
  BY Zenon DEF Audit
<1>4. PICK s : s = Append(rows[i].trail, e)
  OBVIOUS
<1>5. PICK r, u : r = [rows[i] EXCEPT !.trail = s] /\ u = Put(rows, i, r)
  OBVIOUS
<1>6. i \in DOMAIN rows => AlikeRows(r, rows[i]) /\ r.whole = rows[i].whole
  BY <1>2, <1>5 DEF TableInv, TableOK, AlikeRows, IsRow
<1>7. TableInv(u) /\ Alike(rows, u)
  BY <1>2, <1>5, <1>6, ChangedAlike
<1>8. Go(c, req[c], u)
  BY <1>3, <1>4, <1>5 DEF Put
<1> QED BY <1>1, <1>2, <1>7, <1>8, AlikeForCall, SilentStep

LEMMA CountedWritesKeep ==
  ASSUME Serial, repo \in DOMAIN Repositories, UNCHANGED frozen, NEW c \in Slots, WriteUses(c) \/ WriteJournal(c)
  PROVE  Serial'
<1>1. req[c].todo # <<>> /\ Silent(Step(c).do)
  BY DEF WriteUses, WriteJournal, At, Step, Silent, Inserting, Writing
<1>2. req[c] # Idle /\ IsCall(req[c]) /\ TableInv(rows)
  BY <1>1, SameTables
<1>3. PICK q : q = [req[c] EXCEPT !.count = 0]
  OBVIOUS
<1>4. SameCall(q, req[c]) /\ q.todo = req[c].todo
  BY <1>2, <1>3 DEF SameCall, IsCall
<1>5. PICK i : i = Own(c)
  OBVIOUS
<1>6. \/ End(c)
      \/ Go(c, q, [rows EXCEPT ![i].latest = req[c].count + 1, ![i].opened = @ + 1])
      \/ Go(c, q, [rows EXCEPT ![i].journal = Append(@, req[c].to)])
  BY <1>3, <1>5 DEF WriteUses, WriteJournal
<1>7. CASE End(c)
  BY <1>2, <1>7, EndKeeps
<1>8. CASE Go(c, q, [rows EXCEPT ![i].journal = Append(@, req[c].to)])
  <2>0. PICK s : s = Append(rows[i].journal, req[c].to)
    OBVIOUS
  <2>1. PICK r, u : r = [rows[i] EXCEPT !.journal = s] /\ u = Put(rows, i, r)
    OBVIOUS
  <2>2. i \in DOMAIN rows => AlikeRows(r, rows[i]) /\ r.whole = rows[i].whole
    BY <1>2, <2>1 DEF TableInv, TableOK, AlikeRows, IsRow
  <2>3. TableInv(u) /\ Alike(rows, u)
    BY <1>2, <2>1, <2>2, ChangedAlike
  <2>4. Go(c, q, u)
    BY <1>8, <2>0, <2>1 DEF Put
  <2> QED BY <1>1, <1>2, <1>4, <2>3, <2>4, AlikeForCall, SilentStep
<1>9. CASE Go(c, q, [rows EXCEPT ![i].latest = req[c].count + 1, ![i].opened = @ + 1])
  <2>1. PICK v, w : v = [rows EXCEPT ![i].latest = req[c].count + 1] /\ w = [v EXCEPT ![i].opened = @ + 1]
    OBVIOUS
  <2>2. PICK r : r = [rows[i] EXCEPT !.latest = req[c].count + 1]
    OBVIOUS
  <2>3. i \in DOMAIN rows => AlikeRows(r, rows[i]) /\ r.whole = rows[i].whole
    BY <1>2, <2>2 DEF TableInv, TableOK, AlikeRows, IsRow
  <2>4. v = Put(rows, i, r)
    BY <2>1, <2>2 DEF Put
  <2>5. TableInv(v) /\ Alike(rows, v)
    BY <1>2, <2>3, <2>4, ChangedAlike
  <2>6. PICK s : s = [v[i] EXCEPT !.opened = v[i].opened + 1]
    OBVIOUS
  <2>7. i \in DOMAIN v => AlikeRows(s, v[i]) /\ s.whole = v[i].whole
    BY <2>5, <2>6 DEF TableInv, TableOK, AlikeRows, IsRow
  <2>8. w = Put(v, i, s)
    BY <2>1, <2>6 DEF Put
  <2>9. TableInv(w) /\ Alike(v, w)
    BY <2>5, <2>7, <2>8, ChangedAlike
  <2>10. Alike(rows, w)
    BY <2>5, <2>9 DEF Alike, AlikeRows
  <2>11. Go(c, q, w)
    BY <1>9, <2>1
  <2> QED BY <1>1, <1>2, <1>4, <2>9, <2>10, <2>11, AlikeForCall, SilentStep
<1> QED BY <1>6, <1>7, <1>8, <1>9

-----------------------------------------------------------------------------
(* The lists *)

\* No repository keeps lists, so none can be wrong.
LEMMA NoLists ==
  ASSUME \A op \in DOMAIN R.creates : ListersIn(R, R.creates[op].kind) = {}
  PROVE  \A k : Listers(k) = {}
BY DEF Listers, ListersIn

LEMMA SetRefsKeeps ==
  ASSUME Serial, repo \in DOMAIN Repositories, UNCHANGED frozen, NEW c \in Slots, SetRefs(c)
  PROVE  Serial'
<1>1. req[c].todo # <<>> /\ Silent(Step(c).do) /\ Step(c).do = "setRefs"
  BY DEF SetRefs, At, Step, Silent, Inserting, Writing
<1>2. req[c] # Idle /\ SameCall(req[c], req[c]) /\ TableInv(rows) /\ IsSeq(req[c].todo)
  BY <1>1, SameTables
<1>3. Step(c) \in ToSet(req[c].todo) /\ CallOK(req[c], rows)
  BY <1>1, <1>2, TailOf DEF Step, Serial
<1>4. \A k : Listers(k) = {}
  <2>1. req[c].op # "move"
    BY <1>1, <1>3 DEF CallOK, MoveOK, Writing
  <2>2. Unlisted(R, req[c].todo)
    BY <1>1, <1>3, <2>1 DEF CallOK, CreateOK, Listing
  <2> QED BY <1>1, <1>3, <2>2, NoLists DEF Unlisted
<1>5. PICK i, e : Go(c, req[c], [rows EXCEPT ![i].refs = e])
  BY DEF SetRefs
<1>6. PICK r, u : r = [rows[i] EXCEPT !.refs = e] /\ u = Put(rows, i, r)
  OBVIOUS
<1>7. Go(c, req[c], u) /\ IsSeq(rows) /\ TableOK(rows)
  BY <1>2, <1>5, <1>6 DEF TableInv, TableOK, Put
<1>8. CASE i \in DOMAIN rows
  <2>1. IsSeq(u) /\ DOMAIN u = DOMAIN rows /\ u[i] = r /\ \A j \in DOMAIN rows \ {i} : u[j] = rows[j]
    BY <1>6, <1>7, <1>8, RowReplaced
  <2>2. /\ IsRow(r) /\ r.kind = rows[i].kind /\ r.of = rows[i].of /\ r.hist = rows[i].hist
        /\ r.reviewer = rows[i].reviewer /\ r.whole = rows[i].whole
    BY <1>6, <1>7, <1>8 DEF TableOK, IsRow
  <2>3. \A j \in DOMAIN u : /\ IsRow(u[j]) /\ u[j].kind = rows[j].kind /\ u[j].of = rows[j].of /\ u[j].hist = rows[j].hist
                            /\ u[j].reviewer = rows[j].reviewer /\ u[j].whole = rows[j].whole
    BY <1>7, <2>1, <2>2 DEF TableOK
  <2>4. TableInv(u)
    <3>1. TableOK(u)
      BY <1>7, <2>1, <2>3 DEF TableOK
    <3>2. Reviewed(u)
      BY <1>2, <2>1, <2>3 DEF TableInv, Reviewed
    <3>3. InLists(u)
      BY <1>4 DEF InLists, InList
    <3> QED BY <3>1, <3>2, <3>3 DEF TableInv
  <2>5. SameForCall(rows, u, req[c].kind)
    BY <1>4, <2>1, <2>3 DEF SameForCall
  <2> QED BY <1>1, <1>2, <1>7, <2>4, <2>5, SilentStep
<1>9. CASE i \notin DOMAIN rows
  <2>1. u = rows
    BY <1>6, <1>7, <1>9 DEF IsSeq, Put
  <2> QED BY <1>1, <1>2, <1>7, <2>1, SameTables, SilentStep
<1> QED BY <1>8, <1>9

\* A step on a list is a step of a creating call that keeps lists.
LEMMA ListStep ==
  ASSUME Serial, NEW c \in Slots, req[c].todo # <<>>, Step(c).do \in {"readRefs", "writeRefs"}
  PROVE  /\ req[c].op # "move" /\ Listers(req[c].kind) # {} /\ Listing(req[c], rows) /\ CallOK(req[c], rows)
         /\ Target(c) = ParentOf(req[c].names, Step(c).of, Step(c).arg, rows)
<1>1. CallOK(req[c], rows) /\ Step(c) \in ToSet(req[c].todo)
  BY SameTables, TailOf DEF Serial, Step
<1>2. req[c].op # "move"
  BY <1>1 DEF CallOK, MoveOK, Writing
<1>3. CreateOK(req[c], rows) /\ ~Unlisted(R, req[c].todo)
  BY <1>1, <1>2 DEF CallOK, Unlisted
<1>4. Target(c) = ParentOf(req[c].names, Step(c).of, Step(c).arg, rows)
  BY DEF Target, ParentOf
<1> QED BY <1>1, <1>2, <1>3, <1>4 DEF CreateOK

LEMMA ReadRefsKeeps ==
  ASSUME Serial, repo \in DOMAIN Repositories, UNCHANGED frozen, NEW c \in Slots, ReadRefs(c)
  PROVE  Serial'
<1>1. req[c].todo # <<>> /\ Step(c).do = "readRefs"
  BY DEF ReadRefs, At, Step
<1>2. req[c] # Idle /\ IsCall(req[c]) /\ IsSeq(req[c].todo) /\ TableInv(rows) /\ Step(c) = req[c].todo[1]
  BY <1>1, SameTables
<1>3. /\ req[c].op # "move" /\ Listing(req[c], rows) /\ CallOK(req[c], rows)
      /\ Target(c) = ParentOf(req[c].names, Step(c).of, Step(c).arg, rows)
  BY <1>1, ListStep
<1>4. PICK e : e = ListRead(req[c], Step(c), rows)
  OBVIOUS
<1>5. PICK r : r = [req[c] EXCEPT !.refs = e]
  OBVIOUS
<1>6. Go(c, r, rows)
  BY <1>3, <1>4, <1>5 DEF ReadRefs, ListRead
<1>7. PICK q : q = After(r)
  OBVIOUS
<1>8. SameCall(q, req[c]) /\ q.todo = Tail(req[c].todo) /\ q.refs = e /\ IsCall(r)
  BY <1>2, <1>5, <1>7 DEF After, SameCall, IsCall
<1>9. ASSUME 1 \in DOMAIN q.todo PROVE q.refs = ListRead(q, q.todo[1], rows)
  <2>1. /\ DOMAIN q.todo = 1 .. Len(req[c].todo) - 1 /\ Len(req[c].todo) \in Nat
        /\ \A n \in 1 .. Len(req[c].todo) - 1 : q.todo[n] = req[c].todo[n + 1]
        /\ 1 \in DOMAIN req[c].todo
    BY <1>1, <1>2, <1>8, TailOf
  <2>2. q.todo[1] = req[c].todo[1 + 1]
    BY <1>9, <2>1
  <2>3. q.todo[1].of = Step(c).of /\ q.todo[1].arg = Step(c).arg
    BY <1>1, <1>2, <1>3, <2>1, <2>2 DEF Listing, Paired
  <2>4. ParentOf(q.names, q.todo[1].of, q.todo[1].arg, rows) = ParentOf(req[c].names, Step(c).of, Step(c).arg, rows)
    BY <1>8, <2>3 DEF SameCall
  <2> QED BY <1>4, <1>8, <2>4 DEF ListRead, SameCall
<1>10. Grown(rows, rows)
  BY DEF Grown
<1>11. Listing(q, rows)
  BY <1>1, <1>2, <1>3, <1>8, <1>9, <1>10, ListingGoesOn DEF TableInv, Inserting
<1>12. CallOK(After(r), rows)
  BY <1>1, <1>2, <1>3, <1>7, <1>8, <1>11, CreateGoesOn DEF Inserting
<1> QED BY <1>2, <1>6, <1>8, <1>12, GoKeeps

LEMMA WriteRefsKeeps ==
  ASSUME Serial, repo \in DOMAIN Repositories, UNCHANGED frozen, NEW c \in Slots, WriteRefs(c)
  PROVE  Serial'
<1>1. req[c].todo # <<>> /\ Step(c).do = "writeRefs"
  BY DEF WriteRefs, At, Step
<1>2. req[c] # Idle /\ IsCall(req[c]) /\ IsSeq(req[c].todo) /\ TableInv(rows) /\ TableOK(rows) /\ Step(c) = req[c].todo[1]
  BY <1>1, SameTables DEF TableInv
<1>3. /\ req[c].op # "move" /\ Listing(req[c], rows) /\ CallOK(req[c], rows)
      /\ Target(c) = ParentOf(req[c].names, Step(c).of, Step(c).arg, rows)
  BY <1>1, ListStep
<1>4. req[c].refs = ListRead(req[c], Step(c), rows)
  BY <1>1, <1>2, <1>3, TailOf DEF Listing
<1>5. PICK i, o : i = Target(c) /\ o = Own(c)
  OBVIOUS
<1>6. PICK r, q : r = [req[c] EXCEPT !.refs = {}] /\ q = After(r)
  OBVIOUS
<1>7. SameCall(q, req[c]) /\ q.todo = Tail(req[c].todo) /\ IsCall(r)
  BY <1>2, <1>6 DEF After, SameCall, IsCall
<1>8. PICK e : e = {x \in rows[i].refs : rows[x].kind # req[c].kind} \cup req[c].refs \cup {o}
  OBVIOUS
<1>9. PICK w : w = [rows[i] EXCEPT !.refs = e]
  OBVIOUS
<1>10. PICK u : u = IF i = Missing THEN rows ELSE Put(rows, i, w)
  OBVIOUS
<1>11. Go(c, r, u)
  BY <1>5, <1>6, <1>8, <1>9, <1>10 DEF WriteRefs, Put
<1>12. ASSUME i \in DOMAIN rows PROVE u = Put(rows, i, w) /\ e = rows[i].refs \cup {o}
  <2>1. i # Missing
    BY <1>2, <1>12, SeqOfAny, MissingAssumption DEF TableOK, IsSeq
  <2>2. req[c].refs = {x \in rows[i].refs : rows[x].kind = req[c].kind}
    BY <1>3, <1>4, <1>5, <2>1 DEF ListRead
  <2> QED BY <1>8, <1>10, <2>1, <2>2
<1>13. ASSUME i \notin DOMAIN rows PROVE u = rows
  BY <1>2, <1>10, <1>13 DEF TableOK, IsSeq, Put
<1>14. /\ DOMAIN u = DOMAIN rows /\ IsSeq(u)
       /\ \A j \in DOMAIN rows :
            /\ IsRow(u[j]) /\ u[j].kind = rows[j].kind /\ u[j].of = rows[j].of /\ u[j].hist = rows[j].hist
            /\ u[j].reviewer = rows[j].reviewer /\ u[j].whole = rows[j].whole
            /\ u[j].refs = IF j = i THEN rows[j].refs \cup {o} ELSE rows[j].refs
  <2>1. CASE i \in DOMAIN rows
    <3>1. u = Put(rows, i, w) /\ e = rows[i].refs \cup {o}
      BY <1>12, <2>1
    <3>2. IsSeq(u) /\ DOMAIN u = DOMAIN rows /\ u[i] = w /\ \A j \in DOMAIN rows \ {i} : u[j] = rows[j]
      BY <1>2, <2>1, <3>1, RowReplaced DEF TableOK
    <3>3. /\ IsRow(w) /\ w.kind = rows[i].kind /\ w.of = rows[i].of /\ w.hist = rows[i].hist
          /\ w.reviewer = rows[i].reviewer /\ w.whole = rows[i].whole /\ w.refs = e
      BY <1>2, <1>9, <2>1 DEF TableOK, IsRow
    <3> QED BY <1>2, <3>1, <3>2, <3>3 DEF TableOK
  <2>2. CASE i \notin DOMAIN rows
    <3>1. u = rows
      BY <1>13, <2>2
    <3> QED BY <1>2, <2>2, <3>1 DEF TableOK
  <2> QED BY <2>1, <2>2
<1>15. Grown(rows, u)
  BY <1>14 DEF Grown
<1>16. TableInv(u)
  <2>1. TableOK(u)
    BY <1>2, <1>14 DEF TableOK
  <2>2. Reviewed(u)
    BY <1>2, <1>14 DEF TableInv, Reviewed
  <2>3. InLists(u)
    BY <1>2, <1>14 DEF TableInv, TableOK, InLists, InList
  <2> QED BY <2>1, <2>2, <2>3 DEF TableInv
<1>17. ASSUME Step(c).arg = None, req[c].names[Step(c).of] \in DOMAIN rows
       PROVE  req[c].names[req[c].kind] \in u[req[c].names[Step(c).of]].refs
  <2>1. i = req[c].names[Step(c).of]
    BY <1>3, <1>5, <1>17 DEF ParentOf
  <2>2. u[i].refs = rows[i].refs \cup {o} /\ o = req[c].names[req[c].kind]
    BY <1>5, <1>14, <1>17, <2>1 DEF Own
  <2> QED BY <2>1, <2>2
<1>18. Listing(q, u)
  BY <1>1, <1>2, <1>3, <1>7, <1>15, <1>17, ListingGoesOn DEF Inserting
<1>19. CallOK(After(r), u)
  <2>1. req[c].todo[1].do \notin Inserting /\ DOMAIN u = DOMAIN rows /\ \A j \in DOMAIN rows : u[j].kind = rows[j].kind
    BY <1>1, <1>2, <1>14 DEF Inserting
  <2>2. CallOK(q, u)
    BY <1>1, <1>3, <1>7, <1>18, <2>1, CreateGoesOn
  <2> QED BY <1>6, <2>2
<1> QED BY <1>2, <1>7, <1>11, <1>16, <1>19, GoKeeps

-----------------------------------------------------------------------------
(* A call comes to know a row: a reused or an ensured parent, or a new row *)

LEMMA NamesOfCall ==
  ASSUME NEW names, NEW k, NEW i
  PROVE  /\ DOMAIN Named(names, k, i) = DOMAIN names \cup {k} /\ Named(names, k, i)[k] = i
         /\ \A l \in DOMAIN names : l # k => Named(names, k, i)[l] = names[l]
BY DEF Named

LEMMA NamedRow ==
  ASSUME NEW names, NEW t, NamesOK(names, t), NEW u, DOMAIN t \subseteq DOMAIN u, DOMAIN u \subseteq Nat,
         \A j \in DOMAIN t : u[j].kind = t[j].kind, NEW k, NEW i, i \in DOMAIN u /\ u[i].kind = k
  PROVE  NamesOK(Named(names, k, i), u)
BY MissingAssumption DEF NamesOK, Named

\* Of the rows of a kind one is the newest.
LEMMA MaxOfIds ==
  ASSUME NEW n \in Nat, NEW I, I \subseteq 1 .. n, I # {}
  PROVE  Max(I) \in I
<1> DEFINE S == 0 .. n
           T == {j .. n : j \in I}
<1>1. IsWellFoundedOn(StrictSubsetOrdering(S), SUBSET S)
  <2>1. IsFiniteSet(S)
    BY FS_Interval
  <2> QED BY <2>1, FS_StrictSubsetOrderingWellFounded, FS_FiniteSubsetsOfFinite
<1>2. T \subseteq SUBSET S /\ T # {}
  <2>1. \A j \in I : j .. n \subseteq S
    OBVIOUS
  <2>2. T \subseteq SUBSET S
    BY <2>1
  <2>3. T # {}
    <3>1. PICK j \in I : TRUE
      OBVIOUS
    <3>2. j .. n \in T
      BY <3>1
    <3> QED BY <3>2
  <2> QED BY <2>2, <2>3
<1>3. PICK x \in T : \A y \in T : ~(<<y, x>> \in StrictSubsetOrdering(S))
  <2> HIDE DEF S, T
  <2> QED BY <1>1, <1>2, WFMin
<1>4. PICK m \in I : x = m .. n
  BY <1>3
<1>5. ASSUME NEW j \in I, j > m PROVE FALSE
  <2>1. j .. n \in T /\ j .. n \in SUBSET S /\ x \in SUBSET S
    BY <1>2, <1>3
  <2>2. j .. n \subseteq x /\ m \in x /\ m \notin j .. n
    BY <1>4, <1>5
  <2>3. <<j .. n, x>> \in StrictSubsetOrdering(S)
    BY <2>1, <2>2 DEF StrictSubsetOrdering
  <2> QED BY <1>3, <2>1, <2>3
<1>6. \A j \in I : m >= j
  BY <1>4, <1>5
<1> QED BY <1>6 DEF Max

LEMMA RowsAreNumbered ==
  ASSUME NEW t, TableOK(t)
  PROVE  Len(t) \in Nat /\ DOMAIN t = 1 .. Len(t) /\ DOMAIN t \subseteq Nat /\ Missing \notin DOMAIN t
BY SeqOfAny, MissingAssumption DEF TableOK, IsSeq

\* A creating call of a repository without lists.
LEMMA UnlistedStep ==
  ASSUME Serial, NEW c \in Slots, req[c].todo # <<>>,
         Step(c).do \in {"reuse"} \cup Ensuring \/ (Step(c).do \in Inserting /\ Listers(req[c].kind) = {})
  PROVE  /\ req[c].op # "move" /\ CallOK(req[c], rows) /\ CreateOK(req[c], rows) /\ Listers(req[c].kind) = {}
         /\ Unlisted(R, req[c].todo) /\ StatusesAreFresh(R, R.creates[req[c].op], req[c].todo)
         /\ Step(c) \in ToSet(req[c].todo)
<1>1. CallOK(req[c], rows) /\ Step(c) \in ToSet(req[c].todo)
  BY SameTables, TailOf DEF Serial, Step
<1>2. req[c].op # "move"
  BY <1>1 DEF CallOK, MoveOK, Writing, Ensuring, Inserting
<1>3. CreateOK(req[c], rows) /\ ~(Listers(req[c].kind) # {} /\ Listing(req[c], rows))
  BY <1>1, <1>2 DEF CallOK, Listing, Ensuring, Inserting
<1> QED BY <1>1, <1>2, <1>3 DEF CreateOK

\* The call goes on with a row more, or with other steps, or both.
LEMMA NamingStep ==
  ASSUME Serial, repo \in DOMAIN Repositories, UNCHANGED frozen, NEW c \in Slots, req[c].todo # <<>>,
         NEW r, IsCall(r), r.op = req[c].op, r.kind = req[c].kind, r.to = req[c].to,
         NEW table, TableInv(table), NamesOK(r.names, table),
         req[c].op # "move", CreateOK(req[c], rows),
         IsSeq(r.todo), r.todo # <<>>,
         StatusesAreFresh(R, R.creates[r.op], Tail(r.todo)),
         r.kind \in DOMAIN r.names \/ WrittenWhenThere(Tail(r.todo), r.kind),
         IF Listers(r.kind) = {} THEN Unlisted(R, Tail(r.todo)) ELSE Listing(After(r), table),
         Go(c, r, table)
  PROVE  Serial'
<1>1. PICK q : q = After(r)
  OBVIOUS
<1>2. /\ IsCall(q) /\ q.op = r.op /\ q.kind = r.kind /\ q.to = r.to /\ q.names = r.names /\ q.todo = Tail(r.todo)
  BY <1>1 DEF After, IsCall
<1>3. CreateOK(q, table)
  BY <1>1, <1>2 DEF CreateOK
<1>4. IsSeq(q.todo)
  BY <1>2, TailOf
<1>5. CallOK(After(r), table)
  BY <1>1, <1>2, <1>3, <1>4 DEF CallOK
<1> QED BY <1>5, SameTables, GoKeeps

LEMMA ReuseKeeps ==
  ASSUME Serial, repo \in DOMAIN Repositories, UNCHANGED frozen, NEW c \in Slots, Reuse(c)
  PROVE  Serial'
<1>1. req[c].todo # <<>> /\ Step(c).do = "reuse"
  BY DEF Reuse, At, Step
<1>2. Silent(Step(c).do)
  BY <1>1 DEF Silent, Inserting, Writing
<1>3. /\ SameCall(req[c], req[c]) /\ TableInv(rows) /\ TableOK(rows) /\ SameForCall(rows, rows, req[c].kind) /\ IsCall(req[c])
      /\ IsSeq(req[c].todo)
  BY <1>1, SameTables DEF TableInv
<1>4. CASE Go(c, req[c], rows)
  BY <1>1, <1>2, <1>3, <1>4, SilentStep
<1>5. PICK k : k = Step(c).of
  OBVIOUS
<1>6. CASE \E i \in IdsOf(k) :
             Go(c, [req[c] EXCEPT !.names = Named(@, k, i), !.todo = <<Head(@)>> \o SubSeq(@, 3, Len(@))], rows)
  <2>1. PICK i \in IdsOf(k) :
             Go(c, [req[c] EXCEPT !.names = Named(@, k, i), !.todo = <<Head(@)>> \o SubSeq(@, 3, Len(@))], rows)
    BY <1>6
  <2>2. PICK n, h, t : /\ n = Named(req[c].names, k, i) /\ h = Head(req[c].todo)
                       /\ t = <<h>> \o SubSeq(req[c].todo, 3, Len(req[c].todo))
    OBVIOUS
  <2>3. PICK r : r = [req[c] EXCEPT !.names = n, !.todo = t]
    OBVIOUS
  <2>4. Go(c, r, rows)
    BY <2>1, <2>2, <2>3
  <2>5. /\ IsCall(r) /\ r.op = req[c].op /\ r.kind = req[c].kind /\ r.to = req[c].to /\ r.names = n /\ r.todo = t
    BY <1>3, <2>3 DEF IsCall
  <2>6. /\ req[c].op # "move" /\ CallOK(req[c], rows) /\ CreateOK(req[c], rows) /\ Listers(req[c].kind) = {}
        /\ Unlisted(R, req[c].todo) /\ StatusesAreFresh(R, R.creates[req[c].op], req[c].todo)
        /\ Step(c) \in ToSet(req[c].todo)
    BY <1>1, UnlistedStep
  <2>7. t # <<>> /\ IsSeq(t) /\ ToSet(Tail(t)) \subseteq ToSet(req[c].todo)
    <3>1. h \in ToSet(req[c].todo)
      BY <2>2, <2>6 DEF Step
    <3> QED BY <1>3, <2>2, <3>1, SkippedSteps
  <2>8. NamesOK(n, rows) /\ k \in DOMAIN n
    <3>1. NamesOK(req[c].names, rows) /\ i \in DOMAIN rows /\ rows[i].kind = k
      BY <2>6 DEF CallOK, IdsOf, Ids
    <3>2. DOMAIN rows \subseteq Nat
      BY <1>3, RowsAreNumbered
    <3>3. PICK names, u : names = req[c].names /\ u = rows
      OBVIOUS
    <3>4. /\ NamesOK(names, rows) /\ DOMAIN rows \subseteq DOMAIN u /\ DOMAIN u \subseteq Nat
          /\ \A j \in DOMAIN rows : u[j].kind = rows[j].kind
      BY <3>1, <3>2, <3>3
    <3>5. i \in DOMAIN u /\ u[i].kind = k
      BY <3>1, <3>3
    <3>6. NamesOK(Named(names, k, i), u)
      BY <3>4, <3>5, NamedRow
    <3>7. DOMAIN Named(names, k, i) = DOMAIN names \cup {k}
      BY NamesOfCall
    <3> QED BY <2>2, <3>3, <3>6, <3>7
  <2>9. StatusesAreFresh(R, R.creates[r.op], Tail(r.todo)) /\ Unlisted(R, Tail(r.todo))
    BY <2>5, <2>6, <2>7, FewerSteps
  <2>10. k = r.kind
    BY <1>1, <1>5, <2>5, <2>6 DEF StatusesAreFresh, CreateOK
  <2> QED BY <1>1, <1>3, <2>4, <2>5, <2>6, <2>7, <2>8, <2>9, <2>10, NamingStep
<1> QED
  <2>1. PICK known : known = {i \in IdsOf(k) : req[c].key # None /\ rows[i].key = req[c].key}
    OBVIOUS
  <2>2. CASE known # {}
    <3>1. (CHOOSE i \in known : TRUE) \in known
      BY <2>2
    <3>2. (CHOOSE i \in known : TRUE) \in IdsOf(k)
      BY <2>1, <3>1
    <3>3. Go(c, [req[c] EXCEPT !.names = Named(@, k, CHOOSE i \in known : TRUE), !.todo = <<Head(@)>> \o SubSeq(@, 3, Len(@))], rows)
      BY <1>5, <2>1, <2>2 DEF Reuse
    <3> QED BY <1>6, <3>2, <3>3
  <2>3. CASE known = {}
    BY <1>4, <1>5, <2>1, <2>3 DEF Reuse
  <2> QED BY <2>2, <2>3

LEMMA MoreSteps ==
  ASSUME NEW rp, NEW d, NEW t, StatusesAreFresh(rp, d, t), Unlisted(rp, t), \A s \in ToSet(t) : s.do \notin Writing,
         NEW k, k # d.kind, Fresh(rp, k, "active"), ListersIn(rp, k) = {},
         NEW m, \A s \in ToSet(m) : s.do = "audit" \/ (s.do = "insert" /\ s.of = k /\ s.arg = None),
         NEW u, ToSet(u) \subseteq ToSet(m) \cup ToSet(t)
  PROVE  StatusesAreFresh(rp, d, u) /\ Unlisted(rp, u) /\ \A s \in ToSet(u) : s.do \notin Writing
<1>1. \A s \in ToSet(u) : s.do \notin Writing
  BY DEF Writing
<1>2. ASSUME NEW s \in ToSet(u)
      PROVE  /\ s.do \in Inserting => /\ Fresh(rp, s.of, IF s.of = d.kind THEN d.status ELSE "active")
                                      /\ s.arg # None => Fresh(rp, s.arg, "open")
             /\ s.do \in Ensuring => s.of # d.kind /\ Fresh(rp, s.of, "active")
             /\ s.do = "reuse" => s.of = d.kind
  <2>1. CASE s \in ToSet(m)
    BY <2>1 DEF Inserting, Ensuring
  <2>2. CASE s \in ToSet(t)
    BY <2>2 DEF StatusesAreFresh
  <2> QED BY <2>1, <2>2
<1>3. Unlisted(rp, u)
  <2> SUFFICES ASSUME NEW s \in ToSet(u)
               PROVE  /\ s.do \notin {"readRefs", "writeRefs"}
                      /\ s.do = "setRefs" => \A op \in DOMAIN rp.creates : ListersIn(rp, rp.creates[op].kind) = {}
                      /\ s.do \in Inserting \cup Ensuring => ListersIn(rp, s.of) = {}
                      /\ s.do \in Inserting /\ s.arg # None => ListersIn(rp, s.arg) = {}
    BY DEF Unlisted
  <2>1. CASE s \in ToSet(m)
    BY <2>1 DEF Inserting, Ensuring
  <2>2. CASE s \in ToSet(t)
    BY <2>2 DEF Unlisted
  <2> QED BY <2>1, <2>2
<1> QED BY <1>1, <1>2, <1>3 DEF StatusesAreFresh

LEMMA NoWrites ==
  ASSUME NEW t, \A s \in ToSet(t) : s.do \notin Writing, NEW k
  PROVE  WrittenWhenThere(t, k)
BY DEF WrittenWhenThere, ToSet

\* The steps that make a parent on the spot.
LEMMA MadeSteps ==
  ASSUME NEW k, NEW b \in BOOLEAN, NEW m, m = <<Insert("insert", k, {})>> \o (IF b THEN <<Do("audit", k)>> ELSE <<>>)
  PROVE  IsSeq(m) /\ \A s \in ToSet(m) : s.do = "audit" \/ (s.do = "insert" /\ s.of = k /\ s.arg = None)
<1>1. PICK g, h, a, z : g = Insert("insert", k, {}) /\ h = Do("audit", k) /\ a = <<g>> /\ z = IF b THEN <<h>> ELSE <<>>
  OBVIOUS
<1>2. g.do = "insert" /\ g.of = k /\ g.arg = None /\ h.do = "audit"
  BY <1>1 DEF Insert, Do, If
<1>3. IsSeq(a) /\ ToSet(a) = {g}
  BY <1>1 DEF IsSeq, ToSet
<1>4. IsSeq(z) /\ ToSet(z) \subseteq {h}
  <2>1. CASE b
    <3>1. z = <<h>>
      BY <1>1, <2>1
    <3> QED BY <3>1 DEF IsSeq, ToSet
  <2>2. CASE ~b
    <3>1. z = <<>>
      BY <1>1, <2>2
    <3> QED BY <3>1 DEF IsSeq, ToSet
  <2> QED BY <2>1, <2>2
<1>5. IsSeq(m) /\ ToSet(m) \subseteq {g, h}
  <2>1. m = a \o z
    BY <1>1
  <2> QED BY <1>3, <1>4, <2>1, Concatenated
<1> QED BY <1>2, <1>5

LEMMA EnsureKeeps ==
  ASSUME Serial, repo \in DOMAIN Repositories, UNCHANGED frozen, NEW c \in Slots, Ensure(c)
  PROVE  Serial'
<1>1. req[c].todo # <<>> /\ Step(c).do \in Ensuring
  BY DEF Ensure
<1>2. Silent(Step(c).do)
  BY <1>1 DEF Silent, Inserting, Writing, Ensuring
<1>3. /\ req[c] # Idle /\ SameCall(req[c], req[c]) /\ TableInv(rows) /\ TableOK(rows) /\ IsSeq(req[c].todo)
      /\ SameForCall(rows, rows, req[c].kind) /\ IsCall(req[c])
  BY <1>1, SameTables DEF TableInv
<1>4. /\ req[c].op # "move" /\ CallOK(req[c], rows) /\ CreateOK(req[c], rows) /\ Listers(req[c].kind) = {}
      /\ Unlisted(R, req[c].todo) /\ StatusesAreFresh(R, R.creates[req[c].op], req[c].todo)
      /\ Step(c) \in ToSet(req[c].todo)
  BY <1>1, UnlistedStep
<1>5. PICK k, b, d : /\ k = Step(c).of /\ b = (Step(c).do = "ensureAudited") /\ d = R.creates[req[c].op]
  OBVIOUS
<1>6. /\ k # d.kind /\ Fresh(R, k, "active") /\ ListersIn(R, k) = {} /\ b \in BOOLEAN
      /\ \A s \in ToSet(req[c].todo) : s.do \notin Writing
  BY <1>1, <1>4, <1>5 DEF StatusesAreFresh, Unlisted
<1>7. ToSet(Tail(req[c].todo)) \subseteq ToSet(req[c].todo) /\ IsSeq(Tail(req[c].todo))
  BY <1>1, <1>3, TailOf
<1>8. CASE Go(c, req[c], rows)
  BY <1>1, <1>2, <1>3, <1>8, SilentStep
<1>9. CASE End(c)
  BY <1>3, <1>9, EndKeeps
<1>10. CASE IdsOf(k) # {} /\ Go(c, [req[c] EXCEPT !.names = Named(@, k, Max(IdsOf(k)))], rows)
  <2>1. PICK i, names : i = Max(IdsOf(k)) /\ names = req[c].names
    OBVIOUS
  <2>2. i \in DOMAIN rows /\ rows[i].kind = k
    <3>1. Len(rows) \in Nat /\ IdsOf(k) \subseteq 1 .. Len(rows)
      BY <1>3, RowsAreNumbered DEF IdsOf, Ids
    <3>2. i \in IdsOf(k)
      BY <1>10, <2>1, <3>1, MaxOfIds
    <3> QED BY <3>2 DEF IdsOf, Ids
  <2>3. PICK n, u : n = Named(names, k, i) /\ u = rows
    OBVIOUS
  <2>4. NamesOK(n, rows)
    <3>1. NamesOK(names, rows) /\ DOMAIN rows \subseteq DOMAIN u /\ DOMAIN u \subseteq Nat
          /\ \A j \in DOMAIN rows : u[j].kind = rows[j].kind
      BY <1>3, <1>4, <2>1, <2>3, RowsAreNumbered DEF CallOK
    <3>2. i \in DOMAIN u /\ u[i].kind = k
      BY <2>2, <2>3
    <3>3. NamesOK(Named(names, k, i), u)
      BY <3>1, <3>2, NamedRow
    <3> QED BY <2>3, <3>3
  <2>5. PICK r : r = [req[c] EXCEPT !.names = n]
    OBVIOUS
  <2>6. Go(c, r, rows)
    BY <1>10, <2>1, <2>3, <2>5
  <2>7. /\ IsCall(r) /\ r.op = req[c].op /\ r.kind = req[c].kind /\ r.to = req[c].to /\ r.names = n /\ r.todo = req[c].todo
    BY <1>3, <2>5 DEF IsCall
  <2>8. StatusesAreFresh(R, R.creates[r.op], Tail(r.todo)) /\ Unlisted(R, Tail(r.todo))
    BY <1>4, <1>7, <2>7, FewerSteps
  <2>9. WrittenWhenThere(Tail(r.todo), r.kind)
    BY <1>6, <1>7, <2>7, NoWrites
  <2> QED BY <1>1, <1>3, <1>4, <2>4, <2>6, <2>7, <2>8, <2>9, NamingStep
<1>11. CASE Go(c, [req[c] EXCEPT !.todo = <<Head(@)>> \o (<<Insert("insert", k, {})>> \o
                     (IF Step(c).do = "ensureAudited" THEN <<Do("audit", k)>> ELSE <<>>)) \o Tail(@)], rows)
  <2>1. PICK m : m = <<Insert("insert", k, {})>> \o (IF b THEN <<Do("audit", k)>> ELSE <<>>)
    OBVIOUS
  <2>2. IsSeq(m) /\ \A s \in ToSet(m) : s.do = "audit" \/ (s.do = "insert" /\ s.of = k /\ s.arg = None)
    BY <1>6, <2>1, MadeSteps
  <2>3. PICK h, rest : h = Head(req[c].todo) /\ rest = Tail(req[c].todo)
    OBVIOUS
  <2>4. PICK t : t = <<h>> \o m \o rest
    OBVIOUS
  <2>5. t # <<>> /\ IsSeq(t) /\ ToSet(Tail(t)) \subseteq ToSet(m) \cup ToSet(req[c].todo)
    <3>1. h \in ToSet(req[c].todo) /\ IsSeq(rest) /\ ToSet(rest) \subseteq ToSet(req[c].todo)
      BY <1>4, <1>7, <2>3 DEF Step
    <3> QED BY <1>3, <2>2, <2>4, <3>1, ReplacedStep
  <2>6. PICK r : r = [req[c] EXCEPT !.todo = t]
    OBVIOUS
  <2>7. Go(c, r, rows)
    BY <1>5, <1>11, <2>1, <2>3, <2>4, <2>6
  <2>8. /\ IsCall(r) /\ r.op = req[c].op /\ r.kind = req[c].kind /\ r.to = req[c].to /\ r.names = req[c].names /\ r.todo = t
    BY <1>3, <2>6 DEF IsCall
  <2>9. StatusesAreFresh(R, d, Tail(t)) /\ Unlisted(R, Tail(t)) /\ \A s \in ToSet(Tail(t)) : s.do \notin Writing
    BY <1>4, <1>5, <1>6, <2>2, <2>5, MoreSteps
  <2>10. WrittenWhenThere(Tail(t), r.kind)
    BY <2>9, NoWrites
  <2>11. NamesOK(r.names, rows)
    BY <1>4, <2>8 DEF CallOK
  <2> QED BY <1>1, <1>3, <1>4, <1>5, <2>5, <2>7, <2>8, <2>9, <2>10, <2>11, NamingStep
<1> QED BY <1>5, <1>8, <1>9, <1>10, <1>11 DEF Ensure

-----------------------------------------------------------------------------
(* The status of a record *)

LEMMA ReadStatusKeeps ==
  ASSUME Serial, repo \in DOMAIN Repositories, UNCHANGED frozen, NEW c \in Slots, ReadStatus(c)
  PROVE  Serial'
<1>1. req[c].todo # <<>> /\ Step(c).do = "readStatus"
  BY DEF ReadStatus, At, Step
<1>2. /\ req[c] # Idle /\ IsCall(req[c]) /\ IsSeq(req[c].todo) /\ TableInv(rows) /\ TableOK(rows)
      /\ Step(c) = req[c].todo[1] /\ CallOK(req[c], rows)
  BY <1>1, SameTables DEF TableInv, Serial
<1>3. CASE End(c)
  BY <1>2, <1>3, EndKeeps
<1>4. CASE Go(c, [req[c] EXCEPT !.reviewer = rows[Own(c)].reviewer], rows)
  <2>1. PICK e : e = rows[Own(c)].reviewer
    OBVIOUS
  <2>2. PICK r : r = [req[c] EXCEPT !.reviewer = e]
    OBVIOUS
  <2>3. PICK q : q = After(r)
    OBVIOUS
  <2>4. /\ IsCall(r) /\ IsCall(q) /\ q.op = req[c].op /\ q.kind = req[c].kind /\ q.names = req[c].names /\ q.to = req[c].to
        /\ q.todo = Tail(req[c].todo) /\ q.refs = req[c].refs /\ q.reviewer = e
    BY <1>2, <2>2, <2>3 DEF After, IsCall
  <2>5. /\ Len(req[c].todo) \in Nat /\ DOMAIN req[c].todo = 1 .. Len(req[c].todo) /\ IsSeq(q.todo)
        /\ DOMAIN q.todo = 1 .. Len(req[c].todo) - 1
        /\ \A n \in 1 .. Len(req[c].todo) - 1 : q.todo[n] = req[c].todo[n + 1]
        /\ ToSet(q.todo) \subseteq ToSet(req[c].todo) /\ Step(c) \in ToSet(req[c].todo)
    BY <1>1, <1>2, <2>4, TailOf DEF Step
  <2>6. CallOK(q, rows)
    <3>1. CASE req[c].op = "move"
      <4>1. MoveOK(req[c], rows)
        BY <1>2, <3>1 DEF CallOK
      <4>2. e = rows[req[c].names[req[c].kind]].reviewer /\ e \in BOOLEAN
        BY <1>2, <2>1, <4>1 DEF Own, MoveOK, TableOK
      <4>3. ASSUME R.moves[req[c].kind].others = "writeBack", NEW n \in DOMAIN q.todo, n > 1
            PROVE  q.todo[n].do \notin Writing
        <5>1. n + 1 \in DOMAIN req[c].todo /\ n + 1 > 2 /\ n + 1 > 1 /\ q.todo[n] = req[c].todo[n + 1]
          BY <2>5, <4>3
        <5> QED BY <4>1, <4>3, <5>1 DEF MoveOK
      <4>4. MoveOK(q, rows)
        BY <2>4, <2>5, <4>1, <4>2, <4>3 DEF MoveOK
      <4> QED BY <1>2, <2>4, <2>5, <3>1, <4>4 DEF CallOK
    <3>2. CASE req[c].op # "move"
      <4>1. CreateOK(req[c], rows) /\ Listers(req[c].kind) = {} /\ Unlisted(R, req[c].todo)
        BY <1>1, <1>2, <2>5, <3>2 DEF CallOK, CreateOK, Listing
      <4>2. StatusesAreFresh(R, R.creates[req[c].op], q.todo) /\ Unlisted(R, q.todo)
        BY <2>5, <4>1, FewerSteps DEF CreateOK
      <4>3. req[c].kind \in DOMAIN req[c].names \/ WrittenWhenThere(q.todo, req[c].kind)
        BY <1>1, <1>2, <2>4, <4>1, WrittenTail DEF CreateOK, Inserting
      <4>4. CreateOK(q, rows)
        BY <2>4, <4>1, <4>2, <4>3 DEF CreateOK
      <4> QED BY <1>2, <2>4, <2>5, <3>2, <4>4 DEF CallOK
    <3> QED BY <3>1, <3>2
  <2>7. Go(c, r, rows)
    BY <1>4, <2>1, <2>2
  <2> QED BY <1>2, <2>3, <2>4, <2>6, <2>7, GoKeeps
<1> QED BY <1>3, <1>4 DEF ReadStatus

\* A record that was approved and goes on keeps its reviewer.
LEMMA ReviewerAfterWrite ==
  ASSUME Serial, repo \in DOMAIN Repositories, NEW c \in Slots, req[c].todo # <<>>, Step(c).do \in Writing,
         KeepsReviewer(req[c].kind), Own(c) \in DOMAIN rows,
         LET k == req[c].kind IN
           req[c].to \in R.moves[k].signed
           \/ (ToSet(rows[Own(c)].hist) \cap R.moves[k].signed # {} /\ rows[Own(c)].reviewer = TRUE)
  PROVE  req[c].op = "move" => Reviewer(c)
<1> SUFFICES ASSUME req[c].op = "move" PROVE Reviewer(c)
  OBVIOUS
<1>1. PICK m, k : k = req[c].kind /\ m = R.moves[k]
  OBVIOUS
<1>2. /\ MoveOK(req[c], rows) /\ Step(c) = req[c].todo[1] /\ IsSeq(req[c].todo) /\ 1 \in DOMAIN req[c].todo
  BY SameTables, TailOf DEF Serial, CallOK
<1>3. k \in DOMAIN R.moves /\ m.others # "clear" /\ req[c].to \in UNION Range(m.table)
  BY <1>1, <1>2 DEF KeepsReviewer, MoveOK
<1>4. Moving(m)
  BY <1>1, <1>3, ProgramsAssumption DEF R
<1>5. CASE req[c].to \in m.signed
  BY <1>1, <1>3, <1>5 DEF Reviewer
<1>6. CASE req[c].to \notin m.signed
  <2>1. ToSet(rows[Own(c)].hist) \cap m.signed # {} /\ rows[Own(c)].reviewer = TRUE
    BY <1>1, <1>6
  <2>2. m.others \in {"keep", "writeBack"}
    BY <1>3, <1>4, <1>6, <2>1 DEF Moving
  <2>3. CASE m.others = "keep"
    BY <1>1, <1>3, <2>1, <2>3 DEF Reviewer
  <2>4. CASE m.others = "writeBack"
    <3>1. req[c].reviewer = rows[Own(c)].reviewer
      BY <1>1, <1>2, <2>4 DEF MoveOK, Writing, Own
    <3> QED BY <1>1, <1>3, <2>1, <2>4, <3>1, Zenon DEF Reviewer
  <2> QED BY <2>2, <2>3, <2>4
<1> QED BY <1>5, <1>6

\* What WriteStatus makes of the tables: row o takes the status to.
Written(t, o, to, b, audited) ==
  [t EXCEPT ![o].status = to, ![o].hist = Append(@, to), ![o].reviewer = b,
            ![o].trail = IF audited THEN Append(@, to) ELSE @]

LEMMA WrittenRow ==
  ASSUME NEW t, TableOK(t), NEW o \in DOMAIN t, NEW to, NEW b, NEW a \in BOOLEAN,
         NEW u, u = Written(t, o, to, b, a)
  PROVE  /\ IsSeq(u) /\ DOMAIN u = DOMAIN t /\ \A i \in DOMAIN t \ {o} : u[i] = t[i]
         /\ IsRow(u[o]) /\ u[o].kind = t[o].kind /\ u[o].of = t[o].of /\ u[o].refs = t[o].refs /\ u[o].whole = t[o].whole
         /\ u[o].hist = Append(t[o].hist, to) /\ u[o].reviewer = b
<1>1. PICK t1, t2, t3, t4 :
        /\ t1 = [t EXCEPT ![o].status = to] /\ t2 = [t1 EXCEPT ![o].hist = Append(@, to)]
        /\ t3 = [t2 EXCEPT ![o].reviewer = b] /\ t4 = [t3 EXCEPT ![o].trail = IF a THEN Append(@, to) ELSE @]
  OBVIOUS
<1>2. u = t4
  BY <1>1 DEF Written
<1>3. PICK h, l : h = Append(t1[o].hist, to) /\ l = IF a THEN Append(t3[o].trail, to) ELSE t3[o].trail
  OBVIOUS
<1>4. PICK r1, r2, r3, r4 :
        /\ r1 = [t[o] EXCEPT !.status = to] /\ r2 = [t1[o] EXCEPT !.hist = h]
        /\ r3 = [t2[o] EXCEPT !.reviewer = b] /\ r4 = [t3[o] EXCEPT !.trail = l]
  OBVIOUS
<1>5. t1 = Put(t, o, r1)
  BY <1>1, <1>4 DEF Put
<1>6. t2 = Put(t1, o, r2)
  BY <1>1, <1>3, <1>4 DEF Put
<1>7. t3 = Put(t2, o, r3)
  BY <1>1, <1>4 DEF Put
<1>8. t4 = Put(t3, o, r4)
  BY <1>1, <1>3, <1>4 DEF Put
<1>9. IsSeq(t) /\ IsRow(t[o])
  BY DEF TableOK
<1>10. IsSeq(t1) /\ DOMAIN t1 = DOMAIN t /\ t1[o] = r1 /\ \A i \in DOMAIN t \ {o} : t1[i] = t[i]
  BY <1>5, <1>9, RowReplaced
<1>11. IsSeq(t2) /\ DOMAIN t2 = DOMAIN t /\ t2[o] = r2 /\ \A i \in DOMAIN t \ {o} : t2[i] = t[i]
  BY <1>6, <1>10, RowReplaced
<1>12. IsSeq(t3) /\ DOMAIN t3 = DOMAIN t /\ t3[o] = r3 /\ \A i \in DOMAIN t \ {o} : t3[i] = t[i]
  BY <1>7, <1>11, RowReplaced
<1>13. IsSeq(t4) /\ DOMAIN t4 = DOMAIN t /\ t4[o] = r4 /\ \A i \in DOMAIN t \ {o} : t4[i] = t[i]
  BY <1>8, <1>12, RowReplaced
<1>14. /\ IsRow(r1) /\ r1.kind = t[o].kind /\ r1.of = t[o].of /\ r1.refs = t[o].refs /\ r1.whole = t[o].whole
       /\ r1.hist = t[o].hist
  BY <1>4, <1>9 DEF IsRow
<1>15. /\ IsRow(r2) /\ r2.kind = t[o].kind /\ r2.of = t[o].of /\ r2.refs = t[o].refs /\ r2.whole = t[o].whole
       /\ r2.hist = h
  BY <1>4, <1>10, <1>14 DEF IsRow
<1>16. /\ IsRow(r3) /\ r3.kind = t[o].kind /\ r3.of = t[o].of /\ r3.refs = t[o].refs /\ r3.whole = t[o].whole
       /\ r3.hist = h /\ r3.reviewer = b
  BY <1>4, <1>11, <1>15 DEF IsRow
<1>17. /\ IsRow(r4) /\ r4.kind = t[o].kind /\ r4.of = t[o].of /\ r4.refs = t[o].refs /\ r4.whole = t[o].whole
       /\ r4.hist = h /\ r4.reviewer = b
  BY <1>4, <1>12, <1>16 DEF IsRow
<1>18. h = Append(t[o].hist, to)
  BY <1>3, <1>10, <1>14
<1> QED BY <1>2, <1>13, <1>17, <1>18

LEMMA WriteStatusKeeps ==
  ASSUME Serial, repo \in DOMAIN Repositories, UNCHANGED frozen, NEW c \in Slots, WriteStatus(c)
  PROVE  Serial'
<1>1. req[c].todo # <<>> /\ Step(c).do \in Writing
  BY DEF WriteStatus
<1>2. /\ req[c] # Idle /\ IsCall(req[c]) /\ IsSeq(req[c].todo) /\ TableInv(rows) /\ TableOK(rows)
      /\ Step(c) = req[c].todo[1] /\ CallOK(req[c], rows)
  BY <1>1, SameTables DEF TableInv, Serial
<1>3. PICK o, to, b : /\ o = Own(c) /\ b = Reviewer(c)
                      /\ to = IF Step(c).arg = None THEN req[c].to ELSE Step(c).arg
  OBVIOUS
<1>4. PICK a \in BOOLEAN : a = At(c, "writeAudited")
  BY DEF At
<1>5. PICK u : u = Written(rows, o, to, b, a)
  OBVIOUS
<1>6. PICK r, q : r = [req[c] EXCEPT !.reviewer = FALSE] /\ q = After(r)
  OBVIOUS
<1>7. Go(c, r, u)
  BY <1>3, <1>4, <1>5, <1>6 DEF WriteStatus, Written
<1>8. /\ IsCall(r) /\ IsCall(q) /\ q.op = req[c].op /\ q.kind = req[c].kind /\ q.names = req[c].names /\ q.to = req[c].to
      /\ q.todo = Tail(req[c].todo) /\ q.refs = req[c].refs /\ q.reviewer = FALSE
  BY <1>2, <1>6 DEF After, IsCall
<1>9. /\ Len(req[c].todo) \in Nat /\ DOMAIN req[c].todo = 1 .. Len(req[c].todo) /\ IsSeq(q.todo)
      /\ DOMAIN q.todo = 1 .. Len(req[c].todo) - 1
      /\ \A n \in 1 .. Len(req[c].todo) - 1 : q.todo[n] = req[c].todo[n + 1]
      /\ ToSet(q.todo) \subseteq ToSet(req[c].todo) /\ Step(c) \in ToSet(req[c].todo) /\ 1 \in DOMAIN req[c].todo
  BY <1>1, <1>2, <1>8, TailOf DEF Step
<1>10. b \in BOOLEAN
  BY <1>3 DEF Reviewer
<1>11. o \notin DOMAIN rows => u = rows
  BY <1>2, <1>5 DEF TableOK, IsSeq, Written
<1>12. o \in DOMAIN rows =>
         /\ IsSeq(u) /\ DOMAIN u = DOMAIN rows /\ \A i \in DOMAIN rows \ {o} : u[i] = rows[i]
         /\ IsRow(u[o]) /\ u[o].kind = rows[o].kind /\ u[o].of = rows[o].of /\ u[o].refs = rows[o].refs
         /\ u[o].whole = rows[o].whole /\ u[o].hist = Append(rows[o].hist, to) /\ u[o].reviewer = b
  BY <1>2, <1>5, WrittenRow
<1>13. SameForCall(rows, u, req[c].kind) /\ \A i \in DOMAIN rows : u[i].refs = rows[i].refs /\ u[i].whole = rows[i].whole
  BY <1>11, <1>12 DEF SameForCall
<1>14. \* the written row is of the call's kind, and of a kind that keeps its reviewer only when it is moved
       /\ o \in DOMAIN rows => rows[o].kind = req[c].kind
       /\ KeepsReviewer(req[c].kind) => req[c].op = "move" /\ to = req[c].to
  <2>1. CASE req[c].op = "move"
    <3>1. o = req[c].names[req[c].kind] /\ req[c].kind \in DOMAIN req[c].names /\ Step(c).arg = None
      BY <1>2, <1>3, <1>9, <2>1 DEF Own, CallOK, MoveOK
    <3> QED BY <1>2, <1>3, <2>1, <3>1 DEF CallOK, NamesOK
  <2>2. CASE req[c].op # "move"
    <3>1. CreateOK(req[c], rows)
      BY <1>2, <2>2 DEF CallOK
    <3>2. req[c].kind \in DOMAIN req[c].names
      <4>1. ~WrittenWhenThere(req[c].todo, req[c].kind)
        BY <1>1, <1>2, <1>9 DEF WrittenWhenThere
      <4> QED BY <3>1, <4>1 DEF CreateOK
    <3>3. req[c].kind \notin DOMAIN R.moves
      BY <1>1, <1>9, <3>1 DEF CreateOK, StatusesAreFresh
    <3> QED BY <1>2, <1>3, <3>2, <3>3 DEF Own, CallOK, NamesOK, KeepsReviewer
  <2> QED BY <2>1, <2>2
<1>15. TableInv(u)
  <2>1. CASE o \notin DOMAIN rows
    BY <1>2, <1>11, <2>1
  <2>2. CASE o \in DOMAIN rows
    <3>1. PICK h, e : h = rows[o].hist /\ e = Append(h, to)
      OBVIOUS
    <3>2. IsSeq(h) /\ IsSeq(e) /\ ToSet(e) = ToSet(h) \cup {to}
      BY <1>2, <2>2, <3>1, Appended DEF TableOK
    <3>3. u[o].hist = e /\ u[o].reviewer = b
      BY <1>12, <2>2, <3>1
    <3>4. TableOK(u)
      BY <1>2, <1>10, <1>12, <2>2, <3>2, <3>3 DEF TableOK
    <3>5. Reviewed(u)
      <4> SUFFICES ASSUME NEW i \in DOMAIN u, KeepsReviewer(u[i].kind), ToSet(u[i].hist) \cap R.moves[u[i].kind].signed # {}
                   PROVE  u[i].reviewer = TRUE
        BY DEF Reviewed
      <4>1. CASE i # o
        <5>1. u[i] = rows[i] /\ i \in DOMAIN rows
          BY <1>12, <2>2, <4>1
        <5> QED BY <1>2, <5>1 DEF TableInv, Reviewed
      <4>2. CASE i = o
        <5>1. u[o].kind = req[c].kind /\ rows[o].kind = req[c].kind /\ KeepsReviewer(req[c].kind)
              /\ to = req[c].to /\ req[c].op = "move"
          BY <1>12, <1>14, <2>2, <4>2
        <5>2. PICK signed : signed = R.moves[req[c].kind].signed
          OBVIOUS
        <5>3. (ToSet(h) \cup {to}) \cap signed # {}
          BY <3>2, <3>3, <4>2, <5>1, <5>2
        <5>4. to \in signed \/ ToSet(h) \cap signed # {}
          BY <5>3
        <5>5. ToSet(h) \cap signed # {} => rows[o].reviewer = TRUE
          BY <1>2, <2>2, <3>1, <5>1, <5>2 DEF TableInv, Reviewed
        <5>6. req[c].to \in signed \/ (ToSet(rows[Own(c)].hist) \cap signed # {} /\ rows[Own(c)].reviewer = TRUE)
          BY <1>3, <3>1, <5>1, <5>4, <5>5
        <5>7. Reviewer(c)
          BY <1>1, <1>3, <2>2, <5>1, <5>2, <5>6, ReviewerAfterWrite
        <5> QED BY <1>3, <3>3, <4>2, <5>7
      <4> QED BY <4>1, <4>2
    <3>6. InLists(u)
      BY <1>2, <1>13 DEF TableInv, TableOK, InLists, InList, SameForCall
    <3> QED BY <3>4, <3>5, <3>6 DEF TableInv
  <2> QED BY <2>1, <2>2
<1>16. CallOK(q, u)
  <2>1. NamesOK(q.names, u)
    BY <1>2, <1>8, <1>13 DEF CallOK, NamesOK, SameForCall
  <2>2. CASE req[c].op = "move"
    <3>1. MoveOK(req[c], rows)
      BY <1>2, <2>2 DEF CallOK
    <3>2. ASSUME R.moves[req[c].kind].others = "writeBack", NEW n \in DOMAIN q.todo PROVE q.todo[n].do \notin Writing
      <4>1. n + 1 \in DOMAIN req[c].todo /\ n + 1 > 1 /\ q.todo[n] = req[c].todo[n + 1]
        BY <1>9, <3>2
      <4>2. \A l \in DOMAIN req[c].todo : l > 1 => req[c].todo[l].do \notin Writing
        BY <1>1, <1>2, <1>9, <3>1, <3>2 DEF MoveOK, Writing
      <4> QED BY <4>1, <4>2
    <3>3. DOMAIN u = DOMAIN rows
      BY <1>13 DEF SameForCall
    <3>4. MoveOK(q, u)
      BY <1>8, <1>9, <3>1, <3>2, <3>3 DEF MoveOK
    <3> QED BY <1>8, <1>9, <2>1, <2>2, <3>4 DEF CallOK
  <2>3. CASE req[c].op # "move"
    <3>1. CreateOK(req[c], rows) /\ Listers(req[c].kind) = {} /\ Unlisted(R, req[c].todo)
      BY <1>1, <1>2, <1>9, <2>3 DEF CallOK, CreateOK, Listing, Writing
    <3>2. StatusesAreFresh(R, R.creates[req[c].op], q.todo) /\ Unlisted(R, q.todo)
      BY <1>9, <3>1, FewerSteps DEF CreateOK
    <3>3. req[c].kind \in DOMAIN req[c].names \/ WrittenWhenThere(q.todo, req[c].kind)
      BY <1>1, <1>2, <1>8, <3>1, WrittenTail DEF CreateOK, Inserting, Writing
    <3>4. CreateOK(q, u)
      BY <1>8, <3>1, <3>2, <3>3 DEF CreateOK
    <3> QED BY <1>8, <1>9, <2>1, <2>3, <3>4 DEF CallOK
  <2> QED BY <2>2, <2>3
<1> QED BY <1>2, <1>6, <1>7, <1>8, <1>15, <1>16, GoKeeps

-----------------------------------------------------------------------------
(* A row is inserted *)

\* A row that no list and no reviewer is about yet.
NewIn(row, t) ==
  /\ IsRow(row) /\ row.of \subseteq DOMAIN t /\ IsSeq(row.hist) /\ row.reviewer \in BOOLEAN /\ row.whole \in BOOLEAN
  /\ KeepsReviewer(row.kind) => ToSet(row.hist) \cap R.moves[row.kind].signed = {}
  /\ row.whole = TRUE => Listers(row.kind) = {}

WithRow(t, row) == Append(t, row)

LEMMA RowAdded ==
  ASSUME NEW t, TableInv(t), NEW row, NewIn(row, t), NEW u, u = WithRow(t, row)
  PROVE  /\ TableInv(u) /\ Len(t) \in Nat /\ DOMAIN t = 1 .. Len(t) /\ DOMAIN u = 1 .. Len(t) + 1
         /\ u[Len(t) + 1] = row /\ \A i \in DOMAIN t : u[i] = t[i]
<1>1. TableOK(t) /\ IsSeq(t)
  BY DEF TableInv, TableOK
<1>2. /\ IsSeq(u) /\ Len(t) \in Nat /\ DOMAIN t = 1 .. Len(t) /\ DOMAIN u = 1 .. Len(t) + 1
      /\ u[Len(t) + 1] = row /\ \A i \in DOMAIN t : u[i] = t[i]
  BY <1>1, Appended DEF WithRow
<1>3. \A i \in DOMAIN u : i \in DOMAIN t \/ i = Len(t) + 1
  BY <1>2
<1>4. DOMAIN t \subseteq DOMAIN u
  BY <1>2
<1>5. TableOK(u)
  <2> SUFFICES ASSUME NEW i \in DOMAIN u
               PROVE  /\ IsRow(u[i]) /\ u[i].of \subseteq DOMAIN u
                      /\ IsSeq(u[i].hist) /\ u[i].reviewer \in BOOLEAN /\ u[i].whole \in BOOLEAN
    BY <1>2 DEF TableOK
  <2>1. CASE i \in DOMAIN t
    BY <1>1, <1>2, <1>4, <2>1 DEF TableOK
  <2>2. CASE i = Len(t) + 1
    BY <1>2, <1>4, <2>2 DEF NewIn
  <2> QED BY <1>3, <2>1, <2>2
<1>6. Reviewed(u)
  BY <1>2, <1>3 DEF TableInv, Reviewed, NewIn
<1>7. InLists(u)
  <2> SUFFICES ASSUME NEW i \in DOMAIN u, u[i].whole = TRUE, NEW p \in u[i].of PROVE InList(u, i, p)
    BY DEF InLists
  <2>1. CASE i \in DOMAIN t
    <3>1. p \in DOMAIN t /\ InList(t, i, p)
      BY <1>1, <1>2, <2>1 DEF TableInv, TableOK, InLists
    <3> QED BY <1>2, <2>1, <3>1 DEF InList
  <2>2. CASE i = Len(t) + 1
    BY <1>2, <2>2 DEF NewIn, InList
  <2> QED BY <1>3, <2>1, <2>2
<1> QED BY <1>2, <1>5, <1>6, <1>7 DEF TableInv

LEMMA OneStatus ==
  ASSUME NEW x
  PROVE  IsSeq(<<x>>) /\ ToSet(<<x>>) = {x}
BY DEF IsSeq, ToSet

\* The row an insert makes: under the parents the call names, none of them missing.
LEMMA NewRowOf ==
  ASSUME NEW c \in Slots, NEW row, row = NewRow(c)
  PROVE  /\ IsRow(row) /\ row.kind = Step(c).of /\ row.reviewer = FALSE
         /\ row.of = {req[c].names[k] : k \in Step(c).under \cap DOMAIN req[c].names}
         /\ IsSeq(row.hist) /\ ToSet(row.hist) = {IF row.kind = req[c].kind THEN req[c].to ELSE "active"}
         /\ row.whole = (row.kind # req[c].kind)
<1>1. PICK status, p : /\ status = IF Step(c).of = req[c].kind THEN req[c].to ELSE "active"
                       /\ p = {req[c].names[k] : k \in Step(c).under \cap DOMAIN req[c].names}
  OBVIOUS
<1>2. PICK base, kind : kind = Step(c).of /\ base = Answered(kind, status, p)
  OBVIOUS
<1>3. PICK key, journal, whole, trail, number :
        /\ key = IF Step(c).of = req[c].kind THEN req[c].key ELSE None
        /\ journal = <<>> /\ whole = ~(Step(c).of = req[c].kind)
        /\ trail = IF Step(c).do = "insertAudited" THEN base.trail ELSE <<>>
        /\ number = IF Step(c).do = "insertNumbered" THEN req[c].count + 1 ELSE 0
  OBVIOUS
<1>4. row = [base EXCEPT !.key = key, !.journal = journal, !.whole = whole, !.trail = trail, !.number = number]
  BY <1>1, <1>2, <1>3 DEF NewRow
<1>5. /\ IsRow(base) /\ base.kind = kind /\ base.of = p /\ base.hist = <<status>> /\ base.reviewer = FALSE
  BY <1>2 DEF Answered, IsRow
<1>6. IsSeq(base.hist) /\ ToSet(base.hist) = {status}
  BY <1>5, OneStatus
<1>7. /\ IsRow(row) /\ row.kind = base.kind /\ row.of = base.of /\ row.hist = base.hist /\ row.reviewer = base.reviewer
      /\ row.whole = whole
  BY <1>4, <1>5 DEF IsRow
<1> QED BY <1>1, <1>2, <1>3, <1>5, <1>6, <1>7, Zenon

\* The record is inserted, and the lists it belongs in are still to be written.
LEMMA ListedInsert ==
  ASSUME NEW r, NEW t, Listing(r, t), IsSeq(r.todo), r.todo # <<>>, r.todo[1].do \in Inserting, NamesOK(r.names, t),
         NEW q, q.kind = r.kind, q.todo = Tail(r.todo), NEW id,
         DOMAIN q.names = DOMAIN r.names \cup {r.kind}, q.names[r.kind] = id,
         \A l \in DOMAIN r.names : l # r.kind => q.names[l] = r.names[l],
         NEW u, id \in DOMAIN u, u[id].of = {r.names[k] : k \in r.todo[1].under \cap DOMAIN r.names},
         u[id].kind = r.kind, u[id].of \subseteq DOMAIN t, \A i \in DOMAIN t : u[i].kind = t[i].kind
  PROVE  Listing(q, u) /\ r.todo[1].of = r.kind /\ r.todo[1].arg = None /\ r.todo[1].do = "insert"
<1>1. /\ Len(r.todo) \in Nat /\ DOMAIN r.todo = 1 .. Len(r.todo) /\ DOMAIN q.todo = 1 .. Len(r.todo) - 1
      /\ \A n \in 1 .. Len(r.todo) - 1 : q.todo[n] = r.todo[n + 1]
      /\ ToSet(q.todo) \subseteq ToSet(r.todo) /\ 1 \in DOMAIN r.todo
  BY TailOf
<1>2. PICK S : S = Listers(r.kind) \cap DOMAIN r.names
  OBVIOUS
<1>3. /\ r.todo[1].do = "insert" /\ r.todo[1].of = r.kind /\ r.todo[1].arg = None
      /\ \A k \in r.todo[1].under \cap S : \E m \in DOMAIN r.todo :
           m > 1 /\ r.todo[m].do = "writeRefs" /\ r.todo[m].arg = None /\ r.todo[m].of = k
  BY <1>1, <1>2 DEF Listing, InsertedThenListed
<1>4. /\ DOMAIN q.names = DOMAIN r.names \cup {r.kind} /\ q.names[r.kind] = id
      /\ \A l \in DOMAIN r.names : l # r.kind => q.names[l] = r.names[l]
  OBVIOUS
<1>5. r.kind \notin Listers(r.kind)
  BY DEF Listing
<1>6. Paired(q.todo) /\ ~(1 \in DOMAIN q.todo /\ q.todo[1].do = "writeRefs")
  BY <1>3, PairedTail DEF Listing
<1>7. InsertedThenListed(q.todo, q.kind, Listers(q.kind) \cap DOMAIN q.names)
  <2>1. S = Listers(q.kind) \cap DOMAIN q.names
    BY <1>2, <1>4, <1>5
  <2>2. InsertedThenListed(q.todo, r.kind, S)
    BY <1>2, InsertedTail DEF Listing
  <2> QED BY <2>1, <2>2
<1>8. WillBeListed(q, u)
  <2>1. q.kind \in DOMAIN q.names /\ q.names[q.kind] = id
    BY <1>4
  <2>2. ASSUME NEW p \in u[id].of, ~InList(u, id, p)
        PROVE  \E m \in DOMAIN q.todo : /\ q.todo[m].do = "writeRefs" /\ q.todo[m].arg = None
                                        /\ q.todo[m].of \in DOMAIN q.names /\ q.names[q.todo[m].of] = p
    <3>1. PICK k \in r.todo[1].under \cap DOMAIN r.names : p = r.names[k]
      BY <2>2
    <3>2. u[p].kind = k
      BY <2>2, <3>1 DEF NamesOK
    <3>3. k \in Listers(r.kind)
      BY <2>2, <3>2 DEF InList
    <3>4. PICK m \in DOMAIN r.todo : m > 1 /\ r.todo[m].do = "writeRefs" /\ r.todo[m].arg = None /\ r.todo[m].of = k
      BY <1>2, <1>3, <3>1, <3>3
    <3>5. m - 1 \in 1 .. Len(r.todo) - 1 /\ m - 1 + 1 = m
      BY <1>1, <3>4
    <3>6. m - 1 \in DOMAIN q.todo /\ q.todo[m - 1] = r.todo[m]
      BY <1>1, <3>5
    <3>7. k \in DOMAIN q.names /\ q.names[k] = p
      BY <1>4, <1>5, <3>1, <3>3
    <3> QED BY <3>4, <3>6, <3>7
  <2> QED BY <2>1, <2>2 DEF WillBeListed
<1>9. \A s \in ToSet(q.todo) : s.do \in {"find", "insert", "readRefs", "writeRefs", "audit"}
  BY <1>1 DEF Listing
<1> QED BY <1>3, <1>5, <1>6, <1>7, <1>8, <1>9 DEF Listing

LEMMA InsertRowKeeps ==
  ASSUME Serial, repo \in DOMAIN Repositories, UNCHANGED frozen, NEW c \in Slots, InsertRow(c)
  PROVE  Serial'
<1>1. req[c].todo # <<>> /\ Step(c).do \in Inserting
  BY DEF InsertRow
<1>2. /\ req[c] # Idle /\ IsCall(req[c]) /\ IsSeq(req[c].todo) /\ TableInv(rows) /\ TableOK(rows)
      /\ Step(c) = req[c].todo[1] /\ CallOK(req[c], rows)
  BY <1>1, SameTables DEF TableInv, Serial
<1>3. ToSet(Tail(req[c].todo)) \subseteq ToSet(req[c].todo) /\ Step(c) \in ToSet(req[c].todo)
  BY <1>1, <1>2, TailOf DEF Step
<1>4. req[c].op # "move" /\ CreateOK(req[c], rows) /\ NamesOK(req[c].names, rows)
  BY <1>1, <1>2, <1>3 DEF CallOK, MoveOK, Inserting, Writing
<1>5. CASE End(c)
  BY <1>2, <1>5, EndKeeps
<1>6. CASE ~Refused(c)
  <2>1. PICK row, id, table : row = NewRow(c) /\ id = Len(rows) + 1 /\ table = Append(rows, row)
    OBVIOUS
  <2>2. PICK kind : kind = Step(c).of
    OBVIOUS
  <2>3. /\ IsRow(row) /\ row.kind = kind /\ row.reviewer = FALSE
        /\ row.of = {req[c].names[k] : k \in Step(c).under \cap DOMAIN req[c].names}
        /\ IsSeq(row.hist) /\ ToSet(row.hist) = {IF kind = req[c].kind THEN req[c].to ELSE "active"}
        /\ row.whole = (kind # req[c].kind)
    <3>1. row = NewRow(c)
      BY <2>1
    <3>2. /\ IsRow(row) /\ row.kind = Step(c).of /\ row.reviewer = FALSE
          /\ row.of = {req[c].names[k] : k \in Step(c).under \cap DOMAIN req[c].names}
          /\ IsSeq(row.hist) /\ ToSet(row.hist) = {IF row.kind = req[c].kind THEN req[c].to ELSE "active"}
          /\ row.whole = (row.kind # req[c].kind)
      BY <3>1, NewRowOf
    <3>3. row.kind = kind
      BY <2>2, <3>2
    <3> QED BY <3>2, <3>3
  <2>4. row.of \subseteq DOMAIN rows
    <3>1. \A k \in Step(c).under \cap DOMAIN req[c].names : req[c].names[k] # Missing
      BY <1>6 DEF Refused
    <3> QED BY <1>4, <2>3, <3>1 DEF NamesOK
  <2>5. Fresh(R, kind, IF kind = req[c].kind THEN req[c].to ELSE "active") /\ (Step(c).arg # None => Fresh(R, Step(c).arg, "open"))
    BY <1>1, <1>3, <1>4, <2>2 DEF CreateOK, StatusesAreFresh
  <2>6. row.whole = TRUE => Listers(kind) = {}
    <3>1. CASE Listers(req[c].kind) = {}
      BY <1>1, <1>3, <1>4, <2>2, <3>1 DEF CreateOK, Unlisted, Listers
    <3>2. CASE Listers(req[c].kind) # {}
      <4>1. kind = req[c].kind
        BY <1>1, <1>2, <1>4, <2>2, <3>2, TailOf DEF CreateOK, Listing, InsertedThenListed
      <4> QED BY <2>3, <4>1
    <3> QED BY <3>1, <3>2
  <2>7. NewIn(row, rows)
    <3>1. KeepsReviewer(row.kind) => ToSet(row.hist) \cap R.moves[row.kind].signed = {}
      BY <2>3, <2>5 DEF KeepsReviewer, Fresh
    <3> QED BY <2>3, <2>4, <2>6, <3>1 DEF NewIn
  <2>8. /\ TableInv(table) /\ TableOK(table) /\ Len(rows) \in Nat /\ DOMAIN rows = 1 .. Len(rows) /\ DOMAIN table = 1 .. Len(rows) + 1
        /\ table[id] = row /\ \A i \in DOMAIN rows : table[i] = rows[i]
    <3>1. table = WithRow(rows, row) /\ id = Len(rows) + 1
      BY <2>1 DEF WithRow
    <3>2. /\ TableInv(table) /\ Len(rows) \in Nat /\ DOMAIN rows = 1 .. Len(rows) /\ DOMAIN table = 1 .. Len(rows) + 1
          /\ table[Len(rows) + 1] = row /\ \A i \in DOMAIN rows : table[i] = rows[i]
      BY <1>2, <2>7, <3>1, RowAdded
    <3> QED BY <3>1, <3>2 DEF TableInv
  <2>9. PICK x, numbered : /\ x = req[c].names["thread"]
                           /\ numbered = IF Step(c).do # "insertNumbered" THEN table
                                         ELSE [table EXCEPT ![x].latest = row.number]
    OBVIOUS
  <2>10. TableInv(numbered) /\ Alike(table, numbered)
    <3>1. CASE Step(c).do # "insertNumbered"
      BY <2>8, <2>9, <3>1 DEF Alike, AlikeRows, TableOK
    <3>2. CASE Step(c).do = "insertNumbered"
      <4>1. PICK w : w = [table[x] EXCEPT !.latest = row.number]
        OBVIOUS
      <4>2. x \in DOMAIN table => AlikeRows(w, table[x]) /\ w.whole = table[x].whole
        BY <2>8, <4>1 DEF TableOK, AlikeRows, IsRow
      <4>3. numbered = Put(table, x, w)
        BY <2>9, <3>2, <4>1 DEF Put
      <4> QED BY <2>8, <4>2, <4>3, ChangedAlike
    <3> QED BY <3>1, <3>2
  <2>11. PICK part, both : /\ part = [Answered(Step(c).arg, "open", {id}) EXCEPT !.trail = <<>>]
                           /\ both = Append(table, part)
    OBVIOUS
  <2>12. ASSUME Step(c).arg # None
         PROVE  TableInv(both) /\ DOMAIN table \subseteq DOMAIN both /\ \A i \in DOMAIN table : both[i] = table[i]
    <3>1. PICK base, k : k = Step(c).arg /\ base = Answered(k, "open", {id})
      OBVIOUS
    <3>2. IsRow(base) /\ base.kind = k /\ base.of = {id} /\ base.hist = <<"open">> /\ base.reviewer = FALSE /\ base.whole = TRUE
      BY <3>1 DEF Answered, IsRow
    <3>3. part = [base EXCEPT !.trail = <<>>]
      BY <2>11, <3>1
    <3>4. IsRow(part) /\ part.kind = k /\ part.of = {id} /\ part.hist = base.hist /\ part.reviewer = FALSE /\ part.whole = TRUE
      BY <3>2, <3>3 DEF IsRow
    <3>5. IsSeq(part.hist) /\ ToSet(part.hist) = {"open"}
      BY <3>2, <3>4, OneStatus
    <3>6. id \in DOMAIN table
      BY <2>1, <2>8
    <3>7. KeepsReviewer(part.kind) => ToSet(part.hist) \cap R.moves[part.kind].signed = {}
      BY <2>5, <2>12, <3>1, <3>4, <3>5 DEF KeepsReviewer, Fresh
    <3>8. Listers(part.kind) = {}
      <4>1. CASE Listers(req[c].kind) = {}
        BY <1>1, <1>3, <1>4, <2>12, <3>1, <3>4, <4>1 DEF CreateOK, Unlisted, Listers
      <4>2. CASE Listers(req[c].kind) # {}
        BY <1>1, <1>2, <1>4, <2>12, <4>2, TailOf DEF CreateOK, Listing, InsertedThenListed
      <4> QED BY <4>1, <4>2
    <3>9. NewIn(part, table)
      BY <3>4, <3>5, <3>6, <3>7, <3>8 DEF NewIn
    <3>10. /\ TableInv(both) /\ DOMAIN table = 1 .. Len(table) /\ DOMAIN both = 1 .. Len(table) + 1 /\ Len(table) \in Nat
           /\ \A i \in DOMAIN table : both[i] = table[i]
      <4>1. both = WithRow(table, part)
        BY <2>11 DEF WithRow
      <4>2. /\ TableInv(both) /\ Len(table) \in Nat /\ DOMAIN table = 1 .. Len(table) /\ DOMAIN both = 1 .. Len(table) + 1
            /\ both[Len(table) + 1] = part /\ \A i \in DOMAIN table : both[i] = table[i]
        BY <2>8, <3>9, <4>1, RowAdded
      <4> QED BY <4>2
    <3> QED BY <3>10
  <2>13. PICK u : u = IF Step(c).arg = None THEN numbered ELSE both
    OBVIOUS
  <2>14. /\ TableInv(u) /\ DOMAIN table \subseteq DOMAIN u
         /\ \A i \in DOMAIN table : u[i].kind = table[i].kind /\ u[i].of = table[i].of
    <3>1. CASE Step(c).arg = None
      BY <2>10, <2>13, <3>1 DEF Alike, AlikeRows
    <3>2. CASE Step(c).arg # None
      BY <2>12, <2>13, <3>2
    <3> QED BY <3>1, <3>2
  <2>15. /\ id \in DOMAIN u /\ u[id].kind = kind /\ u[id].of = row.of /\ DOMAIN rows \subseteq DOMAIN u
         /\ \A i \in DOMAIN rows : u[i].kind = rows[i].kind
    <3>1. id \in DOMAIN table /\ DOMAIN rows \subseteq DOMAIN table
      BY <2>1, <2>8
    <3> QED BY <2>3, <2>8, <2>14, <3>1
  <2>16. PICK names : names = req[c].names
    OBVIOUS
  <2>17. PICK n : n = Named(names, kind, id)
    OBVIOUS
  <2>18. NamesOK(n, u) /\ kind \in DOMAIN n /\ DOMAIN names \subseteq DOMAIN n
    <3>1. DOMAIN u \subseteq Nat
      BY <2>14, RowsAreNumbered DEF TableInv
    <3>2. NamesOK(names, rows)
      BY <1>4, <2>16
    <3>3. NamesOK(Named(names, kind, id), u)
      BY <2>15, <3>1, <3>2, NamedRow
    <3>4. DOMAIN Named(names, kind, id) = DOMAIN names \cup {kind}
      BY NamesOfCall
    <3> QED BY <2>17, <3>3, <3>4, Zenon
  <2>19. PICK r, q : r = [req[c] EXCEPT !.names = n, !.count = 0] /\ q = After(r)
    OBVIOUS
  <2>20. Go(c, r, u)
    BY <1>6, <2>1, <2>2, <2>3, <2>9, <2>11, <2>13, <2>16, <2>17, <2>19, Zenon DEF InsertRow
  <2>21. /\ IsCall(r) /\ r.op = req[c].op /\ r.kind = req[c].kind /\ r.to = req[c].to /\ r.names = n /\ r.todo = req[c].todo
         /\ q.kind = r.kind /\ q.names = n /\ q.todo = Tail(req[c].todo)
    BY <1>2, <2>19 DEF After, IsCall
  <2>22. StatusesAreFresh(R, R.creates[r.op], Tail(r.todo)) /\ (Unlisted(R, r.todo) => Unlisted(R, Tail(r.todo)))
    BY <1>3, <1>4, <2>21, FewerSteps DEF CreateOK
  <2>23. r.kind \in DOMAIN r.names \/ WrittenWhenThere(Tail(r.todo), r.kind)
    <3>1. CASE kind = req[c].kind
      BY <2>18, <2>21, <3>1
    <3>2. CASE kind # req[c].kind
      BY <1>1, <1>2, <1>4, <2>2, <2>16, <2>18, <2>21, <3>2, WrittenTail DEF CreateOK
    <3> QED BY <3>1, <3>2
  <2>24. ASSUME Listers(r.kind) # {} PROVE Listing(q, u)
    <3>1. Listing(req[c], rows)
      BY <1>4, <2>21, <2>24 DEF CreateOK
    <3>2. kind = req[c].kind
      BY <1>1, <1>2, <2>2, <3>1, TailOf DEF Listing, InsertedThenListed
    <3>3. /\ q.kind = req[c].kind /\ q.todo = Tail(req[c].todo)
          /\ DOMAIN q.names = DOMAIN names \cup {kind} /\ q.names[kind] = id
          /\ \A l \in DOMAIN names : l # kind => q.names[l] = names[l]
      <4>1. /\ DOMAIN Named(names, kind, id) = DOMAIN names \cup {kind} /\ Named(names, kind, id)[kind] = id
            /\ \A l \in DOMAIN names : l # kind => Named(names, kind, id)[l] = names[l]
        BY DEF Named
      <4> QED BY <2>17, <2>21, <3>2, <4>1
    <3>4. /\ req[c].todo[1].do \in Inserting /\ u[id].kind = req[c].kind /\ u[id].of \subseteq DOMAIN rows
          /\ u[id].of = {req[c].names[k] : k \in req[c].todo[1].under \cap DOMAIN req[c].names}
      BY <1>1, <1>2, <2>3, <2>4, <2>15, <3>2
    <3> QED BY <1>1, <1>2, <1>4, <2>15, <2>16, <3>1, <3>2, <3>3, <3>4, ListedInsert
  <2>25. IF Listers(r.kind) = {} THEN Unlisted(R, Tail(r.todo)) ELSE Listing(After(r), u)
    BY <1>4, <2>19, <2>21, <2>22, <2>24 DEF CreateOK
  <2> QED BY <1>1, <1>2, <1>4, <2>14, <2>18, <2>20, <2>21, <2>22, <2>23, <2>25, NamingStep
<1> QED BY <1>5, <1>6 DEF InsertRow

-----------------------------------------------------------------------------
(* A call begins, or is left *)

LEMMA FreeKeeps ==
  ASSUME Serial, mode = "serial", NEW c \in Slots, Free(c), NEW q, req' = [req EXCEPT ![c] = q], CallOK(q, rows)
  PROVE  Serial'
<1>1. UNCHANGED frozen /\ rows' = rows /\ AtRest
  BY DEF Free
<1>2. req' = [d \in Slots |-> req'[d]] /\ req'[c] = q /\ \A d \in Slots \ {c} : req'[d] = Idle
  BY <1>1 DEF Serial, AtRest
<1>3. Alone'
  BY <1>2 DEF Alone, Idle
<1>4. \A d \in Slots : req'[d] # Idle => CallOK(req'[d], rows')
  BY <1>1, <1>2
<1>5. (\A d \in Slots : req[d] # Idle => CallOK(req[d], rows))'
  BY <1>1, <1>4, SameRepository DEF Idle
<1>6. TableInv(rows)'
  BY <1>1, SameRepository DEF Serial
<1> QED BY <1>2, <1>3, <1>5, <1>6 DEF Serial

LEMMA CreateKeeps ==
  ASSUME Serial, mode = "serial", repo \in DOMAIN Repositories, NEW c \in Slots, Create(c)
  PROVE  Serial'
<1>1. PICK op \in DOMAIN R.creates : \E kinds \in R.creates[op].names :
        \E key \in (IF R.creates[op].keyed THEN Keys ELSE {}) \cup {None} : \E names \in [kinds -> Ids \cup {Missing}] :
          /\ \A k \in kinds : names[k] # Missing => rows[names[k]].kind = k
          /\ req' = [req EXCEPT ![c] = [Idle EXCEPT
               !.op = op, !.kind = R.creates[op].kind, !.key = key, !.names = names, !.to = R.creates[op].status,
               !.todo = Program(R.creates[op], kinds)]]
  BY DEF Create
<1>2. PICK kinds \in R.creates[op].names : \E key, names :
          /\ names \in [kinds -> Ids \cup {Missing}]
          /\ \A k \in kinds : names[k] # Missing => rows[names[k]].kind = k
          /\ req' = [req EXCEPT ![c] = [Idle EXCEPT
               !.op = op, !.kind = R.creates[op].kind, !.key = key, !.names = names, !.to = R.creates[op].status,
               !.todo = Program(R.creates[op], kinds)]]
  BY <1>1
<1>3. PICK d, t : d = R.creates[op] /\ t = Program(R.creates[op], kinds)
  OBVIOUS
<1>4. PICK key, names :
          /\ names \in [kinds -> Ids \cup {Missing}]
          /\ \A k \in kinds : names[k] # Missing => rows[names[k]].kind = k
          /\ req' = [req EXCEPT ![c] = [Idle EXCEPT
               !.op = op, !.kind = d.kind, !.key = key, !.names = names, !.to = d.status, !.todo = t]]
  BY <1>2, <1>3
<1>5. PICK q : q = [Idle EXCEPT !.op = op, !.kind = d.kind, !.key = key, !.names = names, !.to = d.status, !.todo = t]
  OBVIOUS
<1>6. req' = [req EXCEPT ![c] = q]
  BY <1>4, <1>5
<1>7. IsCall(q) /\ q.op = op /\ q.kind = d.kind /\ q.names = names /\ q.to = d.status /\ q.todo = t
  BY <1>5 DEF Idle, IsCall
<1>8. IsSeq(t) /\ ListsAreKept(R, d, t, kinds) /\ StatusesAreFresh(R, d, t) /\ WrittenWhenThere(t, d.kind)
  BY <1>3, ProgramsAssumption DEF R, IsSeq
<1>9. op # "move"
  BY MoveIsNoCreation
<1>10. NamesOK(names, rows) /\ DOMAIN names = kinds
  <2>1. Missing \notin DOMAIN rows
    BY RowsAreNumbered DEF Serial, TableInv
  <2>2. names = [k \in kinds |-> names[k]] /\ DOMAIN names = kinds /\ \A k \in kinds : names[k] \in DOMAIN rows \cup {Missing}
    BY <1>4 DEF Ids
  <2> QED BY <1>4, <2>1, <2>2 DEF NamesOK
<1>11. Listers(d.kind) = ListersIn(R, d.kind)
  BY DEF Listers
<1>12. CreateOK(q, rows)
  <2>1. CASE Listers(d.kind) = {}
    BY <1>3, <1>7, <1>8, <1>11, <2>1 DEF CreateOK, ListsAreKept
  <2>2. CASE Listers(d.kind) # {}
    <3>1. Listing(q, rows)
      BY <1>7, <1>8, <1>10, <1>11, <2>2 DEF Listing, ListsAreKept
    <3> QED BY <1>3, <1>7, <1>8, <2>2, <3>1 DEF CreateOK
  <2> QED BY <2>1, <2>2
<1>13. CallOK(q, rows)
  BY <1>7, <1>8, <1>9, <1>10, <1>12 DEF CallOK
<1> QED BY <1>6, <1>13, FreeKeeps DEF Create

LEMMA MoveKeeps ==
  ASSUME Serial, mode = "serial", repo \in DOMAIN Repositories, NEW c \in Slots, Move(c)
  PROVE  Serial'
<1>1. PICK i \in Ids : rows[i].kind \in DOMAIN R.moves /\
        \E to \in UNION Range(R.moves[rows[i].kind].table) :
          req' = [req EXCEPT ![c] = [Idle EXCEPT
             !.op = "move", !.kind = rows[i].kind, !.names = [k \in {rows[i].kind} |-> i], !.to = to,
             !.todo = R.moves[rows[i].kind].todo]]
  BY DEF Move
<1>2. PICK kind, d : kind = rows[i].kind /\ d = R.moves[kind]
  OBVIOUS
<1>3. PICK to \in UNION Range(d.table) :
        req' = [req EXCEPT ![c] = [Idle EXCEPT !.op = "move", !.kind = kind, !.names = [k \in {kind} |-> i], !.to = to, !.todo = d.todo]]
  BY <1>1, <1>2
<1>4. PICK names, t : names = [k \in {kind} |-> i] /\ t = d.todo
  OBVIOUS
<1>5. PICK q : q = [Idle EXCEPT !.op = "move", !.kind = kind, !.names = names, !.to = to, !.todo = t]
  OBVIOUS
<1>6. req' = [req EXCEPT ![c] = q]
  BY <1>3, <1>4, <1>5
<1>7. IsCall(q) /\ q.op = "move" /\ q.kind = kind /\ q.names = names /\ q.to = to /\ q.todo = t /\ q.reviewer = FALSE
  BY <1>5 DEF Idle, IsCall
<1>8. kind \in DOMAIN R.moves /\ Moving(d)
  BY <1>1, <1>2, ProgramsAssumption DEF R
<1>9. IsSeq(t) /\ DOMAIN t = 1 .. Len(t) /\ Len(t) \in Nat
  BY <1>4, <1>8, SeqOfAny DEF Moving, IsSeq
<1>10. NamesOK(names, rows) /\ kind \in DOMAIN names /\ names[kind] = i /\ i \in DOMAIN rows
  BY <1>2, <1>4 DEF NamesOK, Ids
<1>11. ASSUME d.others = "writeBack"
       PROVE  \/ /\ 1 \in DOMAIN t /\ t[1].do = "readStatus"
                 /\ \A n \in DOMAIN t : n > 2 => t[n].do \notin Writing
              \/ \A n \in DOMAIN t : t[n].do \notin Writing
  <2>1. t[1].do = "readStatus" /\ \A n \in DOMAIN t : n > 2 => t[n].do \notin Writing
    BY <1>4, <1>8, <1>11 DEF Moving
  <2>2. 1 \in DOMAIN t \/ DOMAIN t = {}
    BY <1>9
  <2> QED BY <2>1, <2>2
<1>12. MoveOK(q, rows)
  <2>1. \A s \in ToSet(t) :
         /\ s.do \in Writing \cup {"readStatus", "readUses", "writeUses", "audit", "readJournal", "writeJournal"}
         /\ s.arg = None
    BY <1>4, <1>8 DEF Moving
  <2> QED BY <1>2, <1>3, <1>7, <1>8, <1>10, <1>11, <2>1 DEF MoveOK
<1>13. CallOK(q, rows)
  BY <1>7, <1>9, <1>10, <1>12 DEF CallOK
<1> QED BY <1>6, <1>13, FreeKeeps DEF Move

-----------------------------------------------------------------------------
(* The invariant holds *)

LEMMA SeedsInv ==
  ASSUME NEW t, Seeded(R, t)
  PROVE  TableInv(t)
<1>1. IsSeq(t)
  BY DEF Seeded, IsSeq
<1>2. ASSUME NEW i \in DOMAIN t
      PROVE  /\ IsRow(t[i]) /\ t[i].of \subseteq DOMAIN t /\ IsSeq(t[i].hist) /\ t[i].reviewer = FALSE /\ t[i].whole = TRUE
             /\ Listers(t[i].kind) = {}
             /\ KeepsReviewer(t[i].kind) => ToSet(t[i].hist) \cap R.moves[t[i].kind].signed = {}
  <2>1. PICK k, x, p : k = t[i].kind /\ p \in SUBSET DOMAIN t /\ t[i] = Answered(k, x, p) /\ Fresh(R, k, x) /\ ListersIn(R, k) = {}
    BY DEF Seeded
  <2>2. IsRow(t[i]) /\ t[i].of = p /\ t[i].hist = <<x>> /\ t[i].reviewer = FALSE /\ t[i].whole = TRUE
    BY <2>1 DEF Answered, IsRow
  <2>3. IsSeq(t[i].hist) /\ ToSet(t[i].hist) = {x}
    BY <2>2, OneStatus
  <2> QED BY <2>1, <2>2, <2>3 DEF Listers, KeepsReviewer, Fresh
<1>3. TableOK(t)
  BY <1>1, <1>2 DEF TableOK
<1>4. Reviewed(t)
  BY <1>2 DEF Reviewed
<1>5. InLists(t)
  BY <1>2 DEF InLists, InList
<1> QED BY <1>3, <1>4, <1>5 DEF TableInv

LEMMA InitInv == Init => GovInv
<1> SUFFICES ASSUME Init PROVE GovInv
  OBVIOUS
<1>1. repo \in DOMAIN Repositories /\ Seeded(R, rows)
  BY ProgramsAssumption DEF Init, R
<1>2. TableInv(rows)
  BY <1>1, SeedsInv
<1>3. req = [c \in Slots |-> req[c]] /\ \A c \in Slots : req[c] = Idle
  BY DEF Init
<1> QED BY <1>1, <1>2, <1>3 DEF GovInv, Serial, Alone

LEMMA NextInv == GovInv /\ [Next]_vars => GovInv'
<1> SUFFICES ASSUME GovInv, [Next]_vars PROVE GovInv'
  OBVIOUS
<1>1. CASE UNCHANGED vars
  <2>1. UNCHANGED frozen /\ rows' = rows /\ req' = req /\ repo' = repo /\ mode' = mode
    BY <1>1 DEF vars, frozen
  <2>2. Serial => Serial'
    <3> SUFFICES ASSUME Serial PROVE Serial'
      OBVIOUS
    <3>1. TableInv(rows)' /\ \A c \in Slots : CallOK(req[c], rows) => CallOK(req[c], rows)'
      BY <2>1, SameRepository DEF Serial
    <3>2. Alone' /\ (req = [c \in Slots |-> req[c]])'
      BY <2>1 DEF Serial, Alone, Idle
    <3>3. (\A c \in Slots : req[c] # Idle => CallOK(req[c], rows))'
      BY <2>1, <3>1 DEF Serial, Idle
    <3> QED BY <3>1, <3>2, <3>3 DEF Serial
  <2> QED BY <2>1, <2>2 DEF GovInv
<1>2. ASSUME NEW c \in Slots, Create(c) \/ Move(c) \/ Await(c) \/ Abandon(c) PROVE GovInv'
  <2>1. UNCHANGED frozen
    BY <1>2, Zenon DEF Create, Move, Await, Abandon, Free
  <2>2. repo \in DOMAIN Repositories /\ repo' = repo /\ mode' = mode
    BY <2>1 DEF GovInv, frozen
  <2>3. ASSUME mode = "serial" PROVE Serial'
    <3>1. Serial
      BY <2>3 DEF GovInv
    <3>2. CASE Create(c)
      BY <2>2, <2>3, <3>1, <3>2, CreateKeeps
    <3>3. CASE Move(c)
      BY <2>2, <2>3, <3>1, <3>3, MoveKeeps
    <3>4. CASE Abandon(c)
      BY <2>1, <3>1, <3>4, EndKeeps DEF Abandon
    <3>5. CASE Await(c)
      <4>1. CASE LookUp(c) \/ LookUpAny(c) \/ FindParent(c) \/ FindSource(c) \/ ReadNumbers(c) \/ ReadUses(c) \/ ReadJournal(c)
        BY <2>1, <2>2, <3>1, <4>1, ReadsKeep
      <4>2. CASE Reuse(c)
        BY <2>1, <2>2, <3>1, <4>2, ReuseKeeps
      <4>3. CASE Ensure(c)
        BY <2>1, <2>2, <3>1, <4>3, EnsureKeeps
      <4>4. CASE InsertRow(c)
        BY <2>1, <2>2, <3>1, <4>4, InsertRowKeeps
      <4>5. CASE ReadRefs(c)
        BY <2>1, <2>2, <3>1, <4>5, ReadRefsKeeps
      <4>6. CASE WriteRefs(c)
        BY <2>1, <2>2, <3>1, <4>6, WriteRefsKeeps
      <4>7. CASE SetRefs(c)
        BY <2>1, <2>2, <3>1, <4>7, SetRefsKeeps
      <4>8. CASE ReadStatus(c)
        BY <2>1, <2>2, <3>1, <4>8, ReadStatusKeeps
      <4>9. CASE WriteStatus(c)
        BY <2>1, <2>2, <3>1, <4>9, WriteStatusKeeps
      <4>10. CASE Audit(c)
        BY <2>1, <2>2, <3>1, <4>10, AuditKeeps
      <4>11. CASE WriteUses(c) \/ WriteJournal(c)
        BY <2>1, <2>2, <3>1, <4>11, CountedWritesKeep
      <4> QED BY <3>5, <4>1, <4>2, <4>3, <4>4, <4>5, <4>6, <4>7, <4>8, <4>9, <4>10, <4>11 DEF Await
    <3> QED BY <1>2, <3>2, <3>3, <3>4, <3>5
  <2> QED BY <2>2, <2>3 DEF GovInv
<1> QED BY <1>1, <1>2 DEF Next

\* One call at a time, every table and the call in flight are as GovInv says.
THEOREM GovInvHolds == Spec => []GovInv
BY InitInv, NextInv, PTL DEF Spec

\* Without overlap a record that was approved or rejected goes on naming its
\* reviewer, in every repository that does not clear the column, whatever calls
\* were refused or left half done: archiving writes back what the call read, and
\* no other call wrote in between.
THEOREM ReviewersStay == Spec => []ReviewerIsKept
<1>1. GovInv => ReviewerIsKept
  BY DEF GovInv, Serial, TableInv, Reviewed, KeepsReviewer, ReviewerIsKept, Ids
<1> QED BY <1>1, GovInvHolds, PTL

\* Without overlap a record whose creating call was answered is in the list of
\* each parent that keeps one: a list is read and written back whole, and a
\* creating call goes on to write every list before it answers.
THEOREM ParentsListWhatTheyHave == Spec => []ParentsListTheirRecords
<1>1. GovInv => ParentsListTheirRecords
  BY DEF GovInv, Serial, TableInv, InLists, InList, ParentsListTheirRecords, Ids
<1> QED BY <1>1, GovInvHolds, PTL

-----------------------------------------------------------------------------
(* What a call owes to a log *)

\* The entry of the row of kind k is due: the row was written, and the entry was not.
Due(t, k, w) ==
  /\ \E a \in DOMAIN t : t[a].do = w /\ t[a].of = k
  /\ \A m \in DOMAIN t : t[m].of = k => t[m].do \notin Telling

IsLog(w) == w \in {"audit", "writeJournal"}

LEMMA LogsAreLogs ==
  /\ \A w \in LogsOf(repo) : IsLog(w)
  /\ \A w : IsLog(w) => w \notin Telling /\ w \notin Ensuring /\ w \notin Inserting /\ w \notin Writing
BY DEF LogsOf, IsLog, Telling, Ensuring, Inserting, Writing

LEMMA FirstStep ==
  ASSUME NEW t, IsSeq(t), t # <<>>
  PROVE  /\ Len(t) \in Nat /\ DOMAIN t = 1 .. Len(t) /\ 1 \in DOMAIN t /\ DOMAIN Tail(t) = 1 .. Len(t) - 1
         /\ \A n \in DOMAIN Tail(t) : n \in Nat /\ n + 1 \in DOMAIN t /\ Tail(t)[n] = t[n + 1]
         /\ \A n \in DOMAIN t : n # 1 => n - 1 \in DOMAIN Tail(t) /\ Tail(t)[n - 1] = t[n]
         /\ \A n \in DOMAIN t : n \in Nat /\ n >= 1
<1>1. /\ Len(t) \in Nat /\ DOMAIN t = 1 .. Len(t) /\ 1 \in DOMAIN t /\ DOMAIN Tail(t) = 1 .. Len(t) - 1
      /\ \A n \in 1 .. Len(t) - 1 : Tail(t)[n] = t[n + 1]
  BY TailOf
<1>2. ASSUME NEW n \in DOMAIN t, n # 1 PROVE n - 1 \in DOMAIN Tail(t) /\ Tail(t)[n - 1] = t[n]
  <2>1. n - 1 \in 1 .. Len(t) - 1 /\ n - 1 + 1 = n
    BY <1>1, <1>2
  <2> QED BY <1>1, <2>1
<1> QED BY <1>1, <1>2

\* A step that is neither a write nor an entry changes nothing that is due.
LEMMA DueAfter ==
  ASSUME NEW t, IsSeq(t), t # <<>>, NEW k, NEW w, t[1].of = k => t[1].do \notin Telling \cup {w}
  PROVE  Due(Tail(t), k, w) <=> Due(t, k, w)
<1>1. ASSUME Due(t, k, w) PROVE Due(Tail(t), k, w)
  <2>1. PICK a \in DOMAIN t : t[a].do = w /\ t[a].of = k
    BY <1>1 DEF Due
  <2>2. a # 1
    BY <2>1
  <2>3. a - 1 \in DOMAIN Tail(t) /\ Tail(t)[a - 1] = t[a]
    BY <2>2, FirstStep
  <2>4. \A m \in DOMAIN Tail(t) : Tail(t)[m].of = k => Tail(t)[m].do \notin Telling
    BY <1>1, FirstStep DEF Due
  <2> QED BY <2>1, <2>3, <2>4 DEF Due
<1>2. ASSUME Due(Tail(t), k, w) PROVE Due(t, k, w)
  <2>1. PICK a \in DOMAIN Tail(t) : Tail(t)[a].do = w /\ Tail(t)[a].of = k
    BY <1>2 DEF Due
  <2>2. a + 1 \in DOMAIN t /\ t[a + 1].do = w /\ t[a + 1].of = k
    BY <2>1, FirstStep
  <2>3. ASSUME NEW m \in DOMAIN t, t[m].of = k PROVE t[m].do \notin Telling
    <3>1. CASE m = 1
      BY <2>3, <3>1
    <3>2. CASE m # 1
      <4>1. m - 1 \in DOMAIN Tail(t) /\ Tail(t)[m - 1] = t[m]
        BY <3>2, FirstStep
      <4> QED BY <1>2, <2>3, <4>1 DEF Due
    <3> QED BY <3>1, <3>2
  <2> QED BY <2>2, <2>3 DEF Due
<1> QED BY <1>1, <1>2

\* A write makes its entry due; no entry of its row was.
LEMMA DueAfterWrite ==
  ASSUME NEW t, IsSeq(t), t # <<>>, NEW w, IsLog(w), EntryFollows(t, w), NEW k, t[1].of = k, t[1].do \in Telling, k \notin Unaudited
  PROVE  ~Due(t, k, w) /\ Due(Tail(t), k, w)
<1>1. 1 \in DOMAIN t
  BY FirstStep
<1>2. ~Due(t, k, w)
  BY <1>1 DEF Due
<1>3. PICK a \in DOMAIN t : a > 1 /\ t[a].do = w /\ t[a].of = k
  BY <1>1 DEF EntryFollows
<1>4. a - 1 \in DOMAIN Tail(t) /\ Tail(t)[a - 1] = t[a]
  BY <1>3, FirstStep
<1>5. ASSUME NEW m \in DOMAIN Tail(t), Tail(t)[m].of = k PROVE Tail(t)[m].do \notin Telling
  <2>1. m \in Nat /\ m + 1 \in DOMAIN t /\ t[m + 1] = Tail(t)[m] /\ m \in 1 .. Len(t) - 1 /\ Len(t) \in Nat
    BY FirstStep
  <2>2. m + 1 # 1
    BY <2>1
  <2>3. t[m + 1].do \notin Telling
    BY <1>1, <1>5, <2>1, <2>2 DEF EntryFollows
  <2> QED BY <2>1, <2>3
<1> QED BY <1>2, <1>3, <1>4, <1>5 DEF Due

\* An entry that is written was due, and nothing more is.
LEMMA DueAfterEntry ==
  ASSUME NEW t, IsSeq(t), t # <<>>, NEW w, IsLog(w), EntryFollows(t, w), NEW k, t[1].of = k, t[1].do = w, k \notin Unaudited
  PROVE  Due(t, k, w) /\ ~Due(Tail(t), k, w)
<1>1. 1 \in DOMAIN t /\ \A n \in DOMAIN t : n \in Nat /\ n >= 1
  BY FirstStep
<1>2. ASSUME NEW m \in DOMAIN t, t[m].of = k PROVE t[m].do \notin Telling
  <2>1. SUFFICES ASSUME t[m].do \in Telling PROVE FALSE
    OBVIOUS
  <2>2. PICK a \in DOMAIN t : a > m /\ t[a].do = w /\ t[a].of = k
    BY <1>2, <2>1 DEF EntryFollows
  <2>3. a # 1 /\ t[a].of = t[1].of
    BY <1>1, <2>2
  <2>4. t[a].do # w
    BY <1>1, <2>3 DEF EntryFollows
  <2> QED BY <2>2, <2>4
<1>3. ~Due(Tail(t), k, w)
  <2>1. SUFFICES ASSUME NEW a \in DOMAIN Tail(t), Tail(t)[a].do = w, Tail(t)[a].of = k PROVE FALSE
    BY DEF Due
  <2>2. a \in Nat /\ a + 1 \in DOMAIN t /\ t[a + 1] = Tail(t)[a] /\ a \in 1 .. Len(t) - 1 /\ Len(t) \in Nat
    BY FirstStep
  <2>3. a + 1 # 1
    BY <2>2
  <2> QED BY <1>1, <2>1, <2>2, <2>3 DEF EntryFollows
<1> QED BY <1>1, <1>2, <1>3 DEF Due

\* Where a call may be refused nothing is due.
LEMMA NothingDueAtEnd ==
  ASSUME NEW t, IsSeq(t), t # <<>>, NEW w, NEW kind, NEW M, EntryIsSure(t, kind, M, w), MayEnd(t[1], kind, M), t[1].do # w, NEW k
  PROVE  ~Due(t, k, w)
<1> SUFFICES ASSUME NEW a \in DOMAIN t, t[a].do = w, t[a].of = k PROVE \E m \in DOMAIN t : t[m].do \in Telling /\ t[m].of = k
  BY DEF Due
<1>1. 1 \in DOMAIN t /\ a > 1
  <2>1. 1 \in DOMAIN t /\ a \in Nat /\ a >= 1
    BY FirstStep
  <2>2. a # 1
    OBVIOUS
  <2> QED BY <2>1, <2>2
<1> QED BY <1>1 DEF EntryIsSure


-----------------------------------------------------------------------------
(* A program that keeps its logs goes on keeping them *)

LEMMA FewerMissing ==
  ASSUME NEW s, NEW kind, NEW M, NEW N, N \subseteq M, MayEnd(s, kind, N)
  PROVE  MayEnd(s, kind, M)
BY DEF MayEnd

LEMMA LoggedTail ==
  ASSUME NEW rp, NEW t, IsSeq(t), t # <<>>, NEW kind, NEW M, NEW N, N \subseteq M, NEW w, IsLog(w), Logged(rp, t, kind, M, w)
  PROVE  Logged(rp, Tail(t), kind, N, w)
<1>1. /\ Len(t) \in Nat /\ 1 \in DOMAIN t /\ DOMAIN Tail(t) = 1 .. Len(t) - 1 /\ ToSet(Tail(t)) \subseteq ToSet(t)
      /\ \A n \in DOMAIN Tail(t) : n \in Nat /\ n >= 1 /\ n + 1 \in DOMAIN t /\ Tail(t)[n] = t[n + 1]
      /\ \A n \in DOMAIN t : n # 1 => n - 1 \in DOMAIN Tail(t) /\ Tail(t)[n - 1] = t[n]
      /\ \A n \in DOMAIN t : n \in Nat /\ n >= 1
  BY FirstStep, TailOf
<1>2. EntryFollows(Tail(t), w)
  <2>1. ASSUME NEW n \in DOMAIN Tail(t), Tail(t)[n].do \in Telling, Tail(t)[n].of \notin Unaudited
        PROVE  \E a \in DOMAIN Tail(t) : a > n /\ Tail(t)[a].do = w /\ Tail(t)[a].of = Tail(t)[n].of
    <3>1. PICK a \in DOMAIN t : a > n + 1 /\ t[a].do = w /\ t[a].of = t[n + 1].of
      BY <1>1, <2>1 DEF Logged, EntryFollows
    <3>2. a # 1 /\ n \in Nat /\ a \in Nat
      BY <1>1, <3>1
    <3>3. a - 1 > n /\ a - 1 \in DOMAIN Tail(t) /\ Tail(t)[a - 1] = t[a] /\ Tail(t)[n] = t[n + 1]
      BY <1>1, <3>1, <3>2
    <3> QED BY <3>1, <3>3
  <2>2. ASSUME NEW n \in DOMAIN Tail(t), NEW m \in DOMAIN Tail(t), m # n, Tail(t)[m].of = Tail(t)[n].of
        PROVE  /\ Tail(t)[n].do \in Telling => Tail(t)[m].do \notin Telling
               /\ Tail(t)[n].do = w => Tail(t)[m].do # w
               /\ Tail(t)[n].do \in Ensuring \cup {"insertAudited"} => Tail(t)[m].do \notin Telling \cup Ensuring \cup {w}
    <3>1. n + 1 \in DOMAIN t /\ m + 1 \in DOMAIN t /\ m + 1 # n + 1 /\ Tail(t)[n] = t[n + 1] /\ Tail(t)[m] = t[m + 1]
      BY <1>1, <2>2
    <3> QED BY <2>2, <3>1 DEF Logged, EntryFollows
  <2> QED BY <2>1, <2>2 DEF EntryFollows
<1>3. EntryIsSure(Tail(t), kind, N, w)
  <2> SUFFICES ASSUME NEW n \in DOMAIN Tail(t), NEW a \in DOMAIN Tail(t), MayEnd(Tail(t)[n], kind, N), a > n, Tail(t)[a].do = w
               PROVE  \E m \in DOMAIN Tail(t) : n <= m /\ m < a /\ Tail(t)[m].do \in Telling /\ Tail(t)[m].of = Tail(t)[a].of
    BY DEF EntryIsSure
  <2>1. /\ n \in Nat /\ a \in Nat /\ n >= 1 /\ n + 1 \in DOMAIN t /\ a + 1 \in DOMAIN t /\ a + 1 > n + 1
        /\ Tail(t)[n] = t[n + 1] /\ Tail(t)[a] = t[a + 1]
    BY <1>1
  <2>2. MayEnd(t[n + 1], kind, M)
    BY <2>1, FewerMissing
  <2>3. PICK m \in DOMAIN t : n + 1 <= m /\ m < a + 1 /\ t[m].do \in Telling /\ t[m].of = t[a + 1].of
    BY <2>1, <2>2 DEF Logged, EntryIsSure
  <2>4. m \in Nat /\ m # 1
    BY <1>1, <2>1, <2>3
  <2>5. m - 1 \in DOMAIN Tail(t) /\ Tail(t)[m - 1] = t[m] /\ n <= m - 1 /\ m - 1 < a
    BY <1>1, <2>1, <2>3, <2>4
  <2> QED BY <2>1, <2>3, <2>5
<1>4. EntriesKnown(rp, Tail(t), kind, w)
  BY <1>1 DEF Logged, EntriesKnown
<1>5. ASSUME w = "writeJournal" PROVE JournalRead(Tail(t))
  <2> SUFFICES ASSUME NEW n \in DOMAIN Tail(t), Tail(t)[n].do = "writeJournal", n > 1 PROVE Tail(t)[n - 1].do = "readJournal"
    BY DEF JournalRead
  <2>1. n \in Nat /\ n + 1 \in DOMAIN t /\ Tail(t)[n] = t[n + 1] /\ n + 1 > 1 /\ n + 1 - 1 = n /\ n - 1 + 1 = n
    BY <1>1
  <2>2. t[n].do = "readJournal"
    BY <1>5, <2>1 DEF Logged, JournalRead
  <2>3. n \in DOMAIN t /\ n # 1
    BY <1>1, <2>1
  <2> QED BY <1>1, <2>2, <2>3
<1> QED BY <1>2, <1>3, <1>4, <1>5 DEF Logged

\* What one more step in front asks of the rest: a write's entry is there and no
\* other write of its row, and where the call may be refused nothing is due.
MayPrecede(rp, s, rest, kind, M) ==
  /\ s.do \in {"insert", "audit"}
  /\ s.do = "insert" => /\ s.of \in Unaudited \/ \E a \in DOMAIN rest : rest[a].do = "audit" /\ rest[a].of = s.of
                        /\ s.arg = None /\ ~MayEnd(s, kind, M)
                        /\ \A x \in ToSet(rest) : x.of = s.of => x.do \notin Telling
  /\ s.do = "audit" => s.of \notin Unaudited /\ Still(rp, s.of) /\ \A x \in ToSet(rest) : x.of = s.of => x.do # "audit"
  /\ \A x \in ToSet(rest) : /\ x.of = s.of => x.do \notin Ensuring \cup {"insertAudited"}
                            /\ x.do \notin {"reuse", "writeAudited"}

LEMMA LoggedMore ==
  ASSUME NEW rp, NEW t, IsSeq(t), t # <<>>, NEW kind, NEW M, Logged(rp, Tail(t), kind, M, "audit"), MayPrecede(rp, t[1], Tail(t), kind, M)
  PROVE  Logged(rp, t, kind, M, "audit")
<1> SUFFICES ASSUME NEW s, s = t[1], NEW w, w = "audit", MayPrecede(rp, s, Tail(t), kind, M), Logged(rp, Tail(t), kind, M, w)
             PROVE  Logged(rp, t, kind, M, w)
  OBVIOUS
<1>10. s.do \in {"insert", "audit"}
  BY DEF MayPrecede
<1>11. s.do = "insert" => s.of \in Unaudited \/ \E a \in DOMAIN Tail(t) : Tail(t)[a].do = w /\ Tail(t)[a].of = s.of
  <2>1. s.do = "insert" => s.of \in Unaudited \/ \E a \in DOMAIN Tail(t) : Tail(t)[a].do = "audit" /\ Tail(t)[a].of = s.of
    <3>1. PICK u : u = Tail(t)
      OBVIOUS
    <3>2. MayPrecede(rp, s, u, kind, M)
      BY <3>1
    <3>3. s.do = "insert" => s.of \in Unaudited \/ \E a \in DOMAIN u : u[a].do = "audit" /\ u[a].of = s.of
      BY <3>2 DEF MayPrecede
    <3> QED BY <3>1, <3>3
  <2> QED BY <2>1
<1>12. s.do = "insert" => s.arg = None /\ ~MayEnd(s, kind, M) /\ \A x \in ToSet(Tail(t)) : x.of = s.of => x.do \notin Telling
  BY DEF MayPrecede
<1>13. s.do = w => s.of \notin Unaudited /\ Still(rp, s.of) /\ \A x \in ToSet(Tail(t)) : x.of = s.of => x.do # w
  BY DEF MayPrecede
<1>14. \A x \in ToSet(Tail(t)) : /\ x.of = s.of => x.do \notin Ensuring \cup {"insertAudited"}
                                 /\ x.do \notin {"reuse", "writeAudited"}
  <2>1. PICK u : u = Tail(t)
    OBVIOUS
  <2>2. MayPrecede(rp, s, u, kind, M)
    BY <2>1
  <2>3. \A x \in ToSet(u) : /\ x.of = s.of => x.do \notin Ensuring \cup {"insertAudited"}
                            /\ x.do \notin {"reuse", "writeAudited"}
    BY <2>2 DEF MayPrecede
  <2> QED BY <2>1, <2>3
<1>0. /\ s.do \in {"insert", "audit"}
      /\ s.do = "insert" => /\ s.of \in Unaudited \/ \E a \in DOMAIN Tail(t) : Tail(t)[a].do = w /\ Tail(t)[a].of = s.of
                            /\ s.arg = None /\ ~MayEnd(s, kind, M)
                            /\ \A x \in ToSet(Tail(t)) : x.of = s.of => x.do \notin Telling
      /\ s.do = w => s.of \notin Unaudited /\ Still(rp, s.of) /\ \A x \in ToSet(Tail(t)) : x.of = s.of => x.do # w
      /\ \A x \in ToSet(Tail(t)) : /\ x.of = s.of => x.do \notin Ensuring \cup {"insertAudited"}
                                   /\ x.do \notin {"reuse", "writeAudited"}
  BY <1>10, <1>11, <1>12, <1>13, <1>14
<1>1. /\ Len(t) \in Nat /\ 1 \in DOMAIN t /\ DOMAIN Tail(t) = 1 .. Len(t) - 1
      /\ \A n \in DOMAIN Tail(t) : n \in Nat /\ n >= 1 /\ n + 1 \in DOMAIN t /\ Tail(t)[n] = t[n + 1] /\ Tail(t)[n] \in ToSet(Tail(t))
      /\ \A n \in DOMAIN t : n # 1 => n - 1 \in DOMAIN Tail(t) /\ Tail(t)[n - 1] = t[n]
      /\ \A n \in DOMAIN t : n \in Nat /\ n >= 1
  BY FirstStep, TailOf DEF ToSet
<1>2. /\ s.do \notin Ensuring \cup Writing \cup {"insertAudited", "reuse", "writeJournal"} /\ (s.do \in Telling => s.do = "insert")
      /\ s.do = "insert" => s.do # w
  BY <1>0 DEF Ensuring, Writing, Telling
<1>3. EntryFollows(t, w)
  <2>1. ASSUME NEW n \in DOMAIN t, t[n].do \in Telling, t[n].of \notin Unaudited
        PROVE  \E a \in DOMAIN t : a > n /\ t[a].do = w /\ t[a].of = t[n].of
    <3>1. CASE n = 1
      <4>1. PICK a \in DOMAIN Tail(t) : Tail(t)[a].do = w /\ Tail(t)[a].of = s.of
        BY <1>0, <1>2, <2>1, <3>1
      <4>2. a + 1 \in DOMAIN t /\ a + 1 > 1 /\ t[a + 1] = Tail(t)[a]
        BY <1>1
      <4> QED BY <3>1, <4>1, <4>2
    <3>2. CASE n # 1
      <4>1. n - 1 \in DOMAIN Tail(t) /\ Tail(t)[n - 1] = t[n]
        BY <1>1, <3>2
      <4>2. PICK a \in DOMAIN Tail(t) : a > n - 1 /\ Tail(t)[a].do = w /\ Tail(t)[a].of = Tail(t)[n - 1].of
        BY <2>1, <4>1 DEF Logged, EntryFollows
      <4>3. a + 1 \in DOMAIN t /\ a + 1 > n /\ t[a + 1] = Tail(t)[a]
        BY <1>1, <4>2
      <4> QED BY <4>1, <4>2, <4>3
    <3> QED BY <3>1, <3>2
  <2>2. ASSUME NEW n \in DOMAIN t, NEW m \in DOMAIN t, m # n, t[m].of = t[n].of
        PROVE  /\ t[n].do \in Telling => t[m].do \notin Telling
               /\ t[n].do = w => t[m].do # w
               /\ t[n].do \in Ensuring \cup {"insertAudited"} => t[m].do \notin Telling \cup Ensuring \cup {w}
    <3>1. CASE n = 1
      <4>1. m - 1 \in DOMAIN Tail(t) /\ Tail(t)[m - 1] = t[m] /\ t[m] \in ToSet(Tail(t))
        BY <1>1, <2>2, <3>1
      <4> QED BY <1>0, <1>2, <2>2, <3>1, <4>1
    <3>2. CASE m = 1
      <4>1. n - 1 \in DOMAIN Tail(t) /\ Tail(t)[n - 1] = t[n] /\ t[n] \in ToSet(Tail(t)) /\ t[n].of = s.of
        BY <1>1, <2>2, <3>2
      <4> QED BY <1>0, <1>2, <3>2, <4>1
    <3>3. CASE n # 1 /\ m # 1
      <4>1. /\ m - 1 \in DOMAIN Tail(t) /\ Tail(t)[m - 1] = t[m] /\ n - 1 \in DOMAIN Tail(t) /\ Tail(t)[n - 1] = t[n]
            /\ m - 1 # n - 1
        BY <1>1, <2>2, <3>3
      <4> QED BY <2>2, <4>1 DEF Logged, EntryFollows
    <3> QED BY <3>1, <3>2, <3>3
  <2> QED BY <2>1, <2>2 DEF EntryFollows
<1>4. EntryIsSure(t, kind, M, w)
  <2> SUFFICES ASSUME NEW n \in DOMAIN t, NEW a \in DOMAIN t, MayEnd(t[n], kind, M), a > n, t[a].do = w
               PROVE  \E m \in DOMAIN t : n <= m /\ m < a /\ t[m].do \in Telling /\ t[m].of = t[a].of
    BY DEF EntryIsSure
  <2>1. n # 1
    <3>1. ~MayEnd(s, kind, M)
      BY <1>0 DEF MayEnd, Inserting, Ensuring
    <3> QED BY <3>1
  <2>2. a # 1
    BY <1>1, <2>1
  <2>3. n - 1 \in DOMAIN Tail(t) /\ Tail(t)[n - 1] = t[n] /\ a - 1 \in DOMAIN Tail(t) /\ Tail(t)[a - 1] = t[a] /\ a - 1 > n - 1
    BY <1>1, <2>1, <2>2
  <2>4. PICK m \in DOMAIN Tail(t) : n - 1 <= m /\ m < a - 1 /\ Tail(t)[m].do \in Telling /\ Tail(t)[m].of = Tail(t)[a - 1].of
    BY <2>3 DEF Logged, EntryIsSure
  <2>5. m \in Nat /\ n \in Nat /\ a \in Nat /\ m + 1 \in DOMAIN t /\ t[m + 1] = Tail(t)[m]
    BY <1>1
  <2>6. n <= m + 1 /\ m + 1 < a
    BY <2>4, <2>5
  <2> QED BY <2>3, <2>4, <2>5, <2>6
<1>5. EntriesKnown(rp, t, kind, w)
  <2>1. ASSUME NEW x \in ToSet(t) PROVE x = s \/ x \in ToSet(Tail(t))
    <3>1. PICK n \in DOMAIN t : x = t[n]
      BY DEF ToSet
    <3> QED BY <1>1, <3>1
  <2> SUFFICES ASSUME NEW x \in ToSet(t)
        PROVE  /\ x.do = w => x.of \notin Unaudited /\ (x.of = kind \/ (w = "audit" /\ Still(rp, x.of)))
               /\ x.do \in Writing => ~Still(rp, kind)
               /\ x.do \in Writing \cup {"reuse"} => x.of = kind
               /\ x.do = "writeStatus" => x.arg = None
               /\ x.do \in Inserting /\ x.arg # None => x.arg \in Unaudited
               /\ x.do \in Ensuring => x.of # kind
               /\ x.do = "ensure" => x.of \in Unaudited
               /\ x.do = "ensureAudited" => x.of \notin Unaudited /\ Still(rp, x.of)
               /\ x.do \in {"reuse", "writeAudited"} => \A y \in ToSet(t) : y.do \notin Telling \cup Ensuring \cup {w}
               /\ w = "writeJournal" => x.do \notin {"insertAudited", "writeAudited", "reuse"} \cup Ensuring
    BY DEF EntriesKnown
  <2>2. CASE x = s
    BY <1>0, <1>2, <2>2 DEF Inserting, Writing, Ensuring
  <2>3. CASE x \in ToSet(Tail(t))
    BY <1>0, <2>3 DEF Logged, EntriesKnown
  <2> QED BY <2>1, <2>2, <2>3
<1> QED BY <1>3, <1>4, <1>5 DEF Logged


-----------------------------------------------------------------------------
(* What a step does to a row and its log *)

Logs == IF mode = "serial" THEN LogsOf(repo) ELSE {"audit"}
LogOf(row, w) == IF w = "audit" THEN row.trail ELSE row.journal

StatusOwed(r, k) == IF k = r.kind THEN r.to ELSE "active"

\* The call is the one that will enter status s of row i into the log.
Owes(r, i, s, w) == \E k \in DOMAIN r.names : Due(r.todo, k, w) /\ r.names[k] = i /\ s = StatusOwed(r, k)

\* Row a becomes b while call r becomes q: nothing happens to it, it is written,
\* its entry is made, or both at once.
Untouched(r, q, a, b, i, w) ==
  b.hist = a.hist /\ LogOf(b, w) = LogOf(a, w) /\ \A s : Owes(q, i, s, w) <=> Owes(r, i, s, w)
WrittenAs(r, q, a, b, i, w, x) ==
  /\ b.hist = Append(a.hist, x) /\ LogOf(b, w) = LogOf(a, w)
  /\ \A s : ~Owes(r, i, s, w) /\ (Owes(q, i, s, w) <=> s = x)
EnteredAs(r, q, a, b, i, w, x) ==
  /\ b.hist = a.hist /\ LogOf(b, w) = Append(LogOf(a, w), x)
  /\ \A s : ~Owes(q, i, s, w) /\ (Owes(r, i, s, w) <=> s = x)
BothAs(r, q, a, b, i, w, x) ==
  /\ b.hist = Append(a.hist, x) /\ LogOf(b, w) = Append(LogOf(a, w), x)
  /\ \A s : ~Owes(q, i, s, w) /\ ~Owes(r, i, s, w)

Effect(r, q, a, b, i, w) ==
  \/ Untouched(r, q, a, b, i, w)
  \/ \E x : WrittenAs(r, q, a, b, i, w, x) \/ EnteredAs(r, q, a, b, i, w, x) \/ BothAs(r, q, a, b, i, w, x)

\* A row that is new.
NewEffect(q, b, i, w) ==
  \/ \E x : b.hist = <<x>> /\ LogOf(b, w) = <<>> /\ \A s : Owes(q, i, s, w) <=> s = x
  \/ b.hist = LogOf(b, w) /\ \A s : ~Owes(q, i, s, w)

RowsOK(t) ==
  /\ IsSeq(t)
  /\ \A i \in DOMAIN t : IsRow(t[i]) /\ IsSeq(t[i].hist) /\ IsSeq(t[i].trail) /\ IsSeq(t[i].journal)

Grew(t, u) ==
  /\ RowsOK(u) /\ DOMAIN t \subseteq DOMAIN u
  /\ \A i \in DOMAIN t : u[i].kind = t[i].kind /\ (u[i].status = t[i].status \/ ~Still(R, t[i].kind))

Effects(r, q, t, u) ==
  /\ Grew(t, u)
  /\ \A w \in Logs :
       /\ \A i \in DOMAIN t : t[i].kind \notin Unaudited => Effect(r, q, t[i], u[i], i, w)
       /\ \A i \in DOMAIN u \ DOMAIN t : u[i].kind \notin Unaudited => NewEffect(q, u[i], i, w)

\* How often a status was taken is how often it was entered, and who still owes an entry.
Owing(rq, i, s) == {c \in Slots : Owes(rq[c], i, s, "audit")}
Balanced(row, rq, i) == \A s : Times(row.hist, s) = Times(row.trail, s) + Cardinality(Owing(rq, i, s))

\* One call at a time the log lacks the last status at most.
LastDue(row, rq, i, w) ==
  /\ \A c \in Slots : \A s : Owes(rq[c], i, s, w) => row.hist = Append(LogOf(row, w), s)
  /\ (\A c \in Slots : \A s : ~Owes(rq[c], i, s, w)) => row.hist = LogOf(row, w)

Accounted(t, rq) ==
  \A i \in DOMAIN t : t[i].kind \notin Unaudited =>
    /\ Balanced(t[i], rq, i)
    /\ mode = "serial" => \A w \in Logs : LastDue(t[i], rq, i, w)

LEMMA TimesFinite ==
  ASSUME NEW h, IsSeq(h), NEW s
  PROVE  IsFiniteSet({n \in DOMAIN h : h[n] = s}) /\ Times(h, s) \in Nat
<1>1. Len(h) \in Nat /\ DOMAIN h = 1 .. Len(h)
  BY SeqOfAny DEF IsSeq
<1>2. IsFiniteSet(DOMAIN h)
  BY <1>1, FS_Interval
<1>3. IsFiniteSet({n \in DOMAIN h : h[n] = s})
  BY <1>2, FS_Subset
<1> QED BY <1>3, FS_CardinalityType DEF Times

Longer(h, x) == Append(h, x)

LEMMA TimesAppended ==
  ASSUME NEW h, IsSeq(h), NEW x, NEW g, g = Longer(h, x), NEW s
  PROVE  Times(h, s) \in Nat /\ Times(g, s) = Times(h, s) + (IF s = x THEN 1 ELSE 0)
<1>1. /\ Len(h) \in Nat /\ DOMAIN h = 1 .. Len(h) /\ DOMAIN g = 1 .. Len(h) + 1
      /\ \A i \in 1 .. Len(h) : g[i] = h[i]
      /\ g[Len(h) + 1] = x
  BY Appended DEF Longer
<1>2. PICK H, G : H = {n \in DOMAIN h : h[n] = s} /\ G = {n \in DOMAIN g : g[n] = s}
  OBVIOUS
<1>3. IsFiniteSet(H) /\ Times(h, s) = Cardinality(H) /\ Times(g, s) = Cardinality(G) /\ Cardinality(H) \in Nat
  BY <1>2, TimesFinite DEF Times
<1>4. CASE s = x
  <2>1. G = H \cup {Len(h) + 1}
    BY <1>1, <1>2, <1>4
  <2>2. Len(h) + 1 \notin H
    BY <1>1, <1>2
  <2>3. Cardinality(G) = Cardinality(H) + 1
    BY <1>3, <2>1, <2>2, FS_AddElement
  <2> QED BY <1>3, <1>4, <2>3
<1>5. CASE s # x
  <2>1. G = H
    BY <1>1, <1>2, <1>5
  <2> QED BY <1>3, <1>5, <2>1
<1> QED BY <1>4, <1>5

\* One call more or less owes the entry.
LEMMA OwingMoves ==
  ASSUME NEW rq, rq = [d \in Slots |-> rq[d]], NEW c \in Slots, NEW q, NEW rz, rz = [rq EXCEPT ![c] = q], NEW i, NEW s
  PROVE  /\ Cardinality(Owing(rq, i, s)) \in Nat /\ Cardinality(Owing(rz, i, s)) \in Nat
         /\ (Owes(q, i, s, "audit") <=> Owes(rq[c], i, s, "audit")) =>
              Cardinality(Owing(rz, i, s)) = Cardinality(Owing(rq, i, s))
         /\ Owes(q, i, s, "audit") /\ ~Owes(rq[c], i, s, "audit") =>
              Cardinality(Owing(rz, i, s)) = Cardinality(Owing(rq, i, s)) + 1
         /\ ~Owes(q, i, s, "audit") /\ Owes(rq[c], i, s, "audit") =>
              Cardinality(Owing(rq, i, s)) = Cardinality(Owing(rz, i, s)) + 1
<1>1. rz[c] = q /\ \A d \in Slots \ {c} : rz[d] = rq[d]
  OBVIOUS
<1>2. PICK A, B : A = Owing(rq, i, s) /\ B = Owing(rz, i, s)
  OBVIOUS
<1>3. IsFiniteSet(A)
  <2>1. A \subseteq Slots
    BY <1>2 DEF Owing
  <2> QED BY <2>1, SlotsAreFinite, FS_Subset
<1>4. IsFiniteSet(B)
  <2>1. B \subseteq Slots
    BY <1>2 DEF Owing
  <2> QED BY <2>1, SlotsAreFinite, FS_Subset
<1>5. Cardinality(A) \in Nat /\ Cardinality(B) \in Nat
  BY <1>3, <1>4, FS_CardinalityType
<1>6. \A d \in Slots \ {c} : d \in A <=> d \in B
  BY <1>1, <1>2 DEF Owing
<1>7. (c \in A <=> Owes(rq[c], i, s, "audit")) /\ (c \in B <=> Owes(q, i, s, "audit")) /\ A \subseteq Slots /\ B \subseteq Slots
  BY <1>1, <1>2 DEF Owing
<1>8. CASE Owes(q, i, s, "audit") <=> Owes(rq[c], i, s, "audit")
  <2>1. A = B
    BY <1>6, <1>7, <1>8
  <2> QED BY <1>2, <1>5, <1>8, <2>1
<1>9. CASE Owes(q, i, s, "audit") /\ ~Owes(rq[c], i, s, "audit")
  <2>1. B = A \cup {c} /\ c \notin A
    BY <1>6, <1>7, <1>9
  <2>2. Cardinality(B) = Cardinality(A) + 1
    BY <1>3, <2>1, FS_AddElement
  <2> QED BY <1>2, <1>5, <1>9, <2>2
<1>10. CASE ~Owes(q, i, s, "audit") /\ Owes(rq[c], i, s, "audit")
  <2>1. A = B \cup {c} /\ c \notin B
    BY <1>6, <1>7, <1>10
  <2>2. Cardinality(A) = Cardinality(B) + 1
    BY <1>4, <2>1, FS_AddElement
  <2> QED BY <1>2, <1>5, <1>10, <2>2
<1> QED BY <1>8, <1>9, <1>10

LEMMA EffectBalances ==
  ASSUME NEW rq, rq = [d \in Slots |-> rq[d]], NEW c \in Slots, NEW q, NEW rz, rz = [rq EXCEPT ![c] = q], NEW i,
         NEW a, IsSeq(a.hist), IsSeq(a.trail), NEW b, Effect(rq[c], q, a, b, i, "audit"), Balanced(a, rq, i)
  PROVE  Balanced(b, rz, i)
<1> SUFFICES ASSUME NEW s PROVE Times(b.hist, s) = Times(b.trail, s) + Cardinality(Owing(rz, i, s))
  BY DEF Balanced
<1>1. PICK m, n : m = Cardinality(Owing(rq, i, s)) /\ n = Cardinality(Owing(rz, i, s))
  OBVIOUS
<1>2. /\ m \in Nat /\ n \in Nat
      /\ (Owes(q, i, s, "audit") <=> Owes(rq[c], i, s, "audit")) => n = m
      /\ Owes(q, i, s, "audit") /\ ~Owes(rq[c], i, s, "audit") => n = m + 1
      /\ ~Owes(q, i, s, "audit") /\ Owes(rq[c], i, s, "audit") => m = n + 1
  BY <1>1, OwingMoves
<1>3. Times(a.hist, s) = Times(a.trail, s) + m /\ Times(a.hist, s) \in Nat /\ Times(a.trail, s) \in Nat
  BY <1>1, TimesFinite DEF Balanced
<1>4. CASE Untouched(rq[c], q, a, b, i, "audit")
  BY <1>1, <1>2, <1>3, <1>4 DEF Untouched, LogOf
<1>5. CASE \E x : WrittenAs(rq[c], q, a, b, i, "audit", x) \/ EnteredAs(rq[c], q, a, b, i, "audit", x) \/ BothAs(rq[c], q, a, b, i, "audit", x)
  <2>1. PICK x : WrittenAs(rq[c], q, a, b, i, "audit", x) \/ EnteredAs(rq[c], q, a, b, i, "audit", x) \/ BothAs(rq[c], q, a, b, i, "audit", x)
    BY <1>5
  <2>2. PICK o : o = IF s = x THEN 1 ELSE 0
    OBVIOUS
  <2>3. b.hist = Append(a.hist, x) => Times(b.hist, s) = Times(a.hist, s) + o
    <3>1. PICK h, g : h = a.hist /\ g = b.hist
      OBVIOUS
    <3>2. g = Longer(h, x) => Times(g, s) = Times(h, s) + o
      <4>1. IsSeq(h)
        BY <3>1
      <4> QED BY <2>2, <4>1, TimesAppended
    <3> QED BY <3>1, <3>2 DEF Longer
  <2>4. b.trail = Append(a.trail, x) => Times(b.trail, s) = Times(a.trail, s) + o
    <3>1. PICK h, g : h = a.trail /\ g = b.trail
      OBVIOUS
    <3>2. g = Longer(h, x) => Times(g, s) = Times(h, s) + o
      <4>1. IsSeq(h)
        BY <3>1
      <4> QED BY <2>2, <4>1, TimesAppended
    <3> QED BY <3>1, <3>2 DEF Longer
  <2>5. CASE WrittenAs(rq[c], q, a, b, i, "audit", x)
    <3>1. b.hist = Append(a.hist, x) /\ b.trail = a.trail /\ ~Owes(rq[c], i, s, "audit") /\ (Owes(q, i, s, "audit") <=> s = x)
      BY <2>5 DEF WrittenAs, LogOf
    <3>2. n = m + o
      BY <1>2, <2>2, <3>1
    <3> QED BY <1>1, <1>2, <1>3, <2>2, <2>3, <3>1, <3>2
  <2>6. CASE EnteredAs(rq[c], q, a, b, i, "audit", x)
    <3>1. b.hist = a.hist /\ b.trail = Append(a.trail, x) /\ ~Owes(q, i, s, "audit") /\ (Owes(rq[c], i, s, "audit") <=> s = x)
      BY <2>6 DEF EnteredAs, LogOf
    <3>2. m = n + o
      BY <1>2, <2>2, <3>1
    <3> QED BY <1>1, <1>2, <1>3, <2>2, <2>4, <3>1, <3>2
  <2>7. CASE BothAs(rq[c], q, a, b, i, "audit", x)
    <3>1. b.hist = Append(a.hist, x) /\ b.trail = Append(a.trail, x) /\ ~Owes(q, i, s, "audit") /\ ~Owes(rq[c], i, s, "audit")
      BY <2>7 DEF BothAs, LogOf
    <3>2. m = n
      BY <1>2, <3>1
    <3> QED BY <1>1, <1>2, <1>3, <2>2, <2>3, <2>4, <3>1, <3>2
  <2> QED BY <2>1, <2>5, <2>6, <2>7
<1> QED BY <1>4, <1>5 DEF Effect


LEMMA EffectOrders ==
  ASSUME NEW rq, rq = [d \in Slots |-> rq[d]], NEW c \in Slots, NEW q, NEW rz, rz = [rq EXCEPT ![c] = q], NEW i, NEW w,
         \A d \in Slots \ {c} : \A s : ~Owes(rq[d], i, s, w),
         NEW a, NEW b, Effect(rq[c], q, a, b, i, w), LastDue(a, rq, i, w)
  PROVE  LastDue(b, rz, i, w)
<1>1. rz[c] = q /\ \A d \in Slots \ {c} : rz[d] = rq[d]
  OBVIOUS
<1>2. /\ \A s : Owes(rq[c], i, s, w) => a.hist = Append(LogOf(a, w), s)
      /\ (\A s : ~Owes(rq[c], i, s, w)) => a.hist = LogOf(a, w)
  <2>1. (\A s : ~Owes(rq[c], i, s, w)) => \A d \in Slots : \A s : ~Owes(rq[d], i, s, w)
    OBVIOUS
  <2> QED BY <2>1 DEF LastDue
<1>3. SUFFICES /\ \A s : Owes(q, i, s, w) => b.hist = Append(LogOf(b, w), s)
               /\ (\A s : ~Owes(q, i, s, w)) => b.hist = LogOf(b, w)
  <2>1. ASSUME NEW d \in Slots, NEW s, Owes(rz[d], i, s, w) PROVE d = c
    BY <1>1, <2>1
  <2> QED BY <1>1, <2>1 DEF LastDue
<1>4. CASE Untouched(rq[c], q, a, b, i, w)
  BY <1>2, <1>4 DEF Untouched
<1>5. ASSUME NEW x, WrittenAs(rq[c], q, a, b, i, w, x)
      PROVE  /\ \A s : Owes(q, i, s, w) => b.hist = Append(LogOf(b, w), s)
             /\ (\A s : ~Owes(q, i, s, w)) => b.hist = LogOf(b, w)
  <2>1. /\ b.hist = Append(a.hist, x) /\ LogOf(b, w) = LogOf(a, w)
        /\ \A s : ~Owes(rq[c], i, s, w) /\ (Owes(q, i, s, w) <=> s = x)
    BY <1>5 DEF WrittenAs
  <2>2. a.hist = LogOf(a, w)
    BY <1>2, <2>1
  <2> QED BY <2>1, <2>2
<1>6. ASSUME NEW x, EnteredAs(rq[c], q, a, b, i, w, x)
      PROVE  /\ \A s : Owes(q, i, s, w) => b.hist = Append(LogOf(b, w), s)
             /\ (\A s : ~Owes(q, i, s, w)) => b.hist = LogOf(b, w)
  <2>1. /\ b.hist = a.hist /\ LogOf(b, w) = Append(LogOf(a, w), x)
        /\ \A s : ~Owes(q, i, s, w) /\ (Owes(rq[c], i, s, w) <=> s = x)
    BY <1>6 DEF EnteredAs
  <2>2. a.hist = Append(LogOf(a, w), x)
    BY <1>2, <2>1
  <2> QED BY <2>1, <2>2
<1>7. ASSUME NEW x, BothAs(rq[c], q, a, b, i, w, x)
      PROVE  /\ \A s : Owes(q, i, s, w) => b.hist = Append(LogOf(b, w), s)
             /\ (\A s : ~Owes(q, i, s, w)) => b.hist = LogOf(b, w)
  <2>1. /\ b.hist = Append(a.hist, x) /\ LogOf(b, w) = Append(LogOf(a, w), x)
        /\ \A s : ~Owes(q, i, s, w) /\ ~Owes(rq[c], i, s, w)
    BY <1>7 DEF BothAs
  <2>2. a.hist = LogOf(a, w)
    BY <1>2, <2>1
  <2> QED BY <2>1, <2>2
<1> QED BY <1>4, <1>5, <1>6, <1>7 DEF Effect

\* A new row, of which nobody owed an entry.
LEMMA NewRowAccounted ==
  ASSUME NEW rq, rq = [d \in Slots |-> rq[d]], NEW c \in Slots, NEW q, NEW rz, rz = [rq EXCEPT ![c] = q], NEW i, NEW w,
         \A d \in Slots : \A s : ~Owes(rq[d], i, s, w), NEW b, IsSeq(b.trail), NewEffect(q, b, i, w)
  PROVE  LastDue(b, rz, i, w) /\ (w = "audit" => Balanced(b, rz, i))
<1>1. rz[c] = q /\ \A d \in Slots \ {c} : rz[d] = rq[d]
  OBVIOUS
<1>2. ASSUME NEW d \in Slots, NEW s, Owes(rz[d], i, s, w) PROVE d = c /\ Owes(q, i, s, w)
  BY <1>1, <1>2
<1>3. CASE b.hist = LogOf(b, w) /\ \A s : ~Owes(q, i, s, w)
  <2>1. \A d \in Slots : \A s : ~Owes(rz[d], i, s, w)
    BY <1>2, <1>3
  <2>2. LastDue(b, rz, i, w)
    BY <1>3, <2>1 DEF LastDue
  <2>3. ASSUME w = "audit" PROVE Balanced(b, rz, i)
    <3> SUFFICES ASSUME NEW s PROVE Times(b.hist, s) = Times(b.trail, s) + Cardinality(Owing(rz, i, s))
      BY DEF Balanced
    <3>1. Owing(rz, i, s) = {}
      BY <2>1, <2>3 DEF Owing
    <3>2. Cardinality(Owing(rz, i, s)) = 0
      BY <3>1, FS_EmptySet
    <3>3. b.hist = b.trail
      BY <1>3, <2>3 DEF LogOf
    <3>4. Times(b.trail, s) \in Nat
      BY TimesFinite
    <3> QED BY <3>2, <3>3, <3>4
  <2> QED BY <2>2, <2>3
<1>4. ASSUME NEW x, b.hist = <<x>>, LogOf(b, w) = <<>>, \A s : Owes(q, i, s, w) <=> s = x
      PROVE  LastDue(b, rz, i, w) /\ (w = "audit" => Balanced(b, rz, i))
  <2>1. Owes(rz[c], i, x, w)
    BY <1>1, <1>4
  <2>2. LastDue(b, rz, i, w)
    <3>1. <<x>> = Append(<<>>, x)
      OBVIOUS
    <3> QED BY <1>2, <1>4, <2>1, <3>1 DEF LastDue
  <2>3. ASSUME w = "audit" PROVE Balanced(b, rz, i)
    <3> SUFFICES ASSUME NEW s PROVE Times(b.hist, s) = Times(b.trail, s) + Cardinality(Owing(rz, i, s))
      BY DEF Balanced
    <3>1. b.trail = <<>> /\ Times(b.trail, s) = 0
      <4>1. b.trail = <<>>
        BY <1>4, <2>3 DEF LogOf
      <4>2. {n \in DOMAIN b.trail : b.trail[n] = s} = {}
        BY <4>1
      <4> QED BY <4>1, <4>2, FS_EmptySet DEF Times
    <3>2. CASE s = x
      <4>1. Owing(rz, i, s) = {c}
        BY <1>1, <1>2, <1>4, <2>3, <3>2 DEF Owing
      <4>2. {n \in DOMAIN b.hist : b.hist[n] = s} = {1}
        BY <1>4, <3>2
      <4>3. Cardinality(Owing(rz, i, s)) = 1 /\ Times(b.hist, s) = 1
        BY <4>1, <4>2, FS_Singleton DEF Times
      <4> QED BY <3>1, <4>3
    <3>3. CASE s # x
      <4>1. Owing(rz, i, s) = {}
        BY <1>2, <1>4, <2>3, <3>3 DEF Owing
      <4>2. {n \in DOMAIN b.hist : b.hist[n] = s} = {}
        BY <1>4, <3>3
      <4>3. Cardinality(Owing(rz, i, s)) = 0 /\ Times(b.hist, s) = 0
        BY <4>1, <4>2, FS_EmptySet DEF Times
      <4> QED BY <3>1, <4>3
    <3> QED BY <3>2, <3>3
  <2> QED BY <2>2, <2>3
<1> QED BY <1>3, <1>4 DEF NewEffect


-----------------------------------------------------------------------------
(* The invariant of the logs *)

MissingOf(names) == {k \in DOMAIN names : names[k] = Missing}

\* The row of kind k is there, and the entry can still be read off it.
HasRow(r, k, t) ==
  k \in DOMAIN r.names /\ r.names[k] \in DOMAIN t /\ (k = r.kind \/ t[r.names[k]].status = "active")

OwnRow(r, t) ==
  IF r.kind \in DOMAIN r.names THEN r.names[r.kind] \in DOMAIN t ELSE WrittenWhenThere(r.todo, r.kind)

KeepsLog(r, t, w) ==
  Logged(R, r.todo, r.kind, MissingOf(r.names), w) /\ \A k : Due(r.todo, k, w) => HasRow(r, k, t)

\* The number a journal entry will get is the next one still.
JournalKnown(r, t) ==
  "writeJournal" \in Logs /\ 1 \in DOMAIN r.todo /\ r.todo[1].do = "writeJournal"
    => r.count = Len(t[r.names[r.kind]].journal)

LogsOK(r, t) ==
  /\ IsCall(r) /\ IsSeq(r.todo) /\ NamesOK(r.names, t) /\ OwnRow(r, t)
  /\ \A w \in Logs : KeepsLog(r, t, w)
  /\ JournalKnown(r, t)

TrailInv ==
  /\ repo \in DOMAIN Repositories /\ failures \in Nat
  /\ RowsOK(rows) /\ req = [c \in Slots |-> req[c]]
  /\ \A c \in Slots : req[c] # Idle => LogsOK(req[c], rows)
  /\ failures = 0 => Accounted(rows, req)

LEMMA IdleOwesNothing == \A i, s, w : ~Owes(Idle, i, s, w)
BY DEF Owes, Due, Idle

LEMMA RowIds ==
  ASSUME NEW t, RowsOK(t)
  PROVE  Len(t) \in Nat /\ DOMAIN t = 1 .. Len(t) /\ DOMAIN t \subseteq Nat /\ Missing \notin DOMAIN t
BY SeqOfAny, MissingAssumption DEF RowsOK, IsSeq

\* A call owes entries of rows that are there.
LEMMA OwedRowIsThere ==
  ASSUME NEW r, NEW t, NEW w \in Logs, KeepsLog(r, t, w), NEW i, NEW s, Owes(r, i, s, w)
  PROVE  i \in DOMAIN t
BY DEF Owes, KeepsLog, HasRow

\* What another call does leaves a call what it needs.
LEMMA OthersGoOn ==
  ASSUME NEW r, NEW t, LogsOK(r, t), RowsOK(t), NEW u, Grew(t, u), mode # "serial"
  PROVE  LogsOK(r, u)
<1>1. NamesOK(r.names, u)
  <2>1. Missing \notin DOMAIN u
    BY RowIds DEF Grew
  <2>2. ASSUME NEW k \in DOMAIN r.names
        PROVE  r.names[k] \in DOMAIN u \cup {Missing} /\ (r.names[k] \in DOMAIN u => u[r.names[k]].kind = k)
    <3>1. r.names[k] \in DOMAIN t \cup {Missing} /\ (r.names[k] \in DOMAIN t => t[r.names[k]].kind = k)
      BY <2>2 DEF LogsOK, NamesOK
    <3> QED BY <2>1, <3>1 DEF Grew
  <2> QED BY <2>2 DEF LogsOK, NamesOK
<1>2. OwnRow(r, u)
  BY DEF LogsOK, OwnRow, Grew
<1>3. ASSUME NEW w \in Logs PROVE KeepsLog(r, u, w)
  <2>1. KeepsLog(r, t, w)
    BY DEF LogsOK
  <2> SUFFICES ASSUME NEW k, Due(r.todo, k, w) PROVE HasRow(r, k, u)
    BY <2>1 DEF KeepsLog
  <2>2. HasRow(r, k, t)
    BY <2>1 DEF KeepsLog
  <2>3. k # r.kind => Still(R, k)
    BY <2>1 DEF KeepsLog, Logged, EntriesKnown, Due, ToSet
  <2>4. t[r.names[k]].kind = k
    BY <2>2 DEF LogsOK, NamesOK, HasRow
  <2> QED BY <2>2, <2>3, <2>4 DEF HasRow, Grew
<1>4. JournalKnown(r, u)
  BY DEF JournalKnown, Logs
<1> QED BY <1>1, <1>2, <1>3, <1>4 DEF LogsOK

\* The repository and the mode of a behaviour stay the same.
LEMMA SameLogs ==
  ASSUME UNCHANGED frozen
  PROVE  /\ R' = R /\ mode' = mode /\ repo' = repo /\ Logs' = Logs
         /\ \A c \in Slots : LogsOK(req'[c], rows') => LogsOK(req[c], rows)'
         /\ Accounted(rows', req') => Accounted(rows, req)'
<1>1. R' = R /\ mode' = mode /\ repo' = repo /\ Logs' = Logs
  BY DEF frozen, R, Logs
<1>2. ASSUME NEW c \in Slots, LogsOK(req'[c], rows') PROVE LogsOK(req[c], rows)'
  <2>1. \A w \in Logs : KeepsLog(req'[c], rows', w) => KeepsLog(req[c], rows, w)'
    BY <1>1 DEF KeepsLog, HasRow
  <2>2. (\A w \in Logs : KeepsLog(req'[c], rows', w)) => (\A w \in Logs : KeepsLog(req[c], rows, w))'
    BY <1>1 DEF KeepsLog, HasRow
  <2>3. JournalKnown(req'[c], rows') => JournalKnown(req[c], rows)'
    BY <1>1 DEF JournalKnown
  <2> QED BY <1>2, <2>2, <2>3 DEF LogsOK, NamesOK, OwnRow
<1>3. Accounted(rows', req') => Accounted(rows, req)'
  BY <1>1 DEF Accounted, Balanced, LastDue, Owing
<1> QED BY <1>1, <1>2, <1>3

\* Whoever acts: enough that the step is accounted for and leaves the call in order.
LEMMA StepIsAccounted ==
  ASSUME TrailInv, UNCHANGED frozen, failures' = failures, NEW c \in Slots,
         mode = "serial" => \A d \in Slots \ {c} : req[d] = Idle,
         NEW q, req' = [req EXCEPT ![c] = q], q # Idle => LogsOK(q, rows'), Effects(req[c], q, rows, rows')
  PROVE  TrailInv'
<1>1. /\ req' = [d \in Slots |-> req'[d]] /\ req'[c] = q /\ \A d \in Slots \ {c} : req'[d] = req[d]
      /\ req = [d \in Slots |-> req[d]]
  BY DEF TrailInv
<1>2. RowsOK(rows) /\ Grew(rows, rows') /\ RowsOK(rows')
  BY DEF TrailInv, Effects, Grew
<1>3. ASSUME NEW d \in Slots, req'[d] # Idle PROVE LogsOK(req'[d], rows')
  <2>1. CASE d = c
    BY <1>1, <1>3, <2>1
  <2>2. CASE d # c
    <3>1. req[d] = req'[d] /\ LogsOK(req[d], rows) /\ mode # "serial"
      BY <1>1, <1>3, <2>2 DEF TrailInv
    <3> QED BY <1>2, <3>1, OthersGoOn
  <2> QED BY <2>1, <2>2
<1>4. ASSUME failures = 0 PROVE Accounted(rows', req')
  <2> SUFFICES ASSUME NEW i \in DOMAIN rows', rows'[i].kind \notin Unaudited
               PROVE  /\ Balanced(rows'[i], req', i)
                      /\ mode = "serial" => \A w \in Logs : LastDue(rows'[i], req', i, w)
    BY DEF Accounted
  <2>1. "audit" \in Logs
    BY DEF Logs, LogsOf
  <2>2. CASE i \in DOMAIN rows
    <3>1. rows[i].kind \notin Unaudited /\ IsSeq(rows[i].hist) /\ IsSeq(rows[i].trail)
      BY <1>2, <2>2 DEF Grew, RowsOK
    <3>2. /\ Balanced(rows[i], req, i)
          /\ mode = "serial" => \A w \in Logs : LastDue(rows[i], req, i, w)
      BY <1>4, <2>2, <3>1 DEF TrailInv, Accounted
    <3>3. \A w \in Logs : Effect(req[c], q, rows[i], rows'[i], i, w)
      BY <2>2, <3>1 DEF Effects
    <3>4. Balanced(rows'[i], req', i)
      <4>1. Effect(req[c], q, rows[i], rows'[i], i, "audit")
        BY <2>1, <3>3
      <4> QED BY <1>1, <3>1, <3>2, <4>1, EffectBalances
    <3>5. ASSUME mode = "serial", NEW w \in Logs PROVE LastDue(rows'[i], req', i, w)
      <4>1. \A d \in Slots \ {c} : \A s : ~Owes(req[d], i, s, w)
        BY <3>5, IdleOwesNothing
      <4>2. Effect(req[c], q, rows[i], rows'[i], i, w) /\ LastDue(rows[i], req, i, w)
        BY <3>2, <3>3, <3>5
      <4> QED BY <1>1, <4>1, <4>2, EffectOrders
    <3> QED BY <3>4, <3>5
  <2>3. CASE i \notin DOMAIN rows
    <3>1. ASSUME NEW w \in Logs PROVE LastDue(rows'[i], req', i, w) /\ (w = "audit" => Balanced(rows'[i], req', i))
      <4>1. NewEffect(q, rows'[i], i, w)
        BY <2>3 DEF Effects
      <4>2. ASSUME NEW d \in Slots, NEW s, Owes(req[d], i, s, w) PROVE FALSE
        <5>1. req[d] # Idle
          BY <4>2, IdleOwesNothing
        <5>2. KeepsLog(req[d], rows, w)
          BY <5>1 DEF TrailInv, LogsOK
        <5> QED BY <2>3, <4>2, <5>2, OwedRowIsThere
      <4>3. IsSeq(rows'[i].trail)
        BY <1>2 DEF RowsOK
      <4> QED BY <1>1, <4>1, <4>2, <4>3, NewRowAccounted
    <3> QED BY <2>1, <3>1
  <2> QED BY <2>2, <2>3
<1>5. (\A d \in Slots : req[d] # Idle => LogsOK(req[d], rows))'
  BY <1>3, SameLogs DEF Idle
<1>6. RowsOK(rows)'
  BY <1>2 DEF RowsOK
<1>7. (failures = 0 => Accounted(rows, req))'
  BY <1>4, SameLogs
<1>8. (repo \in DOMAIN Repositories /\ failures \in Nat)'
  BY SameLogs DEF TrailInv
<1> QED BY <1>1, <1>5, <1>6, <1>7, <1>8 DEF TrailInv


-----------------------------------------------------------------------------
(* How a call goes on and ends *)

\* Nothing that a log is about is changed.
LogsAlike(a, b) ==
  /\ IsRow(b) /\ b.kind = a.kind /\ b.status = a.status /\ b.hist = a.hist /\ IsSeq(b.trail) /\ IsSeq(b.journal)
  /\ \A w \in Logs : LogOf(b, w) = LogOf(a, w)
TablesAlike(t, u) == IsSeq(u) /\ DOMAIN u = DOMAIN t /\ \A i \in DOMAIN t : LogsAlike(t[i], u[i])

\* Two calls owe the same entries.
OweAlike(r, q) == \A i, s : \A w \in Logs : Owes(q, i, s, w) <=> Owes(r, i, s, w)

LEMMA LogsKnown == /\ "audit" \in Logs /\ \A w \in Logs : IsLog(w)
                   /\ mode # "serial" => "writeJournal" \notin Logs
BY DEF Logs, LogsOf, IsLog

LEMMA SameTable ==
  ASSUME NEW t, RowsOK(t)
  PROVE  TablesAlike(t, t)
BY DEF RowsOK, TablesAlike, LogsAlike

LEMMA AlikeRowsOK ==
  ASSUME NEW t, RowsOK(t), NEW u, TablesAlike(t, u)
  PROVE  RowsOK(u) /\ Grew(t, u)
BY DEF RowsOK, TablesAlike, LogsAlike, Grew

LEMMA QuietEffects ==
  ASSUME NEW t, RowsOK(t), NEW u, TablesAlike(t, u), NEW r, NEW q, OweAlike(r, q)
  PROVE  Effects(r, q, t, u)
<1>1. Grew(t, u) /\ DOMAIN u \ DOMAIN t = {}
  BY AlikeRowsOK DEF TablesAlike
<1>2. ASSUME NEW w \in Logs, NEW i \in DOMAIN t PROVE Effect(r, q, t[i], u[i], i, w)
  BY DEF TablesAlike, LogsAlike, OweAlike, Effect, Untouched
<1> QED BY <1>1, <1>2 DEF Effects

LEMMA EffectsAlike ==
  ASSUME NEW r, NEW q, NEW t, NEW u, Effects(r, q, t, u), NEW z, OweAlike(q, z), NEW v, TablesAlike(u, v)
  PROVE  Effects(r, z, t, v)
<1>1. Grew(t, u) /\ RowsOK(u) /\ DOMAIN v = DOMAIN u /\ RowsOK(v) /\ DOMAIN t \subseteq DOMAIN u
  BY AlikeRowsOK DEF Effects, Grew, TablesAlike
<1>2. Grew(t, v)
  BY <1>1 DEF Grew, TablesAlike, LogsAlike
<1>3. ASSUME NEW w \in Logs, NEW i \in DOMAIN u PROVE /\ v[i].hist = u[i].hist /\ LogOf(v[i], w) = LogOf(u[i], w) /\ v[i].kind = u[i].kind
                                                      /\ \A s : Owes(z, i, s, w) <=> Owes(q, i, s, w)
  BY DEF TablesAlike, LogsAlike, OweAlike
<1>4. ASSUME NEW w \in Logs, NEW i \in DOMAIN t, t[i].kind \notin Unaudited PROVE Effect(r, z, t[i], v[i], i, w)
  <2>1. Effect(r, q, t[i], u[i], i, w)
    BY <1>4 DEF Effects
  <2>2. i \in DOMAIN u
    BY <1>1
  <2>3. CASE Untouched(r, q, t[i], u[i], i, w)
    BY <1>3, <2>2, <2>3 DEF Untouched, Effect
  <2>4. ASSUME NEW x, WrittenAs(r, q, t[i], u[i], i, w, x) PROVE WrittenAs(r, z, t[i], v[i], i, w, x)
    BY <1>3, <2>2, <2>4 DEF WrittenAs
  <2>5. ASSUME NEW x, EnteredAs(r, q, t[i], u[i], i, w, x) PROVE EnteredAs(r, z, t[i], v[i], i, w, x)
    BY <1>3, <2>2, <2>5 DEF EnteredAs
  <2>6. ASSUME NEW x, BothAs(r, q, t[i], u[i], i, w, x) PROVE BothAs(r, z, t[i], v[i], i, w, x)
    BY <1>3, <2>2, <2>6 DEF BothAs
  <2> QED BY <2>1, <2>3, <2>4, <2>5, <2>6 DEF Effect
<1>5. ASSUME NEW w \in Logs, NEW i \in DOMAIN v \ DOMAIN t, v[i].kind \notin Unaudited PROVE NewEffect(z, v[i], i, w)
  <2>1. i \in DOMAIN u \ DOMAIN t /\ u[i].kind \notin Unaudited
    BY <1>1, <1>3, <1>5
  <2>2. NewEffect(q, u[i], i, w)
    BY <2>1 DEF Effects
  <2> QED BY <1>3, <2>1, <2>2 DEF NewEffect
<1> QED BY <1>2, <1>4, <1>5 DEF Effects

\* When the journal is about to be written, the entry that is due is the call's own.
LEMMA JournalRow ==
  ASSUME NEW r, NEW t, IsSeq(r.todo), \A w \in Logs : KeepsLog(r, t, w), "writeJournal" \in Logs,
         1 \in DOMAIN r.todo, r.todo[1].do = "writeJournal"
  PROVE  r.todo[1].of = r.kind /\ Due(r.todo, r.kind, "writeJournal") /\ HasRow(r, r.kind, t) /\ r.kind \notin Unaudited
<1>1. KeepsLog(r, t, "writeJournal")
  OBVIOUS
<1>2. r.todo[1] \in ToSet(r.todo) /\ r.todo # <<>>
  BY DEF ToSet
<1>3. r.todo[1].of = r.kind /\ r.kind \notin Unaudited
  BY <1>1, <1>2 DEF KeepsLog, Logged, EntriesKnown
<1>4. EntryFollows(r.todo, "writeJournal") /\ IsLog("writeJournal")
  BY <1>1 DEF KeepsLog, Logged, IsLog
<1>5. Due(r.todo, r.kind, "writeJournal")
  BY <1>2, <1>3, <1>4, DueAfterEntry
<1> QED BY <1>1, <1>3, <1>5 DEF KeepsLog

LEMMA LogsOKAlike ==
  ASSUME NEW r, NEW t, LogsOK(r, t), NEW u, TablesAlike(t, u)
  PROVE  LogsOK(r, u)
<1>1. DOMAIN u = DOMAIN t /\ \A i \in DOMAIN t : u[i].kind = t[i].kind /\ u[i].status = t[i].status
  BY DEF TablesAlike, LogsAlike
<1>2. NamesOK(r.names, u)
  BY <1>1 DEF LogsOK, NamesOK
<1>3. OwnRow(r, u)
  BY <1>1 DEF LogsOK, OwnRow
<1>4. ASSUME NEW w \in Logs PROVE KeepsLog(r, u, w)
  BY <1>1 DEF LogsOK, KeepsLog, HasRow
<1>5. JournalKnown(r, u)
  <2> SUFFICES ASSUME "writeJournal" \in Logs, 1 \in DOMAIN r.todo, r.todo[1].do = "writeJournal"
               PROVE  r.count = Len(u[r.names[r.kind]].journal)
    BY DEF JournalKnown
  <2>1. r.count = Len(t[r.names[r.kind]].journal)
    BY DEF LogsOK, JournalKnown
  <2>2. r.names[r.kind] \in DOMAIN t
    BY JournalRow DEF LogsOK, HasRow
  <2>3. LogOf(u[r.names[r.kind]], "writeJournal") = LogOf(t[r.names[r.kind]], "writeJournal")
    BY <2>2 DEF TablesAlike, LogsAlike
  <2> QED BY <2>1, <2>3 DEF LogOf
<1> QED BY <1>2, <1>3, <1>4, <1>5 DEF LogsOK

LEMMA PutAlike ==
  ASSUME NEW t, RowsOK(t), NEW x, NEW r, x \in DOMAIN t => LogsAlike(t[x], r), NEW u, u = Put(t, x, r)
  PROVE  TablesAlike(t, u)
<1>1. IsSeq(t)
  BY DEF RowsOK
<1>2. CASE x \in DOMAIN t
  <2>1. IsSeq(u) /\ DOMAIN u = DOMAIN t /\ u[x] = r /\ \A i \in DOMAIN t \ {x} : u[i] = t[i]
    BY <1>1, <1>2, RowReplaced
  <2>2. \A i \in DOMAIN t : LogsAlike(t[i], t[i])
    BY SameTable DEF TablesAlike
  <2> QED BY <1>2, <2>1, <2>2 DEF TablesAlike
<1>3. CASE x \notin DOMAIN t
  <2>1. u = t
    BY <1>1, <1>3 DEF IsSeq, Put
  <2> QED BY <2>1, SameTable
<1> QED BY <1>2, <1>3

\* The call of slot c acts, and in serial mode there is no other.
Acts(c) == TrailInv /\ UNCHANGED <<frozen, failures>> /\ c \in Slots /\ (mode = "serial" => \A d \in Slots \ {c} : req[d] = Idle)

LEMMA GoAccounts ==
  ASSUME NEW c, Acts(c), NEW r, NEW q, q = After(r), IsCall(r), NEW table, Go(c, r, table),
         LogsOK(q, table), Effects(req[c], q, rows, table)
  PROVE  TrailInv'
<1>1. /\ q = [r EXCEPT !.todo = Tail(r.todo)] /\ q.todo = Tail(r.todo) /\ q.kind = r.kind /\ q.names = r.names
      /\ c \in Slots /\ TrailInv /\ UNCHANGED frozen /\ failures' = failures /\ RowsOK(table)
  BY DEF After, IsCall, Acts, Effects, Grew
<1>2. CASE Tail(r.todo) # <<>>
  <2>1. req' = [req EXCEPT ![c] = q] /\ rows' = table
    BY <1>1, <1>2 DEF Go
  <2> QED BY <1>1, <2>1, StepIsAccounted DEF Acts
<1>3. CASE Tail(r.todo) = <<>>
  <2>1. req' = [req EXCEPT ![c] = Idle]
    BY <1>3 DEF Go
  <2>2. OweAlike(q, Idle)
    BY <1>1, <1>3, IdleOwesNothing DEF OweAlike, Owes, Due
  <2>3. TablesAlike(table, rows')
    <3>1. CASE r.kind \notin DOMAIN r.names
      <4>1. rows' = table
        BY <1>3, <3>1 DEF Go
      <4> QED BY <1>1, <4>1, SameTable
    <3>2. CASE r.kind \in DOMAIN r.names
      <4>1. PICK x : x = r.names[r.kind]
        OBVIOUS
      <4>2. PICK b : b = (table[x].whole \/ r.op \in DOMAIN R.creates)
        OBVIOUS
      <4>3. PICK s : s = [table[x] EXCEPT !.whole = b]
        OBVIOUS
      <4>4. rows' = Put(table, x, s)
        BY <1>3, <3>2, <4>1, <4>2, <4>3 DEF Go, Put
      <4>5. x \in DOMAIN table => LogsAlike(table[x], s)
        BY <1>1, <4>3 DEF RowsOK, IsRow, LogsAlike, LogOf
      <4> QED BY <1>1, <4>4, <4>5, PutAlike
    <3> QED BY <3>1, <3>2
  <2>4. Effects(req[c], Idle, rows, rows')
    BY <2>2, <2>3, EffectsAlike
  <2> QED BY <1>1, <2>1, <2>4, StepIsAccounted DEF Acts
<1> QED BY <1>2, <1>3

\* What is known of a call that acts.
LEMMA ActsOn ==
  ASSUME NEW c, Acts(c), req[c].todo # <<>>
  PROVE  /\ c \in Slots /\ req[c] # Idle /\ LogsOK(req[c], rows) /\ RowsOK(rows) /\ IsCall(req[c]) /\ IsSeq(req[c].todo)
         /\ NamesOK(req[c].names, rows) /\ Step(c) = req[c].todo[1] /\ Step(c) \in ToSet(req[c].todo) /\ 1 \in DOMAIN req[c].todo
         /\ \A w \in Logs : Logged(R, req[c].todo, req[c].kind, MissingOf(req[c].names), w)
<1>1. c \in Slots /\ req[c] # Idle /\ RowsOK(rows)
  BY DEF Acts, TrailInv, Idle
<1>2. LogsOK(req[c], rows)
  BY <1>1 DEF Acts, TrailInv
<1>3. Step(c) = req[c].todo[1] /\ Step(c) \in ToSet(req[c].todo) /\ 1 \in DOMAIN req[c].todo
  BY <1>2, TailOf DEF LogsOK, Step
<1> QED BY <1>1, <1>2, <1>3 DEF LogsOK, KeepsLog

\* A call is refused where it owes nothing.
LEMMA EndAccounts ==
  ASSUME NEW c, Acts(c), req[c].todo # <<>>, End(c), MayEnd(Step(c), req[c].kind, MissingOf(req[c].names)), Step(c).do \notin Logs
  PROVE  TrailInv'
<1>1. /\ c \in Slots /\ RowsOK(rows) /\ IsSeq(req[c].todo) /\ Step(c) = req[c].todo[1]
      /\ \A w \in Logs : Logged(R, req[c].todo, req[c].kind, MissingOf(req[c].names), w)
  BY ActsOn
<1>2. ASSUME NEW w \in Logs, NEW k PROVE ~Due(req[c].todo, k, w)
  <2>1. EntryIsSure(req[c].todo, req[c].kind, MissingOf(req[c].names), w) /\ req[c].todo[1].do # w
    BY <1>1, <1>2 DEF Logged
  <2> QED BY <1>1, <2>1, NothingDueAtEnd
<1>3. OweAlike(req[c], Idle)
  BY <1>2, IdleOwesNothing DEF OweAlike, Owes
<1>4. req' = [req EXCEPT ![c] = Idle] /\ rows' = rows
  BY DEF End
<1>5. Effects(req[c], Idle, rows, rows')
  BY <1>1, <1>3, <1>4, SameTable, QuietEffects
<1> QED BY <1>1, <1>4, <1>5, StepIsAccounted DEF Acts


-----------------------------------------------------------------------------
(* The awaits that no log is about *)

LEMMA OweSame ==
  ASSUME NEW r, NEW q, q.kind = r.kind, q.to = r.to, NEW i, NEW w,
         \A k : k \in DOMAIN q.names /\ Due(q.todo, k, w) /\ q.names[k] = i
                  <=> k \in DOMAIN r.names /\ Due(r.todo, k, w) /\ r.names[k] = i
  PROVE  \A s : Owes(q, i, s, w) <=> Owes(r, i, s, w)
BY DEF Owes, StatusOwed

\* The rest of a call keeps its logs.
LEMMA LoggedRest ==
  ASSUME NEW t, IsSeq(t), t # <<>>, NEW kind, NEW M, NEW N, N \subseteq M, NEW w \in Logs, Logged(R, t, kind, M, w)
  PROVE  IsSeq(Tail(t)) /\ Logged(R, Tail(t), kind, N, w)
BY LogsKnown, LoggedTail, TailOf

LEMMA OwnRest ==
  ASSUME NEW t, IsSeq(t), t # <<>>, NEW kind, WrittenWhenThere(t, kind), t[1].do \notin Inserting
  PROVE  WrittenWhenThere(Tail(t), kind) /\ t[1].do \notin Writing
<1>1. WrittenWhenThere(Tail(t), kind)
  BY WrittenTail
<1>2. 1 \in DOMAIN t /\ \A m \in DOMAIN t : m \in Nat /\ m >= 1
  BY FirstStep
<1>3. ~ \E m \in DOMAIN t : m < 1
  BY <1>2
<1> QED BY <1>1, <1>2, <1>3 DEF WrittenWhenThere

\* Only after the journal was read it is written.
LEMMA JournalNext ==
  ASSUME NEW t, IsSeq(t), t # <<>>, JournalRead(t), 1 \in DOMAIN Tail(t), Tail(t)[1].do = "writeJournal"
  PROVE  t[1].do = "readJournal"
<1>1. 1 + 1 \in DOMAIN t /\ Tail(t)[1] = t[1 + 1] /\ 1 + 1 > 1 /\ 1 + 1 - 1 = 1
  BY FirstStep
<1> QED BY <1>1 DEF JournalRead

SameForLogs(r, q) == IsCall(r) /\ r.kind = q.kind /\ r.to = q.to /\ r.names = q.names /\ r.todo = q.todo

LEMMA QuietStep ==
  ASSUME NEW c, Acts(c), req[c].todo # <<>>, Step(c).do \notin Telling \cup Logs \cup Inserting,
         NEW r, SameForLogs(r, req[c]), NEW table, TablesAlike(rows, table), Go(c, r, table),
         Step(c).do = "readJournal" => r.count = Len(table[Own(c)].journal)
  PROVE  TrailInv'
<1>1. /\ c \in Slots /\ LogsOK(req[c], rows) /\ RowsOK(rows) /\ IsSeq(req[c].todo) /\ Step(c) = req[c].todo[1]
      /\ \A w \in Logs : Logged(R, req[c].todo, req[c].kind, MissingOf(req[c].names), w)
  BY ActsOn
<1>2. PICK q : q = After(r)
  OBVIOUS
<1>3. /\ IsCall(q) /\ q.kind = req[c].kind /\ q.to = req[c].to /\ q.names = req[c].names /\ q.todo = Tail(req[c].todo)
      /\ q.count = r.count
  BY <1>2 DEF After, SameForLogs, IsCall
<1>4. ASSUME NEW w \in Logs, NEW k PROVE Due(q.todo, k, w) <=> Due(req[c].todo, k, w)
  BY <1>1, <1>3, DueAfter
<1>5. OweAlike(req[c], q)
  BY <1>3, <1>4, OweSame DEF OweAlike
<1>6. Effects(req[c], q, rows, table)
  BY <1>1, <1>5, QuietEffects
<1>7. DOMAIN table = DOMAIN rows /\ \A i \in DOMAIN rows : table[i].kind = rows[i].kind /\ table[i].status = rows[i].status
  BY DEF TablesAlike, LogsAlike
<1>8. NamesOK(q.names, table)
  BY <1>1, <1>3, <1>7 DEF LogsOK, NamesOK
<1>9. OwnRow(q, table)
  BY <1>1, <1>3, <1>7, OwnRest DEF LogsOK, OwnRow
<1>10. ASSUME NEW w \in Logs PROVE KeepsLog(q, table, w)
  <2>1. Logged(R, q.todo, q.kind, MissingOf(q.names), w)
    BY <1>1, <1>3, LoggedRest
  <2>2. ASSUME NEW k, Due(q.todo, k, w) PROVE HasRow(q, k, table)
    <3>1. HasRow(req[c], k, rows)
      BY <1>1, <1>4, <2>2 DEF LogsOK, KeepsLog
    <3> QED BY <1>3, <1>7, <3>1 DEF HasRow
  <2> QED BY <2>1, <2>2 DEF KeepsLog
<1>11. JournalKnown(q, table)
  <2> SUFFICES ASSUME "writeJournal" \in Logs, 1 \in DOMAIN q.todo, q.todo[1].do = "writeJournal"
               PROVE  q.count = Len(table[q.names[q.kind]].journal)
    BY DEF JournalKnown
  <2>1. JournalRead(req[c].todo)
    BY <1>1 DEF Logged
  <2>2. Step(c).do = "readJournal"
    BY <1>1, <1>3, <2>1, JournalNext
  <2> QED BY <1>3, <2>2 DEF Own
<1>12. LogsOK(q, table)
  <2>1. IsSeq(q.todo)
    BY <1>1, <1>3, TailOf
  <2> QED BY <1>3, <1>8, <1>9, <1>10, <1>11, <2>1 DEF LogsOK
<1> QED BY <1>2, <1>6, <1>12, GoAccounts DEF SameForLogs

LEMMA SameCalls ==
  ASSUME NEW c, Acts(c), req[c].todo # <<>>
  PROVE  SameForLogs(req[c], req[c]) /\ TablesAlike(rows, rows)
BY ActsOn, SameTable DEF SameForLogs

Quiet(do) == do \notin Telling \cup Inserting \cup {"audit", "writeJournal"}

LEMMA QuietSteps ==
  ASSUME NEW do, Quiet(do)
  PROVE  do \notin Telling \cup Logs \cup Inserting
BY LogsKnown DEF Quiet, IsLog

LEMMA ReadsAccount ==
  ASSUME NEW c, Acts(c),
         LookUp(c) \/ LookUpAny(c) \/ FindParent(c) \/ FindSource(c) \/ ReadNumbers(c) \/ ReadUses(c) \/ ReadJournal(c)
  PROVE  TrailInv'
<1>1. /\ req[c].todo # <<>>
      /\ Step(c).do \in {"lookUp", "lookUpAny", "find", "findSource", "readNumbers", "readUses", "readJournal"}
  BY Zenon DEF At, Step, LookUp, LookUpAny, FindParent, FindSource, ReadNumbers, ReadUses, ReadJournal
<1>2. Step(c).do \notin Telling \cup Logs \cup Inserting
  <2>1. Quiet(Step(c).do)
    BY <1>1 DEF Quiet, Telling, Inserting
  <2> QED BY <2>1, QuietSteps
<1>3. SameForLogs(req[c], req[c]) /\ TablesAlike(rows, rows) /\ IsCall(req[c])
  BY <1>1, SameCalls DEF SameForLogs
<1>4. \/ End(c) /\ Step(c).do \in {"lookUp", "lookUpAny", "find", "findSource", "readUses"}
      \/ Go(c, req[c], rows) /\ Step(c).do # "readJournal"
      \/ \E n : Go(c, [req[c] EXCEPT !.count = n], rows) /\ (Step(c).do = "readJournal" => n = Len(rows[Own(c)].journal))
  <2>1. LookUp(c) => Step(c).do = "lookUp" /\ (End(c) \/ Go(c, req[c], rows))
    BY DEF LookUp, At, Step
  <2>2. LookUpAny(c) => Step(c).do = "lookUpAny" /\ (End(c) \/ Go(c, req[c], rows))
    BY DEF LookUpAny, At, Step
  <2>3. FindParent(c) => Step(c).do = "find" /\ (End(c) \/ Go(c, req[c], rows))
    BY DEF FindParent, At, Step
  <2>4. FindSource(c) => Step(c).do = "findSource" /\ (End(c) \/ Go(c, req[c], rows))
    BY DEF FindSource, At, Step
  <2>5. ReadNumbers(c) => Step(c).do = "readNumbers" /\ \E n : Go(c, [req[c] EXCEPT !.count = n], rows)
    BY DEF ReadNumbers, At, Step
  <2>6. ReadUses(c) => Step(c).do = "readUses" /\ (End(c) \/ \E n : Go(c, [req[c] EXCEPT !.count = n], rows))
    BY DEF ReadUses, At, Step
  <2>7. ReadJournal(c) => \E n : Go(c, [req[c] EXCEPT !.count = n], rows) /\ n = Len(rows[Own(c)].journal)
    BY DEF ReadJournal, At, Step
  <2> QED BY <2>1, <2>2, <2>3, <2>4, <2>5, <2>6, <2>7
<1>5. CASE End(c) /\ Step(c).do \in {"lookUp", "lookUpAny", "find", "findSource", "readUses"}
  <2>1. MayEnd(Step(c), req[c].kind, MissingOf(req[c].names))
    BY <1>5 DEF MayEnd
  <2> QED BY <1>1, <1>2, <1>5, <2>1, EndAccounts
<1>6. CASE Go(c, req[c], rows) /\ Step(c).do # "readJournal"
  BY <1>1, <1>2, <1>3, <1>6, QuietStep
<1>7. CASE \E n : Go(c, [req[c] EXCEPT !.count = n], rows) /\ (Step(c).do = "readJournal" => n = Len(rows[Own(c)].journal))
  <2>1. PICK n : Go(c, [req[c] EXCEPT !.count = n], rows) /\ (Step(c).do = "readJournal" => n = Len(rows[Own(c)].journal))
    BY <1>7
  <2>2. PICK r : r = [req[c] EXCEPT !.count = n]
    OBVIOUS
  <2>3. SameForLogs(r, req[c]) /\ r.count = n
    BY <1>3, <2>2 DEF SameForLogs, IsCall
  <2> QED BY <1>1, <1>2, <1>3, <2>1, <2>2, <2>3, QuietStep
<1> QED BY <1>4, <1>5, <1>6, <1>7

LEMMA ListsAccount ==
  ASSUME NEW c, Acts(c), ReadRefs(c) \/ WriteRefs(c) \/ SetRefs(c)
  PROVE  TrailInv'
<1>1. req[c].todo # <<>> /\ Step(c).do \in {"readRefs", "writeRefs", "setRefs"}
  BY DEF At, Step, ReadRefs, WriteRefs, SetRefs
<1>2. Step(c).do \notin Telling \cup Logs \cup Inserting /\ Step(c).do # "readJournal"
  <2>1. Quiet(Step(c).do)
    BY <1>1 DEF Quiet, Telling, Inserting
  <2> QED BY <1>1, <2>1, QuietSteps
<1>3. SameForLogs(req[c], req[c]) /\ TablesAlike(rows, rows) /\ IsCall(req[c]) /\ RowsOK(rows)
  BY <1>1, SameCalls DEF SameForLogs, Acts, TrailInv
<1>4. \E e : Go(c, req[c], rows) \/ Go(c, [req[c] EXCEPT !.refs = e], rows)
             \/ \E x, f : Go(c, [req[c] EXCEPT !.refs = e], [rows EXCEPT ![x].refs = f]) \/ Go(c, req[c], [rows EXCEPT ![x].refs = f])
  BY DEF ReadRefs, WriteRefs, SetRefs
<1>5. PICK e, x, f : Go(c, req[c], rows) \/ Go(c, [req[c] EXCEPT !.refs = e], rows)
             \/ Go(c, [req[c] EXCEPT !.refs = e], [rows EXCEPT ![x].refs = f]) \/ Go(c, req[c], [rows EXCEPT ![x].refs = f])
  BY <1>4
<1>6. PICK r, b, u : r = [req[c] EXCEPT !.refs = e] /\ b = [rows[x] EXCEPT !.refs = f] /\ u = [rows EXCEPT ![x].refs = f]
  OBVIOUS
<1>7. SameForLogs(r, req[c])
  BY <1>3, <1>6 DEF SameForLogs, IsCall
<1>8. TablesAlike(rows, u)
  <2>1. x \in DOMAIN rows => LogsAlike(rows[x], b)
    BY <1>3, <1>6 DEF RowsOK, IsRow, LogsAlike, LogOf
  <2>2. u = Put(rows, x, b)
    BY <1>6 DEF Put
  <2> QED BY <1>3, <2>1, <2>2, PutAlike
<1> QED BY <1>1, <1>2, <1>3, <1>5, <1>6, <1>7, <1>8, QuietStep

LEMMA ReadStatusAccounts ==
  ASSUME NEW c, Acts(c), ReadStatus(c)
  PROVE  TrailInv'
<1>1. req[c].todo # <<>> /\ Step(c).do = "readStatus"
  BY DEF At, Step, ReadStatus
<1>2. Step(c).do \notin Telling \cup Logs \cup Inserting
  <2>1. Quiet(Step(c).do)
    BY <1>1 DEF Quiet, Telling, Inserting
  <2> QED BY <2>1, QuietSteps
<1>3. SameForLogs(req[c], req[c]) /\ TablesAlike(rows, rows) /\ IsCall(req[c])
  BY <1>1, SameCalls DEF SameForLogs
<1>4. CASE End(c)
  <2>1. MayEnd(Step(c), req[c].kind, MissingOf(req[c].names))
    BY <1>1 DEF MayEnd
  <2> QED BY <1>1, <1>2, <1>4, <2>1, EndAccounts
<1>5. CASE Go(c, [req[c] EXCEPT !.reviewer = rows[Own(c)].reviewer], rows)
  <2>1. PICK e : e = rows[Own(c)].reviewer
    OBVIOUS
  <2>2. PICK r : r = [req[c] EXCEPT !.reviewer = e]
    OBVIOUS
  <2>3. SameForLogs(r, req[c])
    BY <1>3, <2>2 DEF SameForLogs, IsCall
  <2> QED BY <1>1, <1>2, <1>3, <1>5, <2>1, <2>2, <2>3, QuietStep
<1> QED BY <1>4, <1>5 DEF ReadStatus

LEMMA WriteUsesAccounts ==
  ASSUME NEW c, Acts(c), WriteUses(c)
  PROVE  TrailInv'
<1>1. req[c].todo # <<>> /\ Step(c).do = "writeUses"
  BY DEF At, Step, WriteUses
<1>2. Step(c).do \notin Telling \cup Logs \cup Inserting
  <2>1. Quiet(Step(c).do)
    BY <1>1 DEF Quiet, Telling, Inserting
  <2> QED BY <2>1, QuietSteps
<1>3. SameForLogs(req[c], req[c]) /\ TablesAlike(rows, rows) /\ IsCall(req[c]) /\ RowsOK(rows)
  BY <1>1, SameCalls DEF SameForLogs, Acts, TrailInv
<1>4. PICK r : r = [req[c] EXCEPT !.count = 0]
  OBVIOUS
<1>5. SameForLogs(r, req[c])
  BY <1>3, <1>4 DEF SameForLogs, IsCall
<1>6. PICK x, n, m, t1, t2, b1, b2 :
        /\ x = Own(c) /\ n = req[c].count + 1 /\ t1 = [rows EXCEPT ![x].latest = n] /\ m = t1[x].opened + 1
        /\ t2 = [t1 EXCEPT ![x].opened = m] /\ b1 = [rows[x] EXCEPT !.latest = n] /\ b2 = [b1 EXCEPT !.opened = m]
  OBVIOUS
<1>7. t2 = Put(rows, x, b2)
  BY <1>6 DEF Put
<1>8. x \in DOMAIN rows => LogsAlike(rows[x], b2)
  <2> SUFFICES ASSUME x \in DOMAIN rows PROVE LogsAlike(rows[x], b2)
    OBVIOUS
  <2>1. IsRow(rows[x]) /\ IsSeq(rows[x].trail) /\ IsSeq(rows[x].journal)
    BY <1>3 DEF RowsOK
  <2>2. /\ IsRow(b1) /\ b1.kind = rows[x].kind /\ b1.status = rows[x].status /\ b1.hist = rows[x].hist
        /\ b1.trail = rows[x].trail /\ b1.journal = rows[x].journal
    BY <1>6, <2>1 DEF IsRow
  <2>3. /\ IsRow(b2) /\ b2.kind = rows[x].kind /\ b2.status = rows[x].status /\ b2.hist = rows[x].hist
        /\ b2.trail = rows[x].trail /\ b2.journal = rows[x].journal
    BY <1>6, <2>2 DEF IsRow
  <2> QED BY <2>1, <2>3 DEF LogsAlike, LogOf
<1>9. TablesAlike(rows, t2)
  BY <1>3, <1>7, <1>8, PutAlike
<1>10. Go(c, r, t2)
  BY <1>4, <1>6 DEF WriteUses
<1> QED BY <1>1, <1>2, <1>5, <1>9, <1>10, QuietStep


-----------------------------------------------------------------------------
(* The entries *)

\* What is left of a call that inserted nothing keeps the logs.
LEMMA RestOK ==
  ASSUME NEW c, Acts(c), req[c].todo # <<>>, Step(c).do \notin Inserting \cup {"readJournal"},
         NEW q, IsCall(q), q.kind = req[c].kind, q.to = req[c].to, q.names = req[c].names, q.todo = Tail(req[c].todo),
         NEW table, DOMAIN table = DOMAIN rows, \A i \in DOMAIN rows : table[i].kind = rows[i].kind,
         \A w \in Logs : \A k : Due(q.todo, k, w) => HasRow(q, k, table)
  PROVE  LogsOK(q, table)
<1>1. /\ LogsOK(req[c], rows) /\ IsSeq(req[c].todo) /\ Step(c) = req[c].todo[1]
      /\ \A w \in Logs : Logged(R, req[c].todo, req[c].kind, MissingOf(req[c].names), w)
  BY ActsOn
<1>2. NamesOK(q.names, table)
  BY <1>1 DEF LogsOK, NamesOK
<1>3. OwnRow(q, table)
  BY <1>1, OwnRest DEF LogsOK, OwnRow
<1>4. ASSUME NEW w \in Logs PROVE KeepsLog(q, table, w)
  BY <1>1, LoggedRest DEF KeepsLog
<1>5. JournalKnown(q, table)
  <2> SUFFICES ASSUME "writeJournal" \in Logs, 1 \in DOMAIN q.todo, q.todo[1].do = "writeJournal" PROVE FALSE
    BY DEF JournalKnown
  <2>1. JournalRead(req[c].todo)
    BY <1>1 DEF Logged
  <2> QED BY <1>1, <2>1, JournalNext
<1> QED BY <1>1, <1>2, <1>3, <1>4, <1>5, TailOf DEF LogsOK

\* An entry is made when it is due, of the status that it is due for.
LEMMA EntryDue ==
  ASSUME NEW c, Acts(c), req[c].todo # <<>>, NEW w \in Logs, Step(c).do = w, NEW k, k = Step(c).of
  PROVE  /\ k \notin Unaudited /\ Due(req[c].todo, k, w) /\ ~Due(Tail(req[c].todo), k, w)
         /\ k \in DOMAIN req[c].names /\ req[c].names[k] \in DOMAIN rows /\ rows[req[c].names[k]].kind = k
         /\ StatusOwed(req[c], k) = IF k = req[c].kind THEN req[c].to ELSE rows[req[c].names[k]].status
         /\ w = "writeJournal" => k = req[c].kind
<1>1. /\ LogsOK(req[c], rows) /\ IsSeq(req[c].todo) /\ Step(c) = req[c].todo[1] /\ Step(c) \in ToSet(req[c].todo)
      /\ Logged(R, req[c].todo, req[c].kind, MissingOf(req[c].names), w) /\ NamesOK(req[c].names, rows)
  BY ActsOn
<1>2. k \notin Unaudited /\ (w = "writeJournal" => k = req[c].kind)
  BY <1>1 DEF Logged, EntriesKnown
<1>3. Due(req[c].todo, k, w) /\ ~Due(Tail(req[c].todo), k, w)
  <2>1. EntryFollows(req[c].todo, w) /\ IsLog(w)
    BY <1>1, LogsKnown DEF Logged
  <2> QED BY <1>1, <1>2, <2>1, DueAfterEntry
<1>4. HasRow(req[c], k, rows)
  BY <1>1, <1>3 DEF LogsOK, KeepsLog
<1> QED BY <1>1, <1>2, <1>3, <1>4 DEF HasRow, NamesOK, StatusOwed

\* b is row a with the entry x in the log of w.
EntryMade(a, b, w, x) ==
  /\ IsRow(b) /\ b.kind = a.kind /\ b.status = a.status /\ b.hist = a.hist /\ IsSeq(b.trail) /\ IsSeq(b.journal)
  /\ LogOf(b, w) = Longer(LogOf(a, w), x) /\ \A v \in Logs \ {w} : LogOf(b, v) = LogOf(a, v)
Told(c) == req[c].names[Step(c).of]

LEMMA EntryAccounts ==
  ASSUME NEW c, Acts(c), req[c].todo # <<>>, NEW w \in Logs, Step(c).do = w, NEW r, SameForLogs(r, req[c]),
         NEW b, EntryMade(rows[Told(c)], b, w, StatusOwed(req[c], Step(c).of)), Go(c, r, Put(rows, Told(c), b))
  PROVE  TrailInv'
<1>1. PICK k, i, x, table : /\ k = Step(c).of /\ i = Told(c) /\ x = StatusOwed(req[c], k) /\ table = Put(rows, i, b)
  OBVIOUS
<1>2. /\ k \notin Unaudited /\ Due(req[c].todo, k, w) /\ ~Due(Tail(req[c].todo), k, w)
      /\ k \in DOMAIN req[c].names /\ i \in DOMAIN rows /\ req[c].names[k] = i /\ rows[i].kind = k
  BY <1>1, EntryDue DEF Told
<1>3. /\ c \in Slots /\ RowsOK(rows) /\ NamesOK(req[c].names, rows) /\ IsSeq(req[c].todo) /\ Step(c) = req[c].todo[1]
      /\ LogsOK(req[c], rows)
  BY ActsOn
<1>4. IsLog(w) /\ w \notin Telling /\ w \notin Inserting /\ w # "readJournal"
  BY LogsKnown, LogsAreLogs DEF IsLog
<1>5. PICK q : q = After(r)
  OBVIOUS
<1>6. IsCall(q) /\ q.kind = req[c].kind /\ q.to = req[c].to /\ q.names = req[c].names /\ q.todo = Tail(req[c].todo)
  BY <1>5 DEF After, SameForLogs, IsCall
<1>7. IsSeq(table) /\ DOMAIN table = DOMAIN rows /\ table[i] = b /\ \A j \in DOMAIN rows \ {i} : table[j] = rows[j]
  <2>1. IsSeq(rows)
    BY <1>3 DEF RowsOK
  <2> QED BY <1>1, <1>2, <2>1, RowReplaced
<1>8. \A j \in DOMAIN rows : table[j].kind = rows[j].kind /\ table[j].status = rows[j].status /\ table[j].hist = rows[j].hist
  BY <1>1, <1>7 DEF EntryMade
<1>9. ASSUME NEW v \in Logs, NEW l, v # w \/ l # k PROVE Due(q.todo, l, v) <=> Due(req[c].todo, l, v)
  <2>1. req[c].todo[1].of = l => req[c].todo[1].do \notin Telling \cup {v}
    BY <1>1, <1>3, <1>4, <1>9
  <2>2. Due(Tail(req[c].todo), l, v) <=> Due(req[c].todo, l, v)
    BY <1>3, <2>1, DueAfter
  <2> QED BY <1>6, <2>2
<1>10. \A l \in DOMAIN req[c].names : req[c].names[l] = i => l = k
  BY <1>2, <1>3 DEF NamesOK
<1>11. ASSUME NEW v \in Logs, NEW j, v # w \/ j # i PROVE \A s : Owes(q, j, s, v) <=> Owes(req[c], j, s, v)
  <2>1. ASSUME NEW l PROVE l \in DOMAIN q.names /\ Due(q.todo, l, v) /\ q.names[l] = j
                              <=> l \in DOMAIN req[c].names /\ Due(req[c].todo, l, v) /\ req[c].names[l] = j
    <3>1. CASE v # w \/ l # k
      BY <1>6, <1>9, <3>1
    <3>2. CASE v = w /\ l = k
      BY <1>2, <1>6, <1>11, <3>2
    <3> QED BY <3>1, <3>2
  <2> QED BY <1>6, <2>1, OweSame
<1>12. ASSUME NEW s PROVE ~Owes(q, i, s, w) /\ (Owes(req[c], i, s, w) <=> s = x)
  <2>1. ~Owes(q, i, s, w)
    BY <1>2, <1>6, <1>10 DEF Owes
  <2>2. Owes(req[c], i, s, w) <=> s = x
    BY <1>1, <1>2, <1>10 DEF Owes
  <2> QED BY <2>1, <2>2
<1>13. ASSUME NEW v \in Logs, NEW j \in DOMAIN rows PROVE Effect(req[c], q, rows[j], table[j], j, v)
  <2>1. CASE v = w /\ j = i
    <3>1. LogOf(b, w) = Append(LogOf(rows[i], w), x) /\ b.hist = rows[i].hist
      BY <1>1 DEF EntryMade, Longer
    <3>2. EnteredAs(req[c], q, rows[j], table[j], j, v, x)
      BY <1>7, <1>12, <2>1, <3>1 DEF EnteredAs
    <3> QED BY <3>2 DEF Effect
  <2>2. CASE v # w \/ j # i
    <3>1. LogOf(table[j], v) = LogOf(rows[j], v)
      BY <1>1, <1>7, <2>2 DEF EntryMade
    <3> QED BY <1>8, <1>11, <2>2, <3>1 DEF Effect, Untouched
  <2> QED BY <2>1, <2>2
<1>14. Grew(rows, table)
  <2>1. RowsOK(table)
    <3>1. IsRow(b) /\ IsSeq(b.hist) /\ IsSeq(b.trail) /\ IsSeq(b.journal)
      BY <1>1, <1>2, <1>3 DEF EntryMade, RowsOK
    <3> QED BY <1>3, <1>7, <3>1 DEF RowsOK
  <2> QED BY <1>7, <1>8, <2>1 DEF Grew
<1>15. Effects(req[c], q, rows, table)
  BY <1>7, <1>13, <1>14 DEF Effects
<1>16. LogsOK(q, table)
  <2>1. ASSUME NEW v \in Logs, NEW l, Due(q.todo, l, v) PROVE HasRow(q, l, table)
    <3>1. Due(req[c].todo, l, v)
      BY <1>2, <1>6, <1>9, <2>1
    <3>2. HasRow(req[c], l, rows)
      BY <1>3, <3>1 DEF LogsOK, KeepsLog
    <3> QED BY <1>6, <1>7, <1>8, <3>2 DEF HasRow
  <2> QED BY <1>4, <1>6, <1>7, <1>8, <2>1, RestOK
<1> QED BY <1>1, <1>5, <1>15, <1>16, GoAccounts DEF SameForLogs

LEMMA AuditAccounts ==
  ASSUME NEW c, Acts(c), Audit(c)
  PROVE  TrailInv'
<1>1. req[c].todo # <<>> /\ Step(c).do = "audit" /\ "audit" \in Logs
  BY LogsKnown DEF At, Step, Audit
<1>2. PICK k, i, x : /\ k = Step(c).of /\ i = req[c].names[k]
                     /\ x = IF k = req[c].kind THEN req[c].to ELSE rows[i].status
  OBVIOUS
<1>3. PICK e, b, u : e = Append(rows[i].trail, x) /\ b = [rows[i] EXCEPT !.trail = e] /\ u = Put(rows, i, b)
  OBVIOUS
<1>4. Go(c, req[c], u)
  BY <1>2, <1>3 DEF Audit, Put
<1>5. i \in DOMAIN rows /\ x = StatusOwed(req[c], k)
  <2>1. req[c].names[k] \in DOMAIN rows /\ StatusOwed(req[c], k) = IF k = req[c].kind THEN req[c].to ELSE rows[req[c].names[k]].status
    BY <1>1, <1>2, EntryDue
  <2> QED BY <1>2, <2>1
<1>6. IsRow(rows[i]) /\ IsSeq(rows[i].trail) /\ IsSeq(rows[i].journal)
  BY <1>5 DEF Acts, TrailInv, RowsOK
<1>7. IsSeq(e)
  BY <1>3, <1>6, Appended
<1>8. /\ IsRow(b) /\ b.kind = rows[i].kind /\ b.status = rows[i].status /\ b.hist = rows[i].hist /\ b.trail = e
      /\ b.journal = rows[i].journal
  BY <1>3, <1>6 DEF IsRow
<1>9. EntryMade(rows[i], b, "audit", x)
  <2>1. LogOf(b, "audit") = Longer(LogOf(rows[i], "audit"), x) /\ \A v \in Logs \ {"audit"} : LogOf(b, v) = LogOf(rows[i], v)
    BY <1>3, <1>8 DEF LogOf, Longer
  <2> QED BY <1>6, <1>7, <1>8, <2>1 DEF EntryMade
<1>10. SameForLogs(req[c], req[c])
  BY <1>1, SameCalls
<1>11. EntryMade(rows[Told(c)], b, "audit", StatusOwed(req[c], Step(c).of)) /\ Go(c, req[c], Put(rows, Told(c), b))
  BY <1>2, <1>3, <1>4, <1>5, <1>9 DEF Told
<1> QED BY <1>1, <1>10, <1>11, EntryAccounts

LEMMA WriteJournalAccounts ==
  ASSUME NEW c, Acts(c), WriteJournal(c)
  PROVE  TrailInv'
<1>1. req[c].todo # <<>> /\ Step(c).do = "writeJournal"
  BY DEF At, Step, WriteJournal
<1>2. /\ SameForLogs(req[c], req[c]) /\ IsCall(req[c]) /\ RowsOK(rows) /\ LogsOK(req[c], rows) /\ IsSeq(req[c].todo)
      /\ Step(c) = req[c].todo[1] /\ 1 \in DOMAIN req[c].todo
  BY <1>1, SameCalls, ActsOn
<1>3. PICK i, x, r, e, b, u :
        /\ i = Own(c) /\ x = req[c].to /\ r = [req[c] EXCEPT !.count = 0]
        /\ e = Append(rows[i].journal, x) /\ b = [rows[i] EXCEPT !.journal = e] /\ u = Put(rows, i, b)
  OBVIOUS
<1>4. \/ End(c) /\ Len(rows[Own(c)].journal) # req[c].count
      \/ Go(c, r, u)
  BY <1>3 DEF WriteJournal, Put
<1>5. SameForLogs(r, req[c])
  BY <1>2, <1>3 DEF SameForLogs, IsCall
<1>6. i \in DOMAIN rows =>
        /\ IsRow(b) /\ b.kind = rows[i].kind /\ b.status = rows[i].status /\ b.hist = rows[i].hist
        /\ b.trail = rows[i].trail /\ b.journal = e /\ IsSeq(b.trail) /\ IsSeq(b.journal)
  <2> SUFFICES ASSUME i \in DOMAIN rows PROVE
        /\ IsRow(b) /\ b.kind = rows[i].kind /\ b.status = rows[i].status /\ b.hist = rows[i].hist
        /\ b.trail = rows[i].trail /\ b.journal = e /\ IsSeq(b.trail) /\ IsSeq(b.journal)
    OBVIOUS
  <2>1. IsRow(rows[i]) /\ IsSeq(rows[i].trail) /\ IsSeq(rows[i].journal)
    BY <1>2 DEF RowsOK
  <2>2. IsSeq(e)
    BY <1>3, <2>1, Appended
  <2> QED BY <1>3, <2>1, <2>2 DEF IsRow
<1>7. CASE "writeJournal" \in Logs
  <2>1. req[c].count = Len(rows[Own(c)].journal)
    BY <1>1, <1>2, <1>7 DEF LogsOK, JournalKnown, Own
  <2>2. PICK k : k = Step(c).of
    OBVIOUS
  <2>5. k = req[c].kind /\ req[c].names[k] \in DOMAIN rows
    BY <1>1, <1>7, <2>2, EntryDue
  <2>6. i = req[c].names[k] /\ i \in DOMAIN rows /\ x = StatusOwed(req[c], k)
    BY <1>3, <2>5 DEF Own, StatusOwed
  <2>3. EntryMade(rows[i], b, "writeJournal", x)
    <3>1. LogOf(b, "writeJournal") = Longer(LogOf(rows[i], "writeJournal"), x)
          /\ \A v \in Logs \ {"writeJournal"} : LogOf(b, v) = LogOf(rows[i], v)
      BY <1>3, <1>6, <2>6, LogsKnown DEF LogOf, IsLog, Longer
    <3> QED BY <1>6, <2>6, <3>1 DEF EntryMade
  <2>4. Go(c, r, u)
    BY <1>4, <2>1
  <2>7. EntryMade(rows[Told(c)], b, "writeJournal", StatusOwed(req[c], Step(c).of)) /\ Go(c, r, Put(rows, Told(c), b))
    BY <1>3, <2>2, <2>3, <2>4, <2>6 DEF Told
  <2> QED BY <1>1, <1>5, <1>7, <2>7, EntryAccounts
<1>8. CASE "writeJournal" \notin Logs
  <2>1. Step(c).do \notin Telling \cup Logs \cup Inserting /\ Step(c).do # "readJournal"
    BY <1>1, <1>8 DEF Telling, Inserting
  <2>2. CASE End(c)
    <3>1. MayEnd(Step(c), req[c].kind, MissingOf(req[c].names))
      BY <1>1 DEF MayEnd
    <3> QED BY <1>1, <2>1, <2>2, <3>1, EndAccounts
  <2>3. CASE Go(c, r, u)
    <3>1. i \in DOMAIN rows => LogsAlike(rows[i], b)
      BY <1>6, <1>8, LogsKnown DEF LogsAlike, LogOf, IsLog
    <3>2. TablesAlike(rows, u)
      BY <1>2, <1>3, <3>1, PutAlike
    <3> QED BY <1>1, <1>5, <2>1, <2>3, <3>2, QuietStep
  <2> QED BY <1>4, <2>2, <2>3
<1> QED BY <1>7, <1>8


-----------------------------------------------------------------------------
(* The status calls write *)

LEMMA WrittenLogs ==
  ASSUME NEW t, RowsOK(t), NEW o \in DOMAIN t, NEW to, NEW b, NEW a \in BOOLEAN, NEW u, u = Written(t, o, to, b, a)
  PROVE  /\ RowsOK(u) /\ DOMAIN u = DOMAIN t /\ \A i \in DOMAIN t \ {o} : u[i] = t[i]
         /\ u[o].kind = t[o].kind /\ u[o].hist = Append(t[o].hist, to) /\ u[o].journal = t[o].journal
         /\ u[o].trail = IF a THEN Append(t[o].trail, to) ELSE t[o].trail
<1>1. PICK t1, t2, t3, t4 :
        /\ t1 = [t EXCEPT ![o].status = to] /\ t2 = [t1 EXCEPT ![o].hist = Append(@, to)]
        /\ t3 = [t2 EXCEPT ![o].reviewer = b] /\ t4 = [t3 EXCEPT ![o].trail = IF a THEN Append(@, to) ELSE @]
  OBVIOUS
<1>2. u = t4
  BY <1>1 DEF Written
<1>3. PICK h, l : h = Append(t1[o].hist, to) /\ l = IF a THEN Append(t3[o].trail, to) ELSE t3[o].trail
  OBVIOUS
<1>4. PICK r1, r2, r3, r4 :
        /\ r1 = [t[o] EXCEPT !.status = to] /\ r2 = [t1[o] EXCEPT !.hist = h]
        /\ r3 = [t2[o] EXCEPT !.reviewer = b] /\ r4 = [t3[o] EXCEPT !.trail = l]
  OBVIOUS
<1>5. t1 = Put(t, o, r1)
  BY <1>1, <1>4 DEF Put
<1>6. t2 = Put(t1, o, r2)
  BY <1>1, <1>3, <1>4 DEF Put
<1>7. t3 = Put(t2, o, r3)
  BY <1>1, <1>4 DEF Put
<1>8. t4 = Put(t3, o, r4)
  BY <1>1, <1>3, <1>4 DEF Put
<1>9. IsSeq(t) /\ IsRow(t[o]) /\ IsSeq(t[o].hist) /\ IsSeq(t[o].trail) /\ IsSeq(t[o].journal)
  BY DEF RowsOK
<1>10. IsSeq(t1) /\ DOMAIN t1 = DOMAIN t /\ t1[o] = r1 /\ \A i \in DOMAIN t \ {o} : t1[i] = t[i]
  BY <1>5, <1>9, RowReplaced
<1>11. IsSeq(t2) /\ DOMAIN t2 = DOMAIN t /\ t2[o] = r2 /\ \A i \in DOMAIN t \ {o} : t2[i] = t[i]
  BY <1>6, <1>10, RowReplaced
<1>12. IsSeq(t3) /\ DOMAIN t3 = DOMAIN t /\ t3[o] = r3 /\ \A i \in DOMAIN t \ {o} : t3[i] = t[i]
  BY <1>7, <1>11, RowReplaced
<1>13. IsSeq(t4) /\ DOMAIN t4 = DOMAIN t /\ t4[o] = r4 /\ \A i \in DOMAIN t \ {o} : t4[i] = t[i]
  BY <1>8, <1>12, RowReplaced
<1>14. /\ IsRow(r1) /\ r1.kind = t[o].kind /\ r1.hist = t[o].hist /\ r1.trail = t[o].trail /\ r1.journal = t[o].journal
  BY <1>4, <1>9 DEF IsRow
<1>15. /\ IsRow(r2) /\ r2.kind = t[o].kind /\ r2.hist = h /\ r2.trail = t[o].trail /\ r2.journal = t[o].journal
  BY <1>4, <1>10, <1>14 DEF IsRow
<1>16. /\ IsRow(r3) /\ r3.kind = t[o].kind /\ r3.hist = h /\ r3.trail = t[o].trail /\ r3.journal = t[o].journal
  BY <1>4, <1>11, <1>15 DEF IsRow
<1>17. /\ IsRow(r4) /\ r4.kind = t[o].kind /\ r4.hist = h /\ r4.trail = l /\ r4.journal = t[o].journal
  BY <1>4, <1>12, <1>16 DEF IsRow
<1>18. h = Append(t[o].hist, to) /\ l = IF a THEN Append(t[o].trail, to) ELSE t[o].trail
  BY <1>3, <1>10, <1>12, <1>14, <1>16
<1>19. IsSeq(h)
  <2>1. PICK g : g = t[o].hist
    OBVIOUS
  <2>2. IsSeq(Append(g, to))
    BY <1>9, <2>1, Appended
  <2> QED BY <1>18, <2>1, <2>2
<1>20. IsSeq(l)
  <2>1. PICK g : g = t[o].trail
    OBVIOUS
  <2>2. IsSeq(Append(g, to))
    BY <1>9, <2>1, Appended
  <2> QED BY <1>9, <1>18, <2>1, <2>2
<1>21. RowsOK(u)
  <2>1. \A i \in DOMAIN u : i # o => u[i] = t[i] /\ i \in DOMAIN t
    BY <1>2, <1>13
  <2>2. IsRow(u[o]) /\ IsSeq(u[o].hist) /\ IsSeq(u[o].trail) /\ IsSeq(u[o].journal)
    BY <1>2, <1>9, <1>13, <1>17, <1>19, <1>20
  <2>3. IsSeq(u)
    BY <1>2, <1>13
  <2> QED BY <2>1, <2>2, <2>3 DEF RowsOK
<1> QED BY <1>2, <1>13, <1>17, <1>18, <1>21

LEMMA WriteStatusAccounts ==
  ASSUME NEW c, Acts(c), WriteStatus(c)
  PROVE  TrailInv'
<1>1. req[c].todo # <<>> /\ Step(c).do \in Writing
  BY DEF WriteStatus
<1>2. /\ c \in Slots /\ RowsOK(rows) /\ NamesOK(req[c].names, rows) /\ IsSeq(req[c].todo) /\ Step(c) = req[c].todo[1]
      /\ LogsOK(req[c], rows) /\ Step(c) \in ToSet(req[c].todo) /\ IsCall(req[c])
      /\ \A w \in Logs : Logged(R, req[c].todo, req[c].kind, MissingOf(req[c].names), w)
  BY <1>1, ActsOn
<1>3. PICK k, o, to, b : /\ k = req[c].kind /\ o = Own(c) /\ b = Reviewer(c)
                         /\ to = IF Step(c).arg = None THEN req[c].to ELSE Step(c).arg
  OBVIOUS
<1>4. PICK a \in BOOLEAN : a = At(c, "writeAudited")
  BY DEF At
<1>5. PICK u : u = Written(rows, o, to, b, a)
  OBVIOUS
<1>6. PICK r, q : r = [req[c] EXCEPT !.reviewer = FALSE] /\ q = After(r)
  OBVIOUS
<1>7. Go(c, r, u)
  BY <1>1, <1>3, <1>4, <1>5, <1>6 DEF WriteStatus, Written
<1>8. IsCall(r) /\ IsCall(q) /\ q.kind = k /\ q.to = req[c].to /\ q.names = req[c].names /\ q.todo = Tail(req[c].todo)
  BY <1>2, <1>3, <1>6 DEF After, IsCall
<1>9. o = req[c].names[k] /\ k \in DOMAIN req[c].names /\ o \in DOMAIN rows /\ rows[o].kind = k
  <2>1. Step(c).do \notin Inserting
    BY <1>1 DEF Writing, Inserting
  <2>2. k \in DOMAIN req[c].names /\ req[c].names[k] \in DOMAIN rows
    BY <1>1, <1>2, <1>3, <2>1, OwnRest DEF LogsOK, OwnRow
  <2> QED BY <1>2, <1>3, <2>2 DEF NamesOK, Own
<1>10. Step(c).of = k /\ ~Still(R, k) /\ (Step(c).do = "writeStatus" => to = req[c].to)
       /\ \A w \in Logs : w # "audit" => Step(c).do = "writeStatus"
  <2>1. \A w \in Logs : EntriesKnown(R, req[c].todo, k, w)
    BY <1>2, <1>3 DEF Logged
  <2>2. EntriesKnown(R, req[c].todo, k, "audit")
    BY <2>1, LogsKnown
  <2>3. Step(c).of = k /\ ~Still(R, k) /\ (Step(c).do = "writeStatus" => to = req[c].to)
    BY <1>1, <1>2, <1>3, <2>2 DEF EntriesKnown
  <2>4. ASSUME NEW w \in Logs, w # "audit" PROVE Step(c).do = "writeStatus"
    <3>1. w = "writeJournal"
      BY <2>4, LogsKnown DEF IsLog
    <3>2. EntriesKnown(R, req[c].todo, k, "writeJournal")
      BY <2>1, <3>1
    <3>3. Step(c).do # "writeAudited"
      BY <1>2, <3>2 DEF EntriesKnown
    <3> QED BY <1>1, <3>3 DEF Writing
  <2> QED BY <2>3, <2>4
<1>11. /\ RowsOK(u) /\ DOMAIN u = DOMAIN rows /\ \A i \in DOMAIN rows \ {o} : u[i] = rows[i]
       /\ u[o].kind = rows[o].kind /\ u[o].hist = Append(rows[o].hist, to) /\ u[o].journal = rows[o].journal
       /\ u[o].trail = IF a THEN Append(rows[o].trail, to) ELSE rows[o].trail
  BY <1>2, <1>5, <1>9, WrittenLogs
<1>12. ASSUME NEW w \in Logs, NEW l, l # k PROVE Due(q.todo, l, w) <=> Due(req[c].todo, l, w)
  <2>1. Due(Tail(req[c].todo), l, w) <=> Due(req[c].todo, l, w)
    BY <1>1, <1>2, <1>10, <1>12, DueAfter
  <2> QED BY <1>8, <2>1
<1>13. \A l \in DOMAIN req[c].names : req[c].names[l] = o => l = k
  BY <1>2, <1>9 DEF NamesOK
<1>14. ASSUME NEW w \in Logs, NEW i, i # o PROVE \A s : Owes(q, i, s, w) <=> Owes(req[c], i, s, w)
  <2>1. ASSUME NEW l PROVE l \in DOMAIN q.names /\ Due(q.todo, l, w) /\ q.names[l] = i
                              <=> l \in DOMAIN req[c].names /\ Due(req[c].todo, l, w) /\ req[c].names[l] = i
    BY <1>8, <1>9, <1>12, <1>14
  <2> QED BY <1>3, <1>8, <2>1, OweSame
<1>15. ASSUME NEW w \in Logs, k \notin Unaudited PROVE Effect(req[c], q, rows[o], u[o], o, w)
  <2>1. CASE Step(c).do = "writeStatus"
    <3>1. EntryFollows(req[c].todo, w) /\ IsLog(w) /\ req[c].todo[1].do \in Telling
      BY <1>2, <2>1, LogsKnown DEF Logged, Telling
    <3>2. ~Due(req[c].todo, k, w) /\ Due(Tail(req[c].todo), k, w)
      BY <1>1, <1>2, <1>10, <1>15, <3>1, DueAfterWrite
    <3>3. ASSUME NEW s PROVE ~Owes(req[c], o, s, w) /\ (Owes(q, o, s, w) <=> s = to)
      <4>1. StatusOwed(q, k) = to
        BY <1>3, <1>8, <1>10, <2>1 DEF StatusOwed
      <4>2. ~Owes(req[c], o, s, w)
        BY <1>13, <3>2 DEF Owes
      <4>3. Owes(q, o, s, w) <=> s = to
        BY <1>8, <1>9, <1>13, <3>2, <4>1 DEF Owes
      <4> QED BY <4>2, <4>3
    <3>4. LogOf(u[o], w) = LogOf(rows[o], w)
      <4>1. a = FALSE
        BY <1>4, <2>1 DEF At, Step
      <4> QED BY <1>11, <4>1 DEF LogOf
    <3>5. WrittenAs(req[c], q, rows[o], u[o], o, w, to)
      BY <1>11, <3>3, <3>4 DEF WrittenAs
    <3> QED BY <3>5 DEF Effect
  <2>2. CASE Step(c).do = "writeAudited"
    <3>1. w = "audit" /\ a = TRUE
      BY <1>1, <1>4, <1>10, <2>2 DEF At, Step
    <3>2. \A x \in ToSet(req[c].todo) : x.do # w
      BY <1>2, <2>2 DEF Logged, EntriesKnown
    <3>3. \A x \in ToSet(Tail(req[c].todo)) : x.do # w
      BY <1>1, <1>2, <3>2, TailOf
    <3>4. ~Due(req[c].todo, k, w) /\ ~Due(q.todo, k, w)
      BY <1>8, <3>2, <3>3 DEF Due, ToSet
    <3>5. \A s : ~Owes(req[c], o, s, w) /\ ~Owes(q, o, s, w)
      BY <1>8, <1>13, <3>4 DEF Owes
    <3>6. BothAs(req[c], q, rows[o], u[o], o, w, to)
      BY <1>11, <3>1, <3>5 DEF BothAs, LogOf
    <3> QED BY <3>6 DEF Effect
  <2> QED BY <1>1, <2>1, <2>2 DEF Writing
<1>16. Effects(req[c], q, rows, u)
  <2>1. Grew(rows, u)
    BY <1>9, <1>10, <1>11 DEF Grew
  <2>2. ASSUME NEW w \in Logs, NEW i \in DOMAIN rows, rows[i].kind \notin Unaudited PROVE Effect(req[c], q, rows[i], u[i], i, w)
    <3>1. CASE i = o
      BY <1>9, <1>15, <2>2, <3>1
    <3>2. CASE i # o
      BY <1>11, <1>14, <3>2 DEF Effect, Untouched
    <3> QED BY <3>1, <3>2
  <2> QED BY <1>11, <2>1, <2>2 DEF Effects
<1>17. LogsOK(q, u)
  <2>1. ASSUME NEW w \in Logs, NEW l, Due(q.todo, l, w) PROVE HasRow(q, l, u)
    <3>1. CASE l = k
      BY <1>8, <1>9, <1>11, <3>1 DEF HasRow
    <3>2. CASE l # k
      <4>1. HasRow(req[c], l, rows)
        BY <1>2, <1>12, <2>1, <3>2 DEF LogsOK, KeepsLog
      <4>2. req[c].names[l] # o
        BY <1>13, <3>2, <4>1 DEF HasRow
      <4> QED BY <1>3, <1>8, <1>11, <4>1, <4>2 DEF HasRow
    <3> QED BY <3>1, <3>2
  <2>2. Step(c).do \notin Inserting \cup {"readJournal"}
    BY <1>1 DEF Writing, Inserting
  <2>3. \A i \in DOMAIN rows : u[i].kind = rows[i].kind
    BY <1>11
  <2> QED BY <1>1, <1>3, <1>8, <1>11, <2>1, <2>2, <2>3, RestOK
<1> QED BY <1>6, <1>7, <1>8, <1>16, <1>17, GoAccounts

-----------------------------------------------------------------------------
(* A key that is known *)

\* Without a write and without an entry nothing is due, and nothing is asked of the rest.
Wordless(t, w) == \A s \in ToSet(t) : s.do \notin Telling \cup Ensuring \cup {w}

LEMMA WordlessLog ==
  ASSUME NEW rp, NEW t, NEW kind, NEW M, NEW w, w # "writeJournal", EntriesKnown(rp, t, kind, w), NEW u, ToSet(u) \subseteq ToSet(t),
         Wordless(t, w), NEW N
  PROVE  Logged(rp, u, kind, N, w) /\ Wordless(u, w)
<1>1. Wordless(u, w) /\ \A n \in DOMAIN u : u[n].do \notin Telling \cup Ensuring \cup {w}
  BY DEF Wordless, ToSet
<1>2. EntryFollows(u, w) /\ EntryIsSure(u, kind, N, w)
  BY <1>1 DEF EntryFollows, EntryIsSure
<1>3. EntriesKnown(rp, u, kind, w)
  BY DEF EntriesKnown
<1> QED BY <1>1, <1>2, <1>3 DEF Logged

LEMMA ReuseAccounts ==
  ASSUME NEW c, Acts(c), Reuse(c)
  PROVE  TrailInv'
<1>1. req[c].todo # <<>> /\ Step(c).do = "reuse"
  BY DEF Reuse, At, Step
<1>2. Step(c).do \notin Telling \cup Logs \cup Inserting
  <2>1. Quiet(Step(c).do)
    BY <1>1 DEF Quiet, Telling, Inserting
  <2> QED BY <2>1, QuietSteps
<1>3. /\ c \in Slots /\ RowsOK(rows) /\ NamesOK(req[c].names, rows) /\ IsSeq(req[c].todo)
      /\ Step(c) \in ToSet(req[c].todo) /\ IsCall(req[c])
      /\ \A w \in Logs : Logged(R, req[c].todo, req[c].kind, MissingOf(req[c].names), w)
      /\ SameForLogs(req[c], req[c]) /\ TablesAlike(rows, rows)
  BY <1>1, ActsOn, SameCalls
<1>4. CASE Go(c, req[c], rows)
  BY <1>1, <1>2, <1>3, <1>4, QuietStep
<1>5. PICK k : k = Step(c).of
  OBVIOUS
<1>6. CASE \E i \in IdsOf(k) :
             Go(c, [req[c] EXCEPT !.names = Named(@, k, i), !.todo = <<Head(@)>> \o SubSeq(@, 3, Len(@))], rows)
  <2>1. PICK i \in IdsOf(k) :
             Go(c, [req[c] EXCEPT !.names = Named(@, k, i), !.todo = <<Head(@)>> \o SubSeq(@, 3, Len(@))], rows)
    BY <1>6
  <2>2. PICK n, h, t : /\ n = Named(req[c].names, k, i) /\ h = Head(req[c].todo)
                       /\ t = <<h>> \o SubSeq(req[c].todo, 3, Len(req[c].todo))
    OBVIOUS
  <2>3. PICK r, q : r = [req[c] EXCEPT !.names = n, !.todo = t] /\ q = After(r)
    OBVIOUS
  <2>4. Go(c, r, rows)
    BY <2>1, <2>2, <2>3
  <2>5. IsCall(r) /\ IsCall(q) /\ q.kind = req[c].kind /\ q.to = req[c].to /\ q.names = n /\ q.todo = Tail(t)
    BY <1>3, <2>3 DEF IsCall, After
  <2>6. t # <<>> /\ IsSeq(t) /\ ToSet(Tail(t)) \subseteq ToSet(req[c].todo)
    <3>1. h \in ToSet(req[c].todo)
      BY <1>3, <2>2 DEF Step
    <3> QED BY <1>3, <2>2, <3>1, SkippedSteps
  <2>7. ASSUME NEW w \in Logs
        PROVE  w # "writeJournal" /\ EntriesKnown(R, req[c].todo, req[c].kind, w) /\ Wordless(req[c].todo, w) /\ k = req[c].kind
    <3>1. EntriesKnown(R, req[c].todo, req[c].kind, w)
      BY <1>3 DEF Logged
    <3> QED BY <1>1, <1>3, <1>5, <3>1 DEF EntriesKnown, Wordless
  <2>8. k = req[c].kind /\ "writeJournal" \notin Logs
    BY <2>7, LogsKnown
  <2>9. ASSUME NEW w \in Logs PROVE Logged(R, q.todo, q.kind, MissingOf(q.names), w) /\ Wordless(q.todo, w)
    BY <2>5, <2>6, <2>7, WordlessLog
  <2>10. ASSUME NEW w \in Logs, NEW l PROVE ~Due(req[c].todo, l, w) /\ ~Due(q.todo, l, w)
    BY <2>7, <2>9 DEF Wordless, Due, ToSet
  <2>11. i \in DOMAIN rows /\ rows[i].kind = k
    BY DEF IdsOf, Ids
  <2>12. NamesOK(n, rows) /\ n[k] = i /\ k \in DOMAIN n
    <3>1. PICK names, u : names = req[c].names /\ u = rows
      OBVIOUS
    <3>2. /\ NamesOK(names, rows) /\ DOMAIN rows \subseteq DOMAIN u /\ DOMAIN u \subseteq Nat
          /\ \A j \in DOMAIN rows : u[j].kind = rows[j].kind
      BY <1>3, <3>1, RowIds
    <3>3. i \in DOMAIN u /\ u[i].kind = k
      BY <2>11, <3>1
    <3>4. NamesOK(Named(names, k, i), u)
      BY <3>2, <3>3, NamedRow
    <3>5. DOMAIN Named(names, k, i) = DOMAIN names \cup {k} /\ Named(names, k, i)[k] = i
      BY DEF Named
    <3> QED BY <2>2, <3>1, <3>4, <3>5
  <2>13. LogsOK(q, rows)
    <3>1. OwnRow(q, rows)
      BY <2>5, <2>8, <2>11, <2>12 DEF OwnRow
    <3>2. \A w \in Logs : KeepsLog(q, rows, w)
      BY <2>9, <2>10 DEF KeepsLog
    <3>3. JournalKnown(q, rows)
      BY <2>8 DEF JournalKnown
    <3>4. IsSeq(q.todo)
      BY <2>5, <2>6, TailOf
    <3> QED BY <2>5, <2>12, <3>1, <3>2, <3>3, <3>4 DEF LogsOK
  <2>14. Effects(req[c], q, rows, rows)
    <3>1. OweAlike(req[c], q)
      BY <2>10 DEF OweAlike, Owes
    <3> QED BY <1>3, <3>1, QuietEffects
  <2> QED BY <2>3, <2>4, <2>5, <2>13, <2>14, GoAccounts
<1> QED
  <2>1. PICK known : known = {i \in IdsOf(k) : req[c].key # None /\ rows[i].key = req[c].key}
    OBVIOUS
  <2>2. CASE known # {}
    <3>1. (CHOOSE i \in known : TRUE) \in known
      BY <2>2
    <3>2. (CHOOSE i \in known : TRUE) \in IdsOf(k)
      BY <2>1, <3>1
    <3>3. Go(c, [req[c] EXCEPT !.names = Named(@, k, CHOOSE i \in known : TRUE), !.todo = <<Head(@)>> \o SubSeq(@, 3, Len(@))], rows)
      BY <1>5, <2>1, <2>2 DEF Reuse
    <3> QED BY <1>6, <3>2, <3>3
  <2>3. CASE known = {}
    BY <1>4, <1>5, <2>1, <2>3 DEF Reuse
  <2> QED BY <2>2, <2>3


-----------------------------------------------------------------------------
(* A parent made on the spot *)

LEMMA InFront ==
  ASSUME NEW t, IsSeq(t), NEW s, NEW v, v = <<s>> \o t
  PROVE  IsSeq(v) /\ v # <<>> /\ v[1] = s /\ Tail(v) = t /\ ToSet(v) \subseteq {s} \cup ToSet(t)
<1> DEFINE S == {s} \cup ToSet(t)
<1>1. PICK a : a = <<s>>
  OBVIOUS
<1>2. a \in Seq(S) /\ Len(a) = 1 /\ a[1] = s
  BY <1>1
<1>3. t \in Seq(S) /\ Len(t) \in Nat
  <2>1. Len(t) \in Nat /\ t \in [1 .. Len(t) -> ToSet(t)]
    BY SeqOfAny DEF IsSeq
  <2>2. t \in [1 .. Len(t) -> S]
    BY <2>1
  <2> QED BY <2>1, <2>2
<1>4. /\ v \in Seq(S) /\ Len(v) = 1 + Len(t)
      /\ \A i \in 1 .. 1 + Len(t) : v[i] = IF i <= 1 THEN a[i] ELSE t[i - 1]
  <2> HIDE DEF S
  <2> QED BY <1>1, <1>2, <1>3, ConcatProperties
<1>5. v # <<>> /\ v[1] = s
  BY <1>2, <1>3, <1>4
<1>6. Tail(v) \in Seq(S) /\ Len(Tail(v)) = Len(t) /\ \A i \in 1 .. Len(t) : Tail(v)[i] = t[i]
  <2>1. Tail(v) \in Seq(S) /\ Len(Tail(v)) = Len(v) - 1 /\ \A i \in 1 .. Len(Tail(v)) : Tail(v)[i] = v[i + 1]
    <3> HIDE DEF S
    <3> QED BY <1>4, <1>5, HeadTailProperties
  <2>2. Len(Tail(v)) = Len(t)
    BY <1>3, <1>4, <2>1
  <2>3. ASSUME NEW i \in 1 .. Len(t) PROVE Tail(v)[i] = t[i]
    <3>1. i + 1 \in 1 .. 1 + Len(t) /\ ~(i + 1 <= 1) /\ i + 1 - 1 = i
      BY <1>3
    <3>2. v[i + 1] = t[i]
      BY <1>4, <3>1
    <3> QED BY <2>1, <2>2, <3>2
  <2> QED BY <2>1, <2>2, <2>3
<1>7. Tail(v) = t
  <2> HIDE DEF S
  <2> QED BY <1>3, <1>6, SeqEqual
<1>8. IsSeq(v) /\ ToSet(v) \subseteq S
  <2>1. DOMAIN v = 1 .. Len(v) /\ IsSeq(v)
    <3> HIDE DEF S
    <3> QED BY <1>4, SeqOfAny
  <2>2. \A i \in DOMAIN v : v[i] \in S
    <3> HIDE DEF S
    <3> QED BY <1>4, <2>1, ElementOfSeq
  <2> QED BY <2>1, <2>2 DEF ToSet
<1> QED BY <1>5, <1>7, <1>8

\* The steps that make a parent stand in front of the rest.
Made(k, b, rest) == <<Insert("insert", k, {})>> \o (IF b THEN <<Do("audit", k)>> \o rest ELSE rest)
Ensured(h, k, b, rest) ==
  <<h>> \o (<<Insert("insert", k, {})>> \o (IF b THEN <<Do("audit", k)>> ELSE <<>>)) \o rest

LEMMA Spliced ==
  ASSUME NEW h, NEW k, NEW b \in BOOLEAN, NEW rest, IsSeq(rest)
  PROVE  Tail(Ensured(h, k, b, rest)) = Made(k, b, rest)
<1>0. PICK g, e : g = Insert("insert", k, {}) /\ e = Do("audit", k)
  OBVIOUS
<1>. SUFFICES Tail(<<h>> \o (<<g>> \o (IF b THEN <<e>> ELSE <<>>)) \o rest) = <<g>> \o (IF b THEN <<e>> \o rest ELSE rest)
  BY <1>0 DEF Ensured, Made
<1> DEFINE S == {h, g, e} \cup ToSet(rest)
<1>1. PICK z, ah, ag : z = (IF b THEN <<e>> ELSE <<>>) /\ ah = <<h>> /\ ag = <<g>>
  OBVIOUS
<1>2. rest \in Seq(S)
  <2>1. Len(rest) \in Nat /\ rest \in [1 .. Len(rest) -> ToSet(rest)]
    BY SeqOfAny DEF IsSeq
  <2>2. rest \in [1 .. Len(rest) -> S]
    BY <2>1
  <2> QED BY <2>1, <2>2
<1>3. ah \in Seq(S) /\ ag \in Seq(S)
  BY <1>1
<1>4. z \in Seq(S)
  <2>1. CASE b
    <3>1. z = <<e>>
      BY <1>1, <2>1
    <3> QED BY <3>1
  <2>2. CASE ~b
    <3>1. z = <<>>
      BY <1>1, <2>2
    <3> QED BY <3>1
  <2> QED BY <2>1, <2>2
<1>5. ag \o z \in Seq(S) /\ z \o rest \in Seq(S) /\ ag \o (z \o rest) \in Seq(S)
  <2> HIDE DEF S
  <2> QED BY <1>2, <1>3, <1>4
<1>6. (ah \o (ag \o z)) \o rest = ah \o ((ag \o z) \o rest) /\ (ag \o z) \o rest = ag \o (z \o rest)
  <2> HIDE DEF S
  <2>1. (ah \o (ag \o z)) \o rest = ah \o ((ag \o z) \o rest)
    <3>1. PICK az : az = ag \o z
      OBVIOUS
    <3>2. az \in Seq(S)
      BY <1>5, <3>1
    <3>3. (ah \o az) \o rest = ah \o (az \o rest)
      BY <1>2, <1>3, <3>2, ConcatAssociative
    <3> QED BY <3>1, <3>3
  <2>2. (ag \o z) \o rest = ag \o (z \o rest)
    BY <1>2, <1>3, <1>4, ConcatAssociative
  <2> QED BY <2>1, <2>2
<1>7. IsSeq(ag \o (z \o rest))
  <2> HIDE DEF S
  <2> QED BY <1>5, SeqOfAny
<1>8. PICK y : y = ag \o (z \o rest)
  OBVIOUS
<1>9. Tail(ah \o y) = y
  BY <1>1, <1>7, <1>8, InFront
<1>10. z \o rest = IF b THEN <<e>> \o rest ELSE rest
  <2>1. CASE b
    BY <1>1, <2>1
  <2>2. CASE ~b
    <3>1. z = <<>>
      BY <1>1, <2>2
    <3>2. <<>> \o rest = rest
      <4> HIDE DEF S
      <4> QED BY <1>2, ConcatEmptySeq
    <3> QED BY <2>2, <3>1, <3>2
  <2> QED BY <2>1, <2>2
<1> QED BY <1>1, <1>6, <1>8, <1>9, <1>10

LEMMA WrittenMore ==
  ASSUME NEW t, IsSeq(t), t # <<>>, NEW k, WrittenWhenThere(Tail(t), k), t[1].do \notin Writing
  PROVE  WrittenWhenThere(t, k)
<1> SUFFICES ASSUME NEW n \in DOMAIN t, t[n].do \in Writing
             PROVE  \E m \in DOMAIN t : m < n /\ t[m].do \in Inserting /\ t[m].of = k
  BY DEF WrittenWhenThere
<1>1. n # 1 /\ n - 1 \in DOMAIN Tail(t) /\ Tail(t)[n - 1] = t[n] /\ n \in Nat
  BY FirstStep
<1>2. PICK m \in DOMAIN Tail(t) : m < n - 1 /\ Tail(t)[m].do \in Inserting /\ Tail(t)[m].of = k
  BY <1>1 DEF WrittenWhenThere
<1>3. m \in Nat /\ m + 1 \in DOMAIN t /\ t[m + 1] = Tail(t)[m]
  BY FirstStep
<1>4. m + 1 < n
  BY <1>1, <1>2, <1>3
<1> QED BY <1>2, <1>3, <1>4

\* The rest of the program is put behind the steps that make the parent.
Making(rp, t, kind, M, k, b, v) ==
  /\ IsSeq(t) /\ t # <<>> /\ Logged(rp, t, kind, M, "audit") /\ t[1].do \in Ensuring /\ k = t[1].of
  /\ b \in BOOLEAN /\ b = (t[1].do = "ensureAudited") /\ v = Made(k, b, Tail(t))

\* A program that goes on with making the parent keeps its log and owes what it owed.
LEMMA MadeLogged ==
  ASSUME NEW rp, NEW t, NEW kind, NEW M, NEW k, NEW b, NEW v, Making(rp, t, kind, M, k, b, v)
  PROVE  /\ IsSeq(v) /\ Logged(rp, v, kind, M, "audit") /\ \A l : Due(v, l, "audit") <=> Due(t, l, "audit")
         /\ WrittenWhenThere(t, kind) => WrittenWhenThere(v, kind)
<1> SUFFICES ASSUME IsSeq(t), t # <<>>, Logged(rp, t, kind, M, "audit"), t[1].do \in Ensuring, k = t[1].of,
                    b \in BOOLEAN, b = (t[1].do = "ensureAudited"), v = Made(k, b, Tail(t))
             PROVE  /\ IsSeq(v) /\ Logged(rp, v, kind, M, "audit") /\ \A l : Due(v, l, "audit") <=> Due(t, l, "audit")
                    /\ WrittenWhenThere(t, kind) => WrittenWhenThere(v, kind)
  BY DEF Making
<1>1. PICK g, e, rest, y : /\ g = Insert("insert", k, {}) /\ e = Do("audit", k) /\ rest = Tail(t)
                           /\ y = IF b THEN <<e>> \o rest ELSE rest
  OBVIOUS
<1>2. /\ g.do = "insert" /\ g.of = k /\ g.arg = None /\ g.under = {}
      /\ e.do = "audit" /\ e.of = k
  BY <1>1 DEF Insert, Do, If
<1>3. IsLog("audit") /\ 1 \in DOMAIN t /\ t[1] \in ToSet(t)
  BY FirstStep DEF IsLog, ToSet
<1>4. IsSeq(rest) /\ Logged(rp, rest, kind, M, "audit") /\ ToSet(rest) \subseteq ToSet(t)
  BY <1>1, <1>3, LoggedTail, TailOf
<1>5. EntryFollows(t, "audit") /\ EntriesKnown(rp, t, kind, "audit")
  BY DEF Logged
<1>6. /\ k # kind /\ (~b => k \in Unaudited) /\ (b => k \notin Unaudited /\ Still(rp, k))
      /\ \A x \in ToSet(rest) : x.do \notin {"reuse", "writeAudited"}
  BY <1>3, <1>4, <1>5 DEF EntriesKnown, Ensuring
<1>7. ASSUME NEW m \in DOMAIN t, m # 1, t[m].of = k
      PROVE  t[m].do \notin Telling \cup Ensuring \cup {"audit", "insertAudited"}
  BY <1>3, <1>5, <1>7 DEF EntryFollows
<1>8. ASSUME NEW x \in ToSet(rest), x.of = k PROVE x.do \notin Telling \cup Ensuring \cup {"audit", "insertAudited"}
  <2>1. PICK n \in DOMAIN rest : x = rest[n]
    BY DEF ToSet
  <2>2. n \in Nat /\ n + 1 \in DOMAIN t /\ rest[n] = t[n + 1] /\ n \in 1 .. Len(t) - 1 /\ Len(t) \in Nat
    BY <1>1, <2>1, FirstStep
  <2>3. n + 1 # 1
    BY <2>2
  <2> QED BY <1>7, <1>8, <2>1, <2>2, <2>3
<1>9. /\ IsSeq(y) /\ ToSet(y) \subseteq {e} \cup ToSet(rest) /\ Logged(rp, y, kind, M, "audit")
      /\ b => \E a \in DOMAIN y : y[a] = e
      /\ \A l : l # k => (Due(y, l, "audit") <=> Due(rest, l, "audit"))
      /\ WrittenWhenThere(rest, kind) => WrittenWhenThere(y, kind)
  <2>1. CASE b
    <3>1. y = <<e>> \o rest
      BY <1>1, <2>1
    <3>2. IsSeq(y) /\ y # <<>> /\ y[1] = e /\ Tail(y) = rest /\ ToSet(y) \subseteq {e} \cup ToSet(rest)
      BY <1>4, <3>1, InFront
    <3>3. 1 \in DOMAIN y
      BY <3>2, FirstStep
    <3>4. Logged(rp, y, kind, M, "audit")
      <4>1. MayPrecede(rp, e, rest, kind, M)
        BY <1>2, <1>6, <1>8, <2>1 DEF MayPrecede
      <4> QED BY <1>4, <3>2, <4>1, LoggedMore
    <3>5. \A l : l # k => (Due(y, l, "audit") <=> Due(rest, l, "audit"))
      BY <1>2, <3>2, DueAfter
    <3>6. WrittenWhenThere(rest, kind) => WrittenWhenThere(y, kind)
      BY <1>2, <3>2, WrittenMore DEF Writing
    <3> QED BY <3>2, <3>3, <3>4, <3>5, <3>6
  <2>2. CASE ~b
    BY <1>1, <1>4, <2>2
  <2> QED BY <2>1, <2>2
<1>10. IsSeq(v) /\ v # <<>> /\ v[1] = g /\ Tail(v) = y
  <2>1. v = <<g>> \o y
    BY <1>1 DEF Made
  <2> QED BY <1>9, <2>1, InFront
<1>11. Logged(rp, v, kind, M, "audit")
  <2>1. ~MayEnd(g, kind, M)
    BY <1>2, <1>6 DEF MayEnd, Ensuring
  <2>2. g.of \in Unaudited \/ \E a \in DOMAIN y : y[a].do = "audit" /\ y[a].of = g.of
    BY <1>2, <1>6, <1>9
  <2>3. ASSUME NEW x \in ToSet(y), x.of = g.of PROVE x.do \notin Telling \cup Ensuring \cup {"insertAudited"}
    <3>1. CASE x = e
      BY <1>2, <3>1 DEF Telling, Ensuring
    <3>2. CASE x \in ToSet(rest)
      BY <1>2, <1>8, <2>3, <3>2
    <3> QED BY <1>9, <3>1, <3>2
  <2>4. \A x \in ToSet(y) : x.do \notin {"reuse", "writeAudited"}
    BY <1>2, <1>6, <1>9
  <2>5. MayPrecede(rp, g, y, kind, M)
    BY <1>2, <2>1, <2>2, <2>3, <2>4 DEF MayPrecede
  <2> QED BY <1>9, <1>10, <2>5, LoggedMore
<1>12. ASSUME NEW l PROVE Due(v, l, "audit") <=> Due(t, l, "audit")
  <2>1. CASE l = k
    <3>1. 1 \in DOMAIN v
      BY <1>10, FirstStep
    <3>2. ~Due(v, l, "audit")
      BY <1>2, <1>10, <2>1, <3>1 DEF Due, Telling
    <3>3. ~Due(t, l, "audit")
      <4>1. t[1].do # "audit"
        BY DEF Ensuring
      <4> QED BY <1>7, <2>1, <4>1 DEF Due
    <3> QED BY <3>2, <3>3
  <2>2. CASE l # k
    <3>1. Due(y, l, "audit") <=> Due(v, l, "audit")
      BY <1>2, <1>10, <2>2, DueAfter
    <3>2. Due(Tail(t), l, "audit") <=> Due(t, l, "audit")
      BY <2>2, DueAfter
    <3> QED BY <1>1, <1>9, <2>2, <3>1, <3>2
  <2> QED BY <2>1, <2>2
<1>13. WrittenWhenThere(t, kind) => WrittenWhenThere(v, kind)
  <2>1. t[1].do \notin Inserting
    BY DEF Ensuring, Inserting
  <2>2. WrittenWhenThere(t, kind) => WrittenWhenThere(rest, kind)
    BY <1>1, <2>1, OwnRest
  <2>3. WrittenWhenThere(y, kind) => WrittenWhenThere(v, kind)
    BY <1>2, <1>10, WrittenMore DEF Writing
  <2> QED BY <1>9, <2>2, <2>3
<1> QED BY <1>10, <1>11, <1>12, <1>13


LEMMA NothingDueAtEnsure ==
  ASSUME NEW t, IsSeq(t), t # <<>>, NEW w, IsLog(w), EntryFollows(t, w), t[1].do \in Ensuring, NEW k, k = t[1].of
  PROVE  ~Due(t, k, w) /\ ~Due(Tail(t), k, w)
<1>1. 1 \in DOMAIN t /\ t[1].do # w /\ t[1].do \notin Telling
  BY FirstStep, LogsAreLogs DEF Ensuring, Telling, IsLog
<1>2. ~Due(t, k, w)
  BY <1>1 DEF EntryFollows, Due
<1>3. Due(Tail(t), k, w) <=> Due(t, k, w)
  BY <1>1, DueAfter
<1> QED BY <1>2, <1>3

\* What the call goes on with owes what it owed.
OwesOn(q, r) ==
  /\ q.kind = r.kind /\ q.to = r.to
  /\ \A l : /\ Due(q.todo, l, "audit") <=> Due(r.todo, l, "audit")
            /\ Due(r.todo, l, "audit") /\ l \in DOMAIN r.names => l \in DOMAIN q.names /\ q.names[l] = r.names[l]

LEMMA OwesOnAccounts ==
  ASSUME NEW c, Acts(c), req[c].todo # <<>>, Logs = {"audit"}, NEW r, IsCall(r), Go(c, r, rows),
         NEW q, q = After(r), OwesOn(q, req[c]), NamesOK(q.names, rows), OwnRow(q, rows), IsSeq(q.todo),
         Logged(R, q.todo, q.kind, MissingOf(q.names), "audit")
  PROVE  TrailInv'
<1>1. RowsOK(rows) /\ LogsOK(req[c], rows)
  BY ActsOn
<1>2. \A l : Due(req[c].todo, l, "audit") => HasRow(req[c], l, rows)
  BY <1>1, LogsKnown DEF LogsOK, KeepsLog
<1>3. \A l : Due(q.todo, l, "audit") => HasRow(q, l, rows)
  BY <1>2 DEF OwesOn, HasRow
<1>4. OweAlike(req[c], q)
  <2>1. ASSUME NEW i, NEW l
        PROVE  l \in DOMAIN q.names /\ Due(q.todo, l, "audit") /\ q.names[l] = i
                 <=> l \in DOMAIN req[c].names /\ Due(req[c].todo, l, "audit") /\ req[c].names[l] = i
    BY <1>2 DEF OwesOn, HasRow
  <2>2. ASSUME NEW i PROVE \A s : Owes(q, i, s, "audit") <=> Owes(req[c], i, s, "audit")
    BY <2>1, OweSame DEF OwesOn
  <2> QED BY <2>2 DEF OweAlike
<1>5. Effects(req[c], q, rows, rows)
  BY <1>1, <1>4, SameTable, QuietEffects
<1>6. IsCall(q)
  BY DEF After, IsCall
<1>7. LogsOK(q, rows)
  BY <1>3, <1>6 DEF LogsOK, KeepsLog, JournalKnown
<1> QED BY <1>5, <1>7, GoAccounts

LEMMA EnsureAccounts ==
  ASSUME NEW c, Acts(c), Ensure(c)
  PROVE  TrailInv'
<1>1. req[c].todo # <<>> /\ Step(c).do \in Ensuring
  BY DEF Ensure
<1>2. Step(c).do \notin Telling \cup Logs \cup Inserting /\ Step(c).do # "readJournal"
  <2>1. Quiet(Step(c).do) /\ Step(c).do # "readJournal"
    BY <1>1 DEF Quiet, Telling, Inserting, Ensuring
  <2> QED BY <2>1, QuietSteps
<1>3. /\ c \in Slots /\ RowsOK(rows) /\ LogsOK(req[c], rows) /\ NamesOK(req[c].names, rows) /\ IsSeq(req[c].todo)
      /\ Step(c) = req[c].todo[1] /\ Step(c) \in ToSet(req[c].todo) /\ IsCall(req[c])
      /\ \A w \in Logs : Logged(R, req[c].todo, req[c].kind, MissingOf(req[c].names), w)
      /\ SameForLogs(req[c], req[c]) /\ TablesAlike(rows, rows)
  BY <1>1, ActsOn, SameCalls
<1>4. PICK k, b, names, todo : /\ k = Step(c).of /\ b = (Step(c).do = "ensureAudited")
                               /\ names = req[c].names /\ todo = req[c].todo
  OBVIOUS
<1>5. k # req[c].kind /\ Logs = {"audit"} /\ b \in BOOLEAN
  <2>1. ASSUME NEW w \in Logs PROVE w # "writeJournal" /\ k # req[c].kind
    <3>1. EntriesKnown(R, req[c].todo, req[c].kind, w)
      BY <1>3 DEF Logged
    <3> QED BY <1>1, <1>3, <1>4, <3>1 DEF EntriesKnown
  <2> QED BY <1>4, <2>1, LogsKnown DEF IsLog
<1>6. Logged(R, todo, req[c].kind, MissingOf(names), "audit") /\ IsLog("audit")
  BY <1>3, <1>4, LogsKnown
<1>7. ~Due(todo, k, "audit") /\ ~Due(Tail(todo), k, "audit") /\ \A l : l # k => (Due(Tail(todo), l, "audit") <=> Due(todo, l, "audit"))
  <2>1. ~Due(todo, k, "audit") /\ ~Due(Tail(todo), k, "audit")
    BY <1>1, <1>3, <1>4, <1>6, NothingDueAtEnsure DEF Logged
  <2>2. ASSUME NEW l, l # k PROVE Due(Tail(todo), l, "audit") <=> Due(todo, l, "audit")
    BY <1>1, <1>3, <1>4, <2>2, DueAfter
  <2> QED BY <2>1, <2>2
<1>8. CASE Go(c, req[c], rows)
  BY <1>1, <1>2, <1>3, <1>8, QuietStep
<1>9. CASE End(c)
  <2>1. MayEnd(Step(c), req[c].kind, MissingOf(req[c].names))
    BY <1>1 DEF MayEnd
  <2> QED BY <1>1, <1>2, <1>9, <2>1, EndAccounts
<1>10. CASE IdsOf(k) # {} /\ Go(c, [req[c] EXCEPT !.names = Named(@, k, Max(IdsOf(k)))], rows)
  <2>1. PICK i : i = Max(IdsOf(k))
    OBVIOUS
  <2>2. i \in DOMAIN rows /\ rows[i].kind = k
    <3>1. Len(rows) \in Nat /\ IdsOf(k) \subseteq 1 .. Len(rows)
      BY <1>3, RowIds DEF IdsOf, Ids
    <3>2. i \in IdsOf(k)
      BY <1>10, <2>1, <3>1, MaxOfIds
    <3> QED BY <3>2 DEF IdsOf, Ids
  <2>3. PICK n, u : n = Named(names, k, i) /\ u = rows
    OBVIOUS
  <2>4. NamesOK(n, rows) /\ DOMAIN n = DOMAIN names \cup {k} /\ n[k] = i /\ \A l \in DOMAIN names : l # k => n[l] = names[l]
    <3>1. NamesOK(names, rows) /\ DOMAIN rows \subseteq DOMAIN u /\ DOMAIN u \subseteq Nat
          /\ \A j \in DOMAIN rows : u[j].kind = rows[j].kind
      BY <1>3, <1>4, <2>3, RowIds
    <3>2. i \in DOMAIN u /\ u[i].kind = k
      BY <2>2, <2>3
    <3>3. NamesOK(Named(names, k, i), u)
      BY <3>1, <3>2, NamedRow
    <3>4. DOMAIN Named(names, k, i) = DOMAIN names \cup {k} /\ Named(names, k, i)[k] = i
          /\ \A l \in DOMAIN names : l # k => Named(names, k, i)[l] = names[l]
      BY DEF Named
    <3> QED BY <2>3, <3>3, <3>4
  <2>5. PICK r, q : r = [req[c] EXCEPT !.names = n] /\ q = After(r)
    OBVIOUS
  <2>6. Go(c, r, rows)
    BY <1>4, <1>10, <2>1, <2>3, <2>5
  <2>7. IsCall(r) /\ q.kind = req[c].kind /\ q.to = req[c].to /\ q.names = n /\ q.todo = Tail(todo)
    BY <1>3, <1>4, <2>5 DEF IsCall, After
  <2>8. OwesOn(q, req[c])
    BY <1>4, <1>7, <2>4, <2>7 DEF OwesOn
  <2>9. OwnRow(q, rows)
    <3>1. OwnRow(req[c], rows)
      BY <1>3 DEF LogsOK
    <3>2. WrittenWhenThere(todo, req[c].kind) => WrittenWhenThere(Tail(todo), req[c].kind)
      BY <1>1, <1>2, <1>3, <1>4, OwnRest
    <3> QED BY <1>4, <1>5, <2>4, <2>7, <3>1, <3>2 DEF OwnRow
  <2>10. IsSeq(q.todo) /\ Logged(R, q.todo, q.kind, MissingOf(q.names), "audit")
    <3>1. MissingOf(n) \subseteq MissingOf(names)
      <4>1. i # Missing
        BY <1>3, <2>2, RowIds
      <4> QED BY <2>4, <4>1 DEF MissingOf
    <3> QED BY <1>1, <1>3, <1>4, <1>6, <2>7, <3>1, LoggedRest, LogsKnown
  <2>11. NamesOK(q.names, rows)
    BY <2>4, <2>7
  <2> QED BY <1>1, <1>5, <2>5, <2>6, <2>7, <2>8, <2>9, <2>10, <2>11, OwesOnAccounts
<1>11. CASE Go(c, [req[c] EXCEPT !.todo = <<Head(@)>> \o (<<Insert("insert", k, {})>> \o
                     (IF Step(c).do = "ensureAudited" THEN <<Do("audit", k)>> ELSE <<>>)) \o Tail(@)], rows)
  <2>1. PICK h, rest, t, v : h = Head(todo) /\ rest = Tail(todo) /\ t = Ensured(h, k, b, rest) /\ v = Made(k, b, rest)
    OBVIOUS
  <2>2. PICK r, q : r = [req[c] EXCEPT !.todo = t] /\ q = After(r)
    OBVIOUS
  <2>3. Go(c, r, rows)
    BY <1>4, <1>11, <2>1, <2>2 DEF Ensured
  <2>4. IsSeq(rest)
    BY <1>1, <1>3, <1>4, <2>1, TailOf
  <2>5. Tail(t) = v
    BY <1>5, <2>1, <2>4, Spliced
  <2>6. IsCall(r) /\ q.kind = req[c].kind /\ q.to = req[c].to /\ q.names = names /\ q.todo = v
    BY <1>3, <1>4, <2>2, <2>5 DEF IsCall, After
  <2>7. /\ IsSeq(v) /\ Logged(R, v, req[c].kind, MissingOf(names), "audit") /\ \A l : Due(v, l, "audit") <=> Due(todo, l, "audit")
        /\ WrittenWhenThere(todo, req[c].kind) => WrittenWhenThere(v, req[c].kind)
    <3>1. PICK rp, M, kind : rp = R /\ M = MissingOf(names) /\ kind = req[c].kind
      OBVIOUS
    <3>2. Making(rp, todo, kind, M, k, b, v)
      BY <1>1, <1>3, <1>4, <1>5, <1>6, <2>1, <3>1 DEF Making
    <3> QED BY <3>1, <3>2, MadeLogged
  <2>8. OwesOn(q, req[c])
    BY <1>4, <2>6, <2>7 DEF OwesOn
  <2>9. OwnRow(q, rows)
    <3>1. OwnRow(req[c], rows)
      BY <1>3 DEF LogsOK
    <3> QED BY <1>4, <2>6, <2>7, <3>1 DEF OwnRow
  <2>10. NamesOK(q.names, rows) /\ IsSeq(q.todo) /\ Logged(R, q.todo, q.kind, MissingOf(q.names), "audit")
    BY <1>3, <1>4, <2>6, <2>7
  <2> QED BY <1>1, <1>5, <2>2, <2>3, <2>6, <2>8, <2>9, <2>10, OwesOnAccounts
<1> QED BY <1>4, <1>8, <1>9, <1>10, <1>11 DEF Ensure


-----------------------------------------------------------------------------
(* A row that is inserted *)

\* The first status of the row an insert makes, and its log as it stands then.
FirstStatus(c) == IF Step(c).of = req[c].kind THEN req[c].to ELSE "active"
NewLogs(c, row) ==
  /\ IsRow(row) /\ row.kind = Step(c).of /\ row.status = FirstStatus(c) /\ row.hist = <<FirstStatus(c)>>
  /\ IsSeq(row.hist) /\ IsSeq(row.trail) /\ IsSeq(row.journal)
  /\ row.trail = (IF Step(c).do = "insertAudited" THEN row.hist ELSE <<>>) /\ row.journal = <<>>

LEMMA NewRowLogs ==
  ASSUME NEW c, NEW row, row = NewRow(c)
  PROVE  NewLogs(c, row)
<1>1. PICK status, p, kind : /\ status = FirstStatus(c) /\ kind = Step(c).of
                             /\ p = {req[c].names[k] : k \in Step(c).under \cap DOMAIN req[c].names}
  OBVIOUS
<1>2. PICK base : base = Answered(kind, status, p)
  OBVIOUS
<1>3. PICK key, journal, whole, trail, number :
        /\ key = IF Step(c).of = req[c].kind THEN req[c].key ELSE None
        /\ journal = <<>> /\ whole = ~(Step(c).of = req[c].kind)
        /\ trail = IF Step(c).do = "insertAudited" THEN base.trail ELSE <<>>
        /\ number = IF Step(c).do = "insertNumbered" THEN req[c].count + 1 ELSE 0
  OBVIOUS
<1>4. row = [base EXCEPT !.key = key, !.journal = journal, !.whole = whole, !.trail = trail, !.number = number]
  BY <1>1, <1>2, <1>3 DEF NewRow, FirstStatus
<1>5. IsRow(base) /\ base.kind = kind /\ base.status = status /\ base.hist = <<status>> /\ base.trail = <<status>>
  BY <1>2 DEF Answered, IsRow
<1>6. /\ IsRow(row) /\ row.kind = base.kind /\ row.status = base.status /\ row.hist = base.hist
      /\ row.trail = trail /\ row.journal = journal
  BY <1>4, <1>5 DEF IsRow
<1>7. IsSeq(<<status>>) /\ IsSeq(journal)
  BY <1>3, OneStatus DEF IsSeq, ToSet
<1>8. trail = (IF Step(c).do = "insertAudited" THEN <<status>> ELSE <<>>) /\ IsSeq(trail)
  <2>1. CASE Step(c).do = "insertAudited"
    BY <1>3, <1>5, <1>7, <2>1
  <2>2. CASE Step(c).do # "insertAudited"
    BY <1>3, <1>7, <2>2
  <2> QED BY <2>1, <2>2
<1> QED BY <1>1, <1>3, <1>5, <1>6, <1>7, <1>8 DEF NewLogs

\* Table u is t with the new row id and perhaps a part of it that no log is about.
Inserted(t, u, id, row) ==
  /\ RowsOK(u) /\ DOMAIN t \subseteq DOMAIN u /\ id \in DOMAIN u \ DOMAIN t
  /\ \A i \in DOMAIN t : LogsAlike(t[i], u[i])
  /\ LogsAlike(row, u[id])
  /\ \A i \in DOMAIN u \ DOMAIN t : i = id \/ u[i].kind \in Unaudited

LEMMA RowInserted ==
  ASSUME NEW t, RowsOK(t), NEW row, IsRow(row), IsSeq(row.hist), IsSeq(row.trail), IsSeq(row.journal),
         NEW u, u = WithRow(t, row), NEW id, id = Len(t) + 1
  PROVE  Inserted(t, u, id, row)
<1>1. IsSeq(t)
  BY DEF RowsOK
<1>2. /\ IsSeq(u) /\ Len(t) \in Nat /\ DOMAIN t = 1 .. Len(t) /\ DOMAIN u = 1 .. Len(t) + 1
      /\ u[Len(t) + 1] = row /\ \A i \in DOMAIN t : u[i] = t[i]
  BY <1>1, Appended DEF WithRow
<1>3. /\ DOMAIN t \subseteq DOMAIN u /\ id \in DOMAIN u \ DOMAIN t /\ u[id] = row
      /\ \A i \in DOMAIN u \ DOMAIN t : i = id
  BY <1>2
<1>4. RowsOK(u)
  <2>1. \A i \in DOMAIN u : u[i] = row \/ (i \in DOMAIN t /\ u[i] = t[i])
    BY <1>2, <1>3
  <2> QED BY <1>2, <2>1 DEF RowsOK
<1>5. \A i \in DOMAIN t : LogsAlike(t[i], u[i])
  BY <1>2, SameTable DEF TablesAlike
<1>6. LogsAlike(row, u[id])
  BY <1>3 DEF LogsAlike
<1> QED BY <1>3, <1>4, <1>5, <1>6 DEF Inserted

LEMMA InsertedAlike ==
  ASSUME NEW t, NEW u, NEW id, NEW row, Inserted(t, u, id, row), NEW v, TablesAlike(u, v)
  PROVE  Inserted(t, v, id, row)
<1>1. RowsOK(v) /\ DOMAIN v = DOMAIN u /\ \A i \in DOMAIN u : LogsAlike(u[i], v[i])
  BY AlikeRowsOK DEF Inserted, TablesAlike
<1>2. \A a, b, d : LogsAlike(a, b) /\ LogsAlike(b, d) => LogsAlike(a, d)
  BY DEF LogsAlike
<1>3. \A i \in DOMAIN t : i \in DOMAIN u /\ LogsAlike(t[i], u[i])
  BY DEF Inserted
<1>4. id \in DOMAIN u /\ LogsAlike(row, u[id])
  BY DEF Inserted
<1>5. (\A i \in DOMAIN t : LogsAlike(t[i], v[i])) /\ LogsAlike(row, v[id])
  BY <1>1, <1>2, <1>3, <1>4
<1>6. \A i \in DOMAIN u : v[i].kind = u[i].kind
  BY <1>1 DEF LogsAlike
<1> QED BY <1>1, <1>5, <1>6 DEF Inserted

LEMMA PartInserted ==
  ASSUME NEW t, NEW u, NEW id, NEW row, Inserted(t, u, id, row), NEW part, IsRow(part), part.kind \in Unaudited,
         IsSeq(part.hist), IsSeq(part.trail), IsSeq(part.journal), NEW v, v = WithRow(u, part)
  PROVE  Inserted(t, v, id, row)
<1>1. PICK n : n = Len(u) + 1
  OBVIOUS
<1>2. RowsOK(u)
  BY DEF Inserted
<1>3. Inserted(u, v, n, part)
  BY <1>1, <1>2, RowInserted
<1>4. RowsOK(v) /\ DOMAIN u \subseteq DOMAIN v /\ \A i \in DOMAIN u : LogsAlike(u[i], v[i])
  BY <1>3 DEF Inserted
<1>5. \A i \in DOMAIN v \ DOMAIN u : v[i].kind \in Unaudited
  BY <1>3 DEF Inserted, LogsAlike
<1>6. \A a, b, d : LogsAlike(a, b) /\ LogsAlike(b, d) => LogsAlike(a, d)
  BY DEF LogsAlike
<1>7. /\ \A i \in DOMAIN t : i \in DOMAIN u /\ LogsAlike(t[i], u[i])
      /\ id \in DOMAIN u \ DOMAIN t /\ LogsAlike(row, u[id])
      /\ \A i \in DOMAIN u \ DOMAIN t : i = id \/ u[i].kind \in Unaudited
  BY DEF Inserted
<1>8. (\A i \in DOMAIN t : LogsAlike(t[i], v[i])) /\ LogsAlike(row, v[id])
  BY <1>4, <1>6, <1>7
<1>9. \A i \in DOMAIN u : v[i].kind = u[i].kind
  BY <1>4 DEF LogsAlike
<1> QED BY <1>4, <1>5, <1>7, <1>8, <1>9 DEF Inserted

\* What is due after an insert: nothing was of the row, now its entry is unless it came along.
LEMMA DueAfterInsert ==
  ASSUME NEW c, Acts(c), req[c].todo # <<>>, Step(c).do \in Inserting, NEW k, k = Step(c).of, NEW w \in Logs
  PROVE  /\ ~Due(req[c].todo, k, w)
         /\ \A l : l # k => (Due(Tail(req[c].todo), l, w) <=> Due(req[c].todo, l, w))
         /\ k \in Unaudited => ~Due(Tail(req[c].todo), k, w)
         /\ k \notin Unaudited => (Due(Tail(req[c].todo), k, w) <=> Step(c).do # "insertAudited")
         /\ Step(c).do = "insertAudited" => w = "audit"
<1>1. PICK t : t = req[c].todo
  OBVIOUS
<1>2. /\ IsSeq(t) /\ t # <<>> /\ Step(c) = t[1] /\ Step(c) \in ToSet(t) /\ IsLog(w)
      /\ EntryFollows(t, w) /\ EntriesKnown(R, t, req[c].kind, w) /\ 1 \in DOMAIN t
  BY <1>1, ActsOn, LogsKnown DEF Logged
<1>3. t[1].do # w /\ (t[1].do # "insertAudited" => t[1].do \in Telling)
  BY <1>2, LogsAreLogs DEF Inserting, Telling
<1>4. ~Due(t, k, w)
  <2>1. CASE t[1].do \in Telling
    BY <1>2, <2>1 DEF Due
  <2>2. CASE t[1].do = "insertAudited"
    BY <1>2, <1>3, <2>2 DEF Due, EntryFollows
  <2> QED BY <1>3, <2>1, <2>2
<1>5. ASSUME NEW l, l # k PROVE Due(Tail(t), l, w) <=> Due(t, l, w)
  BY <1>2, <1>5, DueAfter
<1>6. ASSUME k \in Unaudited PROVE ~Due(Tail(t), k, w)
  <2>1. ToSet(Tail(t)) \subseteq ToSet(t)
    BY <1>2, TailOf
  <2> SUFFICES ASSUME NEW a \in DOMAIN Tail(t), Tail(t)[a].do = w, Tail(t)[a].of = k PROVE FALSE
    BY DEF Due
  <2>2. Tail(t)[a] \in ToSet(t)
    BY <2>1 DEF ToSet
  <2> QED BY <1>2, <1>6, <2>2 DEF EntriesKnown
<1>7. ASSUME k \notin Unaudited PROVE Due(Tail(t), k, w) <=> t[1].do # "insertAudited"
  <2>1. CASE t[1].do \in Telling
    <3>1. t[1].do # "insertAudited"
      BY <2>1 DEF Telling
    <3> QED BY <1>2, <1>7, <2>1, <3>1, DueAfterWrite
  <2>2. CASE t[1].do = "insertAudited"
    <3>1. t[1].do \notin Telling \cup {w}
      BY <1>3, <2>2 DEF Telling
    <3>2. Due(Tail(t), k, w) <=> Due(t, k, w)
      BY <1>2, <3>1, DueAfter
    <3> QED BY <1>4, <2>2, <3>2
  <2> QED BY <1>3, <2>1, <2>2
<1>8. t[1].do = "insertAudited" => w = "audit"
  BY <1>2, LogsKnown DEF EntriesKnown, IsLog
<1> QED BY <1>1, <1>2, <1>4, <1>5, <1>6, <1>7, <1>8


LEMMA InsertedAccounts ==
  ASSUME NEW c, Acts(c), req[c].todo # <<>>, Step(c).do \in Inserting,
         NEW row, NewLogs(c, row), NEW id, NEW u, Inserted(rows, u, id, row),
         NEW r, IsCall(r), r.kind = req[c].kind, r.to = req[c].to, r.todo = req[c].todo,
         r.names = Named(req[c].names, Step(c).of, id), Go(c, r, u)
  PROVE  TrailInv'
<1>1. /\ c \in Slots /\ RowsOK(rows) /\ LogsOK(req[c], rows) /\ NamesOK(req[c].names, rows) /\ IsSeq(req[c].todo)
      /\ Step(c) = req[c].todo[1] /\ Step(c) \in ToSet(req[c].todo)
      /\ \A w \in Logs : Logged(R, req[c].todo, req[c].kind, MissingOf(req[c].names), w)
  BY ActsOn
<1>2. PICK k, x, names, n, todo, q :
        /\ k = Step(c).of /\ x = FirstStatus(c) /\ names = req[c].names /\ n = Named(names, k, id)
        /\ todo = req[c].todo /\ q = After(r)
  OBVIOUS
<1>3. IsCall(q) /\ q.kind = req[c].kind /\ q.to = req[c].to /\ q.names = n /\ q.todo = Tail(todo)
  BY <1>2 DEF After, IsCall
<1>4. DOMAIN n = DOMAIN names \cup {k} /\ n[k] = id /\ \A l \in DOMAIN names : l # k => n[l] = names[l]
  <2>1. DOMAIN Named(names, k, id) = DOMAIN names \cup {k} /\ Named(names, k, id)[k] = id
        /\ \A l \in DOMAIN names : l # k => Named(names, k, id)[l] = names[l]
    BY DEF Named
  <2> QED BY <1>2, <2>1
<1>5. /\ RowsOK(u) /\ DOMAIN rows \subseteq DOMAIN u /\ id \in DOMAIN u /\ id \notin DOMAIN rows
      /\ \A i \in DOMAIN rows : /\ u[i].kind = rows[i].kind /\ u[i].status = rows[i].status /\ u[i].hist = rows[i].hist
                                /\ \A w \in Logs : LogOf(u[i], w) = LogOf(rows[i], w)
      /\ u[id].kind = k /\ u[id].status = x /\ u[id].hist = <<x>> /\ \A w \in Logs : LogOf(u[id], w) = LogOf(row, w)
      /\ \A i \in DOMAIN u \ DOMAIN rows : i = id \/ u[i].kind \in Unaudited
  BY <1>2 DEF Inserted, LogsAlike, NewLogs
<1>6. id # Missing /\ DOMAIN u \subseteq Nat
  BY <1>5, RowIds
<1>7. ASSUME NEW l \in DOMAIN n, n[l] = id PROVE l = k
  <2>1. l \in DOMAIN names => names[l] \in DOMAIN rows \cup {Missing}
    BY <1>1, <1>2 DEF NamesOK
  <2> QED BY <1>4, <1>5, <1>6, <1>7, <2>1
<1>8. ASSUME NEW w \in Logs
      PROVE  /\ ~Due(todo, k, w)
             /\ \A l : l # k => (Due(q.todo, l, w) <=> Due(todo, l, w))
             /\ k \in Unaudited => ~Due(q.todo, k, w)
             /\ k \notin Unaudited => (Due(q.todo, k, w) <=> Step(c).do # "insertAudited")
             /\ Step(c).do = "insertAudited" => w = "audit"
  BY <1>2, <1>3, DueAfterInsert
<1>9. ASSUME NEW w \in Logs, NEW i, i # id PROVE \A s : Owes(q, i, s, w) <=> Owes(req[c], i, s, w)
  <2>1. ASSUME NEW l PROVE l \in DOMAIN q.names /\ Due(q.todo, l, w) /\ q.names[l] = i
                              <=> l \in DOMAIN req[c].names /\ Due(req[c].todo, l, w) /\ req[c].names[l] = i
    <3>1. CASE l = k
      BY <1>2, <1>3, <1>4, <1>8, <1>9, <3>1
    <3>2. CASE l # k
      BY <1>2, <1>3, <1>4, <1>8, <3>2
    <3> QED BY <3>1, <3>2
  <2> QED BY <1>3, <2>1, OweSame
<1>10. ASSUME NEW w \in Logs, k \notin Unaudited PROVE NewEffect(q, u[id], id, w)
  <2>1. StatusOwed(q, k) = x
    BY <1>2, <1>3 DEF StatusOwed, FirstStatus
  <2>2. CASE Step(c).do # "insertAudited"
    <3>1. LogOf(u[id], w) = <<>>
      BY <1>5, <2>2 DEF NewLogs, LogOf
    <3>2. Due(q.todo, k, w)
      BY <1>8, <1>10, <2>2
    <3>3. ASSUME NEW s PROVE Owes(q, id, s, w) <=> s = x
      BY <1>3, <1>4, <1>7, <2>1, <3>2 DEF Owes
    <3> QED BY <1>5, <3>1, <3>3 DEF NewEffect
  <2>3. CASE Step(c).do = "insertAudited"
    <3>1. w = "audit" /\ ~Due(q.todo, k, w)
      BY <1>8, <1>10, <2>3
    <3>2. LogOf(u[id], w) = u[id].hist
      BY <1>2, <1>5, <2>3, <3>1 DEF NewLogs, LogOf
    <3>3. ASSUME NEW s PROVE ~Owes(q, id, s, w)
      BY <1>3, <1>7, <3>1 DEF Owes
    <3> QED BY <3>2, <3>3 DEF NewEffect
  <2> QED BY <2>2, <2>3
<1>11. Effects(req[c], q, rows, u)
  <2>1. Grew(rows, u)
    BY <1>5 DEF Grew
  <2>2. ASSUME NEW w \in Logs, NEW i \in DOMAIN rows PROVE Effect(req[c], q, rows[i], u[i], i, w)
    BY <1>5, <1>9 DEF Effect, Untouched
  <2>3. ASSUME NEW w \in Logs, NEW i \in DOMAIN u \ DOMAIN rows, u[i].kind \notin Unaudited PROVE NewEffect(q, u[i], i, w)
    BY <1>5, <1>10, <2>3
  <2> QED BY <2>1, <2>2, <2>3 DEF Effects
<1>12. NamesOK(n, u)
  <2>1. NamesOK(names, rows) /\ \A j \in DOMAIN rows : u[j].kind = rows[j].kind
    BY <1>1, <1>2, <1>5
  <2>2. NamesOK(Named(names, k, id), u)
    BY <1>5, <1>6, <2>1, NamedRow
  <2> QED BY <1>2, <2>2
<1>13. OwnRow(q, u)
  <2>1. CASE k = req[c].kind
    BY <1>3, <1>4, <1>5, <2>1 DEF OwnRow
  <2>2. CASE k # req[c].kind
    <3>1. OwnRow(req[c], rows)
      BY <1>1 DEF LogsOK
    <3>2. WrittenWhenThere(todo, req[c].kind) => WrittenWhenThere(Tail(todo), req[c].kind)
      BY <1>1, <1>2, <2>2, WrittenTail
    <3> QED BY <1>2, <1>3, <1>4, <1>5, <2>2, <3>1, <3>2 DEF OwnRow
  <2> QED BY <2>1, <2>2
<1>14. ASSUME NEW w \in Logs PROVE KeepsLog(q, u, w)
  <2>1. Logged(R, q.todo, q.kind, MissingOf(q.names), w)
    <3>1. MissingOf(n) \subseteq MissingOf(names)
      BY <1>4, <1>6 DEF MissingOf
    <3> QED BY <1>1, <1>2, <1>3, <3>1, LoggedRest
  <2>2. ASSUME NEW l, Due(q.todo, l, w) PROVE HasRow(q, l, u)
    <3>1. CASE l = k
      BY <1>2, <1>3, <1>4, <1>5, <3>1 DEF HasRow, FirstStatus
    <3>2. CASE l # k
      <4>1. HasRow(req[c], l, rows)
        BY <1>1, <1>2, <1>8, <2>2, <3>2 DEF LogsOK, KeepsLog
      <4> QED BY <1>2, <1>3, <1>4, <1>5, <3>2, <4>1 DEF HasRow
    <3> QED BY <3>1, <3>2
  <2> QED BY <2>1, <2>2 DEF KeepsLog
<1>15. JournalKnown(q, u)
  <2> SUFFICES ASSUME "writeJournal" \in Logs, 1 \in DOMAIN q.todo, q.todo[1].do = "writeJournal" PROVE FALSE
    BY DEF JournalKnown
  <2>1. JournalRead(todo)
    BY <1>1, <1>2 DEF Logged
  <2>2. todo[1].do = "readJournal"
    BY <1>1, <1>2, <1>3, <2>1, JournalNext
  <2> QED BY <1>1, <1>2, <2>2 DEF Inserting
<1>16. IsSeq(q.todo)
  BY <1>1, <1>2, <1>3, TailOf
<1>17. LogsOK(q, u)
  BY <1>3, <1>12, <1>13, <1>14, <1>15, <1>16 DEF LogsOK
<1> QED BY <1>2, <1>11, <1>17, GoAccounts

LEMMA InsertRowAccounts ==
  ASSUME NEW c, Acts(c), InsertRow(c)
  PROVE  TrailInv'
<1>1. req[c].todo # <<>> /\ Step(c).do \in Inserting
  BY DEF InsertRow
<1>2. /\ c \in Slots /\ RowsOK(rows) /\ LogsOK(req[c], rows) /\ NamesOK(req[c].names, rows) /\ IsSeq(req[c].todo)
      /\ Step(c) = req[c].todo[1] /\ Step(c) \in ToSet(req[c].todo) /\ IsCall(req[c])
      /\ \A w \in Logs : Logged(R, req[c].todo, req[c].kind, MissingOf(req[c].names), w)
  BY <1>1, ActsOn
<1>3. CASE Refused(c) /\ End(c)
  <2>1. MayEnd(Step(c), req[c].kind, MissingOf(req[c].names))
    BY <1>1, <1>3 DEF Refused, MayEnd, MissingOf
  <2>2. Step(c).do \notin Logs
    BY <1>1, LogsKnown DEF IsLog, Inserting
  <2> QED BY <1>1, <1>3, <2>1, <2>2, EndAccounts
<1>4. CASE ~Refused(c)
  <2>1. PICK row, id, table, kind : row = NewRow(c) /\ id = Len(rows) + 1 /\ table = Append(rows, row) /\ kind = Step(c).of
    OBVIOUS
  <2>2. NewLogs(c, row)
    BY <2>1, NewRowLogs
  <2>3. Inserted(rows, table, id, row)
    <3>1. table = WithRow(rows, row)
      BY <2>1 DEF WithRow
    <3>2. IsRow(row) /\ IsSeq(row.hist) /\ IsSeq(row.trail) /\ IsSeq(row.journal)
      BY <2>2 DEF NewLogs
    <3> QED BY <1>2, <2>1, <3>1, <3>2, RowInserted
  <2>4. PICK x, numbered : /\ x = req[c].names["thread"]
                           /\ numbered = IF Step(c).do # "insertNumbered" THEN table
                                         ELSE [table EXCEPT ![x].latest = row.number]
    OBVIOUS
  <2>5. Inserted(rows, numbered, id, row)
    <3>1. CASE Step(c).do # "insertNumbered"
      BY <2>3, <2>4, <3>1
    <3>2. CASE Step(c).do = "insertNumbered"
      <4>1. PICK v : v = [table[x] EXCEPT !.latest = row.number]
        OBVIOUS
      <4>2. RowsOK(table)
        BY <2>3 DEF Inserted
      <4>3. x \in DOMAIN table => LogsAlike(table[x], v)
        BY <4>1, <4>2 DEF RowsOK, IsRow, LogsAlike, LogOf
      <4>4. numbered = Put(table, x, v)
        BY <2>4, <3>2, <4>1 DEF Put
      <4>5. TablesAlike(table, numbered)
        BY <4>2, <4>3, <4>4, PutAlike
      <4> QED BY <2>3, <4>5, InsertedAlike
    <3> QED BY <3>1, <3>2
  <2>6. PICK part, both : /\ part = [Answered(Step(c).arg, "open", {id}) EXCEPT !.trail = <<>>]
                          /\ both = Append(table, part)
    OBVIOUS
  <2>7. ASSUME Step(c).arg # None PROVE Inserted(rows, both, id, row)
    <3>1. PICK base, k : k = Step(c).arg /\ base = Answered(k, "open", {id})
      OBVIOUS
    <3>2. IsRow(base) /\ base.kind = k /\ base.hist = <<"open">> /\ base.journal = <<"open">>
      BY <3>1 DEF Answered, IsRow
    <3>3. PICK none : none = <<>>
      OBVIOUS
    <3>4. part = [base EXCEPT !.trail = none]
      BY <2>6, <3>1, <3>3
    <3>5. IsRow(part) /\ part.kind = k /\ part.hist = <<"open">> /\ part.journal = <<"open">> /\ part.trail = none
      BY <3>2, <3>4 DEF IsRow
    <3>6. IsSeq(<<"open">>) /\ IsSeq(none)
      BY <3>3, OneStatus DEF IsSeq, ToSet
    <3>7. k \in Unaudited
      <4>1. EntriesKnown(R, req[c].todo, req[c].kind, "audit")
        BY <1>2, LogsKnown DEF Logged
      <4> QED BY <1>1, <1>2, <2>7, <3>1, <4>1 DEF EntriesKnown
    <3>8. both = WithRow(table, part)
      BY <2>6 DEF WithRow
    <3> QED BY <2>3, <3>5, <3>6, <3>7, <3>8, PartInserted
  <2>8. PICK u : u = IF Step(c).arg = None THEN numbered ELSE both
    OBVIOUS
  <2>9. Inserted(rows, u, id, row)
    BY <2>5, <2>7, <2>8
  <2>10. PICK names, n : names = req[c].names /\ n = Named(names, kind, id)
    OBVIOUS
  <2>11. PICK r : r = [req[c] EXCEPT !.names = n, !.count = 0]
    OBVIOUS
  <2>12. row.kind = kind
    BY <2>1, <2>2 DEF NewLogs
  <2>13. Go(c, r, u)
    BY <1>4, <2>1, <2>4, <2>6, <2>8, <2>10, <2>11, <2>12, Zenon DEF InsertRow
  <2>14. IsCall(r) /\ r.kind = req[c].kind /\ r.to = req[c].to /\ r.names = n /\ r.todo = req[c].todo
    BY <1>2, <2>11 DEF IsCall
  <2>15. r.names = Named(req[c].names, Step(c).of, id)
    BY <2>1, <2>10, <2>14
  <2> QED BY <1>1, <2>2, <2>9, <2>13, <2>14, <2>15, InsertedAccounts
<1> QED BY <1>3, <1>4 DEF InsertRow


-----------------------------------------------------------------------------
(* Calls begin and are left *)

LEMMA LoggedFewer ==
  ASSUME NEW t, NEW kind, NEW M, NEW N, N \subseteq M, NEW w, Logged(R, t, kind, M, w)
  PROVE  Logged(R, t, kind, N, w)
<1>1. EntryIsSure(t, kind, N, w)
  BY FewerMissing DEF Logged, EntryIsSure
<1> QED BY <1>1 DEF Logged

\* A program begins without a debt to any log.
LEMMA ProgramStarts ==
  ASSUME repo \in DOMAIN Repositories, NEW t, RowsOK(t), NEW q, IsCall(q), IsSeq(q.todo), NamesOK(q.names, t), OwnRow(q, t),
         NEW M, MissingOf(q.names) \subseteq M, \A w \in LogsOf(repo) : Logged(R, q.todo, q.kind, M, w) /\ NothingOwed(q.todo, w)
  PROVE  LogsOK(q, t) /\ \A w \in Logs : \A k : ~Due(q.todo, k, w)
<1>1. ASSUME NEW w \in Logs PROVE Logged(R, q.todo, q.kind, MissingOf(q.names), w) /\ NothingOwed(q.todo, w)
  <2>1. w \in LogsOf(repo)
    BY DEF Logs, LogsOf
  <2> QED BY <2>1, LoggedFewer
<1>2. ASSUME NEW w \in Logs, NEW k PROVE ~Due(q.todo, k, w)
  BY <1>1 DEF NothingOwed, Due
<1>3. JournalKnown(q, t)
  <2> SUFFICES ASSUME "writeJournal" \in Logs, 1 \in DOMAIN q.todo, q.todo[1].do = "writeJournal" PROVE FALSE
    BY DEF JournalKnown
  <2>1. PICK m \in DOMAIN q.todo : m < 1
    BY <1>1 DEF NothingOwed
  <2>2. q.todo # <<>>
    OBVIOUS
  <2>3. m \in Nat /\ m >= 1
    BY <2>2, FirstStep
  <2> QED BY <2>1, <2>3
<1> QED BY <1>1, <1>2, <1>3 DEF LogsOK, KeepsLog

LEMMA BeginAccounts ==
  ASSUME TrailInv, mode \in {"serial", "overlap"}, NEW c \in Slots, Free(c), NEW q, req' = [req EXCEPT ![c] = q], LogsOK(q, rows),
         \A w \in Logs : \A k : ~Due(q.todo, k, w)
  PROVE  TrailInv'
<1>1. req[c] = Idle /\ UNCHANGED frozen /\ rows' = rows /\ failures' = failures /\ (mode = "serial" => AtRest)
  BY DEF Free
<1>2. mode = "serial" => \A d \in Slots \ {c} : req[d] = Idle
  BY <1>1 DEF AtRest
<1>3. OweAlike(req[c], q)
  BY <1>1, IdleOwesNothing DEF OweAlike, Owes
<1>4. Effects(req[c], q, rows, rows')
  BY <1>1, <1>3, SameTable, QuietEffects DEF TrailInv
<1> QED BY <1>1, <1>2, <1>4, StepIsAccounted

LEMMA CreateAccounts ==
  ASSUME TrailInv, mode \in {"serial", "overlap"}, NEW c \in Slots, Create(c)
  PROVE  TrailInv'
<1>1. PICK op \in DOMAIN R.creates : \E kinds \in R.creates[op].names :
        \E key \in (IF R.creates[op].keyed THEN Keys ELSE {}) \cup {None} : \E names \in [kinds -> Ids \cup {Missing}] :
          /\ \A k \in kinds : names[k] # Missing => rows[names[k]].kind = k
          /\ req' = [req EXCEPT ![c] = [Idle EXCEPT
               !.op = op, !.kind = R.creates[op].kind, !.key = key, !.names = names, !.to = R.creates[op].status,
               !.todo = Program(R.creates[op], kinds)]]
  BY DEF Create
<1>2. PICK kinds \in R.creates[op].names : \E key, names :
          /\ names \in [kinds -> Ids \cup {Missing}]
          /\ \A k \in kinds : names[k] # Missing => rows[names[k]].kind = k
          /\ req' = [req EXCEPT ![c] = [Idle EXCEPT
               !.op = op, !.kind = R.creates[op].kind, !.key = key, !.names = names, !.to = R.creates[op].status,
               !.todo = Program(R.creates[op], kinds)]]
  BY <1>1
<1>3. PICK d, t : d = R.creates[op] /\ t = Program(R.creates[op], kinds)
  OBVIOUS
<1>4. PICK key, names :
          /\ names \in [kinds -> Ids \cup {Missing}]
          /\ \A k \in kinds : names[k] # Missing => rows[names[k]].kind = k
          /\ req' = [req EXCEPT ![c] = [Idle EXCEPT
               !.op = op, !.kind = d.kind, !.key = key, !.names = names, !.to = d.status, !.todo = t]]
  BY <1>2, <1>3
<1>5. PICK q : q = [Idle EXCEPT !.op = op, !.kind = d.kind, !.key = key, !.names = names, !.to = d.status, !.todo = t]
  OBVIOUS
<1>6. req' = [req EXCEPT ![c] = q]
  BY <1>4, <1>5
<1>7. IsCall(q) /\ q.kind = d.kind /\ q.names = names /\ q.to = d.status /\ q.todo = t
  BY <1>5 DEF Idle, IsCall
<1>8. repo \in DOMAIN Repositories /\ RowsOK(rows)
  BY DEF TrailInv
<1>9. IsSeq(t) /\ WrittenWhenThere(t, d.kind) /\ LogsAreKept(repo, t, d.kind, kinds)
  BY <1>3, <1>8, ProgramsAssumption DEF R, IsSeq
<1>10. NamesOK(names, rows) /\ DOMAIN names = kinds
  <2>1. Missing \notin DOMAIN rows
    BY <1>8, RowIds
  <2>2. names = [k \in kinds |-> names[k]] /\ DOMAIN names = kinds /\ \A k \in kinds : names[k] \in DOMAIN rows \cup {Missing}
    BY <1>4 DEF Ids
  <2> QED BY <1>4, <2>1, <2>2 DEF NamesOK
<1>11. d.kind \notin kinds /\ \A w \in LogsOf(repo) : Logged(R, t, d.kind, kinds, w) /\ NothingOwed(t, w)
  BY <1>9 DEF LogsAreKept, R
<1>12. OwnRow(q, rows)
  BY <1>7, <1>9, <1>10, <1>11 DEF OwnRow
<1>13. MissingOf(q.names) \subseteq kinds
  BY <1>7, <1>10 DEF MissingOf
<1>14. LogsOK(q, rows) /\ \A w \in Logs : \A k : ~Due(q.todo, k, w)
  BY <1>7, <1>8, <1>9, <1>10, <1>11, <1>12, <1>13, ProgramStarts
<1> QED BY <1>6, <1>14, BeginAccounts DEF Create

LEMMA MoveAccounts ==
  ASSUME TrailInv, mode \in {"serial", "overlap"}, NEW c \in Slots, Move(c)
  PROVE  TrailInv'
<1>1. PICK i \in Ids : rows[i].kind \in DOMAIN R.moves /\
        \E to \in UNION Range(R.moves[rows[i].kind].table) :
          req' = [req EXCEPT ![c] = [Idle EXCEPT
             !.op = "move", !.kind = rows[i].kind, !.names = [k \in {rows[i].kind} |-> i], !.to = to,
             !.todo = R.moves[rows[i].kind].todo]]
  BY DEF Move
<1>2. PICK kind, d : kind = rows[i].kind /\ d = R.moves[kind]
  OBVIOUS
<1>3. PICK to \in UNION Range(d.table) :
        req' = [req EXCEPT ![c] = [Idle EXCEPT !.op = "move", !.kind = kind, !.names = [k \in {kind} |-> i], !.to = to, !.todo = d.todo]]
  BY <1>1, <1>2
<1>4. PICK names, t : names = [k \in {kind} |-> i] /\ t = d.todo
  OBVIOUS
<1>5. PICK q : q = [Idle EXCEPT !.op = "move", !.kind = kind, !.names = names, !.to = to, !.todo = t]
  OBVIOUS
<1>6. req' = [req EXCEPT ![c] = q]
  BY <1>3, <1>4, <1>5
<1>7. IsCall(q) /\ q.kind = kind /\ q.names = names /\ q.to = to /\ q.todo = t
  BY <1>5 DEF Idle, IsCall
<1>8. repo \in DOMAIN Repositories /\ RowsOK(rows)
  BY DEF TrailInv
<1>9. IsSeq(t) /\ LogsAreKept(repo, t, kind, {})
  BY <1>1, <1>2, <1>4, <1>8, ProgramsAssumption DEF R, Moving, IsSeq
<1>10. NamesOK(names, rows) /\ kind \in DOMAIN names /\ names[kind] = i /\ i \in DOMAIN rows
  BY <1>2, <1>4 DEF NamesOK, Ids
<1>11. \A w \in LogsOf(repo) : Logged(R, t, kind, {}, w) /\ NothingOwed(t, w)
  BY <1>9 DEF LogsAreKept, R
<1>12. OwnRow(q, rows)
  BY <1>7, <1>10 DEF OwnRow
<1>13. MissingOf(q.names) \subseteq {}
  <2>1. i # Missing
    BY <1>8, <1>10, RowIds
  <2> QED BY <1>4, <1>7, <2>1 DEF MissingOf
<1>14. LogsOK(q, rows) /\ \A w \in Logs : \A k : ~Due(q.todo, k, w)
  BY <1>7, <1>8, <1>9, <1>10, <1>11, <1>12, <1>13, ProgramStarts
<1> QED BY <1>6, <1>14, BeginAccounts DEF Move

\* A call that is left may owe an entry for ever, and that is a failure.
LEMMA AbandonAccounts ==
  ASSUME TrailInv, NEW c \in Slots, Abandon(c)
  PROVE  TrailInv'
<1>1. UNCHANGED frozen /\ rows' = rows /\ req' = [req EXCEPT ![c] = Idle] /\ failures' = failures + 1
  BY DEF Abandon, End
<1>2. failures' \in Nat /\ failures' # 0
  BY <1>1 DEF TrailInv
<1>3. req' = [d \in Slots |-> req'[d]] /\ \A d \in Slots : req'[d] # Idle => req'[d] = req[d]
  BY <1>1 DEF TrailInv
<1>4. \A d \in Slots : req'[d] # Idle => LogsOK(req'[d], rows')
  BY <1>1, <1>3 DEF TrailInv
<1>5. (\A d \in Slots : req[d] # Idle => LogsOK(req[d], rows))'
  BY <1>1, <1>4, SameLogs DEF Idle
<1>6. RowsOK(rows)'
  BY <1>1 DEF TrailInv, RowsOK
<1>7. (repo \in DOMAIN Repositories)'
  BY <1>1, SameLogs DEF TrailInv
<1> QED BY <1>2, <1>3, <1>5, <1>6, <1>7 DEF TrailInv

-----------------------------------------------------------------------------
(* The logs agree *)

LEMMA InitTrail == Init => TrailInv
<1> SUFFICES ASSUME Init PROVE TrailInv
  OBVIOUS
<1>1. repo \in DOMAIN Repositories /\ Seeded(R, rows) /\ failures \in Nat /\ req = [c \in Slots |-> req[c]]
      /\ \A c \in Slots : req[c] = Idle
  BY ProgramsAssumption DEF Init, R
<1>2. ASSUME NEW i \in DOMAIN rows
      PROVE  /\ IsRow(rows[i]) /\ IsSeq(rows[i].hist) /\ IsSeq(rows[i].trail) /\ IsSeq(rows[i].journal)
             /\ rows[i].trail = rows[i].hist /\ rows[i].journal = rows[i].hist
  <2>1. PICK k, x, p : rows[i] = Answered(k, x, p)
    BY <1>1 DEF Seeded
  <2>2. IsRow(rows[i]) /\ rows[i].hist = <<x>> /\ rows[i].trail = <<x>> /\ rows[i].journal = <<x>>
    BY <2>1 DEF Answered, IsRow
  <2> QED BY <2>2, OneStatus
<1>3. RowsOK(rows)
  BY <1>1, <1>2 DEF RowsOK, Seeded, IsSeq
<1>4. \A c \in Slots : \A i, s, w : ~Owes(req[c], i, s, w)
  BY <1>1, IdleOwesNothing
<1>5. ASSUME NEW i \in DOMAIN rows PROVE Balanced(rows[i], req, i) /\ \A w \in Logs : LastDue(rows[i], req, i, w)
  <2>1. Balanced(rows[i], req, i)
    <3> SUFFICES ASSUME NEW s PROVE Times(rows[i].hist, s) = Times(rows[i].trail, s) + Cardinality(Owing(req, i, s))
      BY DEF Balanced
    <3>1. Owing(req, i, s) = {}
      BY <1>4 DEF Owing
    <3>2. Cardinality(Owing(req, i, s)) = 0
      BY <3>1, FS_EmptySet
    <3>3. Times(rows[i].trail, s) \in Nat
      BY <1>2, TimesFinite
    <3> QED BY <1>2, <3>2, <3>3
  <2>2. \A w \in Logs : LastDue(rows[i], req, i, w)
    BY <1>2, <1>4 DEF LastDue, LogOf
  <2> QED BY <2>1, <2>2
<1> QED BY <1>1, <1>3, <1>5 DEF TrailInv, Accounted

LEMMA ActsInAwait ==
  ASSUME TrailInv, GovInv, NEW c \in Slots, Await(c)
  PROVE  Acts(c)
<1>1. req[c].todo # <<>>
  <2>1. (LookUp(c) \/ LookUpAny(c) \/ Reuse(c) \/ FindParent(c) \/ FindSource(c) \/ Ensure(c)) => req[c].todo # <<>>
    BY Zenon DEF At, LookUp, LookUpAny, Reuse, FindParent, FindSource, Ensure
  <2>2. (ReadNumbers(c) \/ InsertRow(c) \/ ReadRefs(c) \/ WriteRefs(c) \/ SetRefs(c)) => req[c].todo # <<>>
    BY Zenon DEF At, ReadNumbers, InsertRow, ReadRefs, WriteRefs, SetRefs
  <2>3. (ReadStatus(c) \/ WriteStatus(c) \/ ReadUses(c) \/ WriteUses(c)) => req[c].todo # <<>>
    BY Zenon DEF At, ReadStatus, WriteStatus, ReadUses, WriteUses
  <2>4. (Audit(c) \/ ReadJournal(c) \/ WriteJournal(c)) => req[c].todo # <<>>
    BY Zenon DEF At, Audit, ReadJournal, WriteJournal
  <2> QED BY <2>1, <2>2, <2>3, <2>4, Zenon DEF Await
<1>2. req[c] # Idle
  BY <1>1 DEF Idle
<1>3. UNCHANGED <<frozen, failures>>
  BY Zenon DEF Await
<1>4. mode = "serial" => \A d \in Slots \ {c} : req[d] = Idle
  BY <1>2 DEF GovInv, Serial, Alone
<1> QED BY <1>3, <1>4 DEF Acts

ModeOK == mode \in {"serial", "overlap"}

LEMMA NextTrail == ModeOK /\ GovInv /\ TrailInv /\ [Next]_vars => TrailInv'
<1> SUFFICES ASSUME ModeOK, GovInv, TrailInv, [Next]_vars PROVE TrailInv'
  OBVIOUS
<1>1. CASE UNCHANGED vars
  <2>1. UNCHANGED frozen /\ rows' = rows /\ req' = req /\ repo' = repo /\ mode' = mode /\ failures' = failures
    BY <1>1 DEF vars, frozen
  <2>2. (\A c \in Slots : req[c] # Idle => LogsOK(req[c], rows))'
    BY <2>1, SameLogs DEF TrailInv, Idle
  <2>3. (failures = 0 => Accounted(rows, req))'
    BY <2>1, SameLogs DEF TrailInv
  <2>4. RowsOK(rows)'
    BY <2>1 DEF TrailInv, RowsOK
  <2> QED BY <2>1, <2>2, <2>3, <2>4 DEF TrailInv
<1>2. ASSUME NEW c \in Slots, Create(c) \/ Move(c) \/ Await(c) \/ Abandon(c) PROVE TrailInv'
  <2>1. CASE Create(c)
    BY <2>1, CreateAccounts DEF ModeOK
  <2>2. CASE Move(c)
    BY <2>2, MoveAccounts DEF ModeOK
  <2>3. CASE Abandon(c)
    BY <2>3, AbandonAccounts
  <2>4. CASE Await(c)
    <3>1. Acts(c)
      BY <2>4, ActsInAwait
    <3>2. CASE LookUp(c) \/ LookUpAny(c) \/ FindParent(c) \/ FindSource(c) \/ ReadNumbers(c) \/ ReadUses(c) \/ ReadJournal(c)
      BY <3>1, <3>2, ReadsAccount
    <3>3. CASE Reuse(c)
      BY <3>1, <3>3, ReuseAccounts
    <3>4. CASE Ensure(c)
      BY <3>1, <3>4, EnsureAccounts
    <3>5. CASE InsertRow(c)
      BY <3>1, <3>5, InsertRowAccounts
    <3>6. CASE ReadRefs(c) \/ WriteRefs(c) \/ SetRefs(c)
      BY <3>1, <3>6, ListsAccount
    <3>7. CASE ReadStatus(c)
      BY <3>1, <3>7, ReadStatusAccounts
    <3>8. CASE WriteStatus(c)
      BY <3>1, <3>8, WriteStatusAccounts
    <3>9. CASE WriteUses(c)
      BY <3>1, <3>9, WriteUsesAccounts
    <3>10. CASE Audit(c)
      BY <3>1, <3>10, AuditAccounts
    <3>11. CASE WriteJournal(c)
      BY <3>1, <3>11, WriteJournalAccounts
    <3> QED BY <2>4, <3>2, <3>3, <3>4, <3>5, <3>6, <3>7, <3>8, <3>9, <3>10, <3>11, Zenon DEF Await
  <2> QED BY <1>2, <2>1, <2>2, <2>3, <2>4
<1> QED BY <1>1, <1>2 DEF Next

LEMMA ModeStays == ModeOK /\ [Next]_vars => ModeOK'
<1> SUFFICES ASSUME ModeOK, [Next]_vars PROVE ModeOK'
  OBVIOUS
<1>1. mode' = mode
  BY Zenon DEF Next, vars, frozen, Create, Move, Await, Abandon, Free
<1> QED BY <1>1 DEF ModeOK

\* At rest and never abandoned, no call owes an entry.
LEMMA TrailAccounts == TrailInv => HistoryIsAccountedFor
<1> SUFFICES ASSUME TrailInv, AtRest, failures = 0, NEW i \in Ids, rows[i].kind \notin Unaudited
             PROVE  /\ \A s \in ToSet(rows[i].hist) \cup ToSet(rows[i].trail) : Times(rows[i].trail, s) = Times(rows[i].hist, s)
                    /\ mode = "serial" => /\ rows[i].trail = rows[i].hist
                                          /\ repo = "collaboration" => rows[i].journal = rows[i].hist
  BY DEF HistoryIsAccountedFor
<1>1. /\ i \in DOMAIN rows /\ IsSeq(rows[i].trail) /\ Balanced(rows[i], req, i)
      /\ mode = "serial" => \A w \in Logs : LastDue(rows[i], req, i, w)
  BY DEF TrailInv, Accounted, RowsOK, Ids
<1>2. \A c \in Slots : \A s, w : ~Owes(req[c], i, s, w)
  BY IdleOwesNothing DEF AtRest
<1>3. ASSUME NEW s PROVE Times(rows[i].trail, s) = Times(rows[i].hist, s)
  <2>1. Owing(req, i, s) = {}
    BY <1>2 DEF Owing
  <2>2. Cardinality(Owing(req, i, s)) = 0
    BY <2>1, FS_EmptySet
  <2>3. Times(rows[i].hist, s) = Times(rows[i].trail, s) + Cardinality(Owing(req, i, s)) /\ Times(rows[i].trail, s) \in Nat
    BY <1>1, TimesFinite DEF Balanced
  <2> QED BY <2>2, <2>3
<1>4. ASSUME mode = "serial", NEW w \in Logs PROVE rows[i].hist = LogOf(rows[i], w)
  BY <1>1, <1>2, <1>4 DEF LastDue
<1>5. ASSUME mode = "serial" PROVE rows[i].trail = rows[i].hist
  <2>1. rows[i].hist = LogOf(rows[i], "audit")
    BY <1>4, <1>5, LogsKnown
  <2> QED BY <2>1 DEF LogOf
<1>6. ASSUME mode = "serial", repo = "collaboration" PROVE rows[i].journal = rows[i].hist
  <2>1. "writeJournal" \in Logs
    BY <1>6 DEF Logs, LogsOf
  <2>2. rows[i].hist = LogOf(rows[i], "writeJournal")
    BY <1>4, <1>6, <2>1
  <2> QED BY <2>2 DEF LogOf
<1> QED BY <1>3, <1>5, <1>6

\* When no call is in flight and none was abandoned, the audit trail of every
\* record holds each status exactly as often as the record took it, however the
\* calls overlapped and whichever were refused; one call at a time it is the
\* record's history itself, and so is the journal of a collaboration record.  A
\* call is refused only where it owes no entry, and whoever wrote a status is
\* the one call that will still enter it.
THEOREM HistoryStaysAccountedFor == Spec => []HistoryIsAccountedFor
<1>1. Init => ModeOK
  BY DEF Init, ModeOK
<1>2. Spec => []ModeOK
  BY <1>1, ModeStays, PTL DEF Spec
<1>3. Spec => []TrailInv
  BY <1>2, GovInvHolds, InitTrail, NextTrail, PTL DEF Spec
<1> QED BY <1>3, TrailAccounts, PTL

=============================================================================
