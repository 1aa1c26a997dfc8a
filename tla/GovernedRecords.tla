--------------------------- MODULE GovernedRecords ---------------------------
(***************************************************************************)
(* The governance records of src/src/lib: a dozen repositories of rows     *)
(* that are created under other rows, listed in them, moved along a status *)
(* table and told to an audit trail.  The repositories differ in which     *)
(* awaits a call makes and in what order, so here a call is a program: the *)
(* sequence of its awaits, each one step of this machine.  The programs    *)
(* themselves, one definition per function of the code, are in the module  *)
(* GovernanceRepositories.                                                 *)
(*                                                                         *)
(* Calls of two HTTP requests may overlap (mode "overlap"), a call may be  *)
(* left by an exception or a stop of the process between two awaits        *)
(* (Abandon), and one statement or one prisma.$transaction is one step.    *)
(***************************************************************************)
EXTENDS Naturals, Sequences, FiniteSets, SequencesExt

CONSTANTS Repositories,  \* name -> [creates, moves]
          Slots,         \* HTTP requests in flight at once
          Keys,          \* idempotency keys a caller may send
          None, Missing, \* no key; the id of a row that does not exist
          MaxUses,       \* maxUses of a resume token
          Seeds,         \* name -> the tables a behaviour may start with
          Setup,         \* the first calls run one by one
          MaxRequests, MaxFailures

ASSUME SlotsAreFinite == IsFiniteSet(Slots)
ASSUME BoundsAreNat == {MaxUses, Setup, MaxRequests, MaxFailures} \subseteq Nat

VARIABLES repo,      \* the repository of this behaviour
          mode,      \* "serial" | "overlap"
          rows,      \* the tables: a row's id is its place
          req,       \* Slots -> the call in flight
          requests,  \* calls made so far
          failures   \* calls abandoned so far

vars == <<repo, mode, rows, req, requests, failures>>
frozen == <<repo, mode>>

-----------------------------------------------------------------------------
(* A step: what is awaited, for rows of which kind, the parent a caller must *)
(* have named for the step to be taken at all, the rows it is under, and an  *)
(* argument.                                                                 *)
Always == "always"
If(parent, do, kind) == [do |-> do, of |-> kind, given |-> parent, under |-> {}, arg |-> None]
Do(do, kind) == If(Always, do, kind)
Find(kind) == If(kind, "find", kind)
FindUnder(kind, owner) == [Find(kind) EXCEPT !.under = {owner}]
\* one statement, or with do = "insertAudited" one transaction with the audit row
Insert(do, kind, parents) == [Do(do, kind) EXCEPT !.under = parents]
Write(do, kind, status) == [Do(do, kind) EXCEPT !.arg = status]
\* read a parent's list of ids, then write it back with the new id in front
List(kind) == <<If(kind, "readRefs", kind), If(kind, "writeRefs", kind)>>
ListThrough(parent, kind) ==
    LET far(do) == [If(parent, do, kind) EXCEPT !.arg = parent]
    IN  <<far("readRefs"), far("writeRefs")>>
Journal(kind) == <<Do("readJournal", kind), Do("writeJournal", kind)>>

Optional(kinds) == SUBSET kinds
OneOf(kinds) == {{k} : k \in kinds}

\* a creating function: the kind of its row, the sets of parents a caller may
\* name, whether it takes an idempotency key, its first status, its awaits
Creates(kind, names, keyed, status, todo) ==
    [kind |-> kind, names |-> names, keyed |-> keyed, status |-> status, todo |-> todo]
\* a status function: its awaits, the table it consults, the statuses that
\* set reviewedBy and what the others do to it
Moves(todo, table, signed, others) ==
    [todo |-> todo, table |-> table, signed |-> signed, others |-> others]

\* the awaits of a creating call that names parents of these kinds
Program(d, kinds) == SelectSeq(d.todo, LAMBDA s : s.given \in kinds \cup {Always})

\* a row as an answered creating call leaves it
Answered(kind, status, parents) ==
    [kind |-> kind, key |-> None, status |-> status, of |-> parents, refs |-> {},
     hist |-> <<status>>, trail |-> <<status>>, journal |-> <<status>>, reviewer |-> FALSE,
     whole |-> TRUE, number |-> 0, latest |-> 0, opened |-> 0]

Inserting == {"insert", "insertAudited", "insertNumbered", "insertOnce"}
Ensuring == {"ensure", "ensureAudited"}
Writing == {"writeStatus", "writeAudited"}
\* the writes whose entry in a log is an await of its own, and the rows that have no entry
Telling == {"insert", "insertNumbered", "insertOnce", "writeStatus"}
Unaudited == {"policy", "auditPolicy", "token", "finding"}

-----------------------------------------------------------------------------
(* What the functions of the code have in common, and every repository that *)
(* is put in place of Repositories.                                         *)

\* the kinds of the parents that list records of this kind
ListersIn(rp, k) ==
    UNION {{s.of : s \in {x \in ToSet(rp.creates[op].todo) : x.do = "writeRefs" /\ x.arg = None}} :
           op \in {o \in DOMAIN rp.creates : rp.creates[o].kind = k}}

\* a list is written right after it was read
Paired(t) ==
    \A n \in DOMAIN t :
      /\ t[n].do = "readRefs" =>
           /\ n + 1 \in DOMAIN t
           /\ t[n + 1].do = "writeRefs" /\ t[n + 1].of = t[n].of /\ t[n + 1].arg = t[n].arg
      /\ t[n].do = "writeRefs" /\ n > 1 => t[n - 1].do = "readRefs"

\* a listed record is inserted once, before it is put in the lists of its parents
InsertedThenListed(t, kind, parents) ==
    \A n \in DOMAIN t : t[n].do \in Inserting =>
      /\ t[n].do = "insert" /\ t[n].of = kind /\ t[n].arg = None
      /\ \A m \in DOMAIN t : t[m].do \in Inserting => m = n
      /\ \A k \in t[n].under \cap parents : \E m \in DOMAIN t :
           m > n /\ t[m].do = "writeRefs" /\ t[m].arg = None /\ t[m].of = k

\* the other programs insert no record that a parent would list, and touch no list
Unlisted(rp, t) ==
    \A s \in ToSet(t) :
      /\ s.do \notin {"readRefs", "writeRefs"}
      /\ s.do = "setRefs" => \A op \in DOMAIN rp.creates : ListersIn(rp, rp.creates[op].kind) = {}
      /\ s.do \in Inserting \cup Ensuring => ListersIn(rp, s.of) = {}
      /\ s.do \in Inserting /\ s.arg # None => ListersIn(rp, s.arg) = {}

ListsAreKept(rp, d, t, kinds) ==
    LET parents == ListersIn(rp, d.kind) IN
    IF parents = {} THEN Unlisted(rp, t)
    ELSE /\ \A s \in ToSet(t) : s.do \in {"find", "insert", "readRefs", "writeRefs", "audit"}
         /\ Paired(t) /\ t[1].do # "writeRefs" /\ d.kind \notin parents
         /\ \E n \in DOMAIN t : t[n].do \in Inserting
         /\ InsertedThenListed(t, d.kind, parents \cap kinds)

\* a first status needs no reviewer
Fresh(rp, kind, status) ==
    kind \in DOMAIN rp.moves /\ rp.moves[kind].others # "clear" => status \notin rp.moves[kind].signed

\* a status is only written to the row of the call, once there is one
WrittenWhenThere(t, kind) ==
    \A n \in DOMAIN t : t[n].do \in Writing =>
      \E m \in DOMAIN t : m < n /\ t[m].do \in Inserting /\ t[m].of = kind

StatusesAreFresh(rp, d, t) ==
    \A s \in ToSet(t) :
      /\ s.do \in Inserting => /\ Fresh(rp, s.of, IF s.of = d.kind THEN d.status ELSE "active")
                               /\ s.arg # None => Fresh(rp, s.arg, "open")
      /\ s.do \in Ensuring => /\ s.of # d.kind /\ Fresh(rp, s.of, "active")
                              /\ \A x \in ToSet(t) : x.do \notin Writing
      /\ s.do = "reuse" => s.of = d.kind
      /\ s.do \in Writing => d.kind \notin DOMAIN rp.moves

\* a status call inserts nothing; one that writes back the reviewer reads it first
Moving(d) ==
    /\ d.todo \in Seq(ToSet(d.todo))
    /\ \A s \in ToSet(d.todo) :
         /\ s.do \in Writing \cup {"readStatus", "readUses", "writeUses", "audit", "readJournal", "writeJournal"}
         /\ s.arg = None
    /\ d.others = "writeBack" => /\ d.todo[1].do = "readStatus"
                                 /\ \A n \in DOMAIN d.todo : n > 2 => d.todo[n].do \notin Writing
    /\ d.others \in {"keep", "writeBack", "clear"} \/ UNION Range(d.table) \subseteq d.signed \/ d.signed = {}

\* the awaits at which a call may be refused, if the rows it named of these kinds are missing
MayEnd(s, kind, missing) ==
    \/ s.do \in {"lookUp", "lookUpAny", "find", "findSource", "readStatus", "readUses", "writeJournal"} \cup Ensuring
    \/ s.do \in Inserting /\ (s.of = kind \/ s.do # "insert" \/ s.under \cap missing # {})

\* the rows of a kind keep their first status
Still(rp, k) ==
    /\ k \notin DOMAIN rp.moves
    /\ \A op \in DOMAIN rp.creates : rp.creates[op].kind = k =>
          \A s \in ToSet(rp.creates[op].todo) : s.do \notin Writing

\* a write that does not bring its entry is followed by it, in the log of the await w
EntryFollows(t, w) ==
    \A n \in DOMAIN t :
      /\ t[n].do \in Telling /\ t[n].of \notin Unaudited =>
           \E a \in DOMAIN t : a > n /\ t[a].do = w /\ t[a].of = t[n].of
      /\ \A m \in DOMAIN t : m # n /\ t[m].of = t[n].of =>
           /\ t[n].do \in Telling => t[m].do \notin Telling
           /\ t[n].do = w => t[m].do # w
           /\ t[n].do \in Ensuring \cup {"insertAudited"} => t[m].do \notin Telling \cup Ensuring \cup {w}

\* and the call is not refused in between
EntryIsSure(t, kind, missing, w) ==
    \A n, a \in DOMAIN t : MayEnd(t[n], kind, missing) /\ a > n /\ t[a].do = w =>
        \E m \in DOMAIN t : n <= m /\ m < a /\ t[m].do \in Telling /\ t[m].of = t[a].of

\* an entry is about the row of the call, or about one whose status stays
EntriesKnown(rp, t, kind, w) ==
    \A s \in ToSet(t) :
      /\ s.do = w => s.of \notin Unaudited /\ (s.of = kind \/ (w = "audit" /\ Still(rp, s.of)))
      /\ s.do \in Writing => ~Still(rp, kind)
      /\ s.do \in Writing \cup {"reuse"} => s.of = kind
      /\ s.do = "writeStatus" => s.arg = None
      /\ s.do \in Inserting /\ s.arg # None => s.arg \in Unaudited
      /\ s.do \in Ensuring => s.of # kind
      /\ s.do = "ensure" => s.of \in Unaudited
      /\ s.do = "ensureAudited" => s.of \notin Unaudited /\ Still(rp, s.of)
      /\ s.do \in {"reuse", "writeAudited"} => \A x \in ToSet(t) : x.do \notin Telling \cup Ensuring \cup {w}
      /\ w = "writeJournal" => s.do \notin {"insertAudited", "writeAudited", "reuse"} \cup Ensuring

\* the journal is written right after it was read
JournalRead(t) == \A n \in DOMAIN t : t[n].do = "writeJournal" /\ n > 1 => t[n - 1].do = "readJournal"

Logged(rp, t, kind, missing, w) ==
    EntryFollows(t, w) /\ EntryIsSure(t, kind, missing, w) /\ EntriesKnown(rp, t, kind, w)
    /\ (w = "writeJournal" => JournalRead(t))

\* a program writes a row before its entry
NothingOwed(t, w) ==
    \A a \in DOMAIN t : t[a].do = w => \E m \in DOMAIN t : m < a /\ t[m].do \in Telling /\ t[m].of = t[a].of

LogsOf(name) == {"audit"} \cup (IF name = "collaboration" THEN {"writeJournal"} ELSE {})
LogsAreKept(name, t, kind, kinds) ==
    kind \notin kinds /\ \A w \in LogsOf(name) : Logged(Repositories[name], t, kind, kinds, w) /\ NothingOwed(t, w)

\* what a behaviour starts with, as answered calls leave it
Seeded(rp, table) ==
    /\ table \in Seq(ToSet(table))
    /\ \A i \in DOMAIN table : \E k \in {table[i].kind}, x \in {table[i].status}, p \in SUBSET DOMAIN table :
         table[i] = Answered(k, x, p) /\ Fresh(rp, k, x) /\ ListersIn(rp, k) = {}

ASSUME ProgramsAssumption ==
    \A name \in DOMAIN Repositories :
      LET rp == Repositories[name] IN
      /\ "move" \notin DOMAIN rp.creates
      /\ \A op \in DOMAIN rp.creates : LET d == rp.creates[op] IN
           \A kinds \in d.names : LET t == Program(d, kinds) IN
             /\ t \in Seq(ToSet(t))
             /\ ListsAreKept(rp, d, t, kinds) /\ StatusesAreFresh(rp, d, t) /\ WrittenWhenThere(t, d.kind)
             /\ LogsAreKept(name, t, d.kind, kinds)
      /\ \A k \in DOMAIN rp.moves : Moving(rp.moves[k]) /\ LogsAreKept(name, rp.moves[k].todo, k, {})
      /\ \A table \in Seeds[name] : Seeded(rp, table)

ASSUME MissingAssumption == Missing \notin Nat

-----------------------------------------------------------------------------
R == Repositories[repo]
Ids == DOMAIN rows
IdsOf(kind) == {i \in Ids : rows[i].kind = kind}
Idle == [op |-> None, kind |-> None, key |-> None, names |-> <<>>, to |-> None,
         refs |-> {}, count |-> 0, reviewer |-> FALSE, todo |-> <<>>]
At(c, do) == req[c].todo # <<>> /\ Head(req[c].todo).do = do
Step(c) == Head(req[c].todo)
Own(c) == req[c].names[req[c].kind]
\* the rows a call names, and one more
Named(names, kind, i) == [k \in DOMAIN names \cup {kind} |-> IF k = kind THEN i ELSE names[k]]
AtRest == \A c \in Slots : req[c] = Idle

\* the call goes on to its next await, or answers: then the row it made is complete
Go(c, r, table) ==
    LET rest == Tail(r.todo) IN
    IF rest # <<>>
    THEN /\ req' = [req EXCEPT ![c] = [r EXCEPT !.todo = rest]]
         /\ rows' = table
    ELSE /\ req' = [req EXCEPT ![c] = Idle]
         /\ rows' = IF r.kind \in DOMAIN r.names
                    THEN [table EXCEPT ![r.names[r.kind]].whole =
                              @ \/ r.op \in DOMAIN R.creates]
                    ELSE table
\* an error or an early return: what was written stays written
End(c) == req' = [req EXCEPT ![c] = Idle] /\ UNCHANGED rows
\* the id of the row a list step is about
Target(c) ==
    LET s == Step(c)
        far == {p \in rows[req[c].names[s.arg]].of : rows[p].kind = s.of}
    IN  IF s.arg = None THEN req[c].names[s.of]
        ELSE IF far = {} THEN Missing ELSE CHOOSE p \in far : TRUE

-----------------------------------------------------------------------------
(* Requests arrive.                                                         *)
Free(c) == /\ req[c] = Idle
           /\ \A d \in Slots : req[d] = Idle => c <= d
           /\ (mode = "overlap" /\ requests > Setup) \/ AtRest
           /\ requests < MaxRequests
           /\ requests' = requests + 1
           /\ UNCHANGED <<frozen, rows, failures>>

Create(c) ==
    /\ Free(c)
    /\ \E op \in DOMAIN R.creates :
         LET d == R.creates[op] IN
         \E kinds \in d.names : \E key \in (IF d.keyed THEN Keys ELSE {}) \cup {None} :
         \E names \in [kinds -> Ids \cup {Missing}] :
           /\ \A k \in kinds : names[k] # Missing => rows[names[k]].kind = k
           /\ req' = [req EXCEPT ![c] = [Idle EXCEPT
                !.op = op, !.kind = d.kind, !.key = key, !.names = names, !.to = d.status,
                !.todo = Program(d, kinds)]]

Move(c) ==
    /\ Free(c)
    /\ \E i \in Ids : rows[i].kind \in DOMAIN R.moves /\
         LET d == R.moves[rows[i].kind] IN
         \E to \in UNION Range(d.table) :
           req' = [req EXCEPT ![c] = [Idle EXCEPT
              !.op = "move", !.kind = rows[i].kind, !.names = [k \in {rows[i].kind} |-> i], !.to = to,
              !.todo = d.todo]]

-----------------------------------------------------------------------------
(* The awaits of a creating call.                                           *)

\* `find...ByIdempotencyKey`: a row with the key is answered at once
LookUp(c) ==
    /\ At(c, "lookUp")
    /\ IF req[c].key # None /\ \E i \in IdsOf(Step(c).of) : rows[i].key = req[c].key
       THEN End(c) ELSE Go(c, req[c], rows)

\* a parent that is read before anything is written: 404 when it is not there,
\* an error when it is not under the owner the call names
FindParent(c) ==
    /\ At(c, "find")
    /\ LET p == req[c].names[Step(c).of] IN
       IF p # Missing /\ \A o \in Step(c).under : req[c].names[o] \in rows[p].of
       THEN Go(c, req[c], rows) ELSE End(c)

\* the only row of its kind, or the rows of one agent run
LookUpAny(c) ==
    /\ At(c, "lookUpAny")
    /\ IF IdsOf(Step(c).of) # {} /\ (req[c].key # None \/ ~R.creates[req[c].op].keyed)
       THEN End(c) ELSE Go(c, req[c], rows)

\* a key that is known stands for its row, and the call goes on with that row
Reuse(c) ==
    /\ At(c, "reuse")
    /\ LET k == Step(c).of
           known == {i \in IdsOf(k) : req[c].key # None /\ rows[i].key = req[c].key}
       IN IF known # {}
          THEN Go(c, [req[c] EXCEPT !.names = Named(@, k, CHOOSE i \in known : TRUE),
                                    !.todo = <<Head(@)>> \o SubSeq(@, 3, Len(@))], rows)
          ELSE Go(c, req[c], rows)

\* a source record of another repository: it is there or the call is refused
FindSource(c) == At(c, "findSource") /\ (Go(c, req[c], rows) \/ End(c))

\* the parent the caller names, or else the newest row of the kind, or else a
\* new one made on the spot
Ensure(c) ==
    /\ req[c].todo # <<>> /\ Step(c).do \in Ensuring
    /\ LET k == Step(c).of
           known == IdsOf(k)
           make == <<Insert("insert", k, {})>> \o
                   (IF Step(c).do = "ensureAudited" THEN <<Do("audit", k)>> ELSE <<>>)
       IN IF k \in DOMAIN req[c].names
          THEN IF req[c].names[k] # Missing THEN Go(c, req[c], rows) ELSE End(c)
          ELSE IF known # {}
          THEN Go(c, [req[c] EXCEPT !.names = Named(@, k, Max(known))], rows)
          ELSE Go(c, [req[c] EXCEPT !.todo = <<Head(@)>> \o make \o Tail(@)], rows)

\* the next number of a turn: one more than the highest read
ReadNumbers(c) ==
    /\ At(c, "readNumbers")
    /\ LET turns == {i \in IdsOf("turn") : req[c].names["thread"] \in rows[i].of} IN
       Go(c, [req[c] EXCEPT !.count = Cardinality(turns)], rows)

\* UNIQUE(idempotencyKey), foreign keys and UNIQUE(threadId, seq) refuse a row
Refused(c) ==
    LET s == Step(c) IN
    \/ s.of = req[c].kind /\ req[c].key # None
         /\ \E i \in IdsOf(s.of) : rows[i].key = req[c].key
    \/ \E k \in s.under : k \in DOMAIN req[c].names /\ req[c].names[k] = Missing
    \/ s.do = "insertOnce" /\ IdsOf(s.of) # {}
    \/ s.do = "insertNumbered" /\ \E i \in IdsOf(s.of) :
         req[c].names["thread"] \in rows[i].of /\ rows[i].number = req[c].count + 1

NewRow(c) ==
    LET s == Step(c)
        own == s.of = req[c].kind
        status == IF own THEN req[c].to ELSE "active"
    IN  [Answered(s.of, status, {req[c].names[k] : k \in s.under \cap DOMAIN req[c].names}) EXCEPT
            !.key = IF own THEN req[c].key ELSE None, !.journal = <<>>, !.whole = ~own,
            !.trail = IF s.do = "insertAudited" THEN @ ELSE <<>>,
            !.number = IF s.do = "insertNumbered" THEN req[c].count + 1 ELSE 0]

InsertRow(c) ==
    /\ req[c].todo # <<>> /\ Step(c).do \in Inserting
    /\ IF Refused(c) THEN End(c)
       ELSE LET row == NewRow(c)
                id == Len(rows) + 1
                table == Append(rows, row)
                numbered == IF Step(c).do # "insertNumbered" THEN table
                            ELSE [table EXCEPT ![req[c].names["thread"]].latest = row.number]
                part == [Answered(Step(c).arg, "open", {id}) EXCEPT !.trail = <<>>]
            IN  Go(c, [req[c] EXCEPT !.names = Named(@, row.kind, id), !.count = 0],
                   IF Step(c).arg = None THEN numbered ELSE Append(table, part))

ReadRefs(c) ==
    /\ At(c, "readRefs")
    /\ Go(c, [req[c] EXCEPT !.refs = IF Target(c) = Missing THEN {}
                ELSE {x \in rows[Target(c)].refs : rows[x].kind = req[c].kind}], rows)

\* A plausible defect: the list is written without what was read
WriteOwnRef(c) ==
    /\ At(c, "writeRefs")
    /\ Go(c, [req[c] EXCEPT !.refs = {}],
          IF Target(c) = Missing THEN rows
          ELSE [rows EXCEPT ![Target(c)].refs = {x \in @ : rows[x].kind # req[c].kind} \cup {Own(c)}])

\* the whole list is written, as it was read and with the new id; the
\* parent's other lists are other columns
WriteRefs(c) ==
    /\ At(c, "writeRefs")
    /\ Go(c, [req[c] EXCEPT !.refs = {}],
          IF Target(c) = Missing THEN rows
          ELSE [rows EXCEPT ![Target(c)].refs =
                  {x \in @ : rows[x].kind # req[c].kind} \cup req[c].refs \cup {Own(c)}])

\* an import's list of snapshots is written without being read
SetRefs(c) ==
    /\ At(c, "setRefs")
    /\ Go(c, req[c], [rows EXCEPT ![Own(c)].refs = {req[c].names[Step(c).of]}])

-----------------------------------------------------------------------------
(* The awaits of a status call.                                             *)

ReadStatus(c) ==
    /\ At(c, "readStatus")
    /\ IF req[c].to \in R.moves[req[c].kind].table[rows[Own(c)].status]
       THEN Go(c, [req[c] EXCEPT !.reviewer = rows[Own(c)].reviewer], rows)
       ELSE End(c)

\* A plausible defect: an archived record forgets who approved it
ReviewerOfApprovalsOnly(c) == req[c].to \in {"approved_record", "approved", "rejected"}

\* some statuses set reviewedBy; the others leave the column alone, write back
\* the value that was read, or clear it, each repository in its own way
Reviewer(c) ==
    LET m == R.moves[req[c].kind] IN
    IF req[c].kind \notin DOMAIN R.moves THEN FALSE
    ELSE \/ req[c].to \in m.signed
         \/ m.others = "keep" /\ rows[Own(c)].reviewer
         \/ m.others = "writeBack" /\ req[c].reviewer

\* the row is written by id, whatever it holds by now
WriteStatus(c) ==
    /\ req[c].todo # <<>> /\ Step(c).do \in Writing
    /\ LET to == IF Step(c).arg = None THEN req[c].to ELSE Step(c).arg IN
       Go(c, [req[c] EXCEPT !.reviewer = FALSE],
          [rows EXCEPT ![Own(c)].status = to, ![Own(c)].hist = Append(@, to),
                       ![Own(c)].reviewer = Reviewer(c),
                       ![Own(c)].trail = IF At(c, "writeAudited") THEN Append(@, to) ELSE @])

\* a resume token: its use count is read, tested and written back plus one
ReadUses(c) ==
    /\ At(c, "readUses")
    /\ IF rows[Own(c)].latest < MaxUses
       THEN Go(c, [req[c] EXCEPT !.count = rows[Own(c)].latest], rows) ELSE End(c)
WriteUses(c) ==
    /\ At(c, "writeUses")
    /\ Go(c, [req[c] EXCEPT !.count = 0],
          [rows EXCEPT ![Own(c)].latest = req[c].count + 1, ![Own(c)].opened = @ + 1])

-----------------------------------------------------------------------------
(* What follows a write.                                                    *)
\* A plausible defect: only creations are told to the audit trail
AuditCreations(c) ==
    /\ At(c, "audit")
    /\ LET i == req[c].names[Step(c).of] IN
       Go(c, req[c], IF req[c].op = "move" THEN rows
                     ELSE [rows EXCEPT ![i].trail = Append(@, rows[i].status)])

Audit(c) ==
    /\ At(c, "audit")
    /\ LET i == req[c].names[Step(c).of] IN
       Go(c, req[c], [rows EXCEPT ![i].trail = Append(@,
            IF Step(c).of = req[c].kind THEN req[c].to ELSE rows[i].status)])

\* appendRunJournal: the run's entries are read, the next number is inserted,
\* UNIQUE(runType, runId, seq) refuses a number another call took
ReadJournal(c) ==
    /\ At(c, "readJournal")
    /\ Go(c, [req[c] EXCEPT !.count = Len(rows[Own(c)].journal)], rows)
WriteJournal(c) ==
    /\ At(c, "writeJournal")
    /\ IF Len(rows[Own(c)].journal) = req[c].count
       THEN Go(c, [req[c] EXCEPT !.count = 0],
               [rows EXCEPT ![Own(c)].journal = Append(@, req[c].to)])
       ELSE End(c)

\* the process stops or a statement throws
Abandon(c) ==
    /\ req[c] # Idle /\ failures < MaxFailures
    /\ failures' = failures + 1
    /\ End(c)
    /\ UNCHANGED <<frozen, requests>>

-----------------------------------------------------------------------------
Init ==
    /\ repo \in DOMAIN Repositories
    /\ mode \in {"serial", "overlap"}
    /\ rows \in Seeds[repo]
    /\ req = [c \in Slots |-> Idle]
    /\ requests = (IF rows = <<>> THEN 0 ELSE Setup)  \* a seed stands for the first calls
    /\ failures = 0

Await(c) ==
    /\ \/ LookUp(c) \/ LookUpAny(c) \/ Reuse(c) \/ FindParent(c) \/ FindSource(c) \/ Ensure(c) \/ ReadNumbers(c) \/ InsertRow(c)
       \/ ReadRefs(c) \/ WriteRefs(c) \/ SetRefs(c)
       \/ ReadStatus(c) \/ WriteStatus(c) \/ ReadUses(c) \/ WriteUses(c)
       \/ Audit(c) \/ ReadJournal(c) \/ WriteJournal(c)
    /\ UNCHANGED <<frozen, requests, failures>>

Next == \E c \in Slots : Create(c) \/ Move(c) \/ Await(c) \/ Abandon(c)
Spec == Init /\ [][Next]_vars
-----------------------------------------------------------------------------
(* Properties.                                                              *)

\* Every row and every call in flight has the fields its repository gives it.
GovTypeOK ==
    /\ repo \in DOMAIN Repositories /\ mode \in {"serial", "overlap"}
    /\ requests \in 0..MaxRequests /\ failures \in 0..MaxFailures
    /\ \A i \in Ids : /\ rows[i].key \in Keys \cup {None} /\ rows[i].refs \subseteq Ids
                      /\ rows[i].of \subseteq Ids /\ Last(rows[i].hist) = rows[i].status
    /\ \A c \in Slots : req[c] = Idle \/ req[c].todo # <<>>

\* Without overlap a record only moves along its repository's table, whatever
\* calls were refused or left half done before.
StatusIsEarned ==
    mode = "serial" =>
    \A i \in Ids : rows[i].kind \in DOMAIN R.moves =>
        \A n \in 1..Len(rows[i].hist) - 1 :
            rows[i].hist[n + 1] \in R.moves[rows[i].kind].table[rows[i].hist[n]]

\* Without overlap a record whose creating call was answered is in the list of
\* each parent it names: no later record has pushed it out of a list that is
\* read and then written back whole.
Listers(k) == ListersIn(R, k)
ParentsListTheirRecords ==
    mode = "serial" =>
    \A i \in Ids : rows[i].whole =>
        \A p \in rows[i].of : rows[p].kind \in Listers(rows[i].kind) => i \in rows[p].refs

\* When no call is in flight and none was abandoned, the audit trail holds
\* each status a record took as often as the record took it; without overlap
\* in the order it took them, and the journal of a collaboration record too.
Times(seq, x) == Cardinality({n \in DOMAIN seq : seq[n] = x})
HistoryIsAccountedFor ==
    AtRest /\ failures = 0 =>
    \A i \in Ids : rows[i].kind \notin Unaudited =>
        /\ \A s \in ToSet(rows[i].hist) \cup ToSet(rows[i].trail) : Times(rows[i].trail, s) = Times(rows[i].hist, s)
        /\ mode = "serial" => /\ rows[i].trail = rows[i].hist
                              /\ repo = "collaboration" => rows[i].journal = rows[i].hist

\* The turns of a thread are numbered from one without a gap or a double, and
\* latestTurnSeq is the last number, however the calls overlap or stop.
ThreadIsNumbered ==
    \A t \in IdsOf("thread") :
        LET turns == {i \in IdsOf("turn") : t \in rows[i].of} IN
        /\ {rows[i].number : i \in turns} = 1..Cardinality(turns)
        /\ rows[t].latest = Cardinality(turns)

\* Without overlap a record that was approved or rejected goes on naming its
\* reviewer, except where the repository clears the column.
ReviewerIsKept ==
    mode = "serial" =>
    \A i \in Ids :
        LET k == rows[i].kind IN
        /\ k \in DOMAIN R.moves /\ R.moves[k].others # "clear"
        /\ ToSet(rows[i].hist) \cap R.moves[k].signed # {}
        => rows[i].reviewer

\* Without overlap a resume token opens its view at most maxUses times.
TokenWithinUses == mode = "serial" => \A i \in IdsOf("token") : rows[i].opened <= MaxUses
=============================================================================
