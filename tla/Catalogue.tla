------------------------------ MODULE Catalogue ------------------------------
(***************************************************************************)
(* The anchor and corridor tables and the transactions on them: corridor   *)
(* submissions (app/corridors/submission.py, called by the web form and by *)
(* the recorder), the seed loader (seed.py) and the admin console          *)
(* (admin.py).  Writers submit, one of them also seeds, admins decide and  *)
(* move pins; each runs one transaction at a time, under READ COMMITTED,   *)
(* with another's commit possible between any two of its queries.          *)
(*                                                                         *)
(* A SQLAlchemy session keeps the rows it has loaded as they were then,    *)
(* and its flush writes only the columns it changed: orig and mine below.  *)
(* A flush that meets an uncommitted row waits for the other transaction,  *)
(* so writing everything at commit has the same outcomes.                  *)
(*                                                                         *)
(* One city.  Each name has one spelling; a row is identified by its name  *)
(* (uq_anchors_name_city; rows are never renamed or deleted).  How names   *)
(* and coordinates compare is given by the relations below.                *)
(***************************************************************************)
EXTENDS Naturals, FiniteSets, SequencesExt, Functions

CONSTANTS Writers, Admins,
          Loaders,       \* the writers that run the seed loader
          Names, Pins,
          Near,          \* pairs of pins within _ANCHOR_MERGE_RADIUS_M
          Overlaps,      \* pairs of names, the tokens of one inside the other's
          Synonyms,      \* pairs that overlap once a synonym is substituted
          Submissions,   \* validated submissions a contributor may send
          Files,         \* seed files
          Moves,         \* name and pin an admin may move it to
          MaxTxns        \* bound: transactions begun

Statuses == {"pending", "approved", "rejected"}

Stops == [name : Names, pin : Pins, aliases : SUBSET Names]
Steps == [from : Names, via : SUBSET Names, to : Names]

\* What cross_validate and load_file let through: a document refers to its own
\* stops only.
Declared(doc) == {doc.stops[i].name : i \in DOMAIN doc.stops}
IsDocument(doc) ==
  /\ doc.stops \in Seq(Stops) /\ doc.segments \in Seq(Steps)
  /\ doc.destination \in Declared(doc)
  /\ \A k \in DOMAIN doc.segments :
       LET s == doc.segments[k] IN {s.from, s.to} \cup s.via \subseteq Declared(doc)

ASSUME CatalogueAssumption ==
  /\ Near \subseteq Pins \X Pins
  /\ Overlaps \subseteq Names \X Names
  /\ Synonyms \subseteq Names \X Names
  /\ "none" \notin Pins
  /\ \A doc \in Submissions \cup Files : IsDocument(doc)
  /\ \A f \in Files : f.status \in Statuses
  /\ MaxTxns \in Nat
  /\ Writers \cap Admins = {}
  /\ Loaders \subseteq Writers
  /\ Moves \subseteq Names \X Pins

VARIABLES anchors,     \* the row of each name, NoRow when there is none
          corridors,   \* the rows of corridors and segments, in creation order
          txn,         \* each worker's transaction
          begun,       \* transactions begun so far
          overwritten, \* history: rows whose aliases were written over newer ones
          contested    \* history: corridors two transactions were deciding at once

vars == <<anchors, corridors, txn, begun, overwritten, contested>>

Workers == Writers \cup Admins

NoRow == [pin |-> "none", aliases |-> {}]
Row == [pin : Pins, aliases : SUBSET Names]
Table == [Names -> Row \cup {NoRow}]
NoRows == [n \in Names |-> NoRow]
Has(table, n) == table[n] # NoRow

\* "doc" is the submission or file, with its stops still to be matched in "todo"
\* and the row each stop got in "ids"; "row" is the corridor decided on; "read"
\* is what the transaction read of the corridors; "name" and "pin" move a pin.
Idle == [op |-> "none"]
Adding(op, doc) == [op |-> op, doc |-> doc, todo |-> doc.stops,
                    orig |-> NoRows, mine |-> NoRows, ids |-> <<>>, read |-> "unread"]
Deciding(op, c) == [op |-> op, row |-> c, read |-> "unread"]
Moving(n, p) == [op |-> "move", name |-> n, pin |-> p, orig |-> NoRow]

Set(w, t) == txn' = [txn EXCEPT ![w] = t] /\ UNCHANGED <<begun, contested>>
Done(w) == Set(w, Idle)

-----------------------------------------------------------------------------
(* The session's view of the anchors                                       *)

\* Rows not loaded yet come from the table; a loaded one stays as it was.
Loaded(t, names) ==
  LET fetch(table) == [n \in Names |-> IF Has(t.mine, n) \/ n \notin names
                                       THEN table[n] ELSE anchors[n]]
  IN [t EXCEPT !.orig = fetch(@), !.mine = fetch(@)]

\* What the flush leaves of row n: an insert, or the columns that changed.
Flushed(t, n) ==
  IF t.orig[n] = NoRow /\ t.mine[n] # NoRow THEN t.mine[n]
  ELSE [pin     |-> IF t.mine[n].pin = t.orig[n].pin THEN anchors[n].pin ELSE t.mine[n].pin,
        aliases |-> IF t.mine[n].aliases = t.orig[n].aliases
                    THEN anchors[n].aliases ELSE t.mine[n].aliases]

\* Two transactions inserted the same name: the later one fails.
NameTaken(t) == \E n \in Names : Has(t.mine, n) /\ ~Has(t.orig, n) /\ Has(anchors, n)

\* _find_same_place: the candidates of the first check that finds one.
SamePlace(rows, stop) ==
  LET near == {n \in Names : Has(rows, n) /\ <<stop.pin, rows[n].pin>> \in Near}
      known == {n \in near : stop.name \in rows[n].aliases}
      overlapping == {n \in near : <<stop.name, n>> \in Overlaps}
      synonymous == {n \in near : <<stop.name, n>> \in Synonyms}
  IN IF known # {} THEN known ELSE IF overlapping # {} THEN overlapping ELSE synonymous

\* by_name[raw.name] = anchor
Assigned(ids, n, row) == [m \in DOMAIN ids \cup {n} |-> IF m = n THEN row ELSE ids[m]]

\* Mutant: the name used by the contributor is not recorded.
ReuseWithoutAlias(t, stop, n) ==
  [t EXCEPT !.mine[n].aliases = @ \cup stop.aliases,
            !.ids = Assigned(@, stop.name, n),
            !.todo = Tail(@)]

\* Mutant: the contributor's coordinates replace the row's.
ReuseMovesPin(t, stop, n) ==
  [t EXCEPT !.mine[n].aliases = @ \cup stop.aliases \cup ({stop.name} \ {n}),
            !.mine[n].pin = stop.pin,
            !.ids = Assigned(@, stop.name, n),
            !.todo = Tail(@)]

\* The stop is the place of row n.  Its own name becomes an alias; its pin is ignored.
Reuse(t, stop, n) ==
  [t EXCEPT !.mine[n].aliases = @ \cup stop.aliases \cup ({stop.name} \ {n}),
            !.ids = Assigned(@, stop.name, n),
            !.todo = Tail(@)]

\* Mutant: the new anchor is not added to the session.
CreateWithoutAdd(t, stop) ==
  [t EXCEPT !.ids = Assigned(@, stop.name, stop.name), !.todo = Tail(@)]

Create(t, stop) ==
  [t EXCEPT !.mine[stop.name] = [pin |-> stop.pin, aliases |-> stop.aliases],
            !.ids = Assigned(@, stop.name, stop.name),
            !.todo = Tail(@)]

\* The seed loader: exact names only, and the file's pin replaces the row's.
Overwrite(t, stop) ==
  [t EXCEPT !.mine[stop.name] = [pin |-> stop.pin, aliases |-> @.aliases \cup stop.aliases],
            !.ids = Assigned(@, stop.name, stop.name),
            !.todo = Tail(@)]

-----------------------------------------------------------------------------
Init == /\ anchors = NoRows
        /\ corridors = <<>>
        /\ txn = [w \in Workers |-> Idle]
        /\ begun = 0
        /\ overwritten = {}
        /\ contested = {}

Decides(t, i) == t.op \in {"approve", "reject"} /\ t.row = i

\* The corridor t decides, when another open transaction decides it too.
Disputed(t) == {i \in DOMAIN corridors : Decides(t, i) /\ \E v \in Workers : Decides(txn[v], i)}

\* The transactions worker w may open.
Openings(w) ==
  IF w \in Writers
  THEN {Adding("submit", s) : s \in Submissions}
         \cup {Adding("seed", f) : f \in IF w \in Loaders THEN Files ELSE {}}
  ELSE {Deciding(op, c) : op \in {"approve", "reject"}, c \in DOMAIN corridors}
         \cup {Moving(m[1], m[2]) : m \in {m \in Moves : Has(anchors, m[1])}}

Begin(w) ==
  /\ txn[w] = Idle
  /\ begun < MaxTxns
  /\ begun' = begun + 1
  /\ \E t \in Openings(w) : /\ txn' = [txn EXCEPT ![w] = t]
                            /\ contested' = contested \cup Disputed(t)
  /\ UNCHANGED <<anchors, corridors, overwritten>>

\* _upsert_anchors of a submission, one stop: the row of that name, else the
\* same place under another name, else a new row.
MatchStop(w) ==
  LET t == txn[w] IN
  /\ t.op = "submit" /\ t.todo # <<>>
  /\ LET stop == Head(t.todo)
         one == Loaded(t, {stop.name})
         all == Loaded(t, Names)
     IN \/ /\ Has(one.mine, stop.name)
           /\ Set(w, Reuse(one, stop, stop.name))
        \/ /\ ~Has(one.mine, stop.name)
           /\ \E n \in SamePlace(all.mine, stop) : Set(w, Reuse(all, stop, n))
        \/ /\ ~Has(one.mine, stop.name) /\ SamePlace(all.mine, stop) = {}
           /\ Set(w, Create(all, stop))
  /\ UNCHANGED <<anchors, corridors, overwritten>>

\* _upsert_anchors of a seed file, one anchor.
SeedStop(w) ==
  LET t == txn[w] IN
  /\ t.op = "seed" /\ t.todo # <<>>
  /\ Set(w, Overwrite(Loaded(t, {Head(t.todo).name}), Head(t.todo)))
  /\ UNCHANGED <<anchors, corridors, overwritten>>

\* The corridor a document becomes, its stops replaced by their rows.
CorridorOf(t, status, contributor) ==
  [destination |-> t.ids[t.doc.destination],
   segments    |-> [k \in DOMAIN t.doc.segments |->
                      LET s == t.doc.segments[k] IN
                      [from |-> t.ids[s.from], via |-> {t.ids[v] : v \in s.via}, to |-> t.ids[s.to]]],
   status      |-> status,
   approved_at |-> FALSE,
   contributor |-> contributor,
   named       |-> t.ids]

\* Segment's CHECK constraint: from_anchor_id <> to_anchor_id.
Sound(c) == \A k \in DOMAIN c.segments : c.segments[k].from # c.segments[k].to

\* The rows whose aliases the transaction writes without having seen them as
\* they are now.
Outdated(t) ==
  {n \in Names : /\ t.orig[n] # NoRow /\ t.mine[n].aliases # t.orig[n].aliases
                 /\ t.orig[n].aliases # anchors[n].aliases}

Store(t, added) ==
  IF ~NameTaken(t) /\ \A i \in DOMAIN added : Sound(added[i])
  THEN /\ anchors' = [n \in Names |-> Flushed(t, n)]
       /\ corridors' = corridors \o added
       /\ overwritten' = overwritten \cup Outdated(t)
  ELSE UNCHANGED <<anchors, corridors, overwritten>>

\* create_pending and its commit: all of it or, on a violated constraint, nothing.
CommitSubmission(w) ==
  LET t == txn[w] IN
  /\ t.op = "submit" /\ t.todo = <<>>
  /\ Store(t, <<CorridorOf(t, "pending", "user")>>)
  /\ Done(w)

\* Mutant: the corridor is not looked for.
CheckSeededNever(w) ==
  /\ txn[w].op = "seed" /\ txn[w].todo = <<>> /\ txn[w].read = "unread"
  /\ Set(w, [txn[w] EXCEPT !.read = "absent"])
  /\ UNCHANGED <<anchors, corridors, overwritten>>

\* load_file looks for the corridor of this destination; two of them raise.
CheckSeeded(w) ==
  LET t == txn[w]
      found == {i \in DOMAIN corridors : /\ corridors[i].destination = t.ids[t.doc.destination]
                                         /\ corridors[i].contributor = "seed"}
  IN /\ t.op = "seed" /\ t.todo = <<>> /\ t.read = "unread"
     /\ Cardinality(found) <= 1
     /\ Set(w, [t EXCEPT !.read = IF found = {} THEN "absent" ELSE "present"])
     /\ UNCHANGED <<anchors, corridors, overwritten>>

\* ... and commits the anchors always, the corridor unless it was there.
CommitSeed(w) ==
  LET t == txn[w] IN
  /\ t.op = "seed" /\ t.read # "unread"
  /\ Store(t, IF t.read = "present" THEN <<>> ELSE <<CorridorOf(t, t.doc.status, "seed")>>)
  /\ Done(w)

\* An admin's transaction loads its row ...
Load(w) ==
  LET t == txn[w] IN
  /\ \/ /\ t.op \in {"approve", "reject"} /\ t.read = "unread"
        /\ Set(w, [t EXCEPT !.read = corridors[t.row].status])
     \/ /\ t.op = "move" /\ t.orig = NoRow
        /\ Set(w, [t EXCEPT !.orig = anchors[t.name]])
  /\ UNCHANGED <<anchors, corridors, overwritten>>

\* ... and writes it back.  A corridor read as decided is left alone.
Approve(w) ==
  LET t == txn[w] IN
  /\ t.op = "approve" /\ t.read # "unread"
  /\ corridors' = IF t.read = "pending"
                  THEN [corridors EXCEPT ![t.row].status = "approved",
                                         ![t.row].approved_at = TRUE]
                  ELSE corridors
  /\ Done(w)
  /\ UNCHANGED <<anchors, overwritten>>

\* Mutant: an approved corridor can be rejected.
RejectDecided(w) ==
  /\ txn[w].op = "reject" /\ txn[w].read # "unread"
  /\ corridors' = [corridors EXCEPT ![txn[w].row].status = "rejected"]
  /\ Done(w)
  /\ UNCHANGED <<anchors, overwritten>>

Reject(w) ==
  LET t == txn[w] IN
  /\ t.op = "reject" /\ t.read # "unread"
  /\ corridors' = IF t.read = "pending"
                  THEN [corridors EXCEPT ![t.row].status = "rejected"]
                  ELSE corridors
  /\ Done(w)
  /\ UNCHANGED <<anchors, overwritten>>

MovePin(w) ==
  LET t == txn[w] IN
  /\ t.op = "move" /\ t.orig # NoRow
  /\ anchors' = IF t.pin = t.orig.pin THEN anchors
                ELSE [anchors EXCEPT ![t.name].pin = t.pin]
  /\ Done(w)
  /\ UNCHANGED <<corridors, overwritten>>

\* A crash, a lost connection or a deadlock victim: nothing is committed.
RollBack(w) ==
  /\ txn[w] # Idle
  /\ Done(w)
  /\ UNCHANGED <<anchors, corridors, overwritten>>

Next == \E w \in Workers :
          \/ Begin(w)
          \/ MatchStop(w) \/ CommitSubmission(w)
          \/ SeedStop(w) \/ CheckSeeded(w) \/ CommitSeed(w)
          \/ Load(w) \/ Approve(w) \/ Reject(w) \/ MovePin(w)
          \/ RollBack(w)

Spec == Init /\ [][Next]_vars

-----------------------------------------------------------------------------
(* Properties                                                              *)

\* The tables keep their shape, and a corridor only leads through known anchors.
TypeOK ==
  /\ anchors \in Table
  /\ \A i \in DOMAIN corridors :
       LET c == corridors[i] IN
       /\ c.status \in Statuses
       /\ \A n \in Range(c.named) : Has(anchors, n)
       /\ \A k \in DOMAIN c.segments :
            {c.segments[k].from, c.segments[k].to} \cup c.segments[k].via \subseteq Range(c.named)

\* "record the incoming name as an alias so future lookups succeed directly"
\* (submission.py): whatever a contributor called a place, the row its corridor
\* uses answers to that name, however submissions, seeding and moved pins
\* interleave - except a row whose aliases a transaction wrote back without
\* having seen the newest: the whole array is written, so the alias is lost.
NamesResolve ==
  \A i \in DOMAIN corridors : \A n \in DOMAIN corridors[i].named :
    LET row == corridors[i].named[n]
    IN n = row \/ n \in anchors[row].aliases \/ row \in overwritten

\* No contribution moves a pin or puts an older one back, not even one that
\* loaded the anchor before an admin moved it.
ContributionsKeepPins ==
  [][\A w \in Writers : CommitSubmission(w) =>
       \A n \in Names : Has(anchors, n) => anchors'[n].pin = anchors[n].pin]_vars

\* "already decided; no-op keeps approve idempotent" (admin.py): a decision stands
\* for good, whatever admins, contributors and the loader do after it.  The check
\* reads the status and the write comes later, so the one exception is a corridor
\* that two decisions were under way for at the same time: there both may find it
\* pending, and the later commit replaces the earlier.
DecisionStands ==
  [][\A i \in DOMAIN corridors :
       corridors[i].status # "pending" /\ corridors'[i].status # corridors[i].status =>
         i \in contested]_vars

\* Running the seed loader again never doubles a seeded corridor, whatever is
\* submitted or decided in between or meanwhile (one loader runs at a time).
SeededOnce ==
  \A i, j \in DOMAIN corridors :
    /\ corridors[i].contributor = "seed" /\ corridors[j].contributor = "seed"
    /\ corridors[i].destination = corridors[j].destination
    => i = j

\* "coords stay frozen once set" (seed.py): apart from an admin moving it, a
\* pin keeps the place it was first given.
PinsFrozen ==
  [][\A n \in Names :
       Has(anchors, n) /\ anchors'[n].pin # anchors[n].pin => \E w \in Admins : MovePin(w)]_vars
=============================================================================
