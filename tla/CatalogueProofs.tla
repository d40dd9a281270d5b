--------------------------- MODULE CatalogueProofs ---------------------------
(***************************************************************************)
(* What holds of Catalogue for any number of writers and admins, any names *)
(* and documents, however their transactions interleave.                   *)
(*                                                                         *)
(* A transaction works on rows as it loaded them.  The inductive invariant *)
(* says what it may still rely on when it commits: the rows it loaded are  *)
(* still there, none of the aliases it saw has been lost (but to a write   *)
(* recorded in overwritten), and every stop it has matched answers to its  *)
(* name in the row it will write.                                          *)
(***************************************************************************)
EXTENDS Catalogue, SequenceTheorems, TLAPS

\* A function from some of the names to rows: the rows a document's stops got.
Matches == UNION {[S -> Names] : S \in SUBSET Names}

CorridorRows == [destination : Names, segments : Seq(Steps), status : Statuses,
                 approved_at : BOOLEAN, contributor : {"user", "seed"}, named : Matches]

Submits == [op : {"submit"}, doc : Submissions, todo : Seq(Stops),
            orig : Table, mine : Table, ids : Matches, read : {"unread"}]
Seeds == [op : {"seed"}, doc : Files, todo : Seq(Stops),
          orig : Table, mine : Table, ids : Matches, read : {"unread", "absent", "present"}]
Decisions == [op : {"approve", "reject"}, row : DOMAIN corridors, read : Statuses \cup {"unread"}]
PinMoves == [op : {"move"}, name : {n \in Names : Has(anchors, n)}, pin : Pins,
             orig : Row \cup {NoRow}]

\* Who runs which transaction, and what it is made of.
TypesInv ==
  /\ anchors \in Table
  /\ corridors \in Seq(CorridorRows)
  /\ txn \in [Workers -> {Idle} \cup Submits \cup Seeds \cup Decisions \cup PinMoves]
  /\ \A w \in Workers : /\ txn[w] \in Submits => w \in Writers
                        /\ txn[w] \in Seeds => w \in Loaders
                        /\ txn[w] \in Decisions \cup PinMoves => w \in Admins

\* Every stop is matched or still to be; a match is a row in the session that
\* answers to the stop's name; a seed file's stops are matched by name alone.
Matched(t) ==
  /\ Declared(t.doc) = DOMAIN t.ids \cup {t.todo[i].name : i \in DOMAIN t.todo}
  /\ \A n \in DOMAIN t.ids : /\ Has(t.mine, t.ids[n])
                             /\ n = t.ids[n] \/ n \in t.mine[t.ids[n]].aliases
  /\ t \in Seeds => /\ \A n \in DOMAIN t.ids : t.ids[n] = n
                    /\ t.read # "unread" => t.todo = <<>>

\* A row loaded earlier is still there, with the aliases it had then; the session
\* only adds to them, and a submission's leaves the pin alone.
Tracked(t) ==
  \A n \in Names : Has(t.orig, n) =>
    /\ Has(anchors, n) /\ Has(t.mine, n)
    /\ t.orig[n].aliases \subseteq t.mine[n].aliases
    /\ t.orig[n].aliases \subseteq anchors[n].aliases \/ n \in overwritten
    /\ t \in Submits => t.mine[n].pin = t.orig[n].pin

SessionsInv == \A w \in Workers : txn[w] \in Submits \cup Seeds => Matched(txn[w]) /\ Tracked(txn[w])

\* A stored corridor leads through the rows its stops were matched with.
CorridorsInv ==
  \A i \in DOMAIN corridors :
    LET c == corridors[i] IN
    /\ \A n \in Range(c.named) : Has(anchors, n)
    /\ \A k \in DOMAIN c.segments :
         {c.segments[k].from, c.segments[k].to} \cup c.segments[k].via \subseteq Range(c.named)

IInv == TypesInv /\ SessionsInv /\ CorridorsInv /\ NamesResolve

\* While the one loader holds that a seeded corridor is absent, it is.
AbsentInv ==
  \A w \in Workers : txn[w] \in Seeds /\ txn[w].read = "absent" =>
    \A i \in DOMAIN corridors :
      corridors[i].contributor = "seed" =>
        corridors[i].destination # txn[w].ids[txn[w].doc.destination]

SeedInv == AbsentInv /\ SeededOnce

-----------------------------------------------------------------------------
(* The operators the transactions are built from                           *)

LEMMA AssignedMatches ==
  ASSUME NEW f \in Matches, NEW x \in Names, NEW y \in Names
  PROVE  Assigned(f, x, y) \in Matches
<1> DEFINE g == Assigned(f, x, y)
<1>1. PICK S \in SUBSET Names : f \in [S -> Names]
  BY DEF Matches
<1>2. g = [z \in S \cup {x} |-> IF z = x THEN y ELSE f[z]]
  BY <1>1 DEF Assigned
<1>3. g \in [S \cup {x} -> Names]
  BY <1>1, <1>2
<1>4. S \cup {x} \in SUBSET Names
  OBVIOUS
<1> QED BY <1>3, <1>4 DEF Matches

LEMMA MatchesType ==
  ASSUME NEW f \in Matches
  PROVE  DOMAIN f \subseteq Names /\ \A n \in DOMAIN f : f[n] \in Names
BY DEF Matches

LEMMA TodoNames ==
  ASSUME NEW s \in Seq(Stops), s # <<>>
  PROVE  /\ Head(s) \in Stops /\ Tail(s) \in Seq(Stops)
         /\ {s[i].name : i \in DOMAIN s} =
              {Head(s).name} \cup {Tail(s)[i].name : i \in DOMAIN Tail(s)}
<1>1. /\ Len(s) \in Nat \ {0} /\ DOMAIN s = 1..Len(s)
      /\ Head(s) = s[1] /\ s[1] \in Stops
      /\ Tail(s) \in Seq(Stops) /\ DOMAIN Tail(s) = 1..(Len(s) - 1)
      /\ \A i \in 1..(Len(s) - 1) : Tail(s)[i] = s[i + 1]
  BY HeadTailProperties
<1>2. ASSUME NEW i \in DOMAIN s
      PROVE  s[i].name \in {Head(s).name} \cup {Tail(s)[j].name : j \in DOMAIN Tail(s)}
  <2>1. CASE i = 1
    BY <1>1, <2>1
  <2>2. CASE i # 1
    <3>1. i - 1 \in DOMAIN Tail(s) /\ Tail(s)[i - 1] = s[i]
      BY <1>1, <2>2
    <3> QED BY <3>1
  <2> QED BY <2>1, <2>2
<1>3. ASSUME NEW i \in DOMAIN Tail(s)
      PROVE  i + 1 \in DOMAIN s /\ Tail(s)[i] = s[i + 1]
  BY <1>1
<1> QED BY <1>1, <1>2, <1>3

LEMMA RowFacts ==
  ASSUME CatalogueAssumption
  PROVE  /\ \A r \in Row : r # NoRow /\ r.pin \in Pins /\ r.aliases \subseteq Names
         /\ \A p \in Pins, a \in SUBSET Names : [pin |-> p, aliases |-> a] \in Row
         /\ NoRow.pin = "none" /\ NoRow.aliases = {}
         /\ \A r \in Row \cup {NoRow} : r = [pin |-> r.pin, aliases |-> r.aliases]
BY DEF CatalogueAssumption, Row, NoRow

\* Loading keeps what was loaded and takes the rest as the table has it now.
LEMMA LoadedFacts ==
  ASSUME anchors \in Table, NEW t \in Submits \cup Seeds, Matched(t), Tracked(t), NEW names
  PROVE  LET l == Loaded(t, names) IN
         /\ t \in Submits => l \in Submits
         /\ t \in Seeds => l \in Seeds
         /\ l.todo = t.todo /\ l.read = t.read
         /\ Matched(l) /\ Tracked(l)
<1> DEFINE l == Loaded(t, names)
           kept(n) == Has(t.mine, n) \/ n \notin names
           o == [n \in Names |-> IF kept(n) THEN t.orig[n] ELSE anchors[n]]
           m == [n \in Names |-> IF kept(n) THEN t.mine[n] ELSE anchors[n]]
<1>1. l = [t EXCEPT !.orig = o, !.mine = m]
  BY DEF Loaded
<1>2. o \in Table /\ m \in Table
  BY DEF Submits, Seeds, Table
<1>3. \A n \in Names : IF kept(n) THEN o[n] = t.orig[n] /\ m[n] = t.mine[n]
                                  ELSE o[n] = anchors[n] /\ m[n] = anchors[n]
  OBVIOUS
<1> HIDE DEF o, m, kept
<1>4. /\ t \in Submits => l \in Submits
      /\ t \in Seeds => l \in Seeds
      /\ l.todo = t.todo /\ l.read = t.read /\ l.doc = t.doc /\ l.ids = t.ids
      /\ l \in Submits => t \in Submits
      /\ l \in Seeds => t \in Seeds
      /\ \A n \in Names : IF kept(n) THEN l.orig[n] = t.orig[n] /\ l.mine[n] = t.mine[n]
                                      ELSE l.orig[n] = anchors[n] /\ l.mine[n] = anchors[n]
  BY <1>1, <1>2, <1>3 DEF Submits, Seeds
<1> USE DEF kept
<1> HIDE DEF l
<1>5. t.ids \in Matches
  BY DEF Submits, Seeds
<1>6. Matched(l)
  BY <1>4, <1>5, MatchesType DEF Matched, Has
<1>7. Tracked(l)
  BY <1>4 DEF Tracked, Has
<1> QED BY <1>4, <1>6, <1>7 DEF l

\* Stop n is matched with row r, which the session now has as "row".
Noted(t, n, r, row) == [t EXCEPT !.mine[r] = row, !.ids = Assigned(@, n, r), !.todo = Tail(@)]

\* A match keeps what a transaction relies on if its row answers to the stop's name
\* and loses neither an alias nor, in a submission, its pin.
LEMMA NotedFacts ==
  ASSUME CatalogueAssumption,
         NEW t \in Submits \cup Seeds, Matched(t), Tracked(t), t.todo # <<>>,
         NEW r \in Names, NEW row \in Row,
         Head(t.todo).name = r \/ Head(t.todo).name \in row.aliases,
         Has(t.mine, r) => t.mine[r].aliases \subseteq row.aliases,
         t \in Submits /\ Has(t.mine, r) => row.pin = t.mine[r].pin,
         t \in Seeds => Head(t.todo).name = r /\ t.read = "unread"
  PROVE  LET u == Noted(t, Head(t.todo).name, r, row) IN
         /\ t \in Submits => u \in Submits
         /\ t \in Seeds => u \in Seeds
         /\ Matched(u) /\ Tracked(u)
<1> DEFINE n == Head(t.todo).name
           u == Noted(t, n, r, row)
<1>1. /\ t.todo \in Seq(Stops) /\ t.orig \in Table /\ t.mine \in Table /\ t.ids \in Matches
  BY DEF Submits, Seeds
<1>2. /\ n \in Names /\ Tail(t.todo) \in Seq(Stops)
      /\ {t.todo[i].name : i \in DOMAIN t.todo} =
           {n} \cup {Tail(t.todo)[i].name : i \in DOMAIN Tail(t.todo)}
  BY <1>1, TodoNames DEF Stops
<1> HIDE DEF n
<1>3. /\ Assigned(t.ids, n, r) \in Matches
      /\ DOMAIN Assigned(t.ids, n, r) = DOMAIN t.ids \cup {n}
      /\ \A z \in DOMAIN t.ids \cup {n} :
           Assigned(t.ids, n, r)[z] = IF z = n THEN r ELSE t.ids[z]
  <2>1. t.ids \in Matches /\ n \in Names
    BY <1>1, <1>2
  <2>2. Assigned(t.ids, n, r) \in Matches
    BY <2>1, AssignedMatches
  <2> QED BY <2>2 DEF Assigned
<1>4. /\ [t.mine EXCEPT ![r] = row] \in Table
      /\ \A m \in Names : [t.mine EXCEPT ![r] = row][m] = IF m = r THEN row ELSE t.mine[m]
  BY <1>1 DEF Table
<1>5. u = [t EXCEPT !.mine = [t.mine EXCEPT ![r] = row],
                    !.ids = Assigned(t.ids, n, r), !.todo = Tail(t.todo)]
  BY DEF Noted
<1>6. /\ t \in Submits => u \in Submits
      /\ t \in Seeds => u \in Seeds
      /\ u \in Submits => t \in Submits
      /\ u \in Seeds => t \in Seeds
      /\ u.doc = t.doc /\ u.orig = t.orig /\ u.read = t.read
      /\ u.mine = [t.mine EXCEPT ![r] = row]
      /\ u.ids = Assigned(t.ids, n, r)
      /\ u.todo = Tail(t.todo)
  BY <1>2, <1>3, <1>4, <1>5 DEF Submits, Seeds
<1> HIDE DEF u
<1>7. \A m \in Names : u.mine[m] = IF m = r THEN row ELSE t.mine[m]
  BY <1>4, <1>6
<1>8. row # NoRow
  BY RowFacts
<1>9. \A m \in Names : Has(t.mine, m) => Has(u.mine, m) /\ t.mine[m].aliases \subseteq u.mine[m].aliases
  BY <1>7, <1>8 DEF Has
<1>10. Matched(u)
  <2>1. Declared(u.doc) = DOMAIN u.ids \cup {u.todo[i].name : i \in DOMAIN u.todo}
    <3> DEFINE left(q) == {q[i].name : i \in DOMAIN q}
    <3>1. Declared(t.doc) = DOMAIN t.ids \cup left(t.todo)
      BY DEF Matched
    <3>2. left(t.todo) = {n} \cup left(Tail(t.todo))
      BY <1>2
    <3> HIDE DEF left
    <3>3. Declared(u.doc) = DOMAIN u.ids \cup left(u.todo)
      BY <1>3, <1>6, <3>1, <3>2
    <3> QED BY <3>3 DEF left
  <2>2. ASSUME NEW m \in DOMAIN u.ids
        PROVE  Has(u.mine, u.ids[m]) /\ (m = u.ids[m] \/ m \in u.mine[u.ids[m]].aliases)
    <3>1. CASE m = n
      BY <3>1, <1>3, <1>6, <1>7, <1>8 DEF n, Has
    <3>2. CASE m # n
      <4>1. m \in DOMAIN t.ids /\ u.ids[m] = t.ids[m] /\ t.ids[m] \in Names
        BY <3>2, <1>1, <1>3, <1>6, <2>2, MatchesType
      <4> QED BY <4>1, <1>9 DEF Matched
    <3> QED BY <3>1, <3>2
  <2>3. u \in Seeds => \A m \in DOMAIN u.ids : u.ids[m] = m
    <3> SUFFICES ASSUME u \in Seeds, NEW m \in DOMAIN u.ids PROVE u.ids[m] = m
      OBVIOUS
    <3> QED BY <1>3, <1>6 DEF Matched, n
  <2>4. u \in Seeds => u.read = "unread"
    BY <1>6
  <2> QED BY <2>1, <2>2, <2>3, <2>4 DEF Matched
<1>11. Tracked(u)
  <2> SUFFICES ASSUME NEW m \in Names, Has(u.orig, m)
               PROVE  /\ Has(anchors, m) /\ Has(u.mine, m)
                      /\ u.orig[m].aliases \subseteq u.mine[m].aliases
                      /\ u.orig[m].aliases \subseteq anchors[m].aliases \/ m \in overwritten
                      /\ u \in Submits => u.mine[m].pin = u.orig[m].pin
    BY DEF Tracked
  <2>1. /\ Has(anchors, m) /\ Has(t.mine, m)
        /\ t.orig[m].aliases \subseteq t.mine[m].aliases
        /\ t.orig[m].aliases \subseteq anchors[m].aliases \/ m \in overwritten
        /\ t \in Submits => t.mine[m].pin = t.orig[m].pin
    BY <1>6 DEF Tracked
  <2> QED BY <2>1, <1>6, <1>7, <1>9
<1> QED BY <1>6, <1>10, <1>11 DEF u, n

\* The three ways to match a stop.
LEMMA ReuseFacts ==
  ASSUME CatalogueAssumption, NEW t \in Submits, Matched(t), Tracked(t), t.todo # <<>>,
         NEW n \in Names, Has(t.mine, n)
  PROVE  LET u == Reuse(t, Head(t.todo), n) IN u \in Submits /\ Matched(u) /\ Tracked(u)
<1> DEFINE stop == Head(t.todo)
           row == [t.mine[n] EXCEPT !.aliases = @ \cup stop.aliases \cup ({stop.name} \ {n})]
<1>1. /\ stop.name \in Names /\ stop.aliases \subseteq Names
      /\ t.mine \in Table /\ t.mine[n] \in Row
  BY TodoNames DEF Submits, Stops, Table, Has
<1>2. /\ row \in Row /\ row.pin = t.mine[n].pin
      /\ row.aliases = t.mine[n].aliases \cup stop.aliases \cup ({stop.name} \ {n})
  BY <1>1 DEF Row
<1>3. Reuse(t, stop, n) = Noted(t, stop.name, n, row)
  BY DEF Reuse, Noted
<1>4. t \notin Seeds
  BY DEF Submits, Seeds
<1>5. stop.name = n \/ stop.name \in row.aliases
  BY <1>2
<1>6. t.mine[n].aliases \subseteq row.aliases
  BY <1>2
<1> HIDE DEF row
<1> QED BY <1>2, <1>3, <1>4, <1>5, <1>6, NotedFacts

LEMMA CreateFacts ==
  ASSUME CatalogueAssumption, NEW t \in Submits, Matched(t), Tracked(t), t.todo # <<>>,
         ~Has(t.mine, Head(t.todo).name)
  PROVE  LET u == Create(t, Head(t.todo)) IN u \in Submits /\ Matched(u) /\ Tracked(u)
<1> DEFINE stop == Head(t.todo)
           row == [pin |-> stop.pin, aliases |-> stop.aliases]
<1>1. stop.name \in Names /\ row \in Row
  BY TodoNames DEF Submits, Stops, Row
<1>2. Create(t, stop) = Noted(t, stop.name, stop.name, row)
  BY DEF Create, Noted
<1>3. t \notin Seeds
  BY DEF Submits, Seeds
<1> QED BY <1>1, <1>2, <1>3, NotedFacts

LEMMA OverwriteFacts ==
  ASSUME CatalogueAssumption, NEW t \in Seeds, Matched(t), Tracked(t), t.todo # <<>>,
         t.read = "unread"
  PROVE  LET u == Overwrite(t, Head(t.todo)) IN u \in Seeds /\ Matched(u) /\ Tracked(u)
<1> DEFINE stop == Head(t.todo)
           row == [pin |-> stop.pin, aliases |-> t.mine[stop.name].aliases \cup stop.aliases]
<1>1. stop.name \in Names /\ stop.pin \in Pins /\ stop.aliases \subseteq Names
  BY TodoNames DEF Seeds, Stops
<1>2. t.mine[stop.name] \in Row \cup {NoRow}
  BY <1>1 DEF Seeds, Table
<1>3. t.mine[stop.name].aliases \subseteq Names
  BY <1>2 DEF Row, NoRow
<1>4. row \in Row /\ row.aliases = t.mine[stop.name].aliases \cup stop.aliases
  BY <1>1, <1>3 DEF Row
<1>5. Overwrite(t, stop) = Noted(t, stop.name, stop.name, row)
  BY DEF Overwrite, Noted
<1>6. t \notin Submits
  BY DEF Submits, Seeds
<1> QED BY <1>1, <1>4, <1>5, <1>6, NotedFacts
-----------------------------------------------------------------------------
(* What a commit makes of the tables                                       *)

\* The row a flush leaves: none is lost, aliases only by a recorded overwriting,
\* and what the session relies on is in it.
LEMMA FlushedFacts ==
  ASSUME CatalogueAssumption, anchors \in Table,
         NEW t \in Submits \cup Seeds, Tracked(t), ~NameTaken(t), NEW n \in Names
  PROVE  LET row == Flushed(t, n) IN
         /\ row \in Row \cup {NoRow}
         /\ Has(anchors, n) \/ Has(t.mine, n) => row # NoRow
         /\ Has(anchors, n) /\ n \notin Outdated(t) => anchors[n].aliases \subseteq row.aliases
         /\ Has(t.mine, n) /\ n \notin overwritten => t.mine[n].aliases \subseteq row.aliases
         /\ t \in Submits /\ Has(anchors, n) => row.pin = anchors[n].pin
<1> DEFINE o == t.orig[n]
           m == t.mine[n]
           a == anchors[n]
           row == Flushed(t, n)
<1>1. o \in Row \cup {NoRow} /\ m \in Row \cup {NoRow} /\ a \in Row \cup {NoRow}
  BY DEF Submits, Seeds, Table
<1>2. /\ Has(t.orig, n) <=> o # NoRow
      /\ Has(t.mine, n) <=> m # NoRow
      /\ Has(anchors, n) <=> a # NoRow
  BY DEF Has
<1>3. o # NoRow => /\ a # NoRow /\ m # NoRow
                   /\ o.aliases \subseteq m.aliases
                   /\ o.aliases \subseteq a.aliases \/ n \in overwritten
                   /\ t \in Submits => m.pin = o.pin
  BY <1>2 DEF Tracked
<1>4. ~(m # NoRow /\ o = NoRow /\ a # NoRow)
  BY <1>2 DEF NameTaken
<1>5. n \in Outdated(t) <=> o # NoRow /\ m.aliases # o.aliases /\ o.aliases # a.aliases
  BY DEF Outdated
<1>6. row = IF o = NoRow /\ m # NoRow THEN m
            ELSE [pin     |-> IF m.pin = o.pin THEN a.pin ELSE m.pin,
                  aliases |-> IF m.aliases = o.aliases THEN a.aliases ELSE m.aliases]
  BY DEF Flushed
<1> HIDE DEF o, m, a, row
<1>7. CASE o = NoRow /\ m # NoRow
  BY <1>1, <1>2, <1>4, <1>6, <1>7 DEF row, m, a
<1>8. CASE o = NoRow /\ m = NoRow
  <2>1. row = a
    BY <1>1, <1>6, <1>8, RowFacts
  <2> QED BY <1>1, <1>2, <1>8, <2>1 DEF row, a
<1>9. CASE o # NoRow
  <2>1. a \in Row /\ m \in Row /\ o \in Row
    BY <1>1, <1>3, <1>9
  <2>2. /\ row.pin = IF m.pin = o.pin THEN a.pin ELSE m.pin
        /\ row.aliases = IF m.aliases = o.aliases THEN a.aliases ELSE m.aliases
        /\ row \in Row /\ row # NoRow
    BY <1>6, <1>9, <2>1, RowFacts
  <2>3. n \notin Outdated(t) => a.aliases \subseteq row.aliases
    BY <1>3, <1>5, <1>9, <2>2
  <2>4. n \notin overwritten => m.aliases \subseteq row.aliases
    BY <1>3, <1>9, <2>2
  <2>5. t \in Submits => row.pin = a.pin
    BY <1>3, <1>9, <2>2
  <2> QED BY <1>2, <2>2, <2>3, <2>4, <2>5 DEF row, m, a
<1> QED BY <1>7, <1>8, <1>9

\* What every step does to the tables: no row or corridor disappears, no corridor
\* changes but for its decision, aliases are only lost to a recorded overwriting.
TablesKept ==
  /\ anchors' \in Table
  /\ overwritten \subseteq overwritten'
  /\ \A n \in Names : Has(anchors, n) =>
       /\ Has(anchors', n)
       /\ anchors[n].aliases \subseteq anchors'[n].aliases \/ n \in overwritten'
  /\ corridors' \in Seq(CorridorRows)
  /\ \A i \in DOMAIN corridors :
       /\ i \in DOMAIN corridors'
       /\ corridors'[i].destination = corridors[i].destination
       /\ corridors'[i].segments = corridors[i].segments
       /\ corridors'[i].contributor = corridors[i].contributor
       /\ corridors'[i].named = corridors[i].named

\* The transactions of both kinds a worker may be in.
Txns == {Idle} \cup Submits \cup Seeds \cup Decisions \cup PinMoves
Runs(w, t) == /\ t \in Submits => w \in Writers
              /\ t \in Seeds => w \in Loaders
              /\ t \in Decisions \cup PinMoves => w \in Admins

LEMMA TxnsKept ==
  ASSUME TablesKept
  PROVE  /\ Txns \subseteq Txns'
         /\ \A t \in Txns : t \in (Decisions \cup PinMoves)' => t \in Decisions \cup PinMoves
<1>1. Decisions \subseteq Decisions'
  <2>1. DOMAIN corridors \subseteq DOMAIN corridors'
    BY DEF TablesKept
  <2> QED BY <2>1 DEF Decisions
<1>2. PinMoves \subseteq PinMoves'
  <2>1. {n \in Names : Has(anchors, n)} \subseteq {n \in Names : Has(anchors', n)}
    BY DEF TablesKept
  <2> QED BY <2>1 DEF PinMoves
<1>3. ASSUME NEW t \in Txns, t \in (Decisions \cup PinMoves)'
      PROVE  t \in Decisions \cup PinMoves
  <2>1. t.op \in {"approve", "reject", "move"}
    BY <1>3 DEF Decisions, PinMoves
  <2>2. t # Idle /\ t \notin Submits /\ t \notin Seeds
    BY <2>1 DEF Idle, Submits, Seeds
  <2> QED BY <1>3, <2>2 DEF Txns
<1> QED BY <1>1, <1>2, <1>3 DEF Txns

\* A step of worker w keeps the other sessions' invariants, and its own if its new
\* transaction has them.
LEMMA SessionsKept ==
  ASSUME TypesInv, SessionsInv, TablesKept,
         NEW w \in Workers, NEW t \in Txns, Runs(w, t),
         t \in Submits \cup Seeds => Matched(t) /\ Tracked(t),
         txn' = [txn EXCEPT ![w] = t]
  PROVE  TypesInv' /\ SessionsInv'
<1>1. txn \in [Workers -> Txns] /\ \A u \in Workers : Runs(u, txn[u])
  BY DEF TypesInv, Txns, Runs
<1>2. \A u \in Workers : txn'[u] = IF u = w THEN t ELSE txn[u]
  BY <1>1
<1>3. \A u \in Workers : txn'[u] \in Txns /\ Runs(u, txn'[u])
  BY <1>1, <1>2
<1>4. txn' \in [Workers -> Txns']
  BY <1>1, <1>3, TxnsKept
<1>5. \A u \in Workers : /\ txn'[u] \in Submits => u \in Writers
                         /\ txn'[u] \in Seeds => u \in Loaders
                         /\ txn'[u] \in (Decisions \cup PinMoves)' => u \in Admins
  BY <1>3, TxnsKept DEF Runs
<1>6. TypesInv'
  BY <1>4, <1>5 DEF TypesInv, TablesKept, Txns, Submits, Seeds
<1>7. ASSUME NEW u \in Workers, txn'[u] \in Submits \cup Seeds
      PROVE  Matched(txn[u])' /\ Tracked(txn[u])'
  <2>1. Matched(txn'[u]) /\ Tracked(txn'[u])
    BY <1>2, <1>7 DEF SessionsInv
  <2>2. Tracked(txn[u])'
    BY <2>1 DEF Tracked, TablesKept, Has
  <2>3. Matched(txn[u])'
    BY <2>1 DEF Matched, Submits, Seeds, Declared, Has
  <2> QED BY <2>2, <2>3
<1>8. SessionsInv'
  BY <1>7 DEF SessionsInv, Submits, Seeds
<1> QED BY <1>6, <1>8
\* What CorridorsInv and NamesResolve say of one corridor.
Leads(i) ==
  LET c == corridors[i] IN
  /\ \A n \in Range(c.named) : Has(anchors, n)
  /\ \A k \in DOMAIN c.segments :
       {c.segments[k].from, c.segments[k].to} \cup c.segments[k].via \subseteq Range(c.named)
  /\ \A n \in DOMAIN c.named :
       LET row == c.named[n] IN n = row \/ n \in anchors[row].aliases \/ row \in overwritten

LEMMA LeadsKept ==
  ASSUME IInv, TablesKept, NEW i \in DOMAIN corridors
  PROVE  i \in DOMAIN corridors' /\ Leads(i)'
<1> DEFINE c == corridors[i]
           named == c.named
<1>1. /\ i \in DOMAIN corridors'
      /\ corridors'[i].segments = c.segments /\ corridors'[i].named = named
  BY DEF TablesKept
<1>2. named \in Matches
  <2>1. c \in CorridorRows
    BY ElementOfSeq DEF IInv, TypesInv
  <2> QED BY <2>1 DEF CorridorRows
<1>3. /\ \A n \in DOMAIN named : named[n] \in Names /\ named[n] \in Range(named)
      /\ \A n \in Range(named) : n \in Names
  BY <1>2, MatchesType DEF Range
<1>4. Leads(i)
  BY DEF IInv, CorridorsInv, NamesResolve, Leads
<1>5. \A n \in Range(named) : Has(anchors', n)
  BY <1>3, <1>4 DEF Leads, TablesKept
<1>6. \A n \in DOMAIN named :
        LET row == named[n] IN n = row \/ n \in anchors'[row].aliases \/ row \in overwritten'
  BY <1>3, <1>4 DEF Leads, TablesKept
<1>7. \A k \in DOMAIN c.segments :
        {c.segments[k].from, c.segments[k].to} \cup c.segments[k].via \subseteq Range(named)
  BY <1>4 DEF Leads
<1> HIDE DEF c, named
<1> QED BY <1>1, <1>5, <1>6, <1>7 DEF Leads, Has

\* What the operation of a transaction says of it.
LEMMA TxnKinds ==
  ASSUME TypesInv, NEW w \in Workers
  PROVE  /\ txn[w] \in Txns /\ Runs(w, txn[w])
         /\ txn[w].op = "submit" => txn[w] \in Submits
         /\ txn[w].op = "seed" => txn[w] \in Seeds
         /\ txn[w].op \in {"approve", "reject"} => txn[w] \in Decisions
         /\ txn[w].op = "move" => txn[w] \in PinMoves
<1>1. txn[w] \in Txns /\ Runs(w, txn[w])
  BY DEF TypesInv, Txns, Runs
<1>2. /\ Idle.op = "none"
      /\ \A t \in Submits : t.op = "submit"
      /\ \A t \in Seeds : t.op = "seed"
      /\ \A t \in Decisions : t.op \in {"approve", "reject"}
      /\ \A t \in PinMoves : t.op = "move"
  BY DEF Idle, Submits, Seeds, Decisions, PinMoves
<1> QED BY <1>1, <1>2 DEF Txns

LEMMA IdleFacts == Idle \in Txns /\ Idle \notin Submits \cup Seeds /\ \A w : Runs(w, Idle)
<1>1. Idle.op = "none"
  BY DEF Idle
<1> QED BY <1>1 DEF Txns, Runs, Submits, Seeds, Decisions, PinMoves

\* A step that adds no corridor.
LEMMA OldCorridors ==
  ASSUME IInv, TablesKept, DOMAIN corridors' = DOMAIN corridors
  PROVE  CorridorsInv' /\ NamesResolve'
<1>1. \A i \in DOMAIN corridors' : Leads(i)'
  BY LeadsKept
<1> QED BY <1>1 DEF CorridorsInv, NamesResolve, Leads

\* A step that leaves the tables alone.
LEMMA QuietKeeps ==
  ASSUME IInv, UNCHANGED <<anchors, corridors, overwritten>>,
         NEW w \in Workers, NEW t \in Txns, Runs(w, t),
         t \in Submits \cup Seeds => Matched(t) /\ Tracked(t),
         txn' = [txn EXCEPT ![w] = t]
  PROVE  IInv'
<1>1. TablesKept
  BY DEF IInv, TypesInv, TablesKept
<1>2. TypesInv' /\ SessionsInv'
  BY <1>1, SessionsKept DEF IInv
<1>3. CorridorsInv' /\ NamesResolve'
  BY <1>1, OldCorridors
<1> QED BY <1>2, <1>3 DEF IInv

LEMMA BeginInv ==
  ASSUME CatalogueAssumption, IInv, NEW w \in Workers, Begin(w)
  PROVE  IInv'
<1>1. PICK t \in Openings(w) : txn' = [txn EXCEPT ![w] = t]
  BY DEF Begin
<1>2. NoRows \in Table /\ \A n \in Names : ~Has(NoRows, n)
  BY DEF NoRows, Table, Has
<1>3. <<>> \in Matches
  <2>1. <<>> \in [{} -> Names]
    OBVIOUS
  <2> QED BY <2>1 DEF Matches
<1>4. \A doc \in Submissions \cup Files : doc.stops \in Seq(Stops)
  BY DEF CatalogueAssumption, IsDocument
<1>5. ASSUME NEW doc \in Submissions \cup Files, NEW op,
             t = Adding(op, doc), t \in Submits \cup Seeds
      PROVE  Matched(t) /\ Tracked(t)
  <2>1. /\ t.doc = doc /\ t.todo = doc.stops /\ t.ids = <<>>
        /\ t.orig = NoRows /\ t.read = "unread"
    BY <1>5 DEF Adding
  <2>2. Matched(t)
    BY <2>1 DEF Matched, Declared
  <2>3. Tracked(t)
    BY <1>2, <2>1 DEF Tracked
  <2> QED BY <2>2, <2>3
<1>6. CASE w \in Writers /\ \E doc \in Submissions : t = Adding("submit", doc)
  <2>1. PICK doc \in Submissions : t = Adding("submit", doc)
    BY <1>6
  <2>2. t \in Submits /\ t \notin Seeds /\ t \notin Decisions /\ t \notin PinMoves
    BY <1>2, <1>3, <1>4, <2>1 DEF Adding, Submits, Seeds, Decisions, PinMoves
  <2>3. Matched(t) /\ Tracked(t)
    BY <1>5, <2>1, <2>2
  <2> QED BY <1>1, <1>6, <2>2, <2>3, QuietKeeps DEF Txns, Runs, Begin
<1>7. CASE w \in Loaders /\ \E doc \in Files : t = Adding("seed", doc)
  <2>1. PICK doc \in Files : t = Adding("seed", doc)
    BY <1>7
  <2>2. t \in Seeds /\ t \notin Submits /\ t \notin Decisions /\ t \notin PinMoves
    BY <1>2, <1>3, <1>4, <2>1 DEF Adding, Submits, Seeds, Decisions, PinMoves
  <2>3. Matched(t) /\ Tracked(t)
    BY <1>5, <2>1, <2>2
  <2> QED BY <1>1, <1>7, <2>2, <2>3, QuietKeeps DEF Txns, Runs, Begin
<1>8. CASE w \in Admins /\ \E op \in {"approve", "reject"}, c \in DOMAIN corridors : t = Deciding(op, c)
  <2>1. t \in Decisions /\ t \notin Submits /\ t \notin Seeds
    BY <1>8 DEF Deciding, Decisions, Submits, Seeds
  <2> QED BY <1>1, <1>8, <2>1, QuietKeeps DEF Txns, Runs, Begin
<1>9. CASE w \in Admins /\ \E m \in Moves : Has(anchors, m[1]) /\ t = Moving(m[1], m[2])
  <2>1. t \in PinMoves /\ t \notin Submits /\ t \notin Seeds
    <3>1. PICK m \in Moves : Has(anchors, m[1]) /\ t = Moving(m[1], m[2])
      BY <1>9
    <3>2. m[1] \in Names /\ m[2] \in Pins
      BY <3>1 DEF CatalogueAssumption
    <3> QED BY <3>1, <3>2 DEF Moving, PinMoves, Submits, Seeds
  <2> QED BY <1>1, <1>9, <2>1, QuietKeeps DEF Txns, Runs, Begin
<1> QED
  <2>1. CASE w \in Writers
    BY <1>1, <1>6, <1>7, <2>1 DEF Openings
  <2>2. CASE w \notin Writers
    <3>1. w \in Admins
      BY <2>2 DEF Workers
    <3> QED BY <1>1, <1>8, <1>9, <2>2, <3>1 DEF Openings
  <2> QED BY <2>1, <2>2

\* Whichever way a stop is matched, the session keeps what it relies on.
LEMMA MatchStopFacts ==
  ASSUME CatalogueAssumption, IInv, NEW w \in Workers, MatchStop(w)
  PROVE  w \in Writers /\ \E u \in Submits : Matched(u) /\ Tracked(u) /\ Set(w, u)
<1> DEFINE t == txn[w]
           stop == Head(t.todo)
           one == Loaded(t, {stop.name})
           all == Loaded(t, Names)
<1>1. /\ t \in Submits /\ w \in Writers /\ t.todo # <<>>
      /\ Matched(t) /\ Tracked(t) /\ anchors \in Table
  BY TxnKinds DEF MatchStop, IInv, SessionsInv, Runs, TypesInv
<1>2. /\ one \in Submits /\ one.todo = t.todo /\ Matched(one) /\ Tracked(one)
      /\ all \in Submits /\ all.todo = t.todo /\ Matched(all) /\ Tracked(all)
  BY <1>1, LoadedFacts
<1>3. stop.name \in Names
  BY <1>1, TodoNames DEF Submits, Stops
<1>4. CASE Has(one.mine, stop.name) /\ Set(w, Reuse(one, stop, stop.name))
  BY <1>1, <1>2, <1>3, <1>4, ReuseFacts
<1>5. CASE \E n \in SamePlace(all.mine, stop) : Set(w, Reuse(all, stop, n))
  <2>1. PICK n \in SamePlace(all.mine, stop) : Set(w, Reuse(all, stop, n))
    BY <1>5
  <2>2. n \in Names /\ Has(all.mine, n)
    BY <2>1 DEF SamePlace
  <2> QED BY <1>1, <1>2, <2>1, <2>2, ReuseFacts
<1>6. CASE ~Has(one.mine, stop.name) /\ Set(w, Create(all, stop))
  <2>1. ~Has(all.mine, stop.name)
    BY <1>3, <1>6 DEF Loaded, Has, Submits, Table
  <2> QED BY <1>1, <1>2, <1>6, <2>1, CreateFacts
<1> QED BY <1>1, <1>4, <1>5, <1>6 DEF MatchStop

LEMMA MatchStopInv ==
  ASSUME CatalogueAssumption, IInv, NEW w \in Workers, MatchStop(w)
  PROVE  IInv'
<1>1. PICK u \in Submits : w \in Writers /\ Matched(u) /\ Tracked(u) /\ Set(w, u)
  BY MatchStopFacts
<1>2. u \in Txns /\ u \notin Seeds /\ u \notin Decisions /\ u \notin PinMoves
  BY DEF Txns, Submits, Seeds, Decisions, PinMoves
<1> QED BY <1>1, <1>2, QuietKeeps DEF Runs, Set, MatchStop

LEMMA SeedStopInv ==
  ASSUME CatalogueAssumption, IInv, NEW w \in Workers, SeedStop(w)
  PROVE  IInv'
<1> DEFINE t == txn[w]
           l == Loaded(t, {Head(t.todo).name})
           u == Overwrite(l, Head(t.todo))
<1>1. /\ t \in Seeds /\ w \in Loaders /\ t.todo # <<>>
      /\ Matched(t) /\ Tracked(t) /\ anchors \in Table
  BY TxnKinds DEF SeedStop, IInv, SessionsInv, Runs, TypesInv
<1>2. t.read = "unread"
  BY <1>1 DEF Matched
<1>3. l \in Seeds /\ l.todo = t.todo /\ l.read = "unread" /\ Matched(l) /\ Tracked(l)
  BY <1>1, <1>2, LoadedFacts
<1>4. u \in Seeds /\ Matched(u) /\ Tracked(u)
  BY <1>1, <1>3, OverwriteFacts
<1>5. u \in Txns /\ u \notin Submits /\ u \notin Decisions /\ u \notin PinMoves
  BY <1>4 DEF Txns, Submits, Seeds, Decisions, PinMoves
<1> QED BY <1>1, <1>4, <1>5, QuietKeeps DEF Runs, Set, SeedStop
\* A corridor whose stops are all matched.
LEMMA CorridorOfFacts ==
  ASSUME CatalogueAssumption, NEW t \in Submits \cup Seeds, Matched(t), t.todo = <<>>,
         NEW status \in Statuses, NEW contributor \in {"user", "seed"}
  PROVE  LET c == CorridorOf(t, status, contributor) IN
         /\ c \in CorridorRows
         /\ c.named = t.ids /\ c.contributor = contributor
         /\ c.destination = t.ids[t.doc.destination]
         /\ \A k \in DOMAIN c.segments :
              {c.segments[k].from, c.segments[k].to} \cup c.segments[k].via \subseteq Range(c.named)
<1> DEFINE c == CorridorOf(t, status, contributor)
           doc == t.doc
           ids == t.ids
           segments == [k \in DOMAIN doc.segments |->
                          LET s == doc.segments[k] IN
                          [from |-> ids[s.from], via |-> {ids[v] : v \in s.via}, to |-> ids[s.to]]]
<1>1. doc \in Submissions \cup Files /\ ids \in Matches
  BY DEF Submits, Seeds
<1>2. /\ doc.segments \in Seq(Steps) /\ doc.destination \in Declared(doc)
      /\ \A k \in DOMAIN doc.segments :
           LET s == doc.segments[k] IN {s.from, s.to} \cup s.via \subseteq Declared(doc)
  BY <1>1 DEF CatalogueAssumption, IsDocument
<1>3. Declared(doc) = DOMAIN ids
  BY DEF Matched
<1>4. \A n \in DOMAIN ids : ids[n] \in Names /\ ids[n] \in Range(ids)
  BY <1>1, MatchesType DEF Range
<1> HIDE DEF ids, doc
<1>5. ASSUME NEW k \in DOMAIN doc.segments
      PROVE  /\ segments[k] \in Steps
             /\ {segments[k].from, segments[k].to} \cup segments[k].via \subseteq Range(ids)
  <2> DEFINE s == doc.segments[k]
  <2>1. s.from \in DOMAIN ids /\ s.to \in DOMAIN ids /\ s.via \subseteq DOMAIN ids
    BY <1>2, <1>3
  <2>2. segments[k] = [from |-> ids[s.from], via |-> {ids[v] : v \in s.via}, to |-> ids[s.to]]
    OBVIOUS
  <2>3. {ids[v] : v \in s.via} \subseteq Names /\ {ids[v] : v \in s.via} \subseteq Range(ids)
    BY <1>4, <2>1
  <2> HIDE DEF s, segments
  <2> QED BY <1>4, <2>1, <2>2, <2>3 DEF Steps
<1>6. segments \in Seq(Steps)
  <2>1. Len(doc.segments) \in Nat /\ DOMAIN doc.segments = 1..Len(doc.segments)
    BY <1>2
  <2>2. segments \in [1..Len(doc.segments) -> Steps]
    BY <1>5, <2>1
  <2> QED BY <2>1, <2>2
<1>7. c = [destination |-> ids[doc.destination], segments |-> segments, status |-> status,
           approved_at |-> FALSE, contributor |-> contributor, named |-> ids]
  BY DEF CorridorOf, ids, doc
<1> HIDE DEF c, segments
<1>8. DOMAIN segments = DOMAIN doc.segments
  BY DEF segments
<1>9. c \in CorridorRows
  BY <1>1, <1>2, <1>3, <1>4, <1>6, <1>7 DEF CorridorRows, ids
<1> QED BY <1>5, <1>7, <1>8, <1>9 DEF c, ids, doc

\* A commit, all of it or nothing.
LEMMA StoreInv ==
  ASSUME CatalogueAssumption, IInv, NEW w \in Workers, txn[w] \in Submits \cup Seeds,
         txn[w].todo = <<>>, Done(w),
         NEW status \in Statuses, NEW contributor \in {"user", "seed"},
         NEW added \in {<<>>, <<CorridorOf(txn[w], status, contributor)>>},
         Store(txn[w], added)
  PROVE  IInv'
<1> DEFINE t == txn[w]
           c == CorridorOf(t, status, contributor)
           n == Len(corridors)
<1>1. /\ Matched(t) /\ Tracked(t)
      /\ anchors \in Table /\ corridors \in Seq(CorridorRows)
      /\ txn' = [txn EXCEPT ![w] = Idle]
  BY DEF IInv, SessionsInv, TypesInv, Done, Set
<1>2. CASE UNCHANGED <<anchors, corridors, overwritten>>
  BY <1>1, <1>2, QuietKeeps, IdleFacts
<1>3. CASE /\ ~NameTaken(t)
           /\ anchors' = [m \in Names |-> Flushed(t, m)]
           /\ corridors' = corridors \o added
           /\ overwritten' = overwritten \cup Outdated(t)
  <2>1. \A m \in Names :
          /\ anchors'[m] \in Row \cup {NoRow}
          /\ Has(anchors, m) \/ Has(t.mine, m) => Has(anchors', m)
          /\ Has(anchors, m) => anchors[m].aliases \subseteq anchors'[m].aliases \/ m \in overwritten'
          /\ Has(t.mine, m) => t.mine[m].aliases \subseteq anchors'[m].aliases \/ m \in overwritten'
    <3> SUFFICES ASSUME NEW m \in Names
                 PROVE  /\ anchors'[m] \in Row \cup {NoRow}
                        /\ Has(anchors, m) \/ Has(t.mine, m) => Has(anchors', m)
                        /\ Has(anchors, m) =>
                             anchors[m].aliases \subseteq anchors'[m].aliases \/ m \in overwritten'
                        /\ Has(t.mine, m) =>
                             t.mine[m].aliases \subseteq anchors'[m].aliases \/ m \in overwritten'
      OBVIOUS
    <3>1. anchors'[m] = Flushed(t, m)
      BY <1>3
    <3>2. Has(anchors', m) <=> Flushed(t, m) # NoRow
      BY <3>1 DEF Has
    <3> QED BY <1>1, <1>3, <3>1, <3>2, FlushedFacts
  <2>2. /\ c \in CorridorRows /\ c.named = t.ids
        /\ \A k \in DOMAIN c.segments :
             {c.segments[k].from, c.segments[k].to} \cup c.segments[k].via \subseteq Range(c.named)
    BY <1>1, CorridorOfFacts
  <2> HIDE DEF c
  <2>3. /\ corridors' \in Seq(CorridorRows)
        /\ n \in Nat /\ DOMAIN corridors = 1..n
        /\ \A i \in 1..n : i \in DOMAIN corridors' /\ corridors'[i] = corridors[i]
        /\ \A i \in DOMAIN corridors' : i \in 1..n \/ corridors'[i] = c
    <3>1. CASE added = <<>>
      BY <1>1, <1>3, <3>1
    <3>2. CASE added = <<c>>
      <4>1. corridors' = corridors \o <<c>>
        BY <1>3, <3>2
      <4> QED BY <1>1, <2>2, <4>1
    <3> QED BY <3>1, <3>2 DEF c
  <2>4. TablesKept
    <3>1. anchors' \in Table
      BY <1>3, <2>1 DEF Table
    <3> QED BY <1>3, <2>1, <2>3, <3>1 DEF TablesKept
  <2>5. TypesInv' /\ SessionsInv'
    BY <1>1, <2>4, SessionsKept, IdleFacts DEF IInv
  <2>6. t.ids \in Matches /\ \A m \in DOMAIN t.ids : t.ids[m] \in Names
    BY MatchesType DEF Submits, Seeds
  <2>7. ASSUME NEW i \in DOMAIN corridors', corridors'[i] = c
        PROVE  Leads(i)'
    <3>1. \A m \in DOMAIN t.ids : /\ Has(t.mine, t.ids[m])
                                  /\ m = t.ids[m] \/ m \in t.mine[t.ids[m]].aliases
      BY <1>1 DEF Matched
    <3>2. \A m \in Range(t.ids) : Has(anchors', m)
      BY <2>1, <2>6, <3>1 DEF Range
    <3>3. \A m \in DOMAIN t.ids :
            m = t.ids[m] \/ m \in anchors'[t.ids[m]].aliases \/ t.ids[m] \in overwritten'
      BY <2>1, <2>6, <3>1
    <3> QED BY <2>2, <2>7, <3>2, <3>3 DEF Leads, Has
  <2>8. CorridorsInv' /\ NamesResolve'
    <3>1. \A i \in DOMAIN corridors' : Leads(i)'
      BY <2>3, <2>4, <2>7, LeadsKept
    <3> QED BY <3>1 DEF CorridorsInv, NamesResolve, Leads
  <2> QED BY <2>5, <2>8 DEF IInv
<1> QED BY <1>2, <1>3 DEF Store
LEMMA CommitSubmissionInv ==
  ASSUME CatalogueAssumption, IInv, NEW w \in Workers, CommitSubmission(w)
  PROVE  IInv'
<1> DEFINE added == <<CorridorOf(txn[w], "pending", "user")>>
<1>1. txn[w] \in Submits /\ txn[w].todo = <<>> /\ Store(txn[w], added) /\ Done(w)
  BY TxnKinds DEF CommitSubmission, IInv
<1>2. /\ "pending" \in Statuses /\ "user" \in {"user", "seed"}
      /\ added \in {<<>>, <<CorridorOf(txn[w], "pending", "user")>>}
  BY DEF Statuses
<1> HIDE DEF added
<1> QED BY <1>1, <1>2, StoreInv

LEMMA CommitSeedInv ==
  ASSUME CatalogueAssumption, IInv, NEW w \in Workers, CommitSeed(w)
  PROVE  IInv'
<1> DEFINE t == txn[w]
           added == IF t.read = "present" THEN <<>> ELSE <<CorridorOf(t, t.doc.status, "seed")>>
<1>1. t \in Seeds /\ t.read # "unread" /\ Store(t, added) /\ Done(w)
  BY TxnKinds DEF CommitSeed, IInv
<1>2. t.todo = <<>>
  BY <1>1 DEF IInv, SessionsInv, Matched
<1>3. t.doc.status \in Statuses
  BY <1>1 DEF Seeds, CatalogueAssumption
<1>4. added \in {<<>>, <<CorridorOf(t, t.doc.status, "seed")>>} /\ "seed" \in {"user", "seed"}
  OBVIOUS
<1> HIDE DEF added
<1> QED BY <1>1, <1>2, <1>3, <1>4, StoreInv

LEMMA CheckSeededInv ==
  ASSUME IInv, NEW w \in Workers, CheckSeeded(w)
  PROVE  IInv'
<1> DEFINE t == txn[w]
<1>1. /\ t \in Seeds /\ w \in Loaders /\ t.todo = <<>>
      /\ Matched(t) /\ Tracked(t)
  BY TxnKinds DEF CheckSeeded, IInv, SessionsInv, Runs
<1>2. PICK r \in {"absent", "present"} : Set(w, [t EXCEPT !.read = r])
  BY DEF CheckSeeded
<1> DEFINE u == [t EXCEPT !.read = r]
<1>3. /\ u \in Seeds /\ u.doc = t.doc /\ u.todo = t.todo /\ u.ids = t.ids
      /\ u.orig = t.orig /\ u.mine = t.mine
  BY <1>1 DEF Seeds
<1> HIDE DEF u
<1>4. u \notin Submits /\ t \notin Submits /\ u \notin Decisions /\ u \notin PinMoves
  BY <1>1, <1>3 DEF Submits, Seeds, Decisions, PinMoves
<1>5. Matched(u) /\ Tracked(u)
  BY <1>1, <1>3, <1>4 DEF Matched, Tracked
<1>6. txn' = [txn EXCEPT ![w] = u]
  BY <1>2 DEF Set, u
<1> QED BY <1>1, <1>3, <1>4, <1>5, <1>6, QuietKeeps DEF Runs, Txns, CheckSeeded

LEMMA LoadInv ==
  ASSUME IInv, NEW w \in Workers, Load(w)
  PROVE  IInv'
<1> DEFINE t == txn[w]
<1>1. TypesInv
  BY DEF IInv
<1>2. CASE t.op \in {"approve", "reject"} /\ Set(w, [t EXCEPT !.read = corridors[t.row].status])
  <2> DEFINE u == [t EXCEPT !.read = corridors[t.row].status]
  <2>1. t \in Decisions /\ w \in Admins
    BY <1>1, <1>2, TxnKinds DEF Runs
  <2>2. corridors[t.row].status \in Statuses
    <3>1. t.row \in 1..Len(corridors) /\ corridors \in Seq(CorridorRows)
      BY <1>1, <2>1 DEF Decisions, TypesInv
    <3>2. corridors[t.row] \in CorridorRows
      BY <3>1, ElementOfSeq
    <3> QED BY <3>2 DEF CorridorRows
  <2>3. u \in Decisions
    BY <2>1, <2>2 DEF Decisions
  <2>4. u \notin Submits /\ u \notin Seeds
    BY <2>3 DEF Submits, Seeds, Decisions
  <2> QED BY <1>2, <2>1, <2>3, <2>4, QuietKeeps DEF Runs, Txns, Set, Load
<1>3. CASE t.op = "move" /\ Set(w, [t EXCEPT !.orig = anchors[t.name]])
  <2> DEFINE u == [t EXCEPT !.orig = anchors[t.name]]
  <2>1. t \in PinMoves /\ w \in Admins
    BY <1>1, <1>3, TxnKinds DEF Runs
  <2>2. u \in PinMoves
    BY <1>1, <2>1 DEF PinMoves, TypesInv, Table
  <2>3. u \notin Submits /\ u \notin Seeds
    BY <2>2 DEF Submits, Seeds, PinMoves
  <2> QED BY <1>3, <2>1, <2>2, <2>3, QuietKeeps DEF Runs, Txns, Set, Load
<1> QED BY <1>2, <1>3 DEF Load

LEMMA RollBackInv ==
  ASSUME IInv, NEW w \in Workers, RollBack(w)
  PROVE  IInv'
BY QuietKeeps, IdleFacts DEF RollBack, Done, Set

\* A decision changes a corridor's status and no more.
LEMMA DecideFacts ==
  ASSUME IInv, NEW w \in Workers, Approve(w) \/ Reject(w)
  PROVE  /\ corridors' \in Seq(CorridorRows) /\ DOMAIN corridors' = DOMAIN corridors
         /\ \A i \in DOMAIN corridors :
              /\ corridors'[i].destination = corridors[i].destination
              /\ corridors'[i].segments = corridors[i].segments
              /\ corridors'[i].contributor = corridors[i].contributor
              /\ corridors'[i].named = corridors[i].named
<1> DEFINE r == txn[w].row
           Same(c) == /\ c \in CorridorRows
                      /\ c.destination = corridors[r].destination
                      /\ c.segments = corridors[r].segments
                      /\ c.contributor = corridors[r].contributor
                      /\ c.named = corridors[r].named
<1>1. corridors \in Seq(CorridorRows) /\ r \in 1..Len(corridors)
  BY TxnKinds DEF IInv, TypesInv, Approve, Reject, Decisions
<1>2. corridors[r] \in CorridorRows
  BY <1>1, ElementOfSeq
<1>3. /\ Same([corridors[r] EXCEPT !.status = "approved", !.approved_at = TRUE])
      /\ Same([corridors[r] EXCEPT !.status = "rejected"])
  BY <1>2 DEF CorridorRows, Statuses
<1> HIDE DEF r
<1>4. \/ corridors' = corridors
      \/ corridors' = [corridors EXCEPT ![r] = [corridors[r] EXCEPT !.status = "approved",
                                                                  !.approved_at = TRUE]]
      \/ corridors' = [corridors EXCEPT ![r] = [corridors[r] EXCEPT !.status = "rejected"]]
  BY DEF Approve, Reject, r
<1> HIDE DEF Same
<1>5. CASE corridors' = corridors
  BY <1>1, <1>5
<1>6. ASSUME NEW c, Same(c), corridors' = [corridors EXCEPT ![r] = c]
      PROVE  /\ corridors' \in Seq(CorridorRows) /\ DOMAIN corridors' = DOMAIN corridors
             /\ \A i \in DOMAIN corridors :
                  /\ corridors'[i].destination = corridors[i].destination
                  /\ corridors'[i].segments = corridors[i].segments
                  /\ corridors'[i].contributor = corridors[i].contributor
                  /\ corridors'[i].named = corridors[i].named
  <2>1. /\ corridors' \in Seq(CorridorRows) /\ DOMAIN corridors' = DOMAIN corridors
        /\ \A i \in DOMAIN corridors : corridors'[i] = IF i = r THEN c ELSE corridors[i]
    BY <1>1, <1>6, ExceptSeq DEF Same
  <2> QED BY <1>6, <2>1 DEF Same
<1> QED BY <1>3, <1>4, <1>5, <1>6

LEMMA DecideInv ==
  ASSUME IInv, NEW w \in Workers, Approve(w) \/ Reject(w)
  PROVE  IInv'
<1>1. /\ DOMAIN corridors' = DOMAIN corridors
      /\ Done(w) /\ UNCHANGED <<anchors, overwritten>>
  BY DecideFacts DEF Approve, Reject
<1>2. TablesKept
  BY <1>1, DecideFacts DEF IInv, TypesInv, TablesKept
<1>3. TypesInv' /\ SessionsInv'
  BY <1>1, <1>2, SessionsKept, IdleFacts DEF IInv, Done, Set
<1>4. CorridorsInv' /\ NamesResolve'
  BY <1>1, <1>2, OldCorridors
<1> QED BY <1>3, <1>4 DEF IInv

LEMMA MovePinInv ==
  ASSUME CatalogueAssumption, IInv, NEW w \in Workers, MovePin(w)
  PROVE  IInv'
<1> DEFINE n == txn[w].name
           row == [anchors[n] EXCEPT !.pin = txn[w].pin]
<1>1. /\ anchors \in Table /\ n \in Names /\ Has(anchors, n) /\ txn[w].pin \in Pins
      /\ Done(w) /\ UNCHANGED <<corridors, overwritten>>
  BY TxnKinds DEF IInv, TypesInv, MovePin, PinMoves
<1>2. row \in Row /\ row.aliases = anchors[n].aliases
  BY <1>1 DEF Table, Has, Row
<1>3. anchors' = anchors \/ anchors' = [anchors EXCEPT ![n] = row]
  BY DEF MovePin
<1> HIDE DEF row
<1>4. /\ anchors' \in Table
      /\ \A m \in Names : anchors'[m].aliases = anchors[m].aliases
      /\ \A m \in Names : Has(anchors, m) => Has(anchors', m)
  BY <1>1, <1>2, <1>3, RowFacts DEF Table, Has
<1>5. TablesKept
  BY <1>1, <1>4 DEF IInv, TypesInv, TablesKept
<1>6. TypesInv' /\ SessionsInv'
  BY <1>1, <1>5, SessionsKept, IdleFacts DEF IInv, Done, Set
<1>7. CorridorsInv' /\ NamesResolve'
  BY <1>1, <1>5, OldCorridors
<1> QED BY <1>6, <1>7 DEF IInv

LEMMA InitInv == CatalogueAssumption /\ Init => IInv
<1> SUFFICES ASSUME CatalogueAssumption, Init PROVE IInv
  OBVIOUS
<1>1. anchors \in Table /\ corridors \in Seq(CorridorRows) /\ DOMAIN corridors = {}
  BY DEF Init, Table, NoRows
<1>2. /\ txn = [w \in Workers |-> Idle]
      /\ \A w \in Workers : txn[w] \in Txns /\ Runs(w, txn[w]) /\ txn[w] \notin Submits \cup Seeds
  BY IdleFacts DEF Init
<1>3. TypesInv
  BY <1>1, <1>2 DEF TypesInv, Txns, Runs
<1>4. SessionsInv /\ CorridorsInv /\ NamesResolve
  BY <1>1, <1>2 DEF SessionsInv, CorridorsInv, NamesResolve
<1> QED BY <1>3, <1>4 DEF IInv

LEMMA StepInv == CatalogueAssumption /\ IInv /\ [Next]_vars => IInv'
<1> SUFFICES ASSUME CatalogueAssumption, IInv, [Next]_vars PROVE IInv'
  OBVIOUS
<1>1. CASE UNCHANGED vars
  <2>1. TablesKept
    BY <1>1 DEF vars, IInv, TypesInv, TablesKept
  <2>2. CorridorsInv' /\ NamesResolve'
    BY <1>1, <2>1, OldCorridors DEF vars
  <2>3. TypesInv'
    BY <1>1 DEF vars, IInv, TypesInv, Decisions, PinMoves
  <2>4. SessionsInv'
    BY <1>1 DEF vars, IInv, SessionsInv, Tracked
  <2> QED BY <2>2, <2>3, <2>4 DEF IInv
<1>2. ASSUME NEW w \in Workers,
             \/ Begin(w)
             \/ MatchStop(w) \/ CommitSubmission(w)
             \/ SeedStop(w) \/ CheckSeeded(w) \/ CommitSeed(w)
             \/ Load(w) \/ Approve(w) \/ Reject(w) \/ MovePin(w)
             \/ RollBack(w)
      PROVE  IInv'
  BY <1>2, BeginInv, MatchStopInv, CommitSubmissionInv, SeedStopInv, CheckSeededInv,
     CommitSeedInv, LoadInv, DecideInv, MovePinInv, RollBackInv
<1> QED BY <1>1, <1>2 DEF Next

LEMMA Invariance == Spec => []IInv
BY InitInv, StepInv, CatalogueAssumption, PTL DEF Spec

-----------------------------------------------------------------------------
\* The tables keep their shape, and every corridor leads through rows there are
\* (the foreign keys of corridors and segments).
THEOREM TypeCorrect == Spec => []TypeOK
<1>1. IInv => TypeOK
  <2> SUFFICES ASSUME IInv PROVE TypeOK
    OBVIOUS
  <2>1. anchors \in Table
    BY DEF IInv, TypesInv
  <2>2. \A i \in DOMAIN corridors : corridors[i].status \in Statuses
    <3> SUFFICES ASSUME NEW i \in DOMAIN corridors PROVE corridors[i].status \in Statuses
      OBVIOUS
    <3>1. corridors[i] \in CorridorRows
      BY ElementOfSeq DEF IInv, TypesInv
    <3> QED BY <3>1 DEF CorridorRows
  <2> QED BY <2>1, <2>2 DEF IInv, CorridorsInv, TypeOK
<1> QED BY <1>1, Invariance, PTL

\* A place answers to every name it was contributed under, except in rows whose
\* aliases an outdated transaction wrote over (submission.py's lookup by alias).
THEOREM NamesCorrect == Spec => []NamesResolve
<1>1. IInv => NamesResolve
  BY DEF IInv
<1> QED BY <1>1, Invariance, PTL

\* The commit of a submission moves no pin: an unchanged column is not written, and
\* a row it created must be new (submission.py: "Coordinates are never overwritten").
THEOREM PinsKept == Spec => ContributionsKeepPins
<1>1. ASSUME IInv, NEW w \in Writers, CommitSubmission(w), NEW n \in Names, Has(anchors, n)
      PROVE  anchors'[n].pin = anchors[n].pin
  <2> DEFINE t == txn[w]
             added == <<CorridorOf(t, "pending", "user")>>
  <2>1. t \in Submits /\ Matched(t) /\ Tracked(t) /\ anchors \in Table
    BY <1>1, TxnKinds DEF CommitSubmission, IInv, SessionsInv, TypesInv, Workers
  <2>2. Store(t, added)
    BY <1>1 DEF CommitSubmission
  <2>3. CASE anchors' = anchors
    BY <2>3
  <2>4. CASE ~NameTaken(t) /\ anchors' = [m \in Names |-> Flushed(t, m)]
    <3>1. anchors'[n] = Flushed(t, n)
      BY <2>4
    <3> QED BY <1>1, <2>1, <2>4, <3>1, CatalogueAssumption, FlushedFacts
  <2> QED BY <2>2, <2>3, <2>4 DEF Store
<1>2. IInv => [\A w \in Writers : CommitSubmission(w) =>
                 \A n \in Names : Has(anchors, n) => anchors'[n].pin = anchors[n].pin]_vars
  BY <1>1
<1> QED BY <1>2, Invariance, PTL DEF ContributionsKeepPins

\* A status only changes by a decision of this corridor that found it pending.
Undecided(i) ==
  corridors'[i].status # corridors[i].status =>
    \E w \in Admins : /\ Approve(w) \/ Reject(w)
                      /\ txn[w] \in Decisions /\ txn[w].row = i /\ txn[w].read = "pending"

\* A commit only adds to the corridors.
LEMMA CommitKeeps ==
  ASSUME CatalogueAssumption, IInv, NEW w \in Workers, CommitSubmission(w) \/ CommitSeed(w)
  PROVE  \A i \in DOMAIN corridors : corridors'[i] = corridors[i]
<1> DEFINE t == txn[w]
<1>1. corridors \in Seq(CorridorRows)
  BY DEF IInv, TypesInv
<1>2. ASSUME NEW added \in Seq(CorridorRows), Store(t, added)
      PROVE  \A i \in DOMAIN corridors : corridors'[i] = corridors[i]
  <2>1. corridors' = corridors \/ corridors' = corridors \o added
    BY <1>2 DEF Store
  <2> QED BY <1>1, <2>1
<1>3. CASE CommitSubmission(w)
  <2>1. /\ t \in Submits /\ Matched(t) /\ t.todo = <<>>
        /\ "pending" \in Statuses /\ "user" \in {"user", "seed"}
    BY <1>3, TxnKinds DEF CommitSubmission, IInv, SessionsInv, Statuses
  <2>2. CorridorOf(t, "pending", "user") \in CorridorRows
    BY <2>1, CatalogueAssumption, CorridorOfFacts
  <2>3. <<CorridorOf(t, "pending", "user")>> \in Seq(CorridorRows)
    BY <2>2
  <2> QED BY <1>2, <1>3, <2>3 DEF CommitSubmission
<1>4. CASE CommitSeed(w)
  <2> DEFINE c == CorridorOf(t, t.doc.status, "seed")
  <2>1. t \in Seeds /\ Matched(t) /\ t.todo = <<>>
    BY <1>4, TxnKinds DEF CommitSeed, IInv, SessionsInv, Matched
  <2>2. t.doc.status \in Statuses /\ "seed" \in {"user", "seed"}
    BY <2>1, CatalogueAssumption DEF Seeds, CatalogueAssumption
  <2>3. c \in CorridorRows
    BY <2>1, <2>2, CatalogueAssumption, CorridorOfFacts
  <2>4. \E added \in {<<>>, <<c>>} : Store(t, added)
    BY <1>4 DEF CommitSeed
  <2> HIDE DEF c
  <2>5. <<>> \in Seq(CorridorRows) /\ <<c>> \in Seq(CorridorRows)
    BY <2>3
  <2> QED BY <1>2, <2>4, <2>5
<1> QED BY <1>3, <1>4

LEMMA StatusKept ==
  ASSUME CatalogueAssumption, IInv, [Next]_vars, NEW i \in DOMAIN corridors
  PROVE  Undecided(i)
<1>1. corridors \in Seq(CorridorRows)
  BY DEF IInv, TypesInv
<1>2. CASE corridors' = corridors
  BY <1>2 DEF Undecided
<1>3. ASSUME NEW w \in Workers, Approve(w) \/ Reject(w)
      PROVE  Undecided(i)
  <2>1. txn[w] \in Decisions /\ w \in Admins
    BY <1>3, TxnKinds DEF IInv, Approve, Reject, Runs
  <2>2. CASE txn[w].read = "pending" /\ txn[w].row = i
    BY <1>3, <2>1, <2>2 DEF Undecided
  <2>3. CASE ~(txn[w].read = "pending" /\ txn[w].row = i)
    <3>1. corridors'[i] = corridors[i]
      BY <1>1, <1>3, <2>3 DEF Approve, Reject
    <3> QED BY <3>1 DEF Undecided
  <2> QED BY <2>2, <2>3
<1>4. ASSUME NEW w \in Workers, CommitSubmission(w) \/ CommitSeed(w)
      PROVE  Undecided(i)
  <2>1. corridors'[i] = corridors[i]
    BY <1>4, CommitKeeps
  <2> QED BY <2>1 DEF Undecided
<1> QED
  BY <1>2, <1>3, <1>4
  DEF Next, vars, Begin, MatchStop, SeedStop, CheckSeeded, Load, MovePin, RollBack

\* Where a corridor never had two decisions under way at once, the one under way
\* still finds what it read: a corridor it saw pending is pending.
Settled ==
  \A i \in DOMAIN corridors : i \notin contested =>
    /\ \A w \in Workers :
         Decides(txn[w], i) /\ txn[w].read = "pending" => corridors[i].status = "pending"
    /\ \A v, w \in Workers : Decides(txn[v], i) /\ Decides(txn[w], i) => v = w

LEMMA DecidesFacts ==
  ASSUME IInv, NEW w \in Workers, NEW i, Decides(txn[w], i)
  PROVE  txn[w] \in Decisions /\ i \in DOMAIN corridors
BY TxnKinds DEF IInv, Decides, Decisions

\* A step that starts no decision, and changes the status of no corridor that
\* another transaction is deciding.
LEMMA SettledQuiet ==
  ASSUME IInv, Settled, contested' = contested,
         \A u \in Workers, i \in DOMAIN corridors :
           Decides(txn'[u], i) /\ i \notin contested =>
             /\ Decides(txn[u], i)
             /\ corridors'[i].status = corridors[i].status
             /\ txn'[u].read = "pending" => \/ txn[u].read = "pending"
                                           \/ corridors[i].status = "pending",
         \A u \in Workers : \A i : Decides(txn'[u], i) => i \in DOMAIN corridors
  PROVE  Settled'
<1> SUFFICES ASSUME NEW i \in DOMAIN corridors', i \notin contested
             PROVE  /\ \A w \in Workers : Decides(txn'[w], i) /\ txn'[w].read = "pending" =>
                                            corridors'[i].status = "pending"
                    /\ \A v, w \in Workers : Decides(txn'[v], i) /\ Decides(txn'[w], i) => v = w
  BY DEF Settled, Decides
<1> QED BY DEF Settled

\* A step of w alone, to a transaction that decides nothing, with the statuses left.
LEMMA SettledSet ==
  ASSUME IInv, Settled, NEW w \in Workers, NEW t, Set(w, t),
         t.op \notin {"approve", "reject"},
         \A i \in DOMAIN corridors : corridors'[i].status = corridors[i].status
  PROVE  Settled'
<1>1. \A u \in Workers : txn'[u] = IF u = w THEN t ELSE txn[u]
  BY DEF Set, IInv, TypesInv
<1>2. \A u \in Workers : \A i : Decides(txn'[u], i) => u # w /\ Decides(txn[u], i)
  BY <1>1 DEF Decides
<1>3. \A u \in Workers : \A i : Decides(txn'[u], i) => txn'[u] = txn[u] /\ i \in DOMAIN corridors
  BY <1>1, <1>2, DecidesFacts
<1>4. contested' = contested
  BY DEF Set
<1> QED BY <1>2, <1>3, <1>4, SettledQuiet

LEMMA SettledBegin ==
  ASSUME IInv, Settled, NEW w \in Workers, Begin(w)
  PROVE  Settled'
<1>1. PICK t \in Openings(w) : /\ txn' = [txn EXCEPT ![w] = t]
                               /\ contested' = contested \cup Disputed(t)
  BY DEF Begin
<1>2. t.op \in {"approve", "reject"} => t.read = "unread"
  BY DEF Openings, Adding, Deciding, Moving
<1>3. corridors' = corridors
  BY DEF Begin
<1>4. \A u \in Workers : txn'[u] = IF u = w THEN t ELSE txn[u]
  BY <1>1 DEF IInv, TypesInv
<1> SUFFICES ASSUME NEW i \in DOMAIN corridors, i \notin contested'
             PROVE  /\ \A u \in Workers : Decides(txn'[u], i) /\ txn'[u].read = "pending" =>
                                            corridors[i].status = "pending"
                    /\ \A u, v \in Workers : Decides(txn'[u], i) /\ Decides(txn'[v], i) => u = v
  BY <1>3 DEF Settled, Decides
<1>5. i \notin contested /\ i \notin Disputed(t)
  BY <1>1
<1>6. ASSUME NEW u \in Workers, Decides(txn'[u], i), txn'[u].read = "pending"
      PROVE  corridors[i].status = "pending"
  <2>1. u # w
    BY <1>2, <1>4, <1>6 DEF Decides
  <2> QED BY <1>4, <1>5, <1>6, <2>1 DEF Settled
<1>7. ASSUME NEW u \in Workers, NEW v \in Workers, Decides(txn'[u], i), Decides(txn'[v], i)
      PROVE  u = v
  <2>1. \A x \in Workers : ~(Decides(t, i) /\ Decides(txn[x], i))
    BY <1>5 DEF Disputed
  <2> QED BY <1>4, <1>5, <1>7, <2>1 DEF Settled
<1> QED BY <1>6, <1>7

LEMMA SettledLoad ==
  ASSUME IInv, Settled, NEW w \in Workers, Load(w)
  PROVE  Settled'
<1> DEFINE t == txn[w]
<1>1. CASE t.op \in {"approve", "reject"} /\ Set(w, [t EXCEPT !.read = corridors[t.row].status])
  <2> DEFINE u == [t EXCEPT !.read = corridors[t.row].status]
  <2>1. t \in Decisions
    BY <1>1, TxnKinds DEF IInv
  <2>2. u.op = t.op /\ u.row = t.row /\ u.read = corridors[t.row].status
    BY <2>1 DEF Decisions
  <2> HIDE DEF u
  <2>3. \A v \in Workers : txn'[v] = IF v = w THEN u ELSE txn[v]
    BY <1>1 DEF Set, IInv, TypesInv, u
  <2>4. \A v \in Workers : \A i : Decides(txn'[v], i) => Decides(txn[v], i) /\ i \in DOMAIN corridors
    BY <2>2, <2>3, DecidesFacts DEF Decides
  <2>5. \A v \in Workers : \A i : Decides(txn'[v], i) /\ txn'[v].read = "pending" =>
                                 txn[v].read = "pending" \/ corridors[i].status = "pending"
    BY <2>2, <2>3 DEF Decides
  <2>6. contested' = contested /\ corridors' = corridors
    BY <1>1 DEF Set, Load
  <2> QED BY <2>4, <2>5, <2>6, SettledQuiet
<1>2. CASE t.op = "move" /\ Set(w, [t EXCEPT !.orig = anchors[t.name]])
  <2>1. t \in PinMoves
    BY <1>2, TxnKinds DEF IInv
  <2>2. [t EXCEPT !.orig = anchors[t.name]].op = "move"
    BY <2>1 DEF PinMoves
  <2>3. corridors' = corridors
    BY DEF Load
  <2> QED BY <1>2, <2>2, <2>3, SettledSet
<1> QED BY <1>1, <1>2 DEF Load

\* The one decision under way for a corridor ends with its commit.
LEMMA SettledDecide ==
  ASSUME CatalogueAssumption, IInv, Settled, NEW w \in Workers, Approve(w) \/ Reject(w)
  PROVE  Settled'
<1>1. Set(w, Idle) /\ contested' = contested
  BY DEF Approve, Reject, Done, Set
<1>2. \A u \in Workers : txn'[u] = IF u = w THEN Idle ELSE txn[u]
  BY <1>1 DEF Set, IInv, TypesInv
<1>3. \A u \in Workers : \A i : Decides(txn'[u], i) => /\ u # w /\ txn'[u] = txn[u]
                                                  /\ Decides(txn[u], i) /\ i \in DOMAIN corridors
  BY <1>2, DecidesFacts DEF Decides, Idle
<1>4. txn[w] \in Decisions /\ corridors \in Seq(CorridorRows)
  BY TxnKinds DEF Approve, Reject, IInv, TypesInv
<1>5. Decides(txn[w], txn[w].row) /\ txn[w].row \in DOMAIN corridors
  BY <1>4 DEF Decides, Decisions
<1>6. \A i \in DOMAIN corridors : i # txn[w].row => corridors'[i] = corridors[i]
  BY <1>4 DEF Approve, Reject
<1>7. ASSUME NEW u \in Workers, NEW i \in DOMAIN corridors, Decides(txn'[u], i), i \notin contested
      PROVE  corridors'[i].status = corridors[i].status
  <2>1. i # txn[w].row
    BY <1>3, <1>5, <1>7 DEF Settled
  <2> QED BY <1>6, <2>1
<1> QED BY <1>1, <1>3, <1>7, SettledQuiet

LEMMA SettledStep ==
  ASSUME CatalogueAssumption, IInv, Settled, [Next]_vars
  PROVE  Settled'
<1>1. CASE UNCHANGED vars
  BY <1>1 DEF vars, Settled, Decides
<1>2. ASSUME NEW w \in Workers, MatchStop(w) \/ SeedStop(w) \/ CheckSeeded(w)
      PROVE  Settled'
  <2>1. PICK t : Set(w, t) /\ t.op \notin {"approve", "reject"}
    <3>1. CASE MatchStop(w)
      BY <3>1, MatchStopFacts DEF Submits
    <3>2. CASE SeedStop(w)
      <4>1. txn[w] \in Seeds
        BY <3>2, TxnKinds DEF SeedStop, IInv
      <4>2. Overwrite(Loaded(txn[w], {Head(txn[w].todo).name}), Head(txn[w].todo)).op = "seed"
        BY <4>1 DEF Overwrite, Loaded, Seeds
      <4> QED BY <3>2, <4>2 DEF SeedStop
    <3>3. CASE CheckSeeded(w)
      <4>1. txn[w] \in Seeds
        BY <3>3, TxnKinds DEF CheckSeeded, IInv
      <4>2. PICK r : Set(w, [txn[w] EXCEPT !.read = r])
        BY <3>3 DEF CheckSeeded
      <4>3. [txn[w] EXCEPT !.read = r].op = "seed"
        BY <4>1 DEF Seeds
      <4> QED BY <4>2, <4>3
    <3> QED BY <1>2, <3>1, <3>2, <3>3
  <2>2. corridors' = corridors
    BY <1>2 DEF MatchStop, SeedStop, CheckSeeded
  <2> QED BY <2>1, <2>2, SettledSet
<1>3. ASSUME NEW w \in Workers, CommitSubmission(w) \/ CommitSeed(w) \/ MovePin(w) \/ RollBack(w)
      PROVE  Settled'
  <2>1. Set(w, Idle) /\ Idle.op \notin {"approve", "reject"}
    BY <1>3 DEF CommitSubmission, CommitSeed, MovePin, RollBack, Done, Idle
  <2>2. ASSUME NEW i \in DOMAIN corridors
        PROVE  corridors'[i].status = corridors[i].status
    <3>1. CASE CommitSubmission(w) \/ CommitSeed(w)
      BY <2>2, <3>1, CommitKeeps
    <3>2. CASE MovePin(w) \/ RollBack(w)
      BY <3>2 DEF MovePin, RollBack
    <3> QED BY <1>3, <3>1, <3>2
  <2> QED BY <2>1, <2>2, SettledSet
<1> QED
  BY <1>1, <1>2, <1>3, SettledBegin, SettledLoad, SettledDecide DEF Next

LEMMA SettledAlways == Spec => []Settled
<1>1. Init => Settled
  BY DEF Init, Settled
<1>2. IInv /\ Settled /\ [Next]_vars => Settled'
  BY SettledStep, CatalogueAssumption
<1> QED BY <1>1, <1>2, Invariance, PTL DEF Spec

\* A decision stands whatever is done later: only a corridor that two decisions were
\* under way for at once can have its status replaced (admin.py: approve and reject
\* load the status and write it in two steps).
THEOREM DecisionsFinal == Spec => DecisionStands
<1>1. ASSUME IInv, Settled, [Next]_vars, NEW i \in DOMAIN corridors,
             corridors[i].status # "pending", corridors'[i].status # corridors[i].status
      PROVE  i \in contested
  <2>1. PICK w \in Admins : /\ txn[w] \in Decisions
                            /\ txn[w].row = i /\ txn[w].read = "pending"
    BY <1>1, StatusKept, CatalogueAssumption DEF Undecided
  <2>2. w \in Workers /\ Decides(txn[w], i)
    BY <2>1 DEF Workers, Decides, Decisions
  <2> QED BY <1>1, <2>1, <2>2 DEF Settled
<1>2. IInv /\ Settled /\ [Next]_vars =>
        [\A i \in DOMAIN corridors :
           corridors[i].status # "pending" /\ corridors'[i].status # corridors[i].status =>
             i \in contested]_vars
  BY <1>1
<1> QED BY <1>2, Invariance, SettledAlways, PTL DEF DecisionStands, Spec

-----------------------------------------------------------------------------
(* The seed loader, run by one worker at a time                            *)

OneLoader == \A v, w \in Loaders : v = w

\* The corridors a transaction t would find seeded already.
Absent(t) ==
  \A i \in DOMAIN corridors :
    corridors[i].contributor = "seed" => corridors[i].destination # t.ids[t.doc.destination]

LEMMA SeedQuiet ==
  ASSUME AbsentInv, SeededOnce,
         DOMAIN corridors' = DOMAIN corridors,
         \A i \in DOMAIN corridors : /\ corridors'[i].destination = corridors[i].destination
                                     /\ corridors'[i].contributor = corridors[i].contributor,
         \A u \in Workers : \/ txn'[u] = txn[u]
                            \/ txn'[u] \notin Seeds \/ txn'[u].read # "absent"
                            \/ Absent(txn'[u])
  PROVE  SeedInv'
<1>1. SeededOnce'
  BY DEF SeededOnce
<1>2. ASSUME NEW u \in Workers, txn'[u] \in Seeds, txn'[u].read = "absent"
      PROVE  Absent(txn'[u])
  BY <1>2 DEF AbsentInv, Absent
<1>3. AbsentInv'
  BY <1>2 DEF AbsentInv, Absent, Seeds
<1> QED BY <1>1, <1>3 DEF SeedInv

\* A step of worker w that touches no corridor and does not conclude an absence.
LEMMA SeedSet ==
  ASSUME IInv, AbsentInv, SeededOnce, NEW w \in Workers, NEW t,
         txn' = [txn EXCEPT ![w] = t], corridors' = corridors,
         t \notin Seeds \/ t.read # "absent" \/ Absent(t)
  PROVE  SeedInv'
<1>1. \A u \in Workers : txn'[u] = IF u = w THEN t ELSE txn[u]
  BY DEF IInv, TypesInv
<1> QED BY <1>1, SeedQuiet

LEMMA SeedCheck ==
  ASSUME IInv, AbsentInv, SeededOnce, NEW w \in Workers, CheckSeeded(w)
  PROVE  SeedInv'
<1> DEFINE t == txn[w]
           found == {i \in DOMAIN corridors : /\ corridors[i].destination = t.ids[t.doc.destination]
                                              /\ corridors[i].contributor = "seed"}
           u == [t EXCEPT !.read = IF found = {} THEN "absent" ELSE "present"]
<1>1. t \in Seeds /\ txn' = [txn EXCEPT ![w] = u] /\ corridors' = corridors
  BY TxnKinds DEF CheckSeeded, IInv, Set
<1>2. /\ u.ids = t.ids /\ u.doc = t.doc
      /\ u.read = IF found = {} THEN "absent" ELSE "present"
  BY <1>1 DEF Seeds
<1> HIDE DEF u
<1>3. u.read # "absent" \/ Absent(u)
  BY <1>2 DEF Absent
<1> QED BY <1>1, <1>3, SeedSet

\* The one loader adds a corridor only where it found none, and no other loader is
\* at work that has found the same.
LEMMA SeedCommit ==
  ASSUME CatalogueAssumption, OneLoader, IInv, AbsentInv, SeededOnce,
         NEW w \in Workers, CommitSeed(w)
  PROVE  SeedInv'
<1> DEFINE t == txn[w]
           c == CorridorOf(t, t.doc.status, "seed")
           n == Len(corridors)
<1>1. /\ t \in Seeds /\ w \in Loaders /\ t.read \in {"absent", "present"}
      /\ txn' = [txn EXCEPT ![w] = Idle] /\ txn \in [Workers -> Txns]
      /\ corridors \in Seq(CorridorRows)
  BY TxnKinds DEF CommitSeed, IInv, TypesInv, Txns, Done, Set, Runs, Seeds
<1>2. CASE corridors' = corridors
  BY <1>1, <1>2, SeedSet, IdleFacts
<1>3. CASE t.read = "absent" /\ corridors' = corridors \o <<c>>
  <2>1. c.destination = t.ids[t.doc.destination]
    BY DEF CorridorOf
  <2> HIDE DEF c
  <2>2. /\ n \in Nat /\ DOMAIN corridors = 1..n /\ DOMAIN corridors' = 1..(n + 1)
        /\ \A i \in 1..n : corridors'[i] = corridors[i]
        /\ corridors'[n + 1] = c
    BY <1>1, <1>3
  <2>3. \A i \in 1..n : corridors[i].contributor = "seed" => corridors[i].destination # c.destination
    BY <1>1, <1>3, <2>1, <2>2 DEF AbsentInv
  <2>4. SeededOnce'
    BY <2>2, <2>3 DEF SeededOnce
  <2>5. \A u \in Workers : txn'[u] \notin Seeds
    <3> SUFFICES ASSUME NEW u \in Workers, txn'[u] \in Seeds PROVE FALSE
      OBVIOUS
    <3>1. u # w /\ txn[u] \in Seeds
      BY <1>1, IdleFacts
    <3>2. u \in Loaders
      BY <3>1 DEF IInv, TypesInv
    <3> QED BY <1>1, <3>1, <3>2 DEF OneLoader
  <2>6. AbsentInv'
    BY <2>5 DEF AbsentInv, Seeds
  <2> QED BY <2>4, <2>6 DEF SeedInv
<1>4. corridors' = corridors \/ (t.read = "absent" /\ corridors' = corridors \o <<c>>)
  <2> DEFINE added == IF t.read = "present" THEN <<>> ELSE <<c>>
  <2>1. Store(t, added)
    BY DEF CommitSeed
  <2> HIDE DEF added, c, t
  <2>2. corridors' = corridors \/ corridors' = corridors \o added
    BY <2>1 DEF Store
  <2>3. corridors \o <<>> = corridors
    BY <1>1
  <2>4. (t.read = "absent" /\ added = <<c>>) \/ added = <<>>
    BY <1>1 DEF added
  <2> QED BY <2>2, <2>3, <2>4
<1> QED BY <1>2, <1>3, <1>4

LEMMA SeedSubmission ==
  ASSUME CatalogueAssumption, IInv, AbsentInv, SeededOnce,
         NEW w \in Workers, CommitSubmission(w)
  PROVE  SeedInv'
<1> DEFINE t == txn[w]
           c == CorridorOf(t, "pending", "user")
           n == Len(corridors)
<1>1. /\ txn' = [txn EXCEPT ![w] = Idle] /\ txn \in [Workers -> Txns]
      /\ corridors \in Seq(CorridorRows)
  BY DEF CommitSubmission, IInv, TypesInv, Txns, Done, Set
<1>2. CASE corridors' = corridors
  BY <1>1, <1>2, SeedSet, IdleFacts
<1>3. CASE corridors' = corridors \o <<c>>
  <2>1. c.contributor = "user"
    BY DEF CorridorOf
  <2> HIDE DEF c
  <2>2. /\ n \in Nat /\ DOMAIN corridors = 1..n /\ DOMAIN corridors' = 1..(n + 1)
        /\ \A i \in 1..n : corridors'[i] = corridors[i]
        /\ corridors'[n + 1] = c
    BY <1>1, <1>3
  <2>3. SeededOnce'
    BY <2>1, <2>2 DEF SeededOnce
  <2>4. \A u \in Workers : txn'[u] \in Seeds => txn'[u] = txn[u]
    BY <1>1, IdleFacts
  <2>5. AbsentInv'
    <3> SUFFICES ASSUME NEW u \in Workers, txn'[u] \in Seeds, txn'[u].read = "absent",
                        NEW i \in DOMAIN corridors', corridors'[i].contributor = "seed"
                 PROVE  corridors'[i].destination # txn'[u].ids[txn'[u].doc.destination]
      BY DEF AbsentInv, Seeds
    <3>1. i \in 1..n
      BY <2>1, <2>2
    <3> QED BY <2>2, <2>4, <3>1 DEF AbsentInv
  <2> QED BY <2>3, <2>5 DEF SeedInv
<1>4. corridors' = corridors \/ corridors' = corridors \o <<c>>
  BY DEF CommitSubmission, Store
<1> QED BY <1>2, <1>3, <1>4
LEMMA SeedStep ==
  ASSUME CatalogueAssumption, OneLoader, IInv, SeedInv, [Next]_vars
  PROVE  SeedInv'
<1>1. AbsentInv /\ SeededOnce
  BY DEF SeedInv
<1>2. CASE UNCHANGED vars
  BY <1>1, <1>2, SeedQuiet DEF vars
<1>3. ASSUME NEW w \in Workers, Begin(w)
      PROVE  SeedInv'
  <2>1. PICK t \in Openings(w) : txn' = [txn EXCEPT ![w] = t]
    BY <1>3 DEF Begin
  <2>2. t \in Seeds => t.read = "unread"
    BY <2>1 DEF Openings, Adding, Deciding, Moving, Seeds
  <2> QED BY <1>1, <1>3, <2>1, <2>2, SeedSet DEF Begin
<1>4. ASSUME NEW w \in Workers, MatchStop(w)
      PROVE  SeedInv'
  <2>1. PICK t \in Submits : Set(w, t)
    BY <1>4, MatchStopFacts
  <2>2. t \notin Seeds
    BY DEF Submits, Seeds
  <2> QED BY <1>1, <1>4, <2>1, <2>2, SeedSet DEF MatchStop, Set
<1>5. ASSUME NEW w \in Workers, SeedStop(w)
      PROVE  SeedInv'
  <2>1. txn[w] \in Seeds /\ txn[w].read = "unread"
    BY <1>5, TxnKinds DEF IInv, SeedStop, SessionsInv, Matched
  <2>2. Overwrite(Loaded(txn[w], {Head(txn[w].todo).name}), Head(txn[w].todo)).read = "unread"
    BY <2>1 DEF Overwrite, Loaded, Seeds
  <2> QED BY <1>1, <1>5, <2>2, SeedSet DEF SeedStop, Set
<1>6. ASSUME NEW w \in Workers, Load(w)
      PROVE  SeedInv'
  <2>1. PICK t : Set(w, t) /\ t.op \in {"approve", "reject", "move"}
    <3>1. txn[w] \in Decisions \cup PinMoves
      BY <1>6, TxnKinds DEF IInv, Load
    <3> QED BY <1>6, <3>1 DEF Load, Decisions, PinMoves
  <2>2. t \notin Seeds
    BY <2>1 DEF Seeds
  <2> QED BY <1>1, <1>6, <2>1, <2>2, SeedSet DEF Load, Set
<1>7. ASSUME NEW w \in Workers, MovePin(w) \/ RollBack(w)
      PROVE  SeedInv'
  BY <1>1, <1>7, SeedSet, IdleFacts DEF MovePin, RollBack, Done, Set
<1>8. ASSUME NEW w \in Workers, Approve(w) \/ Reject(w)
      PROVE  SeedInv'
  <2>1. txn' = [txn EXCEPT ![w] = Idle] /\ txn \in [Workers -> Txns]
    BY <1>8 DEF IInv, TypesInv, Txns, Approve, Reject, Done, Set
  <2>2. \A u \in Workers : txn'[u] = txn[u] \/ txn'[u] \notin Seeds
    BY <2>1, IdleFacts
  <2> QED BY <1>1, <1>8, <2>2, DecideFacts, SeedQuiet
<1> QED
  BY <1>1, <1>2, <1>3, <1>4, <1>5, <1>6, <1>7, <1>8, SeedCheck, SeedCommit, SeedSubmission DEF Next

\* However submissions, decisions and pin moves interleave with it, the one seed
\* loader never doubles a corridor (seed.py: the corridor is looked for, then added).
THEOREM SeededCorrect ==
  ASSUME OneLoader
  PROVE  Spec => []SeededOnce
<1>1. Init => SeedInv
  BY IdleFacts DEF Init, SeedInv, AbsentInv, SeededOnce
<1>2. IInv /\ SeedInv /\ [Next]_vars => SeedInv'
  BY SeedStep, CatalogueAssumption
<1>3. SeedInv => SeededOnce
  BY DEF SeedInv
<1> QED BY <1>1, <1>2, <1>3, Invariance, PTL DEF Spec
=============================================================================
