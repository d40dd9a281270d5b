-------------------------- MODULE AbuseLimitsProofs --------------------------
(***************************************************************************)
(* What holds of AbuseLimits for any number of tasks and texts, any limits *)
(* and any lifetimes, whichever Redis calls fail.                          *)
(***************************************************************************)
EXTENDS AbuseLimits, FiniteSetTheorems, TLAPS

Keys(lifetime) == [count : Nat, ttl : 0..lifetime \cup {Forever}]

\* Tasks that were counted and have no verdict yet ...
Counted(t) == task[t].at \in {"hour_expire", "day", "day_expire", "verdict"}

\* ... and those among them the hourly limit of the live window will let through.
Pending == {t \in Tasks : Counted(t) /\ task[t].fresh /\ task[t].hour <= HourLimit}

\* Each of them, and each message let through before, has a place of its own under
\* the limit.
CapInv ==
  /\ \A t \in Tasks : Counted(t) => task[t].hour > 0
  /\ allowed + Cardinality(Pending) <= HourLimit
  /\ allowed + Cardinality(Pending) <= hour.count

\* A text is handled when its key is set, and not again while the key lives.
RetapInv == \A x \in Texts : handled[x] <= IF recent[x] = 0 THEN 0 ELSE 1

IInv == TypeOK /\ CapInv /\ RetapInv

-----------------------------------------------------------------------------
LEMMA PendingFinite ==
  ASSUME AbuseLimitsAssumption
  PROVE  /\ IsFiniteSet(Pending) /\ Cardinality(Pending) \in Nat
         /\ IsFiniteSet(Pending)' /\ Cardinality(Pending)' \in Nat
<1>1. Pending \in SUBSET Tasks /\ Pending' \in SUBSET Tasks
  BY DEF Pending
<1>2. IsFiniteSet(Pending) /\ IsFiniteSet(Pending')
  BY <1>1, FS_Subset DEF AbuseLimitsAssumption
<1> QED BY <1>2, FS_CardinalityType

\* A step of task t that moves it to l.
LEMMA MoveTask ==
  ASSUME TypeOK, NEW t \in Tasks, NEW new \in Task, Move(t, new)
  PROVE  /\ task' \in [Tasks -> Task]
         /\ task'[t] = new
         /\ \A u \in Tasks \ {t} : task'[u] = task[u]
BY DEF TypeOK, Move

LEMMA GotoTask ==
  ASSUME TypeOK, NEW t \in Tasks, NEW l, Goto(t, l),
         l \in {"idle", "hour", "hour_expire", "day", "day_expire", "verdict", "cooldown"}
  PROVE  /\ task' \in [Tasks -> Task]
         /\ task'[t] = [task[t] EXCEPT !.at = l]
         /\ \A u \in Tasks \ {t} : task'[u] = task[u]
<1>1. [task[t] EXCEPT !.at = l] \in Task
  BY DEF TypeOK, Task
<1> QED BY <1>1, MoveTask DEF Goto

\* A step that counts no message keeps what is pending, or less.
LEMMA CapKeeps ==
  ASSUME AbuseLimitsAssumption, TypeOK, CapInv, NEW t \in Tasks,
         \A u \in Tasks \ {t} : task'[u] = task[u],
         Counted(t)' => /\ Counted(t)
                        /\ task'[t].hour = task[t].hour /\ task'[t].fresh = task[t].fresh,
         hour'.count = hour.count,
         \/ allowed' = allowed
         \/ t \in Pending /\ ~Counted(t)' /\ allowed' = allowed + 1
  PROVE  CapInv'
<1>1. \A u \in Tasks : Counted(u)' => task'[u].hour > 0
  BY DEF CapInv, Counted
<1>2. Pending' \in SUBSET Pending /\ (~Counted(t)' => Pending' \in SUBSET (Pending \ {t}))
  BY DEF Pending, Counted
<1>3. allowed \in Nat /\ hour.count \in Nat /\ HourLimit \in Nat
  BY DEF TypeOK, AbuseLimitsAssumption
<1>4. CASE allowed' = allowed
  <2>1. Cardinality(Pending') <= Cardinality(Pending)
    BY <1>2, PendingFinite, FS_Subset
  <2> QED BY <1>1, <1>3, <1>4, <2>1, PendingFinite DEF CapInv
<1>5. CASE t \in Pending /\ ~Counted(t)' /\ allowed' = allowed + 1
  <2>1. /\ IsFiniteSet(Pending \ {t})
        /\ Cardinality(Pending \ {t}) = Cardinality(Pending) - 1
    BY <1>5, PendingFinite, FS_RemoveElement
  <2>2. Cardinality(Pending') <= Cardinality(Pending \ {t})
    BY <1>2, <1>5, <2>1, FS_Subset
  <2> QED BY <1>1, <1>3, <1>5, <2>1, <2>2, PendingFinite DEF CapInv
<1> QED BY <1>4, <1>5

-----------------------------------------------------------------------------
\* Which values the keys take.
LEMMA IncrKey ==
  ASSUME NEW lifetime, NEW key \in Keys(lifetime)
  PROVE  /\ Incr(key) \in [count : Nat, ttl : 0..lifetime \cup {Forever}]
         /\ Incr(key).count = key.count + 1
BY DEF Keys, Incr, Live

LEMMA AgedKey ==
  ASSUME AbuseLimitsAssumption, NEW lifetime \in Nat, NEW key \in Keys(lifetime)
  PROVE  /\ Aged(key) \in [count : Nat, ttl : 0..lifetime \cup {Forever}]
         /\ Aged(key) = Absent \/ Aged(key).count = key.count
<1>1. Forever \in Nat
  BY DEF Forever, AbuseLimitsAssumption
<1>2. key.count \in Nat /\ key.ttl \in 0..lifetime \cup {Forever}
  BY DEF Keys
<1>3. CASE key.ttl = Forever
  BY <1>2, <1>3 DEF Keys, Aged
<1>4. CASE key.ttl # Forever /\ key.ttl <= 1
  BY <1>1, <1>4 DEF Aged, Absent
<1>5. CASE key.ttl # Forever /\ ~(key.ttl <= 1)
  <2>1. Aged(key) = [key EXCEPT !.ttl = key.ttl - 1]
    BY <1>5 DEF Aged
  <2>2. key.ttl - 1 \in 0..lifetime
    BY <1>2, <1>5
  <2> QED BY <1>2, <2>1, <2>2 DEF Keys
<1> QED BY <1>3, <1>4, <1>5

LEMMA ReceiveKeeps ==
  ASSUME AbuseLimitsAssumption, IInv, NEW t \in Tasks, NEW x \in Texts \cup {NoText},
         Receive(t, x)
  PROVE  IInv'
<1> DEFINE new == [Idle EXCEPT !.at = "hour", !.text = x]
<1>1. new \in Task /\ new.at = "hour" /\ Move(t, new)
  BY DEF Idle, Task, Receive
<1> HIDE DEF new
<1>2. /\ task' \in [Tasks -> Task]
      /\ task'[t].at = "hour"
      /\ \A u \in Tasks \ {t} : task'[u] = task[u]
  BY <1>1 DEF IInv, TypeOK, Move
<1>3. TypeOK'
  BY <1>2 DEF Receive, IInv, TypeOK
<1>4. CapInv'
  BY <1>2, CapKeeps DEF Receive, IInv, Counted
<1> QED BY <1>3, <1>4 DEF Receive, IInv, RetapInv

\* The message takes the next place; under the limit it is pending from now on.
LEMMA IncrHourKeeps ==
  ASSUME AbuseLimitsAssumption, IInv, NEW t \in Tasks, IncrHour(t)
  PROVE  IInv'
<1>1. /\ hour \in [count : Nat, ttl : 0..Hour \cup {Forever}]
      /\ task[t] \in Task /\ task[t].at = "hour"
      /\ allowed \in Nat /\ HourLimit \in Nat
  BY DEF IInv, TypeOK, IncrHour, At, AbuseLimitsAssumption
<1>2. /\ hour' \in [count : Nat, ttl : 0..Hour \cup {Forever}]
      /\ hour'.count = hour.count + 1
  BY <1>1, IncrKey DEF IncrHour, Keys
<1> DEFINE l == IF hour'.count = 1 THEN "hour_expire" ELSE "day"
           new == [task[t] EXCEPT !.hour = hour'.count, !.at = l]
<1>3. new \in Task /\ new.hour = hour.count + 1 /\ new.at \in {"hour_expire", "day"}
  BY <1>1, <1>2 DEF Task
<1>4. Move(t, new)
  BY DEF IncrHour
<1> HIDE DEF l, new
<1>5. /\ task' \in [Tasks -> Task] /\ task'[t] = new
      /\ \A u \in Tasks \ {t} : task'[u] = task[u]
  BY <1>3, <1>4 DEF IInv, TypeOK, Move
<1>6. TypeOK'
  BY <1>2, <1>5 DEF IInv, TypeOK, IncrHour
<1>7. CapInv'
  <2>1. \A u \in Tasks : Counted(u)' => task'[u].hour > 0
    BY <1>1, <1>3, <1>5 DEF IInv, CapInv, Counted
  <2>2. t \notin Pending
    BY <1>1 DEF Pending, Counted
  <2>3. Pending' \subseteq Pending \cup {t}
    BY <1>5 DEF Pending, Counted
  <2>4. allowed' = allowed
    BY DEF IncrHour
  <2>5. Cardinality(Pending) \in Nat /\ Cardinality(Pending') \in Nat
    BY PendingFinite
  <2>6. CASE hour.count + 1 <= HourLimit
    <3>1. /\ IsFiniteSet(Pending \cup {t})
          /\ Cardinality(Pending \cup {t}) = Cardinality(Pending) + 1
      BY <2>2, PendingFinite, FS_AddElement
    <3>2. Cardinality(Pending') <= Cardinality(Pending) + 1
      BY <2>3, <3>1, FS_Subset
    <3>3. allowed + Cardinality(Pending) <= hour.count
      BY DEF IInv, CapInv
    <3> QED BY <1>1, <1>2, <2>1, <2>4, <2>5, <2>6, <3>2, <3>3 DEF CapInv
  <2>7. CASE ~(hour.count + 1 <= HourLimit)
    <3>1. t \notin Pending'
      BY <1>3, <1>5, <2>7 DEF Pending
    <3>2. Pending' \in SUBSET Pending
      BY <2>3, <3>1
    <3>3. Cardinality(Pending') <= Cardinality(Pending)
      BY <3>2, PendingFinite, FS_Subset
    <3>4. /\ allowed + Cardinality(Pending) <= hour.count
          /\ allowed + Cardinality(Pending) <= HourLimit
      BY DEF IInv, CapInv
    <3> QED BY <1>1, <1>2, <2>1, <2>4, <2>5, <3>3, <3>4 DEF CapInv
  <2> QED BY <2>6, <2>7
<1> QED BY <1>6, <1>7 DEF IInv, RetapInv, IncrHour

LEMMA ExpireHourKeeps ==
  ASSUME AbuseLimitsAssumption, IInv, NEW t \in Tasks, ExpireHour(t)
  PROVE  IInv'
<1>1. hour \in [count : Nat, ttl : 0..Hour \cup {Forever}] /\ Hour \in Nat
  BY DEF IInv, TypeOK, AbuseLimitsAssumption
<1>2. hour' \in [count : Nat, ttl : 0..Hour \cup {Forever}] /\ hour'.count = hour.count
  BY <1>1 DEF ExpireHour
<1>3. /\ task' \in [Tasks -> Task]
      /\ task'[t] = [task[t] EXCEPT !.at = "day"]
      /\ \A u \in Tasks \ {t} : task'[u] = task[u]
  BY GotoTask DEF ExpireHour, IInv
<1>4. TypeOK'
  BY <1>2, <1>3 DEF ExpireHour, IInv, TypeOK
<1>5. CapInv'
  <2>1. /\ Counted(t)
        /\ task'[t].hour = task[t].hour /\ task'[t].fresh = task[t].fresh
    BY <1>3 DEF ExpireHour, At, Counted, IInv, TypeOK, Task
  <2> QED BY <1>2, <1>3, <2>1, CapKeeps DEF ExpireHour, IInv
<1> QED BY <1>4, <1>5 DEF ExpireHour, IInv, RetapInv

LEMMA IncrDayKeeps ==
  ASSUME AbuseLimitsAssumption, IInv, NEW t \in Tasks, IncrDay(t)
  PROVE  IInv'
<1>1. /\ day \in [count : Nat, ttl : 0..Day \cup {Forever}]
      /\ task[t] \in Task /\ task[t].at = "day"
  BY DEF IInv, TypeOK, IncrDay, At
<1>2. day' \in [count : Nat, ttl : 0..Day \cup {Forever}] /\ day'.count \in Nat
  BY <1>1, IncrKey DEF IncrDay, Keys
<1> DEFINE l == IF day'.count = 1 THEN "day_expire" ELSE "verdict"
           new == [task[t] EXCEPT !.day = day'.count, !.at = l]
<1>3. /\ new \in Task /\ new.at \in {"day_expire", "verdict"}
      /\ new.hour = task[t].hour /\ new.fresh = task[t].fresh
  BY <1>1, <1>2 DEF Task
<1>4. Move(t, new)
  BY DEF IncrDay
<1> HIDE DEF l, new
<1>5. /\ task' \in [Tasks -> Task] /\ task'[t] = new
      /\ \A u \in Tasks \ {t} : task'[u] = task[u]
  BY <1>3, <1>4 DEF IInv, TypeOK, Move
<1>6. TypeOK'
  BY <1>2, <1>5 DEF IInv, TypeOK, IncrDay
<1>7. CapInv'
  <2>1. Counted(t) /\ task'[t].hour = task[t].hour /\ task'[t].fresh = task[t].fresh
    BY <1>1, <1>3, <1>5 DEF Counted
  <2> QED BY <1>5, <2>1, CapKeeps DEF IncrDay, IInv
<1> QED BY <1>6, <1>7 DEF IInv, RetapInv, IncrDay

LEMMA ExpireDayKeeps ==
  ASSUME AbuseLimitsAssumption, IInv, NEW t \in Tasks, ExpireDay(t)
  PROVE  IInv'
<1>1. day \in [count : Nat, ttl : 0..Day \cup {Forever}] /\ Day \in Nat
  BY DEF IInv, TypeOK, AbuseLimitsAssumption
<1>2. day' \in [count : Nat, ttl : 0..Day \cup {Forever}]
  BY <1>1 DEF ExpireDay
<1>3. /\ task' \in [Tasks -> Task]
      /\ task'[t] = [task[t] EXCEPT !.at = "verdict"]
      /\ \A u \in Tasks \ {t} : task'[u] = task[u]
  BY GotoTask DEF ExpireDay, IInv
<1>4. TypeOK'
  BY <1>2, <1>3 DEF ExpireDay, IInv, TypeOK
<1>5. CapInv'
  <2>1. /\ Counted(t)
        /\ task'[t].hour = task[t].hour /\ task'[t].fresh = task[t].fresh
    BY <1>3 DEF ExpireDay, At, Counted, IInv, TypeOK, Task
  <2> QED BY <1>3, <2>1, CapKeeps DEF ExpireDay, IInv
<1> QED BY <1>4, <1>5 DEF ExpireDay, IInv, RetapInv

LEMMA FailOpenKeeps ==
  ASSUME AbuseLimitsAssumption, IInv, NEW t \in Tasks, FailOpen(t)
  PROVE  IInv'
<1>1. /\ task' \in [Tasks -> Task]
      /\ task'[t] = [task[t] EXCEPT !.at = "cooldown"]
      /\ \A u \in Tasks \ {t} : task'[u] = task[u]
  BY GotoTask DEF FailOpen, IInv
<1>2. TypeOK'
  BY <1>1 DEF FailOpen, IInv, TypeOK
<1>3. task'[t].at = "cooldown"
  BY <1>1 DEF IInv, TypeOK, Task
<1>4. CapInv'
  BY <1>1, <1>3, CapKeeps DEF FailOpen, IInv, Counted
<1> QED BY <1>2, <1>4 DEF FailOpen, IInv, RetapInv

\* Only a message under the limit is let through; if its window is still the live
\* one, it gives up its place among the pending for one among the allowed.
LEMMA VerdictKeeps ==
  ASSUME AbuseLimitsAssumption, IInv, NEW t \in Tasks, Verdict(t)
  PROVE  IInv'
<1>1. /\ task[t] \in Task /\ task[t].at = "verdict"
      /\ hour' = hour /\ day' = day /\ recent' = recent
      /\ messages' = messages /\ handled' = handled
  BY DEF IInv, TypeOK, Verdict, At
<1>2. RetapInv'
  BY <1>1 DEF IInv, RetapInv
<1>3. CASE OverLimit(t)
  <2>1. Idle \in Task /\ Move(t, Idle) /\ allowed' = allowed
    BY <1>3 DEF Verdict, Idle, Task
  <2>2. /\ task' \in [Tasks -> Task] /\ task'[t].at = "idle"
        /\ \A u \in Tasks \ {t} : task'[u] = task[u]
    BY <2>1 DEF IInv, TypeOK, Move, Idle
  <2>3. TypeOK'
    BY <1>1, <2>1, <2>2 DEF IInv, TypeOK
  <2>4. CapInv'
    BY <1>1, <2>1, <2>2, CapKeeps DEF IInv, Counted
  <2> QED BY <1>2, <2>3, <2>4 DEF IInv
<1>4. CASE ~OverLimit(t)
  <2>1. /\ Goto(t, "cooldown")
        /\ allowed' = allowed + (IF task[t].fresh THEN 1 ELSE 0)
    BY <1>4 DEF Verdict
  <2>2. /\ task' \in [Tasks -> Task]
        /\ task'[t] = [task[t] EXCEPT !.at = "cooldown"]
        /\ \A u \in Tasks \ {t} : task'[u] = task[u]
    BY <2>1, GotoTask DEF IInv
  <2>3. TypeOK'
    BY <1>1, <2>1, <2>2 DEF IInv, TypeOK
  <2>4. ~Counted(t)'
    BY <1>1, <2>2 DEF Task, Counted
  <2>5. task[t].fresh => t \in Pending
    BY <1>1, <1>4 DEF Task, OverLimit, Pending, Counted, AbuseLimitsAssumption
  <2>6. \/ allowed' = allowed
        \/ t \in Pending /\ ~Counted(t)' /\ allowed' = allowed + 1
    BY <2>1, <2>4, <2>5 DEF IInv, TypeOK
  <2>7. CapInv'
    BY <1>1, <2>2, <2>4, <2>6, CapKeeps DEF IInv
  <2> QED BY <1>2, <2>3, <2>7 DEF IInv
<1> QED BY <1>3, <1>4

LEMMA DeduplicateKeeps ==
  ASSUME AbuseLimitsAssumption, IInv, NEW t \in Tasks, Deduplicate(t)
  PROVE  IInv'
<1>1. /\ Idle \in Task /\ Move(t, Idle)
      /\ hour' = hour /\ day' = day /\ messages' = messages /\ allowed' = allowed
  BY DEF Deduplicate, Idle, Task
<1>2. /\ task' \in [Tasks -> Task] /\ task'[t].at = "idle"
      /\ \A u \in Tasks \ {t} : task'[u] = task[u]
  BY <1>1 DEF IInv, TypeOK, Move, Idle
<1>3. CapInv'
  BY <1>1, <1>2, CapKeeps DEF IInv, Counted
<1>4. /\ recent' \in [Texts -> 0..Cooldown] /\ handled' \in [Texts -> Nat]
      /\ RetapInv'
  <2>1. CASE UNCHANGED <<recent, handled>>
    BY <2>1 DEF IInv, TypeOK, RetapInv
  <2>2. CASE ~UNCHANGED <<recent, handled>>
    <3>1. PICK x \in Texts :
            /\ recent' = [recent EXCEPT ![x] = IF @ = 0 THEN Cooldown ELSE @]
            /\ handled' = [handled EXCEPT ![x] = IF recent[x] = 0 THEN @ + 1 ELSE @]
      BY <2>2 DEF Deduplicate, IInv, TypeOK, Task
    <3>2. /\ Cooldown \in Nat \ {0}
          /\ recent \in [Texts -> 0..Cooldown] /\ handled \in [Texts -> Nat]
          /\ handled[x] <= IF recent[x] = 0 THEN 0 ELSE 1
      BY DEF IInv, TypeOK, RetapInv, AbuseLimitsAssumption
    <3>3. /\ recent'[x] = IF recent[x] = 0 THEN Cooldown ELSE recent[x]
          /\ handled'[x] = IF recent[x] = 0 THEN handled[x] + 1 ELSE handled[x]
          /\ \A y \in Texts \ {x} : recent'[y] = recent[y] /\ handled'[y] = handled[y]
      BY <3>1, <3>2
    <3>4. recent' \in [Texts -> 0..Cooldown] /\ handled' \in [Texts -> Nat]
      BY <3>1, <3>2
    <3>5. RetapInv'
      BY <3>2, <3>3 DEF IInv, RetapInv
    <3> QED BY <3>4, <3>5
  <2> QED BY <2>1, <2>2
<1>5. TypeOK'
  BY <1>1, <1>2, <1>4 DEF IInv, TypeOK
<1> QED BY <1>3, <1>4, <1>5 DEF IInv

\* When the hourly window ends nobody counted in it is pending any longer.
LEMMA TickKeeps ==
  ASSUME AbuseLimitsAssumption, IInv, Tick
  PROVE  IInv'
<1>1. /\ Hour \in Nat /\ Day \in Nat /\ Cooldown \in Nat /\ HourLimit \in Nat
      /\ hour \in [count : Nat, ttl : 0..Hour \cup {Forever}]
      /\ day \in [count : Nat, ttl : 0..Day \cup {Forever}]
      /\ recent \in [Texts -> 0..Cooldown] /\ handled \in [Texts -> Nat]
      /\ task \in [Tasks -> Task] /\ messages \in Nat /\ allowed \in Nat
  BY DEF IInv, TypeOK, AbuseLimitsAssumption
<1>2. /\ hour' = Aged(hour) /\ day' = Aged(day) /\ messages' = messages
      /\ recent' = [x \in Texts |-> IF recent[x] = 0 THEN 0 ELSE recent[x] - 1]
      /\ handled' = [x \in Texts |-> IF recent'[x] = 0 THEN 0 ELSE handled[x]]
  BY DEF Tick
<1>3. /\ hour' \in [count : Nat, ttl : 0..Hour \cup {Forever}]
      /\ day' \in [count : Nat, ttl : 0..Day \cup {Forever}]
      /\ hour' = Absent \/ hour'.count = hour.count
  BY <1>1, <1>2, AgedKey DEF Keys
<1>4. recent' \in [Texts -> 0..Cooldown] /\ handled' \in [Texts -> Nat]
  <2>1. \A x \in Texts : recent'[x] \in 0..Cooldown
    BY <1>1, <1>2
  <2> QED BY <1>1, <1>2, <2>1
<1>5. RetapInv'
  <2>1. ASSUME NEW x \in Texts PROVE handled'[x] <= IF recent'[x] = 0 THEN 0 ELSE 1
    <3>1. handled[x] <= 1
      BY <1>1 DEF IInv, RetapInv
    <3>2. handled'[x] = IF recent'[x] = 0 THEN 0 ELSE handled[x]
      BY <1>2
    <3> QED BY <1>1, <3>1, <3>2
  <2> QED BY <2>1 DEF RetapInv
<1>6. CASE Live(hour) /\ ~Live(hour')
  <2>1. /\ allowed' = 0
        /\ task' = [t \in Tasks |-> IF task[t].hour > 0 THEN [task[t] EXCEPT !.fresh = FALSE]
                                                        ELSE task[t]]
    BY <1>6 DEF Tick
  <2>2. ASSUME NEW t \in Tasks
        PROVE  /\ task'[t] \in Task
               /\ task'[t].at = task[t].at /\ task'[t].hour = task[t].hour
               /\ task[t].hour > 0 => ~task'[t].fresh
    <3>1. task[t] \in Task
      BY <1>1
    <3> QED BY <2>1, <3>1 DEF Task
  <2>3. task' \in [Tasks -> Task]
    BY <2>1, <2>2
  <2>4. Pending' = {}
    BY <2>2 DEF IInv, CapInv, Pending, Counted
  <2>5. Cardinality(Pending') = 0
    BY <2>4, FS_EmptySet
  <2>6. \A t \in Tasks : Counted(t)' => task'[t].hour > 0
    BY <2>2 DEF IInv, CapInv, Counted
  <2>7. hour'.count \in Nat
    BY <1>3
  <2>8. CapInv'
    BY <1>1, <2>1, <2>5, <2>6, <2>7 DEF CapInv
  <2>9. TypeOK'
    BY <1>1, <1>2, <1>3, <1>4, <2>1, <2>3 DEF TypeOK
  <2> QED BY <1>5, <2>8, <2>9 DEF IInv
<1>7. CASE ~(Live(hour) /\ ~Live(hour'))
  <2>1. allowed' = allowed /\ task' = task
    BY <1>7 DEF Tick
  <2>2. hour'.count = hour.count
    BY <1>1, <1>3, <1>7 DEF Live, Absent
  <2>3. Pending' = Pending
    BY <2>1 DEF Pending, Counted
  <2>4. CapInv'
    BY <2>1, <2>2, <2>3 DEF IInv, CapInv, Counted
  <2>5. TypeOK'
    BY <1>1, <1>2, <1>3, <1>4, <2>1 DEF TypeOK
  <2> QED BY <1>5, <2>4, <2>5 DEF IInv
<1> QED BY <1>6, <1>7

-----------------------------------------------------------------------------
LEMMA InitInv ==
  ASSUME AbuseLimitsAssumption, Init
  PROVE  IInv
<1>1. TypeOK
  <2>1. Absent \in Keys(Hour) /\ Absent \in Keys(Day) /\ Idle \in Task
    BY DEF Absent, Keys, Idle, Task, AbuseLimitsAssumption
  <2>2. 0 \in 0..Cooldown
    BY DEF AbuseLimitsAssumption
  <2> QED BY <2>1, <2>2 DEF Init, TypeOK, Keys
<1>2. Pending = {} /\ \A t \in Tasks : ~Counted(t)
  BY DEF Init, Pending, Counted, Idle
<1>3. Cardinality(Pending) = 0
  BY <1>2, FS_EmptySet
<1>4. CapInv
  BY <1>2, <1>3 DEF Init, CapInv, Absent, AbuseLimitsAssumption
<1>5. RetapInv
  BY DEF Init, RetapInv
<1> QED BY <1>1, <1>4, <1>5 DEF IInv

LEMMA NextKeeps ==
  ASSUME AbuseLimitsAssumption, IInv, [Next]_vars
  PROVE  IInv'
<1>1. CASE UNCHANGED vars
  <2>1. Pending' = Pending
    BY <1>1 DEF vars, Pending, Counted
  <2> QED BY <1>1, <2>1 DEF vars, IInv, TypeOK, CapInv, RetapInv, Counted
<1>2. CASE Tick
  BY <1>2, TickKeeps
<1>3. ASSUME NEW t \in Tasks, NEW x \in Texts \cup {NoText}, Receive(t, x) PROVE IInv'
  BY <1>3, ReceiveKeeps
<1>4. ASSUME NEW t \in Tasks, Step(t) PROVE IInv'
  BY <1>4, IncrHourKeeps, ExpireHourKeeps, IncrDayKeeps, ExpireDayKeeps, FailOpenKeeps,
     VerdictKeeps, DeduplicateKeeps DEF Step
<1> QED BY <1>1, <1>2, <1>3, <1>4 DEF Next

\* The inductive invariant holds of every behaviour.
THEOREM Invariant == Spec => []IInv
<1>1. Init => IInv
  BY InitInv, AbuseLimitsAssumption
<1>2. IInv /\ [Next]_vars => IInv'
  BY NextKeeps, AbuseLimitsAssumption
<1> QED BY <1>1, <1>2, PTL DEF Spec

\* The counters and cooldown keys of app/abuse/limits.py keep their types, and no key
\* that has an expiry outlives its lifetime.
THEOREM TypeCorrect == Spec => []TypeOK
<1>1. IInv => TypeOK
  BY DEF IInv
<1> QED BY <1>1, Invariant, PTL

\* check_rate_limit lets no more than the hourly cap of the messages counted in one
\* window through, for any number of overlapping tasks and whichever calls fail.
THEOREM CapCorrect == Spec => []HourlyCap
<1>1. IInv => HourlyCap
  <2>1. Cardinality(Pending) \in Nat
    BY PendingFinite, AbuseLimitsAssumption
  <2> QED BY <2>1, AbuseLimitsAssumption
      DEF IInv, CapInv, TypeOK, HourlyCap, AbuseLimitsAssumption
<1> QED BY <1>1, Invariant, PTL

\* is_duplicate lets one copy of a text through while its cooldown key lives, for any
\* number of copies handled at once.
THEOREM RetapCorrect == Spec => []RetapsDropped
<1>1. IInv => RetapsDropped
  BY DEF IInv, TypeOK, RetapInv, RetapsDropped
<1> QED BY <1>1, Invariant, PTL
==============================================================================
