----------------------------- MODULE AbuseLimits -----------------------------
(***************************************************************************)
(* The per-number limits of app/abuse/limits.py, called at the top of      *)
(* orchestrator.handle by every background task: two tumbling counters in  *)
(* Redis (INCR, then EXPIRE when the count is 1) and the cooldown key of   *)
(* each text (SET NX EX).  One number; its tasks interleave between any    *)
(* two Redis calls, and keys expire while they run.                        *)
(*                                                                         *)
(* A key is its count (0: absent) and the ticks it has left to live;       *)
(* Forever is a key that was never given an expiry.                        *)
(***************************************************************************)
EXTENDS Naturals, FiniteSets

CONSTANTS Tasks,        \* background tasks alive at once
          Texts, NoText,
          HourLimit, DayLimit,   \* rate_limit_per_hour, rate_limit_per_day
          Hour, Day, Cooldown,   \* lifetimes of the keys, in ticks
          MaxMessages,  \* bound: messages sent
          Faulty        \* the calls that may fail (the check fails open)

ASSUME AbuseLimitsAssumption ==
  /\ IsFiniteSet(Tasks) /\ NoText \notin Texts
  /\ HourLimit \in Nat \ {0} /\ DayLimit \in Nat \ {0}
  /\ Hour \in Nat \ {0} /\ Day \in Nat \ {0} /\ Cooldown \in Nat \ {0}
  /\ MaxMessages \in Nat
  /\ Faulty \subseteq {"hour", "hour_expire", "day", "day_expire", "cooldown"}

VARIABLES hour, day,    \* the counter keys
          recent,       \* ticks each text's cooldown key has left, 0: absent
          task,         \* where each task is, and what it has read
          messages,     \* messages received so far
          allowed,      \* history: tasks' verdicts counted in the live hour window
          handled       \* history: texts let through while their cooldown key lives

vars == <<hour, day, recent, task, messages, allowed, handled>>

Forever == Hour + Day
Absent == [count |-> 0, ttl |-> 0]
Live(key) == key.count > 0

Idle == [at |-> "idle", text |-> NoText, hour |-> 0, day |-> 0, fresh |-> TRUE]

\* "fresh": the hour window the task was counted in is still the live one.
Task == [at : {"idle", "hour", "hour_expire", "day", "day_expire", "verdict", "cooldown"},
         text : Texts \cup {NoText}, hour : Nat, day : Nat, fresh : BOOLEAN]

At(t, l) == task[t].at = l
Move(t, new) == task' = [task EXCEPT ![t] = new]
Goto(t, l) == Move(t, [task[t] EXCEPT !.at = l])

Incr(key) == [count |-> key.count + 1, ttl |-> IF Live(key) THEN key.ttl ELSE Forever]

-----------------------------------------------------------------------------
Init == /\ hour = Absent /\ day = Absent
        /\ recent = [x \in Texts |-> 0]
        /\ task = [t \in Tasks |-> Idle]
        /\ messages = 0
        /\ allowed = 0
        /\ handled = [x \in Texts |-> 0]

\* NoText stands for a shared location.
Receive(t, x) ==
  /\ At(t, "idle") /\ messages < MaxMessages
  /\ messages' = messages + 1
  /\ Move(t, [Idle EXCEPT !.at = "hour", !.text = x])
  /\ UNCHANGED <<hour, day, recent, allowed, handled>>

\* Mutant: the hourly counter is never given its expiry.
IncrHourOnly(t) ==
  /\ At(t, "hour")
  /\ hour' = Incr(hour)
  /\ Move(t, [task[t] EXCEPT !.hour = hour'.count, !.at = "day"])
  /\ UNCHANGED <<day, recent, messages, allowed, handled>>

IncrHour(t) ==
  /\ At(t, "hour")
  /\ hour' = Incr(hour)
  /\ Move(t, [task[t] EXCEPT !.hour = hour'.count,
                             !.at = IF hour'.count = 1 THEN "hour_expire" ELSE "day"])
  /\ UNCHANGED <<day, recent, messages, allowed, handled>>

ExpireHour(t) ==
  /\ At(t, "hour_expire")
  /\ hour' = IF Live(hour) THEN [hour EXCEPT !.ttl = Hour] ELSE hour
  /\ Goto(t, "day")
  /\ UNCHANGED <<day, recent, messages, allowed, handled>>

IncrDay(t) ==
  /\ At(t, "day")
  /\ day' = Incr(day)
  /\ Move(t, [task[t] EXCEPT !.day = day'.count,
                             !.at = IF day'.count = 1 THEN "day_expire" ELSE "verdict"])
  /\ UNCHANGED <<hour, recent, messages, allowed, handled>>

ExpireDay(t) ==
  /\ At(t, "day_expire")
  /\ day' = IF Live(day) THEN [day EXCEPT !.ttl = Day] ELSE day
  /\ Goto(t, "verdict")
  /\ UNCHANGED <<hour, recent, messages, allowed, handled>>

\* A Redis error ends the check there and then: the message is allowed.  (A call
\* that was carried out and only its answer lost is the call, then this.)
FailOpen(t) ==
  /\ task[t].at \in Faulty \ {"cooldown"}
  /\ Goto(t, "cooldown")
  /\ UNCHANGED <<hour, day, recent, messages, allowed, handled>>

\* Mutant: one message too many.
OverLimitByOne(t) == task[t].hour > HourLimit + 1 \/ task[t].day > DayLimit

OverLimit(t) == task[t].hour > HourLimit \/ task[t].day > DayLimit

\* Over a limit the user is told to wait and the task ends.
Verdict(t) ==
  /\ At(t, "verdict")
  /\ IF OverLimit(t)
     THEN Move(t, Idle) /\ UNCHANGED allowed
     ELSE /\ Goto(t, "cooldown")
          /\ allowed' = allowed + (IF task[t].fresh THEN 1 ELSE 0)
  /\ UNCHANGED <<hour, day, recent, messages, handled>>

\* Mutants: SET without NX lets every text through; each re-tap prolongs the key.
DeduplicateWithoutNX(t) ==
  LET x == task[t].text IN
  /\ At(t, "cooldown")
  /\ IF x = NoText THEN UNCHANGED <<recent, handled>>
     ELSE recent' = [recent EXCEPT ![x] = Cooldown] /\ handled' = [handled EXCEPT ![x] = @ + 1]
  /\ Move(t, Idle)
  /\ UNCHANGED <<hour, day, messages, allowed>>

DeduplicateProlongs(t) ==
  LET x == task[t].text IN
  /\ At(t, "cooldown") /\ x # NoText
  /\ recent' = [recent EXCEPT ![x] = @ + Cooldown]
  /\ Move(t, Idle)
  /\ UNCHANGED <<hour, day, messages, allowed, handled>>

\* is_duplicate: locations are let through, a text whose key lives is dropped.
\* What orchestrator.handle does next is Conversation.
Deduplicate(t) ==
  LET x == task[t].text IN
  /\ At(t, "cooldown")
  /\ \/ /\ x # NoText
        /\ recent' = [recent EXCEPT ![x] = IF @ = 0 THEN Cooldown ELSE @]
        /\ handled' = [handled EXCEPT ![x] = IF recent[x] = 0 THEN @ + 1 ELSE @]
     \/ /\ x = NoText \/ "cooldown" \in Faulty
        /\ UNCHANGED <<recent, handled>>
  /\ Move(t, Idle)
  /\ UNCHANGED <<hour, day, messages, allowed>>

\* A tick of Redis's clock: keys with an expiry age, and go at its end.
Aged(key) == IF key.ttl = Forever THEN key
             ELSE IF key.ttl <= 1 THEN Absent
             ELSE [key EXCEPT !.ttl = @ - 1]

Tick ==
  /\ Aged(hour) # hour \/ Aged(day) # day \/ \E x \in Texts : recent[x] > 0
  /\ hour' = Aged(hour)
  /\ day' = Aged(day)
  /\ recent' = [x \in Texts |-> IF recent[x] = 0 THEN 0 ELSE recent[x] - 1]
  /\ handled' = [x \in Texts |-> IF recent'[x] = 0 THEN 0 ELSE handled[x]]
  /\ IF Live(hour) /\ ~Live(hour')
     THEN /\ allowed' = 0
          /\ task' = [t \in Tasks |-> IF task[t].hour > 0 THEN [task[t] EXCEPT !.fresh = FALSE]
                                                           ELSE task[t]]
     ELSE UNCHANGED <<allowed, task>>
  /\ UNCHANGED messages

Step(t) == \/ IncrHour(t) \/ ExpireHour(t) \/ IncrDay(t) \/ ExpireDay(t)
           \/ FailOpen(t) \/ Verdict(t) \/ Deduplicate(t)

Next == \/ \E t \in Tasks : Step(t) \/ \E x \in Texts \cup {NoText} : Receive(t, x)
        \/ Tick

\* Time passes, and the event loop runs every task.
Spec == Init /\ [][Next]_vars /\ WF_vars(Tick) /\ \A t \in Tasks : WF_vars(Step(t))

-----------------------------------------------------------------------------
(* Properties                                                              *)

\* Counters, keys and tasks keep their shape; no key outlives its lifetime.
TypeOK ==
  /\ hour \in [count : Nat, ttl : 0..Hour \cup {Forever}]
  /\ day \in [count : Nat, ttl : 0..Day \cup {Forever}]
  /\ recent \in [Texts -> 0..Cooldown]
  /\ task \in [Tasks -> Task]
  /\ messages \in Nat /\ allowed \in Nat
  /\ handled \in [Texts -> Nat]

\* However the tasks of a burst interleave, no more than the hourly cap of the
\* messages counted in one window are let through.
HourlyCap == allowed <= HourLimit

\* A re-tapped text is handled once while its cooldown lasts, even when both
\* taps are being handled at the same time.
RetapsDropped == \A x \in Texts : handled[x] <= 1

\* "When a window expires, the count resets" (limits.py:10-11): a number over a
\* limit is served again later, whatever it sends meanwhile.
BlockedIsTemporary ==
  /\ hour.count > HourLimit ~> hour.count <= HourLimit
  /\ day.count > DayLimit ~> day.count <= DayLimit
=============================================================================
