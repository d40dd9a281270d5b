-------------------------------- MODULE Intake --------------------------------
(***************************************************************************)
(* The way of a user's messages into Conversation: what                    *)
(* orchestrator.handle (app/flows) does with each before it looks at the   *)
(* session.  The background tasks of app/main.py overlap all along, so      *)
(* copies of one text may be at any two points of it.                      *)
(*                                                                         *)
(* Of app/abuse/limits.py only the cooldown keys are here: the counters,    *)
(* which AbuseLimits has, may turn any message down.  A message of Taps has *)
(* the same text each time it is sent; any other one is worded anew, so no  *)
(* key is ever found for it.  Time is in ticks of Redis's clock.  The       *)
(* variables of Conversation change by its own actions only.               *)
(***************************************************************************)
EXTENDS Conversation

CONSTANTS Script,       \* the messages the user may send
          Taps,         \* those of them sent with one and the same text
          Cooldown      \* identical_query_cooldown_seconds, in ticks

ASSUME IntakeAssumption ==
  /\ Script \subseteq Message
  /\ Taps \subseteq {m \in Script : m.kind \notin {"location", "empty"}}   \* which have no text
  /\ Cooldown \in Nat \ {0}

VARIABLES limiting,  \* the tasks still at the abuse checks
          text,      \* the message each task was started with
          recent,    \* ticks each text's cooldown key has left, 0: absent
          arrived,   \* messages that reached the webhook
          last,      \* history: the message that arrived last
          turned,    \* history: what the abuse checks did with it
          calm       \* history: only copies of one text have overlapped so far, none
                     \* ran on past its cooldown, and Redis carried out every write

intake == <<limiting, text, recent, arrived>>
intakeVars == <<vars, intake, last, turned, calm>>

\* What no task has been started with yet.
Unsent == [kind |-> "location", place |-> NoPlace]

Handling(h) == pc[h] \notin Ended
Busy(h) == h \in limiting \/ Handling(h)

\* What is_duplicate finds.
Held(m) == m \in Taps /\ recent[m] > 0

-----------------------------------------------------------------------------
IntakeInit ==
  /\ Init
  /\ limiting = {}
  /\ text = [h \in Handlers |-> Unsent]
  /\ recent = [m \in Taps |-> 0]
  /\ arrived = 0
  /\ last = Unsent /\ turned = "no" /\ calm = TRUE

\* The webhook starts a task.  A copy of the one text under way is calm.
Arrive(h, m) ==
  /\ ~Busy(h)
  /\ arrived < MaxMessages
  /\ arrived' = arrived + 1
  /\ limiting' = limiting \cup {h}
  /\ text' = [text EXCEPT ![h] = m]
  /\ last' = m /\ turned' = "no"
  /\ calm' = (calm /\ \A g \in Handlers : Busy(g) => text[g] = m /\ m \in Taps)
  /\ UNCHANGED <<vars, recent>>

\* The task is done with the abuse checks.
Leave(h) == /\ h \in limiting
            /\ limiting' = limiting \ {h}

\* Over a limit: the user is told, and the task ends.
Refuse(h) ==
  /\ Leave(h)
  /\ turned' = IF text[h] = last THEN "limit" ELSE turned
  /\ UNCHANGED <<vars, text, recent, arrived, last, calm>>

\* Within its cooldown a text is ignored without a word.
Ignore(h) ==
  /\ Leave(h)
  /\ Held(text[h])
  /\ turned' = IF text[h] = last THEN "retap" ELSE turned
  /\ UNCHANGED <<vars, text, recent, arrived, last, calm>>

\* Mutant: what is_duplicate says is not heeded, and a re-tap prolongs the key.
TakeOnAnyway(h) ==
  /\ Leave(h)
  /\ recent' = IF text[h] \in Taps THEN [recent EXCEPT ![text[h]] = @ + Cooldown] ELSE recent
  /\ Receive(h, text[h])
  /\ UNCHANGED <<text, arrived, last, turned, calm>>

\* Otherwise the text's key is set, and the handler reads the session.
TakeOn(h) ==
  /\ Leave(h)
  /\ ~Held(text[h])
  /\ recent' = IF text[h] \in Taps THEN [recent EXCEPT ![text[h]] = Cooldown] ELSE recent
  /\ Receive(h, text[h])
  /\ UNCHANGED <<text, arrived, last, turned, calm>>

\* A Redis error lets the message through, whatever was sent before.
FailOpen(h) ==
  /\ ~Reliable
  /\ Leave(h)
  /\ Receive(h, text[h])
  /\ calm' = (calm /\ text[h] \notin Taps)
  /\ UNCHANGED <<text, recent, arrived, last, turned>>

Handle(h) ==
  /\ Step(h)
  /\ calm' = (calm /\ clean' = clean)
  /\ UNCHANGED <<intake, last, turned>>

ExpireSession ==
  /\ Expire
  /\ UNCHANGED <<intake, last, turned, calm>>

Tick ==
  /\ \E m \in Taps : recent[m] > 0
  /\ recent' = [m \in Taps |-> IF recent[m] > 0 THEN recent[m] - 1 ELSE 0]
  /\ calm' = (calm /\ \A h \in Handlers :
                        Handling(h) /\ text[h] \in Taps => recent[text[h]] > 1)
  /\ UNCHANGED <<vars, limiting, text, arrived, last, turned>>

IntakeNext ==
  \/ \E h \in Handlers : \/ \E m \in Script : Arrive(h, m)
                         \/ Refuse(h) \/ Ignore(h) \/ TakeOn(h) \/ FailOpen(h)
                         \/ Handle(h)
  \/ ExpireSession \/ Tick

IntakeSpec == IntakeInit /\ [][IntakeNext]_intakeVars

-----------------------------------------------------------------------------
(* Properties                                                              *)

\* A user who taps send twice is as well off as one who taps once ("debounces
\* accidental re-taps", limits.py:8): while copies of one text are all that overlap,
\* and none is still handled when its cooldown ends, only one handler runs at a time,
\* and a trip confirmed with two taps is filed once.
RetapsAreHarmless ==
  calm => /\ \A g, h \in Handlers : Handling(g) /\ Handling(h) => g = h
  /\ \A t \in Trips : filed[t] <= 1

Still == \A h \in Handlers : ~Busy(h)

\* "cancel at any point -> session deleted, no submission" (docs/progress/
\* phase-3b-live-trip-recording.md:113), for a user who was not told to wait.
CancelHeeded ==
  calm /\ Still /\ last.kind = "cancel" /\ turned # "limit" => store.recording = NoRec

\* ... which holds unless the cancel was taken for a re-tap of an earlier one.
CancelHeededIfServed == turned = "no" => CancelHeeded
=============================================================================
