---------------------------- MODULE Conversation ----------------------------
(***************************************************************************)
(* One user's conversation with the bot: the session kept in Redis         *)
(* (app/session/store.py) and the handlers of app/flows/orchestrator.py    *)
(* that read it, work on their copy, and write it back.  The webhook starts *)
(* one background task per message (app/main.py), so handlers of the same  *)
(* user overlap at every await.  A step below is what happens between two  *)
(* accesses to something shared: the session, the corridor tables, the     *)
(* user's chat.                                                            *)
(*                                                                         *)
(* A recording is seen as Contribution sees it: which trip it is, how many *)
(* answers it holds, and whether it is up for review (Recording has the    *)
(* stages).  session.origin is left out: no handler ever sets it, so       *)
(* "awaiting origin" is just destination # None.  Which message is what    *)
(* (app/intent/detector.py), geocoding, routing and corridor lookups are   *)
(* nondeterministic outcomes.                                              *)
(***************************************************************************)
EXTENDS Naturals, FiniteSets, Sequences

CONSTANTS Handlers,      \* background tasks that may be alive at once
          Places,        \* destinations the user may ask for
          NoPlace,       \* None
          Answers,       \* answers a trip needs before its review
          MaxMessages,   \* bound: messages sent by the user
          Reliable       \* FALSE: Redis calls may fail (only logged), so may sends, and
                         \* the geocoder and the router may fail to connect

ASSUME ConversationAssumption ==
  /\ NoPlace \notin Places
  /\ Answers \in Nat \ {0}
  /\ MaxMessages \in Nat
  /\ Reliable \in BOOLEAN

VARIABLES store,     \* the session in Redis
          pc,        \* where each handler is
          msg,       \* the message it works on
          snap,      \* its copy of the session
          sent,      \* replies it has sent, or tried to
          filed,     \* filed[t]: pending corridors created from trip t
          trips,     \* recordings started so far
          messages,  \* messages received so far
          cancelled, \* history: the trips the user cancelled
          answered,  \* history: answered[t], answers taken for trip t
          asked,     \* history: the place asked for last, while it stands
          clean      \* history: no two handlers overlapped and no write was lost

local == <<pc, msg, snap, sent>>
history == <<cancelled, answered, asked>>
vars == <<store, local, filed, trips, messages, history, clean>>

Trips == 1..MaxMessages

NoRec == [trip |-> 0, taken |-> 0]
Rec == [trip : Trips, taken : 0..Answers]

Session == [destination : Places \cup {NoPlace},
            clarify     : Places \cup {NoPlace},   \* what pending_clarification is about
            recording   : Rec \cup {NoRec}]

\* An absent key and a fresh SessionState are the same to every handler.
Fresh == [destination |-> NoPlace, clarify |-> NoPlace, recording |-> NoRec]

Message == [kind : {"direction"}, place : Places]
             \cup [kind : {"location", "empty", "cancel", "start", "end", "confirm", "text"},
                   place : {NoPlace}]

Labels == {"idle", "triage", "location", "dispatch", "capture", "submit", "close",
           "route", "wipe", "reply", "raised"}

\* Where no handler runs: the last one ended, or an exception ended it before
\* its reply (FastAPI logs what a background task raises).
Ended == {"idle", "raised"}

InReview(rec) == rec.taken = Answers

-----------------------------------------------------------------------------
(* The store                                                               *)

Put(s) == \/ store' = s /\ UNCHANGED clean
          \/ ~Reliable /\ UNCHANGED store /\ clean' = FALSE

Delete == Put(Fresh)

\* Handler h carries on at label l with its copy of the session being s; the copy
\* goes with the handler.
Go(h, l, s) == /\ pc' = [pc EXCEPT ![h] = l]
               /\ snap' = [snap EXCEPT ![h] = IF l \in Ended THEN Fresh ELSE s]

\* ... after writing s back.
Save(h, l, s) == Go(h, l, s) /\ Put(s)

\* ... without writing.
Skip(h, l) == Go(h, l, snap[h]) /\ UNCHANGED <<store, clean>>

Quiet == UNCHANGED <<msg, sent, filed, trips, messages, history>>

-----------------------------------------------------------------------------
Init == /\ store = Fresh
        /\ pc = [h \in Handlers |-> "idle"]
        /\ msg = [h \in Handlers |-> [kind |-> "text", place |-> NoPlace]]
        /\ snap = [h \in Handlers |-> Fresh]
        /\ sent = [h \in Handlers |-> 1]
        /\ filed = [t \in Trips |-> 0]
        /\ trips = 0 /\ messages = 0
        /\ cancelled = {}
        /\ answered = [t \in Trips |-> 0]
        /\ asked = NoPlace
        /\ clean = TRUE

\* A message passes the abuse checks and store.get answers; a failed get
\* counts as no session.  A message turned down never gets here (AbuseLimits).
Receive(h, m) ==
  /\ pc[h] \in Ended
  /\ messages < MaxMessages
  /\ messages' = messages + 1
  /\ msg' = [msg EXCEPT ![h] = m]
  /\ sent' = [sent EXCEPT ![h] = 0]
  /\ \/ Go(h, "triage", store)
     \/ ~Reliable /\ Go(h, "triage", Fresh)
  /\ clean' = (clean /\ \A g \in Handlers : pc[g] \in Ended)
  /\ UNCHANGED <<store, filed, trips, history>>

\* Location shares first; a message with neither location nor text is refused, and
\* leaves an ambiguity prompt standing; then an answer to that prompt.
Triage(h) ==
  LET s == snap[h]
      declined == [s EXCEPT !.clarify = NoPlace]
      picked == [s EXCEPT !.clarify = NoPlace, !.destination = s.clarify]
  IN
  /\ pc[h] = "triage"
  /\ \/ /\ msg[h].kind = "location" /\ s.recording # NoRec
        /\ Skip(h, "capture")
     \/ /\ msg[h].kind = "location" /\ s.recording = NoRec
        /\ IF s.clarify # NoPlace THEN Save(h, "location", declined) ELSE Skip(h, "location")
     \/ /\ msg[h].kind = "empty"
        /\ Skip(h, "reply")
     \/ /\ msg[h].kind \notin {"location", "empty"} /\ s.clarify = NoPlace
        /\ Skip(h, "dispatch")
     \/ /\ msg[h].kind \notin {"location", "empty"} /\ s.clarify # NoPlace
        /\ \/ msg[h].kind = "text" /\ Save(h, "reply", picked)
           \/ Save(h, "dispatch", declined)
  /\ Quiet

\* A location outside a recording: the origin if one is awaited.
Location(h) ==
  /\ pc[h] = "location"
  /\ IF snap[h].destination # NoPlace THEN Skip(h, "route") ELSE Skip(h, "reply")
  /\ Quiet

\* Mutant: cancelling only says so.
CancelForgetsDelete(h) ==
  /\ pc[h] = "dispatch" /\ msg[h].kind = "cancel"
  /\ Skip(h, "reply")
  /\ cancelled' = cancelled \cup ({store.recording.trip} \ {NoRec.trip})
  /\ asked' = NoPlace
  /\ UNCHANGED <<msg, sent, filed, trips, messages, answered>>

Cancel(h) ==
  /\ pc[h] = "dispatch" /\ msg[h].kind = "cancel"
  /\ Delete
  /\ Go(h, "reply", snap[h])
  /\ cancelled' = cancelled \cup ({store.recording.trip} \ {NoRec.trip})
  /\ asked' = NoPlace
  /\ UNCHANGED <<msg, sent, filed, trips, messages, answered>>

\* "end": nudged, discarded as too early, or moved on towards the review.
EndRoute(h) ==
  LET s == snap[h] IN
  /\ pc[h] = "dispatch" /\ msg[h].kind = "end"
  /\ \/ Skip(h, "reply")
     \/ s.recording # NoRec /\ Save(h, "reply", s)
     \/ /\ s.recording # NoRec /\ ~InReview(s.recording)
        /\ Save(h, "reply", [s EXCEPT !.recording = NoRec])
  /\ Quiet

\* Mutant: only free text gets to the recording.
ToRecordingTextOnly(h) ==
  /\ pc[h] = "dispatch" /\ msg[h].kind \in {"text", "confirm"}
  /\ snap[h].recording # NoRec
  /\ Skip(h, "capture")
  /\ Quiet

\* Any other text while recording is for the recording.
ToRecording(h) ==
  /\ pc[h] = "dispatch" /\ msg[h].kind \notin {"cancel", "end"}
  /\ snap[h].recording # NoRec
  /\ Skip(h, "capture")
  /\ Quiet

\* Mutant: a destination asked for before is kept.
StartKeepsDestination(h) ==
  /\ pc[h] = "dispatch" /\ msg[h].kind = "start" /\ snap[h].recording = NoRec
  /\ trips' = trips + 1
  /\ Save(h, "reply", [snap[h] EXCEPT !.recording = [trip |-> trips + 1, taken |-> 0]])
  /\ asked' = NoPlace
  /\ UNCHANGED <<msg, sent, filed, messages, cancelled, answered>>

\* (One trip a message at most, so the bound on trips never bites.)
Start(h) ==
  LET s == snap[h] IN
  /\ pc[h] = "dispatch" /\ msg[h].kind = "start" /\ s.recording = NoRec
  /\ trips < MaxMessages
  /\ trips' = trips + 1
  /\ Save(h, "reply", [s EXCEPT !.recording = [trip |-> trips + 1, taken |-> 0],
                                !.destination = NoPlace])
  /\ asked' = NoPlace
  /\ UNCHANGED <<msg, sent, filed, messages, cancelled, answered>>

\* _handle_direction: the place is found, found several times, or not at all.
\* An origin named along with it routes at once.  Only a timeout of the geocoder
\* is caught: failing to connect, for the destination or then for the origin,
\* ends the handler without a reply.
Direction(h) ==
  LET s == snap[h]
      p == msg[h].place
      found == [s EXCEPT !.destination = p]
  IN
  /\ pc[h] = "dispatch" /\ msg[h].kind = "direction" /\ s.recording = NoRec
  /\ \/ Save(h, "reply", found)
     \/ Save(h, "route", found)
     \/ Save(h, "reply", [s EXCEPT !.clarify = p])
     \/ Skip(h, "reply")
     \/ ~Reliable /\ (Skip(h, "raised") \/ Save(h, "raised", found))
  /\ asked' = p
  /\ UNCHANGED <<msg, sent, filed, trips, messages, cancelled, answered>>

\* Free text: the origin if one is awaited and it resolves; help, a nearby
\* query and an unknown intent only get their reply.
Text(h) ==
  /\ pc[h] = "dispatch" /\ msg[h].kind \in {"text", "confirm"} /\ snap[h].recording = NoRec
  /\ \/ snap[h].destination # NoPlace /\ Skip(h, "route")
     \/ snap[h].destination # NoPlace /\ ~Reliable /\ Skip(h, "raised")
     \/ Skip(h, "reply")
  /\ Quiet

\* Mutants: the answer is not written back; an answer is taken in the review.
CaptureForgetsPut(h) ==
  LET s == snap[h] IN
  /\ pc[h] = "capture"
  /\ Skip(h, IF InReview(s.recording) /\ msg[h].kind = "confirm" THEN "submit" ELSE "reply")
  /\ answered' = IF InReview(s.recording) THEN answered
                 ELSE [answered EXCEPT ![s.recording.trip] = @ + 1]
  /\ UNCHANGED <<msg, sent, filed, trips, messages, cancelled, asked>>

CaptureInReview(h) ==
  /\ pc[h] = "capture"
  /\ Save(h, "reply", [snap[h] EXCEPT !.recording.taken = @ + 1])
  /\ UNCHANGED <<msg, sent, filed, trips, messages, history>>

\* recording.handle: an answer is taken or re-prompted; a review is confirmed,
\* discarded or re-prompted.
Capture(h) ==
  LET s == snap[h] IN
  /\ pc[h] = "capture"
  /\ \/ /\ Skip(h, "reply")
        /\ UNCHANGED answered
     \/ /\ ~InReview(s.recording)
        /\ Save(h, "reply", [s EXCEPT !.recording.taken = @ + 1])
        /\ answered' = [answered EXCEPT ![s.recording.trip] = @ + 1]
     \/ /\ InReview(s.recording) /\ msg[h].kind = "confirm"
        /\ Skip(h, "submit")
        /\ UNCHANGED answered
     \/ /\ InReview(s.recording) /\ msg[h].kind = "text"
        /\ Save(h, "reply", [s EXCEPT !.recording = NoRec])
        /\ UNCHANGED answered
  /\ UNCHANGED <<msg, sent, filed, trips, messages, cancelled, asked>>

\* _submit: the corridor is committed, or validation or the database says no.
\* The anchors are built before its try: a name over 120 characters raises.
Submit(h) ==
  /\ pc[h] = "submit"
  /\ \/ /\ filed' = [filed EXCEPT ![snap[h].recording.trip] = @ + 1]
        /\ Skip(h, "close")
     \/ /\ UNCHANGED filed
        /\ Skip(h, "reply") \/ Skip(h, "raised")
  /\ UNCHANGED <<msg, sent, trips, messages, history>>

\* Mutant: the recording stays open once filed.
CloseKeepsRecording(h) ==
  /\ pc[h] = "close"
  /\ Save(h, "reply", snap[h])
  /\ Quiet

\* ... and only then is the recording cleared.
Close(h) ==
  /\ pc[h] = "close"
  /\ Save(h, "reply", [snap[h] EXCEPT !.recording = NoRec])
  /\ Quiet

\* Mutant: a route is sent after the corridor.
RouteFallsThrough(h) ==
  /\ pc[h] = "route"
  /\ \/ sent' = [sent EXCEPT ![h] = @ + 1] /\ Skip(h, "reply")
     \/ UNCHANGED sent /\ Skip(h, "reply")
  /\ UNCHANGED <<msg, filed, trips, messages, history>>

\* _route_and_reply: a corridor or a plain route is sent, then the session is
\* deleted; a failed route is reported and the session kept.  A send that
\* raises ends the handler there, and so does a router that cannot be reached.
Route(h) ==
  /\ pc[h] = "route"
  /\ \/ sent' = [sent EXCEPT ![h] = @ + 1] /\ Skip(h, "wipe")
     \/ sent' = [sent EXCEPT ![h] = @ + 1] /\ ~Reliable /\ Skip(h, "idle")
     \/ UNCHANGED sent /\ Skip(h, "reply")
     \/ UNCHANGED sent /\ ~Reliable /\ Skip(h, "raised")
  /\ UNCHANGED <<msg, filed, trips, messages, history>>

Wipe(h) ==
  /\ pc[h] = "wipe"
  /\ Delete
  /\ Go(h, "idle", snap[h])
  /\ asked' = NoPlace
  /\ UNCHANGED <<msg, sent, filed, trips, messages, cancelled, answered>>

Reply(h) ==
  /\ pc[h] = "reply"
  /\ sent' = [sent EXCEPT ![h] = @ + 1]
  /\ Skip(h, "idle")
  /\ UNCHANGED <<msg, filed, trips, messages, history>>

\* The user was quiet for session_ttl_seconds.
Expire ==
  /\ store # Fresh
  /\ store' = Fresh
  /\ asked' = NoPlace
  /\ UNCHANGED <<local, filed, trips, messages, cancelled, answered, clean>>

Step(h) == \/ Triage(h) \/ Location(h) \/ Cancel(h) \/ EndRoute(h) \/ ToRecording(h)
           \/ Start(h) \/ Direction(h) \/ Text(h) \/ Capture(h) \/ Submit(h)
           \/ Close(h) \/ Route(h) \/ Wipe(h) \/ Reply(h)

Next == \/ \E h \in Handlers : Step(h) \/ \E m \in Message : Receive(h, m)
        \/ Expire

Spec == Init /\ [][Next]_vars

-----------------------------------------------------------------------------
(* Properties                                                              *)

TypeOK ==
  /\ store \in Session
  /\ pc \in [Handlers -> Labels]
  /\ msg \in [Handlers -> Message]
  /\ snap \in [Handlers -> Session]
  /\ sent \in [Handlers -> Nat]
  /\ filed \in [Trips -> Nat]
  /\ trips \in Nat /\ messages \in Nat
  /\ cancelled \subseteq Trips
  /\ answered \in [Trips -> Nat]
  /\ asked \in Places \cup {NoPlace}
  /\ clean \in BOOLEAN

\* A user is either recording a trip or asking for one, never both: a stored
\* recording comes with no destination and no open choice, so a location shared
\* for a stop is never answered with a route.  Whole-session writes keep this
\* even when handlers overlap, the session expires or Redis drops a write.
ModesExclusive ==
  store.recording # NoRec => store.destination = NoPlace /\ store.clarify = NoPlace

\* No handler replies twice, and one that ends without an exception has replied
\* once: no branch of the dispatch falls silent, and none falls through into
\* another after replying.
OneReply ==
  \A h \in Handlers : sent[h] = IF pc[h] \in {"idle", "wipe"} THEN 1 ELSE 0

\* A handler is never left without a next step, whatever copy of the session it works
\* on: wherever the dispatch leads, some branch takes the message.  No step goes back
\* (StepsAdvance), so each message is answered, or its handler ends with an exception.
NeverStuck == \A h \in Handlers : pc[h] \notin Ended => ENABLED Step(h)

\* "cancel at any point -> session deleted, no submission" (docs/progress): a
\* cancelled recording does not come back, as long as no handler was still at
\* work on another message and every write got through.
CancelledStaysCancelled == clean => store.recording.trip \notin cancelled

\* One trip makes at most one pending corridor, however often it is confirmed,
\* under the same condition.
FiledOnce == clean => \A t \in Trips : filed[t] <= 1

\* The session holds every answer the contributor was told was taken, under the
\* same condition; reads may fail and handlers may raise.
AnswersKept ==
  clean /\ store.recording # NoRec => store.recording.taken = answered[store.recording.trip]

\* "any state + new DIRECTION -> overwrite destination, re-enter
\* AWAITING_ORIGIN" (orchestrator.py:8): a route leads where the user last
\* asked to go, if since that was not forgotten.
RoutesToLastAsked ==
  \A h \in Handlers : pc[h] = "route" /\ asked # NoPlace => snap[h].destination = asked
=============================================================================
