-------------------------- MODULE ConversationProofs --------------------------
(***************************************************************************)
(* What holds of Conversation for any number of handlers, places, answers  *)
(* and messages, and with Redis failing or not.                            *)
(***************************************************************************)
EXTENDS Conversation, TLAPS

Exclusive(s) == s.recording # NoRec => s.destination = NoPlace /\ s.clarify = NoPlace

\* What handler h may rely on at its label: by the time a message is dispatched
\* no choice is open, and only a recording captures answers.
AtLabel(l, s) ==
  /\ Exclusive(s)
  /\ l = "dispatch" => s.clarify = NoPlace
  /\ l = "capture" => s.recording # NoRec

\* The inductive part about the store and the handlers' copies.
CopiesInv ==
  /\ store \in Session /\ Exclusive(store)
  /\ pc \in [Handlers -> Labels]
  /\ snap \in [Handlers -> Session]
  /\ \A h \in Handlers : AtLabel(pc[h], snap[h])

\* The inductive part about the rest of the state, each with its type.
RestInv ==
  /\ msg \in [Handlers -> Message]
  /\ sent \in [Handlers -> Nat]
  /\ filed \in [Trips -> Nat]
  /\ trips \in 0..MaxMessages /\ messages \in Nat
  /\ cancelled \subseteq Trips
  /\ answered \in [Trips -> Nat]
  /\ asked \in Places \cup {NoPlace}

IInv == CopiesInv /\ RestInv /\ clean \in BOOLEAN

-----------------------------------------------------------------------------
LEMMA FreshIsSession == Fresh \in Session /\ Exclusive(Fresh)
BY DEF Fresh, Session, Exclusive, NoRec

\* A step of one handler that writes its copy, deletes the session or leaves it.
LEMMA HandlerMoves ==
  ASSUME CopiesInv,
         NEW h \in Handlers, NEW l \in Labels, NEW s \in Session,
         AtLabel(l, s), Go(h, l, s),
         store' \in {store, s, Fresh}
  PROVE  CopiesInv'
<1>1. store' \in Session /\ Exclusive(store)'
  BY FreshIsSession DEF CopiesInv, AtLabel, Exclusive
<1>2. pc' \in [Handlers -> Labels] /\ snap' \in [Handlers -> Session]
  BY FreshIsSession DEF CopiesInv, Go
<1>3. ASSUME NEW g \in Handlers PROVE AtLabel(pc'[g], snap'[g])
  <2>1. CASE g = h
    BY <2>1, FreshIsSession DEF CopiesInv, Go, AtLabel, Ended
  <2>2. CASE g # h
    <3>1. pc'[g] = pc[g] /\ snap'[g] = snap[g]
      BY <2>2 DEF CopiesInv, Go
    <3> QED BY <3>1 DEF CopiesInv
  <2> QED BY <2>1, <2>2
<1>4. (\A g \in Handlers : AtLabel(pc[g], snap[g]))'
  BY <1>3 DEF AtLabel, Exclusive
<1> QED BY <1>1, <1>2, <1>4 DEF CopiesInv

\* What becomes of a copy of the session: each result is a session again.
LEMMA CopiesAreSessions ==
  ASSUME NEW s \in Session, ConversationAssumption
  PROVE  /\ [s EXCEPT !.clarify = NoPlace] \in Session
         /\ [s EXCEPT !.clarify = NoPlace, !.destination = s.clarify] \in Session
         /\ [s EXCEPT !.recording = NoRec] \in Session
         /\ \A p \in Places : /\ [s EXCEPT !.destination = p] \in Session
                              /\ [s EXCEPT !.clarify = p] \in Session
         /\ \A t \in Trips : [s EXCEPT !.recording = [trip |-> t, taken |-> 0],
                                       !.destination = NoPlace] \in Session
         /\ s.recording # NoRec /\ ~InReview(s.recording) =>
              [s EXCEPT !.recording.taken = @ + 1] \in Session
<1>1. /\ s.destination \in Places \cup {NoPlace}
      /\ s.clarify \in Places \cup {NoPlace}
      /\ s.recording \in Rec \cup {NoRec}
      /\ s = [destination |-> s.destination, clarify |-> s.clarify, recording |-> s.recording]
  BY DEF Session
<1>2. \A t \in Trips : [trip |-> t, taken |-> 0] \in Rec
  BY DEF Rec, ConversationAssumption
<1>3. ASSUME s.recording # NoRec, ~InReview(s.recording)
      PROVE  [s EXCEPT !.recording.taken = @ + 1] \in Session
  <2>1. s.recording \in Rec
    BY <1>1, <1>3
  <2>2. [s.recording EXCEPT !.taken = @ + 1] \in Rec
    <3> DEFINE r == s.recording
    <3>1. r.trip \in Trips /\ r.taken \in 0..Answers /\ r.taken # Answers
      BY <2>1, <1>3 DEF Rec, InReview
    <3>2. r.taken + 1 \in 0..Answers
      BY <3>1 DEF ConversationAssumption
    <3>3. [r EXCEPT !.taken = @ + 1] = [trip |-> r.trip, taken |-> r.taken + 1]
      BY <2>1 DEF Rec
    <3> QED BY <3>1, <3>2, <3>3 DEF Rec
  <2>3. [s EXCEPT !.recording.taken = @ + 1]
          = [s EXCEPT !.recording = [s.recording EXCEPT !.taken = @ + 1]]
    BY Zenon
  <2> QED BY <2>2, <2>3, <1>1 DEF Session
<1>4. /\ [s EXCEPT !.clarify = NoPlace] \in Session
      /\ [s EXCEPT !.clarify = NoPlace, !.destination = s.clarify] \in Session
      /\ [s EXCEPT !.recording = NoRec] \in Session
  BY <1>1 DEF Session
<1>5. \A p \in Places : /\ [s EXCEPT !.destination = p] \in Session
                        /\ [s EXCEPT !.clarify = p] \in Session
  BY <1>1 DEF Session
<1>6. \A t \in Trips : [s EXCEPT !.recording = [trip |-> t, taken |-> 0],
                                 !.destination = NoPlace] \in Session
  BY <1>1, <1>2 DEF Session
<1> QED BY <1>3, <1>4, <1>5, <1>6

-----------------------------------------------------------------------------
(* Steps of a handler                                                      *)

Moved(h) == \E l \in Labels, s \in Session :
              AtLabel(l, s) /\ Go(h, l, s) /\ store' \in {store, s, Fresh}

LEMMA MovedKeepsCopies ==
  ASSUME CopiesInv, NEW h \in Handlers, Moved(h) PROVE CopiesInv'
<1>1. PICK l \in Labels, s \in Session :
        AtLabel(l, s) /\ Go(h, l, s) /\ store' \in {store, s, Fresh}
  BY DEF Moved
<1> QED BY <1>1, HandlerMoves

LEMMA SaveMoves ==
  ASSUME NEW h \in Handlers, NEW l \in Labels, NEW s \in Session, AtLabel(l, s), Save(h, l, s)
  PROVE  Moved(h)
BY DEF Save, Put, Moved

LEMMA SkipMoves ==
  ASSUME CopiesInv, NEW h \in Handlers, NEW l \in Labels, AtLabel(l, snap[h]), Skip(h, l)
  PROVE  Moved(h)
<1>1. snap[h] \in Session
  BY DEF CopiesInv
<1> QED BY <1>1 DEF Skip, Moved

LEMMA DeleteMoves ==
  ASSUME CopiesInv, NEW h \in Handlers, NEW l \in Labels, AtLabel(l, snap[h]),
         Delete, Go(h, l, snap[h])
  PROVE  Moved(h)
<1>1. snap[h] \in Session
  BY DEF CopiesInv
<1> QED BY <1>1 DEF Delete, Put, Moved

\* The labels a handler can only be sent to unconditionally.
Plain == Labels \ {"dispatch", "capture"}

LEMMA PlainLabels == Plain \subseteq Labels /\ \A l \in Plain : \A s : Exclusive(s) => AtLabel(l, s)
BY DEF Plain, Labels, AtLabel

LEMMA StepMoves ==
  ASSUME IInv, ConversationAssumption, NEW h \in Handlers, Step(h)
  PROVE  Moved(h)
<1> DEFINE s == snap[h]
<1> USE DEF IInv
<1>1. s \in Session /\ AtLabel(pc[h], s) /\ Exclusive(s)
  BY DEF CopiesInv, AtLabel
<1>2. {"reply", "location", "submit", "close", "route", "wipe", "idle", "raised"} \subseteq Plain
  BY DEF Plain, Labels
<1>3. ASSUME NEW l \in Plain, Skip(h, l) PROVE Moved(h)
  BY <1>1, <1>3, PlainLabels, SkipMoves
<1>4. ASSUME NEW l \in Plain, NEW r \in Session, Exclusive(r), Save(h, l, r) PROVE Moved(h)
  BY <1>4, PlainLabels, SaveMoves
<1>5. CASE Triage(h)
  <2>1. CASE msg[h].kind = "location" /\ s.recording # NoRec /\ Skip(h, "capture")
    <3>1. AtLabel("capture", s) /\ "capture" \in Labels
      BY <1>1, <2>1 DEF AtLabel, Labels
    <3> QED BY <2>1, <3>1, SkipMoves
  <2>2. CASE s.recording = NoRec /\ s.clarify # NoPlace
                /\ Save(h, "location", [s EXCEPT !.clarify = NoPlace])
    <3> DEFINE r == [s EXCEPT !.clarify = NoPlace]
    <3>1. r \in Session
      BY <1>1, CopiesAreSessions
    <3>2. Exclusive(r)
      BY <1>1, <2>2 DEF Exclusive, Session
    <3> QED BY <1>2, <1>4, <2>2, <3>1, <3>2
  <2>3. CASE Skip(h, "location")
    BY <1>2, <1>3, <2>3
  <2>4. CASE s.clarify = NoPlace /\ Skip(h, "dispatch")
    <3>1. AtLabel("dispatch", s) /\ "dispatch" \in Labels
      BY <1>1, <2>4 DEF AtLabel, Labels
    <3> QED BY <2>4, <3>1, SkipMoves
  <2>5. CASE s.clarify # NoPlace
                /\ Save(h, "reply", [s EXCEPT !.clarify = NoPlace, !.destination = s.clarify])
    <3> DEFINE r == [s EXCEPT !.clarify = NoPlace, !.destination = s.clarify]
    <3>1. r \in Session
      BY <1>1, CopiesAreSessions
    <3>2. s.recording = NoRec
      BY <1>1, <2>5 DEF Exclusive
    <3>3. Exclusive(r)
      BY <1>1, <3>2 DEF Exclusive, Session
    <3> QED BY <1>2, <1>4, <2>5, <3>1, <3>3
  <2>6. CASE s.clarify # NoPlace /\ Save(h, "dispatch", [s EXCEPT !.clarify = NoPlace])
    <3> DEFINE r == [s EXCEPT !.clarify = NoPlace]
    <3>1. r \in Session
      BY <1>1, CopiesAreSessions
    <3>2. AtLabel("dispatch", r) /\ "dispatch" \in Labels
      BY <1>1 DEF AtLabel, Exclusive, Session, Labels
    <3> QED BY <2>6, <3>1, <3>2, SaveMoves
  <2>7. CASE Skip(h, "reply")
    BY <1>2, <1>3, <2>7
  <2> QED BY <1>5, <2>1, <2>2, <2>3, <2>4, <2>5, <2>6, <2>7 DEF Triage
<1>6. CASE Location(h)
  BY <1>2, <1>3, <1>6 DEF Location
<1>7. CASE Cancel(h)
  BY <1>1, <1>2, <1>7, PlainLabels, DeleteMoves DEF Cancel
<1>8. CASE EndRoute(h)
  <2>1. CASE Skip(h, "reply")
    BY <1>2, <1>3, <2>1
  <2>2. CASE Save(h, "reply", s)
    BY <1>1, <1>2, <1>4, <2>2
  <2>3. CASE Save(h, "reply", [s EXCEPT !.recording = NoRec])
    <3> DEFINE r == [s EXCEPT !.recording = NoRec]
    <3>1. r \in Session
      BY <1>1, CopiesAreSessions
    <3>2. Exclusive(r)
      BY <1>1 DEF Exclusive, Session
    <3> QED BY <1>2, <1>4, <2>3, <3>1, <3>2
  <2> QED BY <1>8, <2>1, <2>2, <2>3 DEF EndRoute
<1>9. CASE ToRecording(h)
  <2>1. AtLabel("capture", s) /\ "capture" \in Labels
    BY <1>1, <1>9 DEF AtLabel, Labels, ToRecording
  <2> QED BY <1>9, <2>1, SkipMoves DEF ToRecording
<1>10. CASE Start(h)
  <2> DEFINE r == [s EXCEPT !.recording = [trip |-> trips + 1, taken |-> 0],
                            !.destination = NoPlace]
  <2>1. trips + 1 \in Trips
    BY <1>10 DEF Start, Trips, RestInv, ConversationAssumption
  <2>2. r \in Session
    BY <1>1, <2>1, CopiesAreSessions
  <2>3. s.clarify = NoPlace
    BY <1>1, <1>10 DEF Start, AtLabel
  <2>4. Exclusive(r)
    BY <1>1, <2>3 DEF Exclusive, Session
  <2>5. Save(h, "reply", r)
    BY <1>10 DEF Start
  <2> QED BY <1>2, <1>4, <2>2, <2>4, <2>5
<1>11. CASE Direction(h)
  <2> DEFINE p == msg[h].place
  <2>1. p \in Places /\ s.recording = NoRec
    BY <1>11 DEF Direction, RestInv, Message
  <2>2. /\ [s EXCEPT !.destination = p] \in Session
        /\ [s EXCEPT !.clarify = p] \in Session
    BY <1>1, <2>1, CopiesAreSessions
  <2>3. /\ Exclusive([s EXCEPT !.destination = p])
        /\ Exclusive([s EXCEPT !.clarify = p])
    BY <1>1, <2>1 DEF Exclusive, Session
  <2>4. \/ Save(h, "reply", [s EXCEPT !.destination = p])
        \/ Save(h, "route", [s EXCEPT !.destination = p])
        \/ Save(h, "reply", [s EXCEPT !.clarify = p])
        \/ Save(h, "raised", [s EXCEPT !.destination = p])
        \/ Skip(h, "reply")
        \/ Skip(h, "raised")
    BY <1>11 DEF Direction
  <2> QED BY <1>2, <1>3, <1>4, <2>2, <2>3, <2>4
<1>12. CASE Text(h)
  BY <1>2, <1>3, <1>12 DEF Text
<1>13. CASE Capture(h)
  <2>1. s.recording # NoRec
    BY <1>1, <1>13 DEF Capture, AtLabel
  <2>2. CASE Skip(h, "reply") \/ Skip(h, "submit")
    BY <1>2, <1>3, <2>2
  <2>3. CASE ~InReview(s.recording) /\ Save(h, "reply", [s EXCEPT !.recording.taken = @ + 1])
    <3> DEFINE r == [s EXCEPT !.recording.taken = @ + 1]
    <3>1. r \in Session
      BY <1>1, <2>1, <2>3, CopiesAreSessions
    <3>2. r.destination = s.destination /\ r.clarify = s.clarify
      BY <1>1 DEF Session
    <3>3. Exclusive(r)
      BY <1>1, <2>1, <3>2 DEF Exclusive
    <3> QED BY <1>2, <1>4, <2>3, <3>1, <3>3
  <2>4. CASE Save(h, "reply", [s EXCEPT !.recording = NoRec])
    <3> DEFINE r == [s EXCEPT !.recording = NoRec]
    <3>1. r \in Session
      BY <1>1, CopiesAreSessions
    <3>2. Exclusive(r)
      BY <1>1 DEF Exclusive, Session
    <3> QED BY <1>2, <1>4, <2>4, <3>1, <3>2
  <2> QED BY <1>13, <2>2, <2>3, <2>4 DEF Capture
<1>14. CASE Submit(h)
  BY <1>2, <1>3, <1>14 DEF Submit
<1>15. CASE Close(h)
  <2> DEFINE r == [s EXCEPT !.recording = NoRec]
  <2>1. r \in Session
    BY <1>1, CopiesAreSessions
  <2>2. Exclusive(r)
    BY <1>1 DEF Exclusive, Session
  <2> QED BY <1>2, <1>4, <1>15, <2>1, <2>2 DEF Close
<1>16. CASE Route(h)
  BY <1>2, <1>3, <1>16 DEF Route
<1>17. CASE Wipe(h)
  BY <1>1, <1>2, <1>17, PlainLabels, DeleteMoves DEF Wipe
<1>18. CASE Reply(h)
  BY <1>2, <1>3, <1>18 DEF Reply
<1> QED BY <1>5, <1>6, <1>7, <1>8, <1>9, <1>10, <1>11, <1>12, <1>13, <1>14, <1>15, <1>16,
           <1>17, <1>18 DEF Step

-----------------------------------------------------------------------------
(* The rest of the state                                                   *)

LEMMA StepKeepsRest ==
  ASSUME IInv, ConversationAssumption, NEW h \in Handlers, Step(h)
  PROVE  RestInv'
<1> DEFINE s == snap[h]
<1> USE DEF IInv, RestInv
<1>1. s \in Session /\ store \in Session
  BY DEF CopiesInv
<1>2. (store.recording.trip = 0 \/ store.recording.trip \in Trips)
  BY <1>1 DEF Session, Rec, NoRec
<1>3. CASE Triage(h) \/ Location(h) \/ EndRoute(h) \/ ToRecording(h) \/ Close(h)
  BY <1>3 DEF Triage, Location, EndRoute, ToRecording, Close, Quiet, history
<1>4. CASE Cancel(h)
  BY <1>2, <1>4 DEF Cancel, NoRec
<1>5. CASE Start(h)
  BY <1>5 DEF Start, ConversationAssumption
<1>6. CASE Direction(h)
  <2>1. msg[h].place \in Places
    BY <1>6 DEF Direction, Message
  <2> QED BY <1>6, <2>1 DEF Direction
<1>7. CASE Text(h)
  BY <1>7 DEF Text, Quiet, history
<1>8. CASE Capture(h)
  <2>1. answered' \in [Trips -> Nat]
    BY <1>8 DEF Capture
  <2> QED BY <1>8, <2>1 DEF Capture
<1>9. CASE Submit(h)
  <2>1. filed' \in [Trips -> Nat]
    BY <1>9 DEF Submit
  <2> QED BY <1>9, <2>1 DEF Submit, history
<1>10. CASE Route(h)
  <2>1. sent' \in [Handlers -> Nat]
    BY <1>10 DEF Route
  <2> QED BY <1>10, <2>1 DEF Route, history
<1>11. CASE Wipe(h)
  BY <1>11 DEF Wipe
<1>12. CASE Reply(h)
  <2>1. sent' \in [Handlers -> Nat]
    BY <1>12 DEF Reply
  <2> QED BY <1>12, <2>1 DEF Reply, history
<1> QED BY <1>3, <1>4, <1>5, <1>6, <1>7, <1>8, <1>9, <1>10, <1>11, <1>12 DEF Step

LEMMA StepKeepsClean ==
  ASSUME clean \in BOOLEAN, NEW h \in Handlers, Step(h)
  PROVE  clean' \in BOOLEAN
<1>1. clean' = clean \/ clean' = FALSE
  BY Zenon DEF Step, Triage, Location, Cancel, EndRoute, ToRecording, Start, Direction, Text,
     Capture, Submit, Close, Route, Wipe, Reply, Save, Skip, Delete, Put
<1> QED BY <1>1, Zenon

LEMMA ReceiveKeepsInv ==
  ASSUME IInv, NEW h \in Handlers, NEW m \in Message, Receive(h, m)
  PROVE  IInv'
<1> USE DEF IInv
<1>1. "triage" \in Plain /\ "triage" \in Labels
  BY DEF Plain, Labels
<1>2. ASSUME Go(h, "triage", store) PROVE CopiesInv'
  <2>1. store \in Session /\ AtLabel("triage", store)
    BY <1>1, PlainLabels DEF CopiesInv
  <2>2. store' = store
    BY DEF Receive
  <2>3. Moved(h)
    BY <1>1, <1>2, <2>1, <2>2 DEF Moved
  <2> QED BY <2>3, MovedKeepsCopies
<1>3. ASSUME Go(h, "triage", Fresh) PROVE CopiesInv'
  <2>1. Fresh \in Session /\ AtLabel("triage", Fresh)
    BY <1>1, PlainLabels, FreshIsSession
  <2>2. store' = store
    BY DEF Receive
  <2>3. Moved(h)
    BY <1>1, <1>3, <2>1, <2>2 DEF Moved
  <2> QED BY <2>3, MovedKeepsCopies
<1>4. CopiesInv'
  BY <1>2, <1>3 DEF Receive
<1>5. RestInv'
  BY DEF Receive, RestInv, history
<1>6. clean' \in BOOLEAN
  BY Zenon DEF Receive
<1> QED BY <1>4, <1>5, <1>6

LEMMA ExpireKeepsInv == ASSUME IInv, Expire PROVE IInv'
<1>1. CopiesInv'
  BY FreshIsSession DEF IInv, CopiesInv, Expire, local, Exclusive, AtLabel
<1>2. RestInv'
  BY DEF IInv, RestInv, Expire, local
<1>3. clean' \in BOOLEAN
  BY Zenon DEF IInv, Expire
<1> QED BY <1>1, <1>2, <1>3 DEF IInv

LEMMA InitInv == ASSUME ConversationAssumption, Init PROVE IInv
<1>1. CopiesInv
  BY FreshIsSession DEF Init, CopiesInv, AtLabel, Labels
<1>2. RestInv
  <2>1. [kind |-> "text", place |-> NoPlace] \in Message
    BY DEF Message
  <2> QED BY <2>1 DEF Init, RestInv, ConversationAssumption
<1>3. clean \in BOOLEAN
  BY Zenon DEF Init
<1> QED BY <1>1, <1>2, <1>3 DEF IInv

LEMMA NextKeepsInv == ASSUME IInv, ConversationAssumption, [Next]_vars PROVE IInv'
<1>1. ASSUME NEW h \in Handlers, Step(h) PROVE IInv'
  <2>1. CopiesInv'
    BY <1>1, StepMoves, MovedKeepsCopies DEF IInv
  <2>2. RestInv'
    BY <1>1, StepKeepsRest DEF IInv
  <2>3. clean' \in BOOLEAN
    BY <1>1, StepKeepsClean, Zenon DEF IInv
  <2> QED BY <2>1, <2>2, <2>3 DEF IInv
<1>2. CASE UNCHANGED vars
  <2>1. CopiesInv' /\ RestInv'
    BY <1>2 DEF vars, local, history, IInv, CopiesInv, RestInv, Exclusive, AtLabel
  <2>2. clean' \in BOOLEAN
    BY <1>2, Zenon DEF vars, IInv
  <2> QED BY <2>1, <2>2 DEF IInv
<1> QED BY <1>1, <1>2, ReceiveKeepsInv, ExpireKeepsInv DEF Next

LEMMA Invariance == Spec => []IInv
<1>1. Init => IInv
  BY InitInv, ConversationAssumption
<1>2. IInv /\ [Next]_vars => IInv'
  BY NextKeepsInv, ConversationAssumption
<1> QED BY <1>1, <1>2, PTL DEF Spec

\* Every variable keeps its type, for any number of handlers.
THEOREM TypeCorrect == Spec => []TypeOK
<1>1. IInv => TypeOK
  BY DEF IInv, CopiesInv, RestInv, TypeOK
<1> QED BY <1>1, Invariance, PTL

\* A stored recording never comes with a destination or an open choice,
\* however many handlers overlap and whichever writes Redis drops.
THEOREM ModesCorrect == Spec => []ModesExclusive
<1>1. IInv => ModesExclusive
  BY DEF IInv, CopiesInv, Exclusive, ModesExclusive
<1> QED BY <1>1, Invariance, PTL

-----------------------------------------------------------------------------
(* One reply per message                                                   *)

\* Only a handler that is at its reply, or routing, sends; Receive starts afresh.
LEMMA OneReplyInit == Init => OneReply
BY DEF Init, OneReply

LEMMA OneReplyStep ==
  ASSUME IInv, OneReply, NEW h \in Handlers, Step(h) PROVE OneReply'
<1> USE DEF IInv, CopiesInv, RestInv, OneReply
<1>1. CASE Triage(h)
  BY <1>1 DEF Triage, Save, Skip, Go, Quiet
<1>2. CASE Location(h)
  BY <1>2 DEF Location, Save, Skip, Go, Quiet
<1>3. CASE Cancel(h)
  BY <1>3 DEF Cancel, Go
<1>4. CASE EndRoute(h)
  BY <1>4 DEF EndRoute, Save, Skip, Go, Quiet
<1>5. CASE ToRecording(h)
  BY <1>5 DEF ToRecording, Skip, Go, Quiet
<1>6. CASE Start(h)
  BY <1>6 DEF Start, Save, Go
<1>7. CASE Direction(h)
  BY <1>7 DEF Direction, Save, Skip, Go
<1>8. CASE Text(h)
  BY <1>8 DEF Text, Skip, Go, Quiet
<1>9. CASE Capture(h)
  BY <1>9 DEF Capture, Save, Skip, Go
<1>10. CASE Submit(h)
  BY <1>10 DEF Submit, Skip, Go
<1>11. CASE Close(h)
  BY <1>11 DEF Close, Save, Go, Quiet
<1>12. CASE Route(h)
  BY <1>12 DEF Route, Skip, Go
<1>13. CASE Wipe(h)
  BY <1>13 DEF Wipe, Go
<1>14. CASE Reply(h)
  BY <1>14 DEF Reply, Skip, Go
<1> QED BY <1>1, <1>2, <1>3, <1>4, <1>5, <1>6, <1>7, <1>8, <1>9, <1>10, <1>11, <1>12, <1>13,
           <1>14 DEF Step

LEMMA OneReplyNext == ASSUME IInv, OneReply, [Next]_vars PROVE OneReply'
<1>1. ASSUME NEW h \in Handlers, NEW m \in Message, Receive(h, m) PROVE OneReply'
  BY <1>1 DEF Receive, Go, OneReply, IInv, CopiesInv, RestInv
<1>2. CASE Expire
  BY <1>2 DEF Expire, local, OneReply
<1>3. CASE UNCHANGED vars
  BY <1>3 DEF vars, local, OneReply
<1> QED BY <1>1, <1>2, <1>3, OneReplyStep DEF Next

\* Every message a handler takes on gets exactly one reply from it.
THEOREM ReplyCorrect == Spec => []OneReply
<1>1. Init => OneReply
  BY OneReplyInit
<1>2. IInv /\ OneReply /\ [Next]_vars => OneReply'
  BY OneReplyNext
<1> QED BY <1>1, <1>2, Invariance, PTL DEF Spec

-----------------------------------------------------------------------------
(* Every handler ends                                                      *)

Stage(l) == CASE l = "triage" -> 0
              [] l \in {"location", "dispatch"} -> 1
              [] l = "capture" -> 2
              [] l \in {"submit", "route"} -> 3
              [] l \in {"close", "wipe"} -> 4
              [] l = "reply" -> 5
              [] OTHER -> 6

LEMMA StepAdvances ==
  ASSUME IInv, NEW h \in Handlers, Step(h)
  PROVE  /\ Stage(pc[h]) < Stage(pc'[h])
         /\ \A g \in Handlers \ {h} : pc'[g] = pc[g]
<1> USE DEF IInv, CopiesInv, Stage
<1>1. CASE Triage(h)
  BY <1>1 DEF Triage, Save, Skip, Go
<1>2. CASE Location(h)
  BY <1>2 DEF Location, Skip, Go
<1>3. CASE Cancel(h)
  BY <1>3 DEF Cancel, Go
<1>4. CASE EndRoute(h)
  BY <1>4 DEF EndRoute, Save, Skip, Go
<1>5. CASE ToRecording(h)
  BY <1>5 DEF ToRecording, Skip, Go
<1>6. CASE Start(h)
  BY <1>6 DEF Start, Save, Go
<1>7. CASE Direction(h)
  BY <1>7 DEF Direction, Save, Skip, Go
<1>8. CASE Text(h)
  BY <1>8 DEF Text, Skip, Go
<1>9. CASE Capture(h)
  BY <1>9 DEF Capture, Save, Skip, Go
<1>10. CASE Submit(h)
  BY <1>10 DEF Submit, Skip, Go
<1>11. CASE Close(h)
  BY <1>11 DEF Close, Save, Go
<1>12. CASE Route(h)
  BY <1>12 DEF Route, Skip, Go
<1>13. CASE Wipe(h)
  BY <1>13 DEF Wipe, Go
<1>14. CASE Reply(h)
  BY <1>14 DEF Reply, Skip, Go
<1> QED BY <1>1, <1>2, <1>3, <1>4, <1>5, <1>6, <1>7, <1>8, <1>9, <1>10, <1>11, <1>12, <1>13,
           <1>14 DEF Step

\* A handler at work only ever goes on to a later stage, so it takes at most six steps: no
\* branch of the dispatch re-enters an earlier one, whatever another handler writes.
THEOREM StepsAdvance ==
  Spec => [][\A h \in Handlers : pc[h] \notin Ended /\ pc'[h] # pc[h]
                                  => Stage(pc[h]) < Stage(pc'[h])]_vars
<1> DEFINE Advance == \A h \in Handlers : pc[h] \notin Ended /\ pc'[h] # pc[h]
                                            => Stage(pc[h]) < Stage(pc'[h])
<1>1. IInv /\ [Next]_vars => [Advance]_vars
  <2> SUFFICES ASSUME IInv, Next PROVE Advance
    OBVIOUS
  <2>1. CASE \E h \in Handlers : Step(h)
    BY <2>1, StepAdvances
  <2>2. ASSUME NEW h \in Handlers, NEW m \in Message, Receive(h, m) PROVE Advance
    BY <2>2 DEF Receive, Go, IInv, CopiesInv
  <2>3. CASE Expire
    BY <2>3 DEF Expire, local
  <2> QED BY <2>1, <2>2, <2>3 DEF Next
<1> QED BY <1>1, Invariance, PTL DEF Spec

-----------------------------------------------------------------------------
(* One message at a time, with every write getting through                 *)

Running(h) == pc[h] \notin Ended

\* A trip that may still be answered, cancelled or filed.
Unfiled(r) ==
  /\ r.trip \in 1..trips
  /\ r.trip \notin cancelled
  /\ r.taken = answered[r.trip]
  /\ filed[r.trip] = 0

Sound(r) == r = NoRec \/ Unfiled(r)

\* A trip whose corridor is committed but which is still in the session.
JustFiled(r) ==
  /\ r # NoRec
  /\ r.trip \in 1..trips
  /\ r.trip \notin cancelled
  /\ r.taken = answered[r.trip]
  /\ filed[r.trip] = 1

\* The labels from which a handler may yet write its copy, or file it.
Holding == {"triage", "dispatch", "capture", "submit"}

\* The running handler's copy is the stored recording, unless that expired or
\* could not be read.
HandlerInv(h) ==
  LET r == snap[h].recording IN
  /\ pc[h] \in Holding /\ r # NoRec => Unfiled(r) /\ store.recording \in {NoRec, r}
  /\ pc[h] = "submit" => r # NoRec
  /\ pc[h] = "close" => JustFiled(r) /\ store.recording \in {NoRec, r}

TripsInv ==
  /\ \A t \in Trips : filed[t] <= 1
  /\ \A t \in Trips : t > trips => answered[t] = 0 /\ filed[t] = 0 /\ t \notin cancelled

SerialInv ==
  /\ \A g, h \in Handlers : Running(g) /\ Running(h) => g = h
  /\ (\A h \in Handlers : pc[h] # "close") => Sound(store.recording)
  /\ \A h \in Handlers : HandlerInv(h)
  /\ TripsInv

CleanInv == clean => SerialInv

\* While clean, a Save is what it says.
LEMMA SaveGotThrough ==
  ASSUME NEW h \in Handlers, NEW l, NEW s, Save(h, l, s), clean'
  PROVE  Go(h, l, s) /\ store' = s
BY Zenon DEF Save, Put

LEMMA DeleteGotThrough ==
  ASSUME Delete, clean' PROVE store' = Fresh
BY Zenon DEF Delete, Put

LEMMA SkipWritesNothing ==
  ASSUME NEW h \in Handlers, NEW l, Skip(h, l)
  PROVE  Go(h, l, snap[h]) /\ store' = store
BY DEF Skip

\* A step of the one running handler keeps SerialInv if it does at its new label.
LEMMA SerialMoves ==
  ASSUME IInv, SerialInv, NEW h \in Handlers, Running(h), NEW l \in Labels, NEW s, Go(h, l, s),
         HandlerInv(h)', l # "close" => Sound(store.recording)', TripsInv'
  PROVE  SerialInv'
<1>1. pc \in [Handlers -> Labels] /\ snap \in [Handlers -> Session] /\ pc'[h] = l
  BY DEF IInv, CopiesInv, Go
<1>2. ASSUME NEW g \in Handlers, g # h PROVE pc'[g] \in Ended
  BY <1>1, <1>2 DEF SerialInv, Running, Go
<1>3. ASSUME NEW g \in Handlers PROVE HandlerInv(g)'
  <2>1. CASE g = h
    BY <2>1
  <2>2. CASE g # h
    BY <1>2, <2>2 DEF HandlerInv, Ended, Holding
  <2> QED BY <2>1, <2>2
<1>4. (\A f, g \in Handlers : Running(f) /\ Running(g) => f = g)'
  BY <1>2 DEF Running
<1>5. ((\A g \in Handlers : pc[g] # "close") => Sound(store.recording))'
  BY <1>1
<1> QED BY <1>3, <1>4, <1>5 DEF SerialInv

Same == UNCHANGED <<filed, trips, cancelled, answered>>

LEMMA SameKeepsTrips == ASSUME TripsInv, Same PROVE TripsInv'
BY DEF TripsInv, Same

\* ... to a label from which nothing is written any more.
LEMMA AsideMoves ==
  ASSUME IInv, SerialInv, NEW h \in Handlers, Running(h),
         NEW l \in Labels \ (Holding \cup {"close"}), NEW s, Go(h, l, s), Same,
         Sound(store'.recording)
  PROVE  SerialInv'
<1>1. pc'[h] = l
  BY DEF IInv, CopiesInv, Go
<1>2. HandlerInv(h)'
  BY <1>1 DEF HandlerInv, Holding
<1>3. TripsInv'
  BY SameKeepsTrips DEF SerialInv
<1>4. Sound(store.recording)'
  BY DEF Sound, Unfiled, Same
<1> QED BY <1>2, <1>3, <1>4, SerialMoves

\* ... to a label where its copy still counts.
LEMMA HoldingMoves ==
  ASSUME IInv, SerialInv, NEW h \in Handlers, Running(h), NEW l \in Holding, NEW s,
         Go(h, l, s), Same, Sound(store'.recording),
         s.recording # NoRec => Unfiled(s.recording) /\ store'.recording \in {NoRec, s.recording},
         l = "submit" => s.recording # NoRec
  PROVE  SerialInv'
<1>1. pc'[h] = l /\ snap'[h] = s /\ l \in Labels
  BY DEF IInv, CopiesInv, Go, Holding, Labels, Ended
<1>2. HandlerInv(h)'
  BY <1>1 DEF HandlerInv, Holding, Unfiled, Same
<1>3. TripsInv'
  BY SameKeepsTrips DEF SerialInv
<1>4. Sound(store.recording)'
  BY DEF Sound, Unfiled, Same
<1> QED BY <1>1, <1>2, <1>3, <1>4, SerialMoves

LEMMA StoreIsSound ==
  ASSUME SerialInv, NEW h \in Handlers, Running(h), pc[h] # "close"
  PROVE  Sound(store.recording)
<1>1. \A g \in Handlers : pc[g] # "close"
  BY DEF SerialInv, Running, Ended
<1> QED BY <1>1 DEF SerialInv

\* What a handler about to act may use: its copy, and the store beside it.
LEMMA HolderKnows ==
  ASSUME IInv, SerialInv, NEW h \in Handlers, pc[h] \in Holding
  PROVE  /\ Running(h) /\ Sound(store.recording)
         /\ snap[h].recording # NoRec =>
              Unfiled(snap[h].recording) /\ store.recording \in {NoRec, snap[h].recording}
         /\ Sound(snap[h].recording)
<1>1. Running(h) /\ pc[h] # "close"
  BY DEF Running, Ended, Holding
<1> QED BY <1>1, StoreIsSound DEF SerialInv, HandlerInv, Sound

LEMMA SerialTriage ==
  ASSUME IInv, SerialInv, NEW h \in Handlers, Triage(h), clean'
  PROVE  SerialInv'
<1> DEFINE s == snap[h]
<1>1. pc[h] \in Holding /\ Same
  BY DEF Triage, Holding, Quiet, history, Same
<1>2. s = [destination |-> s.destination, clarify |-> s.clarify, recording |-> s.recording]
  BY DEF IInv, CopiesInv, Session
<1> DEFINE declined == [s EXCEPT !.clarify = NoPlace]
           picked == [s EXCEPT !.clarify = NoPlace, !.destination = s.clarify]
<1>3. declined.recording = s.recording /\ picked.recording = s.recording
  BY <1>2
<1>4. CASE Skip(h, "capture") \/ Skip(h, "dispatch")
  <2>1. PICK l \in Holding : l # "submit" /\ Go(h, l, s) /\ store' = store
    BY <1>4, SkipWritesNothing DEF Holding
  <2> QED BY <1>1, <2>1, HolderKnows, HoldingMoves
<1>5. CASE Skip(h, "location") \/ Skip(h, "reply")
  <2>1. PICK l \in {"location", "reply"} : Go(h, l, s) /\ store' = store
    BY <1>5, SkipWritesNothing
  <2>2. l \in Labels \ (Holding \cup {"close"})
    BY DEF Labels, Holding
  <2> QED BY <1>1, <2>1, <2>2, HolderKnows, AsideMoves
<1>6. CASE Save(h, "location", declined)
  <2>1. Go(h, "location", declined) /\ store' = declined
    BY <1>6, SaveGotThrough
  <2>2. "location" \in Labels \ (Holding \cup {"close"})
    BY DEF Labels, Holding
  <2> QED BY <1>1, <1>3, <2>1, <2>2, HolderKnows, AsideMoves
<1>7. CASE Save(h, "reply", picked)
  <2>1. Go(h, "reply", picked) /\ store' = picked
    BY <1>7, SaveGotThrough
  <2>2. "reply" \in Labels \ (Holding \cup {"close"})
    BY DEF Labels, Holding
  <2> QED BY <1>1, <1>3, <2>1, <2>2, HolderKnows, AsideMoves
<1>8. CASE Save(h, "dispatch", declined)
  <2>1. Go(h, "dispatch", declined) /\ store' = declined
    BY <1>8, SaveGotThrough
  <2>2. "dispatch" \in Holding
    BY DEF Holding
  <2> QED BY <1>1, <1>3, <2>1, <2>2, HolderKnows, HoldingMoves
<1> QED BY <1>4, <1>5, <1>6, <1>7, <1>8 DEF Triage

\* A step that only moves on, writing nothing, to a label that writes nothing.
LEMMA SerialSkip ==
  ASSUME IInv, SerialInv, NEW h \in Handlers, Running(h), pc[h] # "close", Same,
         NEW l \in Labels \ (Holding \cup {"close"}), Skip(h, l)
  PROVE  SerialInv'
BY StoreIsSound, SkipWritesNothing, AsideMoves

\* A step that writes a sound recording and then only replies or routes.
LEMMA SerialSave ==
  ASSUME IInv, SerialInv, NEW h \in Handlers, Running(h), Same, clean',
         NEW l \in Labels \ (Holding \cup {"close"}), NEW s, Save(h, l, s), Sound(s.recording)
  PROVE  SerialInv'
BY SaveGotThrough, AsideMoves

LEMMA Asides == {"location", "route", "wipe", "reply", "idle", "raised"}
                  \subseteq Labels \ (Holding \cup {"close"})
BY DEF Labels, Holding

LEMMA SerialCancel ==
  ASSUME IInv, SerialInv, NEW h \in Handlers, Cancel(h), clean'
  PROVE  SerialInv'
<1>1. pc[h] \in Holding
  BY DEF Cancel, Holding
<1>2. Go(h, "reply", snap[h]) /\ store' = Fresh
  BY DeleteGotThrough DEF Cancel
<1>3. pc'[h] = "reply"
  BY <1>2 DEF Go, IInv, CopiesInv
<1>4. HandlerInv(h)'
  BY <1>3 DEF HandlerInv, Holding
<1>5. store.recording.trip \in (1..trips) \cup {0}
  BY <1>1, HolderKnows DEF Sound, Unfiled, NoRec
<1>6. TripsInv'
  BY <1>5 DEF TripsInv, SerialInv, Cancel, NoRec, IInv, RestInv
<1>7. Sound(store.recording)'
  BY <1>2 DEF Sound, Fresh
<1>8. Running(h) /\ "reply" \in Labels
  BY <1>1, HolderKnows DEF Labels
<1> QED BY <1>2, <1>4, <1>6, <1>7, <1>8, SerialMoves

LEMMA SerialEndRoute ==
  ASSUME IInv, SerialInv, NEW h \in Handlers, EndRoute(h), clean'
  PROVE  SerialInv'
<1> DEFINE s == snap[h]
<1>1. pc[h] \in Holding /\ Same /\ pc[h] # "close"
  BY DEF EndRoute, Holding, Quiet, history, Same
<1>2. s \in Session
  BY DEF IInv, CopiesInv
<1>3. [s EXCEPT !.recording = NoRec].recording = NoRec
  BY <1>2 DEF Session
<1>4. \/ Skip(h, "reply") \/ Save(h, "reply", s)
      \/ Save(h, "reply", [s EXCEPT !.recording = NoRec])
  BY DEF EndRoute
<1>5. Sound(NoRec)
  BY DEF Sound
<1> QED BY <1>1, <1>3, <1>4, <1>5, HolderKnows, Asides, SerialSkip, SerialSave

LEMMA SerialToRecording ==
  ASSUME IInv, SerialInv, NEW h \in Handlers, ToRecording(h)
  PROVE  SerialInv'
<1>1. pc[h] \in Holding /\ Same /\ "capture" \in Holding
  BY DEF ToRecording, Holding, Quiet, history, Same
<1>2. Go(h, "capture", snap[h]) /\ store' = store
  BY SkipWritesNothing DEF ToRecording
<1> QED BY <1>1, <1>2, HolderKnows, HoldingMoves

LEMMA SerialStart ==
  ASSUME IInv, SerialInv, ConversationAssumption, NEW h \in Handlers, Start(h), clean'
  PROVE  SerialInv'
<1> DEFINE s == snap[h]
           t == trips + 1
           r == [s EXCEPT !.recording = [trip |-> t, taken |-> 0], !.destination = NoPlace]
<1>1. pc[h] \in Holding
  BY DEF Start, Holding
<1>2. Go(h, "reply", r) /\ store' = r
  BY SaveGotThrough DEF Start
<1>3. pc'[h] = "reply"
  BY <1>2 DEF Go, IInv, CopiesInv
<1>4. HandlerInv(h)'
  BY <1>3 DEF HandlerInv, Holding
<1>5. trips' = t /\ t \in Trips /\ trips \in Nat /\ UNCHANGED <<filed, cancelled, answered>>
  BY DEF Start, IInv, RestInv, Trips, ConversationAssumption
<1>6. TripsInv'
  <2>1. \A u \in Trips : u > t => u > trips
    BY <1>5 DEF Trips
  <2> QED BY <1>5, <2>1 DEF SerialInv, TripsInv
<1>7. t > trips
  BY <1>5
<1>8. answered[t] = 0 /\ filed[t] = 0 /\ t \notin cancelled
  BY <1>5, <1>7 DEF SerialInv, TripsInv
<1>9. r.recording = [trip |-> t, taken |-> 0]
  BY DEF IInv, CopiesInv, Session
<1>10. Sound(store.recording)'
  BY <1>2, <1>5, <1>8, <1>9 DEF Sound, Unfiled
<1>11. Running(h) /\ "reply" \in Labels
  BY <1>1, HolderKnows DEF Labels
<1> QED BY <1>2, <1>4, <1>6, <1>10, <1>11, SerialMoves

LEMMA SerialDirection ==
  ASSUME IInv, SerialInv, NEW h \in Handlers, Direction(h), clean'
  PROVE  SerialInv'
<1> DEFINE s == snap[h]
           p == msg[h].place
<1>1. pc[h] \in Holding /\ Same /\ pc[h] # "close"
  BY DEF Direction, Holding, Same
<1>2. s \in Session
  BY DEF IInv, CopiesInv
<1>3. /\ [s EXCEPT !.destination = p].recording = s.recording
      /\ [s EXCEPT !.clarify = p].recording = s.recording
  BY <1>2 DEF Session
<1>4. \/ Skip(h, "reply") \/ Skip(h, "raised")
      \/ Save(h, "reply", [s EXCEPT !.destination = p])
      \/ Save(h, "route", [s EXCEPT !.destination = p])
      \/ Save(h, "raised", [s EXCEPT !.destination = p])
      \/ Save(h, "reply", [s EXCEPT !.clarify = p])
  BY DEF Direction
<1> QED BY <1>1, <1>3, <1>4, HolderKnows, Asides, SerialSkip, SerialSave

LEMMA SerialText ==
  ASSUME IInv, SerialInv, NEW h \in Handlers, Text(h)
  PROVE  SerialInv'
<1>1. pc[h] \in Holding /\ Same /\ pc[h] # "close"
  BY DEF Text, Holding, Quiet, history, Same
<1>2. Skip(h, "route") \/ Skip(h, "raised") \/ Skip(h, "reply")
  BY DEF Text
<1> QED BY <1>1, <1>2, HolderKnows, Asides, SerialSkip

LEMMA SerialCapture ==
  ASSUME IInv, SerialInv, ConversationAssumption, NEW h \in Handlers, Capture(h), clean'
  PROVE  SerialInv'
<1> DEFINE s == snap[h]
           r == s.recording
           taken == [s EXCEPT !.recording.taken = @ + 1]
<1>1. pc[h] \in Holding /\ pc[h] # "close" /\ r # NoRec /\ s \in Session
  BY DEF Capture, Holding, IInv, CopiesInv, AtLabel
<1>2. Unfiled(r) /\ r \in Rec
  BY <1>1, HolderKnows DEF Session
<1>3. CASE Skip(h, "reply") /\ UNCHANGED answered
  <2>1. Same
    BY <1>3 DEF Capture, Same
  <2> QED BY <1>1, <1>3, <2>1, HolderKnows, Asides, SerialSkip
<1>4. CASE Skip(h, "submit") /\ UNCHANGED answered
  <2>1. Same /\ "submit" \in Holding
    BY <1>4 DEF Capture, Same, Holding
  <2>2. Go(h, "submit", s) /\ store' = store
    BY <1>4, SkipWritesNothing
  <2> QED BY <1>1, <2>1, <2>2, HolderKnows, HoldingMoves
<1>5. CASE Save(h, "reply", [s EXCEPT !.recording = NoRec]) /\ UNCHANGED answered
  <2>1. Same
    BY <1>5 DEF Capture, Same
  <2>2. Sound([s EXCEPT !.recording = NoRec].recording)
    BY <1>1 DEF Session, Sound
  <2> QED BY <1>1, <1>5, <2>1, <2>2, HolderKnows, Asides, SerialSave
<1>6. CASE Save(h, "reply", taken) /\ answered' = [answered EXCEPT ![r.trip] = @ + 1]
  <2>1. Go(h, "reply", taken) /\ store' = taken
    BY <1>6, SaveGotThrough
  <2>2. pc'[h] = "reply"
    BY <2>1 DEF Go, IInv, CopiesInv
  <2>3. HandlerInv(h)'
    BY <2>2 DEF HandlerInv, Holding
  <2>4. UNCHANGED <<filed, trips, cancelled>>
    BY DEF Capture
  <2>5. r.trip \in Trips /\ r.trip \in 1..trips /\ answered \in [Trips -> Nat] /\ trips \in Nat
    BY <1>2 DEF Unfiled, Rec, IInv, RestInv
  <2>6. TripsInv'
    BY <1>6, <2>4, <2>5 DEF SerialInv, TripsInv
  <2>7. taken.recording = [trip |-> r.trip, taken |-> r.taken + 1]
    BY <1>1, <1>2 DEF Session, Rec
  <2>8. answered'[r.trip] = r.taken + 1
    BY <1>2, <1>6, <2>5 DEF Unfiled
  <2>9. Sound(store.recording)'
    BY <1>2, <2>1, <2>4, <2>7, <2>8 DEF Sound, Unfiled
  <2>10. Running(h) /\ "reply" \in Labels
    BY <1>1, HolderKnows DEF Labels
  <2> QED BY <2>1, <2>3, <2>6, <2>9, <2>10, SerialMoves
<1> QED BY <1>3, <1>4, <1>5, <1>6 DEF Capture

LEMMA SerialSubmit ==
  ASSUME IInv, SerialInv, NEW h \in Handlers, Submit(h)
  PROVE  SerialInv'
<1> DEFINE r == snap[h].recording
<1>1. pc[h] \in Holding /\ pc[h] # "close" /\ r # NoRec
  BY DEF Submit, Holding, SerialInv, HandlerInv
<1>2. Unfiled(r) /\ store.recording \in {NoRec, r}
  BY <1>1, HolderKnows
<1>3. CASE UNCHANGED filed /\ (Skip(h, "reply") \/ Skip(h, "raised"))
  <2>1. Same
    BY <1>3 DEF Submit, history, Same
  <2> QED BY <1>1, <1>3, <2>1, HolderKnows, Asides, SerialSkip
<1>4. CASE filed' = [filed EXCEPT ![r.trip] = @ + 1] /\ Skip(h, "close")
  <2>1. Go(h, "close", snap[h]) /\ store' = store
    BY <1>4, SkipWritesNothing
  <2>2. pc'[h] = "close" /\ snap'[h] = snap[h] /\ "close" \in Labels
    BY <2>1 DEF Go, IInv, CopiesInv, Labels, Ended
  <2>3. UNCHANGED <<trips, cancelled, answered>>
    BY DEF Submit, history
  <2>4. r.trip \in Trips /\ r.trip \in 1..trips /\ filed \in [Trips -> Nat] /\ trips \in Nat
    BY <1>1, <1>2 DEF Unfiled, Session, Rec, IInv, CopiesInv, RestInv
  <2>5. filed'[r.trip] = 1
    BY <1>2, <1>4, <2>4 DEF Unfiled
  <2>6. HandlerInv(h)'
    BY <1>1, <1>2, <2>1, <2>2, <2>3, <2>5 DEF HandlerInv, Holding, JustFiled, Unfiled
  <2>7. TripsInv'
    BY <1>4, <2>3, <2>4, <2>5 DEF SerialInv, TripsInv
  <2> QED BY <1>1, <2>1, <2>2, <2>6, <2>7, HolderKnows, SerialMoves
<1> QED BY <1>3, <1>4 DEF Submit

LEMMA SerialClose ==
  ASSUME IInv, SerialInv, NEW h \in Handlers, Close(h), clean'
  PROVE  SerialInv'
<1>1. Running(h) /\ Same
  BY DEF Close, Running, Ended, Quiet, history, Same
<1>2. Sound([snap[h] EXCEPT !.recording = NoRec].recording)
  BY DEF IInv, CopiesInv, Session, Sound
<1>3. Save(h, "reply", [snap[h] EXCEPT !.recording = NoRec])
  BY DEF Close
<1> QED BY <1>1, <1>2, <1>3, Asides, SerialSave

LEMMA SerialOutside ==
  ASSUME IInv, SerialInv, NEW h \in Handlers, Location(h) \/ Route(h) \/ Reply(h)
  PROVE  SerialInv'
<1>1. Running(h) /\ pc[h] # "close" /\ Same
  BY DEF Location, Route, Reply, Running, Ended, Quiet, history, Same
<1>2. \E l \in {"location", "route", "wipe", "reply", "idle", "raised"} : Skip(h, l)
  BY DEF Location, Route, Reply
<1> QED BY <1>1, <1>2, Asides, SerialSkip

LEMMA SerialWipe ==
  ASSUME IInv, SerialInv, NEW h \in Handlers, Wipe(h), clean'
  PROVE  SerialInv'
<1>1. Running(h) /\ Same /\ Go(h, "idle", snap[h])
  BY DEF Wipe, Running, Ended, Same
<1>2. store' = Fresh
  BY DeleteGotThrough DEF Wipe
<1>3. Sound(store'.recording)
  BY <1>2 DEF Fresh, Sound
<1> QED BY <1>1, <1>3, Asides, AsideMoves

\* A message taken on while no handler runs finds the store as the last left it.
LEMMA SerialReceive ==
  ASSUME IInv, SerialInv, NEW h \in Handlers, NEW m \in Message, Receive(h, m), clean'
  PROVE  SerialInv'
<1>1. \A g \in Handlers : pc[g] \in Ended
  BY Zenon DEF Receive
<1>2. Sound(store.recording)
  BY <1>1 DEF SerialInv, Ended
<1>3. store' = store /\ Same
  BY DEF Receive, history, Same
<1>4. PICK s \in {store, Fresh} : Go(h, "triage", s)
  BY DEF Receive
<1>5. pc'[h] = "triage" /\ snap'[h] = s
  BY <1>4 DEF Go, IInv, CopiesInv, Ended
<1>6. s.recording # NoRec => Unfiled(s.recording) /\ s.recording = store.recording
  BY <1>2, <1>4 DEF Sound, Fresh
<1>7. \A g \in Handlers : g # h => pc'[g] \in Ended
  BY <1>1, <1>4 DEF Go, IInv, CopiesInv
<1>8. HandlerInv(h)'
  BY <1>3, <1>5, <1>6 DEF HandlerInv, Holding, Unfiled, Same
<1>9. ASSUME NEW g \in Handlers PROVE HandlerInv(g)'
  <2>1. CASE g # h
    BY <1>7, <2>1 DEF HandlerInv, Ended, Holding
  <2> QED BY <1>8, <2>1
<1>10. (\A f, g \in Handlers : Running(f) /\ Running(g) => f = g)'
  BY <1>7 DEF Running
<1>11. Sound(store.recording)' /\ TripsInv'
  BY <1>2, <1>3, SameKeepsTrips DEF Sound, Unfiled, Same, SerialInv
<1> QED BY <1>9, <1>10, <1>11 DEF SerialInv

LEMMA SerialExpire == ASSUME SerialInv, Expire PROVE SerialInv'
<1>1. store' = Fresh /\ Same /\ UNCHANGED <<pc, snap>>
  BY DEF Expire, local, Same
<1>2. Fresh.recording = NoRec
  BY DEF Fresh
<1>3. TripsInv'
  BY <1>1, SameKeepsTrips DEF SerialInv
<1>4. ASSUME NEW g \in Handlers PROVE HandlerInv(g)'
  BY <1>1, <1>2 DEF SerialInv, HandlerInv, Unfiled, JustFiled, Same
<1> QED BY <1>1, <1>2, <1>3, <1>4 DEF SerialInv, Running, Sound

LEMMA SerialStep ==
  ASSUME IInv, SerialInv, ConversationAssumption, NEW h \in Handlers, Step(h), clean'
  PROVE  SerialInv'
BY SerialTriage, SerialOutside, SerialCancel, SerialEndRoute, SerialToRecording, SerialStart,
   SerialDirection, SerialText, SerialCapture, SerialSubmit, SerialClose, SerialWipe DEF Step

LEMMA CleanInit == ASSUME Init PROVE CleanInv
<1>1. Sound(store.recording)
  BY DEF Init, Fresh, Sound
<1>2. \A h \in Handlers : ~Running(h) /\ HandlerInv(h)
  BY DEF Init, Running, Ended, HandlerInv, Holding
<1>3. TripsInv
  BY DEF Init, TripsInv
<1> QED BY <1>1, <1>2, <1>3 DEF CleanInv, SerialInv

LEMMA CleanNext ==
  ASSUME IInv, CleanInv, ConversationAssumption, [Next]_vars PROVE CleanInv'
<1> SUFFICES ASSUME clean' PROVE SerialInv'
  BY Zenon DEF CleanInv
<1>1. ASSUME NEW h \in Handlers, Step(h) PROVE SerialInv'
  <2>1. clean' = clean \/ clean' = FALSE
    BY <1>1, Zenon DEF Step, Triage, Location, Cancel, EndRoute, ToRecording, Start, Direction,
       Text, Capture, Submit, Close, Route, Wipe, Reply, Save, Skip, Delete, Put
  <2>2. clean
    BY <2>1, Zenon
  <2>3. SerialInv
    BY <2>2, Zenon DEF CleanInv
  <2> QED BY <1>1, <2>3, SerialStep
<1>2. ASSUME NEW h \in Handlers, NEW m \in Message, Receive(h, m) PROVE SerialInv'
  <2>1. clean
    BY <1>2, Zenon DEF Receive
  <2>2. SerialInv
    BY <2>1, Zenon DEF CleanInv
  <2> QED BY <1>2, <2>2, SerialReceive
<1>3. CASE Expire
  <2>1. SerialInv
    BY <1>3, Zenon DEF CleanInv, Expire
  <2> QED BY <1>3, <2>1, SerialExpire
<1>4. CASE UNCHANGED vars
  <2>1. SerialInv
    BY <1>4, Zenon DEF CleanInv, vars
  <2>2. UNCHANGED <<store, pc, snap>> /\ Same
    BY <1>4 DEF vars, local, history, Same
  <2> QED BY <2>1, <2>2 DEF SerialInv, Running, Sound, Unfiled, JustFiled, HandlerInv, TripsInv, Same
<1> QED BY <1>1, <1>2, <1>3, <1>4 DEF Next

LEMMA CleanInvariance == Spec => []CleanInv
<1>1. Init => CleanInv
  BY CleanInit
<1>2. IInv /\ CleanInv /\ [Next]_vars => CleanInv'
  BY CleanNext, ConversationAssumption
<1> QED BY <1>1, <1>2, Invariance, PTL DEF Spec

\* A cancelled recording does not come back, as long as the user's messages were
\* handled one at a time and every write got through.
THEOREM CancelCorrect == Spec => []CancelledStaysCancelled
<1>1. IInv /\ CleanInv => CancelledStaysCancelled
  <2> SUFFICES ASSUME IInv, SerialInv PROVE store.recording.trip \notin cancelled
    BY Zenon DEF CleanInv, CancelledStaysCancelled
  <2>1. NoRec.trip \notin cancelled
    BY DEF NoRec, IInv, RestInv, Trips
  <2>2. CASE \A h \in Handlers : pc[h] # "close"
    BY <2>1, <2>2 DEF SerialInv, Sound, Unfiled
  <2>3. CASE \E h \in Handlers : pc[h] = "close"
    BY <2>1, <2>3 DEF SerialInv, HandlerInv, JustFiled
  <2> QED BY <2>2, <2>3
<1> QED BY <1>1, Invariance, CleanInvariance, PTL

\* One trip makes at most one pending corridor, under the same condition.
THEOREM FilingCorrect == Spec => []FiledOnce
<1>1. CleanInv => FiledOnce
  <2> SUFFICES ASSUME SerialInv PROVE \A t \in Trips : filed[t] <= 1
    BY Zenon DEF CleanInv, FiledOnce
  <2> QED BY DEF SerialInv, TripsInv
<1> QED BY <1>1, CleanInvariance, PTL

\* The stored recording holds every answer taken, under the same condition.
THEOREM AnswersCorrect == Spec => []AnswersKept
<1>1. CleanInv => AnswersKept
  <2> SUFFICES ASSUME SerialInv, store.recording # NoRec
               PROVE  store.recording.taken = answered[store.recording.trip]
    BY Zenon DEF CleanInv, AnswersKept
  <2>1. CASE \A h \in Handlers : pc[h] # "close"
    BY <2>1 DEF SerialInv, Sound, Unfiled
  <2>2. CASE \E h \in Handlers : pc[h] = "close"
    BY <2>2 DEF SerialInv, HandlerInv, JustFiled
  <2> QED BY <2>1, <2>2
<1> QED BY <1>1, CleanInvariance, PTL
=============================================================================
