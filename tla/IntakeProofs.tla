---------------------------- MODULE IntakeProofs ----------------------------
(***************************************************************************)
(* What the cooldown keys buy Conversation, for any number of tasks and    *)
(* messages, any cooldown, and with Redis failing or not.                  *)
(***************************************************************************)
EXTENDS Intake, ConversationProofs

KeysInv ==
  /\ limiting \subseteq Handlers
  /\ text \in [Handlers -> Script \cup {Unsent}]
  /\ recent \in [Taps -> Nat]

\* While calm, the tasks under way have one text, and the key of a text that is being
\* handled is alive.
TapsInv ==
  /\ \A g, h \in Handlers :
       Busy(g) /\ Busy(h) => g = h \/ (text[g] = text[h] /\ text[g] \in Taps)
  /\ \A h \in Handlers : Handling(h) /\ text[h] \in Taps => recent[text[h]] > 0

CalmInv == calm => clean /\ TapsInv

IntakeInv == IInv /\ CleanInv /\ KeysInv /\ CalmInv

-----------------------------------------------------------------------------
\* A step of Conversation, or none, keeps its invariants.
LEMMA ConversationKeeps ==
  ASSUME IntakeInv, ConversationAssumption, [Next]_vars
  PROVE  IInv' /\ CleanInv'
BY NextKeepsInv, CleanNext DEF IntakeInv

LEMMA ArriveKeeps ==
  ASSUME IntakeInv, ConversationAssumption, NEW h \in Handlers, NEW m \in Script, Arrive(h, m)
  PROVE  IntakeInv'
<1>1. IInv' /\ CleanInv'
  BY ConversationKeeps DEF Arrive
<1>2. /\ limiting' = limiting \cup {h} /\ pc' = pc /\ recent' = recent
      /\ \A g \in Handlers \ {h} : text'[g] = text[g]
      /\ text' \in [Handlers -> Script \cup {Unsent}] /\ text'[h] = m
  BY DEF Arrive, vars, local, IntakeInv, KeysInv
<1>3. KeysInv'
  BY <1>2 DEF IntakeInv, KeysInv
<1>4. clean' = clean
  BY Zenon DEF Arrive, vars
<1>5. ASSUME calm' PROVE TapsInv'
  <2>1. TapsInv
    BY <1>5, Zenon DEF Arrive, IntakeInv, CalmInv
  <2>2. \A g \in Handlers : Busy(g) => text[g] = m /\ m \in Taps
    BY <1>5, Zenon DEF Arrive
  <2>3. ~Busy(h)
    BY DEF Arrive
  <2> QED BY <1>2, <2>1, <2>2, <2>3 DEF TapsInv, Busy, Handling
<1>6. CalmInv'
  BY <1>4, <1>5, Zenon DEF IntakeInv, CalmInv, Arrive
<1> QED BY <1>1, <1>3, <1>6 DEF IntakeInv

\* A task that leaves the checks without being taken on.
LEMMA TurnedDownKeeps ==
  ASSUME IntakeInv, ConversationAssumption, NEW h \in Handlers, Refuse(h) \/ Ignore(h)
  PROVE  IntakeInv'
<1>1. UNCHANGED vars /\ UNCHANGED <<text, recent, calm>> /\ limiting' = limiting \ {h}
  BY DEF Refuse, Ignore, Leave
<1>2. IInv' /\ CleanInv'
  BY <1>1, ConversationKeeps
<1>3. KeysInv'
  BY <1>1 DEF IntakeInv, KeysInv
<1>4. TapsInv => TapsInv'
  BY <1>1 DEF TapsInv, Busy, Handling, vars, local
<1>5. CalmInv'
  BY <1>1, <1>4, Zenon DEF IntakeInv, CalmInv, vars
<1> QED BY <1>2, <1>3, <1>5 DEF IntakeInv

\* A task taken on while calm is the only one handled: another one's text would have
\* to be the same, and its key alive.
LEMMA TakenOnKeeps ==
  ASSUME IntakeInv, ConversationAssumption, IntakeAssumption,
         NEW h \in Handlers, TakeOn(h) \/ FailOpen(h)
  PROVE  IntakeInv'
<1>1. Receive(h, text[h]) /\ Leave(h) /\ text' = text
  BY DEF TakeOn, FailOpen
<1>2. text[h] \in Message
  BY DEF IntakeInv, KeysInv, IntakeAssumption, Unsent, Message
<1>3. IInv' /\ CleanInv'
  BY <1>1, <1>2, ConversationKeeps DEF Next
<1>4. KeysInv'
  <2>1. CASE TakeOn(h) /\ text[h] \in Taps
    BY <1>1, <2>1 DEF TakeOn, IntakeInv, KeysInv, Leave, IntakeAssumption
  <2>2. CASE FailOpen(h) \/ text[h] \notin Taps
    BY <1>1, <2>2 DEF TakeOn, FailOpen, IntakeInv, KeysInv, Leave
  <2> QED BY <2>1, <2>2
<1>5. ASSUME calm' PROVE clean' /\ TapsInv'
  <2>1. calm /\ (FailOpen(h) => text[h] \notin Taps)
    BY <1>5, Zenon DEF TakeOn, FailOpen
  <2>2. clean /\ TapsInv
    BY <2>1, Zenon DEF IntakeInv, CalmInv
  <2>3. h \in limiting /\ pc[h] \in Ended /\ limiting' = limiting \ {h}
    BY <1>1 DEF Leave, Receive
  <2>4. ASSUME NEW g \in Handlers PROVE pc[g] \in Ended
    <3>1. CASE text[h] \notin Taps
      BY <2>2, <2>3, <3>1 DEF TapsInv, Busy, Handling
    <3>2. CASE text[h] \in Taps
      BY <2>1, <2>2, <2>3, <3>2 DEF TapsInv, Busy, Handling, TakeOn, Held
    <3> QED BY <3>1, <3>2
  <2>5. clean'
    BY <1>1, <2>2, <2>4, Zenon DEF Receive
  <2>6. \A g \in Handlers \ {h} : pc'[g] = pc[g]
    BY <1>1 DEF Receive, Go, IntakeInv, IInv, CopiesInv
  <2>7. ASSUME text[h] \in Taps PROVE recent'[text[h]] > 0
    <3>1. TakeOn(h)
      BY <2>1, <2>7
    <3>2. recent' = [recent EXCEPT ![text[h]] = Cooldown]
      BY <2>7, <3>1 DEF TakeOn
    <3>3. text[h] \in Taps /\ recent \in [Taps -> Nat]
      BY <2>7 DEF IntakeInv, KeysInv
    <3> QED BY <3>2, <3>3 DEF IntakeAssumption
  <2> QED BY <1>1, <2>2, <2>3, <2>4, <2>5, <2>6, <2>7 DEF TapsInv, Busy, Handling
<1> QED BY <1>3, <1>4, <1>5 DEF IntakeInv, CalmInv

LEMMA HandleKeeps ==
  ASSUME IntakeInv, ConversationAssumption, NEW h \in Handlers, Handle(h)
  PROVE  IntakeInv'
<1>1. Step(h) /\ limiting' = limiting /\ text' = text /\ recent' = recent
  BY DEF Handle, intake
<1>2. IInv' /\ CleanInv'
  BY <1>1, ConversationKeeps DEF Next
<1>3. KeysInv'
  BY <1>1 DEF IntakeInv, KeysInv
<1>4. \A g \in Handlers : Handling(g)' => Handling(g)
  <2>1. Handling(h)
    BY <1>1 DEF Handling, Ended, Step, Triage, Location, Cancel, EndRoute, ToRecording, Start,
       Direction, Text, Capture, Submit, Close, Route, Wipe, Reply
  <2>2. \A g \in Handlers \ {h} : pc'[g] = pc[g]
    BY <1>1, StepMoves DEF IntakeInv, IInv, CopiesInv, Moved, Go
  <2> QED BY <2>1, <2>2 DEF Handling
<1>5. ASSUME calm' PROVE clean' /\ TapsInv'
  <2>1. calm /\ clean' = clean
    BY <1>5, Zenon DEF Handle
  <2>2. clean /\ TapsInv
    BY <2>1, Zenon DEF IntakeInv, CalmInv
  <2>3. clean'
    BY <2>1, <2>2, Zenon
  <2> QED BY <1>1, <1>4, <2>2, <2>3 DEF TapsInv, Busy
<1> QED BY <1>2, <1>3, <1>5 DEF IntakeInv, CalmInv

LEMMA ExpireSessionKeeps ==
  ASSUME IntakeInv, ConversationAssumption, ExpireSession
  PROVE  IntakeInv'
<1>1. Expire /\ limiting' = limiting /\ text' = text /\ recent' = recent
  BY DEF ExpireSession, intake
<1>2. IInv' /\ CleanInv'
  BY <1>1, ConversationKeeps DEF Next
<1>3. KeysInv'
  BY <1>1 DEF IntakeInv, KeysInv
<1>4. TapsInv => TapsInv'
  BY <1>1 DEF TapsInv, Busy, Handling, Expire, local
<1>5. calm' = calm /\ clean' = clean
  BY <1>1, Zenon DEF ExpireSession, Expire
<1> QED BY <1>2, <1>3, <1>4, <1>5, Zenon DEF IntakeInv, CalmInv

\* A key that runs out while its text is being handled ends the calm.
LEMMA TickKeeps ==
  ASSUME IntakeInv, ConversationAssumption, Tick
  PROVE  IntakeInv'
<1>1. /\ UNCHANGED vars /\ limiting' = limiting /\ text' = text
      /\ recent' = [m \in Taps |-> IF recent[m] > 0 THEN recent[m] - 1 ELSE 0]
  BY DEF Tick
<1>2. IInv' /\ CleanInv'
  BY <1>1, ConversationKeeps
<1>3. KeysInv'
  <2>1. \A m \in Taps : recent'[m] \in Nat
    BY <1>1 DEF IntakeInv, KeysInv
  <2> QED BY <1>1, <2>1 DEF IntakeInv, KeysInv
<1>4. ASSUME calm' PROVE clean' /\ TapsInv'
  <2>1. /\ calm
        /\ \A h \in Handlers : Handling(h) /\ text[h] \in Taps => recent[text[h]] > 1
    BY <1>4, Zenon DEF Tick
  <2>2. clean /\ TapsInv
    BY <2>1, Zenon DEF IntakeInv, CalmInv
  <2>3. clean'
    BY <1>1, <2>2, Zenon DEF vars
  <2>4. pc' = pc
    BY <1>1 DEF vars, local
  <2>5. ASSUME NEW h \in Handlers, Handling(h), text[h] \in Taps PROVE recent'[text[h]] > 0
    BY <1>1, <2>1, <2>5 DEF IntakeInv, KeysInv
  <2> QED BY <1>1, <2>2, <2>3, <2>4, <2>5 DEF TapsInv, Busy, Handling
<1> QED BY <1>2, <1>3, <1>4 DEF IntakeInv, CalmInv

-----------------------------------------------------------------------------
LEMMA IntakeInitInv ==
  ASSUME ConversationAssumption, IntakeInit
  PROVE  IntakeInv
<1>1. Init
  BY DEF IntakeInit
<1>2. IInv /\ CleanInv
  BY <1>1, InitInv, CleanInit
<1>3. KeysInv
  BY DEF IntakeInit, KeysInv
<1>4. \A h \in Handlers : ~Busy(h)
  BY <1>1 DEF IntakeInit, Init, Busy, Handling, Ended
<1>5. TapsInv
  BY <1>4 DEF TapsInv, Busy
<1>6. CalmInv
  BY <1>1, <1>5, Zenon DEF CalmInv, Init
<1> QED BY <1>2, <1>3, <1>6 DEF IntakeInv

LEMMA IntakeNextKeeps ==
  ASSUME IntakeInv, ConversationAssumption, IntakeAssumption, [IntakeNext]_intakeVars
  PROVE  IntakeInv'
<1>1. CASE UNCHANGED intakeVars
  <2>1. UNCHANGED vars /\ UNCHANGED <<limiting, text, recent>>
    BY <1>1 DEF intakeVars, intake
  <2>2. IInv' /\ CleanInv'
    BY <2>1, ConversationKeeps
  <2>3. KeysInv' /\ (TapsInv => TapsInv')
    BY <2>1 DEF IntakeInv, KeysInv, TapsInv, Busy, Handling, vars, local
  <2>4. calm' = calm /\ clean' = clean
    BY <1>1, Zenon DEF intakeVars, vars
  <2> QED BY <2>2, <2>3, <2>4, Zenon DEF IntakeInv, CalmInv
<1>2. ASSUME NEW h \in Handlers, NEW m \in Script, Arrive(h, m) PROVE IntakeInv'
  BY <1>2, ArriveKeeps
<1> QED BY <1>1, <1>2, TurnedDownKeeps, TakenOnKeeps, HandleKeeps, ExpireSessionKeeps, TickKeeps
        DEF IntakeNext

\* What the abuse checks let through is a run of Conversation: all that is proved of it
\* holds behind them.
THEOREM IntakeRunsConversation == IntakeSpec => Spec
<1>1. IntakeInit => Init
  BY DEF IntakeInit
<1>2. IntakeInit => IntakeInv
  BY IntakeInitInv, ConversationAssumption
<1>3. IntakeInv /\ [IntakeNext]_intakeVars => IntakeInv'
  BY IntakeNextKeeps, ConversationAssumption, IntakeAssumption
<1>4. IntakeInv /\ [IntakeNext]_intakeVars => [Next]_vars
  <2> SUFFICES ASSUME IntakeInv, [IntakeNext]_intakeVars PROVE [Next]_vars
    OBVIOUS
  <2>1. CASE \E h \in Handlers : \/ \E m \in Script : Arrive(h, m)
                                 \/ Refuse(h) \/ Ignore(h)
    BY <2>1 DEF Arrive, Refuse, Ignore
  <2>2. ASSUME NEW h \in Handlers, TakeOn(h) \/ FailOpen(h) PROVE Next
    <3>1. Receive(h, text[h])
      BY <2>2 DEF TakeOn, FailOpen
    <3>2. text[h] \in Message
      BY IntakeAssumption DEF IntakeInv, KeysInv, Unsent, Message
    <3> QED BY <3>1, <3>2 DEF Next
  <2>3. CASE (\E h \in Handlers : Handle(h)) \/ ExpireSession
    BY <2>3 DEF Handle, ExpireSession, Next
  <2>4. CASE Tick \/ UNCHANGED intakeVars
    BY <2>4 DEF Tick, intakeVars
  <2> QED BY <2>1, <2>2, <2>3, <2>4 DEF IntakeNext
<1> QED BY <1>1, <1>2, <1>3, <1>4, PTL DEF IntakeSpec, Spec

\* Whatever overlaps, while only copies of one text do and each is done before its
\* cooldown is over, is_duplicate keeps a second handler from starting, and so a trip
\* whose confirmation is sent twice is filed once.
THEOREM RetapsCorrect == IntakeSpec => []RetapsAreHarmless
<1>1. IntakeInit => IntakeInv
  BY IntakeInitInv, ConversationAssumption
<1>2. IntakeInv /\ [IntakeNext]_intakeVars => IntakeInv'
  BY IntakeNextKeeps, ConversationAssumption, IntakeAssumption
<1>3. IntakeInv => RetapsAreHarmless
  <2> SUFFICES ASSUME IntakeInv, calm
               PROVE  /\ \A g, h \in Handlers : Handling(g) /\ Handling(h) => g = h
                      /\ \A t \in Trips : filed[t] <= 1
    BY Zenon DEF RetapsAreHarmless
  <2>1. SerialInv
    BY Zenon DEF IntakeInv, CalmInv, CleanInv
  <2> QED BY <2>1 DEF SerialInv, TripsInv, Running, Handling
<1> QED BY <1>1, <1>2, <1>3, PTL DEF IntakeSpec

-----------------------------------------------------------------------------
(* A cancel that is let through                                            *)

\* A handler works on the message its task was started with; a cancel takes the one
\* way through the dispatch.
CancelPath ==
  \A h \in Handlers : Handling(h) =>
    /\ msg[h] = text[h]
    /\ msg[h].kind = "cancel" => pc[h] \in {"triage", "dispatch", "reply"}

\* While calm the tasks under way have the text that arrived last.
AllLast == calm => \A h \in Handlers : Busy(h) => text[h] = last

\* Some task has the session still to delete.
Ahead == \E h \in Handlers : h \in limiting \/ pc[h] \in {"triage", "dispatch"}

Heeding ==
  calm /\ last.kind = "cancel" /\ turned = "no" => store.recording = NoRec \/ Ahead

HeedInv == CancelPath /\ AllLast /\ Heeding

LEMMA HeedArrive ==
  ASSUME IntakeInv, HeedInv, NEW h \in Handlers, NEW m \in Script, Arrive(h, m)
  PROVE  HeedInv'
<1>1. /\ limiting' = limiting \cup {h} /\ pc' = pc /\ msg' = msg /\ ~Busy(h)
      /\ \A g \in Handlers \ {h} : text'[g] = text[g]
      /\ text'[h] = m /\ last' = m
  BY DEF Arrive, vars, local, IntakeInv, KeysInv
<1>2. CancelPath'
  BY <1>1 DEF HeedInv, CancelPath, Busy, Handling
<1>3. ASSUME calm', NEW g \in Handlers, Busy(g)' PROVE text'[g] = last'
  <2>1. Busy(g) => text[g] = m
    BY <1>3, Zenon DEF Arrive
  <2> QED BY <1>1, <1>3, <2>1 DEF Busy, Handling
<1>4. Ahead'
  BY <1>1 DEF Ahead
<1> QED BY <1>2, <1>3, <1>4, Zenon DEF HeedInv, AllLast, Heeding

LEMMA HeedTurnedDown ==
  ASSUME IntakeInv, HeedInv, NEW h \in Handlers, Refuse(h) \/ Ignore(h)
  PROVE  HeedInv'
<1>1. /\ UNCHANGED vars /\ text' = text /\ last' = last /\ h \in limiting
      /\ limiting' = limiting \ {h}
      /\ text[h] = last => turned' # "no"
  BY DEF Refuse, Ignore, Leave
<1>2. calm' = calm
  BY Zenon DEF Refuse, Ignore
<1>3. pc' = pc /\ msg' = msg
  BY <1>1 DEF vars, local
<1>4. CancelPath'
  BY <1>1, <1>3 DEF HeedInv, CancelPath, Handling
<1>5. \A g \in Handlers : Busy(g)' => Busy(g)
  BY <1>1, <1>3 DEF Busy, Handling
<1>6. AllLast'
  BY <1>1, <1>2, <1>5, Zenon DEF HeedInv, AllLast
<1>7. calm => text[h] = last
  BY <1>1, Zenon DEF HeedInv, AllLast, Busy
<1> QED BY <1>1, <1>2, <1>4, <1>6, <1>7, Zenon DEF HeedInv, Heeding

LEMMA HeedTakenOn ==
  ASSUME IntakeInv, HeedInv, NEW h \in Handlers, TakeOn(h) \/ FailOpen(h)
  PROVE  HeedInv'
<1>1. /\ Receive(h, text[h]) /\ text' = text /\ last' = last /\ turned' = turned
      /\ h \in limiting /\ limiting' = limiting \ {h}
  BY DEF TakeOn, FailOpen, Leave
<1>2. calm' => calm
  BY Zenon DEF TakeOn, FailOpen
<1>3. /\ pc'[h] = "triage" /\ msg'[h] = text[h]
      /\ \A g \in Handlers \ {h} : pc'[g] = pc[g] /\ msg'[g] = msg[g]
  BY <1>1 DEF Receive, Go, IntakeInv, IInv, CopiesInv, RestInv
<1>4. CancelPath'
  BY <1>1, <1>3 DEF HeedInv, CancelPath, Handling
<1>5. \A g \in Handlers : Busy(g)' => Busy(g)
  BY <1>1, <1>3 DEF Busy, Handling
<1>6. AllLast'
  BY <1>1, <1>2, <1>5, Zenon DEF HeedInv, AllLast
<1>7. Ahead'
  BY <1>3 DEF Ahead
<1> QED BY <1>4, <1>6, <1>7, Zenon DEF HeedInv, Heeding

\* A handler of a cancel goes on to the dispatch, deletes the session there, or replies.
LEMMA CancelSteps ==
  ASSUME IntakeInv, HeedInv, NEW h \in Handlers, Step(h), msg[h].kind = "cancel"
  PROVE  \/ pc[h] = "triage" /\ pc'[h] = "dispatch"
         \/ pc[h] = "dispatch" /\ pc'[h] = "reply" /\ Delete
         \/ pc[h] = "reply" /\ pc'[h] = "idle" /\ store' = store
<1>1. Handling(h)
  BY DEF Handling, Ended, Step, Triage, Location, Cancel, EndRoute, ToRecording, Start,
     Direction, Text, Capture, Submit, Close, Route, Wipe, Reply
<1>2. pc[h] \in {"triage", "dispatch", "reply"}
  BY <1>1 DEF HeedInv, CancelPath
<1>3. pc \in [Handlers -> Labels]
  BY DEF IntakeInv, IInv, CopiesInv
<1>4. CASE pc[h] = "triage"
  <2>1. Triage(h)
    BY <1>4 DEF Step, Triage, Location, Cancel, EndRoute, ToRecording, Start,
       Direction, Text, Capture, Submit, Close, Route, Wipe, Reply
  <2> QED BY <1>3, <1>4, <2>1 DEF Triage, Save, Skip, Go
<1>5. CASE pc[h] = "dispatch"
  <2>1. Cancel(h)
    BY <1>5 DEF Step, Triage, Location, Cancel, EndRoute, ToRecording, Start,
       Direction, Text, Capture, Submit, Close, Route, Wipe, Reply
  <2> QED BY <1>3, <1>5, <2>1 DEF Cancel, Go
<1>6. CASE pc[h] = "reply"
  <2>1. Reply(h)
    BY <1>6 DEF Step, Triage, Location, Cancel, EndRoute, ToRecording, Start,
       Direction, Text, Capture, Submit, Close, Route, Wipe, Reply
  <2> QED BY <1>3, <1>6, <2>1 DEF Reply, Skip, Go
<1> QED BY <1>2, <1>4, <1>5, <1>6

LEMMA HeedHandle ==
  ASSUME IntakeInv, HeedInv, ConversationAssumption, NEW h \in Handlers, Handle(h)
  PROVE  HeedInv'
<1>1. /\ Step(h) /\ limiting' = limiting /\ text' = text /\ last' = last /\ turned' = turned
  BY DEF Handle, intake
<1>2. calm' => calm /\ clean' = clean
  BY Zenon DEF Handle
<1>3. msg' = msg /\ Handling(h)
  BY <1>1 DEF Handling, Ended, Step, Triage, Location, Cancel, EndRoute, ToRecording, Start,
     Direction, Text, Capture, Submit, Close, Route, Wipe, Reply, Quiet
<1>4. \A g \in Handlers \ {h} : pc'[g] = pc[g]
  BY <1>1, StepMoves DEF IntakeInv, IInv, CopiesInv, Moved, Go
<1>5. CancelPath'
  <2>1. ASSUME NEW g \in Handlers, Handling(g)', msg[g].kind = "cancel"
        PROVE  pc'[g] \in {"triage", "dispatch", "reply"}
    <3>1. CASE g = h
      BY <1>1, <2>1, <3>1, CancelSteps DEF Handling, Ended
    <3>2. CASE g # h
      BY <1>4, <2>1, <3>2 DEF HeedInv, CancelPath, Handling
    <3> QED BY <3>1, <3>2
  <2>2. \A g \in Handlers : Handling(g)' => Handling(g)
    BY <1>3, <1>4 DEF Handling
  <2> QED BY <1>1, <1>3, <2>1, <2>2 DEF HeedInv, CancelPath
<1>6. AllLast'
  <2>1. \A g \in Handlers : Busy(g)' => Busy(g)
    BY <1>1, <1>3, <1>4 DEF Busy, Handling
  <2> QED BY <1>1, <1>2, <2>1, Zenon DEF HeedInv, AllLast
<1>7. Heeding'
  <2> SUFFICES ASSUME calm', last.kind = "cancel", turned = "no"
               PROVE  store'.recording = NoRec \/ Ahead'
    BY <1>1, Zenon DEF Heeding
  <2>1. clean' /\ text[h] = last /\ (store.recording = NoRec \/ Ahead)
    BY <1>2, <1>3, Zenon DEF HeedInv, AllLast, Heeding, Busy, IntakeInv, CalmInv
  <2>2. msg[h].kind = "cancel"
    BY <1>3, <2>1 DEF HeedInv, CancelPath
  <2>3. CASE pc[h] = "triage" /\ pc'[h] = "dispatch"
    BY <2>3 DEF Ahead
  <2>4. CASE pc[h] = "dispatch" /\ pc'[h] = "reply" /\ Delete
    <3>1. store' = Fresh
      BY <2>1, <2>4, DeleteGotThrough
    <3> QED BY <3>1 DEF Fresh
  <2>5. CASE pc[h] = "reply" /\ pc'[h] = "idle" /\ store' = store
    BY <1>1, <1>4, <2>1, <2>5 DEF Ahead
  <2> QED BY <1>1, <2>2, <2>3, <2>4, <2>5, CancelSteps
<1> QED BY <1>5, <1>6, <1>7 DEF HeedInv

LEMMA HeedRest ==
  ASSUME IntakeInv, HeedInv, ExpireSession \/ Tick \/ UNCHANGED intakeVars
  PROVE  HeedInv'
<1>1. /\ pc' = pc /\ msg' = msg /\ store' \in {store, Fresh}
      /\ limiting' = limiting /\ text' = text /\ last' = last /\ turned' = turned
  BY DEF ExpireSession, Expire, Tick, intake, intakeVars, vars, local
<1>2. calm' => calm
  BY Zenon DEF ExpireSession, Tick, intakeVars
<1>3. CancelPath'
  BY <1>1 DEF HeedInv, CancelPath, Handling
<1>4. AllLast'
  <2>1. \A g \in Handlers : Busy(g)' => Busy(g)
    BY <1>1 DEF Busy, Handling
  <2> QED BY <1>1, <1>2, <2>1, Zenon DEF HeedInv, AllLast
<1>5. store.recording = NoRec \/ Ahead => store'.recording = NoRec \/ Ahead'
  BY <1>1 DEF Ahead, Fresh
<1> QED BY <1>1, <1>2, <1>3, <1>4, <1>5, Zenon DEF HeedInv, Heeding

\* A cancel the abuse checks let through deletes the session, and no copy of it or of
\* what came before brings a recording back, under the condition of RetapsCorrect.
THEOREM CancelServed == IntakeSpec => []CancelHeededIfServed
<1>1. IntakeInit => IntakeInv /\ HeedInv
  <2> SUFFICES ASSUME IntakeInit PROVE IntakeInv /\ HeedInv
    OBVIOUS
  <2>1. \A h \in Handlers : ~Busy(h)
    BY DEF IntakeInit, Init, Busy, Handling, Ended
  <2>2. last.kind = "location"
    BY DEF IntakeInit, Unsent
  <2>3. CancelPath /\ Heeding
    BY <2>1, <2>2 DEF CancelPath, Heeding, Busy
  <2>4. AllLast
    BY <2>1, Zenon DEF AllLast
  <2> QED BY <2>3, <2>4, IntakeInitInv, ConversationAssumption DEF HeedInv
<1>2. IntakeInv /\ HeedInv /\ [IntakeNext]_intakeVars => IntakeInv' /\ HeedInv'
  <2> SUFFICES ASSUME IntakeInv, HeedInv, [IntakeNext]_intakeVars PROVE HeedInv'
    BY IntakeNextKeeps, ConversationAssumption, IntakeAssumption
  <2> QED BY HeedArrive, HeedTurnedDown, HeedTakenOn, HeedHandle, HeedRest,
             ConversationAssumption DEF IntakeNext
<1>3. HeedInv => CancelHeededIfServed
  <2> SUFFICES ASSUME HeedInv, turned = "no", calm, Still, last.kind = "cancel"
               PROVE  store.recording = NoRec
    BY Zenon DEF CancelHeededIfServed, CancelHeeded
  <2>1. store.recording = NoRec \/ Ahead
    BY Zenon DEF HeedInv, Heeding
  <2>2. ~Ahead
    BY DEF Still, Ahead, Busy, Handling, Ended
  <2> QED BY <2>1, <2>2
<1> QED BY <1>1, <1>2, <1>3, PTL DEF IntakeSpec
=============================================================================
