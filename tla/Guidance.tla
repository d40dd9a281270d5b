------------------------------ MODULE Guidance ------------------------------
(***************************************************************************)
(* From the words of one user to directions: where a destination comes     *)
(* from (a corridor's end, any anchor, or the geocoder), how one of several *)
(* places is picked, and which corridor, if any, the reply is made of      *)
(* (app/flows/orchestrator.py, app/corridors/repository.py,                *)
(* app/resolver/).  Corridors are submitted and approved meanwhile, and    *)
(* the words are looked up again when the reply is made.  Messages are     *)
(* handled one at a time (Conversation has their overlap), a step is what  *)
(* happens between two lookups.  A message is handled soundly or not: if    *)
(* not, any read or write of its session may fail, which is swallowed, and *)
(* any send or map service may, which ends the handler without a reply.    *)
(*                                                                         *)
(* All sites lie on one line, where distances are exact.                   *)
(***************************************************************************)
EXTENDS Clipping

CONSTANTS Trips,        \* corridors contributors may submit, as sequences of segments
          End(_),       \* Corridor.destination, a place past the last of a trip filed short
          Spots,        \* sites only the geocoder knows
          Words,        \* what the user may type for a place
          Called(_),    \* the words an anchor has as name or alias
          Expand(_),    \* aliases.expand
          Results(_),   \* the sites the geocoder's service has for a word
          Zone(_),      \* "abuja", "buffer" or "far"
          Display(_),   \* a spot's display name, in parts
          Noise,        \* parts that are not shown (_NOISE_PARTS, postal codes)
          MaxParts,     \* max_parts of short_name
          MaxOptions,   \* places offered at once, 3
          Place(_),     \* where on the line a site lies
          Radius,       \* _CORRIDOR_JOIN_RADIUS_M
          Nothing,      \* None
          MaxMessages,  \* bound: messages of the user
          MaxUnsound    \* bound: those not handled soundly

Places(t) == JoinPoints(t) \cup {End(t)}

Anchors == UNION {Places(t) : t \in Trips}
Sites == Anchors \cup Spots

ASSUME GuidanceAssumption ==
  /\ Anchors \cap Spots = {} /\ Nothing \notin Sites
  /\ \A t \in Trips : End(t) \in JoinPoints(t) => End(t) = Last(t).to
  /\ \A w \in Words : Expand(w) \in Words /\ Results(w) \subseteq Spots
  /\ MaxOptions \in Nat \ {0, 1} /\ MaxMessages \in Nat /\ MaxUnsound \in Nat

VARIABLES status,       \* each trip: "absent", "pending" or "approved"
          destination,  \* session.destination, as stored
          pending,      \* session.pending_clarification, as stored
          task,         \* the message being handled, and the destination it holds
          reply,        \* what the last message was answered with, if it was
          messages,     \* messages handled so far
          unsound,      \* those not handled soundly
          missed,       \* history: since the destination came about, a lookup failed
                        \* or the catalogue changed
          shown,        \* history: the places offered last, none once something else
                        \* was replied than the refusal of an empty message
          amiss         \* history: since then a message was not handled soundly

session == <<destination, pending>>
vars == <<status, session, task, reply, messages, unsound, missed, shown, amiss>>

\* A Place; "how" is history: how it came about.
NoDestination == [query |-> Nothing, at |-> Nothing, how |-> "none"]

\* A word, the number of an option, or a name in parts.
Word(w) == [kind |-> "word", word |-> w]
Number(n) == [kind |-> "number", number |-> n]
Name(parts) == [kind |-> "name", parts |-> parts]

Idle == [pc |-> "idle", word |-> Nothing, from |-> Nothing, dest |-> NoDestination, sound |-> TRUE]

\* A reply that neither offers places nor gives directions, and none at all.
Text == [kind |-> "text"]
Silence == [kind |-> "none"]

-----------------------------------------------------------------------------
(* Lookups                                                                 *)

Approved == {t \in Trips : status[t] = "approved"}

\* create_pending stores a trip's anchors before anyone approves it.
Known == UNION {Places(t) : t \in {t \in Trips : status[t] # "absent"}}

Named(w) == {a \in Known : w \in Called(a)}

\* find_corridors_by_destination, find_corridors_containing_anchor.
Ending(w) == {t \in Approved : End(t) \in Named(w)}
Containing(a) == {t \in Approved : a \in Places(t)}

\* geocode: the places within Abuja, or else those not far from it.
Geocoded(w) ==
  LET found == Results(Expand(w))
      inside == {s \in found : Zone(s) = "abuja"}
  IN IF inside # {} THEN inside ELSE {s \in found : Zone(s) # "far"}

\* short_name: how an option is shown.
Label(s) ==
  LET kept == SelectSeq(Display(s), LAMBDA p : p \notin Noise)
  IN SubSeq(kept, 1, IF Len(kept) < MaxParts THEN Len(kept) ELSE MaxParts)

\* _resolve_clarification: the position of the place picked, 0 if none.
Picked(text, places) ==
  CASE text.kind = "number" -> IF text.number \in DOMAIN places THEN text.number ELSE 0
    [] text.kind = "name" -> First(LAMBDA i : text.parts = Display(places[i].at)
                                                \/ text.parts = <<Head(Display(places[i].at))>>,
                                   DOMAIN places)
    [] OTHER -> 0

\* What a text may stand for as a starting point.
OriginAnchors(text) == IF text.kind = "word" THEN Named(text.word) ELSE {}
OriginSpots(text) == CASE text.kind = "word" -> Geocoded(text.word)
                     [] text.kind = "name" -> {s \in Spots : Label(s) = text.parts}
                     [] OTHER -> {}

-----------------------------------------------------------------------------
Init == /\ status = [t \in Trips |-> "absent"]
        /\ destination = NoDestination /\ pending = <<>>
        /\ task = Idle
        /\ reply = Text
        /\ messages = 0 /\ unsound = 0
        /\ missed = FALSE
        /\ shown = <<>>
        /\ amiss = FALSE

\* store.get: the session, or as if there were none when the read fails.
Reads(sound) == {[dest |-> destination, places |-> pending]}
                  \cup IF sound THEN {} ELSE {[dest |-> NoDestination, places |-> <<>>]}

\* store.put, store.delete.
Put(d, places, sound) == \/ destination' = d /\ pending' = places
                         \/ ~sound /\ UNCHANGED session

Receive(sound) ==
  /\ task = Idle /\ messages < MaxMessages
  /\ messages' = messages + 1
  /\ unsound' = IF sound THEN unsound ELSE unsound + 1
  /\ sound \/ unsound < MaxUnsound
  /\ amiss' = (amiss \/ ~sound)

\* The places the session offers are withdrawn; there is nothing to write if none are.
Withdraw(read, sound) ==
  IF read.places = <<>> THEN UNCHANGED session ELSE Put(read.dest, <<>>, sound)

\* The handler ends with an uncaught error.
Fail == task' = Idle /\ reply' = Silence /\ UNCHANGED shown

\* It ends with a reply, if that can be sent.
Say(r, sound) ==
  \/ task' = Idle /\ reply' = r /\ shown' = IF r.kind = "offer" THEN r.places ELSE <<>>
  \/ ~sound /\ Fail

Start(l, w, from, d, sound) ==
  /\ task' = [pc |-> l, word |-> w, from |-> from, dest |-> d, sound |-> sound]
  /\ reply' = Silence /\ UNCHANGED shown

\* "How do I get to w", perhaps "from o".
Ask(w, o) == \E sound \in BOOLEAN : \E read \in Reads(sound) :
  /\ Receive(sound)
  /\ Withdraw(read, sound)
  /\ Start("corridor", w, o, read.dest, sound)
  /\ missed' = (missed /\ destination # NoDestination)
  /\ UNCHANGED status

\* A text while places are on offer: a pick, or a starting point.
Answer(text) == \E sound \in BOOLEAN : \E read \in Reads(sound) :
  LET i == Picked(text, read.places) IN
  /\ Receive(sound)
  /\ \/ i # 0 /\ Put(read.places[i], <<>>, sound) /\ Say(Text, sound)
     \/ /\ i = 0
        /\ Withdraw(read, sound)
        /\ IF read.dest = NoDestination THEN Say(Text, sound)
           ELSE Start("origin", Nothing, text, read.dest, sound)
  /\ UNCHANGED <<status, missed>>

\* Mutant: places stay on offer.
ShareLeavesOffer(s) == \E sound \in BOOLEAN : \E read \in Reads(sound) :
  /\ Receive(sound)
  /\ UNCHANGED session
  /\ IF read.dest = NoDestination THEN Say(Text, sound)
     ELSE Start("route", Nothing, s, read.dest, sound)
  /\ UNCHANGED <<status, missed>>

\* A location share is never a pick.
Share(s) == \E sound \in BOOLEAN : \E read \in Reads(sound) :
  /\ Receive(sound)
  /\ Withdraw(read, sound)
  /\ IF read.dest = NoDestination THEN Say(Text, sound)
     ELSE Start("route", Nothing, s, read.dest, sound)
  /\ UNCHANGED <<status, missed>>

\* A message with neither text nor location, a voice note say, is refused and the
\* places stay on offer.
Empty == \E sound \in BOOLEAN :
  /\ Receive(sound)
  /\ reply' \in {Text} \cup IF sound THEN {} ELSE {Silence}
  /\ UNCHANGED <<status, session, task, missed, shown>>

\* "cancel".
Cancel == \E sound \in BOOLEAN :
  /\ Receive(sound)
  /\ \/ Put(NoDestination, <<>>, sound)
     \/ ~sound /\ pending' = <<>> /\ UNCHANGED destination
  /\ Say(Text, sound)
  /\ UNCHANGED <<status, missed>>

\* A service the handler calls fails, which it does not catch.
Raise ==
  /\ ~task.sound /\ task.pc \in {"geocode", "origin", "route"}
  /\ Fail
  /\ UNCHANGED <<status, session, messages, unsound, missed, amiss>>

Go(l, d) == task' = [task EXCEPT !.pc = l, !.dest = d] /\ UNCHANGED <<reply, shown>>

\* Mutant: what the geocoder would be asked for is remembered.
ResolvedExpanded(s, how) ==
  LET d == [query |-> Expand(task.word), at |-> s, how |-> how] IN
  /\ Put(d, <<>>, task.sound)
  /\ IF task.from = Nothing THEN Say(Text, task.sound) ELSE Go("origin", d)
  /\ UNCHANGED <<status, messages, unsound, amiss>>

\* The destination is known: on to the starting point, or ask for it.
Resolved(s, how) ==
  LET d == [query |-> task.word, at |-> s, how |-> how] IN
  /\ Put(d, <<>>, task.sound)
  /\ IF task.from = Nothing THEN Say(Text, task.sound) ELSE Go("origin", d)
  /\ UNCHANGED <<status, messages, unsound, amiss>>

\* Nothing found, or the lookup failed, which counts as the same.
Miss(found, next) ==
  /\ missed' = TRUE \/ (found = {} /\ UNCHANGED missed)
  /\ Go(next, task.dest)
  /\ UNCHANGED <<status, session, messages, unsound, amiss>>

\* _lookup_corridor, _lookup_anchor: the first of those found, in no set order.
LookupCorridor ==
  /\ task.pc = "corridor"
  /\ \/ \E t \in Ending(task.word) : Resolved(End(t), "catalogue") /\ UNCHANGED missed
     \/ Miss(Ending(task.word), "anchor")

LookupAnchor ==
  /\ task.pc = "anchor"
  /\ \/ \E a \in Named(task.word) : Resolved(a, "catalogue") /\ UNCHANGED missed
     \/ Miss(Named(task.word), "geocode")

\* Only so many are shown, each with the words that were looked up.
Offer(ranked) ==
  [i \in 1..(IF Len(ranked) < MaxOptions THEN Len(ranked) ELSE MaxOptions) |->
     [query |-> Expand(task.word), at |-> ranked[i], how |-> "pick"]]

\* An error, no place, one place, or several to pick from, in order of importance.
Geocode ==
  /\ task.pc = "geocode"
  /\ \/ Say(Text, task.sound) /\ UNCHANGED <<status, session, messages, unsound, amiss>>
     \/ /\ Cardinality(Geocoded(task.word)) = 1
        /\ \E s \in Geocoded(task.word) : Resolved(s, "geocoder")
     \/ /\ Cardinality(Geocoded(task.word)) > 1
        /\ \E ranked \in SetToSeqs(Geocoded(task.word)) :
             /\ Put(task.dest, Offer(ranked), task.sound)
             /\ Say([kind |-> "offer", places |-> Offer(ranked)], task.sound)
        /\ amiss' = ~task.sound
        /\ UNCHANGED <<status, messages, unsound>>
  /\ UNCHANGED missed

\* _resolve_origin_text: an anchor, or else the place the geocoder ranks first.
ResolveOrigin ==
  /\ task.pc = "origin"
  /\ \/ \E s \in OriginAnchors(task.from) \cup OriginSpots(task.from) :
          task' = [task EXCEPT !.pc = "route", !.from = s] /\ UNCHANGED <<reply, shown>>
     \/ Say(Text, task.sound)
  /\ UNCHANGED <<status, session, messages, unsound, missed, amiss>>

-----------------------------------------------------------------------------
(* The reply                                                               *)

Distance(s, t) == IF Place(s) < Place(t) THEN Place(t) - Place(s) ELSE Place(s) - Place(t)

\* nearest_anchor_in_corridor, if near enough.
Boarding(t, s) ==
  {a \in JoinPoints(t) : /\ Distance(s, a) <= Radius
                         /\ \A b \in JoinPoints(t) : Distance(s, a) <= Distance(s, b)}

\* The sets of candidates _try_corridor_reply may work on, with the clip each
\* would give: corridors that end at a place so called, or else those through
\* the first anchor so called.
CandidateSets(w) ==
  IF Ending(w) # {}
  THEN {{[trip |-> t, to |-> End(t), clip |-> "from"] : t \in Ending(w)}}
  ELSE {{[trip |-> t, to |-> a, clip |-> "between"] : t \in Containing(a)} : a \in Named(w)}

Clipped(c, a) == IF c.clip = "from" THEN ClipFromAnchor(c.trip, a) ELSE ClipBetween(c.trip, a, c.to)

\* Mutant: an empty clip is as good as any.
DirectionsUnclipped(cands, s) ==
  UNION {{[kind |-> "corridor", trip |-> c.trip, join |-> a, to |-> c.to] :
            a \in Boarding(c.trip, s)} : c \in cands}

\* The directions the candidates give someone at s.
Directions(cands, s) ==
  UNION {{[kind |-> "corridor", trip |-> c.trip, join |-> a, to |-> c.to] :
            a \in {a \in Boarding(c.trip, s) : Clipped(c, a) # <<>>}} : c \in cands}

\* A reply that ends the session, which is deleted once it is sent.
Conclude(r) == Say(r, TRUE) /\ Put(NoDestination, <<>>, task.sound)

\* The plain route: the map service answers, or its error is reported and the
\* session kept.
PlainRoute(failed) ==
  \/ Conclude([kind |-> "route", failed |-> failed])
  \/ Say(Text, task.sound) /\ UNCHANGED session

\* Mutant: only the first candidate is tried.
RouteTriesOne ==
  /\ task.pc = "route"
  /\ \/ \E cands \in CandidateSets(task.dest.query) :
          \/ \E c \in cands :
               LET directions == Directions({c}, task.from)
               IN IF directions = {} THEN PlainRoute(FALSE)
                  ELSE \E d \in directions : Conclude(d)
          \/ cands = {} /\ PlainRoute(FALSE)
     \/ CandidateSets(task.dest.query) = {} /\ PlainRoute(FALSE)
     \/ PlainRoute(TRUE)
  /\ UNCHANGED <<status, messages, unsound, missed, amiss>>

\* _route_and_reply: the first candidate that serves, else the plain route, also
\* when a lookup fails.
Route ==
  /\ task.pc = "route"
  /\ \/ \E cands \in CandidateSets(task.dest.query) :
          LET directions == Directions(cands, task.from)
          IN IF directions = {} THEN PlainRoute(FALSE)
             ELSE \E d \in directions : Conclude(d)
     \/ CandidateSets(task.dest.query) = {} /\ PlainRoute(FALSE)
     \/ PlainRoute(TRUE)
  /\ UNCHANGED <<status, messages, unsound, missed, amiss>>

-----------------------------------------------------------------------------
\* The catalogue grows (Catalogue has the transactions).
Contribute(t) ==
  /\ \/ status[t] = "absent" /\ status' = [status EXCEPT ![t] = "pending"]
     \/ status[t] = "pending" /\ status' = [status EXCEPT ![t] = "approved"]
  /\ missed' = (task # Idle \/ destination # NoDestination)
  /\ UNCHANGED <<session, task, reply, messages, unsound, shown, amiss>>

\* The user was quiet for session_ttl_seconds.
Expire ==
  /\ task = Idle
  /\ destination # NoDestination \/ pending # <<>>
  /\ destination' = NoDestination /\ pending' = <<>>
  /\ shown' = <<>> /\ amiss' = FALSE
  /\ UNCHANGED <<status, task, reply, messages, unsound, missed>>

Texts == {Word(w) : w \in Words} \cup {Number(i) : i \in 1..MaxOptions}
           \cup {Name(Label(s)) : s \in Spots} \cup {Name(Display(s)) : s \in Spots}

Next == \/ \E w \in Words, o \in {Nothing} \cup {Word(v) : v \in Words} : Ask(w, o)
        \/ \E text \in Texts : Answer(text)
        \/ \E s \in Sites : Share(s)
        \/ Empty \/ Cancel \/ Raise
        \/ LookupCorridor \/ LookupAnchor \/ Geocode \/ ResolveOrigin \/ Route
        \/ \E t \in Trips : Contribute(t)
        \/ Expire

Spec == Init /\ [][Next]_vars

-----------------------------------------------------------------------------
(* Properties                                                              *)

\* A reply to a starting point is given.
Directed == task.pc = "route" /\ task' = Idle

\* As near to a as trip t goes, which is filed with its last leg or without it.
Reached(t, a) == IF a \in JoinPoints(t) THEN a ELSE Last(t).to

\* Corridor directions take the user from nearby to a place of the name asked for,
\* or as near as a corridor filed short of it goes, that lies ahead, or between two
\* passthroughs of one segment, whose order is lost; and only along an approved
\* corridor.
CorridorServes ==
  [][Directed /\ reply'.kind = "corridor" =>
       LET t == reply'.trip
           a == Reached(t, reply'.to) IN
       /\ t \in Approved
       /\ task.dest.query \in Called(reply'.to)
       /\ Distance(task.from, reply'.join) <= Radius
       /\ Milestone(t, reply'.join) < Milestone(t, a) \/ Along(t, reply'.join, a)]_vars

\* Corridor directions lead to the place the user was told was found, although the
\* words are looked up again when they are made.  It may be another only if two
\* anchors share the name, if the user picked one of several of the geocoder's
\* places, or if the geocoder was asked because a lookup failed or before the
\* catalogue knew the name.
LeadsWhereTold ==
  [][Directed /\ reply'.kind = "corridor" /\ reply'.to # task.dest.at =>
       \/ \E a, b \in Anchors : a # b /\ task.dest.query \in Called(a) \cap Called(b)
       \/ task.dest.how = "pick"
       \/ task.dest.how = "geocoder" /\ missed]_vars

\* The nearest place of t is near enough and before a, or the last t has before it.
Ahead(t, s, a) ==
  /\ Boarding(t, s) # {}
  /\ \A b \in Boarding(t, s) : Milestone(t, b) < Milestone(t, Reached(t, a))

\* Nobody gets the plain route while an approved corridor that leads to the place
\* asked for could take him, or, where none does, one that passes it: the search
\* does not stop at a candidate that starts too far away or runs the other way.
ServedWhenPossible ==
  [][Directed /\ reply'.kind = "route" /\ ~reply'.failed =>
       LET w == task.dest.query IN
       /\ \A t \in Ending(w) : ~Ahead(t, task.from, End(t))
       /\ \A a \in Named(w) : Ending(w) = {} /\ Named(w) = {a} =>
            \A t \in Containing(a) : ~Ahead(t, task.from, a)]_vars

\* The number of an option picks that place from the list shown last, its label a
\* place shown under that name if it is the whole name or its first part; and
\* nothing is picked but from the list shown last, which any other reply withdraws
\* except the refusal of an empty message.  Unless a message since was not handled
\* soundly: a list may then outlive its withdrawal, be dead while it is the last
\* thing the user saw, or stand unseen.  Where the user is asked there is a choice:
\* of two places at least, as many as are shown, none of them far from Abuja.
PicksAreHonoured ==
  [][/\ reply'.kind = "offer" => /\ Len(reply'.places) \in 2..MaxOptions
                                 /\ \A p \in ToSet(reply'.places) : Zone(p.at) # "far"
     /\ ~amiss' => \A text \in Texts : Answer(text) =>
         /\ destination' # destination => destination' \in ToSet(shown)
         /\ \A i \in DOMAIN shown :
              LET place == shown[i] IN
              /\ text = Number(i) => destination' = place
              /\ /\ text = Name(Label(place.at))
                 /\ Label(place.at) \in {Display(place.at), <<Head(Display(place.at))>>}
                 => destination' # NoDestination /\ Head(Display(destination'.at)) = Head(text.parts)]_vars
=============================================================================
