# Verification of the WhatsApp Navigation Assistant

TLA+ models of the bot that answers direction requests on WhatsApp from
crowd-sourced transport corridors, TLC configurations that check them on small
instances, and proofs checked by TLAPS. The models follow `app/`; line numbers
are in `PROJECT.json` (`map`).

## 1. The system

| Part | State | Operations | Interacts with |
|---|---|---|---|
| Webhook and channels (`main.py`, `channel/`) | none | verify, parse, start one background task per message, send | orchestrator |
| Abuse limits (`abuse/limits.py`) | three Redis key families per number: hour and day counters, one cooldown key per text | `check_and_record`, `is_duplicate` | called first by every task |
| Session store (`session/`) | one JSON session per user in Redis with a TTL | `get`, `put`, `delete`; failures only logged | orchestrator, recording |
| Orchestrator (`flows/orchestrator.py`) | a copy of the session while a task runs | `handle`: pending choice, location, cancel, end, recording, start, direction, free text | all below |
| Trip recording (`flows/recording.py`) | `RecordingState`, nine stages | `start`, `handle`, `end_recording`, the stage handlers, `_submit` | store, submission |
| Corridor submission (`corridors/submission.py`) | anchors, corridors, segments (PostgreSQL) | `cross_validate`, `create_pending` with `upsert_anchor` | recorder, web form |
| Seed loader (`corridors/seed.py`) | the same tables | `load_file` | run at deployment |
| Admin review (`corridors/admin.py`) | the same tables | `approve`, `reject`, `update_anchor_coords` | web console |
| Corridor reply (`corridors/repository.py`, `formatting/responses.py`) | none (reads approved corridors) | find, clip, group into steps | orchestrator |
| Sign-in (`auth/otp.py`, `auth/session.py`, `users/`) | Redis: code, attempts and resend cooldown, per number and kind of form; signed cookie; users table | signup, login, verify, logout; `issue`, `verify` | web pages |
| Intent detector, geocoder, router | none | classify, look up | orchestrator |
| Analytics, configuration, migrations | none / schema | | |

What is hard here, and which property is for it, is the list `hazards` of
`PROJECT.json`. In short:

* **Concurrency.** `main.py` starts a task per message and never orders them; a
  handler reads the whole session once and writes the whole session back. Two
  messages of one user overlap at every `await`.
* **Long dialogues.** A trip recording takes dozens of messages; legs and
  anchors are two lists paired only by position, and a trip ends in several ways.
* **Partial failure.** Store and abuse checks swallow Redis errors; a corridor
  is committed before the recording is cleared; INCR and EXPIRE are two calls.
* **Stale reads.** A SQLAlchemy session keeps the rows it loaded while another
  transaction commits: aliases, pins and statuses are read, then written. The
  destination's words are looked up again when the reply is made.
* **Silence.** A re-tapped text is dropped without a word, by its text alone,
  whatever was said in between.

## 2. The modules

| Module | Models | State and actions |
|---|---|---|
| `Contribution` | abstract: what a contributor is promised by the recorder | `phase`, `trail`, `filed`; Begin, Pin, File, Drop |
| `Recording` | `flows/recording.py`, and `cross_validate` for what it submits | one variable per field of `RecordingState`, `filed` for the corridors created; one action per stage handler, five for the cases of `end_recording` |
| `RecordingProofs` | theorems about `Recording` | |
| `Conversation` | `flows/orchestrator.py` over `session/store.py`, any number of overlapping handlers | `store`, and per handler a program counter, its message and its copy of the session; one action per stretch between two accesses to something shared |
| `ConversationProofs` | theorems about `Conversation` | |
| `Intake` | `Conversation` behind `is_duplicate` and the limits: the composition of the two | besides `Conversation`'s, the tasks still at the abuse checks, their texts, the cooldown keys; Arrive, Refuse, Ignore, TakeOn, FailOpen, Tick |
| `IntakeProofs` | theorems about `Intake` | |
| `AbuseLimits` | `abuse/limits.py`, any number of tasks of one number | the two counters and the cooldown keys with their remaining lifetime; one action per Redis call, and `Tick`, Redis's clock |
| `AbuseLimitsProofs` | theorems about `AbuseLimits` | |
| `SignIn` | `auth/otp.py`, the signup, login, verify and logout forms of `web/routes.py`, the accounts table; any number of requests of one number | the Redis keys of both kinds with their lifetimes, the account, the browser's session, what each request is doing; one action per access to Redis, the database or the channel, `Die` and `Tick` |
| `SignInProofs` | theorems about `SignIn` | |
| `Catalogue` | `submission.py`, `seed.py`, `admin.py` as transactions | `anchors`, `corridors`, and per worker the rows its session has loaded (`orig`) and changed (`mine`) |
| `CatalogueProofs` | theorems about `Catalogue` | |
| `Enumerations` | the positions a loop over a sequence collects, in order (`_build_segments`, `_group_runs`) | one operator |
| `EnumerationsProofs` | lemmas about natural numbers, sequences, `FlattenSeq` and `InOrder` that the other proofs cite | |
| `Clipping` | `repository.py`: the places of a corridor and the two clipping functions | operators only |
| `Guidance` | resolving the words for a destination and a starting point, picking one of several places, and choosing the corridor a reply is made of, while the catalogue grows | `destination` and `pending` as stored, the message being handled with the destination it holds, each corridor's status; one action per kind of message and per lookup, and `Raise`, an uncaught error |
| `Riding` | `responses.py` steps over `Clipping`, and a rider who follows them | the corridor's `segments` and `destination`, the rider's place, the remaining `steps` |
| `RidingProofs` | theorems about `Riding`, and what the operators of `Clipping` return | |
| `MC...` | the small instances | |

`Conversation` uses a recording the way `Contribution` describes one (so many
answers, then a review); `Recording` is shown to implement `Contribution`.
`Intake` extends `Conversation` and takes over the starting of its handlers: a
message becomes a `Receive` only when the abuse checks let it through. Of
`AbuseLimits` it has the cooldown keys; the counters are there as `Refuse`, which
may turn any message down. `Catalogue` starts from submissions that are valid
(what `Recording`'s `Confirm` files, or the web form), and `Riding` from corridors
as the recorder makes them. `Riding` and `Guidance` share `Clipping`: `Guidance`
says which corridor is boarded where, `Riding` that the steps then lead there. Both
also have the corridors that `recording_final_leg` (below) shows are filed: their
`destination` lies one place past their last segment.

### Abstractions, by module

* **Recording.** A name is one of a few texts, with `Strip` and `Lower` for
  `_strip_anchor_prefix` and `str.lower`. Coordinates, times, mode and fare are
  dropped; a leg carries instead the position where it was described, which
  the code does not store: it is there to state that the leg ends on the right
  segment. A message a stage cannot use writes nothing, and is a stuttering step. `Long`
  are the names over the 120 characters `AnchorInput` allows.
* **Conversation.** The kind of a message is free (the intent detector has no
  state). Geocoding, routing and corridor lookups are free choices among what
  the code distinguishes. No handler ever assigns `session.origin`, so it is
  left out. Sending succeeds or raises; a failing Redis call is a call without
  effect, as the store catches the exception. A task that died of an uncaught
  error is at "raised". A message of kind "empty" has neither text nor location. `clean` is history: no two handlers have overlapped and
  no write was lost so far.
* **Intake.** A message of `Taps` has one text, so two of its kind and place are
  re-taps of each other. Any other message with a text is worded anew each time, and
  no key is found for it; locations and empty messages have no text. `calm` is
  history: so far only copies of one text have overlapped, none was still being
  handled when its cooldown ended, and Redis did what it was told.
* **AbuseLimits.** One number; time is in ticks. `allowed` counts the verdicts of
  messages whose hour window is still the live one. A message let through because
  Redis failed does not count: that is the documented fail-open.
* **SignIn.** One number. Codes are numbered as they are issued; that two random
  codes coincide is left out. Redis errors are not caught in this code, so a
  request may die at every step. Which code was set last and how often it was
  tried and accepted is history, kept apart for the two kinds of form, as is
  `mixed`: two requests of the kind have overlapped since the code was set.
* **Catalogue.** Any number of writers, some of which also load seed files, and of
  admins, whose moved pins are `Moves`; `MaxTxns` bounds the transactions.
  `overwritten` is history: the rows whose aliases were written back by a
  transaction that had not read the newest; so is `contested`: the corridors two
  transactions were deciding at the same time. Alias lists are sets: the code compares
  lists, one sorted, so it may also write a list back in another order. The loader
  commits once per file, where the code commits after all of them: a shorter
  transaction has more interleavings, not fewer. One city; each name has one spelling
  (exact lookups heed case, the same-place match and the aliases do not; the
  instances have no two names that differ in case only);
  "near", "token overlap" and "synonym" are relations given as constants.
  Writing at commit instead of at flush has the same outcomes, as the row is
  locked from the flush on and the flush only writes columns that changed.
* **Guidance.** All sites lie on one line, where distances are exact. Messages are
  handled one at a time; corridors are submitted and approved at any point. Every
  corridor lookup may fail, which the code takes for nothing found, and the geocoder
  and the router may report an error, which it replies. Besides, a message is handled
  soundly or not; in one that is not, any read, write or deletion of the session may
  fail, which is swallowed (`Reads`, `Put`), and any send, or a service in a way the
  code does not catch, may end it without a reply (`Say`, `Raise`). A destination has
  how it came about in it (`how`), `shown` has the places offered last and `amiss`
  whether a message since was not handled soundly: history, for the properties. Which of several candidates or namesakes comes first is free;
  the geocoder's ranking and its dropping of near points are left out. A label is a
  sequence of parts. A rejected corridor is one that stays pending.
* **Riding.** No distances: every place of the corridor can be the rider's
  nearest. Only what the recorder can make: segments chained, no place twice, and a
  destination that is the end of the last one or, when the last leg was dropped, a
  place of its own past it. The rider may ask for either.

## 3. What is checked

Operators whose comment begins "Mutant" are deliberate errors, kept next to the
definition they change; each property is shown to fail when its mutant replaces
that definition. They are used nowhere in the specifications.

| Run | Bounds | Shows |
|---|---|---|
| `recording` | six texts naming four places, two of them spellings of one, one with a prefix to strip; 4 anchors on the way, one more for the destination; 1 corridor | Through every dialogue: legs stay on their segments, transfer flags are the vehicle changes, the review opens exactly on arrival, sharing a location never discards the trip, answers only accumulate, a confirm fails only for a name too long or pinned twice, and the dialogue implements `Contribution` |
| `intake` | two handlers, every kind of message, one place, trips of one answer, 4 messages; confirm and cancel may be re-tapped, within a cooldown of one tick; Redis, sending and the map services may fail | however handlers overlap: a recording never coexists with a pending destination, each message gets one reply, no handler is without a next step. While none overlapped and no write was lost: a cancelled recording stays cancelled, a trip is filed once, no answer is lost. A text tapped twice is handled once at a time and its trip filed once; a cancel that is neither refused nor taken for a re-tap leaves no recording |
| `limits` | 2 tasks, 4 messages, 1 an hour, 2 a day, windows of 2 and 3 ticks; INCR and SET may fail | at most the cap is let through per window, a re-tap is dropped, a blocked number is served again |
| `catalogue` | two writers, one of them also the loader, two admins, 5 transactions; four names, three pins (two near), three submissions, one seed file | a name a contributor used resolves unless an alias list was overwritten, contributions never move a pin, a decision stands unless another on the same corridor was under way with it, seeding is idempotent |
| `signin` | two requests, two attempts, codes living two ticks, a cooldown of one, 4 requests | the next try with a code that arrived is accepted until it was used, expired, was replaced or tried as often as allowed; the attempts counted are its own; it is accepted once unless requests of its kind overlapped; an accepted login has an account, and an accepted signup finds one in its way only if requests overlapped |
| `guidance` | three corridors over four anchors, two of one name, one filed short of its destination; five places of the geocoder, three words, one expanded to another's; 3 messages, one of them not handled soundly; two options, labels of two parts | directions board nearby, lead ahead, and to the place the user was told, with the exceptions named in `LeadsWhereTold`; no corridor that could serve is passed over; picks come from the list shown last |
| `riding` | 6 places, 2 modes, 3 segments with at most 2 passthroughs, filed short or not | every step is one ride along the corridor from where the rider is, and the last gets him to the place asked for or as far as the corridor goes; a refusal means the place is behind, vehicle changes are the contributor's, no step leads back except within one segment |

Why these bounds are enough to be interesting:

* Four anchors and a destination let a trip have landmarks and two transfers, an
  "end" at every stage, and both spellings of the destination pinned. The pairing
  of legs with segments depends on neighbouring anchors only, and the theorems
  below remove the bound.
* Two handlers suffice for a read-modify-write race, and four messages for
  start, answer, confirm and one intruder. A second place is
  only needed to tell one request from the next: `conversation_reask` has two.
* Two messages make a re-tap, and four are the start, the answer and both taps of a
  confirm; one tick of cooldown can end before, during and after a handler. The two
  handlers are interchangeable, hence the symmetry. There is no run of `Conversation`
  alone but `conversation_reask`: since a limit may turn any message down, and a Redis
  error lets any through, `intake` has every behaviour of it with four messages, and
  its properties are checked there.
* Two tasks and an hourly limit of one make the second message of a burst the
  first over the limit. The day window outlives the hour window, as in the code,
  and four messages reach both limits.
* Five transactions let a seed meet its second loading, a submission meet a
  merged, a moved and a re-aliased anchor, two submissions overlap on one anchor,
  and two admins decide about one corridor.
* With two attempts the third is the one too many; two ticks let the cooldown end
  before the code does; four requests are a code and three tries, or two codes and a
  try at each. `signin_tries` has the code's own three attempts and one request at a
  time, so that nothing overlaps.
* Three corridors give a word the three ways it can be served (ending there,
  passing it, ending at its namesake), and a rider who is near two of them; three
  messages are a request, a pick or an empty message, and a location or a second
  pick. One unsound message is enough to leave a list standing or dead: it is the
  list's own, or one that should withdraw it.
* Three segments allow a run of two and a change in either order; two
  passthroughs allow joining and leaving within one segment.

`recording*` and `riding` check deadlock. The others do not: the user may send no
more, or the bound on messages, requests or transactions is reached.

### Fairness

`AbuseLimits` assumes weak fairness of each task's steps: the event loop runs every
task, and every `await` in it returns or raises (the HTTP clients have timeouts, a
lost connection raises). It assumes too that Redis's clock ticks. Nothing is assumed
of users: they need not write. The other modules make no liveness claim and assume no
fairness: what they have to reach waits for a person. That a handler of `Conversation`
ends is two facts of safety, that it is never without a next step (`NeverStuck`) and
that no step leads back (`StepsAdvance`); under the same fairness it ends.

### Where the code differs from what is said of it

Each is a run TLC refutes, and an entry of `findings`:

1. `recording_final_leg`: "end" at a transfer question. The code says the final
   leg is already there; it is not, and the corridor filed ends one place short.
   This is why `Contribution`'s `File` may stop one place early.
2. `conversation_reask`: after a second destination that is ambiguous or not
   found, a location is routed to the first one.
3. `limits_stuck`: EXPIRE failing after INCR leaves a counter for ever. (This is
   why `limits` lets only the other calls fail.)
4. `catalogue_seed`: loading the seed files again overwrites pins that admins or
   contributors set.
5. `signin_tries`: "three failures evict the code" (`otp.py:4`, `79-80`, and a comment
   in `tests/unit/test_auth_otp.py:51`). After three wrong tries the code is still
   stored; the fourth try is refused and evicts it. The test cannot tell, as it makes
   that fourth try. `FreshCodeWorks` therefore speaks of codes tried fewer times.

`RoutesToLastAsked` (2) is about a session that did not expire while the message was
handled, without which there would be nothing to remember.

Others have no run of their own; the models have the behaviour, and the properties
name it as their exception:

* With handlers overlapping, a handler still running puts a cancelled recording
  back (`phase-3b-live-trip-recording.md:113`), a trip may be filed twice and an
  answer lost: hence `clean` in the properties of `Conversation`, and `calm` in
  those of `Intake`.
* "cancel at any point" (the same line) is not heard if it was also said within the
  cooldown: after cancel, start, cancel the recording stays (`CancelHeededIfServed`
  leaves out just this case).
* Between two passthroughs of one segment the wrong direction is not noticed,
  although `repository.py:191-192` promises no directions then (`NoWayBack`).
* Two submissions that touch one anchor: the later write drops the other's alias
  (`NamesResolve`). Two admins who decide about a corridor at the same time: the later
  decision wins (`DecisionStands`).
* A corridor filed short of its destination is announced by that destination's name
  ("To ...:", `responses.py:87-88`), while its last step ends at the place before
  (`StepsAreRides`); the rider who is at that place already is refused the corridor
  (`ServedWhenAhead`).
* A choice of places is withdrawn by what is written to the session, not by what is
  replied: an empty message (a voice note, say) leaves it open, a write that fails
  leaves an old one open or a new one unknown, and an uncaught error of the geocoder
  leaves the user looking at one that is gone (`PicksAreHonoured`, `amiss`).
* An option shown with a label of several parts is not understood when typed back,
  although `orchestrator.py:129-131` says an option label is a pick: 546-555
  compares with the full name and with its first part (`PicksAreHonoured`).
* For a starting point that the geocoder finds several times, the first is taken
  (`orchestrator.py:315`); `docs/architecture.md:48` says "Never guess silently".
* A place picked among the geocoder's is stored with the expanded query, so that
  corridor directions may lead to an anchor of that name instead (`LeadsWhereTold`).
* Two overlapping verifications of one code both accept it (`SingleUse`), and of two
  signups so accepted the second fails at the insert (`AcceptedCodeServes`). `otp_attempts` has no
  expiry, although `docs/architecture.md:50` asks for one on everything; a request
  that dies can so leave a count behind, but `issue` deletes it in time
  (`CountIsOfThisCode`).

## 4. What is proved

Every theorem is for all values of the constants under the named assumptions of
its module. `RecordingAssumption`, `ConversationAssumption`, `SignInAssumption`,
`IntakeAssumption` and `RidingAssumption` state the types of the constants, that
`None` (or `Nowhere`) is not a name or a place, and that limits and lifetimes are
positive; `AbuseLimitsAssumption` adds that there are finitely many tasks at a time,
so that they can be counted. `CatalogueAssumption` adds that writers and admins are
different workers, and that submissions and seed files refer to their own stops only,
which `cross_validate` and `load_file` refuse otherwise. It says nothing of the
relations "near", "overlaps" and "synonym": the theorems hold whatever the matching
finds alike.

**Recording.** The invariant is `TypeOK`, `StageInv`, `LegsInOrder`,
`TransfersAreChanges` and `ReviewOnArrival` together. `StageInv` is what
makes it inductive: it says for each stage which change points still have no
leg (none or the last anchor, and at the confirmation possibly the last two) and
which names are set. Without it a pending leg could be promoted behind a change
point with no leg, and nothing would relate the flag of the next leg to the
number of legs. From it: `TypeCorrect`, `StagesCorrect`, `LegsCorrect`
(`LegsOnTheirSegments`), `TransfersCorrect`, `ReviewCorrect`, and the action property
`CaptureGrows`.

What is filed depends on `BuildSegments`, whose ends are collected by a loop
(`InOrder`), and on `FlattenSeq`. `EnumerationsProofs` says what they return:
`InOrderLists` that the list is increasing and has exactly the positions meant,
`FlattenSteps` that flattening is appending one by one. With it `PinningKeeps` (two
ends and a leg make a segment), `ReviewFileable` (as many legs as segments, two ends
that differ, no end among the landmarks) and `ContributionKept`, the refinement of
`Contribution`. The abstract trail is the walk through the segments built so far:
`WalkIsPath` shows it is the sequence of the names pinned, so pinning a place
appends to it, turning the last place into a landmark leaves it alone, and filing
takes all of it or all but the last place. Its invariant (`RInv`) adds that the first
anchor is no landmark (`OriginInv`), without which the walk would have no beginning.

**Catalogue.** `TypeCorrect`, `NamesCorrect`, `PinsKept`, `DecisionsFinal`, and, when
there is one loader, `SeededCorrect`. `DecisionsFinal` (`DecisionStands`) rests on
`Settled`: where no two decisions of a corridor were ever under way at once, one that
read it as pending still finds it so. What a transaction commits is what it read some
time ago; the invariant is what it may still rely on then. Rows are never
removed, so a row it matched is still there, and the names it matched a stop under are
in its own copy of the row (`Matched`); what it has not changed it will not write, and
a row it creates was absent when it looked (`Tracked`), so the unique constraint
catches it if another came first. At commit every name is an alias of its row, or the
row is counted as overwritten (`NamesCorrect`). `CorridorsInv` keeps stored corridors
on existing rows. For seeding, `AbsentInv`: a loader that found no corridor of its
destination is right until it commits, because only a loader adds one.

**Riding.** `StepsCorrect`, `ServedCorrect`, `ChangesCorrect` and the action property
`NeverBack`, for corridors of any number of segments, each with any number of
passthroughs. `RoadHasMarks` gives every segment the milestone at which it starts;
since no place comes twice, a place has one milestone (`MilestoneIs`), and the
passthroughs of a segment lie strictly between its ends (`Places`). What is refused
then has its milestone behind the rider (`ClipServes`), and the steps of what is not
are a `Journey`: they start and end where they should, meet where the contributor
changed, and each is a `Ride` (`StepsAreJourney`, from `NoChange`: no vehicle is changed
between two places where steps start), which leads `Forward` (`RideForward`). The invariant carries over to the steps
still to be followed what a `Journey` says of all of them, and that what is drawn is a
road: linked, and no place twice (`RoadOf`); a filed one's destination is its end or
lies on none of its segments (`Filed`).

**Conversation.** For any number of handlers, places and messages, with and
without failures: `TypeCorrect`, `ModesCorrect` (`ModesExclusive`) and
`ReplyCorrect` (`OneReply`). `ModesExclusive` of the store is not inductive: a
handler may write a stale copy at any time. The invariant says it of every
handler's copy too, and adds what each program counter implies about the copy:
at `dispatch` no choice is pending, at `capture`, `submit` and `close` there is
a recording. `StepsAdvance`: every step of a handler takes it to a later stage.

`CancelCorrect`, `FilingCorrect` and `AnswersCorrect` are about `clean` behaviours.
Their invariant (`CleanInv`) says that while `clean`, at most one handler is
running, and that its copy of the recording is the stored one or the stored one
has expired; a trip in the store, or in the copy of a handler that may still write
it, is neither filed nor cancelled and holds every answer given for it; and only at
`close` is the stored trip one that was just filed.

**Intake.** Every step is one of `Conversation` or leaves its variables alone
(`IntakeRunsConversation`), so what is proved of it carries over. `RetapsCorrect`: while `calm`, tasks that overlap have
one text, and the key of a text being handled is alive (`TapsInv`), hence a copy
that reaches the cooldown check is ignored, handlers do not overlap, `calm` implies
`clean`, and `FiledOnce` applies. `CancelServed`: if a cancel arrived last
and none of its copies was turned away, the recording is gone or some copy still
has the deletion ahead of it (`Heeding`); all tasks under way have its text
(`AllLast`), so none of them writes a recording (`CancelPath`).

**AbuseLimits.** `TypeCorrect`, `CapCorrect` and `RetapCorrect`. A task that
counted itself at most the limit but has no verdict yet will be let through
whatever happens: `allowed` plus the number of such tasks (`Pending`) never
exceeds the limit, nor the counter. For re-taps: a text was handled at most once
since its key was set, and not at all when there is no key.

**SignIn.** `TypeCorrect`, `AcceptedCorrect` (`AcceptedCodeServes`), `SingleUseCorrect`, `FreshCodeCorrect`
and `CountCorrect`, for any number of requests that overlap and die anywhere. The
invariant says what a request has done by the step it is at (`TaskInv`), as long as
no two of its kind overlapped: then it is the only one of its kind (`Alone`), the
code it sends or compares is the newest, and the attempts are reset before the code
is sent. The two kinds are independent but for the account: a login code exists
only when there is an account (`LoginInv`), whatever overlaps. A signup about to insert
the row found none, and if one is there by then requests of its kind overlapped
(`CreateInv`).

**Only model-checked:** the liveness property `BlockedIsTemporary` and `NeverStuck`, which is
about `ENABLED`, neither of which the provers reach, the four properties of `Guidance`, and the five
refutations, which are about single behaviours. That a recursively defined operator computes
what it should cannot be proved by the library's induction theorems, which take an
operator as a parameter; `EnumerationsProofs` proves induction for a set of numbers
(`Induction`) and that a recursive definition over the numbers has the function it
means (`Recursion`) instead, which is enough for the operators above.

## 5. Not modelled

* Intent detection, parsing of fares and modes, formatting of texts: no state, no
  property here depends on more than which case is recognised.
* Webhook signatures, HTTP, the geocoder and the router: I/O; their outcomes are
  choices. The geocoder's ranking, and its dropping of points close to each other,
  only decide which places are offered, which is free in `Guidance`.
* Anchor search (trigram queries), cost and duration of a corridor: left to the
  database and to floating-point arithmetic.
* The web form's parsing and validation: a submission arrives in `Catalogue` as
  valid. The form can draw what the recorder cannot; `Riding` has recorder-made
  corridors only.
* Web sessions beyond what sign-in sets, the authorisation check of the admin
  pages, the admin flag and its command line.
* The session's lifetime against a leg that takes longer, and the hourly cap against
  a recording of many messages: `Expire` and `Refuse` may come at any time, the two
  windows are not composed.
* Promises nobody makes: that a session written while a reply is sent survives the
  deletion after it, that a recording survives a failing read, that every valid
  submission can be stored. The models lose them as the code does; the entries of
  `hazards` without a property say so.
* Analytics, configuration, migrations: no state of the program.

## 6. Plan

Done, in the order of what mattered most: `Recording` with `Contribution`;
`Conversation`; `AbuseLimits`; `Catalogue`, with two writers and two admins; `Riding`;
`SignIn`; `Guidance`; the name limits in `Recording`; the composition `Intake`; the
theorems of section 4. Left:

1. Proofs: the four properties of `Guidance`; `Places` and what `RidingProofs` shows
   of the clipping functions are what `CorridorServes` needs, and would move to a
   module both can use.
2. The web form's extra freedom (passthroughs and destinations `cross_validate`
   accepts but the recorder never makes), and `Riding` on such corridors.
3. `AbuseLimits`' counters in front of a whole recording, with the session's
   lifetime, to see how long a trip can be recorded at all.
