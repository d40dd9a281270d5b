-------------------------------- MODULE SignIn --------------------------------
(***************************************************************************)
(* Signing up and signing in on the web with a code sent by WhatsApp, for  *)
(* one number: the keys app/auth/otp.py keeps in Redis, the accounts table  *)
(* (app/users), and the three form handlers of app/web/routes.py that use   *)
(* them.  Each request is a task of its own; a step is what it does between *)
(* two accesses to Redis, the database or the channel.  A Redis error is   *)
(* not caught here, so a request may die at every step.                    *)
(*                                                                         *)
(* Codes are numbered in the order they are issued: that two random codes  *)
(* coincide is left out.  Time is counted in ticks of Redis's clock.       *)
(***************************************************************************)
EXTENDS Naturals, FiniteSets

CONSTANTS Requests,      \* requests that may be in progress at once
          MaxAttempts,   \* MAX_ATTEMPTS
          CodeTtl,       \* OTP_TTL_SECONDS, in ticks
          Cooldown,      \* RESEND_COOLDOWN_SECONDS, in ticks
          MaxRequests    \* bound: requests made

ASSUME SignInAssumption ==
  /\ MaxAttempts \in Nat \ {0}
  /\ CodeTtl \in Nat \ {0}
  /\ Cooldown \in Nat \ {0}
  /\ MaxRequests \in Nat

Kinds == {"signup", "login"}

VARIABLES code,       \* otp:{kind}, NoCode when absent
          life,       \* ticks until it expires
          attempts,   \* otp_attempts:{kind}, 0 when absent; it has no expiry
          cooling,    \* otp_cooldown:{kind}: ticks until it expires, 0 when absent
          account,    \* the number has a row in users
          signedIn,   \* the user's browser holds a session
          task,       \* what each request is doing
          issued,     \* codes generated so far
          requests,   \* requests made so far
          delivered,  \* codes that reached the user
          newest,     \* history: the code of each kind set last
          tries,      \* history: how often it was tried
          spent,      \* history: how often it was accepted
          expired,    \* history: it ran out
          mixed       \* history: requests of the kind overlapped since it was set

redis == <<code, life, attempts, cooling>>
web == <<account, signedIn>>
history == <<newest, tries, spent, expired, mixed>>
vars == <<redis, web, task, issued, requests, delivered, history>>

NoCode == 0

\* "code" is the code issued, or the one submitted (NoCode for a wrong guess);
\* "stored" the one verify read.
NoTask == [pc |-> "none", kind |-> "login", code |-> NoCode, stored |-> NoCode]

Running(r) == task[r].pc # "none"

At(r, l) == task[r].pc = l

Go(r, l) == task' = [task EXCEPT ![r].pc = l]

End(r) == task' = [task EXCEPT ![r] = NoTask]

Overlap(r, k) == \E q \in Requests \ {r} : Running(q) /\ task[q].kind = k

-----------------------------------------------------------------------------
Init == /\ code = [k \in Kinds |-> NoCode]
        /\ life = [k \in Kinds |-> 0]
        /\ attempts = [k \in Kinds |-> 0]
        /\ cooling = [k \in Kinds |-> 0]
        /\ account \in BOOLEAN
        /\ signedIn = FALSE
        /\ task = [r \in Requests |-> NoTask]
        /\ issued = 0 /\ requests = 0
        /\ delivered = {}
        /\ newest = [k \in Kinds |-> NoCode]
        /\ tries = [k \in Kinds |-> 0]
        /\ spent = [k \in Kinds |-> 0]
        /\ expired = [k \in Kinds |-> FALSE]
        /\ mixed = [k \in Kinds |-> FALSE]

\* A request of kind k starts at label l.
Open(r, k, l, c) ==
  /\ ~Running(r)
  /\ requests < MaxRequests
  /\ requests' = requests + 1
  /\ task' = [task EXCEPT ![r] = [pc |-> l, kind |-> k, code |-> c, stored |-> NoCode]]

\* Mutant: the login form does not look the number up.
AskCodeUnknown(r, k) ==
  /\ Open(r, k, "check", NoCode)
  /\ mixed' = [mixed EXCEPT ![k] = @ \/ Overlap(r, k)]
  /\ UNCHANGED <<redis, web, issued, delivered, newest, tries, spent, expired>>

\* The signup form, or the login form with a number that has an account.
AskCode(r, k) ==
  /\ k = "login" => account
  /\ Open(r, k, "check", NoCode)
  /\ mixed' = [mixed EXCEPT ![k] = @ \/ Overlap(r, k)]
  /\ UNCHANGED <<redis, web, issued, delivered, newest, tries, spent, expired>>

\* otp.issue, one Redis call after the other.  Within the cooldown: turned down.
CheckCooldown(r) ==
  /\ At(r, "check")
  /\ IF cooling[task[r].kind] > 0 THEN End(r) ELSE Go(r, "set")
  /\ UNCHANGED <<redis, web, issued, requests, delivered, history>>

\* Mutant: the code is set without an expiry.
SetCodeForGood(r) ==
  LET k == task[r].kind IN
  /\ At(r, "set")
  /\ issued' = issued + 1
  /\ code' = [code EXCEPT ![k] = issued + 1]
  /\ life' = [life EXCEPT ![k] = 0]
  /\ task' = [task EXCEPT ![r].pc = "reset", ![r].code = issued + 1]
  /\ newest' = [newest EXCEPT ![k] = issued + 1]
  /\ tries' = [tries EXCEPT ![k] = 0]
  /\ spent' = [spent EXCEPT ![k] = 0]
  /\ expired' = [expired EXCEPT ![k] = FALSE]
  /\ mixed' = [mixed EXCEPT ![k] = Overlap(r, k)]
  /\ UNCHANGED <<attempts, cooling, web, requests, delivered>>

SetCode(r) ==
  LET k == task[r].kind IN
  /\ At(r, "set")
  /\ issued' = issued + 1
  /\ code' = [code EXCEPT ![k] = issued + 1]
  /\ life' = [life EXCEPT ![k] = CodeTtl]
  /\ task' = [task EXCEPT ![r].pc = "reset", ![r].code = issued + 1]
  /\ newest' = [newest EXCEPT ![k] = issued + 1]
  /\ tries' = [tries EXCEPT ![k] = 0]
  /\ spent' = [spent EXCEPT ![k] = 0]
  /\ expired' = [expired EXCEPT ![k] = FALSE]
  /\ mixed' = [mixed EXCEPT ![k] = Overlap(r, k)]
  /\ UNCHANGED <<attempts, cooling, web, requests, delivered>>

\* Mutant: the attempts at the previous code are kept.
ResetNothing(r) ==
  /\ At(r, "reset")
  /\ Go(r, "cool")
  /\ UNCHANGED <<redis, web, issued, requests, delivered, history>>

ResetAttempts(r) ==
  /\ At(r, "reset")
  /\ attempts' = [attempts EXCEPT ![task[r].kind] = 0]
  /\ Go(r, "cool")
  /\ UNCHANGED <<code, life, cooling, web, issued, requests, delivered, history>>

SetCooldown(r) ==
  /\ At(r, "cool")
  /\ cooling' = [cooling EXCEPT ![task[r].kind] = Cooldown]
  /\ Go(r, "send")
  /\ UNCHANGED <<code, life, attempts, web, issued, requests, delivered, history>>

\* sender.send_otp is best effort.
Send(r) ==
  /\ At(r, "send")
  /\ delivered' \in {delivered, delivered \cup {task[r].code}}
  /\ End(r)
  /\ UNCHANGED <<redis, web, issued, requests, history>>

-----------------------------------------------------------------------------
\* The verify form, with a code the user was sent or a wrong guess.
Submit(r, k) ==
  /\ \E c \in delivered \cup {NoCode} : Open(r, k, "get", c)
  /\ mixed' = [mixed EXCEPT ![k] = @ \/ Overlap(r, k)]
  /\ UNCHANGED <<redis, web, issued, delivered, newest, tries, spent, expired>>

\* otp.verify: no code, no match.
GetCode(r) ==
  LET k == task[r].kind IN
  /\ At(r, "get")
  /\ IF code[k] = NoCode
     THEN End(r)
     ELSE task' = [task EXCEPT ![r].pc = "count", ![r].stored = code[k]]
  /\ UNCHANGED <<redis, web, issued, requests, delivered, history>>

\* Mutant: a wrong guess evicts the code.
CountStrictly(r) ==
  LET k == task[r].kind IN
  /\ At(r, "count")
  /\ attempts' = [attempts EXCEPT ![k] = @ + 1]
  /\ tries' = [tries EXCEPT ![k] = @ + 1]
  /\ Go(r, IF attempts[k] < MaxAttempts /\ task[r].code = task[r].stored THEN "spend" ELSE "evict")
  /\ UNCHANGED <<code, life, cooling, web, issued, requests, delivered, newest, spent, expired, mixed>>

\* The attempt is counted; then too many, wrong, or right.
Count(r) ==
  LET k == task[r].kind IN
  /\ At(r, "count")
  /\ attempts' = [attempts EXCEPT ![k] = @ + 1]
  /\ tries' = [tries EXCEPT ![k] = @ + 1]
  /\ \/ attempts[k] >= MaxAttempts /\ Go(r, "evict")
     \/ attempts[k] < MaxAttempts /\ task[r].code # task[r].stored /\ End(r)
     \/ attempts[k] < MaxAttempts /\ task[r].code = task[r].stored /\ Go(r, "spend")
  /\ UNCHANGED <<code, life, cooling, web, issued, requests, delivered, newest, spent, expired, mixed>>

DeleteCode(k) == /\ code' = [code EXCEPT ![k] = NoCode]
                 /\ life' = [life EXCEPT ![k] = 0]

EvictCode(r) ==
  /\ At(r, "evict")
  /\ DeleteCode(task[r].kind)
  /\ Go(r, "forget")
  /\ UNCHANGED <<attempts, cooling, web, issued, requests, delivered, history>>

\* Mutant: an accepted code stays.
SpendNothing(r) ==
  /\ At(r, "spend")
  /\ spent' = [spent EXCEPT ![task[r].kind] = IF task[r].code = newest[task[r].kind] THEN @ + 1 ELSE @]
  /\ Go(r, "settle")
  /\ UNCHANGED <<redis, web, issued, requests, delivered, newest, tries, expired, mixed>>

SpendCode(r) ==
  /\ At(r, "spend")
  /\ DeleteCode(task[r].kind)
  /\ spent' = [spent EXCEPT ![task[r].kind] = IF task[r].code = newest[task[r].kind] THEN @ + 1 ELSE @]
  /\ Go(r, "settle")
  /\ UNCHANGED <<attempts, cooling, web, issued, requests, delivered, newest, tries, expired, mixed>>

\* The attempts go too, after the code: verify is done.
DeleteAttempts(r) ==
  /\ \/ At(r, "forget") /\ End(r)
     \/ At(r, "settle") /\ Go(r, "account")
  /\ attempts' = [attempts EXCEPT ![task[r].kind] = 0]
  /\ UNCHANGED <<code, life, cooling, web, issued, requests, delivered, history>>

\* The row of the number; a login without one is turned away.
FindAccount(r) ==
  /\ At(r, "account")
  /\ \/ account /\ signedIn' = TRUE /\ End(r)
     \/ ~account /\ task[r].kind = "login" /\ UNCHANGED signedIn /\ End(r)
     \/ ~account /\ task[r].kind = "signup" /\ UNCHANGED signedIn /\ Go(r, "create")
  /\ UNCHANGED <<redis, account, issued, requests, delivered, history>>

\* The insert fails if another request committed the row meanwhile.
CreateAccount(r) ==
  /\ At(r, "create")
  /\ account' = TRUE
  /\ signedIn' = (signedIn \/ ~account)
  /\ End(r)
  /\ UNCHANGED <<redis, issued, requests, delivered, history>>

-----------------------------------------------------------------------------
Logout ==
  /\ signedIn
  /\ signedIn' = FALSE
  /\ UNCHANGED <<redis, account, task, issued, requests, delivered, history>>

\* An uncaught error, or the server going down.
Die(r) ==
  /\ Running(r)
  /\ End(r)
  /\ UNCHANGED <<redis, web, issued, requests, delivered, history>>

\* Redis's clock.
Tick ==
  /\ \E k \in Kinds : life[k] > 0 \/ cooling[k] > 0
  /\ life' = [k \in Kinds |-> IF life[k] > 0 THEN life[k] - 1 ELSE 0]
  /\ cooling' = [k \in Kinds |-> IF cooling[k] > 0 THEN cooling[k] - 1 ELSE 0]
  /\ code' = [k \in Kinds |-> IF life[k] = 1 THEN NoCode ELSE code[k]]
  /\ expired' = [k \in Kinds |-> expired[k] \/ life[k] = 1]
  /\ UNCHANGED <<attempts, web, task, issued, requests, delivered, newest, tries, spent, mixed>>

Step(r) == \/ CheckCooldown(r) \/ SetCode(r) \/ ResetAttempts(r) \/ SetCooldown(r) \/ Send(r)
           \/ GetCode(r) \/ Count(r) \/ EvictCode(r) \/ SpendCode(r) \/ DeleteAttempts(r)
           \/ FindAccount(r) \/ CreateAccount(r)

Next == \/ \E r \in Requests : \/ \E k \in Kinds : AskCode(r, k) \/ Submit(r, k)
                               \/ Step(r) \/ Die(r)
        \/ Logout \/ Tick

Spec == Init /\ [][Next]_vars

-----------------------------------------------------------------------------
(* Properties                                                              *)

\* Every key keeps its type, and a code is never stored without an expiry.
TypeOK ==
  /\ code \in [Kinds -> 0..issued]
  /\ life \in [Kinds -> 0..CodeTtl]
  /\ \A k \in Kinds : code[k] = NoCode <=> life[k] = 0
  /\ attempts \in [Kinds -> Nat]
  /\ cooling \in [Kinds -> 0..Cooldown]
  /\ account \in BOOLEAN /\ signedIn \in BOOLEAN
  /\ delivered \subseteq 1..issued
  /\ newest \in [Kinds -> 0..issued]

\* The user has the code of the kind that was set last, it was not used and did not
\* run out, and no two requests of the kind have overlapped since.
Usable(k) == ~mixed[k] /\ newest[k] \in delivered /\ ~expired[k] /\ spent[k] = 0

\* A code the user holds works: tried fewer than three times it is the one stored
\* and the next try with it is accepted, whichever requests died before or after it
\* was sent.
FreshCodeWorks ==
  \A k \in Kinds :
    Usable(k) /\ tries[k] < MaxAttempts => code[k] = newest[k] /\ attempts[k] < MaxAttempts

\* "A successful verify or three failures evicts the code" (otp.py:4; also 79-80):
\* once as many tries at a code are over, it is stored no more.  Not so: verify
\* deletes it only at the try after, so it stays till then or until it runs out.
ThreeFailuresEvict ==
  \A k \in Kinds :
    /\ ~mixed[k] /\ newest[k] # NoCode /\ tries[k] >= MaxAttempts
    /\ \A r \in Requests : ~Running(r)
    => code[k] # newest[k]

\* ... and the attempts held against it are its own, none of an earlier code's:
\* issue sets the code before it deletes the attempts, and may die in between.
CountIsOfThisCode ==
  \A k \in Kinds : Usable(k) /\ code[k] = newest[k] => attempts[k] = tries[k]

\* "A successful match clears the code (single-use)" (otp.py:79), as long as the
\* requests of its kind do not overlap.
SingleUse ==
  \A k \in Kinds : ~mixed[k] => spent[k] <= 1

\* An accepted code is of use: a login finds its account, codes being sent only to
\* numbers that have one, and the insert a signup makes after finding none fails only
\* when requests of the kind have overlapped.
AcceptedCodeServes ==
  /\ \A r \in Requests : At(r, "account") /\ task[r].kind = "login" => account
  /\ \A r \in Requests : At(r, "create") /\ account => mixed[task[r].kind]
=============================================================================
