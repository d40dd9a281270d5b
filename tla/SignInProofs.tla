----------------------------- MODULE SignInProofs -----------------------------
(***************************************************************************)
(* What holds of SignIn for any number of requests, with any attempts,     *)
(* lifetimes and cooldowns, whichever requests overlap or die.             *)
(***************************************************************************)
EXTENDS SignIn, TLAPS

Labels == {"none", "check", "set", "reset", "cool", "send", "get", "count", "evict",
           "spend", "forget", "settle", "account", "create"}
Sending == {"reset", "cool", "send"}

Task == [pc : Labels, kind : Kinds, code : Nat, stored : Nat]

\* Types, and facts about the codes that need no condition: what is stored is the
\* newest code of its kind, and a code about to be sent is of its own kind only.
BasicInv ==
  /\ TypeOK
  /\ issued \in Nat /\ requests \in Nat
  /\ task \in [Requests -> Task]
  /\ tries \in [Kinds -> Nat] /\ spent \in [Kinds -> Nat]
  /\ expired \in [Kinds -> BOOLEAN] /\ mixed \in [Kinds -> BOOLEAN]
  /\ \A k \in Kinds : code[k] \in {NoCode, newest[k]}
  /\ \A r \in Requests : task[r].pc \in Sending =>
       /\ task[r].code \in 1..issued
       /\ \A j \in Kinds \ {task[r].kind} : task[r].code # newest[j]

\* A login code is only ever stored, and handled, when there is an account.
LoginInv ==
  /\ code["login"] # NoCode => account
  /\ \A r \in Requests : task[r].kind = "login" /\ task[r].pc \notin {"none", "get"} => account

\* While no two requests of kind k have overlapped, one at most is running ...
Alone(k) ==
  \A r, q \in Requests :
    Running(r) /\ Running(q) /\ task[r].kind = k /\ task[q].kind = k => r = q

\* ... the code is as good as the user's tries left it ...
CodeInv(k) ==
  /\ code[k] # NoCode => spent[k] = 0
  /\ spent[k] <= 1
  /\ Usable(k) /\ tries[k] <= MaxAttempts => code[k] = newest[k]
  /\ Usable(k) /\ code[k] = newest[k] => attempts[k] = tries[k]

\* ... and this is what that request has done so far.
TaskInv(t) ==
  LET k == t.kind IN
  ~mixed[k] =>
    /\ t.pc \in Sending =>
         /\ t.code = newest[k] /\ newest[k] \notin delivered
         /\ tries[k] = 0 /\ spent[k] = 0
         /\ expired[k] \/ code[k] = newest[k]
    /\ t.pc \in {"cool", "send"} => attempts[k] = 0
    /\ t.pc \in {"count", "spend"} => t.stored = newest[k] /\ spent[k] = 0
    /\ t.pc = "spend" => t.code = t.stored
    /\ t.pc = "evict" /\ Usable(k) => tries[k] > MaxAttempts
    /\ t.pc = "forget" /\ Usable(k) => code[k] # newest[k]
    /\ t.pc = "settle" => spent[k] # 0

KindsInv == \A k \in Kinds : ~mixed[k] => Alone(k) /\ CodeInv(k)
TasksInv == \A r \in Requests : TaskInv(task[r])

IInv == BasicInv /\ LoginInv /\ KindsInv /\ TasksInv

-----------------------------------------------------------------------------
\* What request r does to kind k leaves the other kind, and the other requests, as
\* they were; while kind k is not mixed there is no other request to disturb.
LEMMA OthersKeep ==
  ASSUME BasicInv, KindsInv, TasksInv, NEW r \in Requests, NEW k \in Kinds,
         \A q \in Requests \ {r} : task'[q] = task[q],
         task'[r].pc # "none" => task'[r].kind = k,
         \A j \in Kinds \ {k} :
           /\ code'[j] = code[j] /\ attempts'[j] = attempts[j] /\ newest'[j] = newest[j]
           /\ tries'[j] = tries[j] /\ spent'[j] = spent[j] /\ expired'[j] = expired[j]
           /\ mixed'[j] = mixed[j]
           /\ newest[j] \in delivered' <=> newest[j] \in delivered,
         ~mixed'[k] => \A q \in Requests \ {r} : ~(Running(q) /\ task[q].kind = k),
         ~mixed'[k] => CodeInv(k)',
         TaskInv(task[r])',
         task[r].pc # "none" => task[r].kind = k
  PROVE  KindsInv' /\ TasksInv'
<1>1. ASSUME NEW j \in Kinds, ~mixed'[j] PROVE Alone(j)' /\ CodeInv(j)'
  <2>1. CASE j = k
    BY <1>1, <2>1 DEF Alone, Running
  <2>2. CASE j # k
    <3>1. ~mixed[j] /\ Alone(j) /\ CodeInv(j)
      BY <1>1, <2>2 DEF KindsInv
    <3>2. Alone(j)'
      BY <3>1, <2>2 DEF Alone, Running
    <3>3. CodeInv(j)'
      BY <3>1, <2>2, <1>1 DEF CodeInv, Usable
    <3> QED BY <3>2, <3>3
  <2> QED BY <2>1, <2>2
<1>2. ASSUME NEW q \in Requests PROVE TaskInv(task[q])'
  <2>1. CASE q = r
    BY <2>1
  <2>2. CASE q # r /\ task[q].kind = k
    <3>1. mixed'[k] \/ task[q].pc = "none"
      BY <2>2 DEF Running
    <3> QED BY <3>1, <2>2 DEF TaskInv, Sending
  <2>3. CASE q # r /\ task[q].kind # k
    <3>1. task[q].kind \in Kinds \ {k} /\ task'[q] = task[q]
      BY <2>3 DEF BasicInv, Task
    <3>2. TaskInv(task[q])
      BY DEF TasksInv
    <3> QED BY <3>1, <3>2 DEF TaskInv, Sending, Usable
  <2> QED BY <2>1, <2>2, <2>3
<1> QED BY <1>1, <1>2 DEF KindsInv, TasksInv

\* A step of a running request that leaves what it does to the history of overlaps.
LEMMA StepKeeps ==
  ASSUME BasicInv, KindsInv, TasksInv, NEW r \in Requests, Running(r),
         NEW k \in Kinds, task[r].kind = k,
         \A q \in Requests \ {r} : task'[q] = task[q],
         task'[r].pc # "none" => task'[r].kind = k,
         \A j \in Kinds \ {k} :
           /\ code'[j] = code[j] /\ attempts'[j] = attempts[j] /\ newest'[j] = newest[j]
           /\ tries'[j] = tries[j] /\ spent'[j] = spent[j] /\ expired'[j] = expired[j]
           /\ newest[j] \in delivered' <=> newest[j] \in delivered,
         mixed' = mixed,
         ~mixed[k] /\ CodeInv(k) => CodeInv(k)',
         TaskInv(task[r])'
  PROVE  KindsInv' /\ TasksInv'
<1>1. ~mixed[k] => \A q \in Requests \ {r} : ~(Running(q) /\ task[q].kind = k)
  BY DEF KindsInv, Alone
<1>2. ~mixed[k] => CodeInv(k)
  BY DEF KindsInv
<1>3. /\ ~mixed'[k] => \A q \in Requests \ {r} : ~(Running(q) /\ task[q].kind = k)
      /\ ~mixed'[k] => CodeInv(k)'
  BY <1>1, <1>2
<1>4. \A j \in Kinds \ {k} :
        /\ code'[j] = code[j] /\ attempts'[j] = attempts[j] /\ newest'[j] = newest[j]
        /\ tries'[j] = tries[j] /\ spent'[j] = spent[j] /\ expired'[j] = expired[j]
        /\ mixed'[j] = mixed[j]
        /\ newest[j] \in delivered' <=> newest[j] \in delivered
  OBVIOUS
<1> QED BY <1>3, <1>4, OthersKeep

-----------------------------------------------------------------------------
LEMMA GoTask ==
  ASSUME BasicInv, NEW r \in Requests, NEW l \in Labels, Go(r, l)
  PROVE  /\ task' \in [Requests -> Task]
         /\ \A q \in Requests \ {r} : task'[q] = task[q]
         /\ task'[r].pc = l /\ task'[r].kind = task[r].kind
         /\ task'[r].code = task[r].code /\ task'[r].stored = task[r].stored
<1>1. task \in [Requests -> Task]
  BY DEF BasicInv
<1>2. [task[r] EXCEPT !.pc = l] \in Task
  BY <1>1 DEF Task
<1> QED BY <1>1, <1>2 DEF Go, Task

LEMMA EndTask ==
  ASSUME BasicInv, NEW r \in Requests, End(r)
  PROVE  /\ task' \in [Requests -> Task]
         /\ \A q \in Requests \ {r} : task'[q] = task[q]
         /\ task'[r].pc = "none"
<1>1. NoTask \in Task
  BY DEF NoTask, Task, Labels, Kinds, NoCode
<1> QED BY <1>1 DEF BasicInv, End, NoTask

\* BasicInv, when no code is set.
LEMMA BasicKeeps ==
  ASSUME BasicInv, TypeOK', NEW r \in Requests, requests' \in Nat,
         issued' = issued, newest' = newest,
         task' \in [Requests -> Task],
         \A q \in Requests \ {r} : task'[q] = task[q],
         task'[r].pc \in Sending =>
           /\ task[r].pc \in Sending
           /\ task'[r].code = task[r].code /\ task'[r].kind = task[r].kind,
         tries' \in [Kinds -> Nat], spent' \in [Kinds -> Nat],
         expired' \in [Kinds -> BOOLEAN], mixed' \in [Kinds -> BOOLEAN],
         \A k \in Kinds : code'[k] \in {NoCode, code[k]}
  PROVE  BasicInv'
<1>1. \A k \in Kinds : code'[k] \in {NoCode, newest'[k]}
  BY DEF BasicInv
<1>2. ASSUME NEW q \in Requests, task'[q].pc \in Sending
      PROVE  /\ task'[q].code \in 1..issued'
             /\ \A j \in Kinds \ {task'[q].kind} : task'[q].code # newest'[j]
  <2>1. CASE q = r
    BY <1>2, <2>1 DEF BasicInv
  <2>2. CASE q # r
    BY <1>2, <2>2 DEF BasicInv
  <2> QED BY <2>1, <2>2
<1>3. issued' \in Nat
  BY DEF BasicInv
<1> QED BY <1>1, <1>2, <1>3 DEF BasicInv

\* LoginInv, when the login code and the account stay or an account is there.
LEMMA LoginKeeps ==
  ASSUME LoginInv, NEW r \in Requests,
         account => account',
         code'["login"] # NoCode => code["login"] # NoCode \/ account,
         \A q \in Requests \ {r} : task'[q] = task[q],
         task'[r].kind = "login" /\ task'[r].pc \notin {"none", "get"} => account
  PROVE  LoginInv'
BY DEF LoginInv

Rest == <<redis, web, issued, requests, delivered, history>>

\* A step that only moves its own request along.
LEMMA TaskStepKeeps ==
  ASSUME IInv, NEW r \in Requests, Running(r), UNCHANGED Rest,
         task' \in [Requests -> Task],
         \A q \in Requests \ {r} : task'[q] = task[q],
         task'[r].pc # "none" => task'[r].kind = task[r].kind,
         task'[r].pc \in Sending => task[r].pc \in Sending /\ task'[r].code = task[r].code,
         task'[r].pc \notin {"none", "get"} => task[r].pc # "get" \/ code[task[r].kind] # NoCode,
         TaskInv(task[r])'
  PROVE  IInv'
<1>1. PICK k \in Kinds : task[r].kind = k
  BY DEF IInv, BasicInv, Task
<1>2. /\ code' = code /\ life' = life /\ attempts' = attempts /\ cooling' = cooling
      /\ account' = account /\ signedIn' = signedIn
      /\ issued' = issued /\ requests' = requests /\ delivered' = delivered
      /\ newest' = newest /\ tries' = tries /\ spent' = spent
      /\ expired' = expired /\ mixed' = mixed
  BY DEF Rest, redis, web, history
<1>3. TypeOK'
  BY <1>2 DEF IInv, BasicInv, TypeOK
<1>4. BasicInv'
  <2>1. task'[r].pc \in Sending => task'[r].kind = task[r].kind
    BY DEF Sending
  <2> QED BY <1>2, <1>3, <2>1, BasicKeeps DEF IInv, BasicInv
<1>5. LoginInv'
  <2>1. ASSUME task'[r].kind = "login", task'[r].pc \notin {"none", "get"} PROVE account
    BY <2>1 DEF IInv, LoginInv, Running
  <2> QED BY <1>2, <2>1, LoginKeeps DEF IInv
<1>6. ~mixed[k] /\ CodeInv(k) => CodeInv(k)'
  BY <1>2 DEF CodeInv, Usable
<1>7. KindsInv' /\ TasksInv'
  BY <1>1, <1>2, <1>6, StepKeeps DEF IInv
<1> QED BY <1>4, <1>5, <1>7 DEF IInv

LEMMA EndKeeps ==
  ASSUME IInv, NEW r \in Requests, Running(r), UNCHANGED Rest, End(r)
  PROVE  IInv'
<1>1. /\ task' \in [Requests -> Task]
      /\ \A q \in Requests \ {r} : task'[q] = task[q]
      /\ task'[r].pc = "none"
  BY EndTask DEF IInv
<1>2. TaskInv(task[r])'
  BY <1>1 DEF TaskInv, Sending
<1> QED BY <1>1, <1>2, TaskStepKeeps DEF Sending

LEMMA CheckCooldownKeeps ==
  ASSUME IInv, NEW r \in Requests, CheckCooldown(r)
  PROVE  IInv'
<1>1. Running(r) /\ UNCHANGED Rest
  BY DEF CheckCooldown, At, Running, Rest
<1>2. CASE End(r)
  BY <1>1, <1>2, EndKeeps
<1>3. CASE Go(r, "set")
  <2>1. /\ task' \in [Requests -> Task]
        /\ \A q \in Requests \ {r} : task'[q] = task[q]
        /\ task'[r].pc = "set" /\ task'[r].kind = task[r].kind
    BY <1>3, GoTask DEF IInv, Labels
  <2>2. TaskInv(task[r])'
    BY <2>1 DEF TaskInv, Sending
  <2>3. task[r].pc # "get"
    BY DEF CheckCooldown, At
  <2> QED BY <1>1, <2>1, <2>2, <2>3, TaskStepKeeps DEF Sending
<1> QED BY <1>2, <1>3 DEF CheckCooldown

LEMMA GetCodeKeeps ==
  ASSUME IInv, NEW r \in Requests, GetCode(r)
  PROVE  IInv'
<1>1. Running(r) /\ UNCHANGED Rest
  BY DEF GetCode, At, Running, Rest
<1>2. PICK k \in Kinds : task[r].kind = k
  BY DEF IInv, BasicInv, Task
<1>3. CASE code[k] = NoCode
  BY <1>1, <1>2, <1>3, EndKeeps DEF GetCode
<1>4. CASE code[k] # NoCode
  <2>1. task' = [task EXCEPT ![r] = [@ EXCEPT !.pc = "count", !.stored = code[k]]]
    BY <1>2, <1>4 DEF GetCode
  <2>2. code[k] \in Nat /\ task \in [Requests -> Task]
    BY DEF IInv, BasicInv, TypeOK
  <2>3. [task[r] EXCEPT !.pc = "count", !.stored = code[k]] \in Task
    BY <2>2 DEF Task, Labels
  <2>4. /\ task' \in [Requests -> Task]
        /\ \A q \in Requests \ {r} : task'[q] = task[q]
        /\ task'[r].pc = "count" /\ task'[r].kind = k /\ task'[r].stored = code[k]
    BY <1>2, <2>1, <2>2, <2>3 DEF Task
  <2>5. code[k] = newest[k] /\ (~mixed[k] => spent[k] = 0)
    BY <1>4 DEF IInv, BasicInv, KindsInv, CodeInv
  <2>6. TaskInv(task[r])'
    BY <1>1, <2>4, <2>5 DEF TaskInv, Sending, Rest, redis, history
  <2> QED BY <1>1, <1>2, <1>4, <2>4, <2>6, TaskStepKeeps DEF Sending
<1> QED BY <1>3, <1>4

\* A step that moves its request from label l to label m and may touch the rest of
\* its own kind.
LEMMA MoveKeeps ==
  ASSUME IInv, NEW r \in Requests, Running(r), NEW k \in Kinds, task[r].kind = k,
         NEW m \in Labels, Go(r, m),
         m \in Sending => task[r].pc \in Sending,
         task[r].pc # "get" /\ m # "get",
         TypeOK',
         issued' = issued, requests' = requests, newest' = newest, mixed' = mixed,
         expired' = expired, account' = account,
         tries' \in [Kinds -> Nat], spent' \in [Kinds -> Nat],
         \A j \in Kinds : code'[j] \in {NoCode, code[j]},
         \A j \in Kinds \ {k} :
           /\ code'[j] = code[j] /\ attempts'[j] = attempts[j]
           /\ tries'[j] = tries[j] /\ spent'[j] = spent[j],
         delivered' = delivered,
         ~mixed[k] /\ CodeInv(k) => CodeInv(k)',
         TaskInv(task[r])'
  PROVE  IInv'
<1>1. /\ task' \in [Requests -> Task]
      /\ \A q \in Requests \ {r} : task'[q] = task[q]
      /\ task'[r].pc = m /\ task'[r].kind = k
      /\ task'[r].code = task[r].code
  BY GoTask DEF IInv
<1>2. BasicInv'
  <2>1. requests' \in Nat /\ expired' \in [Kinds -> BOOLEAN] /\ mixed' \in [Kinds -> BOOLEAN]
    BY DEF IInv, BasicInv
  <2> QED BY <1>1, <2>1, BasicKeeps DEF IInv
<1>3. LoginInv'
  <2>1. task'[r].kind = "login" => account
    BY <1>1 DEF IInv, LoginInv, Running
  <2>2. code'["login"] # NoCode => code["login"] # NoCode
    BY DEF Kinds
  <2> QED BY <1>1, <2>1, <2>2, LoginKeeps DEF IInv
<1>4. \A j \in Kinds \ {k} :
        /\ code'[j] = code[j] /\ attempts'[j] = attempts[j] /\ newest'[j] = newest[j]
        /\ tries'[j] = tries[j] /\ spent'[j] = spent[j] /\ expired'[j] = expired[j]
        /\ newest[j] \in delivered' <=> newest[j] \in delivered
  OBVIOUS
<1>5. KindsInv' /\ TasksInv'
  BY <1>1, <1>4, StepKeeps DEF IInv
<1> QED BY <1>2, <1>3, <1>5 DEF IInv

LEMMA ResetAttemptsKeeps ==
  ASSUME IInv, NEW r \in Requests, ResetAttempts(r)
  PROVE  IInv'
<1>1. PICK k \in Kinds : task[r].kind = k
  BY DEF IInv, BasicInv, Task
<1> USE <1>1 DEF ResetAttempts
<1>2. /\ Running(r) /\ task[r].pc = "reset" /\ Go(r, "cool")
      /\ attempts' = [attempts EXCEPT ![k] = 0]
      /\ code' = code /\ life' = life /\ cooling' = cooling
      /\ account' = account /\ signedIn' = signedIn
      /\ issued' = issued /\ requests' = requests /\ delivered' = delivered
      /\ newest' = newest /\ tries' = tries /\ spent' = spent
      /\ expired' = expired /\ mixed' = mixed
  BY DEF web, history, At, Running
<1>3. TypeOK'
  BY <1>2 DEF IInv, BasicInv, TypeOK
<1>4. attempts'[k] = 0 /\ \A j \in Kinds \ {k} : attempts'[j] = attempts[j]
  BY <1>2 DEF IInv, BasicInv, TypeOK
<1>5. TaskInv(task[r])
  BY DEF IInv, TasksInv
<1>6. /\ task'[r].pc = "cool" /\ task'[r].kind = k /\ task'[r].code = task[r].code
  BY <1>2, GoTask DEF IInv, Labels
<1>7. TaskInv(task[r])'
  BY <1>2, <1>4, <1>5, <1>6 DEF TaskInv, Sending
<1>8. ~mixed[k] => newest[k] \notin delivered
  BY <1>2, <1>5 DEF TaskInv, Sending
<1>9. ~mixed[k] /\ CodeInv(k) => CodeInv(k)'
  BY <1>2, <1>8 DEF CodeInv, Usable
<1> QED BY <1>2, <1>3, <1>4, <1>7, <1>9, MoveKeeps DEF IInv, BasicInv, Sending, Labels

LEMMA SetCooldownKeeps ==
  ASSUME IInv, SignInAssumption, NEW r \in Requests, SetCooldown(r)
  PROVE  IInv'
<1>1. PICK k \in Kinds : task[r].kind = k
  BY DEF IInv, BasicInv, Task
<1>2. /\ Running(r) /\ task[r].pc = "cool" /\ Go(r, "send")
      /\ cooling' = [cooling EXCEPT ![k] = Cooldown]
      /\ code' = code /\ life' = life /\ attempts' = attempts
      /\ account' = account /\ signedIn' = signedIn
      /\ issued' = issued /\ requests' = requests /\ delivered' = delivered
      /\ newest' = newest /\ tries' = tries /\ spent' = spent
      /\ expired' = expired /\ mixed' = mixed
  BY <1>1 DEF SetCooldown, web, history, At, Running
<1>3. TypeOK'
  BY <1>2 DEF IInv, BasicInv, TypeOK, SignInAssumption
<1>4. TaskInv(task[r])
  BY DEF IInv, TasksInv
<1>5. task'[r].pc = "send" /\ task'[r].kind = k /\ task'[r].code = task[r].code
  BY <1>1, <1>2, GoTask DEF IInv, Labels
<1>6. TaskInv(task[r])'
  BY <1>1, <1>2, <1>4, <1>5 DEF TaskInv, Sending
<1>7. ~mixed[k] /\ CodeInv(k) => CodeInv(k)'
  BY <1>2 DEF CodeInv, Usable
<1> QED BY <1>1, <1>2, <1>3, <1>6, <1>7, MoveKeeps DEF IInv, BasicInv, Sending, Labels

LEMMA SendKeeps ==
  ASSUME IInv, NEW r \in Requests, Send(r)
  PROVE  IInv'
<1>1. PICK k \in Kinds : task[r].kind = k
  BY DEF IInv, BasicInv, Task
<1>2. /\ Running(r) /\ task[r].pc = "send" /\ End(r)
      /\ delivered' \in {delivered, delivered \cup {task[r].code}}
      /\ code' = code /\ life' = life /\ attempts' = attempts /\ cooling' = cooling
      /\ account' = account /\ signedIn' = signedIn
      /\ issued' = issued /\ requests' = requests
      /\ newest' = newest /\ tries' = tries /\ spent' = spent
      /\ expired' = expired /\ mixed' = mixed
  BY DEF Send, redis, web, history, At, Running
<1>3. /\ task[r].code \in 1..issued
      /\ \A j \in Kinds \ {k} : task[r].code # newest[j]
  BY <1>1, <1>2 DEF IInv, BasicInv, Sending
<1>4. TypeOK'
  BY <1>2, <1>3 DEF IInv, BasicInv, TypeOK
<1>5. /\ task' \in [Requests -> Task]
      /\ \A q \in Requests \ {r} : task'[q] = task[q]
      /\ task'[r].pc = "none"
  BY <1>2, EndTask DEF IInv
<1>6. BasicInv'
  BY <1>2, <1>4, <1>5, BasicKeeps DEF IInv, BasicInv, Sending
<1>7. LoginInv'
  BY <1>2, <1>5, LoginKeeps DEF IInv
<1>8. TaskInv(task[r])
  BY DEF IInv, TasksInv
<1>9. ~mixed[k] => /\ tries[k] = 0 /\ spent[k] = 0 /\ attempts[k] = 0
                   /\ expired[k] \/ code[k] = newest[k]
  BY <1>1, <1>2, <1>8 DEF TaskInv, Sending
<1>10. ~mixed[k] /\ CodeInv(k) => CodeInv(k)'
  BY <1>2, <1>9 DEF CodeInv, Usable
<1>11. TaskInv(task[r])'
  BY <1>5 DEF TaskInv, Sending
<1>12. \A j \in Kinds \ {k} : newest[j] \in delivered' <=> newest[j] \in delivered
  BY <1>2, <1>3
<1>13. KindsInv' /\ TasksInv'
  BY <1>1, <1>2, <1>5, <1>10, <1>11, <1>12, StepKeeps DEF IInv
<1> QED BY <1>6, <1>7, <1>13 DEF IInv

LEMMA SetCodeKeeps ==
  ASSUME IInv, SignInAssumption, NEW r \in Requests, SetCode(r)
  PROVE  IInv'
<1>1. PICK k \in Kinds : task[r].kind = k
  BY DEF IInv, BasicInv, Task
<1>2. /\ task[r].pc = "set" /\ Running(r) /\ issued' = issued + 1
      /\ code' = [code EXCEPT ![k] = issued + 1]
      /\ life' = [life EXCEPT ![k] = CodeTtl]
      /\ task' = [task EXCEPT ![r] = [@ EXCEPT !.pc = "reset", !.code = issued + 1]]
      /\ newest' = [newest EXCEPT ![k] = issued + 1]
      /\ tries' = [tries EXCEPT ![k] = 0]
      /\ spent' = [spent EXCEPT ![k] = 0]
      /\ expired' = [expired EXCEPT ![k] = FALSE]
      /\ mixed' = [mixed EXCEPT ![k] = Overlap(r, k)]
      /\ attempts' = attempts /\ cooling' = cooling /\ account' = account
      /\ signedIn' = signedIn /\ requests' = requests /\ delivered' = delivered
  BY <1>1 DEF SetCode, web, At, Running
<1>3. /\ issued \in Nat /\ task \in [Requests -> Task] /\ delivered \subseteq 1..issued
      /\ code \in [Kinds -> 0..issued] /\ newest \in [Kinds -> 0..issued]
      /\ life \in [Kinds -> 0..CodeTtl] /\ CodeTtl \in Nat \ {0}
      /\ tries \in [Kinds -> Nat] /\ spent \in [Kinds -> Nat]
      /\ expired \in [Kinds -> BOOLEAN] /\ mixed \in [Kinds -> BOOLEAN]
  BY DEF IInv, BasicInv, TypeOK, SignInAssumption
<1>4. /\ code'[k] = issued + 1 /\ newest'[k] = issued + 1 /\ life'[k] = CodeTtl
      /\ tries'[k] = 0 /\ spent'[k] = 0 /\ (mixed'[k] <=> Overlap(r, k))
      /\ \A j \in Kinds \ {k} :
           /\ code'[j] = code[j] /\ newest'[j] = newest[j] /\ life'[j] = life[j]
           /\ tries'[j] = tries[j] /\ spent'[j] = spent[j]
           /\ expired'[j] = expired[j] /\ mixed'[j] = mixed[j]
  BY <1>2, <1>3
<1>5. /\ task' \in [Requests -> Task]
      /\ \A q \in Requests \ {r} : task'[q] = task[q]
      /\ task'[r].pc = "reset" /\ task'[r].kind = k /\ task'[r].code = issued + 1
  <2>1. issued + 1 \in Nat /\ task[r] \in Task
    BY <1>3
  <2>2. [task[r] EXCEPT !.pc = "reset", !.code = issued + 1] \in Task
    BY <2>1 DEF Task, Labels
  <2> QED BY <1>1, <1>2, <1>3, <2>1, <2>2 DEF Task
<1>6. TypeOK'
  <2>1. /\ code' \in [Kinds -> 0..issued'] /\ newest' \in [Kinds -> 0..issued']
        /\ life' \in [Kinds -> 0..CodeTtl] /\ delivered' \subseteq 1..issued'
    BY <1>2, <1>3
  <2>2. \A j \in Kinds : code'[j] = NoCode <=> life'[j] = 0
    BY <1>3, <1>4 DEF IInv, BasicInv, TypeOK, NoCode
  <2> QED BY <1>2, <2>1, <2>2 DEF IInv, BasicInv, TypeOK
<1>7. BasicInv'
  <2>1. /\ issued' \in Nat /\ requests' \in Nat
        /\ tries' \in [Kinds -> Nat] /\ spent' \in [Kinds -> Nat]
        /\ expired' \in [Kinds -> BOOLEAN]
    BY <1>2, <1>3 DEF IInv, BasicInv
  <2>2. mixed' \in [Kinds -> BOOLEAN]
    BY <1>2, <1>3 DEF Overlap
  <2>3. \A j \in Kinds : code'[j] \in {NoCode, newest'[j]}
    BY <1>4 DEF IInv, BasicInv
  <2>4. ASSUME NEW q \in Requests, task'[q].pc \in Sending
        PROVE  /\ task'[q].code \in 1..issued'
               /\ \A j \in Kinds \ {task'[q].kind} : task'[q].code # newest'[j]
    <3>1. CASE q = r
      BY <1>2, <1>3, <1>4, <1>5, <3>1
    <3>2. CASE q # r
      <4>1. /\ task'[q] = task[q] /\ task[q].code \in 1..issued
            /\ \A j \in Kinds \ {task[q].kind} : task[q].code # newest[j]
        BY <1>5, <2>4, <3>2 DEF IInv, BasicInv
      <4>2. task[q].code \in 1..issued' /\ task[q].code # issued + 1
        BY <1>2, <1>3, <4>1
      <4>3. \A j \in Kinds \ {task[q].kind} : task[q].code # newest'[j]
        BY <1>4, <4>1, <4>2
      <4> QED BY <4>1, <4>2, <4>3
    <3> QED BY <3>1, <3>2
  <2> QED BY <1>5, <1>6, <2>1, <2>2, <2>3, <2>4 DEF BasicInv
<1>8. LoginInv'
  <2>1. k = "login" => account
    BY <1>1, <1>2 DEF IInv, LoginInv
  <2>2. code'["login"] # NoCode => code["login"] # NoCode \/ account
    BY <1>4, <2>1 DEF Kinds
  <2> QED BY <1>2, <1>5, <2>1, <2>2, LoginKeeps DEF IInv
<1>9. KindsInv' /\ TasksInv'
  <2>1. newest'[k] \notin delivered'
    BY <1>2, <1>3, <1>4
  <2>2. CodeInv(k)'
    BY <1>4, <2>1 DEF CodeInv, Usable
  <2>3. TaskInv(task[r])'
    BY <1>4, <1>5, <2>1 DEF TaskInv, Sending
  <2>4. ~mixed'[k] => \A q \in Requests \ {r} : ~(Running(q) /\ task[q].kind = k)
    BY <1>4 DEF Overlap
  <2>5. \A j \in Kinds \ {k} :
          /\ code'[j] = code[j] /\ attempts'[j] = attempts[j] /\ newest'[j] = newest[j]
          /\ tries'[j] = tries[j] /\ spent'[j] = spent[j] /\ expired'[j] = expired[j]
          /\ mixed'[j] = mixed[j]
          /\ newest[j] \in delivered' <=> newest[j] \in delivered
    BY <1>2, <1>4
  <2>6. ~mixed'[k] => CodeInv(k)'
    BY <2>2
  <2> QED BY <1>1, <1>5, <2>3, <2>4, <2>5, <2>6, OthersKeep DEF IInv
<1> QED BY <1>7, <1>8, <1>9 DEF IInv

\* The last step of a request, which sets no code.
LEMMA FinishKeeps ==
  ASSUME IInv, NEW r \in Requests, Running(r), NEW k \in Kinds, task[r].kind = k,
         End(r), TypeOK',
         issued' = issued, requests' = requests, newest' = newest, mixed' = mixed,
         expired' = expired, account => account', spent' = spent, code' = code,
         delivered' = delivered,
         tries' \in [Kinds -> Nat],
         \A j \in Kinds \ {k} : attempts'[j] = attempts[j] /\ tries'[j] = tries[j],
         ~mixed[k] /\ CodeInv(k) => CodeInv(k)'
  PROVE  IInv'
<1>1. /\ task' \in [Requests -> Task]
      /\ \A q \in Requests \ {r} : task'[q] = task[q]
      /\ task'[r].pc = "none"
  BY EndTask DEF IInv
<1>2. BasicInv'
  BY <1>1, BasicKeeps DEF IInv, BasicInv, Sending
<1>3. LoginInv'
  BY <1>1, LoginKeeps DEF IInv
<1>4. TaskInv(task[r])'
  BY <1>1 DEF TaskInv, Sending
<1>5. \A j \in Kinds \ {k} :
        /\ code'[j] = code[j] /\ attempts'[j] = attempts[j] /\ newest'[j] = newest[j]
        /\ tries'[j] = tries[j] /\ spent'[j] = spent[j] /\ expired'[j] = expired[j]
        /\ newest[j] \in delivered' <=> newest[j] \in delivered
  OBVIOUS
<1>6. KindsInv' /\ TasksInv'
  BY <1>1, <1>4, <1>5, StepKeeps DEF IInv
<1> QED BY <1>2, <1>3, <1>6 DEF IInv

LEMMA CountKeeps ==
  ASSUME IInv, SignInAssumption, NEW r \in Requests, Count(r)
  PROVE  IInv'
<1>1. PICK k \in Kinds : task[r].kind = k
  BY DEF IInv, BasicInv, Task
<1>2. /\ Running(r) /\ task[r].pc = "count"
      /\ attempts' = [attempts EXCEPT ![k] = @ + 1]
      /\ tries' = [tries EXCEPT ![k] = @ + 1]
      /\ code' = code /\ life' = life /\ cooling' = cooling
      /\ account' = account /\ signedIn' = signedIn
      /\ issued' = issued /\ requests' = requests /\ delivered' = delivered
      /\ newest' = newest /\ spent' = spent /\ expired' = expired /\ mixed' = mixed
  BY <1>1 DEF Count, web, At, Running
<1>3. attempts \in [Kinds -> Nat] /\ tries \in [Kinds -> Nat] /\ MaxAttempts \in Nat
  BY DEF IInv, BasicInv, TypeOK, SignInAssumption
<1>4. /\ attempts'[k] = attempts[k] + 1 /\ tries'[k] = tries[k] + 1
      /\ \A j \in Kinds \ {k} : attempts'[j] = attempts[j] /\ tries'[j] = tries[j]
      /\ attempts' \in [Kinds -> Nat] /\ tries' \in [Kinds -> Nat]
  BY <1>2, <1>3
<1>5. TypeOK'
  BY <1>2, <1>4 DEF IInv, BasicInv, TypeOK
<1>6. ASSUME ~mixed[k], CodeInv(k) PROVE CodeInv(k)'
  BY <1>2, <1>3, <1>4, <1>6 DEF CodeInv, Usable
<1>7. ~mixed[k] => task[r].stored = newest[k] /\ spent[k] = 0
  BY <1>1, <1>2 DEF IInv, TasksInv, TaskInv
<1>8. CASE attempts[k] >= MaxAttempts /\ Go(r, "evict")
  <2>1. task'[r].pc = "evict" /\ task'[r].kind = k
    BY <1>1, <1>8, GoTask DEF IInv, Labels
  <2>2. ASSUME ~mixed[k], Usable(k)' PROVE tries'[k] > MaxAttempts
    <3>1. Usable(k) /\ CodeInv(k)
      BY <1>2, <2>2 DEF Usable, IInv, KindsInv
    <3>2. CASE tries[k] <= MaxAttempts
      BY <1>3, <1>4, <1>8, <3>1, <3>2 DEF CodeInv
    <3>3. CASE tries[k] > MaxAttempts
      BY <1>3, <1>4, <3>3
    <3> QED BY <1>3, <3>2, <3>3
  <2>3. TaskInv(task[r])'
    BY <1>2, <2>1, <2>2 DEF TaskInv, Sending
  <2> QED BY <1>1, <1>2, <1>4, <1>5, <1>6, <1>8, <2>3, MoveKeeps
          DEF IInv, BasicInv, Sending, Labels
<1>9. CASE End(r)
  BY <1>1, <1>2, <1>4, <1>5, <1>6, <1>9, FinishKeeps
<1>10. CASE task[r].code = task[r].stored /\ Go(r, "spend")
  <2>1. /\ task'[r].pc = "spend" /\ task'[r].kind = k
        /\ task'[r].code = task[r].code /\ task'[r].stored = task[r].stored
    BY <1>1, <1>10, GoTask DEF IInv, Labels
  <2>2. TaskInv(task[r])'
    BY <1>2, <1>7, <1>10, <2>1 DEF TaskInv, Sending
  <2> QED BY <1>1, <1>2, <1>4, <1>5, <1>6, <1>10, <2>2, MoveKeeps
          DEF IInv, BasicInv, Sending, Labels
<1> QED BY <1>1, <1>8, <1>9, <1>10 DEF Count

\* Deleting a code leaves the types, and the codes of the other kind, as they are.
LEMMA DeleteTypes ==
  ASSUME IInv, SignInAssumption, NEW k \in Kinds, DeleteCode(k),
         attempts' = attempts, cooling' = cooling, account' = account,
         signedIn' = signedIn, issued' = issued, delivered' = delivered, newest' = newest
  PROVE  /\ TypeOK'
         /\ code'[k] = NoCode
         /\ \A j \in Kinds : code'[j] \in {NoCode, code[j]}
         /\ \A j \in Kinds \ {k} : code'[j] = code[j]
<1>1. /\ code \in [Kinds -> 0..issued] /\ life \in [Kinds -> 0..CodeTtl]
      /\ issued \in Nat
  BY DEF IInv, BasicInv, TypeOK
<1>2. /\ code'[k] = 0 /\ life'[k] = 0
      /\ \A j \in Kinds \ {k} : code'[j] = code[j] /\ life'[j] = life[j]
  BY <1>1 DEF DeleteCode, NoCode
<1>3. code' \in [Kinds -> 0..issued']
  BY <1>1 DEF DeleteCode, NoCode
<1>4. life' \in [Kinds -> 0..CodeTtl]
  <2>1. 0 \in 0..CodeTtl
    BY DEF SignInAssumption
  <2> QED BY <1>1, <2>1 DEF DeleteCode
<1>5. TypeOK'
  BY <1>2, <1>3, <1>4 DEF IInv, BasicInv, TypeOK, NoCode
<1> QED BY <1>2, <1>5 DEF NoCode

LEMMA EvictCodeKeeps ==
  ASSUME IInv, SignInAssumption, NEW r \in Requests, EvictCode(r)
  PROVE  IInv'
<1>1. PICK k \in Kinds : task[r].kind = k
  BY DEF IInv, BasicInv, Task
<1>2. /\ Running(r) /\ task[r].pc = "evict" /\ Go(r, "forget") /\ DeleteCode(k)
      /\ attempts' = attempts /\ cooling' = cooling
      /\ account' = account /\ signedIn' = signedIn
      /\ issued' = issued /\ requests' = requests /\ delivered' = delivered
      /\ newest' = newest /\ tries' = tries /\ spent' = spent
      /\ expired' = expired /\ mixed' = mixed
  BY <1>1 DEF EvictCode, web, history, At, Running
<1>3. /\ TypeOK' /\ code'[k] = NoCode
      /\ \A j \in Kinds : code'[j] \in {NoCode, code[j]}
      /\ \A j \in Kinds \ {k} : code'[j] = code[j]
  BY <1>2, DeleteTypes
<1>4. newest[k] \in delivered => newest[k] # NoCode
  BY DEF IInv, BasicInv, TypeOK, NoCode
<1>5. ~mixed[k] /\ Usable(k) => tries[k] > MaxAttempts
  BY <1>1, <1>2 DEF IInv, TasksInv, TaskInv
<1>6. tries[k] \in Nat /\ spent[k] \in Nat
  BY DEF IInv, BasicInv
<1>7. ASSUME ~mixed[k], CodeInv(k) PROVE CodeInv(k)'
  <2>1. Usable(k)' <=> Usable(k)
    BY <1>2 DEF Usable
  <2>2. Usable(k) => ~(tries[k] <= MaxAttempts)
    BY <1>5, <1>6, <1>7 DEF SignInAssumption
  <2> QED BY <1>2, <1>3, <1>4, <1>7, <2>1, <2>2 DEF CodeInv, Usable
<1>8. task'[r].pc = "forget" /\ task'[r].kind = k
  BY <1>1, <1>2, GoTask DEF IInv, Labels
<1>9. TaskInv(task[r])'
  BY <1>2, <1>3, <1>4, <1>8 DEF TaskInv, Sending, Usable
<1> QED BY <1>1, <1>2, <1>3, <1>7, <1>9, MoveKeeps DEF IInv, BasicInv, Sending, Labels

LEMMA SpendCodeKeeps ==
  ASSUME IInv, SignInAssumption, NEW r \in Requests, SpendCode(r)
  PROVE  IInv'
<1>1. PICK k \in Kinds : task[r].kind = k
  BY DEF IInv, BasicInv, Task
<1>2. /\ Running(r) /\ task[r].pc = "spend" /\ Go(r, "settle") /\ DeleteCode(k)
      /\ spent' = [spent EXCEPT ![k] = IF task[r].code = newest[k] THEN @ + 1 ELSE @]
      /\ attempts' = attempts /\ cooling' = cooling
      /\ account' = account /\ signedIn' = signedIn
      /\ issued' = issued /\ requests' = requests /\ delivered' = delivered
      /\ newest' = newest /\ tries' = tries
      /\ expired' = expired /\ mixed' = mixed
  BY <1>1 DEF SpendCode, web, At, Running
<1>3. /\ TypeOK' /\ code'[k] = NoCode
      /\ \A j \in Kinds : code'[j] \in {NoCode, code[j]}
      /\ \A j \in Kinds \ {k} : code'[j] = code[j]
  BY <1>2, DeleteTypes
<1>4. spent \in [Kinds -> Nat]
  BY DEF IInv, BasicInv
<1>5. /\ spent' \in [Kinds -> Nat]
      /\ spent'[k] = IF task[r].code = newest[k] THEN spent[k] + 1 ELSE spent[k]
      /\ \A j \in Kinds \ {k} : spent'[j] = spent[j]
  BY <1>2, <1>4
<1>6. ~mixed[k] => task[r].code = newest[k] /\ spent[k] = 0
  BY <1>1, <1>2 DEF IInv, TasksInv, TaskInv
<1>7. ~mixed[k] => spent'[k] = 1
  BY <1>5, <1>6
<1>8. ~mixed[k] /\ CodeInv(k) => CodeInv(k)'
  BY <1>2, <1>3, <1>7 DEF CodeInv, Usable
<1>9. task'[r].pc = "settle" /\ task'[r].kind = k
  BY <1>1, <1>2, GoTask DEF IInv, Labels
<1>10. TaskInv(task[r])'
  BY <1>2, <1>7, <1>9 DEF TaskInv, Sending
<1> QED BY <1>1, <1>2, <1>3, <1>5, <1>8, <1>10, MoveKeeps DEF IInv, BasicInv, Sending, Labels

LEMMA DeleteAttemptsKeeps ==
  ASSUME IInv, NEW r \in Requests, DeleteAttempts(r)
  PROVE  IInv'
<1>1. PICK k \in Kinds : task[r].kind = k
  BY DEF IInv, BasicInv, Task
<1>2. /\ Running(r) /\ task[r].pc \in {"forget", "settle"}
      /\ attempts' = [attempts EXCEPT ![k] = 0]
      /\ code' = code /\ life' = life /\ cooling' = cooling
      /\ account' = account /\ signedIn' = signedIn
      /\ issued' = issued /\ requests' = requests /\ delivered' = delivered
      /\ newest' = newest /\ tries' = tries /\ spent' = spent
      /\ expired' = expired /\ mixed' = mixed
  BY <1>1 DEF DeleteAttempts, web, history, At, Running
<1>3. /\ attempts' \in [Kinds -> Nat]
      /\ \A j \in Kinds \ {k} : attempts'[j] = attempts[j]
  BY <1>2 DEF IInv, BasicInv, TypeOK
<1>4. TypeOK'
  BY <1>2, <1>3 DEF IInv, BasicInv, TypeOK
<1>5. ~mixed[k] /\ Usable(k) => code[k] # newest[k]
  BY <1>1, <1>2 DEF IInv, TasksInv, TaskInv, Usable
<1>6. ~mixed[k] /\ CodeInv(k) => CodeInv(k)'
  BY <1>2, <1>5 DEF CodeInv, Usable
<1>7. CASE End(r)
  BY <1>1, <1>2, <1>3, <1>4, <1>6, <1>7, FinishKeeps DEF IInv, BasicInv
<1>8. CASE Go(r, "account")
  <2>1. task'[r].pc = "account"
    BY <1>8, GoTask DEF IInv, Labels
  <2>2. TaskInv(task[r])'
    BY <2>1 DEF TaskInv, Sending
  <2> QED BY <1>1, <1>2, <1>3, <1>4, <1>6, <1>8, <2>2, MoveKeeps
          DEF IInv, BasicInv, Sending, Labels
<1> QED BY <1>7, <1>8 DEF DeleteAttempts

LEMMA FindAccountKeeps ==
  ASSUME IInv, NEW r \in Requests, FindAccount(r)
  PROVE  IInv'
<1>1. PICK k \in Kinds : task[r].kind = k
  BY DEF IInv, BasicInv, Task
<1>2. /\ Running(r) /\ task[r].pc = "account" /\ signedIn' \in {signedIn, TRUE}
      /\ code' = code /\ life' = life /\ attempts' = attempts /\ cooling' = cooling
      /\ account' = account
      /\ issued' = issued /\ requests' = requests /\ delivered' = delivered
      /\ newest' = newest /\ tries' = tries /\ spent' = spent
      /\ expired' = expired /\ mixed' = mixed
  BY DEF FindAccount, redis, history, At, Running
<1>3. TypeOK'
  BY <1>2 DEF IInv, BasicInv, TypeOK
<1>4. ~mixed[k] /\ CodeInv(k) => CodeInv(k)'
  BY <1>2 DEF CodeInv, Usable
<1>5. CASE End(r)
  BY <1>1, <1>2, <1>3, <1>4, <1>5, FinishKeeps DEF IInv, BasicInv
<1>6. CASE Go(r, "create")
  <2>1. task'[r].pc = "create"
    BY <1>6, GoTask DEF IInv, Labels
  <2>2. TaskInv(task[r])'
    BY <2>1 DEF TaskInv, Sending
  <2> QED BY <1>1, <1>2, <1>3, <1>4, <1>6, <2>2, MoveKeeps
          DEF IInv, BasicInv, Sending, Labels
<1> QED BY <1>5, <1>6 DEF FindAccount

LEMMA CreateAccountKeeps ==
  ASSUME IInv, NEW r \in Requests, CreateAccount(r)
  PROVE  IInv'
<1>1. PICK k \in Kinds : task[r].kind = k
  BY DEF IInv, BasicInv, Task
<1>2. /\ Running(r) /\ End(r) /\ account' = TRUE /\ signedIn' = (signedIn \/ ~account)
      /\ code' = code /\ life' = life /\ attempts' = attempts /\ cooling' = cooling
      /\ issued' = issued /\ requests' = requests /\ delivered' = delivered
      /\ newest' = newest /\ tries' = tries /\ spent' = spent
      /\ expired' = expired /\ mixed' = mixed
  BY DEF CreateAccount, redis, history, At, Running
<1>3. TypeOK'
  BY <1>2 DEF IInv, BasicInv, TypeOK
<1>4. ~mixed[k] /\ CodeInv(k) => CodeInv(k)'
  BY <1>2 DEF CodeInv, Usable
<1> QED BY <1>1, <1>2, <1>3, <1>4, FinishKeeps DEF IInv, BasicInv

-----------------------------------------------------------------------------
\* A request that starts may make its kind mixed, and does nothing else yet.
LEMMA OpenKeeps ==
  ASSUME IInv, SignInAssumption, NEW r \in Requests, NEW k \in Kinds,
         NEW l \in {"check", "get"}, NEW c \in Nat, Open(r, k, l, c),
         l = "check" /\ k = "login" => account,
         mixed' = [mixed EXCEPT ![k] = @ \/ Overlap(r, k)],
         UNCHANGED <<redis, web, issued, delivered, newest, tries, spent, expired>>
  PROVE  IInv'
<1>1. /\ code' = code /\ life' = life /\ attempts' = attempts /\ cooling' = cooling
      /\ account' = account /\ signedIn' = signedIn /\ issued' = issued
      /\ delivered' = delivered /\ newest' = newest /\ tries' = tries
      /\ spent' = spent /\ expired' = expired
  BY DEF redis, web
<1>2. ~Running(r) /\ requests' \in Nat
  BY DEF Open, IInv, BasicInv
<1>3. /\ task' \in [Requests -> Task]
      /\ \A q \in Requests \ {r} : task'[q] = task[q]
      /\ task'[r].pc = l /\ task'[r].kind = k
  <2>1. [pc |-> l, kind |-> k, code |-> c, stored |-> NoCode] \in Task
    BY DEF Task, Labels, NoCode
  <2> QED BY <2>1 DEF Open, IInv, BasicInv
<1>4. /\ mixed' \in [Kinds -> BOOLEAN]
      /\ mixed'[k] = (mixed[k] \/ Overlap(r, k))
      /\ \A j \in Kinds \ {k} : mixed'[j] = mixed[j]
  <2>1. mixed \in [Kinds -> BOOLEAN] /\ Overlap(r, k) \in BOOLEAN
    BY DEF IInv, BasicInv, Overlap
  <2> QED BY <2>1
<1>5. TypeOK'
  BY <1>1 DEF IInv, BasicInv, TypeOK
<1>6. BasicInv'
  BY <1>1, <1>2, <1>3, <1>4, <1>5, BasicKeeps DEF IInv, BasicInv, Sending
<1>7. LoginInv'
  BY <1>1, <1>3, LoginKeeps DEF IInv
<1>8. KindsInv' /\ TasksInv'
  <2>1. ~mixed'[k] => \A q \in Requests \ {r} : ~(Running(q) /\ task[q].kind = k)
    BY <1>4 DEF Overlap
  <2>2. ~mixed'[k] => CodeInv(k)'
    BY <1>1, <1>4 DEF IInv, KindsInv, CodeInv, Usable
  <2>3. TaskInv(task[r])'
    BY <1>3 DEF TaskInv, Sending
  <2>4. \A j \in Kinds \ {k} :
          /\ code'[j] = code[j] /\ attempts'[j] = attempts[j] /\ newest'[j] = newest[j]
          /\ tries'[j] = tries[j] /\ spent'[j] = spent[j] /\ expired'[j] = expired[j]
          /\ mixed'[j] = mixed[j]
          /\ newest[j] \in delivered' <=> newest[j] \in delivered
    BY <1>1, <1>4
  <2>5. task[r].pc = "none"
    BY <1>2 DEF Running
  <2> QED BY <1>3, <2>1, <2>2, <2>3, <2>4, <2>5, OthersKeep DEF IInv
<1> QED BY <1>6, <1>7, <1>8 DEF IInv

LEMMA AskCodeKeeps ==
  ASSUME IInv, SignInAssumption, NEW r \in Requests, NEW k \in Kinds, AskCode(r, k)
  PROVE  IInv'
BY OpenKeeps DEF AskCode, NoCode

LEMMA SubmitKeeps ==
  ASSUME IInv, SignInAssumption, NEW r \in Requests, NEW k \in Kinds, Submit(r, k)
  PROVE  IInv'
<1>1. PICK c \in delivered \cup {NoCode} : Open(r, k, "get", c)
  BY DEF Submit
<1>2. c \in Nat
  BY DEF IInv, BasicInv, TypeOK, NoCode
<1> QED BY <1>1, <1>2, OpenKeeps DEF Submit

-----------------------------------------------------------------------------
\* What a step that leaves the requests and their history alone keeps.
LEMMA LogoutKeeps ==
  ASSUME IInv, Logout
  PROVE  IInv'
<1>1. /\ code' = code /\ life' = life /\ attempts' = attempts /\ cooling' = cooling
      /\ account' = account /\ signedIn' = FALSE /\ task' = task
      /\ issued' = issued /\ requests' = requests /\ delivered' = delivered
      /\ newest' = newest /\ tries' = tries /\ spent' = spent
      /\ expired' = expired /\ mixed' = mixed
  BY DEF Logout, redis, history
<1>2. BasicInv'
  BY <1>1 DEF IInv, BasicInv, TypeOK
<1>3. LoginInv' /\ KindsInv' /\ TasksInv'
  BY <1>1 DEF IInv, LoginInv, KindsInv, TasksInv, Alone, Running, CodeInv, TaskInv, Usable
<1> QED BY <1>2, <1>3 DEF IInv

LEMMA StutterKeeps ==
  ASSUME IInv, UNCHANGED vars
  PROVE  IInv'
<1>1. /\ code' = code /\ life' = life /\ attempts' = attempts /\ cooling' = cooling
      /\ account' = account /\ signedIn' = signedIn /\ task' = task
      /\ issued' = issued /\ requests' = requests /\ delivered' = delivered
      /\ newest' = newest /\ tries' = tries /\ spent' = spent
      /\ expired' = expired /\ mixed' = mixed
  BY DEF vars, redis, web, history
<1>2. BasicInv'
  BY <1>1 DEF IInv, BasicInv, TypeOK
<1>3. LoginInv' /\ KindsInv' /\ TasksInv'
  BY <1>1 DEF IInv, LoginInv, KindsInv, TasksInv, Alone, Running, CodeInv, TaskInv, Usable
<1> QED BY <1>2, <1>3 DEF IInv

LEMMA TickKeeps ==
  ASSUME IInv, SignInAssumption, Tick
  PROVE  IInv'
<1>1. /\ attempts' = attempts /\ account' = account /\ signedIn' = signedIn
      /\ task' = task /\ issued' = issued /\ requests' = requests
      /\ delivered' = delivered /\ newest' = newest /\ tries' = tries
      /\ spent' = spent /\ mixed' = mixed
  BY DEF Tick, web
<1>2. /\ life' = [k \in Kinds |-> IF life[k] > 0 THEN life[k] - 1 ELSE 0]
      /\ cooling' = [k \in Kinds |-> IF cooling[k] > 0 THEN cooling[k] - 1 ELSE 0]
      /\ code' = [k \in Kinds |-> IF life[k] = 1 THEN NoCode ELSE code[k]]
      /\ expired' = [k \in Kinds |-> expired[k] \/ life[k] = 1]
  BY DEF Tick
<1>3. /\ CodeTtl \in Nat /\ Cooldown \in Nat /\ issued \in Nat
      /\ life \in [Kinds -> 0..CodeTtl] /\ cooling \in [Kinds -> 0..Cooldown]
      /\ code \in [Kinds -> 0..issued] /\ expired \in [Kinds -> BOOLEAN]
      /\ \A k \in Kinds : code[k] = 0 <=> life[k] = 0
  BY DEF IInv, BasicInv, TypeOK, SignInAssumption, NoCode
\* A kind either runs out now or keeps its code.
<1>4. ASSUME NEW k \in Kinds
      PROVE  \/ code'[k] = NoCode /\ expired'[k]
             \/ code'[k] = code[k] /\ expired'[k] = expired[k]
  BY <1>2, <1>3
<1>5. TypeOK'
  <2>1. \A k \in Kinds : life'[k] \in 0..CodeTtl /\ cooling'[k] \in 0..Cooldown
    BY <1>2, <1>3
  <2>2. life' \in [Kinds -> 0..CodeTtl] /\ cooling' \in [Kinds -> 0..Cooldown]
    BY <1>2, <2>1
  <2>3. \A k \in Kinds : code'[k] \in 0..issued'
    BY <1>1, <1>2, <1>3 DEF NoCode
  <2>4. code' \in [Kinds -> 0..issued']
    BY <1>2, <2>3
  <2>5. \A k \in Kinds : code'[k] = NoCode <=> life'[k] = 0
    BY <1>2, <1>3 DEF NoCode
  <2> QED BY <1>1, <2>2, <2>4, <2>5 DEF IInv, BasicInv, TypeOK
<1>6. BasicInv'
  <2>1. expired' \in [Kinds -> BOOLEAN]
    BY <1>2
  <2>2. \A k \in Kinds : code'[k] \in {NoCode, newest'[k]}
    BY <1>1, <1>4 DEF IInv, BasicInv
  <2> QED BY <1>1, <1>5, <2>1, <2>2 DEF IInv, BasicInv
<1>7. LoginInv'
  BY <1>1, <1>4 DEF IInv, LoginInv, Kinds
<1>8. ASSUME NEW k \in Kinds, ~mixed'[k] PROVE Alone(k)' /\ CodeInv(k)'
  <2>1. Alone(k) /\ CodeInv(k)
    BY <1>1, <1>8 DEF IInv, KindsInv
  <2>2. Alone(k)'
    BY <1>1, <2>1 DEF Alone, Running
  <2>3. CodeInv(k)'
    BY <1>1, <1>4, <2>1 DEF CodeInv, Usable
  <2> QED BY <2>2, <2>3
<1>9. ASSUME NEW r \in Requests PROVE TaskInv(task[r])'
  <2>1. PICK k \in Kinds : task[r].kind = k
    BY DEF IInv, BasicInv, Task
  <2>2. TaskInv(task[r])
    BY DEF IInv, TasksInv
  <2> QED BY <1>1, <1>4, <2>1, <2>2 DEF TaskInv, Sending, Usable
<1> QED BY <1>6, <1>7, <1>8, <1>9 DEF IInv, KindsInv, TasksInv

-----------------------------------------------------------------------------
LEMMA InitInv ==
  ASSUME SignInAssumption, Init
  PROVE  IInv
<1>1. TypeOK
  <2>1. issued = 0 /\ delivered = {} /\ account \in BOOLEAN /\ signedIn \in BOOLEAN
    BY DEF Init
  <2>2. 0 \in 0..issued /\ 0 \in 0..CodeTtl /\ 0 \in 0..Cooldown /\ 0 \in Nat
    BY <2>1 DEF SignInAssumption
  <2>3. /\ code \in [Kinds -> 0..issued] /\ newest \in [Kinds -> 0..issued]
        /\ life \in [Kinds -> 0..CodeTtl] /\ cooling \in [Kinds -> 0..Cooldown]
        /\ attempts \in [Kinds -> Nat]
    BY <2>2 DEF Init, NoCode
  <2>4. \A k \in Kinds : code[k] = NoCode <=> life[k] = 0
    BY DEF Init, NoCode
  <2> QED BY <2>1, <2>3, <2>4 DEF TypeOK
<1>2. \A r \in Requests : task[r] = NoTask
  BY DEF Init
<1>3. task \in [Requests -> Task]
  BY DEF Init, NoTask, Task, Labels, Kinds, NoCode
<1>4. BasicInv
  BY <1>1, <1>2, <1>3 DEF Init, BasicInv, NoTask, Sending, NoCode
<1>5. LoginInv
  BY <1>2 DEF Init, LoginInv, NoTask, Kinds, NoCode
<1>6. KindsInv
  BY <1>1, <1>2 DEF Init, KindsInv, Alone, CodeInv, Running, NoTask, Usable, TypeOK
<1>7. TasksInv
  BY <1>2 DEF TasksInv, TaskInv, NoTask, Sending
<1> QED BY <1>4, <1>5, <1>6, <1>7 DEF IInv

LEMMA NextKeeps ==
  ASSUME IInv, SignInAssumption, [Next]_vars
  PROVE  IInv'
<1>1. CASE UNCHANGED vars
  BY <1>1, StutterKeeps
<1>2. CASE Logout
  BY <1>2, LogoutKeeps
<1>3. CASE Tick
  BY <1>3, TickKeeps
<1>4. ASSUME NEW r \in Requests, NEW k \in Kinds, AskCode(r, k) \/ Submit(r, k)
      PROVE  IInv'
  BY <1>4, AskCodeKeeps, SubmitKeeps
<1>5. ASSUME NEW r \in Requests, Die(r) PROVE IInv'
  BY <1>5, EndKeeps DEF Die, Rest
<1>6. ASSUME NEW r \in Requests, Step(r) PROVE IInv'
  BY <1>6, CheckCooldownKeeps, SetCodeKeeps, ResetAttemptsKeeps, SetCooldownKeeps, SendKeeps,
     GetCodeKeeps, CountKeeps, EvictCodeKeeps, SpendCodeKeeps, DeleteAttemptsKeeps,
     FindAccountKeeps, CreateAccountKeeps DEF Step
<1> QED BY <1>1, <1>2, <1>3, <1>4, <1>5, <1>6 DEF Next

\* The inductive invariant holds of every behaviour.
THEOREM Invariant == Spec => []IInv
<1>1. Init => IInv
  BY InitInv, SignInAssumption
<1>2. IInv /\ [Next]_vars => IInv'
  BY NextKeeps, SignInAssumption
<1> QED BY <1>1, <1>2, PTL DEF Spec

\* The Redis keys of app/auth/otp.py keep their types, and no code is ever stored
\* without its expiry, whichever requests overlap or die.
THEOREM TypeCorrect == Spec => []TypeOK
<1>1. IInv => TypeOK
  BY DEF IInv, BasicInv
<1> QED BY <1>1, Invariant, PTL

\* Whoever is about to insert the row found none, and nobody inserted it since, as
\* long as the requests of the kind do not overlap.
CreateInv ==
  \A r \in Requests : task[r].pc = "create" /\ account => mixed[task[r].kind]

\* A step that does not insert the row keeps CreateInv, if it moves its own request
\* to the insert only without one, and forgets no overlap of another that runs.
LEMMA CreateKept ==
  ASSUME CreateInv, NEW r \in Requests, account' = account,
         \A q \in Requests \ {r} : task'[q] = task[q],
         \A q \in Requests \ {r} : Running(q) /\ mixed[task[q].kind] => mixed'[task[q].kind],
         task'[r].pc = "create" => ~account
  PROVE  CreateInv'
<1> SUFFICES ASSUME NEW q \in Requests, task'[q].pc = "create", account'
             PROVE  mixed'[task'[q].kind]
  BY DEF CreateInv
<1>1. q # r
  OBVIOUS
<1> QED BY <1>1 DEF CreateInv, Running

\* A request that ends leaves the others as they are.
LEMMA CreateKeptByEnd ==
  ASSUME IInv, CreateInv, NEW r \in Requests, account' = account, mixed' = mixed, End(r)
  PROVE  CreateInv'
<1>1. /\ \A q \in Requests \ {r} : task'[q] = task[q]
      /\ task'[r].pc = "none"
  BY EndTask DEF IInv
<1> QED BY <1>1, CreateKept

\* So does one that moves on to another label.
LEMMA CreateKeptByGo ==
  ASSUME IInv, CreateInv, NEW r \in Requests, account' = account, mixed' = mixed,
         NEW l \in Labels, l = "create" => ~account, Go(r, l)
  PROVE  CreateInv'
<1>1. /\ \A q \in Requests \ {r} : task'[q] = task[q]
      /\ task'[r].pc = l
  BY GoTask DEF IInv
<1> QED BY <1>1, CreateKept

LEMMA CreateNext ==
  ASSUME IInv, CreateInv, [Next]_vars
  PROVE  CreateInv'
<1>1. CASE UNCHANGED vars
  BY <1>1 DEF CreateInv, vars, web, history
<1>2. CASE Logout \/ Tick
  BY <1>2 DEF CreateInv, Logout, Tick, web, history
<1>3. ASSUME NEW r \in Requests, NEW k \in Kinds, AskCode(r, k) \/ Submit(r, k)
      PROVE  CreateInv'
  <2>1. PICK l \in {"check", "get"}, c \in delivered \cup {NoCode} : Open(r, k, l, c)
    BY <1>3 DEF AskCode, Submit
  <2>2. account' = account /\ mixed' = [mixed EXCEPT ![k] = @ \/ Overlap(r, k)]
    BY <1>3 DEF AskCode, Submit, web
  <2>3. /\ \A q \in Requests \ {r} : task'[q] = task[q]
        /\ task'[r].pc = l
    BY <2>1 DEF Open, IInv, BasicInv
  <2>4. \A j \in Kinds : mixed[j] => mixed'[j]
    BY <2>2 DEF IInv, BasicInv
  <2>5. \A q \in Requests : task[q].kind \in Kinds
    BY DEF IInv, BasicInv, Task
  <2> QED BY <2>2, <2>3, <2>4, <2>5, CreateKept
<1>4. ASSUME NEW r \in Requests, Die(r) PROVE CreateInv'
  BY <1>4, CreateKeptByEnd DEF Die, web, history
<1>5. ASSUME NEW r \in Requests, Step(r) PROVE CreateInv'
  <2>1. CASE CheckCooldown(r)
    BY <2>1, CreateKeptByEnd, CreateKeptByGo DEF CheckCooldown, Labels, web, history
  <2>2. CASE SetCode(r)
    <3>1. PICK k \in Kinds : task[r].kind = k
      BY DEF IInv, BasicInv, Task
    <3>2. account' = account /\ mixed' = [mixed EXCEPT ![k] = Overlap(r, k)]
      BY <2>2, <3>1 DEF SetCode, web
    <3>3. /\ \A q \in Requests \ {r} : task'[q] = task[q]
          /\ task'[r].pc = "reset"
      BY <2>2 DEF SetCode, IInv, BasicInv, Task
    <3>4. \A q \in Requests \ {r} : Running(q) /\ mixed[task[q].kind] => mixed'[task[q].kind]
      BY <3>2 DEF IInv, BasicInv, Task, Overlap
    <3> QED BY <3>2, <3>3, <3>4, CreateKept
  <2>3. CASE ResetAttempts(r)
    BY <2>3, CreateKeptByGo DEF ResetAttempts, Labels, web, history
  <2>4. CASE SetCooldown(r)
    BY <2>4, CreateKeptByGo DEF SetCooldown, Labels, web, history
  <2>5. CASE Send(r)
    BY <2>5, CreateKeptByEnd DEF Send, web, history
  <2>6. CASE GetCode(r)
    <3>1. account' = account /\ mixed' = mixed
      BY <2>6 DEF GetCode, web, history
    <3>2. CASE End(r)
      BY <3>1, <3>2, CreateKeptByEnd
    <3>3. CASE ~End(r)
      <4>1. /\ \A q \in Requests \ {r} : task'[q] = task[q]
            /\ task'[r].pc = "count"
        BY <2>6, <3>3 DEF GetCode, IInv, BasicInv, Task
      <4> QED BY <3>1, <4>1, CreateKept
    <3> QED BY <3>2, <3>3
  <2>7. CASE Count(r)
    BY <2>7, CreateKeptByEnd, CreateKeptByGo DEF Count, Labels, web
  <2>8. CASE EvictCode(r)
    BY <2>8, CreateKeptByGo DEF EvictCode, Labels, web, history
  <2>9. CASE SpendCode(r)
    BY <2>9, CreateKeptByGo DEF SpendCode, Labels, web
  <2>10. CASE DeleteAttempts(r)
    BY <2>10, CreateKeptByEnd, CreateKeptByGo DEF DeleteAttempts, Labels, web, history
  <2>11. CASE FindAccount(r)
    BY <2>11, CreateKeptByEnd, CreateKeptByGo DEF FindAccount, Labels, history
  <2>12. CASE CreateAccount(r)
    <3>1. /\ At(r, "create") /\ Running(r) /\ End(r) /\ mixed' = mixed
      BY <2>12 DEF CreateAccount, At, Running, history
    <3>2. /\ \A q \in Requests \ {r} : task'[q] = task[q]
          /\ task'[r].pc = "none"
      BY <3>1, EndTask DEF IInv
    <3> SUFFICES ASSUME NEW q \in Requests, q # r, task[q].pc = "create", ~mixed[task[q].kind]
                 PROVE  FALSE
      BY <3>1, <3>2 DEF CreateInv
    <3>3. ~account /\ task[q].kind \in Kinds /\ task[r].kind \in Kinds
      BY DEF CreateInv, IInv, BasicInv, Task
    <3>4. task[q].kind = "signup" /\ task[r].kind = "signup"
      BY <3>1, <3>3 DEF IInv, LoginInv, Kinds, At
    <3> QED BY <3>1, <3>4 DEF IInv, KindsInv, Alone, Running, Kinds
  <2> QED BY <1>5, <2>1, <2>2, <2>3, <2>4, <2>5, <2>6, <2>7, <2>8, <2>9, <2>10, <2>11, <2>12 DEF Step
<1> QED BY <1>1, <1>2, <1>3, <1>4, <1>5 DEF Next

\* otp.verify accepts a login code only for a number that has an account, so the
\* lookup of the login handler after it finds one; and the insert of the signup handler
\* meets a row only if another request of its kind overlapped.
THEOREM AcceptedCorrect == Spec => []AcceptedCodeServes
<1>1. Init => CreateInv
  BY DEF Init, CreateInv, NoTask
<1>2. IInv /\ CreateInv /\ [Next]_vars => CreateInv'
  BY CreateNext
<1>3. IInv /\ CreateInv => AcceptedCodeServes
  BY DEF IInv, LoginInv, CreateInv, AcceptedCodeServes, At
<1> QED BY <1>1, <1>2, <1>3, Invariant, PTL DEF Spec

\* A code is accepted once at most while the requests of its kind do not overlap,
\* even if the request that spends it dies half way.
THEOREM SingleUseCorrect == Spec => []SingleUse
<1>1. IInv => SingleUse
  BY DEF IInv, KindsInv, CodeInv, SingleUse
<1> QED BY <1>1, Invariant, PTL

\* A code that reached the user, unused and not run out, is the one stored, and the
\* next try with it is accepted, until it has been tried MAX_ATTEMPTS times.
THEOREM FreshCodeCorrect == Spec => []FreshCodeWorks
<1>1. ASSUME IInv, NEW k \in Kinds, Usable(k), tries[k] < MaxAttempts
      PROVE  code[k] = newest[k] /\ attempts[k] < MaxAttempts
  <2>1. tries[k] \in Nat /\ MaxAttempts \in Nat
    BY <1>1, SignInAssumption DEF IInv, BasicInv
  <2>2. tries[k] <= MaxAttempts
    BY <1>1, <2>1
  <2>3. code[k] = newest[k] /\ attempts[k] = tries[k]
    BY <1>1, <2>2 DEF IInv, KindsInv, CodeInv, Usable
  <2> QED BY <1>1, <2>3
<1>2. IInv => FreshCodeWorks
  BY <1>1 DEF FreshCodeWorks
<1> QED BY <1>2, Invariant, PTL

\* The attempts otp.verify holds against such a code are those made at it, although
\* otp.issue stores the code before it deletes the attempts at the previous one.
THEOREM CountCorrect == Spec => []CountIsOfThisCode
<1>1. IInv => CountIsOfThisCode
  BY DEF IInv, KindsInv, CodeInv, CountIsOfThisCode, Usable
<1> QED BY <1>1, Invariant, PTL
=============================================================================
