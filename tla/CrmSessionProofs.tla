-------------------------- MODULE CrmSessionProofs --------------------------
(***************************************************************************)
(* What a call of the central CRM may count on, for any number of          *)
(* processes and threads and any time-out: its request is carried out at   *)
(* most once, it is over when its time is, nobody else touches the session *)
(* it works on, and it is refused for a cause of its own.                  *)
(*                                                                         *)
(* The invariant says what the local variables of a call tell at each of   *)
(* its control points, and that a call on the shared session holds its     *)
(* lock.                                                                   *)
(***************************************************************************)
EXTENDS CrmSession, FiniteSetTheorems, TLAPS

Working == {"page", "post", "send", "answer"}
Kinds == {"key", "check", "company"}

CallRecords ==
  [kind : Kinds \cup {"none"}, left : Nat, spent : Nat,
   repeated : BOOLEAN, loggedIn : BOOLEAN,
   answer : {"none", "auth", "done", "refused", "lost"}, applied : Nat,
   reply : {"none", "unanswered", "LOGIN_REFUSED", "AUTH_REQUIRED", "answered"}]

Sessions == [made : BOOLEAN, authenticated : BOOLEAN, accepted : BOOLEAN]

\* What a call knows at a control point: the time it has had and has left make
\* up the time-out; its request has been carried out only if the CRM has just
\* said so; a call that repeats its request without a cookie has logged in
\* before it sends it again.
CallFits(label, t) ==
  /\ t \in CallRecords
  /\ label \in Working \cup {"idle", "lock"}
  /\ label # "idle" => t.kind \in Kinds
  /\ label = "lock" => Shared(t.kind) /\ ~t.repeated /\ t.answer = "none"
  /\ label # "idle" /\ t.kind = "key" => t.spent + t.left = Timeout
  /\ label = "idle" \/ t.kind # "key" => t.spent = 0
  /\ t.applied = IF label = "answer" /\ t.answer = "done" THEN 1 ELSE 0
  /\ label \in {"send", "answer"} /\ t.repeated /\ "cookie" \notin configured
       => t.loggedIn

CallsFit ==
  /\ cpc = [c \in Callers |-> cpc[c]] /\ call = [c \in Callers |-> call[c]]
  /\ \A c \in Callers : CallFits(cpc[c], call[c])

\* The lock of the process is with the call that works on its session.
Holds(c) == cpc[c] \in Working /\ Shared(call[c].kind)
LockHeldBy(c) == Holds(c) => sessionLock[home[c]] = c

CrmInv ==
  /\ home \in [Callers -> Processes]
  /\ session \in [Processes -> Sessions]
  /\ sessionLock \in [Processes -> Callers \cup {NoCaller}]
  /\ CallsFit
  /\ \A c \in Callers : LockHeldBy(c)

-----------------------------------------------------------------------------
(* The shapes of a step of a call.                                         *)

\* The caller c comes to a control point with these local variables.
LEMMA PlacedFits ==
  ASSUME CallsFit, configured' = configured,
         NEW c \in Callers, NEW label, NEW t, CallAt(c, label, t),
         CallFits(label, t)
  PROVE  /\ CallsFit'
         /\ cpc'[c] = label /\ call'[c] = t
         /\ \A d \in Callers \ {c} : cpc'[d] = cpc[d] /\ call'[d] = call[d]
<1>1. /\ cpc' = [cpc EXCEPT ![c] = label]
      /\ call' = [call EXCEPT ![c] = t]
  BY DEF CallAt
<1>2. /\ cpc'[c] = label /\ call'[c] = t
      /\ \A d \in Callers \ {c} : cpc'[d] = cpc[d] /\ call'[d] = call[d]
      /\ cpc' = [d \in Callers |-> cpc'[d]] /\ call' = [d \in Callers |-> call'[d]]
  BY <1>1 DEF CallsFit
<1>3. ASSUME NEW d \in Callers PROVE CallFits(cpc[d], call[d])'
  <2>1. CASE d = c
    BY <2>1, <1>2 DEF CallFits
  <2>2. CASE d # c
    BY <2>2, <1>2 DEF CallFits, CallsFit
  <2> QED BY <2>1, <2>2
<1> QED BY <1>2, <1>3 DEF CallsFit

\* A call ends: its finally clause releases the lock if the call holds it.
LEMMA ReplyKeeps ==
  ASSUME CrmInv, UNCHANGED <<home, configured>>, session' \in [Processes -> Sessions],
         NEW c \in Callers,
         NEW reply \in {"unanswered", "LOGIN_REFUSED", "AUTH_REQUIRED", "answered"},
         Reply(c, reply)
  PROVE  CrmInv'
<1> DEFINE t == [NoCall EXCEPT !.reply = reply]
<1>1. CallFits("idle", t)
  BY DEF CallFits, CallRecords, NoCall, Working, Kinds
<1>2. /\ CallsFit'
      /\ cpc'[c] = "idle"
      /\ \A d \in Callers \ {c} : cpc'[d] = cpc[d] /\ call'[d] = call[d]
  BY <1>1, PlacedFits DEF Reply, CrmInv
<1>3. /\ sessionLock' \in [Processes -> Callers \cup {NoCaller}]
      /\ \A w \in Processes :
           sessionLock[w] # c => sessionLock'[w] = sessionLock[w]
  BY DEF Reply, Unlocked, CrmInv
<1>4. ASSUME NEW d \in Callers PROVE LockHeldBy(d)'
  <2>1. CASE d = c
    BY <2>1, <1>2 DEF LockHeldBy, Holds, Working
  <2>2. CASE d # c
    BY <2>2, <1>2, <1>3 DEF LockHeldBy, Holds, CrmInv
  <2> QED BY <2>1, <2>2
<1> QED BY <1>2, <1>3, <1>4 DEF CrmInv

\* A call goes on under the lock it needs.
LEMMA PlacedKeeps ==
  ASSUME CrmInv, UNCHANGED <<home, configured, sessionLock>>,
         session' \in [Processes -> Sessions],
         NEW c \in Callers, NEW label, NEW t, CallAt(c, label, t),
         CallFits(label, t),
         label \in Working /\ Shared(t.kind) => sessionLock[home[c]] = c
  PROVE  CrmInv'
<1>1. /\ CallsFit'
      /\ cpc'[c] = label /\ call'[c] = t
      /\ \A d \in Callers \ {c} : cpc'[d] = cpc[d] /\ call'[d] = call[d]
  BY PlacedFits DEF CrmInv
<1>2. ASSUME NEW d \in Callers PROVE LockHeldBy(d)'
  BY <1>1 DEF LockHeldBy, Holds, CrmInv
<1> QED BY <1>1, <1>2 DEF CrmInv

\* The next request of a call that is at work, or the end of its time.
LEMMA RequestKeeps ==
  ASSUME CrmInv, UNCHANGED <<home, configured>>, session' \in [Processes -> Sessions],
         NEW c \in Callers, cpc[c] \in Working,
         NEW label \in Working, NEW t, t.kind = call[c].kind,
         CallFits(label, t), Request(c, label, t)
  PROVE  CrmInv'
<1>1. CASE TimeFor(t) = 0
  BY <1>1, ReplyKeeps DEF Request
<1>2. CASE TimeFor(t) # 0
  <2> DEFINE u == [t EXCEPT !.left = TimeFor(t)]
  <2>1. CallFits(label, u) /\ u.kind = t.kind
    BY CrmBoundsAssumption DEF CallFits, CallRecords, TimeFor, Working, Shared
  <2>2. CallAt(c, label, u) /\ UNCHANGED sessionLock
    BY <1>2 DEF Request
  <2>3. Shared(u.kind) => sessionLock[home[c]] = c
    BY <2>1 DEF CrmInv, LockHeldBy, Holds
  <2> HIDE DEF u
  <2> QED BY <2>1, <2>2, <2>3, PlacedKeeps
<1> QED BY <1>1, <1>2

-----------------------------------------------------------------------------
(* The steps of a call.                                                    *)

\* A session taken over or renewed.
LEMMA SessionTyped ==
  ASSUME CrmInv, NEW c \in Callers, NEW renewed \in BOOLEAN
  PROVE  /\ SessionFor(c, renewed) \in Sessions
         /\ SessionFor(c, renewed).made
         /\ ~SessionFor(c, TRUE).authenticated
         /\ [session EXCEPT ![home[c]] = SessionFor(c, renewed)]
              \in [Processes -> Sessions]
<1>1. home[c] \in Processes /\ session[home[c]] \in Sessions
  BY DEF CrmInv
<1>2. SessionFor(c, renewed) \in Sessions /\ SessionFor(c, renewed).made
      /\ ~SessionFor(c, TRUE).authenticated
  BY <1>1 DEF SessionFor, Sessions, NoSession
<1> QED BY <1>1, <1>2 DEF CrmInv

\* A call begins with its whole time and nothing done, before it has the lock.
LEMMA BeginCallKeeps ==
  ASSUME CrmInv, UNCHANGED <<home, configured>>, NEW c \in Callers,
         NEW kind \in Kinds, BeginCall(c, kind)
  PROVE  CrmInv'
<1> DEFINE t == [NoCall EXCEPT !.kind = kind, !.left = Timeout]
           label == IF Shared(kind) THEN "lock" ELSE "page"
<1>1. t.kind = kind /\ CallFits(label, t)
  <2>1. /\ t \in CallRecords /\ t.kind = kind /\ t.left = Timeout
        /\ t.spent = 0 /\ t.applied = 0 /\ ~t.repeated /\ t.answer = "none"
    BY CrmBoundsAssumption DEF CallRecords, NoCall, Kinds
  <2>2. /\ label \in {"lock", "page"}
        /\ label = "lock" => Shared(kind)
    OBVIOUS
  <2> HIDE DEF t, label
  <2> QED BY <2>1, <2>2, CrmBoundsAssumption DEF CallFits, Working
<1>2. CallAt(c, label, t)
  BY DEF BeginCall
<1>3. label \in Working => ~Shared(t.kind)
  BY <1>1 DEF Working
<1>4. UNCHANGED sessionLock /\ session' \in [Processes -> Sessions]
  BY DEF BeginCall, CrmInv
<1> HIDE DEF t, label
<1> QED BY <1>1, <1>2, <1>3, <1>4, PlacedKeeps

\* The lock is free, so its taker is the only one inside the process's session.
LEMMA TakeSessionKeeps ==
  ASSUME CrmInv, UNCHANGED <<home, configured>>, NEW c \in Callers, TakeSession(c)
  PROVE  CrmInv'
<1> DEFINE t == call[c]
           s == SessionFor(c, t.kind = "check")
           label == IF "cookie" \in configured \/ s.authenticated
                      THEN "send" ELSE "page"
           u == [t EXCEPT !.left = TimeFor(t)]
<1>1. session' \in [Processes -> Sessions]
  <2>1. (t.kind = "check") \in BOOLEAN
    OBVIOUS
  <2> QED BY <2>1, SessionTyped DEF TakeSession
<1>2. CallFits("lock", t)
  BY DEF TakeSession, CrmInv, CallsFit
<1>3. CASE TimeFor(t) = 0
  <2>1. CallAt(c, "idle", [NoCall EXCEPT !.reply = "unanswered"]) /\ UNCHANGED sessionLock
    BY <1>3 DEF TakeSession
  <2>2. sessionLock[home[c]] # c
    BY CallersAssumption DEF TakeSession, MayLock
  <2>3. Reply(c, "unanswered")
    BY <2>1, <2>2 DEF Reply, Unlocked
  <2> QED BY <1>1, <2>3, ReplyKeeps
<1>4. CASE TimeFor(t) # 0
  <2>1. CallAt(c, label, u) /\ sessionLock' = [sessionLock EXCEPT ![home[c]] = c]
    BY <1>4 DEF TakeSession
  <2>2. label \in Working /\ CallFits(label, u)
    BY <1>2, CrmBoundsAssumption
    DEF CallFits, CallRecords, TimeFor, Working, Shared, Kinds
  <2> HIDE DEF u, label
  <2>3. /\ CallsFit'
        /\ cpc'[c] = label /\ call'[c] = u
        /\ \A d \in Callers \ {c} : cpc'[d] = cpc[d] /\ call'[d] = call[d]
    BY <2>1, <2>2, PlacedFits DEF CrmInv
  <2>4. /\ sessionLock' \in [Processes -> Callers \cup {NoCaller}]
        /\ sessionLock'[home[c]] = c
        /\ \A w \in Processes \ {home[c]} : sessionLock'[w] = sessionLock[w]
    BY <2>1 DEF CrmInv
  <2>5. ASSUME NEW d \in Callers PROVE LockHeldBy(d)'
    <3>1. CASE d = c
      BY <3>1, <2>4 DEF LockHeldBy
    <3>2. CASE d # c
      <4>1. home[d] = home[c] => ~Holds(d)
        BY CallersAssumption DEF TakeSession, MayLock, CrmInv, LockHeldBy
      <4> QED BY <4>1, <3>2, <2>3, <2>4 DEF LockHeldBy, Holds, CrmInv
    <3> QED BY <3>1, <3>2
  <2> QED BY <1>1, <2>3, <2>4, <2>5 DEF CrmInv
<1> QED BY <1>3, <1>4

\* A call that gets no lock in time has held nothing.
LEMMA LockTimesOutKeeps ==
  ASSUME CrmInv, UNCHANGED <<home, configured>>, NEW c \in Callers,
         LockTimesOut(c)
  PROVE  CrmInv'
BY ReplyKeeps DEF LockTimesOut, CrmInv

\* The login page is fetched on time that is left, or the call ends.
LEMMA LoginPageKeeps ==
  ASSUME CrmInv, UNCHANGED <<home, configured>>, NEW c \in Callers, LoginPage(c)
  PROVE  CrmInv'
<1>1. session' \in [Processes -> Sessions] /\ cpc[c] \in Working
  BY DEF LoginPage, CrmInv, Working
<1>2. CASE Request(c, "post", call[c])
  <2>1. CallFits("post", call[c])
    <3>1. CallFits("page", call[c])
      BY DEF LoginPage, CrmInv, CallsFit
    <3> QED BY <3>1 DEF CallFits, Working
  <2> QED BY <1>1, <1>2, <2>1, RequestKeeps DEF Working
<1>3. CASE Reply(c, "LOGIN_REFUSED")
  BY <1>1, <1>3, ReplyKeeps
<1> QED BY <1>2, <1>3 DEF LoginPage

\* A login changes the session of the process whose lock the call holds.
LEMMA LoggedInKeeps ==
  ASSUME CrmInv, UNCHANGED <<home, configured>>, NEW c \in Callers, LoggedIn(c)
  PROVE  CrmInv'
<1> DEFINE t == [call[c] EXCEPT !.loggedIn = TRUE]
<1>1. session' \in [Processes -> Sessions] /\ cpc[c] \in Working
  <2>1. home[c] \in Processes /\ session[home[c]] \in Sessions
    BY DEF CrmInv
  <2>2. [session[home[c]] EXCEPT !.authenticated = TRUE, !.accepted = TRUE]
          \in Sessions
    BY <2>1 DEF Sessions
  <2>3. session' = session
        \/ session' = [session EXCEPT ![home[c]] =
             [session[home[c]] EXCEPT !.authenticated = TRUE, !.accepted = TRUE]]
    BY DEF LoggedIn, CrmInv
  <2> QED BY <2>1, <2>2, <2>3 DEF CrmInv, LoggedIn, Working
<1>2. CallFits("send", t) /\ t.kind = call[c].kind
  <2>1. CallFits("post", call[c])
    BY DEF LoggedIn, CrmInv, CallsFit
  <2> QED BY <2>1 DEF CallFits, CallRecords, Working
<1>3. Request(c, "send", t)
  BY DEF LoggedIn
<1> HIDE DEF t
<1> QED BY <1>1, <1>2, <1>3, RequestKeeps DEF Working

\* A refused login ends the call.
LEMMA LoginRefusedKeeps ==
  ASSUME CrmInv, UNCHANGED <<home, configured>>, NEW c \in Callers,
         LoginRefused(c)
  PROVE  CrmInv'
BY ReplyKeeps DEF LoginRefused, CrmInv

\* The CRM carries out a request at most once, and only when none was carried
\* out before.
LEMMA CrmHandlesKeeps ==
  ASSUME CrmInv, UNCHANGED <<home, configured>>, NEW c \in Callers,
         CrmHandles(c)
  PROVE  CrmInv'
<1>1. PICK answer \in {"done", "refused", "auth", "lost"} :
        CallAt(c, "answer",
               [call[c] EXCEPT !.answer = answer,
                  !.applied = IF answer = "done" THEN @ + 1 ELSE @])
  BY DEF CrmHandles
<1> DEFINE t == [call[c] EXCEPT !.answer = answer,
                   !.applied = IF answer = "done" THEN @ + 1 ELSE @]
<1>2. CallFits("send", call[c]) /\ cpc[c] \in Working
  BY DEF CrmHandles, CrmInv, CallsFit, Working
<1>3. CallFits("answer", t) /\ t.kind = call[c].kind
  <2>1. call[c] \in CallRecords /\ call[c].applied = 0
    BY <1>2 DEF CallFits
  <2>2. /\ t \in CallRecords
        /\ t.kind = call[c].kind /\ t.left = call[c].left
        /\ t.spent = call[c].spent /\ t.repeated = call[c].repeated
        /\ t.loggedIn = call[c].loggedIn /\ t.answer = answer
        /\ t.applied = IF answer = "done" THEN 1 ELSE 0
    <3> DEFINE r == call[c]
               times == IF answer = "done" THEN r.applied + 1 ELSE r.applied
    <3>1. t = [r EXCEPT !.answer = answer, !.applied = times]
      BY <2>1 DEF CallRecords
    <3>2. times = (IF answer = "done" THEN 1 ELSE 0) /\ times \in Nat
      BY <2>1
    <3> HIDE DEF times, t
    <3> QED BY <2>1, <3>1, <3>2 DEF CallRecords
  <2> HIDE DEF t
  <2> QED BY <1>2, <2>2 DEF CallFits, Working
<1>4. CallAt(c, "answer", t) /\ UNCHANGED sessionLock
      /\ session' \in [Processes -> Sessions]
  BY <1>1 DEF CrmHandles, CrmInv
<1>5. Shared(t.kind) => sessionLock[home[c]] = c
  BY <1>2, <1>3 DEF CrmInv, LockHeldBy, Holds
<1> HIDE DEF t
<1> QED BY <1>3, <1>4, <1>5, PlacedKeeps

\* An answer ends the call and gives the lock back.
LEMMA ReceiveKeeps ==
  ASSUME CrmInv, UNCHANGED <<home, configured>>, NEW c \in Callers, Receive(c)
  PROVE  CrmInv'
BY ReplyKeeps DEF Receive, CrmInv

\* The session is renewed: without a cookie the call has to log in first.
LEMMA LogInAgainKeeps ==
  ASSUME CrmInv, UNCHANGED <<home, configured>>, NEW c \in Callers,
         LogInAgain(c)
  PROVE  CrmInv'
<1> DEFINE s == SessionFor(c, TRUE)
           t == [call[c] EXCEPT !.repeated = TRUE, !.answer = "none"]
           label == IF "cookie" \in configured \/ s.authenticated
                      THEN "send" ELSE "page"
<1>1. /\ session' = [session EXCEPT ![home[c]] = s]
      /\ Request(c, label, t)
      /\ cpc[c] \in Working
  BY DEF LogInAgain, WithSession, Working
<1>2. session' \in [Processes -> Sessions] /\ ~s.authenticated
  BY <1>1, SessionTyped
<1>3. CallFits(label, t) /\ t.kind = call[c].kind
  <2>1. CallFits("answer", call[c]) /\ call[c].answer = "auth"
    BY DEF LogInAgain, Repeats, CrmInv, CallsFit
  <2>2. /\ t \in CallRecords
        /\ t.kind = call[c].kind /\ t.left = call[c].left
        /\ t.spent = call[c].spent /\ t.answer = "none" /\ t.applied = 0
    BY <2>1 DEF CallFits, CallRecords
  <2>3. label \in {"send", "page"} /\ (label = "send" => "cookie" \in configured)
    BY <1>2
  <2> HIDE DEF t, label, s
  <2> QED BY <2>1, <2>2, <2>3 DEF CallFits, Working
<1>4. label \in Working
  BY DEF Working
<1> HIDE DEF t, label, s
<1> QED BY <1>1, <1>2, <1>3, <1>4, RequestKeeps

\* A request without an answer ends the call.
LEMMA UnansweredKeeps ==
  ASSUME CrmInv, UNCHANGED <<home, configured>>, NEW c \in Callers,
         Unanswered(c)
  PROVE  CrmInv'
BY ReplyKeeps DEF Unanswered, CrmInv

\* The CRM forgets a login: no lock and no call is touched.
LEMMA SessionExpiresKeeps ==
  ASSUME CrmInv, SessionExpires
  PROVE  CrmInv'
<1>1. PICK w \in Processes : session' = [session EXCEPT ![w].accepted = FALSE]
  BY DEF SessionExpires
<1>2. session' \in [Processes -> Sessions]
  <2>1. [session[w] EXCEPT !.accepted = FALSE] \in Sessions
    BY DEF CrmInv, Sessions
  <2>2. session' = [session EXCEPT ![w] = [session[w] EXCEPT !.accepted = FALSE]]
    BY <1>1
  <2> QED BY <2>1, <2>2 DEF CrmInv
<1> QED
  BY <1>2 DEF SessionExpires, CrmInv, CallsFit, CallFits, LockHeldBy, Holds

\* Time passes for everybody, and only while nobody is past his deadline.
LEMMA TickKeeps ==
  ASSUME CrmInv, Tick
  PROVE  CrmInv'
<1>1. /\ UNCHANGED <<home, configured, session, sessionLock, cpc>>
      /\ call' = [c \in Callers |->
                   IF cpc[c] = "idle" THEN call[c] ELSE Passed(call[c])]
  BY DEF Tick
<1>2. ASSUME NEW c \in Callers
      PROVE  CallFits(cpc[c], call[c])' /\ call'[c].kind = call[c].kind
  <2>1. CallFits(cpc[c], call[c])
    BY DEF CrmInv, CallsFit
  <2>2. CASE cpc[c] = "idle"
    BY <2>1, <2>2, <1>1 DEF CallFits
  <2>3. CASE cpc[c] # "idle"
    <3> DEFINE t == call[c]
               u == Passed(t)
    <3>1. t \in CallRecords /\ call'[c] = u
      BY <2>1, <2>3, <1>1 DEF CallFits
    <3>2. t.kind = "key" => t.left # 0
      BY <2>3 DEF Tick, Expired
    <3>3. /\ u \in CallRecords
          /\ u.kind = t.kind /\ u.repeated = t.repeated
          /\ u.loggedIn = t.loggedIn /\ u.answer = t.answer
          /\ u.applied = t.applied
          /\ t.kind # "key" => u.spent = t.spent
          /\ t.kind = "key" /\ t.left # 0 => u.spent + u.left = t.spent + t.left
      <4> DEFINE rest == IF t.left = 0 THEN 0 ELSE t.left - 1
                 had == IF t.kind = "key" THEN t.spent + 1 ELSE t.spent
      <4>1. t.left \in Nat /\ t.spent \in Nat
        BY <3>1 DEF CallRecords
      <4>2. rest \in Nat /\ had \in Nat
            /\ (t.kind # "key" => had = t.spent)
            /\ (t.kind = "key" /\ t.left # 0 => had + rest = t.spent + t.left)
        BY <4>1
      <4>3. u = [t EXCEPT !.left = rest, !.spent = had]
        BY <3>1 DEF Passed, CallRecords
      <4> HIDE DEF rest, had, t, u
      <4> QED BY <3>1, <4>2, <4>3 DEF CallRecords
    <3> HIDE DEF u
    <3> QED BY <2>1, <2>3, <3>1, <3>2, <3>3, <1>1 DEF CallFits
  <2> QED BY <2>2, <2>3
<1>3. CallsFit'
  BY <1>1, <1>2 DEF CrmInv, CallsFit
<1> QED BY <1>1, <1>2, <1>3 DEF CrmInv, LockHeldBy, Holds

-----------------------------------------------------------------------------
(* The invariant.                                                          *)

\* At the start no call is made and no lock is taken.
LEMMA CrmInvInit ==
  ASSUME CrmInit
  PROVE  CrmInv
<1>1. home \in [Callers -> Processes]
  BY CallersAssumption DEF CrmInit
<1>2. ASSUME NEW c \in Callers PROVE CallFits("idle", NoCall)
  BY DEF CallFits, CallRecords, NoCall, Kinds, Working
<1>3. session \in [Processes -> Sessions]
  BY DEF CrmInit, NoSession, Sessions
<1>4. CallsFit /\ \A c \in Callers : cpc[c] = "idle"
  BY <1>2 DEF CrmInit, CallsFit, CallFits
<1> QED
  BY <1>1, <1>3, <1>4 DEF CrmInit, CrmInv, LockHeldBy, Holds, Working

\* Every step of a call keeps the invariant.
LEMMA CallStepKeeps ==
  ASSUME CrmInv, NEW c \in Callers, CallStep(c)
  PROVE  CrmInv'
<1>1. UNCHANGED <<home, configured>>
  BY DEF CallStep
<1> QED
  BY <1>1, TakeSessionKeeps, LockTimesOutKeeps, LoginPageKeeps, LoggedInKeeps,
     LoginRefusedKeeps, CrmHandlesKeeps, ReceiveKeeps, LogInAgainKeeps,
     UnansweredKeeps DEF CallStep

\* The queue in front of the client and the CRM's other doings leave the
\* variables of the calls alone.
LEMMA CallsUntouched ==
  ASSUME CrmInv, UNCHANGED <<home, configured, callVars>>
  PROVE  CrmInv'
BY DEF callVars, CrmInv, CallsFit, CallFits, LockHeldBy, Holds

\* So does every step of the client, its writers and the CRM.
LEMMA CrmStep ==
  ASSUME CrmInv, [CrmNext]_crmVars
  PROVE  CrmInv'
<1>1. CASE \E c \in Callers : CallStep(c)
  BY <1>1, CallStepKeeps
<1>2. ASSUME NEW c \in Callers, WriterStep(c) PROVE CrmInv'
  <2>1. CASE WriterCalls(c)
    BY <2>1, BeginCallKeeps DEF WriterCalls, Kinds
  <2>2. CASE TakeSlot(c) \/ TakeKey(c) \/ WriterLeaves(c)
    BY <2>2, CallsUntouched DEF TakeSlot, TakeKey, WriterLeaves
  <2> QED BY <1>2, <2>1, <2>2 DEF WriterStep
<1>3. CASE \E c \in Callers : CallDirectly(c)
  BY <1>3, BeginCallKeeps DEF CallDirectly, Kinds
<1>4. CASE \E c \in Callers, k \in WrittenKeys : StartWriter(c, k)
  BY <1>4, CallsUntouched DEF StartWriter
<1>5. CASE CookieExpires \/ UNCHANGED crmVars
  BY <1>5, CallsUntouched DEF CookieExpires, crmVars
<1> QED
  BY <1>1, <1>2, <1>3, <1>4, <1>5, SessionExpiresKeeps, TickKeeps DEF CrmNext

\* What a call knows at its control points, and who holds the session lock:
\* crm.py:846-903, for any number of threads, processes and ticks.
THEOREM CrmInvariance == CrmSpec => []CrmInv
<1>1. CrmInit => CrmInv
  BY CrmInvInit
<1>2. CrmInv /\ [CrmNext]_crmVars => CrmInv'
  BY CrmStep
<1> QED BY <1>1, <1>2, PTL DEF CrmSpec

-----------------------------------------------------------------------------
(* What follows from it.                                                   *)

\* A request that is repeated after a new login has been refused the first
\* time, so the CRM carries a call out at most once.
THEOREM CalledAtMostOnce == CrmSpec => []AppliedAtMostOnce
<1>1. CrmInv => AppliedAtMostOnce
  BY DEF CrmInv, CallsFit, CallFits, AppliedAtMostOnce
<1> QED BY <1>1, CrmInvariance, PTL

\* The wait for the lock, two logins and two requests share one time-out.
THEOREM CallsKeepTheirDeadline == CrmSpec => []WithinDeadline
<1>1. CrmInv => WithinDeadline
  BY CrmBoundsAssumption DEF CrmInv, CallsFit, CallFits, CallRecords, WithinDeadline
<1> QED BY <1>1, CrmInvariance, PTL

\* Two calls on the session of one process do not work at the same time.
LEMMA OneHolder ==
  ASSUME CrmInv, NEW c \in Callers, NEW d \in Callers, Holds(c), Holds(d),
         home[c] = home[d]
  PROVE  c = d
BY DEF CrmInv, LockHeldBy

\* The session a request is sent on stays the session of its process: a step of
\* another call that replaces it or logs it in holds the lock of the process,
\* or has found it free.
LEMMA SessionStep ==
  ASSUME CrmInv, [CrmNext]_crmVars, NEW c \in Callers, Holds(c),
         UNCHANGED cpc[c]
  PROVE  /\ session'[home[c]].made = session[home[c]].made
         /\ session'[home[c]].authenticated = session[home[c]].authenticated
<1>1. home[c] \in Processes /\ session \in [Processes -> Sessions]
  BY DEF CrmInv
<1>2. SUFFICES ASSUME session' # session
               PROVE  /\ session'[home[c]].made = session[home[c]].made
                      /\ session'[home[c]].authenticated
                           = session[home[c]].authenticated
  OBVIOUS
<1>3. CASE SessionExpires
  BY <1>1, <1>3 DEF SessionExpires, Sessions
<1>4. ASSUME NEW d \in Callers,
             TakeSession(d) \/ LoggedIn(d) \/ LogInAgain(d)
      PROVE  session'[home[c]] = session[home[c]]
  <2>1. session' \in {session, [session EXCEPT ![home[d]] = session'[home[d]]]}
    BY <1>1, <1>4 DEF TakeSession, LoggedIn, LogInAgain, WithSession, CrmInv
  <2>2. home[d] # home[c]
    <3>1. CASE TakeSession(d)
      BY <3>1, CallersAssumption DEF TakeSession, MayLock, CrmInv, LockHeldBy
    <3>2. CASE LoggedIn(d) \/ LogInAgain(d)
      <4>1. Holds(d)
        BY <1>2, <3>2 DEF LoggedIn, LogInAgain, Repeats, Holds, Working, Shared
      <4>2. d # c
        <5>1. cpc[d] # cpc'[d]
          BY <3>2, <1>2 DEF LoggedIn, LogInAgain, WithSession, Request, Reply,
             CallAt, CrmInv, CallsFit
        <5> QED BY <5>1
      <4> QED BY <4>1, <4>2, OneHolder
    <3> QED BY <1>4, <3>1, <3>2
  <2> QED BY <1>1, <2>1, <2>2
<1>5. \/ SessionExpires
      \/ \E d \in Callers : TakeSession(d) \/ LoggedIn(d) \/ LogInAgain(d)
  BY <1>2 DEF CrmNext, crmVars, callVars, CallStep, WriterStep, LockTimesOut,
     LoginPage, LoginRefused, CrmHandles, Receive, Unanswered, TakeSlot, TakeKey,
     WriterCalls, WriterLeaves, CallDirectly, BeginCall, StartWriter,
     CookieExpires, Tick
<1> QED BY <1>3, <1>4, <1>5

\* Nobody replaces or closes the session under a request: crm.py:846-903.
THEOREM SessionStays == CrmSpec => SessionNotReplaced
<1>1. CrmInv /\ [CrmNext]_crmVars =>
        [\A c \in Callers :
           (/\ cpc[c] \in {"page", "post", "send", "answer"} /\ UNCHANGED cpc[c]
            /\ Shared(call[c].kind))
           => /\ session'[home[c]].made = session[home[c]].made
              /\ session'[home[c]].authenticated
                   = session[home[c]].authenticated]_crmVars
  BY SessionStep DEF Holds, Working
<1> QED BY <1>1, CrmInvariance, PTL DEF CrmSpec, SessionNotReplaced

\* How a call that ends answers its caller.
LEMMA ReplyIs ==
  ASSUME CallsFit, NEW c \in Callers, NEW reply, Reply(c, reply)
  PROVE  call'[c].reply = reply
BY DEF Reply, CallAt, CallsFit, NoCall

\* Only the caller himself ends a request he waits for.
LEMMA OnlyItsOwnSteps ==
  ASSUME CrmInv, [CrmNext]_crmVars, NEW c \in Callers, cpc[c] = "answer",
         cpc'[c] # cpc[c]
  PROVE  Receive(c) \/ LogInAgain(c) \/ Unanswered(c)
<1>1. PICK d \in Callers : CallStep(d) \/ WriterCalls(d) \/ CallDirectly(d)
  BY DEF CrmNext, crmVars, callVars, WriterStep, TakeSlot, TakeKey, WriterLeaves,
     StartWriter, SessionExpires, CookieExpires, Tick
<1>2. ASSUME d # c PROVE FALSE
  <2>1. ASSUME NEW label, NEW t, CallAt(d, label, t) PROVE FALSE
    BY <2>1, <1>2 DEF CallAt, CrmInv, CallsFit
  <2> QED
    BY <1>1, <2>1 DEF CallStep, TakeSession, LockTimesOut, LoginPage, LoggedIn,
       LoginRefused, CrmHandles, Receive, LogInAgain, Unanswered, WithSession,
       Request, Reply, WriterCalls, CallDirectly, BeginCall
<1> QED
  BY <1>1, <1>2 DEF CallStep, TakeSession, LockTimesOut, LoginPage, LoggedIn,
     LoginRefused, CrmHandles, WriterCalls, CallDirectly, BeginCall

\* A call refused on the shared session with a cookie: the cookie is no good.
RefusalFits(c) ==
  cpc[c] = "answer" /\ call[c].answer = "auth" /\ Shared(call[c].kind)
    /\ "cookie" \in configured => ~cookieValid

RefusalsFit == configured \in Credentials /\ \A c \in Callers : RefusalFits(c)

\* The configuration is fixed, and a cookie that has expired stays expired.
LEMMA CookieStays ==
  ASSUME [CrmNext]_crmVars
  PROVE  configured' = configured /\ (cookieValid' => cookieValid)
<1>1. CASE CookieExpires
  BY <1>1 DEF CookieExpires
<1>2. CASE ~CookieExpires
  <2>1. UNCHANGED <<configured, cookieValid>>
    BY ZenonT(60), <1>2 DEF CrmNext, crmVars, CallStep, WriterStep, TakeSlot,
       TakeKey, WriterCalls, WriterLeaves, CallDirectly, StartWriter,
       SessionExpires, Tick
  <2> QED BY <2>1
<1> QED BY <1>1, <1>2

\* A call comes to its answer from the CRM alone, and an expired cookie stays
\* expired.
LEMMA RefusalStep ==
  ASSUME CrmInv, [CrmNext]_crmVars, NEW c \in Callers, RefusalFits(c)
  PROVE  RefusalFits(c)'
<1>1. configured' = configured /\ (cookieValid' => cookieValid)
  BY CookieStays
<1>2. CASE cpc'[c] = cpc[c] /\ call'[c].answer = call[c].answer
             /\ call'[c].kind = call[c].kind
  BY <1>1, <1>2 DEF RefusalFits, Shared
<1>3. CASE CrmHandles(c)
  <2>1. PICK accepted \in Accepted(c) :
          \E answer \in IF accepted THEN {"done", "refused", "lost"}
                                    ELSE {"auth", "lost"} :
            CallAt(c, "answer",
                   [call[c] EXCEPT !.answer = answer,
                      !.applied = IF answer = "done" THEN @ + 1 ELSE @])
    BY <1>3 DEF CrmHandles
  <2>2. call[c] \in CallRecords
    BY DEF CrmInv, CallsFit, CallFits
  <2>3. call'[c].kind = call[c].kind /\ (call'[c].answer = "auth" => ~accepted)
    <3>1. PICK answer : /\ answer = "auth" => ~accepted
                        /\ CallAt(c, "answer",
                                  [call[c] EXCEPT !.answer = answer,
                                     !.applied = IF answer = "done" THEN @ + 1 ELSE @])
      BY <2>1
    <3>2. call'[c] = [call[c] EXCEPT !.answer = answer,
                        !.applied = IF answer = "done" THEN @ + 1 ELSE @]
      BY <3>1 DEF CallAt, CrmInv, CallsFit
    <3>3. call'[c].kind = call[c].kind /\ call'[c].answer = answer
      BY <2>2, <3>2 DEF CallRecords
    <3> QED BY <3>1, <3>3
  <2>4. Shared(call[c].kind) /\ "cookie" \in configured => accepted = cookieValid
    BY <2>1 DEF Accepted, Shared
  <2> QED BY <1>1, <2>3, <2>4 DEF RefusalFits, Shared
<1>4. CASE cpc'[c] # "answer"
  BY <1>4 DEF RefusalFits
<1>5. \/ cpc'[c] = cpc[c] /\ call'[c].answer = call[c].answer
           /\ call'[c].kind = call[c].kind
      \/ CrmHandles(c) \/ cpc'[c] # "answer"
  <2>1. CASE UNCHANGED <<cpc, call>>
    BY <2>1
  <2>2. CASE Tick
    BY <2>2 DEF Tick, Passed, CrmInv, CallsFit, CallFits, CallRecords
  <2>3. ASSUME NEW d \in Callers, NEW label, NEW t, CallAt(d, label, t),
               label # "answer"
        PROVE  \/ cpc'[c] = cpc[c] /\ call'[c].answer = call[c].answer
                    /\ call'[c].kind = call[c].kind
               \/ cpc'[c] # "answer"
    BY <2>3 DEF CallAt, CrmInv, CallsFit
  <2>4. ASSUME NEW d \in Callers, CallStep(d) \/ WriterCalls(d) \/ CallDirectly(d),
               ~CrmHandles(d)
        PROVE  \E label \in Working \cup {"idle", "lock"} : \E t :
                 label # "answer" /\ CallAt(d, label, t)
    BY <2>4 DEF CallStep, TakeSession, LockTimesOut, LoginPage, LoggedIn,
       LoginRefused, Receive, LogInAgain, Unanswered, WithSession, Request, Reply,
       WriterCalls, CallDirectly, BeginCall, Working
  <2>5. ASSUME NEW d \in Callers, CrmHandles(d), d # c
        PROVE  cpc'[c] = cpc[c] /\ call'[c] = call[c]
    BY <2>5 DEF CrmHandles, CallAt, CrmInv, CallsFit
  <2>6. \/ UNCHANGED <<cpc, call>> \/ Tick
        \/ \E d \in Callers : CallStep(d) \/ WriterCalls(d) \/ CallDirectly(d)
    BY DEF CrmNext, crmVars, callVars, WriterStep, TakeSlot, TakeKey,
       WriterLeaves, StartWriter, SessionExpires, CookieExpires
  <2> QED BY <2>1, <2>2, <2>3, <2>4, <2>5, <2>6
<1> QED BY <1>1, <1>2, <1>3, <1>4, <1>5

\* A call for a key is told AUTH_REQUIRED only after a login of its own or,
\* where a cookie is configured, when that cookie has expired: crm.py:755-788.
THEOREM RefusalsHaveCause == CrmSpec => RefusedForCause
<1>1. ASSUME CrmInv, RefusalsFit, [CrmNext]_crmVars,
             NEW c \in Callers, cpc[c] = "answer", cpc'[c] = "idle",
             call[c].kind = "key", call'[c].reply = "AUTH_REQUIRED"
      PROVE  IF "cookie" \in configured THEN ~cookieValid ELSE call[c].loggedIn
  <2>1. CallFits("answer", call[c])
    BY <1>1 DEF CrmInv, CallsFit
  <2>2. ~Repeats(call[c]) /\ call[c].answer = "auth"
    <3>1. Receive(c) \/ LogInAgain(c) \/ Unanswered(c)
      BY <1>1, OnlyItsOwnSteps
    <3>2. ASSUME NEW reply, Reply(c, reply) PROVE reply = "AUTH_REQUIRED"
      BY <1>1, <3>2, ReplyIs DEF CrmInv
    <3>3. ~Unanswered(c)
      BY <3>2 DEF Unanswered
    <3>4. ~LogInAgain(c)
      <4>1. ASSUME LogInAgain(c) PROVE cpc'[c] \in Working \/ Reply(c, "unanswered")
        BY <4>1, <1>1 DEF LogInAgain, WithSession, Request, CallAt, Working, CrmInv,
           CallsFit
      <4> QED BY <4>1, <3>2, <1>1 DEF Working
    <3> QED BY <3>1, <3>2, <3>3, <3>4 DEF Receive
  <2>3. CASE "cookie" \in configured
    BY <1>1, <2>2, <2>3 DEF RefusalsFit, RefusalFits, Shared
  <2>4. CASE "cookie" \notin configured
    <3>1. call[c].repeated
      BY <1>1, <2>2, <2>4, CredentialsAssumption DEF Repeats, RefusalsFit
    <3> QED BY <1>1, <2>1, <2>4, <3>1 DEF CallFits
  <2> QED BY <2>3, <2>4
<1>2. CrmInv /\ RefusalsFit /\ [CrmNext]_crmVars =>
        [\A c \in Callers :
           (/\ cpc[c] = "answer" /\ cpc'[c] = "idle" /\ call[c].kind = "key"
            /\ call'[c].reply = "AUTH_REQUIRED")
           => IF "cookie" \in configured THEN ~cookieValid
                                         ELSE call[c].loggedIn]_crmVars
  BY <1>1
<1>3. CrmInit => RefusalsFit
  BY DEF CrmInit, RefusalsFit, RefusalFits
<1>4. CrmInv /\ RefusalsFit /\ [CrmNext]_crmVars => RefusalsFit'
  BY CookieStays, RefusalStep DEF RefusalsFit
<1> QED BY <1>2, <1>3, <1>4, CrmInvariance, PTL DEF CrmSpec, RefusedForCause

-----------------------------------------------------------------------------
(* The queue of the writers.                                               *)

Places == {"none", "slot", "key", "calls"}
WritingRecords ==
  [at : Places, key : WrittenKeys \cup {NoWrittenKey}, written : BOOLEAN]

\* Behind the slot: the writers of a process that have one.
Inside(w) == WritersAt(w, {"key", "calls"})

SlotsKept ==
  \A w \in Processes : IsFiniteSet(Inside(w)) /\ Cardinality(Inside(w)) <= Slots

\* Two writers of one key, in whatever processes, do not work at the same time.
KeysApart ==
  \A c, d \in Callers :
    writing[c].at = "calls" /\ writing[d].at = "calls"
      /\ writing[c].key = writing[d].key => c = d

QueueInv ==
  /\ home \in [Callers -> Processes]
  /\ writing \in [Callers -> WritingRecords]
  /\ SlotsKept /\ KeysApart

\* Writers that keep their places keep the queue in order.
LEMMA PlacesKeep ==
  ASSUME QueueInv, UNCHANGED home, writing' \in [Callers -> WritingRecords],
         NEW c \in Callers, \A d \in Callers \ {c} : writing'[d] = writing[d],
         \/ writing'[c].at \in {"none", "slot"}
         \/ writing'[c].at = writing[c].at /\ writing'[c].key = writing[c].key
         \/ writing[c].at = "key" /\ writing'[c].at = "calls"
              /\ writing'[c].key = writing[c].key /\ KeyIsFree(writing[c].key)
  PROVE  QueueInv'
<1>1. ASSUME NEW w \in Processes
      PROVE  IsFiniteSet(Inside(w)') /\ Cardinality(Inside(w)') <= Slots
  <2>1. Inside(w)' \subseteq Inside(w)
    BY DEF Inside, WritersAt
  <2>2. IsFiniteSet(Inside(w)) /\ Cardinality(Inside(w)) <= Slots
    BY DEF QueueInv, SlotsKept
  <2>3. /\ IsFiniteSet(Inside(w)')
        /\ Cardinality(Inside(w)') \in Nat /\ Cardinality(Inside(w)) \in Nat
        /\ Cardinality(Inside(w)') <= Cardinality(Inside(w))
    BY <2>1, <2>2, FS_Subset, FS_CardinalityType
  <2> QED BY <2>2, <2>3, CrmBoundsAssumption
<1>2. KeysApart'
  BY DEF QueueInv, KeysApart, KeyIsFree
<1> QED BY <1>1, <1>2 DEF QueueInv, SlotsKept

\* A free slot is taken.
LEMMA SlotTaken ==
  ASSUME QueueInv, UNCHANGED home, NEW c \in Callers, TakeSlot(c)
  PROVE  QueueInv'
<1>1. /\ writing' \in [Callers -> WritingRecords]
      /\ writing[c].at = "slot" /\ writing'[c].at = "key"
      /\ \A d \in Callers \ {c} : writing'[d] = writing[d]
  BY DEF TakeSlot, SetWriting, QueueInv, WritingRecords, Places
<1>2. ASSUME NEW w \in Processes
      PROVE  IsFiniteSet(Inside(w)') /\ Cardinality(Inside(w)') <= Slots
  <2>1. IsFiniteSet(Inside(w)) /\ Cardinality(Inside(w)) <= Slots
    BY DEF QueueInv, SlotsKept
  <2>2. CASE w = home[c]
    <3>1. Inside(w)' = Inside(w) \cup {c} /\ c \notin Inside(w)
      BY <1>1, <2>2 DEF Inside, WritersAt, QueueInv
    <3>2. Cardinality(Inside(w)) < Slots
      BY <2>2 DEF TakeSlot, SlotIsFree, Inside
    <3>3. Cardinality(Inside(w)) \in Nat
      BY <2>1, FS_CardinalityType
    <3>4. IsFiniteSet(Inside(w)')
          /\ Cardinality(Inside(w)') = Cardinality(Inside(w)) + 1
      BY <2>1, <3>1, FS_AddElement
    <3> QED BY <3>2, <3>3, <3>4, CrmBoundsAssumption
  <2>3. CASE w # home[c]
    <3>1. Inside(w)' = Inside(w)
      BY <1>1, <2>3 DEF Inside, WritersAt, QueueInv
    <3> QED BY <2>1, <3>1
  <2> QED BY <2>2, <2>3
<1>3. KeysApart'
  BY <1>1 DEF QueueInv, KeysApart
<1> QED BY <1>1, <1>2, <1>3 DEF QueueInv, SlotsKept

\* Every step keeps the slots counted and the writers of one key apart.
LEMMA QueueStepKeeps ==
  ASSUME QueueInv, [CrmNext]_crmVars
  PROVE  QueueInv'
<1>1. CASE UNCHANGED <<home, writing>>
  BY <1>1 DEF QueueInv, SlotsKept, KeysApart, Inside, WritersAt
<1>2. ASSUME NEW c \in Callers, TakeSlot(c) PROVE QueueInv'
  BY <1>2, SlotTaken DEF TakeSlot
<1>3. ASSUME NEW c \in Callers, TakeKey(c) PROVE QueueInv'
  BY <1>3, PlacesKeep DEF TakeKey, SetWriting, QueueInv, WritingRecords, Places
<1>4. ASSUME NEW c \in Callers, WriterCalls(c) PROVE QueueInv'
  BY <1>4, PlacesKeep DEF WriterCalls, QueueInv, WritingRecords
<1>5. ASSUME NEW c \in Callers, WriterLeaves(c) PROVE QueueInv'
  BY <1>5, PlacesKeep DEF WriterLeaves, NotWriting, QueueInv, WritingRecords, Places
<1>6. ASSUME NEW c \in Callers, NEW k \in WrittenKeys, StartWriter(c, k)
      PROVE  QueueInv'
  BY <1>6, PlacesKeep DEF StartWriter, QueueInv, WritingRecords, Places
<1>7. ASSUME NEW c \in Callers, CallStep(c) \/ CallDirectly(c)
      PROVE  UNCHANGED <<home, writing>>
  BY <1>7 DEF CallStep, CallDirectly
<1>8. CASE SessionExpires \/ CookieExpires \/ Tick \/ UNCHANGED crmVars
  BY <1>1, <1>8 DEF SessionExpires, CookieExpires, Tick, crmVars
<1> QED
  BY <1>1, <1>2, <1>3, <1>4, <1>5, <1>6, <1>7, <1>8 DEF CrmNext, WriterStep

\* _WRITE_LOCK_CONNECTIONS and pg_advisory_lock, writer.py:27-60: at most that
\* many writers of a worker hold a connection for the lock of their key, and
\* one writer at a time works on a key, in all workers together.
THEOREM WritersQueue == CrmSpec => [](SlotsKept /\ KeysApart)
<1>1. CrmInit => QueueInv
  <2> SUFFICES ASSUME CrmInit PROVE QueueInv
    OBVIOUS
  <2>1. \A w \in Processes : Inside(w) = {}
    BY DEF CrmInit, Inside, WritersAt, NotWriting
  <2>2. SlotsKept
    BY <2>1, FS_EmptySet, CrmBoundsAssumption DEF SlotsKept
  <2> QED
    BY <2>2, CallersAssumption
    DEF CrmInit, QueueInv, KeysApart, NotWriting, WritingRecords, Places
<1>2. QueueInv /\ [CrmNext]_crmVars => QueueInv'
  BY QueueStepKeeps
<1>3. QueueInv => SlotsKept /\ KeysApart
  BY DEF QueueInv
<1> QED BY <1>1, <1>2, <1>3, PTL DEF CrmSpec
=============================================================================
