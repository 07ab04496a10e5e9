----------------------------- MODULE CrmSession -----------------------------
(***************************************************************************)
(* The client of the central CRM: services/crm.py.  Each worker process    *)
(* has one HTTP session under one lock; a call has one deadline for the    *)
(* lock, the login and the request, and repeats the request once after a   *)
(* new login.  Calls for a company log in with a session of their own.     *)
(* The writers of services/writer.py queue in front of it: a slot of the   *)
(* worker, then the advisory lock of the key.                              *)
(*                                                                         *)
(* A time-out is a number of ticks.  The HTTP library keeps to the time it *)
(* is given, so time stands still while an expired request gives up.       *)
(***************************************************************************)
EXTENDS Integers, FiniteSets

CONSTANTS Processes, Callers, NoCaller,
          Homes,      \* placements of the callers
          WrittenKeys, NoWrittenKey,
          Slots,      \* _WRITE_LOCK_CONNECTIONS, 2 in the code
          Timeout,    \* settings.request_timeout, in ticks
          Credentials,\* configurations: subsets of {"password", "cookie"}
          MaxCalls    \* bound on calls and writers

ASSUME CallersAssumption ==
  NoCaller \notin Callers /\ Homes \subseteq [Callers -> Processes]
ASSUME WrittenKeysAssumption == NoWrittenKey \notin WrittenKeys
ASSUME CrmBoundsAssumption ==
  Slots \in Nat \ {0} /\ Timeout \in Nat \ {0} /\ MaxCalls \in Nat
ASSUME CredentialsAssumption ==
  \A set \in Credentials : set # {} /\ set \subseteq {"password", "cookie"}

VARIABLES home,         \* the process of a caller (a thread)
          configured,   \* what .env holds
          cookieValid,  \* the CRM accepts the configured cookie
          session,      \* _crm_session of each process
          sessionLock,  \* _crm_lock of each process
          cpc, call,    \* control point and local variables of a call
          writing,      \* the key a caller writes, and how far it has come
          calls

callVars == <<session, sessionLock, cpc, call>>
crmVars == <<home, configured, cookieValid, callVars, writing, calls>>

\* accepted is the CRM's opinion of the session.
NoSession == [made |-> FALSE, authenticated |-> FALSE, accepted |-> FALSE]

NoCall == [kind |-> "none", left |-> 0, spent |-> 0, repeated |-> FALSE,
           loggedIn |-> FALSE, answer |-> "none", applied |-> 0,
           reply |-> "none"]

NotWriting == [at |-> "none", key |-> NoWrittenKey, written |-> FALSE]

CrmInit ==
  /\ home \in Homes
  /\ configured \in Credentials
  /\ cookieValid = ("cookie" \in configured)
  /\ session = [w \in Processes |-> NoSession]
  /\ sessionLock = [w \in Processes |-> NoCaller]
  /\ cpc = [c \in Callers |-> "idle"]
  /\ call = [c \in Callers |-> NoCall]
  /\ writing = [c \in Callers |-> NotWriting]
  /\ calls = 0

\* crm_add_key and crm_remove_key, check_crm_connection, the company calls.
Shared(kind) == kind \in {"key", "check"}

CallAt(c, label, record) ==
  /\ cpc' = [cpc EXCEPT ![c] = label]
  /\ call' = [call EXCEPT ![c] = record]

\* Mutant of Unlocked: the lock is kept when the call has failed.
UnlockedIfDone(c, reply) ==
  IF sessionLock[home[c]] = c /\ reply # "unanswered"
    THEN [sessionLock EXCEPT ![home[c]] = NoCaller] ELSE sessionLock

\* The finally clause.
Unlocked(c, reply) ==
  IF sessionLock[home[c]] = c
    THEN [sessionLock EXCEPT ![home[c]] = NoCaller] ELSE sessionLock

Reply(c, reply) ==
  /\ CallAt(c, "idle", [NoCall EXCEPT !.reply = reply])
  /\ sessionLock' = Unlocked(c, reply)

\* Mutant of TimeFor: a repeated request has the whole time again.
TimeForEach(t) == IF t.kind = "key" /\ ~t.repeated THEN t.left ELSE Timeout

\* _remaining_timeout: only the calls for keys carry a deadline.
TimeFor(t) == IF t.kind = "key" THEN t.left ELSE Timeout

\* The next request of a call starts, if there is time for it.
Request(c, label, t) ==
  IF TimeFor(t) = 0 THEN Reply(c, "unanswered")
  ELSE /\ CallAt(c, label, [t EXCEPT !.left = TimeFor(t)])
       /\ UNCHANGED sessionLock

-----------------------------------------------------------------------------
(* A call.                                                                 *)

BeginCall(c, kind) ==
  /\ cpc[c] = "idle"
  /\ CallAt(c, IF Shared(kind) THEN "lock" ELSE "page",
            [NoCall EXCEPT !.kind = kind, !.left = Timeout])
  /\ UNCHANGED <<session, sessionLock>>

\* Mutant of SessionFor: the old session is trusted whatever has happened.
SessionKept(c, renewed) == [session[home[c]] EXCEPT !.made = TRUE]

\* _get_session, after _reset_session when the session is renewed.
SessionFor(c, renewed) ==
  [(IF renewed THEN NoSession ELSE session[home[c]]) EXCEPT !.made = TRUE]

WithSession(c, t, renewed) ==
  LET s == SessionFor(c, renewed)
  IN /\ session' = [session EXCEPT ![home[c]] = s]
     /\ Request(c, IF "cookie" \in configured \/ s.authenticated
                     THEN "send" ELSE "page", t)

\* Mutant of MayLock: the connection check does not wait for the others.
MayLockUnlessCheck(c) ==
  sessionLock[home[c]] = NoCaller \/ call[c].kind = "check"

MayLock(c) == sessionLock[home[c]] = NoCaller

\* The check begins with a new session; so does a call without one.
TakeSession(c) ==
  LET t == call[c]
      s == SessionFor(c, t.kind = "check")
      label == IF "cookie" \in configured \/ s.authenticated
                 THEN "send" ELSE "page"
  IN /\ cpc[c] = "lock" /\ MayLock(c)
     /\ session' = [session EXCEPT ![home[c]] = s]
     /\ IF TimeFor(t) = 0
          THEN CallAt(c, "idle", [NoCall EXCEPT !.reply = "unanswered"])
               /\ UNCHANGED sessionLock
          ELSE CallAt(c, label, [t EXCEPT !.left = TimeFor(t)])
               /\ sessionLock' = [sessionLock EXCEPT ![home[c]] = c]

\* acquire(timeout=...); the check waits without one.
LockTimesOut(c) ==
  /\ cpc[c] = "lock" /\ call[c].kind = "key" /\ call[c].left = 0
  /\ Reply(c, "unanswered")
  /\ UNCHANGED session

LoginPage(c) ==
  /\ cpc[c] = "page"
  /\ Request(c, "post", call[c]) \/ Reply(c, "LOGIN_REFUSED")
  /\ UNCHANGED session

\* _login has the answer of the CRM.
LoggedIn(c) ==
  /\ cpc[c] = "post"
  /\ session' = IF Shared(call[c].kind)
                  THEN [session EXCEPT ![home[c]].authenticated = TRUE,
                                       ![home[c]].accepted = TRUE]
                  ELSE session
  /\ Request(c, "send", [call[c] EXCEPT !.loggedIn = TRUE])

LoginRefused(c) ==
  /\ cpc[c] = "post"
  /\ Reply(c, "LOGIN_REFUSED")
  /\ UNCHANGED session

Accepted(c) ==
  IF call[c].kind = "company" THEN BOOLEAN
  ELSE IF "cookie" \in configured THEN {cookieValid}
  ELSE {session[home[c]].accepted}

\* The CRM looks at the session, then carries the request out or refuses it
\* (nothing to do is one of its refusals), or never gets it.
CrmHandles(c) ==
  /\ cpc[c] = "send"
  /\ \E accepted \in Accepted(c) :
     \E answer \in IF accepted THEN {"done", "refused", "lost"}
                               ELSE {"auth", "lost"} :
       CallAt(c, "answer",
              [call[c] EXCEPT !.answer = answer,
                 !.applied = IF answer = "done" THEN @ + 1 ELSE @])
  /\ UNCHANGED <<session, sessionLock>>

\* Mutant of Repeats: a request whose answer is lost is repeated as well, which
\* the CRM may have carried out.
RepeatsUnanswered(t) ==
  /\ t.kind = "key" /\ ~t.repeated
  /\ "password" \in configured /\ t.answer \in {"auth", "done"}

Repeats(t) ==
  /\ t.kind = "key" /\ ~t.repeated
  /\ "password" \in configured /\ t.answer = "auth"

Receive(c) ==
  LET t == call[c]
  IN /\ cpc[c] = "answer" /\ t.answer # "lost" /\ ~Repeats(t)
     /\ Reply(c, IF t.answer = "auth" THEN "AUTH_REQUIRED" ELSE "answered")
     /\ UNCHANGED session

LogInAgain(c) ==
  /\ cpc[c] = "answer" /\ Repeats(call[c])
  /\ WithSession(c, [call[c] EXCEPT !.repeated = TRUE, !.answer = "none"], TRUE)

\* The time is up, the connection breaks, the answer is not understood.
Unanswered(c) ==
  /\ cpc[c] \in {"page", "post", "answer"}
  /\ Reply(c, "unanswered")
  /\ UNCHANGED session

CallStep(c) ==
  /\ \/ TakeSession(c) \/ LockTimesOut(c) \/ LoginPage(c) \/ LoggedIn(c)
     \/ LoginRefused(c) \/ CrmHandles(c) \/ Receive(c) \/ LogInAgain(c)
     \/ Unanswered(c)
  /\ UNCHANGED <<home, configured, cookieValid, writing, calls>>

-----------------------------------------------------------------------------
(* Who calls: writers behind the slots and the lock of the key; deletions, *)
(* the check of the settings page and the company pages at once.           *)

Asked == calls < MaxCalls /\ calls' = calls + 1

SetWriting(c, at) == writing' = [writing EXCEPT ![c].at = at]

StartWriter(c, k) ==
  /\ Asked
  /\ cpc[c] = "idle" /\ writing[c].at = "none"
  /\ writing' = [writing EXCEPT ![c].at = "slot", ![c].key = k]
  /\ UNCHANGED <<home, configured, cookieValid, callVars>>

WritersAt(w, places) ==
  {d \in Callers : home[d] = w /\ writing[d].at \in places}

SlotIsFree(c) == Cardinality(WritersAt(home[c], {"key", "calls"})) < Slots

TakeSlot(c) ==
  /\ writing[c].at = "slot" /\ SlotIsFree(c)
  /\ SetWriting(c, "key")
  /\ UNCHANGED <<home, configured, cookieValid, callVars, calls>>

\* pg_advisory_lock, which waits for other processes too.
KeyIsFree(k) ==
  \A d \in Callers : ~(writing[d].at = "calls" /\ writing[d].key = k)

TakeKey(c) ==
  /\ writing[c].at = "key" /\ KeyIsFree(writing[c].key)
  /\ SetWriting(c, "calls")
  /\ UNCHANGED <<home, configured, cookieValid, callVars, calls>>

WriterCalls(c) ==
  /\ writing[c].at = "calls" /\ ~writing[c].written
  /\ BeginCall(c, "key")
  /\ writing' = [writing EXCEPT ![c].written = TRUE]
  /\ UNCHANGED <<home, configured, cookieValid, calls>>

WriterLeaves(c) ==
  /\ writing[c].at = "calls" /\ writing[c].written /\ cpc[c] = "idle"
  /\ writing' = [writing EXCEPT ![c] = NotWriting]
  /\ UNCHANGED <<home, configured, cookieValid, callVars, calls>>

CallDirectly(c) ==
  /\ Asked
  /\ writing[c].at = "none"
  /\ \E kind \in {"key", "check", "company"} : BeginCall(c, kind)
  /\ UNCHANGED <<home, configured, cookieValid, writing>>

WriterStep(c) == TakeSlot(c) \/ TakeKey(c) \/ WriterCalls(c) \/ WriterLeaves(c)

-----------------------------------------------------------------------------
(* The CRM and the clock.                                                  *)

SessionExpires ==
  /\ \E w \in Processes :
       /\ session[w].accepted
       /\ session' = [session EXCEPT ![w].accepted = FALSE]
  /\ UNCHANGED <<home, configured, cookieValid, sessionLock, cpc, call, writing,
                 calls>>

CookieExpires ==
  /\ "cookie" \in configured /\ cookieValid
  /\ cookieValid' = FALSE
  /\ UNCHANGED <<home, configured, callVars, writing, calls>>

\* A request whose time is up ends before anything else.
Expired(c) ==
  /\ cpc[c] # "idle" /\ call[c].left = 0
  /\ cpc[c] = "lock" => call[c].kind = "key"

Passed(t) ==
  [t EXCEPT !.left = IF @ = 0 THEN 0 ELSE @ - 1,
            !.spent = IF t.kind = "key" THEN @ + 1 ELSE @]

Tick ==
  /\ \E c \in Callers : cpc[c] # "idle"
  /\ \A c \in Callers : ~Expired(c)
  /\ call' = [c \in Callers |->
                IF cpc[c] = "idle" THEN call[c] ELSE Passed(call[c])]
  /\ UNCHANGED <<home, configured, cookieValid, session, sessionLock, cpc,
                 writing, calls>>

CrmNext ==
  \/ \E c \in Callers : CallStep(c) \/ WriterStep(c) \/ CallDirectly(c)
  \/ \E c \in Callers, k \in WrittenKeys : StartWriter(c, k)
  \/ SessionExpires \/ CookieExpires \/ Tick

\* Threads run on; a lock that is free again and again is got in the end.
CrmFairness ==
  \A c \in Callers : WF_crmVars(CallStep(c)) /\ WF_crmVars(WriterStep(c))

CrmSpec == CrmInit /\ [][CrmNext]_crmVars /\ CrmFairness

-----------------------------------------------------------------------------
(* Properties.                                                             *)

\* A call that sends its request twice has it carried out at most once.
AppliedAtMostOnce == \A c \in Callers : call[c].applied <= 1

\* A call for a key is over when its time-out is, although it may wait for the
\* lock, log in twice and send twice.
WithinDeadline == \A c \in Callers : call[c].spent <= Timeout

\* While a request is under way nobody else replaces or closes the session it
\* was sent on.
SessionNotReplaced ==
  [][\A c \in Callers :
       (/\ cpc[c] \in {"page", "post", "send", "answer"} /\ UNCHANGED cpc[c]
        /\ Shared(call[c].kind))
       => /\ session'[home[c]].made = session[home[c]].made
          /\ session'[home[c]].authenticated
               = session[home[c]].authenticated]_crmVars

\* A call for a key is told that authentication is required only if the CRM
\* refuses the session this very call has logged in or, where a cookie is
\* configured, if that cookie has expired: crm.py:755-788.  With a cookie the
\* password is never tried, the request is sent again with the same cookie
\* (_get_session, crm.py:280-281).
RefusedForCause ==
  [][\A c \in Callers :
       (/\ cpc[c] = "answer" /\ cpc'[c] = "idle" /\ call[c].kind = "key"
        /\ call'[c].reply = "AUTH_REQUIRED")
       => IF "cookie" \in configured THEN ~cookieValid
                                     ELSE call[c].loggedIn]_crmVars

\* Whatever the CRM and the others do, every call ends, and every writer gets
\* its slot and its key and leaves: writer.py:27-60, crm.py:846-903.
CallEnds ==
  \A c \in Callers :
    LET busy == cpc[c] # "idle" \/ writing[c].at # "none" IN busy ~> ~busy
=============================================================================
