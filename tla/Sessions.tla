------------------------------ MODULE Sessions ------------------------------
(***************************************************************************)
(* Sessions of one service: the dictionary of a single process factory     *)
(* (src/src/lib-server/resources/mem-backed-sessions-factory.ts), which    *)
(* closes abandoned sessions by a timer, and requests that go through its  *)
(* middleware (sessions.ts), MailerId login (routes/sessions/), operations *)
(* and logout.                                                             *)
(*                                                                         *)
(* A session is picked by middleware when headers of a request come, and   *)
(* is used by handlers after the body of the request has come, and after   *)
(* promises in handlers are resolved.  Meanwhile, other requests and the   *)
(* timer may close it.  Nothing stops a session from being closed again.   *)
(*                                                                         *)
(* Definitions Wrong... are deliberately broken variants of the next ones, *)
(* and are not used in the model.                                          *)
(***************************************************************************)
EXTENDS Integers, FiniteSets

CONSTANTS
    Sid,        \* ids, that are ever generated
    Req,        \* requests
    NoSid,      \* "no session"
    Timeout,    \* idle time of a session, after which it is closed
    Period      \* period of timer's checks; in the code it is a half of Timeout

ASSUME SidAssumption == NoSid \notin Sid
ASSUME TimeAssumption == Timeout \in Nat \ {0} /\ Period \in Nat \ {0}

VARIABLES
    dict,        \* ids in sessionsDict
    count,       \* sessionCount
    timer,       \* interval is set, i.e. timeoutCodeIntervalId is not null
    sinceCheck,  \* time since the interval was set, or was fired
    created,     \* ids of all generated sessions
    authorized,  \* ids of sessions with isAuthorized set
    idle,        \* time since lastAccessedAt
    stage,       \* progress of requests
    sess,        \* req.session
    closes       \* how many times close of a session was called

regVars == <<dict, count, timer, sinceCheck, closes>>
sessionsVars == <<regVars, created, authorized, idle, stage, sess>>

Kind == {"auth", "op", "logout"}
\* A kind also names the stage, in which a body of such request is awaited.
Stage == {"none", "validating", "ok", "failed", "refused"} \cup Kind

SessionsInit ==
    /\ dict = {} /\ created = {} /\ authorized = {}
    /\ count = 0
    /\ timer = FALSE
    /\ sinceCheck = 0
    /\ idle = [s \in Sid |-> 0]
    /\ closes = [s \in Sid |-> 0]
    /\ stage = [r \in Req |-> "none"]
    /\ sess = [r \in Req |-> NoSid]

-----------------------------------------------------------------------------
(* The factory                                                              *)

\* n decrements of sessionCount bring it to zero at some moment.
WrongReachesZero(n) == count = 0          \* check is done before decrement
ReachesZero(n) == count > 0 /\ count <= n

\* container.remove for every session in S, one call after another.  Timer is
\* cleared, when the count goes through zero.
Remove(S) ==
    /\ dict' = dict \ S
    /\ count' = count - Cardinality(S)
    /\ timer' = (timer /\ ~ReachesZero(Cardinality(S)))
    /\ closes' = [s \in Sid |-> IF s \in S THEN closes[s] + 1 ELSE closes[s]]

\* session.close()
WrongClose(s) == UNCHANGED regVars        \* close is forgotten
Close(s) == Remove({s}) /\ UNCHANGED sinceCheck

\* generate() and container.add
Generate(s) ==
    /\ s \notin created
    /\ created' = created \cup {s}
    /\ dict' = dict \cup {s}
    /\ idle' = [idle EXCEPT ![s] = 0]
    /\ count' = count + 1
    /\ IF count + 1 = 1
       THEN timer' = TRUE /\ sinceCheck' = 0
       ELSE UNCHANGED <<timer, sinceCheck>>
    /\ UNCHANGED <<authorized, stage, sess, closes>>

WrongTimedOut(s) == idle[s] > Timeout
TimedOut(s) == idle[s] >= Timeout

\* checkSessionsForTimeout
CheckSessionsForTimeout ==
    /\ timer /\ sinceCheck = Period
    /\ Remove({s \in dict : TimedOut(s)})
    /\ sinceCheck' = 0
    /\ UNCHANGED <<created, authorized, idle, stage, sess>>

\* Time goes by, and a set timer fires in time.
Tick ==
    /\ timer => sinceCheck < Period
    /\ sinceCheck' = IF timer THEN sinceCheck + 1 ELSE sinceCheck
    /\ \E s \in dict : idle[s] < Timeout + Period           \* a bound
    /\ idle' = [s \in Sid |-> IF s \in dict /\ idle[s] < Timeout + Period
                              THEN idle[s] + 1 ELSE idle[s]]
    /\ UNCHANGED <<dict, count, timer, closes, created, authorized, stage, sess>>

-----------------------------------------------------------------------------
(* Requests                                                                 *)

Answer(r, res) == stage' = [stage EXCEPT ![r] = res]

\* Reply to a request, for which there is no session.
WhenMissing(r, kind) == Answer(r, "refused")

\* Middleware: ensureOpenedSession for authentication, ensureAuthorizedSession
\* for the rest.  A session that is found is not idle, even if it is refused.
Arrive(r, s, kind) ==
    /\ stage[r] = "none" /\ s \in created
    /\ IF s \in dict
       THEN /\ idle' = [idle EXCEPT ![s] = 0]
            /\ sess' = [sess EXCEPT ![r] = s]
            /\ Answer(r, IF kind = "auth" \/ s \in authorized THEN kind ELSE "refused")
       ELSE WhenMissing(r, kind) /\ UNCHANGED <<idle, sess>>
    /\ UNCHANGED <<regVars, created, authorized>>

\* Duplicate is bounced off, missing credentials close the session, and the
\* given ones are validated asynchronously.
Authenticate(r) ==
    /\ stage[r] = "auth"
    /\ \/ /\ sess[r] \in authorized
          /\ Answer(r, "refused")
          /\ UNCHANGED regVars
       \/ /\ sess[r] \notin authorized
          /\ Answer(r, "failed")
          /\ Close(sess[r])
       \/ /\ sess[r] \notin authorized
          /\ Answer(r, "validating")
          /\ UNCHANGED regVars
    /\ UNCHANGED <<created, authorized, idle, sess>>

\* With an error in validation, there is no user id, as with bad credentials.
Validated(r) ==
    /\ stage[r] = "validating"
    /\ \/ /\ authorized' = authorized \cup {sess[r]}
          /\ Answer(r, "ok")
          /\ UNCHANGED regVars
       \/ /\ Answer(r, "failed")
          /\ Close(sess[r])
          /\ UNCHANGED authorized
    /\ UNCHANGED <<created, idle, sess>>

\* An operation closes its session on an unknown user.
Operate(r) ==
    /\ stage[r] = "op"
    /\ \/ Answer(r, "ok") /\ UNCHANGED regVars
       \/ Answer(r, "refused") /\ Close(sess[r])
    /\ UNCHANGED <<created, authorized, idle, sess>>

Logout(r) ==
    /\ stage[r] = "logout"
    /\ Answer(r, "ok")
    /\ Close(sess[r])
    /\ UNCHANGED <<created, authorized, idle, sess>>

SessionsNext ==
    \/ \E s \in Sid : Generate(s)
    \/ CheckSessionsForTimeout
    \/ Tick
    \/ \E r \in Req, s \in Sid, kind \in Kind : Arrive(r, s, kind)
    \/ \E r \in Req : Authenticate(r) \/ Validated(r) \/ Operate(r) \/ Logout(r)

SessionsSpec == SessionsInit /\ [][SessionsNext]_sessionsVars

-----------------------------------------------------------------------------
(* Properties                                                               *)

SessionsTypeOK ==
    /\ dict \subseteq created /\ authorized \subseteq created /\ created \subseteq Sid
    /\ count \in Int
    /\ timer \in BOOLEAN
    /\ sinceCheck \in 0..Period
    /\ idle \in [Sid -> 0..(Timeout + Period)]
    /\ closes \in [Sid -> Nat]
    /\ stage \in [Req -> Stage]
    /\ sess \in [Req -> Sid \cup {NoSid}]

\* "Factory which works properly in a single process application, clearing up
\* sessions that past given timeout" (mem-backed-sessions-factory.ts:27-28):
\* none is idle for longer than timeout and one period of checks.
SweptInTime == \A s \in dict : idle[s] < Timeout + Period

\* A session can be left behind by the timer only after some session was closed
\* twice, which makes sessionCount less than the number of sessions.
SweptUnlessClosedTwice == (\A s \in Sid : closes[s] <= 1) => SweptInTime

\* The timer runs exactly when sessionCount is positive, even when the count is
\* wrong, and negative: so that an interval is never lost, while it is running.
TimerFollowsCount == timer <=> count > 0

\* Credentials that are not accepted, end their session, whatever other requests
\* in this session, the accepted ones included, are in process: its id is not
\* served any more.
FailedAuthEndsSession == \A r \in Req : stage[r] = "failed" => sess[r] \notin dict

=============================================================================
