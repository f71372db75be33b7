--------------------------- MODULE ServicesProofs ---------------------------
(***************************************************************************)
(* Proofs about two parts that all services share: sessions (Sessions), for *)
(* any numbers of sessions and requests, and for any timeout and period of *)
(* checks, and accounts of users (Accounts), for any numbers of pages,     *)
(* attempts to sign up, restarts and lost replies.                         *)
(***************************************************************************)
EXTENDS Sessions, Accounts, FiniteSetTheorems, TLAPS

-----------------------------------------------------------------------------
(* Sessions                                                                 *)

\* No session is closed twice.
Once == \A s \in Sid : closes[s] <= 1

\* A session is in the dictionary till its first close.
Registered ==
    /\ IsFiniteSet(created)
    /\ \A s \in Sid : s \in dict <=> s \in created /\ closes[s] = 0
    /\ \A s \in Sid : closes[s] > 0 => s \in created

\* Requests in process hold generated sessions.
Held ==
    \A r \in Req :
        /\ stage[r] \in Kind \cup {"validating", "failed"} => sess[r] \in created
        /\ stage[r] = "failed" => closes[sess[r]] > 0

\* While nothing is closed twice, the count is right, and the timer keeps up
\* with all sessions.
Counted == Once => count = Cardinality(dict)
Checked == Once /\ timer => \A s \in dict : idle[s] < Timeout + sinceCheck

\* The inductive invariant.
IInv ==
    /\ SessionsTypeOK
    /\ TimerFollowsCount
    /\ Registered
    /\ Held
    /\ Counted
    /\ Checked

-----------------------------------------------------------------------------
(* Calls of the factory                                                     *)

\* What closing of open sessions, or of one generated session, does.
LEMMA RemoveTypes ==
    ASSUME SessionsTypeOK, NEW S \in SUBSET created, IsFiniteSet(S), Remove(S)
    PROVE  /\ dict' \subseteq created
           /\ count' = count - Cardinality(S) /\ count' \in Int
           /\ timer' \in BOOLEAN
           /\ closes' \in [Sid -> Nat]
           /\ Cardinality(S) \in Nat
<1>1. Cardinality(S) \in Nat
  BY FS_CardinalityType
<1> QED
  BY <1>1 DEF SessionsTypeOK, Remove

\* The interval is cleared exactly when the count stops being positive.
LEMMA RemoveKeepsTimer ==
    ASSUME SessionsTypeOK, TimerFollowsCount, NEW S \in SUBSET created, IsFiniteSet(S), Remove(S)
    PROVE  TimerFollowsCount'
<1> DEFINE n == Cardinality(S)
<1>1. n \in Nat /\ count \in Int
  BY FS_CardinalityType DEF SessionsTypeOK
<1>2. count' = count - n
  BY DEF Remove
<1>3. CASE timer
  <2>1. count > 0
    BY <1>3 DEF TimerFollowsCount
  <2>2. timer' <=> ~(count <= n)
    BY <1>3, <2>1 DEF Remove, ReachesZero
  <2>3. ~(count <= n) <=> count' > 0
    BY <1>1, <1>2
  <2> QED
    BY <2>2, <2>3 DEF TimerFollowsCount
<1>4. CASE ~timer
  <2>1. ~(count > 0) /\ ~timer'
    BY <1>4 DEF TimerFollowsCount, Remove
  <2>2. ~(count' > 0)
    BY <1>1, <1>2, <2>1
  <2> QED
    BY <2>1, <2>2 DEF TimerFollowsCount
<1> QED
  BY <1>3, <1>4

\* When closes of S are the first ones, the count goes down with the dictionary.
LEMMA RemoveKeepsCount ==
    ASSUME SessionsTypeOK, Registered, Counted, NEW S \in SUBSET created, IsFiniteSet(S), Remove(S)
    PROVE  /\ Once' => Once /\ S \subseteq dict
           /\ Counted'
<1>1. S \subseteq Sid /\ IsFiniteSet(dict)
  BY FS_Subset DEF SessionsTypeOK, Registered
<1>2. ASSUME Once' PROVE Once /\ S \subseteq dict
  <2>1. \A s \in Sid : closes[s] \in Nat /\ closes'[s] = IF s \in S THEN closes[s] + 1 ELSE closes[s]
    BY DEF SessionsTypeOK, Remove
  <2> QED
    BY <1>1, <1>2, <2>1 DEF Once, Registered
<1>3. ASSUME Once' PROVE count' = Cardinality(dict')
  <2>1. count = Cardinality(dict) /\ S \subseteq dict
    BY <1>2, <1>3 DEF Counted
  <2>2. Cardinality(dict \ S) = Cardinality(dict) - Cardinality(S)
    <3>1. dict \cap S = S
      BY <2>1
    <3> QED
      BY <1>1, <3>1, FS_Difference
  <2> QED
    BY <2>1, <2>2 DEF Remove
<1> QED
  BY <1>2, <1>3 DEF Counted

\* Closing a session from a request.
LEMMA CloseKeeps ==
    ASSUME IInv, NEW s \in created, Close(s), UNCHANGED <<created, idle>>
    PROVE  /\ dict' \subseteq created /\ count' \in Int /\ timer' \in BOOLEAN
           /\ closes' \in [Sid -> Nat] /\ sinceCheck' = sinceCheck
           /\ \A u \in Sid : closes[u] > 0 => closes'[u] > 0
           /\ closes'[s] > 0
           /\ TimerFollowsCount' /\ Registered' /\ Counted' /\ Checked'
<1>1. Remove({s}) /\ IsFiniteSet({s}) /\ {s} \in SUBSET created /\ sinceCheck' = sinceCheck
  BY FS_Singleton DEF Close
<1>2. /\ dict' \subseteq created /\ count' \in Int /\ timer' \in BOOLEAN
      /\ closes' \in [Sid -> Nat]
  BY <1>1, RemoveTypes DEF IInv
<1>3. TimerFollowsCount'
  BY <1>1, RemoveKeepsTimer DEF IInv
<1>4. /\ Once' => Once
      /\ Counted'
  BY <1>1, RemoveKeepsCount DEF IInv
<1>5. /\ \A u \in Sid : closes[u] \in Nat
                        /\ closes'[u] = IF u = s THEN closes[u] + 1 ELSE closes[u]
      /\ dict' = dict \ {s} /\ s \in Sid
      /\ timer' => timer
  BY <1>1 DEF IInv, SessionsTypeOK, Remove
<1>6. Registered'
  BY <1>5 DEF IInv, Registered
<1>7. Checked'
  BY <1>1, <1>4, <1>5 DEF IInv, Checked
<1> QED
  BY <1>1, <1>2, <1>3, <1>4, <1>5, <1>6, <1>7

-----------------------------------------------------------------------------
(* Steps                                                                    *)

\* A new session starts the timer, when there are no others.
LEMMA GenerateKeeps == ASSUME IInv, NEW s \in Sid, Generate(s) PROVE IInv'
<1>1. s \notin created /\ s \notin dict /\ closes[s] = 0
  BY DEF IInv, SessionsTypeOK, Registered, Generate
<1>2. /\ created' = created \cup {s} /\ dict' = dict \cup {s} /\ count' = count + 1
      /\ UNCHANGED <<authorized, stage, sess, closes>>
      /\ idle' = [idle EXCEPT ![s] = 0]
      /\ IF count + 1 = 1 THEN timer' = TRUE /\ sinceCheck' = 0
                          ELSE UNCHANGED <<timer, sinceCheck>>
  BY DEF Generate
<1>3. SessionsTypeOK'
  <2>1. 0 \in 0..Period /\ 0 \in 0..(Timeout + Period)
    BY TimeAssumption
  <2>2. timer' \in BOOLEAN /\ sinceCheck' \in 0..Period
    BY <1>2, <2>1 DEF IInv, SessionsTypeOK
  <2> QED
    BY <1>2, <2>1, <2>2 DEF IInv, SessionsTypeOK
<1>4. TimerFollowsCount'
  <2>1. count \in Int /\ (timer <=> count > 0)
    BY DEF IInv, SessionsTypeOK, TimerFollowsCount
  <2>2. CASE count = 0
    BY <1>2, <2>2 DEF TimerFollowsCount
  <2>3. CASE count # 0
    <3>1. count' > 0 <=> count > 0
      BY <1>2, <2>1, <2>3
    <3>2. timer' = timer
      BY <1>2, <2>1, <2>3
    <3> QED
      BY <2>1, <3>1, <3>2 DEF TimerFollowsCount
  <2> QED
    BY <2>2, <2>3
<1>5. Registered'
  BY <1>1, <1>2, FS_AddElement DEF IInv, Registered
<1>6. Held'
  BY <1>2 DEF IInv, Held
<1>7. IsFiniteSet(dict)
  BY FS_Subset DEF IInv, SessionsTypeOK, Registered
<1>8. Counted'
  BY <1>1, <1>2, <1>7, FS_AddElement DEF IInv, Counted, Once
<1>9. Checked'
  <2> SUFFICES ASSUME Once, timer', NEW u \in dict' PROVE idle'[u] < Timeout + sinceCheck'
    BY <1>2 DEF Checked, Once
  <2>1. /\ count = Cardinality(dict) /\ count \in Int /\ sinceCheck' \in Nat
        /\ idle \in [Sid -> Nat] /\ u \in Sid
    BY <1>2, <1>3 DEF IInv, Counted, SessionsTypeOK
  <2>2. CASE u = s
    <3>1. idle'[u] = 0
      BY <1>2, <2>1, <2>2
    <3>2. \A n \in Nat : 0 < Timeout + n
      BY TimeAssumption
    <3> QED
      BY <2>1, <3>1, <3>2
  <2>3. CASE u # s
    <3>1. u \in dict /\ idle'[u] = idle[u]
      BY <1>2, <2>1, <2>3
    <3>2. count # 0
      BY <1>7, <2>1, <3>1, FS_EmptySet
    <3>3. count + 1 # 1
      BY <2>1, <3>2
    <3>4. UNCHANGED <<timer, sinceCheck>>
      BY <1>2, <3>3
    <3> QED
      BY <3>1, <3>4 DEF IInv, Checked
  <2> QED
    BY <2>2, <2>3
<1> QED
  BY <1>3, <1>4, <1>5, <1>6, <1>8, <1>9 DEF IInv

\* Sessions that are left by a check were used within timeout.
LEMMA CheckKeeps == ASSUME IInv, CheckSessionsForTimeout PROVE IInv'
<1> DEFINE S == {s \in dict : TimedOut(s)}
<1>1. /\ Remove(S) /\ sinceCheck' = 0
      /\ UNCHANGED <<created, authorized, idle, stage, sess>>
  BY DEF CheckSessionsForTimeout
<1>2. S \subseteq dict /\ S \in SUBSET created /\ IsFiniteSet(S)
  BY FS_Subset DEF IInv, SessionsTypeOK, Registered
<1> HIDE DEF S
<1>3. SessionsTypeOK'
  <2>1. 0 \in 0..Period
    BY TimeAssumption
  <2> QED
    BY <1>1, <1>2, <2>1, RemoveTypes DEF IInv, SessionsTypeOK
<1>4. TimerFollowsCount' /\ Counted'
  BY <1>1, <1>2, RemoveKeepsTimer, RemoveKeepsCount DEF IInv
<1>5. /\ \A u \in Sid : closes[u] \in Nat
                        /\ closes'[u] = IF u \in S THEN closes[u] + 1 ELSE closes[u]
      /\ dict' = dict \ S
  BY <1>1 DEF IInv, SessionsTypeOK, Remove
<1>6. Registered'
  BY <1>1, <1>2, <1>5 DEF IInv, Registered, SessionsTypeOK
<1>7. Held'
  BY <1>1, <1>5 DEF IInv, Held, SessionsTypeOK
<1>8. Checked'
  <2> SUFFICES ASSUME NEW u \in dict' PROVE idle'[u] < Timeout + sinceCheck'
    BY DEF Checked
  <2>1. u \in dict /\ ~TimedOut(u) /\ idle[u] \in Nat
    BY <1>5 DEF S, IInv, SessionsTypeOK
  <2> QED
    BY <1>1, <2>1, TimeAssumption DEF TimedOut
<1> QED
  BY <1>3, <1>4, <1>6, <1>7, <1>8 DEF IInv

\* As time goes by, sessions and the timer age together.
LEMMA TickKeeps == ASSUME IInv, Tick PROVE IInv'
<1>1. UNCHANGED <<dict, count, timer, closes, created, authorized, stage, sess>>
  BY DEF Tick
<1>2. /\ sinceCheck' \in 0..Period
      /\ timer => sinceCheck' = sinceCheck + 1
  BY TimeAssumption DEF IInv, SessionsTypeOK, Tick
<1>3. \A u \in Sid : /\ idle[u] \in Nat /\ idle'[u] \in 0..(Timeout + Period)
                     /\ idle'[u] <= idle[u] + 1
  BY TimeAssumption DEF IInv, SessionsTypeOK, Tick
<1>4. idle' \in [Sid -> 0..(Timeout + Period)]
  BY <1>3 DEF Tick
<1>5. SessionsTypeOK'
  BY <1>1, <1>2, <1>4 DEF IInv, SessionsTypeOK
<1>6. Checked'
  <2> SUFFICES ASSUME Once, timer, NEW u \in dict PROVE idle'[u] < Timeout + sinceCheck'
    BY <1>1 DEF Checked, Once
  <2>1. idle[u] < Timeout + sinceCheck /\ u \in Sid /\ sinceCheck \in Nat
    BY DEF IInv, Checked, SessionsTypeOK
  <2> QED
    BY <1>2, <1>3, <2>1, TimeAssumption
<1> QED
  BY <1>1, <1>5, <1>6 DEF IInv, TimerFollowsCount, Registered, Held, Counted, Once

\* A request resets idle time of its session.
LEMMA ArriveKeeps ==
    ASSUME IInv, NEW r \in Req, NEW s \in Sid, NEW kind \in Kind, Arrive(r, s, kind)
    PROVE  IInv'
<1>1. UNCHANGED <<dict, count, timer, sinceCheck, closes, created, authorized>>
  BY DEF Arrive, regVars
<1>2. /\ s \in created
      /\ \/ /\ idle' = [idle EXCEPT ![s] = 0] /\ sess' = [sess EXCEPT ![r] = s]
            /\ \/ stage' = [stage EXCEPT ![r] = kind]
               \/ stage' = [stage EXCEPT ![r] = "refused"]
         \/ /\ UNCHANGED <<idle, sess>> /\ stage' = [stage EXCEPT ![r] = "refused"]
  BY DEF Arrive, Answer, WhenMissing
<1>3. stage' \in [Req -> Stage]
  <2>1. kind \in Stage /\ "refused" \in Stage
    BY DEF Stage
  <2> QED
    BY <1>2, <2>1 DEF IInv, SessionsTypeOK
<1>4. sess' \in [Req -> Sid \cup {NoSid}]
  BY <1>2 DEF IInv, SessionsTypeOK
<1>5. /\ idle' \in [Sid -> 0..(Timeout + Period)]
      /\ \A u \in Sid : idle'[u] <= idle[u]
  <2>1. 0 \in 0..(Timeout + Period) /\ idle \in [Sid -> 0..(Timeout + Period)]
    BY TimeAssumption DEF IInv, SessionsTypeOK
  <2> QED
    BY <1>2, <2>1, TimeAssumption
<1>6. SessionsTypeOK'
  BY <1>1, <1>3, <1>4, <1>5 DEF IInv, SessionsTypeOK
<1>7. Held'
  <2> SUFFICES ASSUME NEW q \in Req
               PROVE  /\ stage'[q] \in Kind \cup {"validating", "failed"} => sess'[q] \in created
                      /\ stage'[q] = "failed" => closes[sess'[q]] > 0
    BY <1>1 DEF Held
  <2>1. stage \in [Req -> Stage] /\ sess \in [Req -> Sid \cup {NoSid}]
    BY DEF IInv, SessionsTypeOK
  <2>2. CASE q = r
    BY <1>2, <2>1, <2>2 DEF Kind
  <2>3. CASE q # r
    BY <1>2, <2>1, <2>3 DEF IInv, Held
  <2> QED
    BY <2>2, <2>3
<1>8. Checked'
  <2> SUFFICES ASSUME Once, timer, NEW u \in dict PROVE idle'[u] < Timeout + sinceCheck
    BY <1>1 DEF Checked, Once
  <2>1. /\ idle[u] < Timeout + sinceCheck /\ u \in Sid /\ sinceCheck \in Nat
        /\ idle[u] \in Nat /\ idle'[u] \in Nat
    BY <1>5 DEF IInv, Checked, SessionsTypeOK
  <2> QED
    BY <1>5, <2>1, TimeAssumption
<1> QED
  BY <1>1, <1>6, <1>7, <1>8 DEF IInv, TimerFollowsCount, Registered, Counted, Once

\* Handlers either leave the session alone, or close it.
LEMMA HandlerKeeps ==
    ASSUME IInv, NEW r \in Req,
           stage[r] \in Kind \cup {"validating"},
           NEW res \in {"ok", "refused", "failed", "validating"}, Answer(r, res),
           \/ UNCHANGED regVars /\ res # "failed"
           \/ Close(sess[r]),
           authorized' \in {authorized, authorized \cup {sess[r]}},
           UNCHANGED <<created, idle, sess>>
    PROVE  IInv'
<1>1. sess[r] \in created
  BY DEF IInv, Held
<1>2. /\ dict' \subseteq created /\ count' \in Int /\ timer' \in BOOLEAN
      /\ closes' \in [Sid -> Nat] /\ sinceCheck' = sinceCheck
      /\ \A u \in Sid : closes[u] > 0 => closes'[u] > 0
      /\ res = "failed" => closes'[sess[r]] > 0
      /\ TimerFollowsCount' /\ Registered' /\ Counted' /\ Checked'
  <2>1. CASE Close(sess[r])
    BY <1>1, <2>1, CloseKeeps
  <2>2. CASE UNCHANGED regVars /\ res # "failed"
    BY <2>2 DEF IInv, SessionsTypeOK, regVars, TimerFollowsCount, Registered, Counted, Checked, Once
  <2> QED
    BY <2>1, <2>2
<1>3. stage' \in [Req -> Stage]
  BY DEF IInv, SessionsTypeOK, Answer, Stage
<1>4. SessionsTypeOK'
  BY <1>1, <1>2, <1>3 DEF IInv, SessionsTypeOK
<1>5. Held'
  <2> SUFFICES ASSUME NEW q \in Req
               PROVE  /\ stage'[q] \in Kind \cup {"validating", "failed"} => sess[q] \in created
                      /\ stage'[q] = "failed" => closes'[sess[q]] > 0
    BY DEF Held
  <2>1. stage \in [Req -> Stage] /\ created \subseteq Sid
    BY DEF IInv, SessionsTypeOK
  <2>2. CASE q = r
    BY <1>1, <1>2, <2>1, <2>2 DEF Answer
  <2>3. CASE q # r
    BY <1>2, <2>1, <2>3 DEF IInv, Held, Answer
  <2> QED
    BY <2>2, <2>3
<1> QED
  BY <1>2, <1>4, <1>5 DEF IInv

\* IInv holds before the first session.
LEMMA InitInv == ASSUME SessionsInit PROVE IInv
<1>1. SessionsTypeOK
  <2>1. 0 \in 0..Period /\ 0 \in 0..(Timeout + Period)
    BY TimeAssumption
  <2>2. /\ idle \in [Sid -> 0..(Timeout + Period)] /\ closes \in [Sid -> Nat]
        /\ sess \in [Req -> Sid \cup {NoSid}]
    BY <2>1 DEF SessionsInit
  <2>3. stage \in [Req -> Stage]
    BY DEF SessionsInit, Stage
  <2>4. sinceCheck \in 0..Period
    BY <2>1 DEF SessionsInit
  <2>5. /\ dict \subseteq created /\ authorized \subseteq created /\ created \subseteq Sid
        /\ count \in Int
    BY DEF SessionsInit
  <2>6. timer \in BOOLEAN
    BY DEF SessionsInit
  <2> QED
    BY <2>2, <2>3, <2>4, <2>5, <2>6 DEF SessionsTypeOK
<1> QED
  BY <1>1, FS_EmptySet DEF SessionsInit, IInv, TimerFollowsCount, Registered, Held, Counted, Checked, Kind

\* Every step of the factory, and of a request, keeps IInv.
LEMMA InvStep == ASSUME IInv, [SessionsNext]_sessionsVars PROVE IInv'
<1>1. ASSUME NEW r \in Req, Authenticate(r) PROVE IInv'
  BY <1>1, HandlerKeeps DEF Authenticate, Kind
<1>2. ASSUME NEW r \in Req, Validated(r) PROVE IInv'
  BY <1>2, HandlerKeeps DEF Validated, Kind
<1>3. ASSUME NEW r \in Req, Operate(r) PROVE IInv'
  BY <1>3, HandlerKeeps DEF Operate, Kind
<1>4. ASSUME NEW r \in Req, Logout(r) PROVE IInv'
  BY <1>4, HandlerKeeps DEF Logout, Kind
<1>5. CASE UNCHANGED sessionsVars
  BY <1>5 DEF sessionsVars, regVars, IInv, SessionsTypeOK, TimerFollowsCount, Registered, Held, Counted, Checked, Once
<1> QED
  BY <1>1, <1>2, <1>3, <1>4, <1>5, GenerateKeeps, CheckKeeps, TickKeeps, ArriveKeeps DEF SessionsNext

\* IInv is an invariant of the factory and of its requests.
LEMMA Invariance == SessionsSpec => []IInv
BY InitInv, InvStep, PTL DEF SessionsSpec

-----------------------------------------------------------------------------

\* Variables keep their types.
THEOREM TypeCorrect == SessionsSpec => []SessionsTypeOK
<1>1. IInv => SessionsTypeOK
  BY DEF IInv
<1> QED
  BY <1>1, Invariance, PTL

\* The interval timer runs exactly when sessionCount is positive.
THEOREM TimerFollowsCountHolds == SessionsSpec => []TimerFollowsCount
<1>1. IInv => TimerFollowsCount
  BY DEF IInv
<1> QED
  BY <1>1, Invariance, PTL

\* While no session is closed twice, no session stays idle for timeout and one
\* period of checks.
THEOREM SweptUnlessClosedTwiceHolds == SessionsSpec => []SweptUnlessClosedTwice
<1>1. IInv => SweptUnlessClosedTwice
  <2> SUFFICES ASSUME IInv, Once, NEW s \in dict PROVE idle[s] < Timeout + Period
    BY DEF SweptUnlessClosedTwice, SweptInTime, Once
  <2>1. IsFiniteSet(dict) /\ count = Cardinality(dict) /\ count \in Int
    BY FS_Subset DEF IInv, SessionsTypeOK, Registered, Counted
  <2>2. Cardinality(dict) \in Nat /\ Cardinality(dict) # 0
    BY <2>1, FS_EmptySet, FS_CardinalityType
  <2>3. timer
    BY <2>1, <2>2 DEF IInv, TimerFollowsCount
  <2>4. idle[s] < Timeout + sinceCheck
    BY <2>3 DEF IInv, Checked
  <2>5. sinceCheck \in 0..Period /\ idle[s] \in Nat
    BY DEF IInv, SessionsTypeOK
  <2> QED
    BY <2>4, <2>5, TimeAssumption
<1> QED
  BY <1>1, Invariance, PTL

\* Rejected credentials make an end to a session's id.
THEOREM FailedAuthEndsSessionHolds == SessionsSpec => []FailedAuthEndsSession
<1>1. IInv => FailedAuthEndsSession
  BY DEF IInv, Registered, Held, FailedAuthEndsSession, SessionsTypeOK
<1> QED
  BY <1>1, Invariance, PTL

-----------------------------------------------------------------------------
(* Accounts                                                                 *)

\* Some sign up page has shown an account.
Opened == \E q \in Page : page[q].st = "opened"

\* Without overlapping attempts, there is one folder at most, which is user's.
Folders ==
    "twice" \notin hurt =>
        /\ \A j, k \in Attempt : make[j] = "mkdir" /\ make[k] = "mkdir" => j = k
        /\ \A k \in Attempt : make[k] = "mkdir" => map = None
        /\ \A k \in Attempt : make[k] = "dirs" \/ disk[k].userid => map = k

\* A folder names its user from the moment, when its files are being made.
Named ==
    /\ \A k \in Attempt :
        /\ make[k] \in {"defaults", "done"} => disk[k].userid
        /\ make[k] \in {"none", "mkdir", "dirs"} => ~disk[k].userid
    /\ map # None => make[map] = "dirs" \/ disk[map].userid

\* Parameters of keys are the last that is written in a store.
StoreTask == {"open", "write"} \X {"quota", "kdp"}
Stores ==
    service = "3nstorage" =>
        \A k \in Attempt :
            /\ tasks[k] \subseteq StoreTask
            /\ make[k] = "defaults" /\ tasks[k] = {} => disk[k].file["kdp"] = Full({k})
            /\ make[k] = "done" => tasks[k] = {} /\ disk[k].file["kdp"] = Full({k})

\* A root is made by a page, whose attempt is done, and in the folder of the attempt.
AtRoot == {"rooting", "saving"}
Roots ==
    /\ \A p \in Page : page[p].st \in AtRoot => service = "3nstorage"
    /\ hurt \cap {"twice", "exists"} = {} =>
        /\ \A p \in Page : page[p].st \in AtRoot =>
            page[p].ask \in Attempt /\ make[page[p].ask] = "done"
        /\ \A k \in Attempt : InTrans(k) =>
            service = "3nstorage" /\ make[k] = "done" /\ disk[k].trans.key = k
        /\ \A k \in Attempt : disk[k].root # None =>
            service = "3nstorage" /\ make[k] = "done" /\ disk[k].root = k

\* Mail pages come after an account is shown, and generate their own tokens.
Mails ==
    \A p \in Page :
        /\ mail[p].st # "none" => service = "asmail" /\ Opened
        /\ mail[p].st \in {"got", "writing"} => mail[p].token = p
        /\ mail[p].lost => p \in hurt /\ mail[p].st \in {"got", "writing", "done"}

\* An inbox is made in order, and nothing has been interrupted.
Quiet == service = "asmail" /\ "twice" \notin hurt /\ broken = {}

\* A file is opened once, and is written after that.
Filling ==
    Quiet => \A k \in Attempt, f \in Param :
        /\ <<"open", f>> \in tasks[k] => /\ disk[k].file[f].st # "full"
                                        /\ <<"write", f>> \notin tasks[k]
        /\ <<"write", f>> \in tasks[k] => disk[k].file[f].st # "full"
        /\ make[k] \in {"none", "mkdir", "dirs"} => disk[k].file[f].st # "full" /\ tasks[k] = {}

\* When an account has been shown, its files are left alone by sign up, and only
\* the one with invitations is truncated, while some mail page writes it.
Idle(k, f) == <<"open", f>> \notin tasks[k] /\ <<"write", f>> \notin tasks[k]
Writing == {p \in Page : mail[p].st = "writing"}
Inboxes ==
    Quiet =>
        /\ Opened =>
            /\ map # None /\ disk[map].userid
            /\ \A f \in {"quota", "lists"} : disk[map].file[f].st = "full"
            /\ \A f \in {"quota", "invites", "lists"} : Idle(map, f)
            /\ disk[map].file["invites"].st = "full" \/ Writing # {}
        /\ \A p \in Writing : mail[p].at = map

\* A page, that was alone, has a token that is in the file.
Tokens ==
    Quiet => \A p \in Page \ hurt :
        /\ p \in Asking => Asking = {p}
        /\ mail[p].st = "done" => /\ Asking = {}
                                  /\ disk[map].file["invites"].st = "full"
                                  /\ mail[p].token \in disk[map].file["invites"].val

\* A sender comes with a token of a mail page, or after an account is shown.
Given(p) == mail[p].st = "done" \/ mail[p].lost
Sender ==
    send.told # "none" =>
        /\ service = "asmail" /\ Opened
        /\ send.by # None => Given(send.by)

\* The inductive invariant.
AInv ==
    /\ TypeOK
    /\ Folders /\ Named
    /\ Stores /\ Roots
    /\ Mails /\ Filling /\ Inboxes /\ Tokens
    /\ Sender /\ TokenIsAccepted

-----------------------------------------------------------------------------
(* Types of variables of accounts                                           *)

\* Writing of a file of a folder changes nothing else.
Sets(k, f, v) == disk' = [disk EXCEPT ![k].file[f] = v]
LEMMA ParamSet ==
    ASSUME TypeOK, NEW k \in Attempt \cup {None}, NEW f \in Param, NEW v \in FileType,
           Sets(k, f, v)
    PROVE  /\ disk' \in [Attempt -> FolderType]
           /\ \A j \in Attempt : /\ disk'[j].userid = disk[j].userid
                                 /\ disk'[j].anon = disk[j].anon
                                 /\ disk'[j].root = disk[j].root
                                 /\ disk'[j].trans = disk[j].trans
           /\ \A j \in Attempt, g \in Param :
                disk'[j].file[g] = IF j = k /\ g = f THEN v ELSE disk[j].file[g]
<1>1. disk \in [Attempt -> FolderType]
  BY DEF TypeOK
<1>2. \A j \in Attempt :
        /\ disk[j] \in FolderType
        /\ disk'[j] = IF j = k THEN [disk[j] EXCEPT !.file[f] = v] ELSE disk[j]
  BY <1>1 DEF Sets
<1>3. \A j \in Attempt :
        /\ [disk[j] EXCEPT !.file[f] = v] \in FolderType
        /\ [disk[j] EXCEPT !.file[f] = v].userid = disk[j].userid
        /\ [disk[j] EXCEPT !.file[f] = v].anon = disk[j].anon
        /\ [disk[j] EXCEPT !.file[f] = v].root = disk[j].root
        /\ [disk[j] EXCEPT !.file[f] = v].trans = disk[j].trans
        /\ [disk[j] EXCEPT !.file[f] = v].file = [disk[j].file EXCEPT ![f] = v]
  BY <1>2 DEF FolderType
<1>4. \A j \in Attempt : disk[j].file \in [Param -> FileType]
  BY <1>2 DEF FolderType
<1>5. disk' = [j \in Attempt |-> disk'[j]]
  BY <1>1 DEF Sets
<1>6. ASSUME NEW j \in Attempt PROVE disk'[j] \in FolderType
  <2>1. CASE j = k
    <3>1. disk'[j] = [disk[j] EXCEPT !.file[f] = v]
      BY <1>2, <2>1
    <3> QED
      BY <1>3, <3>1
  <2>2. CASE j # k
    BY <1>2, <2>2
  <2> QED
    BY <2>1, <2>2
<1>7. disk' \in [Attempt -> FolderType]
  BY <1>5, <1>6
<1>8. \A j \in Attempt : /\ disk'[j].userid = disk[j].userid
                         /\ disk'[j].anon = disk[j].anon
                         /\ disk'[j].root = disk[j].root
                         /\ disk'[j].trans = disk[j].trans
  BY <1>2, <1>3
<1>9. ASSUME NEW j \in Attempt, NEW g \in Param
      PROVE  disk'[j].file[g] = IF j = k /\ g = f THEN v ELSE disk[j].file[g]
  <2>1. CASE j = k
    <3>1. disk'[j] = [disk[j] EXCEPT !.file[f] = v]
      BY <1>2, <2>1
    <3>2. disk'[j].file = [disk[j].file EXCEPT ![f] = v]
      BY <1>3, <3>1
    <3> QED
      BY <1>4, <2>1, <3>2
  <2>2. CASE j # k
    BY <1>2, <2>2
  <2> QED
    BY <2>1, <2>2
<1> QED
  BY <1>7, <1>8, <1>9

\* Files of an empty type, and with defaults, and with a token.
LEMMA FileTypes ==
    /\ Empty \in FileType /\ Absent \in FileType
    /\ \A k \in Attempt, f \in Param : Default(k, f) \in FileType
    /\ \A p \in Page : Full({p}) \in FileType
BY DEF Empty, Absent, Default, Full, FileType

LEMMA PageSet ==
    ASSUME TypeOK, NEW p \in Page, NEW v \in PageType, page' = [page EXCEPT ![p] = v]
    PROVE  page' \in [Page -> PageType]
BY DEF TypeOK

LEMMA ShowsTypes ==
    ASSUME TypeOK, NEW p \in Page, NEW from,
           NEW st \in {"none", "asking", "opened", "exists", "failed"},
           Shows(p, from, st)
    PROVE  TypeOK'
<1>1. [page[p] EXCEPT !.st = st] \in PageType /\ page' = [page EXCEPT ![p] = [page[p] EXCEPT !.st = st]]
  BY DEF TypeOK, Shows, PageType
<1>2. page' \in [Page -> PageType]
  BY <1>1 DEF TypeOK
<1> QED
  BY <1>2 DEF TypeOK, Shows, serverVars, noteVars

\* Start of a transaction, or its end, changes nothing else in a folder.
LEMMA TransSet ==
    ASSUME TypeOK, NEW k \in Attempt, NEW t \in TransType, SetTrans(k, t)
    PROVE  /\ disk' \in [Attempt -> FolderType]
           /\ \A j \in Attempt :
                /\ disk'[j].userid = disk[j].userid
                /\ disk'[j].file = disk[j].file
                /\ disk'[j].root = disk[j].root
                /\ disk'[j].trans = IF j = k THEN t ELSE disk[j].trans
           /\ broken \subseteq broken' /\ broken' \subseteq Attempt \cup {None}
<1>1. disk \in [Attempt -> FolderType] /\ \A j \in Attempt : disk[j] \in FolderType
  BY DEF TypeOK
<1>2. disk' = [disk EXCEPT ![k] = [disk[k] EXCEPT !.trans = t]]
  BY DEF SetTrans
<1>3. /\ [disk[k] EXCEPT !.trans = t] \in FolderType
      /\ [disk[k] EXCEPT !.trans = t].userid = disk[k].userid
      /\ [disk[k] EXCEPT !.trans = t].file = disk[k].file
      /\ [disk[k] EXCEPT !.trans = t].root = disk[k].root
      /\ [disk[k] EXCEPT !.trans = t].trans = t
  BY <1>1 DEF FolderType
<1>4. disk' \in [Attempt -> FolderType]
  BY <1>1, <1>2, <1>3
<1>5. broken \subseteq broken' /\ broken' \subseteq Attempt \cup {None}
  BY DEF SetTrans, TypeOK
<1>6. \A j \in Attempt : disk'[j] = IF j = k THEN [disk[k] EXCEPT !.trans = t] ELSE disk[j]
  BY <1>1, <1>2
<1> QED
  BY <1>3, <1>4, <1>5, <1>6

\* A root that is finalized is what was sent.
LEMMA FinalizeRootDoes ==
    ASSUME TypeOK, NEW k \in Attempt, FinalizeRoot(k)
    PROVE  /\ disk' \in [Attempt -> FolderType]
           /\ \A j \in Attempt :
                /\ disk'[j].userid = disk[j].userid
                /\ disk'[j].file = disk[j].file
                /\ disk'[j].root = IF j = k THEN disk[k].trans.key ELSE disk[j].root
                /\ disk'[j].trans = IF j = k THEN NoTrans ELSE disk[j].trans
<1>1. disk \in [Attempt -> FolderType] /\ \A j \in Attempt : disk[j] \in FolderType
  BY DEF TypeOK
<1> DEFINE new == [disk[k] EXCEPT !.root = disk[k].trans.key, !.trans = NoTrans]
<1>2. disk' = [disk EXCEPT ![k] = new]
  BY <1>1 DEF FinalizeRoot
<1>3. NoTrans \in TransType /\ disk[k].trans.key \in Attempt \cup {Own, None}
  BY <1>1 DEF NoTrans, TransType, FolderType
<1>4. /\ new \in FolderType
      /\ new.userid = disk[k].userid /\ new.file = disk[k].file
      /\ new.root = disk[k].trans.key /\ new.trans = NoTrans
  BY <1>1, <1>3 DEF FolderType
<1> HIDE DEF new
<1>5. disk' \in [Attempt -> FolderType]
  BY <1>1, <1>2, <1>4
<1>6. \A j \in Attempt : disk'[j] = IF j = k THEN new ELSE disk[j]
  BY <1>1, <1>2
<1> QED
  BY <1>4, <1>5, <1>6

\* Steps of making a root.
RootStep ==
    \/ \E p \in Page : StartRoot(p) \/ SendRoot(p) \/ LoseRoot(p)
    \/ \E k \in Attempt : FinalizeRoot(k) \/ FinalizeLost(k)

\* What a transaction of a root becomes: it is left, or done, or it is for the key
\* that it had, or it is a new one, of a page that makes a root.
NewTrans(k, t) ==
    \/ ~(t.st \in {"open", "final"})
    \/ InTrans(k) /\ t.key = disk[k].trans.key
    \/ \E p \in Page : page[p].st = "rooting" /\ map = k /\ t.key = page[p].ask

LEMMA RootSets ==
    ASSUME TypeOK, RootStep
    PROVE  \/ UNCHANGED <<disk, broken>>
           \/ \E k \in Attempt : \E t \in TransType : SetTrans(k, t) /\ NewTrans(k, t)
           \/ \E k \in Attempt : FinalizeRoot(k) /\ UNCHANGED broken
<1> DEFINE Goal == \/ UNCHANGED <<disk, broken>>
                   \/ \E k \in Attempt : \E t \in TransType : SetTrans(k, t) /\ NewTrans(k, t)
                   \/ \E k \in Attempt : FinalizeRoot(k) /\ UNCHANGED broken
<1>1. /\ NoTrans \in TransType /\ LeftTrans \in TransType
      /\ NoTrans.st = "none" /\ LeftTrans.st = "left"
  BY DEF NoTrans, LeftTrans, TransType
<1>2. \A k \in Attempt : NewTrans(k, NoTrans) /\ NewTrans(k, LeftTrans)
  BY <1>1 DEF NewTrans
<1>3. ASSUME NEW k \in Attempt, InTrans(k)
      PROVE  Finalized(k) \in TransType /\ NewTrans(k, Finalized(k))
  <2>1. disk[k].trans \in TransType
    BY DEF TypeOK, FolderType
  <2>2. Finalized(k) \in TransType /\ Finalized(k).key = disk[k].trans.key
    BY <2>1 DEF Finalized, TransType
  <2> QED
    BY <1>3, <2>2 DEF NewTrans
<1>4. map # None => map \in Attempt
  BY DEF TypeOK
<1>5. ASSUME NEW p \in Page, StartRoot(p) PROVE Goal
  <2> DEFINE t == [st |-> "open", by |-> p, key |-> page[p].ask]
  <2>1. page[p].ask \in Attempt \cup {Own, None}
    BY DEF TypeOK, PageType
  <2>2. t \in TransType /\ t.key = page[p].ask
    BY <2>1 DEF TransType
  <2>3. CASE IsFree /\ SetTrans(map, t)
    <3>1. map \in Attempt
      BY <1>4, <2>3 DEF IsFree
    <3>2. NewTrans(map, t)
      BY <1>5, <2>2 DEF NewTrans, StartRoot
    <3> QED
      BY <2>2, <2>3, <3>1, <3>2
  <2>4. CASE IsFree /\ SetTrans(map, LeftTrans)
    BY <1>1, <1>2, <1>4, <2>4 DEF IsFree
  <2> QED
    BY <1>5, <2>3, <2>4 DEF StartRoot
<1>6. ASSUME NEW p \in Page, HasTrans(p) PROVE map \in Attempt /\ InTrans(map)
  BY <1>4, <1>6 DEF HasTrans, InTrans
<1>7. ASSUME NEW p \in Page, SendRoot(p) PROVE Goal
  <2>1. CASE HasTrans(p) /\ SetTrans(map, Finalized(map))
    BY <1>3, <1>6, <2>1
  <2> QED
    BY <1>7, <2>1 DEF SendRoot
<1>8. ASSUME NEW p \in Page, LoseRoot(p) PROVE Goal
  <2>1. CASE IsFree /\ SetTrans(map, LeftTrans)
    BY <1>1, <1>2, <1>4, <2>1 DEF IsFree
  <2>2. ASSUME HasTrans(p), NEW t \in {NoTrans, LeftTrans, Finalized(map)}, SetTrans(map, t)
        PROVE  Goal
    BY <1>1, <1>2, <1>3, <1>6, <2>2
  <2> QED
    BY <1>8, <2>1, <2>2 DEF LoseRoot
<1>9. ASSUME NEW k \in Attempt, FinalizeLost(k) PROVE Goal
  BY <1>1, <1>2, <1>9 DEF FinalizeLost
<1>10. ASSUME NEW k \in Attempt, FinalizeRoot(k) PROVE Goal
  BY <1>10 DEF FinalizeRoot, noteVars
<1> QED
  BY <1>5, <1>7, <1>8, <1>9, <1>10 DEF RootStep

LEMMA RootPages ==
    ASSUME TypeOK, RootStep
    PROVE  /\ UNCHANGED <<service, map, make, tasks, mail, send, hurt>>
           /\ faults' \in 0..MaxFaults
           /\ page' \in [Page -> PageType]
           /\ \A p \in Page :
                \/ page'[p] = page[p]
                \/ /\ page[p].st \in AtRoot /\ page'[p].ask = page[p].ask
                   /\ page'[p].st \in {"saving", "opened", "failed"}
<1>1. page \in [Page -> PageType] /\ faults \in 0..MaxFaults
  BY DEF TypeOK
<1> DEFINE To(p, st) == page' = [page EXCEPT ![p].st = st]
           Goal == /\ page' \in [Page -> PageType]
                   /\ \A p \in Page :
                        \/ page'[p] = page[p]
                        \/ /\ page[p].st \in AtRoot /\ page'[p].ask = page[p].ask
                           /\ page'[p].st \in {"saving", "opened", "failed"}
<1>2. ASSUME NEW p \in Page, page[p].st \in AtRoot, NEW st \in {"saving", "opened", "failed"},
             To(p, st)
      PROVE  Goal
  <2>1. /\ [page[p] EXCEPT !.st = st] \in PageType
        /\ [page[p] EXCEPT !.st = st].st = st
        /\ [page[p] EXCEPT !.st = st].ask = page[p].ask
    BY <1>1 DEF PageType
  <2>2. page' = [page EXCEPT ![p] = [page[p] EXCEPT !.st = st]]
    BY <1>2
  <2> QED
    BY <1>1, <1>2, <2>1, <2>2
<1>3. UNCHANGED page => Goal
  BY <1>1
<1> HIDE DEF Goal
<1>4. ASSUME NEW p \in Page, StartRoot(p) \/ SendRoot(p) \/ LoseRoot(p) PROVE Goal
  <2>1. page[p].st \in AtRoot
    BY <1>4 DEF StartRoot, SendRoot, LoseRoot, AtRoot
  <2>2. To(p, "saving") \/ To(p, "opened") \/ To(p, "failed")
    BY <1>4 DEF StartRoot, SendRoot, LoseRoot
  <2> HIDE DEF To
  <2> QED
    BY <1>2, <2>1, <2>2
<1>5. ASSUME NEW k \in Attempt, FinalizeRoot(k) \/ FinalizeLost(k) PROVE Goal
  BY <1>3, <1>5 DEF FinalizeRoot, FinalizeLost, clientVars
<1>6. UNCHANGED <<service, map, make, tasks, mail, send, hurt>>
  BY DEF RootStep, StartRoot, SendRoot, LoseRoot, FinalizeRoot, FinalizeLost, clientVars,
         noteVars
<1>7. faults' \in 0..MaxFaults
  <2>1. faults' = faults \/ (faults < MaxFaults /\ faults' = faults + 1)
    BY DEF RootStep, StartRoot, SendRoot, LoseRoot, FinalizeRoot, FinalizeLost, noteVars
  <2> QED
    BY <1>1, <2>1, BoundsAssumption
<1>8. Goal
  BY <1>4, <1>5 DEF RootStep
<1> QED
  BY <1>6, <1>7, <1>8 DEF Goal

LEMMA RootStepDoes ==
    ASSUME TypeOK, RootStep
    PROVE  /\ UNCHANGED <<service, map, make, tasks, mail, send, hurt>>
           /\ disk' \in [Attempt -> FolderType]
           /\ page' \in [Page -> PageType] /\ faults' \in 0..MaxFaults
           /\ broken \subseteq broken' /\ broken' \subseteq Attempt \cup {None}
           /\ \A k \in Attempt : /\ disk'[k].userid = disk[k].userid
                                 /\ disk'[k].file = disk[k].file
                                 /\ \/ disk'[k].root = disk[k].root
                                    \/ InTrans(k) /\ disk'[k].root = disk[k].trans.key
                                 /\ NewTrans(k, disk'[k].trans)
<1> DEFINE Goal == /\ disk' \in [Attempt -> FolderType]
                   /\ broken \subseteq broken' /\ broken' \subseteq Attempt \cup {None}
                   /\ \A k \in Attempt : /\ disk'[k].userid = disk[k].userid
                                         /\ disk'[k].file = disk[k].file
                                         /\ \/ disk'[k].root = disk[k].root
                                            \/ InTrans(k) /\ disk'[k].root = disk[k].trans.key
                                         /\ NewTrans(k, disk'[k].trans)
<1>1. \A k \in Attempt : NewTrans(k, disk[k].trans)
  BY DEF NewTrans, InTrans
<1>2. ASSUME UNCHANGED <<disk, broken>> PROVE Goal
  BY <1>1, <1>2 DEF TypeOK
<1>3. ASSUME NEW k \in Attempt, NEW t \in TransType, SetTrans(k, t), NewTrans(k, t) PROVE Goal
  BY <1>1, <1>3, TransSet
<1>4. ASSUME NEW k \in Attempt, FinalizeRoot(k), UNCHANGED broken PROVE Goal
  <2>1. NewTrans(k, NoTrans)
    BY DEF NewTrans, NoTrans
  <2>2. InTrans(k)
    BY <1>4 DEF FinalizeRoot, InTrans
  <2>3. broken \subseteq Attempt \cup {None}
    BY DEF TypeOK
  <2>4. /\ disk' \in [Attempt -> FolderType]
        /\ \A j \in Attempt :
             /\ disk'[j].userid = disk[j].userid
             /\ disk'[j].file = disk[j].file
             /\ disk'[j].root = IF j = k THEN disk[k].trans.key ELSE disk[j].root
             /\ disk'[j].trans = IF j = k THEN NoTrans ELSE disk[j].trans
    BY <1>4, FinalizeRootDoes
  <2> QED
    BY <1>1, <1>4, <2>1, <2>2, <2>3, <2>4
<1>5. Goal
  BY <1>2, <1>3, <1>4, RootSets
<1> QED
  BY <1>5, RootPages

\* A restart leaves transactions, and changes nothing else on a disk.
LEMMA RestartDisk ==
    ASSUME TypeOK, Restart
    PROVE  /\ disk' \in [Attempt -> FolderType]
           /\ \A k \in Attempt :
                /\ disk'[k].userid = disk[k].userid
                /\ disk'[k].file = disk[k].file
                /\ disk'[k].root = disk[k].root
                /\ ~InTrans(k)'
<1>1. disk \in [Attempt -> FolderType] /\ \A k \in Attempt : disk[k] \in FolderType
  BY DEF TypeOK
<1>2. disk' = [k \in Attempt |-> IF InTrans(k) THEN [disk[k] EXCEPT !.trans = LeftTrans]
                                 ELSE disk[k]]
  BY DEF Restart
<1>3. LeftTrans \in TransType /\ LeftTrans.st = "left"
  BY DEF LeftTrans, NoTrans, TransType
<1>4. ASSUME NEW k \in Attempt
      PROVE  /\ [disk[k] EXCEPT !.trans = LeftTrans] \in FolderType
             /\ [disk[k] EXCEPT !.trans = LeftTrans].userid = disk[k].userid
             /\ [disk[k] EXCEPT !.trans = LeftTrans].file = disk[k].file
             /\ [disk[k] EXCEPT !.trans = LeftTrans].root = disk[k].root
             /\ [disk[k] EXCEPT !.trans = LeftTrans].trans = LeftTrans
  BY <1>1, <1>3 DEF FolderType
<1>5. disk' \in [Attempt -> FolderType]
  BY <1>1, <1>2, <1>4
<1>6. ASSUME NEW k \in Attempt
      PROVE  /\ disk'[k].userid = disk[k].userid
             /\ disk'[k].file = disk[k].file
             /\ disk'[k].root = disk[k].root
             /\ ~InTrans(k)'
  <2>1. CASE InTrans(k)
    <3>1. disk'[k] = [disk[k] EXCEPT !.trans = LeftTrans]
      BY <1>2, <2>1
    <3>2. disk'[k].trans.st = "left"
      BY <1>3, <1>4, <3>1
    <3> QED
      BY <1>4, <3>1, <3>2 DEF InTrans
  <2>2. CASE ~InTrans(k)
    <3>1. disk'[k] = disk[k]
      BY <1>2, <2>2
    <3> QED
      BY <2>2, <3>1 DEF InTrans
  <2> QED
    BY <2>1, <2>2
<1> QED
  BY <1>5, <1>6

\* Every step keeps types.
LEMMA AccountsTypes == ASSUME TypeOK, [Next]_vars PROVE TypeOK'
<1> USE FileTypes
<1>1. ASSUME NEW p \in Page, GetAccountInfo(p) PROVE TypeOK'
  <2>1. \E st \in {"asking", "opened", "failed"} : Shows(p, "none", st)
    BY <1>1 DEF GetAccountInfo, GetInfo
  <2> QED
    BY <2>1, ShowsTypes
<1>2. ASSUME NEW p \in Page, CheckIfAccountExist(p) PROVE TypeOK'
  BY <1>2, ShowsTypes DEF CheckIfAccountExist
<1>3. ASSUME NEW p \in Page, Ask(p) PROVE TypeOK'
  <2>1. PICK k \in Attempt : /\ make' = [make EXCEPT ![k] = "mkdir"]
                             /\ page' = [page EXCEPT ![p] = [st |-> "waiting", ask |-> k]]
    BY <1>3 DEF Ask
  <2>2. [st |-> "waiting", ask |-> k] \in PageType
    BY DEF PageType
  <2>3. page' \in [Page -> PageType]
    BY <2>1, <2>2, PageSet
  <2> QED
    BY <1>3, <2>1, <2>3 DEF TypeOK, Ask
<1>4. ASSUME NEW p \in Page, MakeAccountInVain(p) PROVE TypeOK'
  BY <1>4, ShowsTypes DEF MakeAccountInVain
<1>5. ASSUME NEW p \in Page, CreateAccountInVain(p) PROVE TypeOK'
  <2>1. [st |-> "rooting", ask |-> Own] \in PageType
    BY DEF PageType
  <2>2. page' \in [Page -> PageType]
    BY <1>5, <2>1, PageSet DEF CreateAccountInVain
  <2> QED
    BY <1>5, <2>2 DEF TypeOK, CreateAccountInVain, serverVars
<1>6. CASE RootStep
  BY <1>6, RootStepDoes DEF TypeOK
<1>7. ASSUME NEW p \in Page, TryAgain(p) PROVE TypeOK'
  <2>1. \E st \in {"none", "asking"} : Shows(p, "failed", st)
    BY <1>7 DEF TryAgain
  <2> QED
    BY <2>1, ShowsTypes
<1>8. ASSUME NEW p \in Page, LoseReply(p) PROVE TypeOK'
  <2>1. [page[p] EXCEPT !.st = "failed"] \in PageType
    BY DEF TypeOK, PageType
  <2>2. page' \in [Page -> PageType]
    BY <1>8, <2>1 DEF LoseReply, TypeOK
  <2>3. faults' \in 0..MaxFaults
    BY <1>8, BoundsAssumption DEF LoseReply, TypeOK
  <2> QED
    BY <1>8, <2>2, <2>3 DEF TypeOK, LoseReply, serverVars
<1>9. ASSUME NEW k \in Attempt, NEW of, MakeFolder(k, of) PROVE TypeOK'
  BY <1>9 DEF TypeOK, MakeFolder, clientVars, noteVars
<1>10. ASSUME NEW k \in Attempt, NEW first \in SUBSET Task, NameFolder(k, first) PROVE TypeOK'
  <2>0. disk[k] \in FolderType
    BY DEF TypeOK
  <2>1. [disk[k] EXCEPT !.userid = TRUE] \in FolderType
    BY <2>0 DEF FolderType
  <2>2. disk' \in [Attempt -> FolderType]
    BY <1>10, <2>1 DEF NameFolder, TypeOK
  <2> QED
    BY <1>10, <2>2 DEF TypeOK, NameFolder, clientVars, noteVars
<1>11. SetDefaultParameters \in SUBSET Task /\ {<<"open", "quota">>} \in SUBSET Task
  BY DEF SetDefaultParameters, Task, OfService, Param
<1>12. ASSUME NEW k \in Attempt, NEW task, NEW next \in SUBSET Task, TaskDone(k, task, next)
       PROVE  tasks' \in [Attempt -> SUBSET Task]
  BY <1>12 DEF TaskDone, TypeOK
<1>13. ASSUME NEW k \in Attempt, MakeAnonFolder(k) PROVE TypeOK'
  <2>0. disk[k] \in FolderType
    BY DEF TypeOK
  <2>1. [disk[k] EXCEPT !.anon = TRUE] \in FolderType
    BY <2>0 DEF FolderType
  <2>2. disk' \in [Attempt -> FolderType]
    BY <1>13, <2>1 DEF MakeAnonFolder, TypeOK
  <2> QED
    BY <1>12, <1>13, <2>2 DEF TypeOK, MakeAnonFolder, clientVars, noteVars
<1>14. OfService \subseteq Param
  BY DEF OfService, Param
<1>15. ASSUME NEW k \in Attempt, NEW f \in Param, OpenParam(k, f) PROVE TypeOK'
  <2>1. {<<"write", f>>} \in SUBSET Task /\ {} \in SUBSET Task
    BY DEF Task
  <2>2. tasks' \in [Attempt -> SUBSET Task]
    BY <1>12, <1>15, <2>1 DEF OpenParam
  <2>3. disk' \in [Attempt -> FolderType]
    BY <1>15, ParamSet DEF Sets, OpenParam, TypeOK
  <2>4. broken' \subseteq Attempt \cup {None}
    BY <1>15 DEF OpenParam, TypeOK
  <2> QED
    BY <1>15, <2>2, <2>3, <2>4 DEF TypeOK, OpenParam, clientVars
<1>16. ASSUME NEW k \in Attempt, NEW f \in Param, WriteParam(k, f) PROVE TypeOK'
  <2>1. SetNext(f) \in SUBSET Task
    BY DEF SetNext, Task, Param
  <2>2. tasks' \in [Attempt -> SUBSET Task]
    BY <1>12, <1>16, <2>1 DEF WriteParam
  <2>3. disk' \in [Attempt -> FolderType]
    BY <1>16, ParamSet DEF Sets, WriteParam
  <2> QED
    BY <1>16, <2>2, <2>3 DEF TypeOK, WriteParam, clientVars, noteVars
<1>17. ASSUME NEW k \in Attempt, Reply(k) PROVE TypeOK'
  <2>1. \A p \in Page : /\ [page[p] EXCEPT !.st = "none"] \in PageType
                        /\ [page[p] EXCEPT !.st = "rooting"] \in PageType
                        /\ page[p] \in PageType
    BY DEF TypeOK, PageType
  <2>2. page' \in [Page -> PageType]
    BY <1>17, <2>1 DEF Reply
  <2> QED
    BY <1>17, <2>2 DEF TypeOK, Reply, noteVars
<1>18. CASE Restart
  <2>1. \A p \in Page : page[p] \in PageType /\ [page[p] EXCEPT !.st = "failed"] \in PageType
    BY DEF TypeOK, PageType
  <2>2. page' \in [Page -> PageType]
    BY <1>18, <2>1 DEF Restart
  <2>3. \A p \in Page : mail[p] \in MailType /\ [mail[p] EXCEPT !.st = "done"] \in MailType
    BY DEF TypeOK, MailType
  <2>4. mail' \in [Page -> MailType]
    BY <1>18, <2>3 DEF Restart
  <2>11. disk' \in [Attempt -> FolderType]
    BY <1>18, RestartDisk
  <2>12. hurt' \subseteq Page \cup {"twice", "exists"}
    BY <1>18 DEF Restart, Asking, TypeOK
  <2>5. send' \in SendType
    BY <1>18 DEF Restart, TypeOK, SendType
  <2>6. faults' \in 0..MaxFaults
    BY <1>18, BoundsAssumption DEF Restart, TypeOK
  <2>7. broken' \subseteq Attempt \cup {None}
    BY <1>18, <2>3 DEF Restart, TypeOK, MailType
  <2>8. map' \in Attempt \cup {None}
    BY <1>18 DEF Restart, Picked
  <2>9. make' \in [Attempt -> {"none", "mkdir", "dirs", "defaults", "done", "dead"}]
    BY <1>18 DEF Restart, TypeOK
  <2>10. tasks' \in [Attempt -> SUBSET Task]
    BY <1>18 DEF Restart
  <2> QED
    BY <1>18, <2>2, <2>4, <2>5, <2>6, <2>7, <2>8, <2>9, <2>10, <2>11, <2>12
    DEF TypeOK, Restart
<1>19. ASSUME NEW p \in Page, GetInvites(p) PROVE TypeOK'
  <2> DEFINE invites == disk[map].file["invites"]
  <2>1. map \in Attempt /\ "invites" \in Param
    BY <1>19 DEF GetInvites, TypeOK, Param
  <2>2. invites.val \subseteq Page \cup Attempt
    BY <2>1 DEF TypeOK, FolderType, FileType
  <2>3. \E st \in {"failed", "got", "done"} : \E token \in Page \cup Attempt \cup {None} :
            mail' = [mail EXCEPT ![p] =
                        [st |-> st, at |-> None, lost |-> FALSE, token |-> token]]
    <3>1. CASE ~CanGet("invites")
      BY <1>19, <3>1 DEF GetInvites
    <3>2. CASE CanGet("invites") /\ invites.val = {}
      BY <1>19, <3>2 DEF GetInvites
    <3>3. CASE CanGet("invites") /\ invites.val # {}
      <4>1. (CHOOSE t \in invites.val : TRUE) \in invites.val
        BY <3>3
      <4> QED
        BY <1>19, <2>2, <3>3, <4>1 DEF GetInvites
    <3> QED
      BY <3>1, <3>2, <3>3
  <2>4. PICK st \in {"failed", "got", "done"}, token \in Page \cup Attempt \cup {None} :
            mail' = [mail EXCEPT ![p] =
                        [st |-> st, at |-> None, lost |-> FALSE, token |-> token]]
    BY <2>3
  <2>5. [st |-> st, at |-> None, lost |-> FALSE, token |-> token] \in MailType
    BY DEF MailType
  <2>6. mail' \in [Page -> MailType]
    BY <2>4, <2>5 DEF TypeOK
  <2>7. hurt' \subseteq Page \cup {"twice", "exists"}
    BY <1>19 DEF GetInvites, TypeOK, Asking
  <2> QED
    BY <1>19, <2>6, <2>7 DEF TypeOK, GetInvites, serverVars
<1>20. ASSUME NEW p \in Page, OpenInvites(p) PROVE TypeOK'
  <2>1. map \in Attempt \cup {None} /\ "invites" \in Param
    BY DEF TypeOK, Param
  <2>0. mail[p] \in MailType
    BY DEF TypeOK
  <2>2. [mail[p] EXCEPT !.st = "writing", !.at = map] \in MailType
    BY <2>0, <2>1 DEF MailType
  <2>3. mail' \in [Page -> MailType]
    BY <1>20, <2>2 DEF OpenInvites, TypeOK
  <2>4. disk' \in [Attempt -> FolderType]
    BY <1>20, <2>1, ParamSet DEF Sets, OpenInvites
  <2> QED
    BY <1>20, <2>3, <2>4 DEF TypeOK, OpenInvites, noteVars
<1>21. ASSUME NEW p \in Page, WriteInvites(p) PROVE TypeOK'
  <2>1. mail[p].at \in Attempt \cup {None} /\ "invites" \in Param
    BY DEF TypeOK, MailType, Param
  <2>2. [mail[p] EXCEPT !.st = "done"] \in MailType
    BY DEF TypeOK, MailType
  <2>3. mail' \in [Page -> MailType]
    BY <1>21, <2>2 DEF WriteInvites, TypeOK
  <2>4. disk' \in [Attempt -> FolderType]
    BY <1>21, <2>1, ParamSet DEF Sets, WriteInvites
  <2> QED
    BY <1>21, <2>3, <2>4 DEF TypeOK, WriteInvites, noteVars
<1>22. ASSUME NEW token, NEW told \in Told(token)
       PROVE  told \in {"unknown", "allowed", "inboxFull", "duFailed", "error", "forbidden"}
  BY <1>22 DEF Told, AllowedForAuthSender, AllowedForAnonSender, AdaptToFreeSpace
<1>23. ASSUME NEW p \in Page \cup {None}, PreFlight(p) PROVE TypeOK'
  BY <1>22, <1>23 DEF PreFlight, ServeRequestHere, TypeOK, SendType, serverVars, noteVars
<1>24. CASE StartSession
  <2>1. PICK told \in ServeRequestHere(send.by) :
            send' = [send EXCEPT !.told = IF told = "allowed" THEN "started" ELSE told,
                                 !.session = SessionFor(told)]
    BY <1>24 DEF StartSession
  <2>2. SessionFor(told) \in {"none", "opened", "authorized"}
    BY DEF SessionFor
  <2>3. send' \in SendType
    BY <1>22, <2>1, <2>2 DEF ServeRequestHere, TypeOK, SendType
  <2> QED
    BY <1>24, <2>3 DEF StartSession, TypeOK, serverVars, noteVars
<1>25. CASE AuthorizeSender
  <2>0. send \in SendType
    BY DEF TypeOK
  <2>2. /\ [send EXCEPT !.session = "authorized"] \in SendType
        /\ [send EXCEPT !.session = "closed", !.told = "rejected"] \in SendType
        /\ [send EXCEPT !.told = "noSession"] \in SendType
    BY <2>0 DEF SendType
  <2>1. send' \in SendType
    BY <1>25, <2>2 DEF AuthorizeSender, Authorized
  <2> QED
    BY <1>25, <2>1 DEF AuthorizeSender, TypeOK, serverVars, noteVars
<1>26. ASSUME NEW from, NEW st \in {"unknown", "error", "noSession", "key", "sent"},
              Tells(from, st)
       PROVE  TypeOK'
  <2>1. send' \in SendType
    BY <1>26 DEF Tells, TypeOK, SendType
  <2> QED
    BY <1>26, <2>1 DEF Tells, TypeOK, serverVars, noteVars
<1>27. CASE GetRecipientsInitPubKey
  <2>1. \E st \in {"unknown", "error", "noSession", "key"} : Tells("started", st)
    BY <1>27 DEF GetRecipientsInitPubKey, RecipientPubKey
  <2> QED
    BY <1>26, <2>1
<1>28. CASE SendMetadata
  <2>1. \E st \in {"unknown", "noSession", "sent"} : Tells(send.told, st)
    BY <1>28 DEF SendMetadata
  <2> QED
    BY <1>26, <2>1
<1>29. CASE UNCHANGED vars
  BY <1>29 DEF vars, serverVars, clientVars, noteVars, TypeOK
<1>30. ASSUME NEW k \in Attempt, Server(k) PROVE TypeOK'
  BY <1>6, <1>9, <1>10, <1>11, <1>13, <1>14, <1>15, <1>16, <1>17, <1>30
  DEF Server, MakeNewInbox, MakeNewStore, InitInbox, InitStore, RootStep
<1>31. ASSUME NEW p \in Page, SignUp(p) PROVE TypeOK'
  BY <1>1, <1>2, <1>3, <1>4, <1>5, <1>6, <1>7, <1>31 DEF SignUp, RootStep
<1>32. ASSUME NEW p \in Page, LoseSetting(p) PROVE TypeOK'
  <2>1. mail[p] \in MailType
    BY DEF TypeOK
  <2>2. [mail[p] EXCEPT !.st = "done"] \in MailType /\ [mail[p] EXCEPT !.lost = TRUE] \in MailType
    BY <2>1 DEF MailType
  <2>3. mail' \in [Page -> MailType]
    <3>1. mail \in [Page -> MailType]
      BY DEF TypeOK
    <3>2. CASE mail' = [mail EXCEPT ![p].lost = TRUE]
      BY <2>2, <3>1, <3>2
    <3>3. CASE mail' = [mail EXCEPT ![p].st = "done"]
      BY <2>2, <3>1, <3>3
    <3> QED
      BY <1>32, <3>2, <3>3 DEF LoseSetting
  <2>4. faults' \in 0..MaxFaults
    BY <1>32, BoundsAssumption DEF LoseSetting, TypeOK
  <2>5. hurt' \subseteq Page \cup {"twice", "exists"}
    BY <1>32 DEF LoseSetting, TypeOK
  <2> QED
    BY <1>32, <2>3, <2>4, <2>5 DEF TypeOK, LoseSetting, serverVars
<1>33. CASE \/ \E k \in Attempt : FinalizeLost(k)
            \/ \E p \in Page : LoseRoot(p)
  BY <1>6, <1>33 DEF RootStep
<1> QED
  BY <1>8, <1>18, <1>19, <1>20, <1>21, <1>23, <1>24, <1>25, <1>27, <1>28, <1>29, <1>30, <1>31,
     <1>32, <1>33
  DEF Next

-----------------------------------------------------------------------------
(* What steps on accounts change                                            *)

LEMMA NameSet ==
    ASSUME TypeOK, NEW k \in Attempt, disk' = [disk EXCEPT ![k].userid = TRUE]
    PROVE  \A j \in Attempt : /\ disk'[j].userid = (disk[j].userid \/ j = k)
                              /\ disk'[j].root = disk[j].root
                              /\ disk'[j].trans = disk[j].trans
                              /\ disk'[j].file = disk[j].file
<1>1. disk \in [Attempt -> FolderType]
  BY DEF TypeOK
<1> SUFFICES ASSUME NEW j \in Attempt
             PROVE  /\ disk'[j].userid = (disk[j].userid \/ j = k)
                    /\ disk'[j].root = disk[j].root
                    /\ disk'[j].trans = disk[j].trans
                    /\ disk'[j].file = disk[j].file
  OBVIOUS
<1>2. disk[j] \in FolderType
  BY <1>1
<1>3. CASE j = k
  <2>1. disk'[j] = [disk[j] EXCEPT !.userid = TRUE]
    BY <1>1, <1>3
  <2> QED
    BY <1>2, <1>3, <2>1 DEF FolderType
<1>4. CASE j # k
  <2>1. disk'[j] = disk[j]
    BY <1>1, <1>4
  <2>2. disk[j].userid \in BOOLEAN
    BY <1>2 DEF FolderType
  <2> QED
    BY <1>4, <2>1, <2>2
<1> QED
  BY <1>3, <1>4

LEMMA AnonSet ==
    ASSUME TypeOK, NEW k \in Attempt, disk' = [disk EXCEPT ![k].anon = TRUE]
    PROVE  \A j \in Attempt : /\ disk'[j].userid = disk[j].userid
                              /\ disk'[j].root = disk[j].root
                              /\ disk'[j].trans = disk[j].trans
                              /\ disk'[j].file = disk[j].file
<1>1. disk \in [Attempt -> FolderType]
  BY DEF TypeOK
<1>2. \A j \in Attempt : disk[j] \in FolderType
  BY <1>1
<1>3. \A j \in Attempt : disk'[j] = IF j = k THEN [disk[j] EXCEPT !.anon = TRUE] ELSE disk[j]
  BY <1>1
<1> QED
  BY <1>2, <1>3 DEF FolderType


\* Folders are changed by few steps.
LEMMA FolderSteps ==
    ASSUME TypeOK, [Next]_vars
    PROVE  \/ /\ UNCHANGED <<make, map>>
              /\ \A k \in Attempt : disk'[k].userid = disk[k].userid
           \/ \E p \in Page : Ask(p)
           \/ \E k \in Attempt : MakeFolder(k, service)
           \/ \E k \in Attempt : InitInbox(k) \/ InitStore(k)
           \/ \E k \in Attempt : Reply(k)
           \/ Restart
<1> DEFINE Same == /\ UNCHANGED <<make, map>>
                   /\ \A k \in Attempt : disk'[k].userid = disk[k].userid
<1>0. UNCHANGED <<make, map, disk>> => Same
  OBVIOUS
<1>1. ASSUME NEW p \in Page,
             \/ GetAccountInfo(p) \/ CheckIfAccountExist(p) \/ MakeAccountInVain(p)
             \/ CreateAccountInVain(p) \/ TryAgain(p) \/ LoseReply(p) \/ GetInvites(p)
             \/ LoseSetting(p)
      PROVE  Same
  BY <1>0, <1>1 DEF GetAccountInfo, CheckIfAccountExist, MakeAccountInVain, CreateAccountInVain,
                    TryAgain, LoseReply, GetInvites, LoseSetting, Shows, serverVars
<1>2. ASSUME RootStep PROVE Same
  BY <1>2, RootStepDoes
<1>3. "invites" \in Param /\ OfService \subseteq Param
  BY DEF Param, OfService
<1>4. ASSUME NEW p \in Page, OpenInvites(p) PROVE Same
  <2>1. map \in Attempt \cup {None}
    BY DEF TypeOK
  <2> QED
    BY <1>3, <1>4, <2>1, ParamSet, FileTypes DEF Sets, OpenInvites
<1>5. ASSUME NEW p \in Page, WriteInvites(p) PROVE Same
  <2>1. mail[p].at \in Attempt \cup {None}
    BY DEF TypeOK, MailType
  <2> QED
    BY <1>3, <1>5, <2>1, ParamSet, FileTypes DEF Sets, WriteInvites
<1>6. ASSUME NEW k \in Attempt, NEW f \in Param, OpenParam(k, f) PROVE Same
  BY <1>6, ParamSet, FileTypes DEF Sets, OpenParam
<1>7. ASSUME NEW k \in Attempt, NEW f \in Param, WriteParam(k, f) PROVE Same
  BY <1>7, ParamSet, FileTypes DEF Sets, WriteParam
<1>8. ASSUME NEW k \in Attempt, MakeAnonFolder(k) PROVE Same
  BY <1>8, AnonSet DEF MakeAnonFolder
<1>9. ASSUME \/ \E p \in Page \cup {None} : PreFlight(p)
             \/ StartSession \/ AuthorizeSender \/ GetRecipientsInitPubKey \/ SendMetadata
             \/ UNCHANGED vars
      PROVE  Same
  BY <1>0, <1>9 DEF PreFlight, StartSession, AuthorizeSender, GetRecipientsInitPubKey,
                    SendMetadata, Tells, vars, serverVars
<1> HIDE DEF Same
<1>11. ASSUME NEW k \in Attempt, Server(k)
       PROVE  Same \/ MakeFolder(k, service) \/ Reply(k) \/ InitInbox(k) \/ InitStore(k)
  <2>1. ASSUME MakeNewInbox(k) \/ MakeNewStore(k) PROVE MakeFolder(k, service)
    BY <2>1 DEF MakeNewInbox, MakeNewStore, MakeFolder
  <2> QED
    BY <1>2, <1>3, <1>6, <1>7, <1>8, <1>11, <2>1 DEF Server, RootStep
<1>12. ASSUME NEW p \in Page, SignUp(p) PROVE Same \/ Ask(p)
  BY <1>1, <1>2, <1>12 DEF SignUp, RootStep
<1>13. Same => /\ UNCHANGED <<make, map>>
               /\ \A k \in Attempt : disk'[k].userid = disk[k].userid
  BY DEF Same
<1> QED
  BY <1>1, <1>2, <1>4, <1>5, <1>9, <1>11, <1>12, <1>13 DEF Next, RootStep

\* Progress is not taken back by any step.
LEMMA Forward ==
    ASSUME TypeOK, [Next]_vars
    PROVE  /\ service' = service
           /\ hurt \subseteq hurt' /\ broken \subseteq broken'
           /\ \A k \in Attempt : make[k] = "done" => make'[k] = "done"
           /\ \A p \in Page : page[p].st = "opened" => page'[p].st = "opened"
           /\ \A p \in Page : mail[p].st = "done" => mail'[p] = mail[p]
<1>1. service' = service
  <2>1. CASE RootStep
    BY <2>1, RootStepDoes
  <2>2. CASE ~RootStep
    BY <2>2
    DEF Next, Server, SignUp, RootStep, MakeNewInbox, MakeNewStore, InitInbox, InitStore,
        MakeFolder, NameFolder, MakeAnonFolder, Reply, OpenParam, WriteParam, GetAccountInfo,
        CheckIfAccountExist, Ask, MakeAccountInVain, CreateAccountInVain, TryAgain,
        Shows, LoseReply, Restart, GetInvites, OpenInvites, WriteInvites, LoseSetting, PreFlight,
        StartSession, AuthorizeSender, GetRecipientsInitPubKey, SendMetadata, Tells,
        vars, serverVars
  <2> QED
    BY <2>1, <2>2
<1>2. hurt \subseteq hurt'
  <2>1. CASE RootStep
    BY <2>1, RootStepDoes
  <2>2. CASE ~RootStep
    BY <2>2
    DEF Next, Server, SignUp, RootStep, MakeNewInbox, MakeNewStore, InitInbox, InitStore,
        MakeFolder, NameFolder, MakeAnonFolder, Reply, OpenParam, WriteParam, GetAccountInfo,
        CheckIfAccountExist, Ask, MakeAccountInVain, CreateAccountInVain, TryAgain,
        Shows, LoseReply, Restart, GetInvites, OpenInvites, WriteInvites, LoseSetting, PreFlight,
        StartSession, AuthorizeSender, GetRecipientsInitPubKey, SendMetadata, Tells,
        vars, noteVars
  <2> QED
    BY <2>1, <2>2
<1>3. broken \subseteq broken'
  <2>1. CASE RootStep
    BY <2>1, RootStepDoes
  <2>2. CASE ~RootStep
    BY <2>2
    DEF Next, Server, SignUp, RootStep, MakeNewInbox, MakeNewStore, InitInbox, InitStore,
        MakeFolder, NameFolder, MakeAnonFolder, Reply, OpenParam, WriteParam, GetAccountInfo,
        CheckIfAccountExist, Ask, MakeAccountInVain, CreateAccountInVain, TryAgain,
        Shows, LoseReply, Restart, GetInvites, OpenInvites, WriteInvites, LoseSetting, PreFlight,
        StartSession, AuthorizeSender, GetRecipientsInitPubKey, SendMetadata, Tells,
        vars, noteVars
  <2> QED
    BY <2>1, <2>2
<1>4. ASSUME NEW k \in Attempt, make[k] = "done" PROVE make'[k] = "done"
  <2>1. CASE \E p \in Page : Ask(p)
    BY <1>4, <2>1 DEF Ask, TypeOK
  <2>2. CASE \E j \in Attempt : MakeFolder(j, service)
    BY <1>4, <2>2 DEF MakeFolder, TypeOK
  <2>3. CASE \E j \in Attempt : InitInbox(j) \/ InitStore(j)
    BY <1>4, <2>3 DEF InitInbox, InitStore, NameFolder, TypeOK
  <2>4. CASE \E j \in Attempt : Reply(j)
    BY <1>4, <2>4 DEF Reply, TypeOK
  <2>5. CASE Restart
    BY <1>4, <2>5 DEF Restart
  <2> QED
    BY <1>4, <2>1, <2>2, <2>3, <2>4, <2>5, FolderSteps
<1>5. ASSUME NEW p \in Page, page[p].st = "opened" PROVE page'[p].st = "opened"
  <2>1. page \in [Page -> PageType]
    BY DEF TypeOK
  <2>2. ASSUME NEW q \in Page, SignUp(q), ~RootStep PROVE page'[p].st = "opened"
    <3>1. ASSUME NEW from, NEW st, from # "opened", Shows(q, from, st)
          PROVE  page'[p].st = "opened"
      BY <1>5, <2>1, <3>1 DEF Shows
    <3>2. CASE Ask(q)
      BY <1>5, <2>1, <3>2 DEF Ask
    <3>3. CASE CreateAccountInVain(q)
      BY <1>5, <2>1, <3>3 DEF CreateAccountInVain
    <3> QED
      BY <2>2, <3>1, <3>2, <3>3
      DEF SignUp, GetAccountInfo, CheckIfAccountExist, MakeAccountInVain, TryAgain, RootStep
  <2>3. ASSUME NEW q \in Page, LoseReply(q) PROVE page'[p].st = "opened"
    BY <1>5, <2>1, <2>3 DEF LoseReply
  <2>4. ASSUME NEW k \in Attempt, Reply(k) PROVE page'[p].st = "opened"
    BY <1>5, <2>1, <2>4 DEF Reply
  <2>5. CASE Restart
    BY <1>5, <2>1, <2>5 DEF Restart
  <2>6. ASSUME NEW k \in Attempt, Server(k), ~Reply(k) PROVE UNCHANGED page
    BY <2>6 DEF Server, MakeNewInbox, MakeNewStore, InitInbox, InitStore, MakeFolder,
                NameFolder, MakeAnonFolder, OpenParam, WriteParam, FinalizeRoot, clientVars
  <2>7. ASSUME \/ \E q \in Page : \/ GetInvites(q) \/ OpenInvites(q) \/ WriteInvites(q)
                                  \/ LoseSetting(q)
               \/ \E q \in Page \cup {None} : PreFlight(q)
               \/ StartSession \/ AuthorizeSender \/ GetRecipientsInitPubKey \/ SendMetadata
               \/ UNCHANGED vars
        PROVE  UNCHANGED page
    BY <2>7 DEF GetInvites, OpenInvites, WriteInvites, LoseSetting, PreFlight, StartSession,
                AuthorizeSender, GetRecipientsInitPubKey, SendMetadata, Tells, vars, clientVars
  <2>8. CASE RootStep
    BY <1>5, <2>8, RootPages DEF AtRoot
  <2> QED
    BY <1>5, <2>2, <2>3, <2>4, <2>5, <2>6, <2>7, <2>8 DEF Next, RootStep
<1>6. ASSUME NEW p \in Page, mail[p].st = "done" PROVE mail'[p] = mail[p]
  <2>1. mail \in [Page -> MailType]
    BY DEF TypeOK
  <2>2. ASSUME NEW q \in Page, GetInvites(q) PROVE mail'[p] = mail[p]
    BY <1>6, <2>1, <2>2 DEF GetInvites
  <2>3. ASSUME NEW q \in Page, OpenInvites(q) PROVE mail'[p] = mail[p]
    BY <1>6, <2>1, <2>3 DEF OpenInvites
  <2>4. ASSUME NEW q \in Page, WriteInvites(q) PROVE mail'[p] = mail[p]
    BY <1>6, <2>1, <2>4 DEF WriteInvites
  <2>5. CASE Restart
    BY <1>6, <2>1, <2>5 DEF Restart, Asking
  <2>6. ASSUME NEW k \in Attempt, Server(k), ~RootStep PROVE UNCHANGED mail
    BY <2>6 DEF Server, MakeNewInbox, MakeNewStore, InitInbox, InitStore, MakeFolder, RootStep,
                NameFolder, MakeAnonFolder, OpenParam, WriteParam, Reply, clientVars
  <2>7. ASSUME NEW q \in Page, SignUp(q) \/ LoseReply(q), ~RootStep PROVE UNCHANGED mail
    BY <2>7 DEF SignUp, GetAccountInfo, CheckIfAccountExist, Ask, MakeAccountInVain,
                CreateAccountInVain, RootStep, TryAgain, Shows, LoseReply
  <2>8. ASSUME \/ \E q \in Page \cup {None} : PreFlight(q)
               \/ StartSession \/ AuthorizeSender \/ GetRecipientsInitPubKey \/ SendMetadata
               \/ UNCHANGED vars
        PROVE  UNCHANGED mail
    BY <2>8 DEF PreFlight, StartSession, AuthorizeSender,
                GetRecipientsInitPubKey, SendMetadata, Tells, vars, clientVars
  <2>9. CASE RootStep
    BY <2>9, RootPages
  <2>10. ASSUME NEW q \in Page, LoseSetting(q) PROVE mail'[p] = mail[p]
    BY <1>6, <2>1, <2>10 DEF LoseSetting, Asking
  <2> QED
    BY <2>2, <2>3, <2>4, <2>5, <2>6, <2>7, <2>8, <2>9, <2>10 DEF Next, RootStep
<1> QED
  BY <1>1, <1>2, <1>3, <1>4, <1>5, <1>6

-----------------------------------------------------------------------------
(* Folders                                                                  *)

\* Attempts, that do not overlap, come one after another has gone.
LEMMA FoldersKept == ASSUME TypeOK, Folders, Named, [Next]_vars PROVE Folders' /\ Named'
<1>1. /\ make \in [Attempt -> {"none", "mkdir", "dirs", "defaults", "done", "dead"}]
      /\ map \in Attempt \cup {None} /\ None \notin Attempt
      /\ disk \in [Attempt -> FolderType]
  BY NoneAssumption DEF TypeOK, Attempt
<1>2. hurt \subseteq hurt'
  BY Forward
<1>3. CASE /\ UNCHANGED <<make, map>>
           /\ \A k \in Attempt : disk'[k].userid = disk[k].userid
  BY <1>1, <1>2, <1>3 DEF Folders, Named
<1>4. ASSUME NEW p \in Page, Ask(p) PROVE Folders' /\ Named'
  <2>1. PICK k \in Attempt : make[k] = "none" /\ make' = [make EXCEPT ![k] = "mkdir"]
    BY <1>4 DEF Ask
  <2>2. map = None /\ map' = None /\ disk' = disk
    BY <1>4 DEF Ask, Exists
  <2>3. "twice" \notin hurt' => \A j \in Attempt : make[j] # "mkdir"
    BY <1>4 DEF Ask
  <2>4. Named'
    BY <1>1, <2>1, <2>2 DEF Named
  <2>5. Folders'
    BY <1>1, <1>2, <2>1, <2>2, <2>3 DEF Folders
  <2> QED
    BY <2>4, <2>5
<1>5. ASSUME NEW k \in Attempt, MakeFolder(k, service) PROVE Folders' /\ Named'
  <2>1. make[k] = "mkdir" /\ make' = [make EXCEPT ![k] = "dirs"] /\ map' = k /\ disk' = disk
    BY <1>5 DEF MakeFolder
  <2>2. Named'
    BY <1>1, <2>1 DEF Named
  <2>3. Folders'
    BY <1>1, <1>2, <2>1 DEF Folders
  <2> QED
    BY <2>2, <2>3
<1>6. ASSUME NEW k \in Attempt, NEW first, NameFolder(k, first) PROVE Folders' /\ Named'
  <2>1. make[k] = "dirs" /\ make' = [make EXCEPT ![k] = "defaults"] /\ map' = map
    BY <1>6 DEF NameFolder
  <2>2. \A j \in Attempt : disk'[j].userid = (disk[j].userid \/ j = k)
    BY <1>6, NameSet DEF NameFolder
  <2>3. Named'
    BY <1>1, <2>1, <2>2 DEF Named
  <2>4. Folders'
    BY <1>1, <1>2, <2>1, <2>2 DEF Folders
  <2> QED
    BY <2>3, <2>4
<1>7. ASSUME NEW k \in Attempt, Reply(k) PROVE Folders' /\ Named'
  <2>1. make[k] = "defaults" /\ make' = [make EXCEPT ![k] = "done"] /\ UNCHANGED <<map, disk>>
    BY <1>7 DEF Reply, Built
  <2> QED
    BY <1>1, <1>2, <2>1 DEF Folders, Named
<1>8. CASE Restart
  <2>1. /\ \A k \in Attempt : make'[k] = IF make[k] \in {"none", "done"} THEN make[k] ELSE "dead"
        /\ map' \in IF Picked = {} THEN {None} ELSE Picked
        /\ \A k \in Attempt : disk'[k].userid = disk[k].userid
    BY <1>8, RestartDisk DEF Restart
  <2>2. Named'
    BY <1>1, <2>1 DEF Named, Picked
  <2>3. Folders'
    BY <1>1, <1>2, <2>1 DEF Folders, Picked
  <2> QED
    BY <2>2, <2>3
<1> QED
  BY <1>3, <1>4, <1>5, <1>6, <1>7, <1>8, FolderSteps DEF InitInbox, InitStore

-----------------------------------------------------------------------------
(* Files, and roots of storages                                             *)

\* Files, and calls on them, are changed by few steps.
LEMMA FileSteps ==
    ASSUME TypeOK, [Next]_vars
    PROVE  \/ UNCHANGED tasks /\ \A k \in Attempt : disk'[k].file = disk[k].file
           \/ \E k \in Attempt : InitInbox(k) \/ InitStore(k) \/ MakeAnonFolder(k)
           \/ \E k \in Attempt : \E f \in OfService : OpenParam(k, f) \/ WriteParam(k, f)
           \/ \E p \in Page : OpenInvites(p) \/ WriteInvites(p)
           \/ Restart
<1> DEFINE Same == UNCHANGED tasks /\ \A k \in Attempt : disk'[k].file = disk[k].file
<1>0. UNCHANGED <<tasks, disk>> => Same
  OBVIOUS
<1>1. CASE RootStep
  BY <1>1, RootStepDoes
<1>2. ASSUME NEW p \in Page, SignUp(p) \/ LoseReply(p) \/ GetInvites(p) \/ LoseSetting(p),
             ~RootStep
      PROVE  Same
  BY <1>0, <1>2 DEF SignUp, GetAccountInfo, CheckIfAccountExist, Ask, MakeAccountInVain,
     CreateAccountInVain, TryAgain, Shows, LoseReply, GetInvites, LoseSetting, serverVars, RootStep
<1>3. ASSUME NEW k \in Attempt, MakeNewInbox(k) \/ MakeNewStore(k) \/ Reply(k) PROVE Same
  BY <1>0, <1>3 DEF MakeNewInbox, MakeNewStore, MakeFolder, Reply
<1>4. ASSUME \/ \E p \in Page \cup {None} : PreFlight(p)
             \/ StartSession \/ AuthorizeSender \/ GetRecipientsInitPubKey \/ SendMetadata
             \/ UNCHANGED vars
      PROVE  Same
  BY <1>0, <1>4 DEF PreFlight, StartSession, AuthorizeSender, GetRecipientsInitPubKey,
                    SendMetadata, Tells, vars, serverVars
<1>5. Same => UNCHANGED tasks /\ \A k \in Attempt : disk'[k].file = disk[k].file
  OBVIOUS
<1> HIDE DEF Same
<1> QED
  BY <1>1, <1>2, <1>3, <1>4, <1>5 DEF Next, Server, RootStep

\* A reply is sent, when key derivation parameters are written.
LEMMA StoresKept == ASSUME TypeOK, Stores, [Next]_vars PROVE Stores'
<1> SUFFICES ASSUME service' = "3nstorage", NEW k \in Attempt
             PROVE  /\ tasks'[k] \subseteq StoreTask
                    /\ make'[k] = "defaults" /\ tasks'[k] = {} => disk'[k].file["kdp"] = Full({k})
                    /\ make'[k] = "done" => /\ tasks'[k] = {}
                                            /\ disk'[k].file["kdp"] = Full({k})
  BY DEF Stores
<1>1. service = "3nstorage"
  BY Forward
<1>2. /\ tasks[k] \subseteq StoreTask
      /\ make[k] = "defaults" /\ tasks[k] = {} => disk[k].file["kdp"] = Full({k})
      /\ make[k] = "done" => tasks[k] = {} /\ disk[k].file["kdp"] = Full({k})
  BY <1>1 DEF Stores
<1>3. /\ make \in [Attempt -> {"none", "mkdir", "dirs", "defaults", "done", "dead"}]
      /\ tasks \in [Attempt -> SUBSET Task] /\ disk \in [Attempt -> FolderType]
      /\ {"kdp", "quota", "invites"} \subseteq Param /\ OfService = {"quota", "kdp"}
  BY <1>1 DEF TypeOK, Param, OfService
<1>4. \/ make'[k] = make[k]
      \/ make'[k] \notin {"defaults", "done"}
      \/ \E j \in Attempt : InitInbox(j) \/ InitStore(j)
      \/ Reply(k)
  <2>1. ASSUME NEW p \in Page, Ask(p) PROVE make'[k] = make[k] \/ make'[k] = "mkdir"
    BY <1>3, <2>1 DEF Ask
  <2>2. ASSUME NEW j \in Attempt, MakeFolder(j, service)
        PROVE  make'[k] = make[k] \/ make'[k] = "dirs"
    BY <1>3, <2>2 DEF MakeFolder
  <2>3. ASSUME NEW j \in Attempt, Reply(j) PROVE make'[k] = make[k] \/ Reply(k)
    BY <1>3, <2>3 DEF Reply
  <2>4. ASSUME Restart PROVE make'[k] = make[k] \/ make'[k] = "dead"
    BY <1>3, <2>4 DEF Restart
  <2> QED
    BY <2>1, <2>2, <2>3, <2>4, FolderSteps
<1>5. CASE UNCHANGED tasks /\ disk'[k].file = disk[k].file
  <2>1. CASE Reply(k)
    BY <1>1, <1>2, <1>5, <2>1 DEF Reply, Built
  <2>2. CASE \E j \in Attempt : InitInbox(j) \/ InitStore(j)
    <3>1. PICK j \in Attempt : InitInbox(j) \/ InitStore(j)
      BY <2>2
    <3>2. NameFolder(j, {<<"open", "quota">>})
      BY <1>1, <3>1 DEF InitInbox, InitStore
    <3>3. j # k => make'[k] = make[k]
      BY <1>3, <3>2 DEF NameFolder
    <3>4. j = k => tasks'[k] = {<<"open", "quota">>} /\ make'[k] = "defaults"
      BY <1>3, <3>2 DEF NameFolder
    <3>5. <<"open", "quota">> \in StoreTask
      BY DEF StoreTask
    <3> QED
      BY <1>2, <1>5, <3>3, <3>4, <3>5
  <2> QED
    BY <1>2, <1>4, <1>5, <2>1, <2>2
<1>6. ASSUME NEW j \in Attempt, InitInbox(j) \/ InitStore(j)
      PROVE  /\ tasks'[k] \subseteq StoreTask
             /\ make'[k] = "defaults" /\ tasks'[k] = {} => disk'[k].file["kdp"] = Full({k})
             /\ make'[k] = "done" => tasks'[k] = {} /\ disk'[k].file["kdp"] = Full({k})
  <2>1. NameFolder(j, {<<"open", "quota">>})
    BY <1>1, <1>6 DEF InitInbox, InitStore
  <2>2. disk'[k].file = disk[k].file
    BY <2>1, NameSet DEF NameFolder
  <2>3. j # k => make'[k] = make[k] /\ tasks'[k] = tasks[k]
    BY <1>3, <2>1 DEF NameFolder
  <2>4. j = k => tasks'[k] = {<<"open", "quota">>} /\ make'[k] = "defaults"
    BY <1>3, <2>1 DEF NameFolder
  <2>5. <<"open", "quota">> \in StoreTask
    BY DEF StoreTask
  <2> QED
    BY <1>2, <2>2, <2>3, <2>4, <2>5
<1>7. ASSUME NEW j \in Attempt, MakeAnonFolder(j) PROVE FALSE
  <2>1. <<"mkdir", "anon">> \in tasks[j] /\ <<"mkdir", "anon">> \notin StoreTask
    BY <1>7 DEF MakeAnonFolder, TaskDone, StoreTask
  <2> QED
    BY <1>1, <2>1 DEF Stores
<1>8. ASSUME NEW j \in Attempt, NEW f \in {"quota", "kdp"}, OpenParam(j, f)
      PROVE  /\ tasks'[k] \subseteq StoreTask
             /\ make'[k] = "defaults" /\ tasks'[k] = {} => disk'[k].file["kdp"] = Full({k})
             /\ make'[k] = "done" => tasks'[k] = {} /\ disk'[k].file["kdp"] = Full({k})
  <2>1. /\ TaskDone(j, <<"open", f>>, {<<"write", f>>}) /\ make' = make
        /\ disk' = [disk EXCEPT ![j].file[f] = Empty]
    BY <1>8 DEF OpenParam
  <2>2. <<"open", f>> \in tasks[j] /\ <<"write", f>> \in StoreTask
    BY <2>1 DEF TaskDone, StoreTask
  <2>3. j = k => tasks'[k] = (tasks[k] \ {<<"open", f>>}) \cup {<<"write", f>>}
    BY <1>3, <2>1 DEF TaskDone
  <2>4. j # k => tasks'[k] = tasks[k] /\ disk'[k].file["kdp"] = disk[k].file["kdp"]
    BY <1>3, <2>1, ParamSet, FileTypes DEF Sets, TaskDone
  <2> QED
    BY <1>2, <2>1, <2>2, <2>3, <2>4
<1>9. ASSUME NEW j \in Attempt, NEW f \in {"quota", "kdp"}, WriteParam(j, f)
      PROVE  /\ tasks'[k] \subseteq StoreTask
             /\ make'[k] = "defaults" /\ tasks'[k] = {} => disk'[k].file["kdp"] = Full({k})
             /\ make'[k] = "done" => tasks'[k] = {} /\ disk'[k].file["kdp"] = Full({k})
  <2>1. /\ TaskDone(j, <<"write", f>>, SetNext(f)) /\ make' = make
        /\ disk' = [disk EXCEPT ![j].file[f] = Default(j, f)]
    BY <1>9 DEF WriteParam
  <2>2. <<"write", f>> \in tasks[j] /\ SetNext(f) \subseteq StoreTask
    BY <2>1 DEF TaskDone, StoreTask, SetNext
  <2>3. j = k => tasks'[k] = (tasks[k] \ {<<"write", f>>}) \cup SetNext(f)
    BY <1>3, <2>1 DEF TaskDone
  <2>4. j # k => tasks'[k] = tasks[k] /\ disk'[k].file["kdp"] = disk[k].file["kdp"]
    BY <1>3, <2>1, ParamSet, FileTypes DEF Sets, TaskDone
  <2>5. f = "quota" => SetNext(f) # {}
    BY <1>1 DEF SetNext
  <2>6. f = "kdp" /\ j = k => disk'[k].file["kdp"] = Full({k})
    <3>1. f \in Param /\ Default(j, f) \in FileType
      BY <1>3, FileTypes
    <3>2. Sets(j, f, Default(j, f))
      BY <2>1 DEF Sets
    <3>3. disk'[j].file[f] = Default(j, f)
      BY <3>1, <3>2, ParamSet
    <3> QED
      BY <3>3 DEF Default
  <2>7. j = k => make[k] # "done"
    BY <1>2, <2>2
  <2> QED
    BY <1>2, <2>1, <2>2, <2>3, <2>4, <2>5, <2>6, <2>7
<1>10. ASSUME NEW p \in Page, OpenInvites(p) \/ WriteInvites(p)
       PROVE  UNCHANGED <<make, tasks>> /\ disk'[k].file["kdp"] = disk[k].file["kdp"]
  <2>1. map \in Attempt \cup {None} /\ mail[p].at \in Attempt \cup {None}
    BY DEF TypeOK, MailType
  <2>2. CASE OpenInvites(p)
    BY <1>3, <2>1, <2>2, ParamSet, FileTypes DEF Sets, OpenInvites
  <2>3. CASE WriteInvites(p)
    BY <1>3, <2>1, <2>3, ParamSet, FileTypes DEF Sets, WriteInvites
  <2> QED
    BY <1>10, <2>2, <2>3
<1>11. CASE Restart
  BY <1>2, <1>3, <1>11, RestartDisk DEF Restart
<1> QED
  BY <1>2, <1>3, <1>5, <1>6, <1>7, <1>8, <1>9, <1>10, <1>11, FileSteps

\* A root of a folder, and its transaction, are changed by steps of making a root.
LEMMA RootSteps ==
    ASSUME TypeOK, [Next]_vars, ~RootStep, NEW k \in Attempt
    PROVE  /\ disk'[k].root = disk[k].root
           /\ disk'[k].trans = disk[k].trans \/ ~InTrans(k)'
<1> DEFINE Same == /\ disk'[k].root = disk[k].root
                   /\ disk'[k].trans = disk[k].trans \/ ~InTrans(k)'
<1>1. ASSUME Restart PROVE Same
  BY <1>1, RestartDisk
<1>2. UNCHANGED disk => Same
  OBVIOUS
<1>3. ASSUME NEW p \in Page, SignUp(p) \/ LoseReply(p) \/ GetInvites(p) \/ LoseSetting(p)
      PROVE  Same
  BY <1>2, <1>3 DEF SignUp, GetAccountInfo, CheckIfAccountExist, Ask, MakeAccountInVain, RootStep,
     CreateAccountInVain, TryAgain, Shows, LoseReply, GetInvites, LoseSetting, serverVars
<1>4. ASSUME NEW j \in Attempt, MakeNewInbox(j) \/ MakeNewStore(j) \/ Reply(j) PROVE Same
  BY <1>2, <1>4 DEF MakeNewInbox, MakeNewStore, MakeFolder, Reply
<1>5. ASSUME \/ \E p \in Page \cup {None} : PreFlight(p)
             \/ StartSession \/ AuthorizeSender \/ GetRecipientsInitPubKey \/ SendMetadata
             \/ UNCHANGED vars
      PROVE  Same
  BY <1>2, <1>5 DEF PreFlight, StartSession, AuthorizeSender, GetRecipientsInitPubKey,
                    SendMetadata, Tells, vars, serverVars
<1>6. "invites" \in Param /\ OfService \subseteq Param
  BY DEF Param, OfService
<1>7. ASSUME NEW j \in Attempt, InitInbox(j) \/ InitStore(j) \/ MakeAnonFolder(j) PROVE Same
  BY <1>7, NameSet, AnonSet DEF InitInbox, InitStore, NameFolder, MakeAnonFolder
<1>8. ASSUME NEW j \in Attempt, NEW f \in Param, OpenParam(j, f) \/ WriteParam(j, f) PROVE Same
  BY <1>2, <1>8, ParamSet, FileTypes DEF Sets, OpenParam, WriteParam
<1>9. ASSUME NEW p \in Page, OpenInvites(p) \/ WriteInvites(p) PROVE Same
  <2>1. map \in Attempt \cup {None} /\ mail[p].at \in Attempt \cup {None}
    BY DEF TypeOK, MailType
  <2> QED
    BY <1>6, <1>9, <2>1, ParamSet, FileTypes DEF Sets, OpenInvites, WriteInvites
<1> HIDE DEF Same
<1>10. Same
  BY <1>1, <1>3, <1>4, <1>5, <1>6, <1>7, <1>8, <1>9 DEF Next, Server, SignUp, RootStep
<1> QED
  BY <1>10 DEF Same

\* A page makes a root after a reply, or without it, when an account exists.
LEMMA Rooting ==
    ASSUME TypeOK, [Next]_vars, NEW p \in Page, page'[p].st \in AtRoot
    PROVE  \/ page'[p] = page[p]
           \/ page[p].st \in AtRoot /\ page'[p].ask = page[p].ask
           \/ "exists" \in hurt' /\ service = "3nstorage"
           \/ /\ page'[p].ask = page[p].ask
              /\ service = "3nstorage"
              /\ \E k \in Attempt : page[p].ask = k /\ Reply(k)
<1>1. page \in [Page -> PageType]
  BY DEF TypeOK
<1>2. ASSUME NEW q \in Page, SignUp(q), ~RootStep
      PROVE  \/ page'[p] = page[p]
             \/ "exists" \in hurt' /\ service = "3nstorage"
  <2>1. ASSUME NEW from, NEW st, st \notin AtRoot, Shows(q, from, st) PROVE page'[p] = page[p]
    BY <1>1, <2>1 DEF Shows
  <2>2. ASSUME Ask(q) PROVE page'[p] = page[p]
    BY <1>1, <2>2 DEF Ask, AtRoot
  <2>3. CASE CreateAccountInVain(q)
    BY <2>3 DEF CreateAccountInVain
  <2>5. ASSUME GetAccountInfo(q) \/ CheckIfAccountExist(q) \/ MakeAccountInVain(q) \/ TryAgain(q)
        PROVE  \E from, st : st \notin AtRoot /\ Shows(q, from, st)
    <3>1. CASE GetAccountInfo(q)
      BY <3>1 DEF GetAccountInfo, GetInfo, AtRoot
    <3>2. CASE CheckIfAccountExist(q)
      BY <3>2 DEF CheckIfAccountExist, AtRoot
    <3>3. CASE MakeAccountInVain(q)
      BY <3>3 DEF MakeAccountInVain, AtRoot
    <3>4. CASE TryAgain(q)
      BY <3>4 DEF TryAgain, AtRoot
    <3> QED
      BY <2>5, <3>1, <3>2, <3>3, <3>4
  <2> QED
    <3>1. CASE Ask(q)
      BY <3>1, <2>2
    <3>2. CASE CreateAccountInVain(q)
      BY <3>2, <2>3
    <3>3. CASE GetAccountInfo(q) \/ CheckIfAccountExist(q) \/ MakeAccountInVain(q) \/ TryAgain(q)
      BY <3>3, <2>1, <2>5
    <3> QED
      BY <1>2, <3>1, <3>2, <3>3 DEF SignUp, RootStep
<1>3. ASSUME NEW q \in Page, LoseReply(q) PROVE page'[p] = page[p]
  BY <1>1, <1>3 DEF LoseReply, AtRoot
<1>4. ASSUME NEW k \in Attempt, Reply(k)
      PROVE  \/ page'[p] = page[p]
             \/ /\ page'[p].ask = page[p].ask
                /\ service = "3nstorage" /\ page[p].ask = k
  <2>1. page'[p] = IF page[p].st = "waiting" /\ page[p].ask = k
                   THEN [page[p] EXCEPT !.st = IF service = "asmail" THEN "none"
                                               ELSE "rooting"]
                   ELSE page[p]
    BY <1>4 DEF Reply
  <2>2. page[p] \in PageType
    BY <1>1
  <2>3. CASE page[p].st = "waiting" /\ page[p].ask = k
    <3>1. service = "3nstorage"
      BY <2>1, <2>2, <2>3 DEF PageType, TypeOK, AtRoot
    <3>2. page'[p].ask = page[p].ask
      BY <2>1, <2>2, <2>3 DEF PageType
    <3> QED
      BY <2>3, <3>1, <3>2
  <2>4. CASE ~(page[p].st = "waiting" /\ page[p].ask = k)
    BY <2>1, <2>4
  <2> QED
    BY <2>3, <2>4
<1>5. CASE Restart
  BY <1>1, <1>5 DEF Restart, AtRoot
<1>6. ASSUME NEW k \in Attempt, Server(k), ~Reply(k) PROVE UNCHANGED page
  BY <1>6 DEF Server, MakeNewInbox, MakeNewStore, InitInbox, InitStore, MakeFolder,
              NameFolder, MakeAnonFolder, OpenParam, WriteParam, FinalizeRoot, clientVars
<1>7. ASSUME \/ \E q \in Page : \/ GetInvites(q) \/ OpenInvites(q) \/ WriteInvites(q)
                                \/ LoseSetting(q)
             \/ \E q \in Page \cup {None} : PreFlight(q)
             \/ StartSession \/ AuthorizeSender \/ GetRecipientsInitPubKey \/ SendMetadata
             \/ UNCHANGED vars
      PROVE  UNCHANGED page
  BY <1>7 DEF GetInvites, OpenInvites, WriteInvites, LoseSetting, PreFlight, StartSession,
              AuthorizeSender, GetRecipientsInitPubKey, SendMetadata, Tells, vars, clientVars
<1>8. CASE RootStep
  BY <1>8, RootPages
<1> QED
  BY <1>2, <1>3, <1>4, <1>5, <1>6, <1>7, <1>8 DEF Next, RootStep

\* Page's own attempt has made the folder, which is picked up for its root.
LEMMA RootsKept == ASSUME TypeOK, Folders, Named, Roots, [Next]_vars PROVE Roots'
<1>1. service' = service /\ hurt \subseteq hurt'
  BY Forward
<1>2. ASSUME NEW p \in Page, page'[p].st \in AtRoot PROVE service = "3nstorage"
  BY <1>2, Rooting DEF Roots
<1> SUFFICES ASSUME hurt' \cap {"twice", "exists"} = {}
             PROVE  /\ \A p \in Page : page'[p].st \in AtRoot =>
                        page'[p].ask \in Attempt /\ make'[page'[p].ask] = "done"
                    /\ \A k \in Attempt : InTrans(k)' =>
                        service = "3nstorage" /\ make'[k] = "done" /\ disk'[k].trans.key = k
                    /\ \A k \in Attempt : disk'[k].root # None =>
                        service = "3nstorage" /\ make'[k] = "done" /\ disk'[k].root = k
  BY <1>1, <1>2 DEF Roots
<1>3. /\ \A p \in Page : page[p].st \in AtRoot =>
          /\ service = "3nstorage" /\ page[p].ask \in Attempt
          /\ make[page[p].ask] = "done"
      /\ \A k \in Attempt : InTrans(k) =>
          service = "3nstorage" /\ make[k] = "done" /\ disk[k].trans.key = k
      /\ \A k \in Attempt : disk[k].root # None =>
          service = "3nstorage" /\ make[k] = "done" /\ disk[k].root = k
  BY <1>1 DEF Roots
<1>4. \A k \in Attempt : make[k] = "done" => make'[k] = "done"
  BY Forward
<1>5. ASSUME NEW p \in Page, page'[p].st \in AtRoot
      PROVE  page'[p].ask \in Attempt /\ make'[page'[p].ask] = "done"
  <2>1. CASE page'[p] = page[p] \/ (page[p].st \in AtRoot /\ page'[p].ask = page[p].ask)
    BY <1>3, <1>4, <1>5, <2>1
  <2>2. ASSUME NEW k \in Attempt, page'[p].ask = k, service = "3nstorage", Reply(k)
        PROVE  make'[page'[p].ask] = "done"
    BY <2>2 DEF Reply, TypeOK
  <2> QED
    BY <1>5, <2>1, <2>2, Rooting
<1>6. ASSUME NEW k \in Attempt, disk'[k].root # None
      PROVE  service = "3nstorage" /\ make'[k] = "done" /\ disk'[k].root = k
  <2>1. CASE disk'[k].root = disk[k].root
    BY <1>3, <1>4, <1>6, <2>1
  <2>2. CASE InTrans(k) /\ disk'[k].root = disk[k].trans.key
    BY <1>3, <1>4, <2>2
  <2> QED
    BY <2>1, <2>2, RootSteps, RootStepDoes
<1>7. ASSUME NEW k \in Attempt, InTrans(k)'
      PROVE  service = "3nstorage" /\ make'[k] = "done" /\ disk'[k].trans.key = k
  <2>1. CASE disk'[k].trans = disk[k].trans
    BY <1>3, <1>4, <1>7, <2>1 DEF InTrans
  <2>2. CASE InTrans(k) /\ disk'[k].trans.key = disk[k].trans.key
    BY <1>3, <1>4, <2>2
  <2>3. ASSUME NEW p \in Page, page[p].st = "rooting", map = k,
               disk'[k].trans.key = page[p].ask
        PROVE  service = "3nstorage" /\ make'[k] = "done" /\ disk'[k].trans.key = k
    <3>1. /\ service = "3nstorage" /\ page[p].ask \in Attempt
          /\ make[page[p].ask] = "done"
      BY <1>3, <2>3 DEF AtRoot
    <3>2. map = page[p].ask
      BY <1>1, <3>1 DEF Folders, Named
    <3> QED
      BY <1>4, <2>3, <3>1, <3>2
  <2>4. CASE RootStep
    <3>1. NewTrans(k, disk'[k].trans)
      BY <2>4, RootStepDoes
    <3>2. disk'[k].trans.st \in {"open", "final"}
      BY <1>7 DEF InTrans
    <3> QED
      BY <2>2, <2>3, <3>1, <3>2 DEF NewTrans
  <2> QED
    BY <1>7, <2>1, <2>4, RootSteps
<1> QED
  BY <1>5, <1>6, <1>7

-----------------------------------------------------------------------------
(* Mail pages                                                               *)

\* Mail pages are changed by their own steps, and by a restart.
LEMMA MailSteps ==
    ASSUME [Next]_vars
    PROVE  \/ UNCHANGED mail
           \/ \E p \in Page : GetInvites(p) \/ OpenInvites(p) \/ WriteInvites(p) \/ LoseSetting(p)
           \/ Restart
<1>1. ASSUME NEW k \in Attempt, Server(k) PROVE UNCHANGED mail
  BY <1>1 DEF Server, MakeNewInbox, MakeNewStore, InitInbox, InitStore, MakeFolder, FinalizeRoot,
              NameFolder, MakeAnonFolder, OpenParam, WriteParam, Reply, clientVars
<1>2. ASSUME NEW q \in Page, SignUp(q) \/ LoseReply(q) \/ LoseRoot(q) PROVE UNCHANGED mail
  BY <1>2 DEF SignUp, GetAccountInfo, CheckIfAccountExist, Ask, MakeAccountInVain,
              CreateAccountInVain, StartRoot, SendRoot, LoseRoot, TryAgain, Shows, LoseReply
<1>3. ASSUME \/ \E q \in Page \cup {None} : PreFlight(q)
             \/ StartSession \/ AuthorizeSender \/ GetRecipientsInitPubKey \/ SendMetadata
             \/ UNCHANGED vars
      PROVE  UNCHANGED mail
  BY <1>3 DEF PreFlight, StartSession, AuthorizeSender,
              GetRecipientsInitPubKey, SendMetadata, Tells, vars, clientVars
<1>4. ASSUME NEW k \in Attempt, FinalizeLost(k) PROVE UNCHANGED mail
  BY <1>4 DEF FinalizeLost, clientVars
<1> QED
  BY <1>1, <1>2, <1>3, <1>4 DEF Next

\* A page takes a token, that is there, or comes with its own one.
LEMMA GetInvitesDoes ==
    ASSUME TypeOK, NEW p \in Page, GetInvites(p)
    PROVE  /\ service = "asmail" /\ map \in Attempt /\ Opened
           /\ mail[p].st \in {"none", "failed"} /\ mail'[p].lost = FALSE
           /\ \A q \in Page : q # p => mail'[q] = mail[q]
           /\ \/ mail'[p].st = "failed"
              \/ /\ mail'[p].st = "got" /\ mail'[p].token = p
                 /\ disk[map].file["invites"].st = "full"
                 /\ disk[map].file["invites"].val = {}
              \/ /\ mail'[p].st = "done"
                 /\ disk[map].file["invites"].st = "full"
                 /\ mail'[p].token \in disk[map].file["invites"].val
           /\ Asking # {} => p \in hurt' /\ (mail'[p].st = "got" => Asking \subseteq hurt')
           /\ UNCHANGED <<disk, map>>
<1> DEFINE invites == disk[map].file["invites"]
           st == IF ~CanGet("invites") THEN "failed"
                 ELSE IF invites.val = {} THEN "got" ELSE "done"
           token == IF st = "got" THEN p
                    ELSE IF st = "done" THEN CHOOSE t \in invites.val : TRUE
                    ELSE None
<1>1. /\ mail' = [mail EXCEPT ![p] =
                    [st |-> st, at |-> None, lost |-> FALSE, token |-> token]]
      /\ hurt' = hurt \cup (IF Asking = {} THEN {}
                            ELSE {p} \cup (IF st = "got" THEN Asking ELSE {}))
  BY DEF GetInvites
<1>2. mail'[p].st = st /\ mail'[p].token = token /\ mail'[p].lost = FALSE
  BY <1>1 DEF TypeOK
<1>3. \A q \in Page : q # p => mail'[q] = mail[q]
  BY <1>1 DEF TypeOK
<1>4. \/ st = "failed"
      \/ st = "got" /\ token = p /\ CanGet("invites") /\ invites.val = {}
      \/ st = "done" /\ CanGet("invites") /\ token \in invites.val
  <2>1. CASE ~CanGet("invites")
    BY <2>1
  <2>2. CASE CanGet("invites") /\ invites.val = {}
    BY <2>2
  <2>3. CASE CanGet("invites") /\ invites.val # {}
    <3>1. (CHOOSE t \in invites.val : TRUE) \in invites.val
      BY <2>3
    <3> QED
      BY <2>3, <3>1
  <2> QED
    BY <2>1, <2>2, <2>3
<1>5. CanGet("invites") => invites.st = "full"
  BY DEF CanGet, Readable
<1>6. /\ service = "asmail" /\ map \in Attempt /\ Opened
      /\ mail[p].st \in {"none", "failed"} /\ UNCHANGED <<disk, map>>
  BY DEF GetInvites, Opened, TypeOK, serverVars
<1>7. Asking # {} => p \in hurt' /\ (st = "got" => Asking \subseteq hurt')
  BY <1>1
<1> HIDE DEF invites, st, token
<1>8. \/ mail'[p].st = "failed"
      \/ mail'[p].st = "got" /\ mail'[p].token = p /\ invites.st = "full" /\ invites.val = {}
      \/ mail'[p].st = "done" /\ invites.st = "full" /\ mail'[p].token \in invites.val
  BY <1>2, <1>4, <1>5
<1>9. Asking # {} => p \in hurt' /\ (mail'[p].st = "got" => Asking \subseteq hurt')
  BY <1>2, <1>7
<1> QED
  BY <1>2, <1>3, <1>6, <1>8, <1>9 DEF invites

\* A file is truncated by a page, that sends its token, and its writing follows.
LEMMA OpenInvitesDoes ==
    ASSUME TypeOK, NEW p \in Page, OpenInvites(p)
    PROVE  /\ mail[p].st = "got" /\ mail'[p].st = "writing"
           /\ mail'[p].at = map /\ mail'[p].token = mail[p].token
           /\ mail'[p].lost = mail[p].lost
           /\ \A q \in Page : q # p => mail'[q] = mail[q]
           /\ \A k \in Attempt, f \in Param :
                disk'[k].file[f] = IF k = map /\ f = "invites" THEN Empty
                                   ELSE disk[k].file[f]
           /\ \A k \in Attempt : disk'[k].userid = disk[k].userid
           /\ UNCHANGED <<map, make, tasks, page, send, hurt, broken>>
<1>1. map \in Attempt \cup {None} /\ "invites" \in Param
  BY DEF TypeOK, Param
<1>2. Sets(map, "invites", Empty)
  BY DEF Sets, OpenInvites
<1>3. \A k \in Attempt, f \in Param :
        disk'[k].file[f] = IF k = map /\ f = "invites" THEN Empty ELSE disk[k].file[f]
  BY <1>1, <1>2, ParamSet, FileTypes
<1>4. \A k \in Attempt : disk'[k].userid = disk[k].userid
  BY <1>1, <1>2, ParamSet, FileTypes
<1>5. mail[p] \in MailType /\ mail \in [Page -> MailType]
  BY DEF TypeOK
<1>6. mail'[p] = [mail[p] EXCEPT !.st = "writing", !.at = map]
  BY <1>5 DEF OpenInvites
<1>7. /\ mail'[p].st = "writing" /\ mail'[p].at = map /\ mail'[p].token = mail[p].token
      /\ mail'[p].lost = mail[p].lost
  BY <1>5, <1>6 DEF MailType
<1>8. \A q \in Page : q # p => mail'[q] = mail[q]
  BY <1>5 DEF OpenInvites
<1> QED
  BY <1>3, <1>4, <1>7, <1>8 DEF OpenInvites, noteVars

LEMMA WriteInvitesDoes ==
    ASSUME TypeOK, NEW p \in Page, WriteInvites(p)
    PROVE  /\ mail[p].st = "writing" /\ mail'[p].st = "done"
           /\ mail'[p].token = mail[p].token /\ mail'[p].lost = mail[p].lost
           /\ \A q \in Page : q # p => mail'[q] = mail[q]
           /\ \A k \in Attempt, f \in Param :
                disk'[k].file[f] = IF k = mail[p].at /\ f = "invites" THEN Full({p})
                                   ELSE disk[k].file[f]
           /\ \A k \in Attempt : disk'[k].userid = disk[k].userid
           /\ UNCHANGED <<map, make, tasks, page, send, hurt, broken>>
<1>1. mail[p].at \in Attempt \cup {None} /\ "invites" \in Param /\ Full({p}) \in FileType
  BY FileTypes DEF TypeOK, MailType, Param
<1>2. Sets(mail[p].at, "invites", Full({p}))
  BY DEF Sets, WriteInvites
<1>3. \A k \in Attempt, f \in Param :
        disk'[k].file[f] = IF k = mail[p].at /\ f = "invites" THEN Full({p})
                           ELSE disk[k].file[f]
  BY <1>1, <1>2, ParamSet
<1>4. \A k \in Attempt : disk'[k].userid = disk[k].userid
  BY <1>1, <1>2, ParamSet
<1>5. mail[p] \in MailType /\ mail \in [Page -> MailType]
  BY DEF TypeOK
<1>6. mail'[p] = [mail[p] EXCEPT !.st = "done"]
  BY <1>5 DEF WriteInvites
<1>7. mail'[p].st = "done" /\ mail'[p].token = mail[p].token /\ mail'[p].lost = mail[p].lost
  BY <1>5, <1>6 DEF MailType
<1>8. \A q \in Page : q # p => mail'[q] = mail[q]
  BY <1>5 DEF WriteInvites
<1> QED
  BY <1>3, <1>4, <1>7, <1>8 DEF WriteInvites, noteVars

\* A page, whose request has failed, goes on with its token, and has a note of it.
LEMMA LoseSettingDoes ==
    ASSUME TypeOK, NEW p \in Page, LoseSetting(p)
    PROVE  /\ p \in Asking /\ p \in hurt'
           /\ mail'[p].token = mail[p].token /\ mail'[p].at = mail[p].at
           /\ \/ mail'[p].lost /\ mail'[p].st = mail[p].st
              \/ mail[p].st = "got" /\ mail'[p].st = "done" /\ mail'[p].lost = mail[p].lost
           /\ \A q \in Page : q # p => mail'[q] = mail[q]
           /\ UNCHANGED <<map, disk, make, tasks, page, send, broken>>
<1>1. mail[p] \in MailType /\ mail \in [Page -> MailType]
  BY DEF TypeOK
<1>2. CASE mail' = [mail EXCEPT ![p].lost = TRUE]
  <2>1. mail'[p] = [mail[p] EXCEPT !.lost = TRUE] /\ \A q \in Page : q # p => mail'[q] = mail[q]
    BY <1>1, <1>2
  <2>2. /\ mail'[p].lost /\ mail'[p].st = mail[p].st
        /\ mail'[p].token = mail[p].token /\ mail'[p].at = mail[p].at
    BY <1>1, <2>1 DEF MailType
  <2> QED
    BY <2>1, <2>2 DEF LoseSetting, serverVars
<1>3. CASE mail[p].st = "got" /\ mail' = [mail EXCEPT ![p].st = "done"]
  <2>1. mail'[p] = [mail[p] EXCEPT !.st = "done"] /\ \A q \in Page : q # p => mail'[q] = mail[q]
    BY <1>1, <1>3
  <2>2. /\ mail'[p].lost = mail[p].lost /\ mail'[p].st = "done"
        /\ mail'[p].token = mail[p].token /\ mail'[p].at = mail[p].at
    BY <1>1, <2>1 DEF MailType
  <2> QED
    BY <1>3, <2>1, <2>2 DEF LoseSetting, serverVars
<1> QED
  BY <1>2, <1>3 DEF LoseSetting

\* A restart is a failure for pages, that set their tokens.
LEMMA RestartMails ==
    ASSUME TypeOK, Restart
    PROVE  /\ Asking \subseteq hurt'
           /\ \A p \in Page :
                /\ p \notin Asking => mail'[p] = mail[p]
                /\ p \in Asking => mail'[p].st = "done" /\ mail'[p].lost = mail[p].lost
<1>1. \A p \in Page : mail[p] \in MailType
  BY DEF TypeOK
<1>2. \A p \in Page : mail'[p] = IF p \in Asking THEN [mail[p] EXCEPT !.st = "done"] ELSE mail[p]
  BY DEF Restart
<1>3. \A p \in Page : /\ [mail[p] EXCEPT !.st = "done"].st = "done"
                      /\ [mail[p] EXCEPT !.st = "done"].lost = mail[p].lost
  BY <1>1 DEF MailType
<1>4. Asking \subseteq hurt'
  BY DEF Restart
<1> QED
  BY <1>2, <1>3, <1>4

\* An account is shown for good.
LEMMA OpenedKept == ASSUME TypeOK, [Next]_vars, Opened PROVE Opened'
BY Forward DEF Opened

LEMMA MailsKept == ASSUME TypeOK, Mails, [Next]_vars PROVE Mails'
<1> DEFINE Good(p, m, at, opened) ==
        /\ m.st # "none" => service = "asmail" /\ opened
        /\ m.st \in {"got", "writing"} => m.token = p
        /\ m.lost => p \in at /\ m.st \in {"got", "writing", "done"}
<1> SUFFICES ASSUME NEW p \in Page PROVE Good(p, mail'[p], hurt', Opened')
  BY Forward DEF Mails
<1>1. Good(p, mail[p], hurt', Opened')
  BY OpenedKept, Forward DEF Mails
<1>2. CASE mail'[p] = mail[p]
  BY <1>1, <1>2
<1>3. ASSUME NEW q \in Page, GetInvites(q) PROVE Good(p, mail'[p], hurt', Opened')
  BY <1>1, <1>3, GetInvitesDoes, OpenedKept
<1>4. ASSUME NEW q \in Page, OpenInvites(q) PROVE Good(p, mail'[p], hurt', Opened')
  BY <1>1, <1>4, OpenInvitesDoes
<1>5. ASSUME NEW q \in Page, WriteInvites(q) PROVE Good(p, mail'[p], hurt', Opened')
  BY <1>1, <1>5, WriteInvitesDoes
<1>6. CASE Restart
  BY <1>1, <1>6, RestartMails DEF Asking
<1>7. ASSUME NEW q \in Page, LoseSetting(q) PROVE Good(p, mail'[p], hurt', Opened')
  <2>1. q = p \/ q # p
    OBVIOUS
  <2> QED
    BY <1>1, <1>7, <2>1, LoseSettingDoes DEF Asking
<1> HIDE DEF Good
<1> QED
  BY <1>2, <1>3, <1>4, <1>5, <1>6, <1>7, MailSteps

\* A page, that has given its token, has it.
LEMMA GivenKept ==
    ASSUME TypeOK, Mails, [Next]_vars, NEW p \in Page, Given(p)
    PROVE  Given(p)'
<1>1. CASE mail'[p] = mail[p]
  BY <1>1 DEF Given
<1>2. CASE mail[p].st = "done"
  BY <1>1, <1>2, Forward
<1>3. CASE mail[p].lost /\ mail[p].st # "done"
  <2>1. mail[p].st \in {"got", "writing"}
    BY <1>3 DEF Mails
  <2>2. ASSUME NEW q \in Page, GetInvites(q) PROVE Given(p)'
    BY <1>1, <2>1, <2>2, GetInvitesDoes
  <2>3. ASSUME NEW q \in Page, OpenInvites(q) PROVE Given(p)'
    BY <1>1, <1>3, <2>3, OpenInvitesDoes DEF Given
  <2>4. ASSUME NEW q \in Page, WriteInvites(q) PROVE Given(p)'
    BY <1>1, <1>3, <2>4, WriteInvitesDoes DEF Given
  <2>5. ASSUME NEW q \in Page, LoseSetting(q) PROVE Given(p)'
    BY <1>1, <1>3, <2>5, LoseSettingDoes DEF Given
  <2>6. CASE Restart
    BY <1>3, <2>6, RestartMails DEF Given
  <2> QED
    BY <1>1, <2>2, <2>3, <2>4, <2>5, <2>6, MailSteps
<1> QED
  BY <1>2, <1>3 DEF Given

-----------------------------------------------------------------------------
(* Files of inboxes                                                         *)

\* What calls on files of an inbox do, when none of them is out of order.
LEMMA OpenParamDoes ==
    ASSUME TypeOK, NEW j \in Attempt, NEW g \in Param, OpenParam(j, g), j \notin broken'
    PROVE  /\ <<"open", g>> \in tasks[j]
           /\ \A k \in Attempt : tasks'[k] =
                IF k = j THEN (tasks[k] \ {<<"open", g>>}) \cup {<<"write", g>>} ELSE tasks[k]
           /\ Sets(j, g, Empty)
           /\ UNCHANGED <<service, map, make, page, mail, send>>
<1>1. /\ TaskDone(j, <<"open", g>>, {<<"write", g>>})
      /\ disk' = [disk EXCEPT ![j].file[g] = Empty]
      /\ UNCHANGED <<service, map, make, page, mail, send>>
  BY DEF OpenParam, clientVars
<1>2. Sets(j, g, Empty)
  BY <1>1 DEF Sets
<1>3. /\ <<"open", g>> \in tasks[j]
      /\ tasks' = [tasks EXCEPT ![j] = (tasks[j] \ {<<"open", g>>}) \cup {<<"write", g>>}]
  BY <1>1 DEF TaskDone
<1>4. \A k \in Attempt : tasks'[k] =
        IF k = j THEN (tasks[k] \ {<<"open", g>>}) \cup {<<"write", g>>} ELSE tasks[k]
  BY <1>3 DEF TypeOK
<1> QED
  BY <1>1, <1>2, <1>3, <1>4

LEMMA WriteParamDoes ==
    ASSUME TypeOK, service = "asmail", NEW j \in Attempt, NEW g \in Param, WriteParam(j, g)
    PROVE  /\ <<"write", g>> \in tasks[j]
           /\ \A k \in Attempt : tasks'[k] =
                IF k = j THEN tasks[k] \ {<<"write", g>>} ELSE tasks[k]
           /\ \A k \in Attempt, f \in Param :
                disk'[k].file[f] = IF k = j /\ f = g THEN Default(j, g) ELSE disk[k].file[f]
           /\ \A k \in Attempt : disk'[k].userid = disk[k].userid
           /\ UNCHANGED <<service, map, make, page, mail, send>>
<1>1. /\ TaskDone(j, <<"write", g>>, {})
      /\ disk' = [disk EXCEPT ![j].file[g] = Default(j, g)]
      /\ UNCHANGED <<service, map, make, page, mail, send>>
  BY DEF WriteParam, SetNext, clientVars
<1>2. Sets(j, g, Default(j, g)) /\ Default(j, g) \in FileType
  BY <1>1, FileTypes DEF Sets
<1>3. /\ \A k \in Attempt, f \in Param :
           disk'[k].file[f] = IF k = j /\ f = g THEN Default(j, g) ELSE disk[k].file[f]
      /\ \A k \in Attempt : disk'[k].userid = disk[k].userid
  BY <1>2, ParamSet
<1>4. /\ <<"write", g>> \in tasks[j]
      /\ tasks' = [tasks EXCEPT ![j] = tasks[j] \ {<<"write", g>>}]
  BY <1>1 DEF TaskDone
<1>5. \A k \in Attempt : tasks'[k] = IF k = j THEN tasks[k] \ {<<"write", g>>} ELSE tasks[k]
  BY <1>4 DEF TypeOK
<1> QED
  BY <1>1, <1>3, <1>4, <1>5

LEMMA InitInboxDoes ==
    ASSUME TypeOK, NEW j \in Attempt, InitInbox(j)
    PROVE  /\ make[j] = "dirs"
           /\ \A f : <<"write", f>> \notin tasks'[j]
           /\ make'[j] = "defaults"
           /\ \A k \in Attempt : k # j => tasks'[k] = tasks[k] /\ make'[k] = make[k]
           /\ \A k \in Attempt : /\ disk'[k].file = disk[k].file
                                 /\ disk'[k].userid = (disk[k].userid \/ k = j)
           /\ UNCHANGED <<service, map, page, mail, send>>
<1>1. NameFolder(j, SetDefaultParameters)
  BY DEF InitInbox
<1>2. tasks'[j] = SetDefaultParameters /\ make'[j] = "defaults"
  BY <1>1 DEF NameFolder, TypeOK
<1>3. \A f : <<"write", f>> \notin SetDefaultParameters
  BY DEF SetDefaultParameters
<1>4. \A k \in Attempt : k # j => tasks'[k] = tasks[k] /\ make'[k] = make[k]
  BY <1>1 DEF NameFolder, TypeOK
<1>5. \A k \in Attempt : /\ disk'[k].file = disk[k].file
                         /\ disk'[k].userid = (disk[k].userid \/ k = j)
  BY <1>1, NameSet DEF NameFolder
<1> QED
  BY <1>1, <1>2, <1>3, <1>4, <1>5 DEF NameFolder, clientVars

LEMMA MakeAnonFolderDoes ==
    ASSUME TypeOK, NEW j \in Attempt, MakeAnonFolder(j)
    PROVE  /\ tasks[j] # {}
           /\ \A k \in Attempt : tasks'[k] \subseteq tasks[k]
           /\ \A k \in Attempt : /\ disk'[k].file = disk[k].file
                                 /\ disk'[k].userid = disk[k].userid
           /\ UNCHANGED <<service, map, make, page, mail, send>>
<1>1. /\ <<"mkdir", "anon">> \in tasks[j]
      /\ tasks' = [tasks EXCEPT ![j] = (tasks[j] \ {<<"mkdir", "anon">>}) \cup {}]
  BY DEF MakeAnonFolder, TaskDone
<1>2. \A k \in Attempt : tasks'[k] \subseteq tasks[k]
  BY <1>1 DEF TypeOK
<1> QED
  BY <1>1, <1>2, AnonSet DEF MakeAnonFolder, clientVars

\* A restart, that interrupts nothing.
LEMMA QuietRestart ==
    ASSUME TypeOK, Restart, Quiet'
    PROVE  /\ \A k \in Attempt : tasks[k] = {} /\ tasks'[k] = {}
           /\ Writing = {}
           /\ \A k \in Attempt : /\ disk'[k].userid = disk[k].userid
                                 /\ disk'[k].file = disk[k].file
           /\ \A k \in Attempt : make'[k] = make[k] \/ make'[k] = "dead"
<1>1. /\ broken' = broken \cup {k \in Attempt : tasks[k] # {} \/ InTrans(k)}
                          \cup {mail[p].at : p \in Writing}
      /\ broken' = {}
  BY DEF Restart, Quiet, Writing
<1>2. \A k \in Attempt : tasks[k] = {}
  BY <1>1
<1>3. Writing = {}
  BY <1>1
<1> QED
  BY <1>2, <1>3, RestartDisk DEF Restart

\* A folder without userid was without it.
LEMMA MakeForward ==
    ASSUME TypeOK, [Next]_vars, NEW k \in Attempt, make'[k] \in {"none", "mkdir", "dirs"}
    PROVE  make[k] \in {"none", "mkdir", "dirs"}
<1>1. ASSUME NEW p \in Page, Ask(p) PROVE make[k] \in {"none", "mkdir", "dirs"}
  BY <1>1 DEF Ask, TypeOK
<1>2. ASSUME NEW j \in Attempt, MakeFolder(j, service) PROVE make[k] \in {"none", "mkdir", "dirs"}
  BY <1>2 DEF MakeFolder, TypeOK
<1>3. ASSUME NEW j \in Attempt, InitInbox(j) \/ InitStore(j)
      PROVE  make[k] \in {"none", "mkdir", "dirs"}
  BY <1>3 DEF InitInbox, InitStore, NameFolder, TypeOK
<1>4. ASSUME NEW j \in Attempt, Reply(j) PROVE make[k] \in {"none", "mkdir", "dirs"}
  BY <1>4 DEF Reply, TypeOK
<1>5. CASE Restart
  BY <1>5 DEF Restart
<1> QED
  BY <1>1, <1>2, <1>3, <1>4, <1>5, FolderSteps

LEMMA QuietBefore == ASSUME TypeOK, [Next]_vars, Quiet' PROVE Quiet
BY Forward DEF Quiet

\* Files of the account that has been shown.
LEMMA ShownFiles ==
    ASSUME Quiet, Named, Inboxes, Opened, TypeOK
    PROVE  /\ map \in Attempt
           /\ make[map] \notin {"none", "mkdir", "dirs"}
           /\ \A f \in OfService : Idle(map, f)
BY DEF Inboxes, Named, Quiet, OfService, TypeOK

LEMMA FillingKept ==
    ASSUME TypeOK, Named, Mails, Filling, Inboxes, [Next]_vars
    PROVE  Filling'
<1> SUFFICES ASSUME Quiet', NEW k \in Attempt, NEW f \in Param
             PROVE  /\ <<"open", f>> \in tasks'[k] => /\ disk'[k].file[f].st # "full"
                                                     /\ <<"write", f>> \notin tasks'[k]
                    /\ <<"write", f>> \in tasks'[k] => disk'[k].file[f].st # "full"
                    /\ make'[k] \in {"none", "mkdir", "dirs"} => /\ disk'[k].file[f].st # "full"
                                                                /\ tasks'[k] = {}
  BY DEF Filling
<1>1. Quiet /\ service = "asmail" /\ broken' = {}
  BY QuietBefore DEF Quiet
<1>2. /\ <<"open", f>> \in tasks[k] => /\ disk[k].file[f].st # "full"
                                      /\ <<"write", f>> \notin tasks[k]
      /\ <<"write", f>> \in tasks[k] => disk[k].file[f].st # "full"
      /\ make[k] \in {"none", "mkdir", "dirs"} => disk[k].file[f].st # "full" /\ tasks[k] = {}
  BY <1>1 DEF Filling
<1>3. make'[k] \in {"none", "mkdir", "dirs"} => make[k] \in {"none", "mkdir", "dirs"}
  BY MakeForward
<1>4. CASE tasks'[k] \subseteq tasks[k] /\ disk'[k].file[f] = disk[k].file[f]
  BY <1>2, <1>3, <1>4
<1>5. ASSUME NEW j \in Attempt, InitInbox(j), j = k
      PROVE  /\ disk'[k].file[f].st # "full" /\ <<"write", f>> \notin tasks'[k]
             /\ make'[k] = "defaults"
  BY <1>2, <1>5, InitInboxDoes
<1>6. ASSUME NEW j \in Attempt, InitInbox(j), j # k
      PROVE  tasks'[k] \subseteq tasks[k] /\ disk'[k].file[f] = disk[k].file[f]
  BY <1>6, InitInboxDoes
<1>7. ASSUME NEW j \in Attempt, InitStore(j) PROVE FALSE
  BY <1>1, <1>7 DEF InitStore
<1>8. ASSUME NEW j \in Attempt, MakeAnonFolder(j)
      PROVE  tasks'[k] \subseteq tasks[k] /\ disk'[k].file[f] = disk[k].file[f]
  BY <1>8, MakeAnonFolderDoes
<1>9. "full" # Empty.st /\ OfService \subseteq Param
  BY DEF Empty, OfService, Param
<1>10. ASSUME NEW j \in Attempt, NEW g \in OfService, OpenParam(j, g)
       PROVE  \/ tasks'[k] \subseteq tasks[k] /\ disk'[k].file[f] = disk[k].file[f]
              \/ /\ disk'[k].file[f].st # "full"
                 /\ <<"open", f>> \notin tasks'[k]
                 /\ make[k] \notin {"none", "mkdir", "dirs"}
              \/ /\ \A do \in {"open", "write"} : <<do, f>> \in tasks'[k] <=> <<do, f>> \in tasks[k]
                 /\ disk'[k].file[f] = disk[k].file[f]
                 /\ make[k] \notin {"none", "mkdir", "dirs"}
  <2>1. /\ <<"open", g>> \in tasks[j]
        /\ tasks'[k] = IF k = j THEN (tasks[k] \ {<<"open", g>>}) \cup {<<"write", g>>}
                       ELSE tasks[k]
        /\ disk'[k].file[f] = IF k = j /\ f = g THEN Empty ELSE disk[k].file[f]
    <3>1. g \in Param /\ j \notin broken'
      BY <1>1, <1>9
    <3>2. /\ <<"open", g>> \in tasks[j]
          /\ \A i \in Attempt : tasks'[i] =
               IF i = j THEN (tasks[i] \ {<<"open", g>>}) \cup {<<"write", g>>} ELSE tasks[i]
      BY <1>10, <3>1, OpenParamDoes
    <3>3. Sets(j, g, Empty)
      BY <1>10, <3>1, OpenParamDoes
    <3>4. disk'[k].file[f] = IF k = j /\ f = g THEN Empty ELSE disk[k].file[f]
      BY <3>1, <3>3, ParamSet, FileTypes
    <3> QED
      BY <3>2, <3>4
  <2>2. CASE k # j
    BY <2>1, <2>2
  <2>3. CASE k = j /\ f = g
    BY <1>2, <1>9, <2>1, <2>3
  <2>4. CASE k = j /\ f # g
    BY <1>2, <2>1, <2>4
  <2> QED
    BY <2>2, <2>3, <2>4
<1>11. ASSUME NEW j \in Attempt, NEW g \in OfService, WriteParam(j, g)
       PROVE  \/ tasks'[k] \subseteq tasks[k] /\ disk'[k].file[f] = disk[k].file[f]
              \/ /\ <<"open", f>> \notin tasks'[k] /\ <<"write", f>> \notin tasks'[k]
                 /\ make[k] \notin {"none", "mkdir", "dirs"}
  <2>1. /\ <<"write", g>> \in tasks[j]
        /\ tasks'[k] = IF k = j THEN tasks[k] \ {<<"write", g>>} ELSE tasks[k]
        /\ ~(k = j /\ f = g) => disk'[k].file[f] = disk[k].file[f]
    <3>1. g \in Param
      BY <1>9
    <3> QED
      BY <1>1, <1>11, <3>1, WriteParamDoes
  <2>2. CASE ~(k = j /\ f = g)
    BY <2>1, <2>2
  <2>3. CASE k = j /\ f = g
    BY <1>2, <2>1, <2>3
  <2> QED
    BY <2>2, <2>3
<1>12. ASSUME NEW p \in Page, OpenInvites(p)
       PROVE  /\ tasks'[k] = tasks[k]
              /\ disk'[k].file[f] = disk[k].file[f] \/ disk'[k].file[f] = Empty
  BY <1>12, OpenInvitesDoes
<1>13. ASSUME NEW p \in Page, WriteInvites(p)
       PROVE  /\ tasks'[k] = tasks[k]
              /\ \/ disk'[k].file[f] = disk[k].file[f]
                 \/ Idle(k, f) /\ make[k] \notin {"none", "mkdir", "dirs"}
  <2>1. mail[p].st = "writing" /\ p \in Writing /\ Opened
    BY <1>13, WriteInvitesDoes DEF Writing, Mails
  <2>2. mail[p].at = map
    BY <1>1, <2>1 DEF Inboxes
  <2>3. tasks' = tasks /\ (~(k = map /\ f = "invites") => disk'[k].file[f] = disk[k].file[f])
    BY <1>13, <2>2, WriteInvitesDoes
  <2>4. CASE k = map /\ f = "invites"
    <3>1. "invites" \in OfService
      BY <1>1 DEF OfService
    <3> QED
      BY <1>1, <2>1, <2>3, <2>4, <3>1, ShownFiles
  <2> QED
    BY <2>3, <2>4
<1>14. CASE Restart
  BY <1>2, <1>3, <1>14, QuietRestart
<1>15. CASE UNCHANGED tasks /\ disk'[k].file = disk[k].file
  BY <1>4, <1>15
<1>16. ASSUME NEW j \in Attempt, NEW g \in OfService, OpenParam(j, g)
       PROVE  /\ <<"open", f>> \in tasks'[k] => /\ disk'[k].file[f].st # "full"
                                               /\ <<"write", f>> \notin tasks'[k]
              /\ <<"write", f>> \in tasks'[k] => disk'[k].file[f].st # "full"
              /\ make'[k] \in {"none", "mkdir", "dirs"} => /\ disk'[k].file[f].st # "full"
                                                          /\ tasks'[k] = {}
  BY <1>2, <1>3, <1>4, <1>10, <1>16
<1>17. ASSUME NEW j \in Attempt, NEW g \in OfService, WriteParam(j, g)
       PROVE  /\ <<"open", f>> \in tasks'[k] => /\ disk'[k].file[f].st # "full"
                                               /\ <<"write", f>> \notin tasks'[k]
              /\ <<"write", f>> \in tasks'[k] => disk'[k].file[f].st # "full"
              /\ make'[k] \in {"none", "mkdir", "dirs"} => /\ disk'[k].file[f].st # "full"
                                                          /\ tasks'[k] = {}
  BY <1>2, <1>3, <1>4, <1>11, <1>17
<1>18. ASSUME NEW p \in Page, OpenInvites(p) \/ WriteInvites(p)
       PROVE  /\ <<"open", f>> \in tasks'[k] => /\ disk'[k].file[f].st # "full"
                                               /\ <<"write", f>> \notin tasks'[k]
              /\ <<"write", f>> \in tasks'[k] => disk'[k].file[f].st # "full"
              /\ make'[k] \in {"none", "mkdir", "dirs"} => /\ disk'[k].file[f].st # "full"
                                                          /\ tasks'[k] = {}
  BY <1>2, <1>3, <1>9, <1>12, <1>13, <1>18 DEF Idle
<1> QED
  BY <1>4, <1>5, <1>6, <1>7, <1>8, <1>14, <1>15, <1>16, <1>17, <1>18, FileSteps

\* An account with all its files is shown first, by a page of an inbox.
LEMMA ShownFirst ==
    ASSUME TypeOK, Roots, [Next]_vars, service = "asmail", ~Opened, Opened'
    PROVE  /\ map # None /\ Readable(map, OfService)
           /\ UNCHANGED <<map, disk, tasks, make, mail>>
<1>1. PICK p \in Page : page[p].st # "opened" /\ page'[p].st = "opened"
  BY DEF Opened
<1>2. page \in [Page -> PageType]
  BY DEF TypeOK
<1>3. ASSUME NEW q \in Page, GetAccountInfo(q)
      PROVE  /\ map # None /\ Readable(map, OfService)
             /\ UNCHANGED <<map, disk, tasks, make, mail>>
  <2>1. CASE GetInfo = "info"
    BY <1>3, <2>1 DEF GetAccountInfo, GetInfo, Shows, serverVars
  <2>2. CASE GetInfo # "info"
    <3>1. \E st \in {"asking", "failed"} : Shows(q, "none", st)
      BY <1>3, <2>2 DEF GetAccountInfo, GetInfo
    <3> QED
      BY <1>1, <1>2, <3>1 DEF Shows
  <2> QED
    BY <2>1, <2>2
<1>4. ASSUME NEW q \in Page, SignUp(q) \/ LoseReply(q), ~GetAccountInfo(q), ~RootStep PROVE FALSE
  <2>1. ASSUME NEW from, NEW st, st # "opened", Shows(q, from, st) PROVE FALSE
    BY <1>1, <1>2, <2>1 DEF Shows
  <2>2. CASE CheckIfAccountExist(q)
    BY <2>2 DEF CheckIfAccountExist
  <2>3. CASE Ask(q)
    BY <1>1, <1>2, <2>3 DEF Ask
  <2>4. CASE MakeAccountInVain(q)
    BY <2>1, <2>4 DEF MakeAccountInVain
  <2>5. CASE CreateAccountInVain(q)
    BY <2>5 DEF CreateAccountInVain
  <2>7. CASE TryAgain(q)
    BY <2>1, <2>7 DEF TryAgain
  <2>8. CASE LoseReply(q)
    BY <1>1, <1>2, <2>8 DEF LoseReply
  <2> QED
    BY <1>4, <2>2, <2>3, <2>4, <2>5, <2>7, <2>8 DEF SignUp, RootStep
<1>5. ASSUME NEW k \in Attempt, Reply(k) PROVE FALSE
  BY <1>1, <1>2, <1>5 DEF Reply
<1>6. CASE Restart
  BY <1>1, <1>2, <1>6 DEF Restart
<1>7. ASSUME NEW k \in Attempt, Server(k), ~Reply(k) PROVE FALSE
  <2>1. UNCHANGED page
    BY <1>7 DEF Server, MakeNewInbox, MakeNewStore, InitInbox, InitStore, MakeFolder,
                NameFolder, MakeAnonFolder, OpenParam, WriteParam, FinalizeRoot, clientVars
  <2> QED
    BY <1>1, <2>1
<1>8. ASSUME \/ \E q \in Page : \/ GetInvites(q) \/ OpenInvites(q) \/ WriteInvites(q)
                                \/ LoseSetting(q)
             \/ \E q \in Page \cup {None} : PreFlight(q)
             \/ StartSession \/ AuthorizeSender \/ GetRecipientsInitPubKey \/ SendMetadata
             \/ UNCHANGED vars
      PROVE  FALSE
  <2>1. UNCHANGED page
    BY <1>8 DEF GetInvites, OpenInvites, WriteInvites, LoseSetting, PreFlight, StartSession,
                AuthorizeSender, GetRecipientsInitPubKey, SendMetadata, Tells, vars, clientVars
  <2> QED
    BY <1>1, <2>1
<1>9. CASE RootStep
  BY <1>1, <1>9, RootPages DEF Roots
<1> QED
  BY <1>3, <1>4, <1>5, <1>6, <1>7, <1>8, <1>9 DEF Next, RootStep

\* The folder of the account that has been shown stays user's.
LEMMA ShownStays ==
    ASSUME TypeOK, Folders, Named, Inboxes, [Next]_vars, Quiet', Opened
    PROVE  /\ map \in Attempt /\ map' = map
           /\ disk[map].userid /\ disk'[map].userid
<1>1. Quiet
  BY QuietBefore
<1>2. map \in Attempt /\ disk[map].userid
  BY <1>1 DEF Inboxes, TypeOK
<1>3. \A k \in Attempt : make[k] # "mkdir"
  BY <1>1, <1>2, NoneAssumption DEF Folders, Quiet, Attempt
<1>4. ASSUME NEW k \in Attempt, MakeFolder(k, service) PROVE FALSE
  BY <1>3, <1>4 DEF MakeFolder
<1>5. ASSUME NEW k \in Attempt, InitInbox(k) \/ InitStore(k)
      PROVE  map' = map /\ disk'[map].userid
  BY <1>2, <1>5, NameSet DEF InitInbox, InitStore, NameFolder
<1>6. CASE Restart
  <2>1. map \in Picked /\ \A k \in Picked : k = map
    BY <1>1, <1>2 DEF Picked, Folders, Quiet
  <2> QED
    BY <1>2, <1>6, <2>1 DEF Restart
<1>7. ASSUME NEW p \in Page, Ask(p) PROVE map' = map /\ disk' = disk
  BY <1>7 DEF Ask
<1>8. ASSUME NEW k \in Attempt, Reply(k) PROVE map' = map /\ disk' = disk
  BY <1>8 DEF Reply
<1> QED
  BY <1>2, <1>4, <1>5, <1>6, <1>7, <1>8, FolderSteps

\* Only mail pages touch a file, and it is the one with invitations, when an account
\* has been shown.
LEMMA ShownFileSteps ==
    ASSUME TypeOK, Folders, Named, Filling, Inboxes, [Next]_vars, Quiet', Opened
    PROVE  \/ \A f \in OfService : /\ disk'[map].file[f] = disk[map].file[f]
                                   /\ Idle(map, f)'
           \/ \E p \in Page : OpenInvites(p) \/ WriteInvites(p)
<1>1. Quiet /\ service = "asmail" /\ broken' = {}
  BY QuietBefore DEF Quiet
<1>2. map \in Attempt /\ map' = map /\ disk[map].userid
  BY ShownStays
<1>3. make[map] \notin {"none", "mkdir", "dirs"} /\ \A f \in OfService : Idle(map, f)
  BY <1>1, ShownFiles
<1>4. OfService \subseteq Param
  BY DEF OfService, Param
<1> SUFFICES ASSUME NEW f \in OfService, ~\E p \in Page : OpenInvites(p) \/ WriteInvites(p)
             PROVE  disk'[map].file[f] = disk[map].file[f] /\ Idle(map, f)'
  OBVIOUS
<1>5. CASE disk'[map].file[f] = disk[map].file[f] /\ tasks'[map] \subseteq tasks[map]
  BY <1>2, <1>3, <1>5 DEF Idle
<1>6. ASSUME NEW j \in Attempt, InitInbox(j) \/ InitStore(j)
      PROVE  disk'[map].file[f] = disk[map].file[f] /\ tasks'[map] \subseteq tasks[map]
  <2>1. InitInbox(j)
    BY <1>1, <1>6 DEF InitStore
  <2> QED
    BY <1>2, <1>3, <2>1, InitInboxDoes
<1>7. ASSUME NEW j \in Attempt, MakeAnonFolder(j)
      PROVE  disk'[map].file[f] = disk[map].file[f] /\ tasks'[map] \subseteq tasks[map]
  BY <1>2, <1>7, MakeAnonFolderDoes
<1>8. ASSUME NEW j \in Attempt, NEW g \in OfService, OpenParam(j, g)
      PROVE  disk'[map].file[f] = disk[map].file[f] /\ tasks'[map] \subseteq tasks[map]
  <2>1. g \in Param /\ j \notin broken'
    BY <1>1, <1>4
  <2>2. /\ <<"open", g>> \in tasks[j]
        /\ \A i \in Attempt : tasks'[i] =
             IF i = j THEN (tasks[i] \ {<<"open", g>>}) \cup {<<"write", g>>} ELSE tasks[i]
    BY <1>8, <2>1, OpenParamDoes
  <2>3. j # map
    BY <1>3, <2>2 DEF Idle
  <2>4. Sets(j, g, Empty)
    BY <1>8, <2>1, OpenParamDoes
  <2>5. f \in Param
    BY <1>4
  <2>6. disk'[map].file[f] = IF map = j /\ f = g THEN Empty ELSE disk[map].file[f]
    BY <1>2, <2>1, <2>4, <2>5, ParamSet, FileTypes
  <2> QED
    BY <1>2, <2>2, <2>3, <2>6
<1>9. ASSUME NEW j \in Attempt, NEW g \in OfService, WriteParam(j, g)
      PROVE  disk'[map].file[f] = disk[map].file[f] /\ tasks'[map] \subseteq tasks[map]
  <2>1. g \in Param /\ f \in Param
    BY <1>4
  <2>2. /\ <<"write", g>> \in tasks[j]
        /\ \A i \in Attempt : tasks'[i] =
             IF i = j THEN tasks[i] \ {<<"write", g>>} ELSE tasks[i]
        /\ \A i \in Attempt, e \in Param :
             disk'[i].file[e] = IF i = j /\ e = g THEN Default(j, g) ELSE disk[i].file[e]
    BY <1>1, <1>9, <2>1, WriteParamDoes
  <2>3. j # map
    BY <1>3, <2>2 DEF Idle
  <2> QED
    BY <1>2, <2>1, <2>2, <2>3
<1>10. CASE Restart
  BY <1>2, <1>10, QuietRestart DEF Idle
<1> QED
  BY <1>2, <1>5, <1>6, <1>7, <1>8, <1>9, <1>10, FileSteps

LEMMA InboxesKept ==
    ASSUME TypeOK, Folders, Named, Roots, Mails, Filling, Inboxes, [Next]_vars
    PROVE  Inboxes'
<1> SUFFICES ASSUME Quiet'
             PROVE  /\ Opened' =>
                        /\ map' # None /\ disk'[map'].userid
                        /\ \A f \in {"quota", "lists"} : disk'[map'].file[f].st = "full"
                        /\ \A f \in {"quota", "invites", "lists"} : Idle(map, f)'
                        /\ disk'[map'].file["invites"].st = "full" \/ Writing' # {}
                    /\ \A p \in Writing' : mail'[p].at = map'
  BY DEF Inboxes
<1>1. Quiet /\ service = "asmail" /\ broken' = {} /\ None \notin Attempt
  BY QuietBefore, NoneAssumption DEF Quiet, Attempt
<1>2. OfService = {"quota", "invites", "lists"} /\ OfService \subseteq Param
  BY <1>1 DEF OfService, Param
<1>3. CASE ~Opened
  <2>1. \A p \in Page : mail[p].st = "none"
    BY <1>3 DEF Mails
  <2>2. CASE Opened'
    <3>1. /\ map # None /\ Readable(map, OfService)
          /\ UNCHANGED <<map, disk, tasks, make, mail>>
      BY <1>1, <1>3, <2>2, ShownFirst
    <3>2. map \in Attempt
      BY <3>1 DEF TypeOK
    <3>3. \A f \in OfService : disk[map].file[f].st = "full"
      BY <3>1 DEF Readable
    <3>4. /\ make[map] \notin {"none", "mkdir", "dirs"}
          /\ \A f \in OfService : Idle(map, f)
      BY <1>1, <1>2, <3>2, <3>3 DEF Filling, Idle
    <3>5. disk[map].userid
      BY <3>1, <3>4 DEF Named
    <3>6. Writing = {} /\ Writing' = Writing
      BY <2>1, <3>1 DEF Writing
    <3>7. \A f \in OfService : Idle(map, f)'
      BY <3>1, <3>4 DEF Idle
    <3> QED
      BY <1>2, <3>1, <3>3, <3>5, <3>6, <3>7
  <2>3. CASE ~Opened'
    <3>1. Mails'
      BY MailsKept
    <3>2. Writing' = {}
      BY <2>3, <3>1 DEF Mails, Writing
    <3> QED
      BY <2>3, <3>2
  <2> QED
    BY <2>2, <2>3
<1>4. CASE Opened
  <2>1. map \in Attempt /\ map' = map /\ disk'[map].userid /\ map # None
    BY <1>1, <1>4, ShownStays
  <2>2. /\ \A f \in {"quota", "lists"} : disk[map].file[f].st = "full"
        /\ \A f \in OfService : Idle(map, f)
        /\ disk[map].file["invites"].st = "full" \/ Writing # {}
        /\ \A p \in Writing : mail[p].at = map
    BY <1>1, <1>2, <1>4 DEF Inboxes
  <2>3. ASSUME NEW p \in Page, OpenInvites(p)
        PROVE  /\ \A f \in {"quota", "lists"} : disk'[map].file[f].st = "full"
               /\ \A f \in OfService : Idle(map, f)'
               /\ Writing' # {} /\ \A q \in Writing' : mail'[q].at = map
    <3>1. /\ \A k \in Attempt, f \in Param :
               disk'[k].file[f] = IF k = map /\ f = "invites" THEN Empty ELSE disk[k].file[f]
          /\ UNCHANGED <<map, tasks>>
      BY <2>3, OpenInvitesDoes
    <3>2. /\ mail'[p].st = "writing" /\ mail'[p].at = map
          /\ \A q \in Page : q # p => mail'[q] = mail[q]
      BY <2>3, OpenInvitesDoes
    <3>3. \A f \in {"quota", "lists"} : disk'[map].file[f].st = "full"
      BY <1>2, <2>1, <2>2, <3>1
    <3>4. \A f \in OfService : Idle(map, f)'
      BY <2>2, <3>1 DEF Idle
    <3>5. p \in Writing' /\ \A q \in Writing' : mail'[q].at = map
      BY <2>2, <3>2 DEF Writing
    <3> QED
      BY <3>3, <3>4, <3>5
  <2>4. ASSUME NEW p \in Page, WriteInvites(p)
        PROVE  /\ \A f \in OfService : disk'[map].file[f].st = "full" /\ Idle(map, f)'
               /\ \A q \in Writing' : mail'[q].at = map
    <3>1. mail[p].at = map
      BY <2>2, <2>4 DEF WriteInvites, Writing
    <3>2. /\ \A k \in Attempt, f \in Param :
               disk'[k].file[f] = IF k = mail[p].at /\ f = "invites" THEN Full({p})
                                  ELSE disk[k].file[f]
          /\ UNCHANGED <<map, tasks>>
      BY <2>4, WriteInvitesDoes
    <3>3. mail'[p].st = "done" /\ \A q \in Page : q # p => mail'[q] = mail[q]
      BY <2>4, WriteInvitesDoes
    <3>4. Full({p}).st = "full"
      BY DEF Full
    <3>5. \A f \in OfService : disk'[map].file[f].st = "full"
      BY <1>2, <2>1, <2>2, <3>1, <3>2, <3>4
    <3>6. \A f \in OfService : Idle(map, f)'
      BY <2>2, <3>2 DEF Idle
    <3>7. \A q \in Writing' : mail'[q].at = map
      BY <2>2, <3>3 DEF Writing
    <3> QED
      BY <3>5, <3>6, <3>7
  <2>5. ASSUME ~\E p \in Page : OpenInvites(p) \/ WriteInvites(p)
        PROVE  /\ \A f \in {"quota", "lists"} : disk'[map].file[f].st = "full"
               /\ \A f \in OfService : Idle(map, f)'
               /\ disk'[map].file["invites"].st = "full" \/ Writing' # {}
               /\ \A q \in Writing' : mail'[q].at = map
    <3>1. \A f \in OfService : disk'[map].file[f] = disk[map].file[f] /\ Idle(map, f)'
      BY <1>4, <2>5, ShownFileSteps
    <3>2. CASE UNCHANGED mail
      BY <1>2, <2>2, <3>1, <3>2 DEF Writing
    <3>3. ASSUME NEW p \in Page, GetInvites(p)
          PROVE  Writing' = Writing /\ \A q \in Writing : mail'[q] = mail[q]
      BY <3>3, GetInvitesDoes DEF Writing
    <3>4. CASE Restart
      <4>1. Writing = {}
        BY <3>4, QuietRestart
      <4>2. \A q \in Page : mail'[q].st # "writing"
        BY <3>4, RestartMails DEF Asking
      <4>3. Writing' = {}
        BY <4>2 DEF Writing
      <4> QED
        BY <1>2, <2>2, <3>1, <4>1, <4>3
    <3>5. CASE \E p \in Page : GetInvites(p)
      BY <1>2, <2>2, <3>1, <3>3, <3>5
    <3>6. ASSUME NEW p \in Page, LoseSetting(p)
          PROVE  Writing' = Writing /\ \A q \in Writing : mail'[q].at = mail[q].at
      BY <3>6, LoseSettingDoes DEF Writing
    <3>7. CASE \E p \in Page : LoseSetting(p)
      BY <1>2, <2>2, <3>1, <3>6, <3>7
    <3> QED
      BY <2>5, <3>2, <3>4, <3>5, <3>7, MailSteps
  <2> QED
    BY <1>2, <2>1, <2>3, <2>4, <2>5
<1> QED
  BY <1>3, <1>4

-----------------------------------------------------------------------------
(* Tokens, and senders                                                      *)

LEMMA TokensKept ==
    ASSUME TypeOK, Folders, Named, Roots, Mails, Filling, Inboxes, Tokens, [Next]_vars
    PROVE  Tokens'
<1> SUFFICES ASSUME Quiet', NEW p \in Page, p \notin hurt'
             PROVE  /\ p \in Asking' => Asking' = {p}
                    /\ mail'[p].st = "done" =>
                        /\ Asking' = {}
                        /\ disk'[map'].file["invites"].st = "full"
                        /\ mail'[p].token \in disk'[map'].file["invites"].val
  BY DEF Tokens
<1>1. Quiet /\ p \notin hurt /\ hurt \subseteq hurt' /\ service = "asmail"
  BY QuietBefore, Forward DEF Quiet
<1>2. \A q \in Page : q \notin hurt =>
        /\ q \in Asking => Asking = {q}
        /\ mail[q].st = "done" => /\ Asking = {}
                                  /\ disk[map].file["invites"].st = "full"
                                  /\ mail[q].token \in disk[map].file["invites"].val
  BY <1>1 DEF Tokens
<1>3. "invites" \in OfService /\ "invites" \in Param
  BY <1>1 DEF OfService, Param
<1>4. CASE ~Opened
  <2>1. \A q \in Page : mail[q].st = "none"
    BY <1>4 DEF Mails
  <2>2. ASSUME NEW q \in Page, GetInvites(q) \/ OpenInvites(q) \/ WriteInvites(q) PROVE FALSE
    BY <1>4, <2>1, <2>2, GetInvitesDoes DEF OpenInvites, WriteInvites
  <2>3. ASSUME Restart, NEW q \in Page PROVE mail'[q].st = "none"
    BY <2>1, <2>3, RestartMails DEF Asking
  <2>5. ASSUME NEW q \in Page, LoseSetting(q) PROVE FALSE
    BY <2>1, <2>5 DEF LoseSetting, Asking
  <2>4. \A q \in Page : mail'[q].st = "none"
    BY <2>1, <2>2, <2>3, <2>5, MailSteps
  <2> QED
    BY <2>4 DEF Asking
<1>5. CASE Opened
  <2>1. map \in Attempt /\ map' = map
    BY <1>5, ShownStays
  <2>2. ASSUME NEW q \in Page, GetInvites(q)
        PROVE  /\ p \in Asking' => Asking' = {p}
               /\ mail'[p].st = "done" =>
                   /\ Asking' = {}
                   /\ disk'[map'].file["invites"].st = "full"
                   /\ mail'[p].token \in disk'[map'].file["invites"].val
    <3>1. /\ mail[q].st \in {"none", "failed"}
          /\ \A r \in Page : r # q => mail'[r] = mail[r]
          /\ UNCHANGED <<disk, map>>
      BY <2>2, GetInvitesDoes
    <3>2. \/ mail'[q].st = "failed"
          \/ /\ mail'[q].st = "got"
             /\ disk[map].file["invites"].val = {}
          \/ /\ mail'[q].st = "done"
             /\ disk[map].file["invites"].st = "full"
             /\ mail'[q].token \in disk[map].file["invites"].val
      BY <2>2, GetInvitesDoes
    <3>3. Asking # {} => q \in hurt' /\ (mail'[q].st = "got" => Asking \subseteq hurt')
      BY <2>2, GetInvitesDoes
    <3>4. Asking' = IF mail'[q].st = "got" THEN Asking \cup {q} ELSE Asking
      BY <3>1, <3>2 DEF Asking
    <3>5. CASE mail'[q].st = "got"
      BY <1>1, <1>2, <3>1, <3>2, <3>3, <3>4, <3>5
    <3>6. CASE mail'[q].st # "got"
      <4>1. Asking' = Asking
        BY <3>4, <3>6
      <4>2. CASE p = q
        BY <3>1, <3>2, <3>3, <3>6, <4>1, <4>2 DEF Asking
      <4>3. CASE p # q
        BY <1>1, <1>2, <3>1, <4>1, <4>3
      <4> QED
        BY <4>2, <4>3
    <3> QED
      BY <3>5, <3>6
  <2>3. ASSUME NEW q \in Page, OpenInvites(q)
        PROVE  (p \in Asking' => Asking' = {p}) /\ mail'[p].st # "done"
    <3>1. /\ mail[q].st = "got" /\ mail'[q].st = "writing"
          /\ \A r \in Page : r # q => mail'[r] = mail[r]
      BY <2>3, OpenInvitesDoes
    <3>2. q \in Asking /\ Asking' = Asking
      BY <3>1 DEF Asking
    <3> QED
      BY <1>1, <1>2, <3>1, <3>2
  <2>4. ASSUME NEW q \in Page, WriteInvites(q)
        PROVE  /\ p \in Asking' => Asking' = {p}
               /\ mail'[p].st = "done" =>
                   /\ Asking' = {}
                   /\ disk'[map'].file["invites"].st = "full"
                   /\ mail'[p].token \in disk'[map'].file["invites"].val
    <3>1. /\ mail[q].st = "writing" /\ mail'[q].st = "done" /\ mail'[q].token = mail[q].token
          /\ \A r \in Page : r # q => mail'[r] = mail[r]
      BY <2>4, WriteInvitesDoes
    <3>2. q \in Asking /\ Asking' = Asking \ {q} /\ q \in Writing
      BY <3>1 DEF Asking, Writing
    <3>3. mail[q].at = map /\ mail[q].token = q
      BY <1>1, <3>1, <3>2 DEF Inboxes, Mails
    <3>4. \A k \in Attempt, f \in Param :
            disk'[k].file[f] = IF k = mail[q].at /\ f = "invites" THEN Full({q})
                               ELSE disk[k].file[f]
      BY <2>4, WriteInvitesDoes
    <3>5. disk'[map'].file["invites"] = Full({q})
      BY <1>3, <2>1, <3>3, <3>4
    <3>6. Full({q}).st = "full" /\ Full({q}).val = {q}
      BY DEF Full
    <3>7. CASE p = q
      BY <1>1, <1>2, <3>1, <3>2, <3>3, <3>5, <3>6, <3>7
    <3>8. CASE p # q
      BY <1>1, <1>2, <3>1, <3>2, <3>8
    <3> QED
      BY <3>7, <3>8
  <2>5. ASSUME ~\E q \in Page : OpenInvites(q) \/ WriteInvites(q)
        PROVE  disk'[map].file["invites"] = disk[map].file["invites"]
    BY <1>3, <1>5, <2>5, ShownFileSteps
  <2>6. ASSUME UNCHANGED mail, disk'[map].file["invites"] = disk[map].file["invites"]
        PROVE  /\ p \in Asking' => Asking' = {p}
               /\ mail'[p].st = "done" =>
                   /\ Asking' = {}
                   /\ disk'[map'].file["invites"].st = "full"
                   /\ mail'[p].token \in disk'[map'].file["invites"].val
    <3>1. Asking' = Asking
      BY <2>6 DEF Asking
    <3> QED
      BY <1>1, <1>2, <2>1, <2>6, <3>1
  <2>7. ASSUME Restart
        PROVE  /\ p \in Asking' => Asking' = {p}
               /\ mail'[p].st = "done" =>
                   /\ Asking' = {}
                   /\ disk'[map'].file["invites"].st = "full"
                   /\ mail'[p].token \in disk'[map'].file["invites"].val
    <3>1. mail'[p] = mail[p]
      BY <2>7, RestartMails
    <3>2. \A q \in Page : mail'[q].st \notin {"got", "writing"}
      BY <2>7, RestartMails DEF Asking
    <3>3. Asking' = {}
      BY <3>2 DEF Asking
    <3>4. disk'[map].file = disk[map].file
      BY <2>1, <2>7, RestartDisk
    <3> QED
      BY <1>1, <1>2, <2>1, <3>1, <3>3, <3>4
  <2>8. ASSUME NEW q \in Page, LoseSetting(q)
        PROVE  /\ p \in Asking' => Asking' = {p}
               /\ mail'[p].st = "done" =>
                   /\ Asking' = {}
                   /\ disk'[map'].file["invites"].st = "full"
                   /\ mail'[p].token \in disk'[map'].file["invites"].val
    <3>1. q \in Asking /\ q \in hurt' /\ \A r \in Page : r # q => mail'[r] = mail[r]
      BY <2>8, LoseSettingDoes
    <3>2. p # q /\ mail'[p] = mail[p]
      BY <3>1
    <3>3. p \notin Asking /\ mail[p].st # "done"
      BY <1>1, <1>2, <3>1, <3>2
    <3>4. p \notin Asking'
      BY <3>2, <3>3 DEF Asking
    <3> QED
      BY <3>2, <3>3, <3>4
  <2> QED
    BY <2>2, <2>3, <2>4, <2>5, <2>6, <2>7, <2>8, MailSteps
<1> QED
  BY <1>4, <1>5

\* A sender is told something by its own steps.
LEMMA SendSteps ==
    ASSUME TypeOK, [Next]_vars
    PROVE  \/ send'.by = send.by /\ send'.told = send.told
           \/ \E p \in Page \cup {None} : PreFlight(p)
           \/ StartSession \/ AuthorizeSender \/ GetRecipientsInitPubKey \/ SendMetadata
<1>1. ASSUME NEW k \in Attempt, Server(k) \/ FinalizeLost(k) PROVE UNCHANGED send
  BY <1>1 DEF Server, MakeNewInbox, MakeNewStore, InitInbox, InitStore, MakeFolder, FinalizeRoot,
              NameFolder, MakeAnonFolder, OpenParam, WriteParam, Reply, FinalizeLost, clientVars
<1>2. ASSUME NEW q \in Page, SignUp(q) \/ LoseReply(q) \/ LoseRoot(q) PROVE UNCHANGED send
  BY <1>2 DEF SignUp, GetAccountInfo, CheckIfAccountExist, Ask, MakeAccountInVain,
              CreateAccountInVain, StartRoot, SendRoot, LoseRoot, TryAgain, Shows, LoseReply
<1>3. ASSUME NEW q \in Page, GetInvites(q) \/ OpenInvites(q) \/ WriteInvites(q) \/ LoseSetting(q)
      PROVE  UNCHANGED send
  BY <1>3 DEF GetInvites, OpenInvites, WriteInvites, LoseSetting
<1>4. ASSUME UNCHANGED vars PROVE UNCHANGED send
  BY <1>4 DEF vars, clientVars
<1>5. CASE Restart
  BY <1>5 DEF Restart, TypeOK, SendType
<1> QED
  BY <1>1, <1>2, <1>3, <1>4, <1>5 DEF Next

\* What steps of a sender do.
LEMMA SenderDoes ==
    ASSUME TypeOK,
           \/ StartSession \/ AuthorizeSender \/ GetRecipientsInitPubKey \/ SendMetadata
    PROVE  send.told # "none" /\ send'.by = send.by
<1>1. send \in SendType
  BY DEF TypeOK
<1>2. CASE StartSession
  BY <1>1, <1>2 DEF StartSession, SendType
<1>3. CASE AuthorizeSender
  BY <1>1, <1>3 DEF AuthorizeSender, Authorized, SendType
<1>4. CASE GetRecipientsInitPubKey
  BY <1>1, <1>4 DEF GetRecipientsInitPubKey, MayAsk, Tells, SendType
<1>5. CASE SendMetadata
  BY <1>1, <1>5 DEF SendMetadata, MayAsk, Tells, SendType
<1> QED
  BY <1>2, <1>3, <1>4, <1>5

LEMMA SenderKept == ASSUME TypeOK, Mails, Sender, [Next]_vars PROVE Sender'
<1>1. service' = service /\ \A p \in Page : Given(p) => Given(p)'
  BY Forward, GivenKept
<1>2. CASE send'.by = send.by /\ send'.told = send.told
  <2>1. SUFFICES ASSUME send.told # "none"
                 PROVE  /\ service = "asmail" /\ Opened'
                        /\ send.by # None =>
                            mail'[send.by].st = "done" \/ mail'[send.by].lost
    BY <1>1, <1>2 DEF Sender, Given
  <2>2. /\ service = "asmail" /\ Opened
        /\ send.by # None => Given(send.by)
    BY <2>1 DEF Sender
  <2>3. send.by \in Page \cup {None}
    BY DEF TypeOK, SendType
  <2>4. \A p \in Page : Given(p) => mail'[p].st = "done" \/ mail'[p].lost
    BY <1>1 DEF Given
  <2> QED
    BY <1>1, <2>2, <2>3, <2>4, OpenedKept
<1>3. ASSUME NEW p \in Page \cup {None}, PreFlight(p) PROVE Sender'
  <2>1. /\ service = "asmail" /\ p \in Senders /\ send'.by = p
        /\ UNCHANGED <<service, page, mail>>
    BY <1>3 DEF PreFlight, serverVars
  <2>2. p # None => Given(p)
    BY <2>1 DEF Senders, Given
  <2>3. Opened
    BY <2>1, NoneAssumption DEF Senders, Mails, Opened
  <2> QED
    BY <2>1, <2>2, <2>3 DEF Sender, Opened, Given
<1>4. ASSUME StartSession \/ AuthorizeSender \/ GetRecipientsInitPubKey \/ SendMetadata
      PROVE  Sender'
  <2>1. send.told # "none" /\ send'.by = send.by
    BY <1>4, SenderDoes
  <2>2. /\ service = "asmail" /\ Opened
        /\ send.by # None => Given(send.by)
    BY <2>1 DEF Sender
  <2>3. UNCHANGED <<page, mail>>
    BY <1>4 DEF StartSession, AuthorizeSender, GetRecipientsInitPubKey, SendMetadata, Tells
  <2> QED
    BY <1>1, <2>1, <2>2, <2>3 DEF Sender, Opened, Given
<1> QED
  BY <1>2, <1>3, <1>4, SendSteps

\* What a server tells, when pages and calls have not got into each other's way.
LEMMA Accepts ==
    ASSUME TypeOK, Mails, Inboxes, Tokens, Quiet, Opened,
           NEW p \in Page \cup {None}, p \notin hurt, p # None => mail[p].st = "done",
           NEW told \in ServeRequestHere(p)
    PROVE  told \in {"allowed", "inboxFull", "duFailed"}
<1>1. map \in Attempt /\ map # None /\ {"quota", "invites", "lists"} \subseteq Param
  BY NoneAssumption DEF Inboxes, Attempt, Param, TypeOK
<1>2. disk[map].file["quota"].st = "full" /\ disk[map].file["lists"].st = "full"
  BY DEF Inboxes
<1>3. AdaptToFreeSpace = {"allowed", "inboxFull", "duFailed"}
  BY <1>2 DEF AdaptToFreeSpace, Readable
<1>4. \A f \in Param : disk[map].file[f].val \subseteq Page \cup Attempt
  BY <1>1 DEF TypeOK, FolderType, FileType
<1>5. None \notin Page \cup Attempt
  BY NoneAssumption DEF Attempt
<1>6. CASE p = None
  <2>1. None \notin disk[map].file["lists"].val
    BY <1>1, <1>4, <1>5
  <2>2. AllowedForAuthSender = AdaptToFreeSpace
    BY <1>2, <2>1 DEF AllowedForAuthSender, FindMatchIn, AuthSenderPolicy, Readable
  <2> QED
    BY <1>1, <1>3, <1>6, <2>2 DEF ServeRequestHere, Told, Token
<1>7. CASE p # None
  <2>1. /\ p \in Page
        /\ disk[map].file["invites"].st = "full"
        /\ mail[p].token \in disk[map].file["invites"].val
    BY <1>7 DEF Tokens
  <2>2. mail[p].token # None
    BY <1>1, <1>4, <1>5, <2>1
  <2>3. AllowedForAnonSender(mail[p].token) = AdaptToFreeSpace
    BY <2>1 DEF AllowedForAnonSender, Invited, AnonSenderPolicy, Readable
  <2> QED
    BY <1>1, <1>3, <1>7, <2>2, <2>3 DEF ServeRequestHere, Told, Token
<1> QED
  BY <1>6, <1>7

LEMMA AcceptedKept ==
    ASSUME TypeOK, Mails, Inboxes, Tokens, Sender, TokenIsAccepted, [Next]_vars
    PROVE  TokenIsAccepted'
<1> SUFFICES ASSUME hurt' \cap {send'.by, "twice"} = {}, broken' = {}
             PROVE  send'.told \notin {"unknown", "error", "forbidden"}
  BY DEF TokenIsAccepted
<1>1. "twice" \notin hurt /\ broken = {} /\ hurt \subseteq hurt'
  BY Forward
<1>2. CASE send'.by = send.by /\ send'.told = send.told
  BY <1>1, <1>2 DEF TokenIsAccepted
<1>3. ASSUME NEW p \in Page \cup {None}, PreFlight(p)
      PROVE  send'.told \notin {"unknown", "error", "forbidden"}
  <2>1. service = "asmail" /\ p \in Senders
    BY <1>3 DEF PreFlight
  <2>2. PICK told \in ServeRequestHere(p) :
            send' = [by |-> p, told |-> told, session |-> "none"]
    BY <1>3 DEF PreFlight
  <2>3. p \notin hurt /\ Quiet
    BY <1>1, <2>1, <2>2 DEF Quiet
  <2>4. p # None => mail[p].st = "done"
    BY <2>1, <2>3 DEF Senders, Mails
  <2>5. Opened
    BY <2>1, NoneAssumption DEF Senders, Mails, Opened
  <2>6. told \in {"allowed", "inboxFull", "duFailed"}
    BY <2>3, <2>4, <2>5, Accepts
  <2> QED
    BY <2>2, <2>6
<1>4. ASSUME StartSession \/ AuthorizeSender \/ GetRecipientsInitPubKey \/ SendMetadata
      PROVE  send'.told \notin {"unknown", "error", "forbidden"}
  <2>1. send.told # "none" /\ send'.by = send.by /\ send \in SendType
    BY <1>4, SenderDoes DEF TypeOK
  <2>2. /\ service = "asmail" /\ Opened /\ Quiet /\ send.by \notin hurt
        /\ send.by # None => mail[send.by].st = "done"
    BY <1>1, <2>1 DEF Sender, Quiet, Given, Mails, SendType
  <2>3. send.told \notin {"unknown", "error", "forbidden"}
    BY <1>1, <2>1 DEF TokenIsAccepted
  <2>4. map \in Attempt /\ map # None /\ disk[map].file["quota"].st = "full"
    BY <2>2, NoneAssumption DEF Inboxes, TypeOK, Attempt
  <2>5. CASE StartSession
    <3>1. PICK told \in ServeRequestHere(send.by) :
              send' = [send EXCEPT !.told = IF told = "allowed" THEN "started" ELSE told,
                                   !.session = SessionFor(told)]
      BY <2>5 DEF StartSession
    <3>2. told \in {"allowed", "inboxFull", "duFailed"}
      BY <2>1, <2>2, Accepts DEF SendType
    <3> QED
      BY <2>1, <3>1, <3>2 DEF SendType
  <2>6. CASE AuthorizeSender
    BY <2>1, <2>3, <2>6 DEF AuthorizeSender, Authorized, SendType
  <2>7. CASE GetRecipientsInitPubKey
    <3>1. RecipientPubKey = "key"
      BY <2>4 DEF RecipientPubKey, Readable
    <3>2. send'.told \in {"key", "noSession"}
      BY <2>1, <2>7, <3>1 DEF GetRecipientsInitPubKey, Tells, SendType
    <3> QED
      BY <3>2
  <2>8. CASE SendMetadata
    <3>1. send'.told \in {"sent", "noSession"}
      BY <2>1, <2>4, <2>8 DEF SendMetadata, Tells, Exists, SendType
    <3> QED
      BY <3>1
  <2> QED
    BY <1>4, <2>5, <2>6, <2>7, <2>8
<1> QED
  BY <1>2, <1>3, <1>4, SendSteps

-----------------------------------------------------------------------------
(* Invariance of accounts' invariant, and theorems                          *)

\* Nothing is made in the beginning.
LEMMA AccountsInit == ASSUME Init PROVE AInv
<1>1. TypeOK
  <2>1. disk \in [Attempt -> FolderType]
    <3>1. [f \in Param |-> Absent] \in [Param -> FileType]
      BY FileTypes
    <3>3. NoTrans \in TransType
      BY DEF NoTrans, TransType
    <3>2. [userid |-> FALSE, anon |-> FALSE, root |-> None, trans |-> NoTrans,
           file |-> [f \in Param |-> Absent]] \in FolderType
      BY <3>1, <3>3 DEF FolderType
    <3> QED
      BY <3>2 DEF Init
  <2>2. page \in [Page -> PageType]
    BY DEF Init, PageType
  <2>3. mail \in [Page -> MailType]
    BY DEF Init, MailType
  <2>4. send \in SendType
    BY DEF Init, SendType
  <2>5. faults \in 0..MaxFaults
    BY BoundsAssumption DEF Init
  <2> QED
    BY <2>1, <2>2, <2>3, <2>4, <2>5 DEF Init, TypeOK
<1>2. /\ \A k \in Attempt : /\ make[k] = "none" /\ tasks[k] = {}
                            /\ disk[k].userid = FALSE /\ disk[k].root = None
                            /\ disk[k].trans = NoTrans
                            /\ \A f \in Param : disk[k].file[f] = Absent
      /\ map = None
  BY DEF Init
<1>3. \A p \in Page : page[p].st = "none" /\ mail[p].st = "none" /\ mail[p].lost = FALSE
  BY DEF Init
<1>4. send.told = "none"
  BY DEF Init
<1>5. Absent.st # "full"
  BY DEF Absent
<1>6. Folders /\ Named
  BY <1>2 DEF Folders, Named
<1>7. Stores /\ Roots
  BY <1>2, <1>3 DEF Stores, Roots, AtRoot, InTrans, NoTrans
<1>8. Mails /\ Filling
  BY <1>2, <1>3, <1>5 DEF Mails, Filling
<1>9. Inboxes /\ Tokens
  BY <1>3 DEF Inboxes, Opened, Writing, Tokens, Asking
<1>10. Sender /\ TokenIsAccepted
  BY <1>4 DEF Sender, TokenIsAccepted
<1> QED
  BY <1>1, <1>6, <1>7, <1>8, <1>9, <1>10 DEF AInv

LEMMA AccountsStep == ASSUME AInv, [Next]_vars PROVE AInv'
<1>1. TypeOK'
  BY AccountsTypes DEF AInv
<1>2. Folders' /\ Named'
  BY FoldersKept DEF AInv
<1>3. Stores'
  BY StoresKept DEF AInv
<1>4. Roots'
  BY RootsKept DEF AInv
<1>5. Mails'
  BY MailsKept DEF AInv
<1>6. Filling'
  BY FillingKept DEF AInv
<1>7. Inboxes'
  BY InboxesKept DEF AInv
<1>8. Tokens'
  BY TokensKept DEF AInv
<1>9. Sender'
  BY SenderKept DEF AInv
<1>10. TokenIsAccepted'
  BY AcceptedKept DEF AInv
<1> QED
  BY <1>1, <1>2, <1>3, <1>4, <1>5, <1>6, <1>7, <1>8, <1>9, <1>10 DEF AInv

\* AInv is an invariant of an account, and of everyone at it.
LEMMA AccountsInvariance == Spec => []AInv
BY AccountsInit, AccountsStep, PTL DEF Spec

\* Variables of accounts keep their types.
THEOREM AccountsTypeCorrect == Spec => []TypeOK
<1>1. AInv => TypeOK
  BY DEF AInv
<1> QED
  BY <1>1, AccountsInvariance, PTL

\* A folder, whose making has been confirmed, stays the folder of its account over
\* restarts, repeated attempts to sign up, and remains of interrupted ones.
THEOREM FolderStaysHolds == Spec => FolderStays
<1>1. ASSUME AInv, [Next]_vars
      PROVE  [map # None /\ make[map] = "done" /\ "twice" \notin hurt => map' = map]_vars
  <2> SUFFICES ASSUME map # None, make[map] = "done", "twice" \notin hurt PROVE map' = map
    OBVIOUS
  <2>1. /\ TypeOK /\ map \in Attempt /\ disk[map].userid
        /\ \A k \in Attempt : make[k] # "mkdir"
        /\ \A k \in Attempt : disk[k].userid => k = map
    <3>1. TypeOK /\ Folders /\ Named
      BY <1>1 DEF AInv
    <3>2. map \in Attempt
      BY <3>1 DEF TypeOK
    <3> QED
      BY <3>1, <3>2 DEF Folders, Named
  <2>2. ASSUME NEW k \in Attempt, MakeFolder(k, service) PROVE map' = map
    BY <2>1, <2>2 DEF MakeFolder
  <2>3. CASE Restart
    <3>1. map \in Picked /\ \A k \in Picked : k = map
      BY <2>1 DEF Picked
    <3> QED
      BY <2>3, <3>1 DEF Restart
  <2>4. ASSUME \/ \E p \in Page : Ask(p)
               \/ \E k \in Attempt : Reply(k) \/ InitInbox(k) \/ InitStore(k)
        PROVE  map' = map
    BY <2>4 DEF Ask, Reply, InitInbox, InitStore, NameFolder
  <2> QED
    BY <1>1, <2>1, <2>2, <2>3, <2>4, FolderSteps
<1>2. Spec => [][Next]_vars
  BY DEF Spec
<1> QED
  BY <1>1, <1>2, AccountsInvariance, PTL DEF FolderStays

\* A storage's root is encrypted with the key of its folder.
THEOREM RootOpensHolds == Spec => []RootOpens
<1>1. AInv => RootOpens
  BY DEF AInv, Roots, Stores, RootOpens
<1> QED
  BY <1>1, AccountsInvariance, PTL

\* What a page has got alone, lets a sender in, and so does a name.
THEOREM TokenIsAcceptedHolds == Spec => []TokenIsAccepted
<1>1. AInv => TokenIsAccepted
  BY DEF AInv
<1> QED
  BY <1>1, AccountsInvariance, PTL

=============================================================================
