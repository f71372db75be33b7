--------------------------- MODULE MidLoginProofs ---------------------------
(***************************************************************************)
(* Proofs about MidLogin, for any number of calls, restarts and faults,    *)
(* and for any periods, with which a margin is the smallest one.           *)
(***************************************************************************)
EXTENDS MidLogin, TLAPS

AssertType == [sid: Call \cup {None}, by: Nat, iss: Nat, exp: Nat]
Message == [at: {"none", "server", "client"},
            kind: {"none", "start", "auth", "validate", "noRoot", "op"},
            sid: Call \cup {None}, assertion: AssertType \cup {None},
            t: Nat \cup {None},
            status: {"none", "ok", "needAuth", "duplicate", "authFailed"}]

\* Where calls point to, when they are in progress.
Pointers ==
    /\ net \in [Call -> Message]
    /\ \A k \in Call :
        /\ stage[k] # "none" => receiver \in Call
        /\ stage[k] \in {"starting", "signing", "authing", "operating"} => obj[k] \in Call
        /\ Served(k, "validate") => net[k].sid \in Call

\* A chain, that was verified with the root, which was current at that moment.
Verified(c) ==
    /\ c \in ChainType
    /\ c.user.iss <= now /\ c.user.by = c.prov.key
    /\ ValidAt(c.prov, c.user.iss)
    /\ c.prov.by <= root.key
    /\ c.prov.by = root.key => ValidAt(root, c.prov.iss)

\* A call has taken a chain with enough time left.
Timely(k) ==
    /\ Verified(chain[k]) /\ began[k] \in Nat /\ began[k] <= now
    /\ chain[k].user.iss <= began[k] /\ began[k] + Margin < chain[k].user.exp

Chains ==
    /\ signer # None => Verified(signer)
    /\ \A k \in Call : stage[k] \in {"starting", "signing", "authing"} => Timely(k)

\* What a service has of a call, that authenticates.
Asserted(k) ==
    /\ stage[k] = "authing" /\ net[k].assertion \in AssertType
    /\ net[k].assertion.sid = net[k].sid /\ net[k].assertion.by = chain[k].user.key
    /\ began[k] <= net[k].assertion.iss /\ net[k].assertion.iss <= now
    /\ net[k].assertion.exp = net[k].assertion.iss + AssertLife
Refusal(k) ==
    stage[k] = "authing" /\ net[k].status = "authFailed" =>
        \/ net[k].kind = "noRoot"
        \/ chain[k].prov.by # root.key
        \/ net[k].t \in Nat /\ net[k].t > began[k] + Margin
Assertions ==
    \A k \in Call :
        /\ Served(k, "auth") => Asserted(k) /\ net[k].status = "none"
        /\ Served(k, "validate") =>
            /\ Asserted(k) /\ net[k].status = "none" /\ net[k].t \in Nat
            /\ net[k].assertion.iss <= net[k].t
        /\ Refusal(k)

\* Requests, that are at a service, are those of stages of their calls.
Matched ==
    \A k \in Call :
        /\ Served(k, "start") => stage[k] = "starting"
        /\ Served(k, "op") => stage[k] = "operating"

\* A call, that is not hurt, works with a receiver of its own.
Own(k) ==
    /\ sid[k] \in {None, k}
    /\ stage[k] \in {"none", "locating", "starting"} => sid[k] = None
    /\ stage[k] = "locating" => receiver = k
    /\ stage[k] \in {"starting", "signing", "authing"} => obj[k] = k

\* What an authorization may come to.
Decided(k) ==
    /\ net[k].sid \in {None, k} /\ (net[k].sid = None => sid[k] = None)
    /\ net[k].at = "server" => sess[k] = "started"
    /\ net[k].at = "client" => IF net[k].status = "ok" THEN sess[k] = "authorized"
                               ELSE net[k].status = "authFailed" \/ sid[k] = None

\* Its session at a service is there for a session id of a receiver.
LoggedIn(k) == sess[k] \in {"authorized", "expired"}
Granted(k) ==
    /\ stage[k] = "starting" /\ net[k].at = "client" => sess[k] = "started"
    /\ stage[k] = "signing" => sess[k] = "started"
    /\ stage[k] = "authing" => Decided(k)
    /\ stage[k] \in {"open", "operating", "served"} /\ sid[k] # None => LoggedIn(k)
    /\ stage[k] = "failed" /\ sid[k] # None =>
        LoggedIn(k) \/ (chain[k] # None /\ now >= chain[k].user.exp)

Quiet == faults.hurt = {} => \A k \in Call : Own(k) /\ Granted(k)

\* The inductive invariant.
IInv == TypeOK /\ Pointers /\ Chains /\ Assertions /\ Matched /\ Quiet

-----------------------------------------------------------------------------
(* Stages and messages                                                      *)

LEMMA ConstTypes ==
    /\ RootLife \in Nat /\ ProvLife \in Nat /\ MaxUserLife \in Nat /\ AssertLife \in Nat
    /\ 0 < MaxUserLife /\ Asked \in Nat /\ Margin \in Nat
    /\ Margin < AssertLife /\ Margin < Asked /\ Margin < MaxUserLife
    /\ Calls \in Nat /\ Start \in Nat /\ Start < RootLife
    /\ MaxFaults \in Nat /\ None \notin Nat /\ Call \subseteq Nat /\ None \notin Call
BY LivesAssumption, CallsAssumption, PeriodsAssumption, NoneAssumption DEF Call

LEMMA NextStage ==
    ASSUME TypeOK, NEW k \in Call, NEW st \in Stage, To(k, st)
    PROVE  /\ stage' \in [Call -> Stage] /\ stage'[k] = st
           /\ \A j \in Call : j # k => stage'[j] = stage[j]
BY DEF TypeOK, To

LEMMA RequestTypes ==
    ASSUME Pointers, NEW k \in Call, NEW kind \in {"start", "auth", "op"},
           NEW s \in Call \cup {None}, NEW a \in AssertType \cup {None},
           Request(k, kind, s, a)
    PROVE  /\ net' \in [Call -> Message] /\ \A j \in Call : j # k => net'[j] = net[j]
           /\ net'[k].at = "server" /\ net'[k].kind = kind /\ net'[k].sid = s
           /\ net'[k].assertion = a /\ net'[k].status = "none"
<1> DEFINE m == [NoMsg EXCEPT !.at = "server", !.kind = kind, !.sid = s, !.assertion = a]
<1>1. m \in Message /\ m.at = "server" /\ m.kind = kind /\ m.sid = s
      /\ m.assertion = a /\ m.status = "none"
  BY DEF Message, NoMsg
<1>2. net' = [net EXCEPT ![k] = m]
  BY DEF Request
<1> HIDE DEF m
<1> QED
  BY <1>1, <1>2 DEF Pointers

LEMMA AnswerTypes ==
    ASSUME Pointers, NEW k \in Call, NEW status \in {"ok", "needAuth", "duplicate", "authFailed"},
           Answer(k, status)
    PROVE  /\ net' \in [Call -> Message] /\ \A j \in Call : j # k => net'[j] = net[j]
           /\ net'[k].at = "client" /\ net'[k].status = status
           /\ net'[k].t = net[k].t /\ net'[k].sid = net[k].sid
<1> DEFINE m == [net[k] EXCEPT !.at = "client", !.status = status]
<1>1. net[k] \in Message
  BY DEF Pointers
<1>2. m \in Message /\ m.at = "client" /\ m.status = status /\ m.t = net[k].t
      /\ m.sid = net[k].sid
  BY <1>1 DEF Message
<1>3. net' = [net EXCEPT ![k] = m]
  BY <1>1 DEF Answer, Pointers, Message
<1> HIDE DEF m
<1> QED
  BY <1>2, <1>3 DEF Pointers

\* An answer without a root certificate closes a session of an assertion.
LEMMA NoRootStep ==
    ASSUME TypeOK, Pointers, NEW k \in Call, RootNotFetched(k)
    PROVE  /\ net' \in [Call -> Message] /\ \A j \in Call : j # k => net'[j] = net[j]
           /\ net'[k].at = "client" /\ net'[k].kind = "noRoot"
           /\ now' = now /\ certs' = certs /\ stage' = stage /\ receiver' = receiver
           /\ sid' = sid /\ obj' = obj /\ chain' = chain /\ began' = began
           /\ sess' \in [Call -> {"none", "started", "authorized", "closed", "expired"}]
           /\ faults' \in [count: 0..MaxFaults, hurt: SUBSET Call] /\ k \in faults'.hurt
<1> DEFINE m == [net[k] EXCEPT !.at = "client", !.kind = "noRoot", !.status = "authFailed"]
<1>1. net[k] \in Message
  BY DEF Pointers
<1>2. m \in Message /\ m.at = "client" /\ m.kind = "noRoot"
  BY <1>1 DEF Message
<1>3. net' = [net EXCEPT ![k] = m]
  BY <1>1 DEF RootNotFetched, Pointers, Message
<1> HIDE DEF m
<1>4. net' \in [Call -> Message] /\ \A j \in Call : j # k => net'[j] = net[j]
  BY <1>2, <1>3 DEF Pointers
<1>5. net'[k].at = "client" /\ net'[k].kind = "noRoot"
  BY <1>2, <1>3 DEF Pointers
<1>6. sess' \in [Call -> {"none", "started", "authorized", "closed", "expired"}]
  BY DEF RootNotFetched, TypeOK
<1>7. faults' \in [count: 0..MaxFaults, hurt: SUBSET Call] /\ k \in faults'.hurt
  BY ConstTypes DEF RootNotFetched, Fault, TypeOK
<1> QED
  BY <1>4, <1>5, <1>6, <1>7 DEF RootNotFetched

LEMMA NoMsgTypes ==
    ASSUME Pointers, NEW k \in Call, net' = [net EXCEPT ![k] = NoMsg]
    PROVE  /\ net' \in [Call -> Message] /\ \A j \in Call : j # k => net'[j] = net[j]
           /\ net'[k].at = "none" /\ net'[k].status = "none"
<1>1. NoMsg \in Message /\ NoMsg.at = "none" /\ NoMsg.status = "none"
  BY DEF Message, NoMsg
<1> QED
  BY <1>1 DEF Pointers

\* An assertion of a chain is whole.
LEMMA AssertionTypes ==
    ASSUME NEW c \in ChainType, NEW s \in Call \cup {None}, NEW t \in Nat
    PROVE  /\ Assertion(c.user, s, t) \in AssertType
           /\ Assertion(c.user, s, t).sid = s /\ Assertion(c.user, s, t).by = c.user.key
           /\ Assertion(c.user, s, t).iss = t /\ Assertion(c.user, s, t).exp = t + AssertLife
BY ConstTypes DEF Assertion, AssertType, ChainType, CertType

\* A new chain is of right types, is issued now, and has more than a margin.
LEMMA NewChainTypes ==
    ASSUME TypeOK, NEW k \in Call
    PROVE  /\ NewChain(k) \in ChainType
           /\ NewChain(k).user.iss = now /\ NewChain(k).user.by = NewChain(k).prov.key
           /\ now + Margin < NewChain(k).user.exp
           /\ NewChain(k).prov = prov
<1> DEFINE life == IF Asked > MaxUserLife THEN MaxUserLife ELSE Asked
           u == [key |-> k, by |-> prov.key, iss |-> now, exp |-> now + life]
<1>1. life \in Nat /\ Margin < life
  BY ConstTypes
<1>2. NewChain(k) = [user |-> u, prov |-> prov]
  BY DEF NewChain, UserCert, Cert
<1> HIDE DEF life
<1>3. prov \in CertType /\ now \in Nat /\ k \in Nat
  BY ConstTypes DEF TypeOK
<1>4. u \in CertType /\ u.iss = now /\ u.by = prov.key /\ now + Margin < u.exp
  BY <1>1, <1>3, ConstTypes DEF CertType
<1> HIDE DEF u
<1> QED
  BY <1>2, <1>3, <1>4 DEF ChainType

-----------------------------------------------------------------------------
(* Types                                                                    *)

LEMMA InitTypes == Init => TypeOK /\ Pointers
<1> SUFFICES ASSUME Init PROVE TypeOK /\ Pointers
  OBVIOUS
<1>1. NoMsg \in Message /\ NoMsg.at = "none"
  BY DEF NoMsg, Message
<1>2. root \in CertType /\ prov \in CertType /\ root.iss = 0 /\ prov.iss = Start
      /\ prov.by = root.key /\ now = Start
  BY ConstTypes DEF Init, RootCert, ProviderCert, Cert, CertType
<1>3. TypeOK
  BY <1>2, ConstTypes DEF Init, TypeOK, Stage
<1>4. Pointers
  BY <1>1, ConstTypes DEF Init, Pointers, Served
<1> QED
  BY <1>3, <1>4

LEMMA ServerTypes ==
    ASSUME TypeOK, Tick \/ Restart
    PROVE  TypeOK' /\ root.key <= root'.key /\ now <= now' /\ (root'.key = root.key => root' = root)
<1>1. CASE Tick
  BY <1>1 DEF Tick, TypeOK, certs, login, CertType
<1>2. CASE Restart
  <2>1. /\ root' \in CertType /\ root.key <= root'.key /\ root'.iss <= now
        /\ root'.key = root.key => root' = root
    BY <1>2, ConstTypes DEF Restart, TypeOK, RootCert, Cert, CertType
  <2>2. prov' \in CertType /\ prov'.by = root'.key /\ prov'.iss = now
    BY <1>2, <2>1, ConstTypes DEF Restart, TypeOK, ProviderCert, Cert, CertType
  <2> QED
    BY <1>2, <2>1, <2>2 DEF Restart, TypeOK, login
<1> QED
  BY <1>1, <1>2

ByCall(k) == \/ OpenInbox(k) \/ ByPage(k) \/ ByService(k)
             \/ RootNotFetched(k) \/ Lose(k) \/ Expire(k)

\* Steps of calls leave the server as it is, and other calls, too.
LEMMA OthersStay ==
    ASSUME TypeOK, Pointers, NEW k \in Call, ByCall(k)
    PROVE  /\ now' = now /\ root' = root /\ prov' = prov
           /\ \A j \in Call : j # k =>
                /\ stage'[j] = stage[j] /\ net'[j] = net[j] /\ obj'[j] = obj[j]
                /\ chain'[j] = chain[j] /\ began'[j] = began[j]
<1> DEFINE Same == /\ now' = now /\ root' = root /\ prov' = prov
                   /\ \A j \in Call : j # k =>
                        /\ stage'[j] = stage[j] /\ net'[j] = net[j] /\ obj'[j] = obj[j]
                        /\ chain'[j] = chain[j] /\ began'[j] = began[j]
<1>1. ASSUME OpenInbox(k) PROVE Same
  BY <1>1 DEF TypeOK, Pointers, certs, login, OpenInbox, To
<1>2. ASSUME Login(k) PROVE Same
  BY <1>2 DEF TypeOK, Pointers, certs, login, Login, To, Request
<1>3. ASSUME StartReply(k) PROVE Same
  BY <1>3 DEF TypeOK, Pointers, certs, login, StartReply, Received, To
<1>4. ASSUME AuthenticateSession(k) PROVE Same
  BY <1>4 DEF TypeOK, Pointers, certs, login, AuthenticateSession, To, Request
<1>5. ASSUME AuthReply(k) PROVE Same
  BY <1>5 DEF TypeOK, Pointers, certs, login, AuthReply, Received, To
<1>6. ASSUME Operate(k) PROVE Same
  BY <1>6 DEF TypeOK, Pointers, certs, login, Operate, To, Request
<1>7. ASSUME OperateReply(k) PROVE Same
  BY <1>7 DEF TypeOK, Pointers, certs, login, OperateReply, Received, To
<1>8. ASSUME ServeStart(k) PROVE Same
  BY <1>8 DEF TypeOK, Pointers, certs, login, ServeStart, Answer
<1>9. ASSUME ServeAuth(k) PROVE Same
  BY <1>9 DEF TypeOK, Pointers, certs, login, ServeAuth, Answer
<1>10. ASSUME Validated(k) PROVE Same
  BY <1>10 DEF TypeOK, Pointers, certs, login, Validated, Answer
<1>11. ASSUME ServeOp(k) PROVE Same
  BY <1>11 DEF TypeOK, Pointers, certs, login, ServeOp, Answer
<1>12. ASSUME Lose(k) PROVE Same
  BY <1>12 DEF TypeOK, Pointers, certs, login, Lose, To
<1>13. ASSUME Expire(k) PROVE Same
  BY <1>13 DEF TypeOK, Pointers, certs, login, Expire
<1>14. ASSUME RootNotFetched(k) PROVE Same
  BY <1>14, NoRootStep DEF certs
<1> QED
  BY <1>1, <1>2, <1>3, <1>4, <1>5, <1>6, <1>7, <1>8, <1>9, <1>10, <1>11, <1>12, <1>13, <1>14 DEF ByCall, ByPage, ByService

LEMMA TypesKept ==
    ASSUME TypeOK, Pointers, NEW k \in Call, ByCall(k)
    PROVE  TypeOK'
<1> USE ConstTypes
<1>0. now' = now /\ root' = root /\ prov' = prov
  BY OthersStay
<1>1. ASSUME OpenInbox(k) PROVE TypeOK'
  BY <1>0, <1>1 DEF TypeOK, Stage, InProgress, Fault, certs, login, OpenInbox, To, Pointers, Message
<1>2. ASSUME Login(k) PROVE TypeOK'
  <2>1. NewChain(k) \in ChainType
    BY NewChainTypes
  <2>2. signer' \in ChainType \cup {None}
    BY <1>2, <2>1 DEF TypeOK, Login
  <2>3. stage[k] = "locating" /\ receiver \in Call
    BY <1>2 DEF Login, Pointers
  <2>4. stage' \in [Call -> Stage]
    BY <1>2 DEF Login, TypeOK, To, Stage
  <2>5. /\ obj' \in [Call -> Call \cup {None}] /\ began' \in [Call -> Nat \cup {None}]
        /\ chain' \in [Call -> ChainType \cup {None}]
    BY <1>2, <2>2, <2>3 DEF Login, TypeOK
  <2> QED
    BY <1>0, <1>2, <2>2, <2>4, <2>5 DEF TypeOK, Login
<1>3. ASSUME StartReply(k) PROVE TypeOK'
  BY <1>0, <1>3 DEF TypeOK, Stage, InProgress, Fault, certs, login, StartReply, Received, To, Pointers, Message
<1>4. ASSUME AuthenticateSession(k) PROVE TypeOK'
  BY <1>0, <1>4 DEF TypeOK, Stage, InProgress, Fault, certs, login, AuthenticateSession, To, Request, Pointers, Message
<1>5. ASSUME AuthReply(k) PROVE TypeOK'
  BY <1>0, <1>5 DEF TypeOK, Stage, InProgress, Fault, certs, login, AuthReply, Received, To, Pointers, Message
<1>6. ASSUME Operate(k) PROVE TypeOK'
  BY <1>0, <1>6 DEF TypeOK, Stage, InProgress, Fault, certs, login, Operate, To, Request, Pointers, Message
<1>7. ASSUME OperateReply(k) PROVE TypeOK'
  BY <1>0, <1>7 DEF TypeOK, Stage, InProgress, Fault, certs, login, OperateReply, Received, To, Pointers, Message
<1>8. ASSUME ServeStart(k) PROVE TypeOK'
  BY <1>0, <1>8 DEF TypeOK, Stage, InProgress, Fault, certs, login, ServeStart, Answer, Pointers, Message
<1>9. ASSUME ServeAuth(k) PROVE TypeOK'
  BY <1>0, <1>9 DEF TypeOK, Stage, InProgress, Fault, certs, login, ServeAuth, Answer, Pointers, Message
<1>10. ASSUME Validated(k) PROVE TypeOK'
  <2>1. net[k].sid \in Call
    BY <1>10 DEF Validated, Pointers
  <2>2. sess' \in [Call -> {"none", "started", "authorized", "closed", "expired"}]
    BY <1>10, <2>1 DEF Validated, TypeOK
  <2> QED
    BY <1>0, <1>10, <2>2 DEF TypeOK, Validated, certs
<1>11. ASSUME ServeOp(k) PROVE TypeOK'
  BY <1>0, <1>11 DEF TypeOK, Stage, InProgress, Fault, certs, login, ServeOp, Answer, Pointers, Message
<1>12. ASSUME Lose(k) PROVE TypeOK'
  BY <1>0, <1>12 DEF TypeOK, Stage, InProgress, Fault, certs, login, Lose, To, Pointers, Message
<1>13. ASSUME Expire(k) PROVE TypeOK'
  BY <1>0, <1>13 DEF TypeOK, Stage, InProgress, Fault, certs, login, Expire, Pointers, Message
<1>14. ASSUME RootNotFetched(k) PROVE TypeOK'
  BY <1>0, <1>14, NoRootStep DEF TypeOK, certs
<1> QED
  BY <1>1, <1>2, <1>3, <1>4, <1>5, <1>6, <1>7, <1>8, <1>9, <1>10, <1>11, <1>12, <1>13, <1>14 DEF ByCall, ByPage, ByService

-----------------------------------------------------------------------------
(* What steps do with messages                                              *)

\* Steps of a page.
LEMMA PageSteps ==
    ASSUME TypeOK, Pointers, NEW k \in Call
    PROVE  /\ OpenInbox(k) => net' = net /\ stage'[k] \in {"open", "locating"}
           /\ Login(k) =>
                \/ stage'[k] = "failed" /\ net' = net
                \/ /\ stage'[k] = "starting" /\ net'[k].at = "server"
                   /\ net'[k].kind = "start" /\ net' \in [Call -> Message]
           /\ StartReply(k) =>
                stage'[k] = "signing" /\ net'[k].at = "none" /\ net' \in [Call -> Message]
           /\ AuthReply(k) \/ OperateReply(k) =>
                /\ stage'[k] \in {"open", "served", "failed"} /\ net'[k].at = "none"
                /\ net' \in [Call -> Message]
           /\ Operate(k) =>
                /\ stage'[k] = "operating" /\ net'[k].at = "server" /\ net'[k].kind = "op"
                /\ net' \in [Call -> Message]
<1> USE ConstTypes
<1>1. ASSUME OpenInbox(k) PROVE net' = net /\ stage'[k] \in {"open", "locating"}
  BY <1>1, NextStage DEF OpenInbox, Stage
<1>2. ASSUME Login(k)
      PROVE  \/ stage'[k] = "failed" /\ net' = net
             \/ /\ stage'[k] = "starting" /\ net'[k].at = "server"
                /\ net'[k].kind = "start" /\ net' \in [Call -> Message]
  <2>1. \/ To(k, "failed") /\ net' = net
        \/ To(k, "starting") /\ Request(k, "start", None, None)
    BY <1>2 DEF Login
  <2>2. "failed" \in Stage /\ "starting" \in Stage
    BY DEF Stage
  <2> QED
    BY <2>1, <2>2, NextStage, RequestTypes
<1>3. ASSUME StartReply(k)
      PROVE  stage'[k] = "signing" /\ net'[k].at = "none" /\ net' \in [Call -> Message]
  BY <1>3, NextStage, NoMsgTypes DEF StartReply, Received, Stage
<1>4. ASSUME AuthReply(k) \/ OperateReply(k)
      PROVE  /\ stage'[k] \in {"open", "served", "failed"} /\ net'[k].at = "none"
             /\ net' \in [Call -> Message]
  <2>1. net' \in [Call -> Message] /\ net'[k].at = "none"
    BY <1>4, NoMsgTypes DEF AuthReply, OperateReply, Received
  <2>2. To(k, "open") \/ To(k, "failed") \/ To(k, "served")
    BY <1>4 DEF AuthReply, OperateReply
  <2> QED
    BY <2>1, <2>2, NextStage DEF Stage
<1>5. ASSUME Operate(k)
      PROVE  /\ stage'[k] = "operating" /\ net'[k].at = "server" /\ net'[k].kind = "op"
             /\ net' \in [Call -> Message]
  <2>1. receiver \in Call /\ sid[receiver] \in Call \cup {None}
    BY <1>5 DEF Operate, Pointers, TypeOK
  <2>2. To(k, "operating") /\ Request(k, "op", sid[receiver], None)
    BY <1>5 DEF Operate
  <2> QED
    BY <2>1, <2>2, NextStage, RequestTypes DEF Stage
<1> QED
  BY <1>1, <1>2, <1>3, <1>4, <1>5

\* A page signs for a session id of its receiver.
LEMMA SigningStep ==
    ASSUME TypeOK, Pointers, NEW k \in Call, AuthenticateSession(k), chain[k] \in ChainType
    PROVE  \/ stage'[k] = "failed" /\ net' = net
           \/ /\ stage'[k] = "authing" /\ net'[k].at = "server" /\ net'[k].kind = "auth"
              /\ net'[k].assertion \in AssertType /\ net'[k].status = "none"
              /\ net'[k].assertion.sid = net'[k].sid
              /\ net'[k].assertion.by = chain[k].user.key
              /\ net'[k].assertion.iss = now /\ net'[k].assertion.exp = now + AssertLife
              /\ net' \in [Call -> Message]
<1> DEFINE s == sid[obj[k]]
<1>1. s \in Call \cup {None} /\ now \in Nat
  BY DEF AuthenticateSession, Pointers, TypeOK
<1>2. \/ To(k, "failed") /\ net' = net
      \/ To(k, "authing") /\ Request(k, "auth", s, Assertion(chain[k].user, s, now))
  BY DEF AuthenticateSession
<1> HIDE DEF s
<1> DEFINE m == Assertion(chain[k].user, s, now)
<1>3. /\ m \in AssertType /\ m.sid = s /\ m.by = chain[k].user.key
      /\ m.iss = now /\ m.exp = now + AssertLife
  BY <1>1, AssertionTypes
<1> HIDE DEF m
<1>4. "failed" \in Stage /\ "authing" \in Stage
  BY DEF Stage
<1>5. CASE To(k, "failed") /\ net' = net
  BY <1>4, <1>5, NextStage
<1>6. CASE To(k, "authing") /\ Request(k, "auth", s, m)
  BY <1>1, <1>3, <1>4, <1>6, NextStage, RequestTypes
<1> QED
  BY <1>2, <1>5, <1>6 DEF m

\* Steps of a service.
LEMMA ServiceSteps ==
    ASSUME TypeOK, Pointers, NEW k \in Call
    PROVE  /\ ServeStart(k) \/ ServeOp(k) =>
                /\ net'[k].at = "client" /\ net'[k].status \in {"ok", "needAuth"}
                /\ net' \in [Call -> Message]
           /\ ServeAuth(k) =>
                /\ Served(k, "auth") /\ net' \in [Call -> Message]
                /\ \/ net'[k].at = "client" /\ net'[k].status \in {"needAuth", "duplicate"}
                   \/ /\ net'[k].at = "server" /\ net'[k].kind = "validate" /\ net'[k].t = now
                      /\ net'[k].sid = net[k].sid /\ net'[k].sid \in Call
                      /\ net'[k].assertion = net[k].assertion
                      /\ net'[k].status = net[k].status
           /\ ServeStart(k) \/ ServeOp(k) \/ ServeAuth(k) =>
                stage' = stage /\ obj' = obj /\ chain' = chain /\ began' = began
                /\ signer' = signer /\ receiver' = receiver
<1>1. ASSUME ServeStart(k) \/ ServeOp(k)
      PROVE  /\ net'[k].at = "client" /\ net'[k].status \in {"ok", "needAuth"}
             /\ net' \in [Call -> Message]
  <2>1. Answer(k, "ok") \/ Answer(k, "needAuth")
    BY <1>1 DEF ServeStart, ServeOp
  <2> QED
    BY <2>1, AnswerTypes
<1>2. ASSUME ServeAuth(k)
      PROVE  /\ Served(k, "auth") /\ net' \in [Call -> Message]
             /\ \/ net'[k].at = "client" /\ net'[k].status \in {"needAuth", "duplicate"}
                \/ /\ net'[k].at = "server" /\ net'[k].kind = "validate" /\ net'[k].t = now
                   /\ net'[k].sid = net[k].sid /\ net'[k].sid \in Call
                   /\ net'[k].assertion = net[k].assertion
                   /\ net'[k].status = net[k].status
  <2> DEFINE m == [net[k] EXCEPT !.kind = "validate", !.t = now]
  <2>1. net[k] \in Message /\ now \in Nat
    BY DEF TypeOK, Pointers
  <2>2. /\ m \in Message /\ m.at = net[k].at /\ m.kind = "validate" /\ m.t = now
        /\ m.sid = net[k].sid /\ m.assertion = net[k].assertion /\ m.status = net[k].status
    BY <2>1 DEF Message
  <2>3. \/ Answer(k, "needAuth") \/ Answer(k, "duplicate")
        \/ net[k].sid # None /\ net' = [net EXCEPT ![k] = m]
    BY <1>2, <2>1 DEF ServeAuth, Pointers, Message
  <2>4. Served(k, "auth")
    BY <1>2 DEF ServeAuth
  <2> HIDE DEF m
  <2>5. CASE Answer(k, "needAuth") \/ Answer(k, "duplicate")
    BY <2>4, <2>5, AnswerTypes
  <2>6. CASE net[k].sid # None /\ net' = [net EXCEPT ![k] = m]
    <3>1. net'[k] = m /\ net' \in [Call -> Message]
      BY <2>2, <2>6 DEF Pointers
    <3>2. net[k].sid \in Call
      BY <2>1, <2>6 DEF Message
    <3> QED
      BY <2>2, <2>4, <3>1, <3>2 DEF Served
  <2> QED
    BY <2>3, <2>5, <2>6
<1>3. ASSUME ServeStart(k) \/ ServeOp(k) \/ ServeAuth(k)
      PROVE  stage' = stage /\ obj' = obj /\ chain' = chain /\ began' = began
             /\ signer' = signer /\ receiver' = receiver
  BY <1>3 DEF ServeStart, ServeOp, ServeAuth, certs
<1> QED
  BY <1>1, <1>2, <1>3

LEMMA PointersKept ==
    ASSUME TypeOK, Pointers, Chains, NEW k \in Call, ByCall(k)
    PROVE  Pointers'
<1> DEFINE Points(j) ==
        /\ stage[j] # "none" => receiver \in Call
        /\ stage[j] \in {"starting", "signing", "authing", "operating"} => obj[j] \in Call
        /\ Served(j, "validate") => net[j].sid \in Call
<1>1. SUFFICES /\ net' \in [Call -> Message] /\ Points(k)'
               /\ receiver \in Call => receiver' \in Call
  <2>1. \A j \in Call : j # k => (stage'[j] = stage[j] /\ net'[j] = net[j] /\ obj'[j] = obj[j])
    BY OthersStay
  <2>2. \A j \in Call : j # k => Points(j)'
    BY <1>1, <2>1 DEF Pointers, Served
  <2> QED
    BY <1>1, <2>2 DEF Pointers
<1>2. CASE OpenInbox(k)
  <2>1. receiver' \in Call /\ (receiver \in Call => receiver' \in Call)
    BY <1>2 DEF OpenInbox, TypeOK
  <2> QED
    BY <1>2, <2>1, PageSteps DEF Pointers, Served
<1>3. CASE Login(k)
  <2>1. receiver' = receiver /\ receiver \in Call /\ stage[k] = "locating"
        /\ (stage'[k] = "failed" \/ obj'[k] = receiver)
    <3>1. receiver' = receiver /\ receiver \in Call /\ stage[k] = "locating"
      BY <1>3 DEF Login, Pointers
    <3>2. To(k, "failed") \/ obj' = [obj EXCEPT ![k] = receiver]
      BY <1>3 DEF Login
    <3>3. obj' = [obj EXCEPT ![k] = receiver] => obj'[k] = receiver
      BY DEF TypeOK
    <3>4. To(k, "failed") => stage'[k] = "failed"
      BY NextStage DEF Stage
    <3> QED
      BY <3>1, <3>2, <3>3, <3>4
  <2> QED
    BY <1>3, <2>1, PageSteps DEF Pointers, Served
<1>4. CASE StartReply(k)
  <2>1. receiver' = receiver /\ obj' = obj /\ stage[k] = "starting"
    BY <1>4 DEF StartReply, Received
  <2> QED
    BY <1>4, <2>1, PageSteps DEF Pointers, Served
<1>5. CASE AuthenticateSession(k)
  <2>1. receiver' = receiver /\ obj' = obj /\ stage[k] = "signing"
    BY <1>5 DEF AuthenticateSession
  <2>2. chain[k] \in ChainType
    BY <2>1 DEF Chains, Timely, Verified
  <2> QED
    BY <1>5, <2>1, <2>2, SigningStep DEF Pointers, Served
<1>6. CASE AuthReply(k) \/ OperateReply(k)
  <2>1. receiver' = receiver /\ stage[k] \in {"authing", "operating"}
    BY <1>6 DEF AuthReply, OperateReply, Received
  <2> QED
    BY <1>6, <2>1, PageSteps DEF Pointers, Served
<1>7. CASE Operate(k)
  <2>1. receiver' = receiver /\ stage[k] = "open" /\ obj'[k] = receiver
    BY <1>7 DEF Operate, TypeOK
  <2> QED
    BY <1>7, <2>1, PageSteps DEF Pointers, Served
<1>8. CASE ServeStart(k) \/ ServeOp(k) \/ ServeAuth(k)
  BY <1>8, ServiceSteps DEF Pointers, Served
<1>9. CASE Validated(k)
  <2>1. stage' = stage /\ obj' = obj /\ receiver' = receiver
        /\ (Answer(k, "ok") \/ Answer(k, "authFailed"))
    BY <1>9 DEF Validated
  <2> QED
    BY <2>1, AnswerTypes DEF Pointers, Served
<1>10. CASE Lose(k)
  <2>1. net' = [net EXCEPT ![k] = NoMsg] /\ To(k, "failed") /\ receiver' = receiver
        /\ stage[k] # "none"
    BY <1>10 DEF Lose, Waiting
  <2>2. stage'[k] = "failed"
    BY <2>1, NextStage DEF Stage
  <2> QED
    BY <2>1, <2>2, NoMsgTypes DEF Pointers, Served
<1>11. CASE Expire(k)
  BY <1>11 DEF Expire, login, Pointers, Served
<1>12. CASE RootNotFetched(k)
  BY <1>12, NoRootStep DEF Pointers, Served
<1> QED
  BY <1>2, <1>3, <1>4, <1>5, <1>6, <1>7, <1>8, <1>9, <1>10, <1>11, <1>12 DEF ByCall, ByPage, ByService

-----------------------------------------------------------------------------
(* Chains                                                                   *)

LEMMA ServerKeeps ==
    ASSUME TypeOK, Pointers, Chains, Assertions, Tick \/ Restart
    PROVE  Pointers' /\ Chains' /\ Assertions'
<1>1. login' = login /\ sess' = sess /\ signer' = signer
  BY DEF Tick, Restart, certs
<1>2. /\ stage' = stage /\ receiver' = receiver /\ obj' = obj /\ chain' = chain
      /\ began' = began /\ net' = net
  BY <1>1 DEF login
<1>3. /\ root.key <= root'.key /\ now <= now' /\ (root'.key = root.key => root' = root)
      /\ now \in Nat /\ now' \in Nat /\ root.key \in Nat /\ root'.key \in Nat
  BY ServerTypes DEF TypeOK, CertType
<1>4. ASSUME NEW c, Verified(c) PROVE Verified(c)'
  <2>1. c.user.iss \in Nat /\ c.prov.by \in Nat /\ c.prov.iss \in Nat
    BY <1>4 DEF Verified, ChainType, CertType
  <2>2. c.prov.by = root'.key => c.prov.by = root.key /\ root' = root
    BY <1>3, <1>4, <2>1 DEF Verified
  <2> QED
    BY <1>3, <1>4, <2>1, <2>2 DEF Verified
<1>5. Pointers'
  BY <1>2 DEF Pointers, Served
<1>6. ASSUME NEW k \in Call, Timely(k) PROVE Timely(k)'
  <2>1. PICK c : c = chain[k]
    OBVIOUS
  <2>2. Verified(c)' /\ chain'[k] = c
    BY <1>2, <1>4, <1>6, <2>1 DEF Timely
  <2>3. Verified(chain[k])'
    BY <2>2
  <2> QED
    BY <1>2, <1>3, <1>6, <2>3 DEF Timely
<1>7. Chains'
  <2>1. signer # None => Verified(signer)'
    <3>1. PICK c : c = signer
      OBVIOUS
    <3>2. c # None => Verified(c)'
      BY <1>4, <3>1 DEF Chains
    <3> QED
      BY <1>1, <3>1, <3>2
  <2> QED
    BY <1>1, <1>2, <1>6, <2>1 DEF Chains
<1>8. ASSUME NEW k \in Call PROVE Refusal(k)'
  <2>1. CASE stage[k] = "authing" /\ net[k].status = "authFailed"
    <3>1. Timely(k)
      BY <2>1 DEF Chains
    <3>2. chain[k].prov.by \in Nat /\ chain[k].prov.by <= root.key
      BY <3>1 DEF Timely, Verified, ChainType, CertType
    <3>3. chain[k].prov.by # root.key => chain[k].prov.by # root'.key
      BY <1>3, <3>2
    <3> QED
      BY <1>2, <2>1, <3>3 DEF Assertions, Refusal
  <2> QED
    BY <1>2, <2>1 DEF Refusal
<1>9. ASSUME NEW k \in Call, Asserted(k) PROVE Asserted(k)'
  BY <1>2, <1>3, <1>9 DEF Asserted, AssertType
<1>10. Assertions'
  BY <1>2, <1>8, <1>9 DEF Assertions, Served
<1> QED
  BY <1>5, <1>7, <1>10

\* A chain that a call takes.
LEMMA LoginStep ==
    ASSUME TypeOK, Pointers, Chains, NEW k \in Call, Login(k)
    PROVE  /\ signer' # None => Verified(signer)'
           /\ stage'[k] = "starting" => Timely(k)'
<1>0. now' = now /\ root' = root /\ now \in Nat
  BY OthersStay DEF ByCall, ByPage, TypeOK
<1>1. PICK c : c = signer'
  OBVIOUS
<1>2. IsProvisionedAndValid => Verified(c) /\ now + Margin < c.user.exp
  BY <1>1, ConstTypes DEF Login, Chains, IsProvisionedAndValid, Verified, ChainType, CertType, TypeOK
<1>3. ~IsProvisionedAndValid /\ Provisions(k) => Verified(c) /\ now + Margin < c.user.exp
  <2> SUFFICES ASSUME ~IsProvisionedAndValid, Provisions(k)
               PROVE  Verified(c) /\ now + Margin < c.user.exp
    OBVIOUS
  <2>1. c = NewChain(k)
    BY <1>1 DEF Login
  <2>2. /\ c \in ChainType /\ c.user.iss = now /\ c.user.by = c.prov.key
        /\ now + Margin < c.user.exp
    BY <2>1, NewChainTypes
  <2>3. VerifyChain(c.user, c.prov, root, c.user.iss + 1)
    BY <2>1 DEF Provisions
  <2>4. root.key \in Nat /\ c.prov.by = root.key
    BY <2>3 DEF VerifyChain, TypeOK, CertType
  <2> QED
    BY <1>0, <2>2, <2>3, <2>4 DEF Verified, VerifyChain
<1>4. ~IsProvisionedAndValid /\ ~Provisions(k) => c = signer
  BY <1>1 DEF Login
<1>5. c # None => Verified(c)
  BY <1>2, <1>3, <1>4 DEF Chains
<1>6. Verified(c) => Verified(c)'
  BY <1>0 DEF Verified
<1>7. signer' # None => Verified(signer)'
  BY <1>1, <1>5, <1>6
<1>8. ASSUME stage'[k] = "starting" PROVE Timely(k)'
  <2>1. IsProvisionedAndValid \/ Provisions(k)
    BY <1>8, NextStage DEF Login, Stage
  <2>2. Verified(c) /\ Verified(c)' /\ now + Margin < c.user.exp
    BY <1>2, <1>3, <1>6, <2>1
  <2>3. chain'[k] = c /\ began'[k] = now
    <3>1. ~To(k, "failed")
      BY <1>8, NextStage DEF Stage
    <3>2. chain' = [chain EXCEPT ![k] = c] /\ began' = [began EXCEPT ![k] = now]
      BY <1>1, <3>1 DEF Login
    <3> QED
      BY <3>2 DEF TypeOK
  <2>4. Verified(chain[k])'
    BY <2>2, <2>3
  <2>5. c.user.iss <= now
    BY <2>2 DEF Verified
  <2> QED
    BY <1>0, <2>2, <2>3, <2>4, <2>5 DEF Timely
<1> QED
  BY <1>7, <1>8

LEMMA ChainsKept ==
    ASSUME TypeOK, Pointers, Chains, NEW k \in Call, ByCall(k)
    PROVE  Chains'
<1>0. /\ now' = now /\ root' = root
      /\ \A j \in Call : j # k => /\ stage'[j] = stage[j] /\ chain'[j] = chain[j]
                                  /\ began'[j] = began[j]
  BY OthersStay
<1> DEFINE Used(j) == stage[j] \in {"starting", "signing", "authing"} => Timely(j)
<1>1. ASSUME NEW j \in Call, chain'[j] = chain[j], began'[j] = began[j], Timely(j)
      PROVE  Timely(j)'
  <2>1. PICK c : c = chain[j]
    OBVIOUS
  <2>2. Verified(c)'
    BY <1>0, <1>1, <2>1 DEF Timely, Verified
  <2>3. Verified(chain[j])'
    BY <1>1, <2>1, <2>2
  <2> QED
    BY <1>0, <1>1, <2>3 DEF Timely
<1>2. \A j \in Call : j # k => Used(j)'
  BY <1>0, <1>1 DEF Chains
<1>3. CASE Login(k)
  <2>1. Used(k)'
    BY <1>3, LoginStep, PageSteps
  <2> QED
    BY <1>2, <1>3, <2>1, LoginStep DEF Chains
<1>4. ASSUME ~Login(k) PROVE Chains'
  <2>1. signer' = signer
    BY <1>4 DEF ByCall, ByPage, ByService, OpenInbox, StartReply, AuthenticateSession, AuthReply,
           Operate, OperateReply, ServeStart, ServeAuth, Validated, ServeOp, RootNotFetched, Lose,
           Expire, certs
  <2>2. signer # None => Verified(signer)'
    <3>1. PICK c : c = signer
      OBVIOUS
    <3>2. c # None => Verified(c)'
      BY <1>0, <3>1 DEF Chains, Verified
    <3> QED
      BY <2>1, <3>1, <3>2
  <2>3. Used(k)'
    <3>1. CASE OpenInbox(k) \/ AuthReply(k) \/ OperateReply(k) \/ Operate(k)
      BY <3>1, PageSteps
    <3>2. CASE StartReply(k)
      BY <1>1, <3>2 DEF StartReply, Received, Chains
    <3>3. CASE AuthenticateSession(k)
      BY <1>1, <3>3 DEF AuthenticateSession, Chains
    <3>4. CASE ServeStart(k) \/ ServeAuth(k) \/ ServeOp(k) \/ Validated(k) \/ Expire(k)
      BY <1>1, <3>4 DEF ServeStart, ServeAuth, ServeOp, Validated, Expire, Chains, login
    <3>5. CASE Lose(k)
      BY <3>5, NextStage DEF Lose, Stage
    <3>6. CASE RootNotFetched(k)
      BY <1>1, <3>6, NoRootStep DEF Chains
    <3> QED
      BY <1>4, <3>1, <3>2, <3>3, <3>4, <3>5, <3>6 DEF ByCall, ByPage, ByService
  <2> QED
    BY <1>2, <2>1, <2>2, <2>3 DEF Chains
<1> QED
  BY <1>3, <1>4

-----------------------------------------------------------------------------
(* Assertions                                                               *)

\* Only a replaced root, or a slow login, make a service refuse.
LEMMA ValidatedStep ==
    ASSUME TypeOK, Pointers, Chains, Assertions, NEW k \in Call, Validated(k)
    PROVE  /\ net'[k].at = "client" /\ stage' = stage /\ chain' = chain /\ began' = began
           /\ Refusal(k)'
<1> DEFINE ok == /\ VerifyAssertion(net[k].assertion, chain[k].user, chain[k].prov, root, net[k].t)
                 /\ net[k].assertion.sid = net[k].sid
<1>1. stage' = stage /\ chain' = chain /\ began' = began /\ root' = root
      /\ Served(k, "validate") /\ Answer(k, IF ok THEN "ok" ELSE "authFailed")
  BY DEF Validated, certs
<1> HIDE DEF ok
<1>2. net'[k].at = "client" /\ net'[k].t = net[k].t
      /\ (ok => net'[k].status = "ok")
  BY <1>1, AnswerTypes
<1>3. Asserted(k) /\ net[k].t \in Nat /\ net[k].assertion.iss <= net[k].t
  BY <1>1 DEF Assertions
<1>4. Timely(k)
  BY <1>3 DEF Asserted, Chains
<1>5. ASSUME chain[k].prov.by = root.key, ~(net[k].t > began[k] + Margin)
      PROVE  ok
  <2>1. /\ chain[k].user.iss \in Nat /\ chain[k].user.exp \in Nat /\ began[k] \in Nat
        /\ net[k].assertion.iss \in Nat
    BY <1>3, <1>4 DEF Timely, Verified, ChainType, CertType, Asserted, AssertType
  <2>2. net[k].t <= began[k] + Margin
    BY <1>3, <1>5, <2>1, ConstTypes
  <2>3. ValidAt(chain[k].user, net[k].t)
    BY <1>3, <1>4, <2>1, <2>2, ConstTypes DEF ValidAt, Timely, Asserted
  <2>4. VerifyChain(chain[k].user, chain[k].prov, root, net[k].t)
    BY <1>4, <1>5, <2>3 DEF VerifyChain, Timely, Verified
  <2>5. ValidAt(net[k].assertion, net[k].t)
    BY <1>3, <2>1, <2>2, ConstTypes DEF ValidAt, Asserted
  <2> QED
    BY <1>3, <2>4, <2>5 DEF ok, VerifyAssertion, Asserted
<1>6. Refusal(k)'
  <2>1. CASE ok
    BY <1>2, <2>1 DEF Refusal
  <2>2. CASE ~ok
    BY <1>1, <1>2, <1>3, <1>5, <2>2 DEF Refusal
  <2> QED
    BY <2>1, <2>2
<1> QED
  BY <1>1, <1>2, <1>6

LEMMA AssertionsKept ==
    ASSUME TypeOK, Pointers, Chains, Assertions, NEW k \in Call, ByCall(k)
    PROVE  Assertions'
<1>0. /\ now' = now /\ root' = root /\ now \in Nat
      /\ \A j \in Call : j # k => /\ stage'[j] = stage[j] /\ chain'[j] = chain[j]
                                  /\ began'[j] = began[j] /\ net'[j] = net[j]
  BY OthersStay DEF TypeOK
<1> DEFINE Sent(j) ==
        /\ Served(j, "auth") => Asserted(j) /\ net[j].status = "none"
        /\ Served(j, "validate") =>
            /\ Asserted(j) /\ net[j].status = "none" /\ net[j].t \in Nat
            /\ net[j].assertion.iss <= net[j].t
<1>1. \A j \in Call : j # k => Sent(j)' /\ Refusal(j)'
  BY <1>0 DEF Assertions, Served, Asserted, Refusal
<1>2. SUFFICES Sent(k)' /\ Refusal(k)'
  BY <1>1, <1>2 DEF Assertions
<1>3. CASE OpenInbox(k)
  <2>1. stage[k] = "none"
    BY <1>3 DEF OpenInbox
  <2> QED
    BY <1>3, <2>1, PageSteps DEF Assertions, Served, Asserted, Refusal
<1>4. CASE Login(k)
  <2>1. stage[k] = "locating"
    BY <1>4 DEF Login
  <2> QED
    BY <1>4, <2>1, PageSteps DEF Assertions, Served, Asserted, Refusal
<1>5. CASE StartReply(k) \/ AuthReply(k) \/ OperateReply(k) \/ Operate(k)
  BY <1>5, PageSteps DEF Served, Refusal
<1>6. CASE AuthenticateSession(k)
  <2>1. stage[k] = "signing" /\ chain' = chain /\ began' = began
    BY <1>6 DEF AuthenticateSession
  <2>2. chain[k] \in ChainType /\ began[k] \in Nat /\ began[k] <= now
    BY <2>1 DEF Chains, Timely, Verified
  <2>3. CASE stage'[k] = "failed" /\ net' = net
    BY <2>1, <2>3 DEF Assertions, Served, Asserted, Refusal
  <2>4. CASE /\ stage'[k] = "authing" /\ net'[k].at = "server" /\ net'[k].kind = "auth"
             /\ net'[k].assertion \in AssertType /\ net'[k].status = "none"
             /\ net'[k].assertion.sid = net'[k].sid
             /\ net'[k].assertion.by = chain[k].user.key
             /\ net'[k].assertion.iss = now /\ net'[k].assertion.exp = now + AssertLife
    BY <1>0, <2>1, <2>2, <2>4 DEF Served, Asserted, Refusal
  <2> QED
    BY <1>6, <2>2, <2>3, <2>4, SigningStep
<1>7. CASE ServeStart(k) \/ ServeOp(k)
  BY <1>7, ServiceSteps DEF Served, Refusal
<1>8. CASE ServeAuth(k)
  <2>1. Asserted(k) /\ net[k].status = "none" /\ stage' = stage /\ chain' = chain /\ began' = began
    BY <1>8, ServiceSteps DEF Assertions
  <2>2. CASE net'[k].at = "client" /\ net'[k].status \in {"needAuth", "duplicate"}
    BY <2>2 DEF Served, Refusal
  <2>3. CASE /\ net'[k].kind = "validate" /\ net'[k].t = now
             /\ net'[k].sid = net[k].sid /\ net'[k].assertion = net[k].assertion
             /\ net'[k].status = net[k].status
    BY <1>0, <2>1, <2>3 DEF Served, Asserted, Refusal
  <2> QED
    BY <1>8, <2>2, <2>3, ServiceSteps
<1>9. CASE Validated(k)
  BY <1>9, ValidatedStep DEF Served
<1>10. CASE Lose(k)
  <2>1. net' = [net EXCEPT ![k] = NoMsg]
    BY <1>10 DEF Lose
  <2> QED
    BY <2>1, NoMsgTypes DEF Served, Refusal
<1>11. CASE Expire(k)
  BY <1>0, <1>11 DEF Expire, login, Assertions, Served, Asserted, Refusal
<1>12. CASE RootNotFetched(k)
  BY <1>12, NoRootStep DEF Served, Refusal
<1> QED
  BY <1>3, <1>4, <1>5, <1>6, <1>7, <1>8, <1>9, <1>10, <1>11, <1>12 DEF ByCall, ByPage, ByService

-----------------------------------------------------------------------------
(* Requests at a service                                                    *)

LEMMA MatchedKept ==
    ASSUME TypeOK, Pointers, Chains, Assertions, Matched, NEW k \in Call, ByCall(k)
    PROVE  Matched'
<1> DEFINE Fits(j) == /\ Served(j, "start") => stage[j] = "starting"
                      /\ Served(j, "op") => stage[j] = "operating"
<1>0. \A j \in Call : Fits(j) /\ (j # k => stage'[j] = stage[j] /\ net'[j] = net[j])
  <2>1. \A j \in Call : Fits(j)
    BY DEF Matched, Served
  <2>2. \A j \in Call : j # k => stage'[j] = stage[j] /\ net'[j] = net[j]
    BY OthersStay
  <2> QED
    BY <2>1, <2>2
<1>1. \A j \in Call : j # k => Fits(j)'
  BY <1>0 DEF Served
<1>2. SUFFICES Fits(k)'
  BY <1>1, <1>2 DEF Matched
<1>3. CASE OpenInbox(k) \/ Login(k)
  <2>1. stage[k] \in {"none", "locating"}
    BY <1>3 DEF OpenInbox, Login
  <2> QED
    BY <1>0, <1>3, <2>1, PageSteps DEF Served
<1>4. CASE StartReply(k) \/ AuthReply(k) \/ OperateReply(k) \/ Operate(k)
  BY <1>4, PageSteps DEF Served
<1>5. CASE AuthenticateSession(k)
  <2>1. stage[k] = "signing"
    BY <1>5 DEF AuthenticateSession
  <2>2. chain[k] \in ChainType
    BY <2>1 DEF Chains, Timely, Verified
  <2> QED
    BY <1>0, <1>5, <2>1, <2>2, SigningStep DEF Served
<1>6. CASE ServeStart(k) \/ ServeOp(k) \/ ServeAuth(k)
  BY <1>6, ServiceSteps DEF Served
<1>7. CASE Validated(k)
  BY <1>7, ValidatedStep DEF Served
<1>8. CASE Lose(k)
  <2>1. net' = [net EXCEPT ![k] = NoMsg]
    BY <1>8 DEF Lose
  <2> QED
    BY <2>1, NoMsgTypes DEF Served
<1>9. CASE Expire(k)
  BY <1>0, <1>9 DEF Expire, login, Served
<1>10. CASE RootNotFetched(k)
  BY <1>10, NoRootStep DEF Served
<1> QED
  BY <1>3, <1>4, <1>5, <1>6, <1>7, <1>8, <1>9, <1>10 DEF ByCall, ByPage, ByService

-----------------------------------------------------------------------------
(* Calls that nothing hurts                                                 *)

\* Calls that were hurt stay such, and only a call, that starts when nothing
\* runs, hurts no one.
LEMMA HurtStays ==
    ASSUME TypeOK, NEW k \in Call, ByCall(k), faults'.hurt = {}
    PROVE  /\ faults.hurt = {} /\ ~Lose(k) /\ ~RootNotFetched(k)
           /\ OpenInbox(k) => \A j \in Call : stage[j] \notin Running
           /\ Expire(k) => \A j \in Call : stage[j] \in {"none", "served", "failed"}
<1>1. faults \in [count: 0..MaxFaults, hurt: SUBSET Call]
  BY DEF TypeOK
<1>2. ASSUME OpenInbox(k)
      PROVE  faults.hurt = {} /\ \A j \in Call : stage[j] \notin Running
  <2>1. InProgress = {}
    <3> SUFFICES ASSUME InProgress # {} PROVE FALSE
      OBVIOUS
    <3>1. faults' = [faults EXCEPT !.hurt = @ \cup {k} \cup InProgress]
      BY <1>2 DEF OpenInbox
    <3>2. k \in faults'.hurt
      BY <1>1, <3>1
    <3> QED
      BY <3>2
  <2>2. faults' = faults
    BY <1>2, <2>1 DEF OpenInbox
  <2> QED
    BY <2>1, <2>2 DEF InProgress
<1>3. ~Lose(k) /\ ~RootNotFetched(k)
  <2>1. Lose(k) \/ RootNotFetched(k) => k \in faults'.hurt
    BY DEF Lose, RootNotFetched, Fault
  <2> QED
    BY <2>1
<1>4. ASSUME Expire(k)
      PROVE  faults.hurt = {} /\ \A j \in Call : stage[j] \in {"none", "served", "failed"}
  <2>1. faults'.hurt = faults.hurt \cup
                       {j \in Call : stage[j] \notin {"none", "served", "failed"}}
    BY <1>4 DEF Expire, Fault
  <2> QED
    BY <2>1
<1>5. ~(OpenInbox(k) \/ RootNotFetched(k) \/ Lose(k) \/ Expire(k)) => faults' = faults
  BY DEF ByCall, ByPage, ByService, Login, StartReply, AuthenticateSession, AuthReply, Operate,
         OperateReply, ServeStart, ServeAuth, Validated, ServeOp
<1> QED
  BY <1>2, <1>3, <1>4, <1>5

\* What is done with receivers and sessions of other calls.
LEMMA OthersSessions ==
    ASSUME TypeOK, Pointers, Assertions, Matched, Quiet, NEW k \in Call, ByCall(k),
           faults'.hurt = {}, ~Expire(k)
    PROVE  \A j \in Call : j # k =>
                /\ sess'[j] = sess[j] /\ sid'[j] \in {sid[j], None}
                /\ stage[j] = "locating" => receiver' = receiver
<1>0. faults.hurt = {} /\ \A j \in Call : Own(j) /\ Granted(j)
  BY HurtStays DEF Quiet
<1>1. \A j \in Call : stage[j] = "locating" => receiver' = receiver
  <2>1. OpenInbox(k) => \A j \in Call : stage[j] # "locating"
    BY HurtStays DEF Running
  <2>2. ~OpenInbox(k) => receiver' = receiver
    BY DEF ByCall, ByPage, ByService, Login, StartReply, AuthenticateSession, AuthReply, Operate,
         OperateReply, ServeStart, ServeAuth, Validated, ServeOp, RootNotFetched, Lose, Expire, login
  <2> QED
    BY <2>1, <2>2
<1>2. \A j \in Call : j # k => sid'[j] \in {sid[j], None}
  <2>1. CASE StartReply(k)
    <3>1. obj[k] = k
      BY <1>0, <2>1 DEF StartReply, Received, Own
    <3> QED
      BY <2>1, <3>1 DEF StartReply, TypeOK
  <2>2. CASE AuthReply(k) \/ OperateReply(k)
    BY <2>2 DEF AuthReply, OperateReply, TypeOK
  <2>3. ~(StartReply(k) \/ AuthReply(k) \/ OperateReply(k)) => sid' = sid
    BY DEF ByCall, ByPage, ByService, OpenInbox, Login, AuthenticateSession, Operate,
         ServeStart, ServeAuth, Validated, ServeOp, RootNotFetched, Lose, Expire, login
  <2> QED
    BY <2>1, <2>2, <2>3
<1>3. \A j \in Call : j # k => sess'[j] = sess[j]
  <2>1. CASE Validated(k)
    <3>1. stage[k] = "authing" /\ net[k].sid \in Call
      BY <2>1 DEF Validated, Assertions, Asserted, Pointers
    <3>2. net[k].sid = k
      BY <1>0, <3>1, ConstTypes DEF Granted, Decided
    <3> QED
      BY <2>1, <3>2 DEF Validated, TypeOK
  <2>2. CASE ServeStart(k)
    BY <2>2 DEF ServeStart, TypeOK
  <2>3. ~(Validated(k) \/ ServeStart(k) \/ RootNotFetched(k) \/ Expire(k)) => sess' = sess
    BY DEF ByCall, ByPage, ByService, OpenInbox, Login, StartReply, AuthenticateSession, AuthReply,
         Operate, OperateReply, ServeAuth, ServeOp, Lose
  <2>4. ~RootNotFetched(k)
    BY HurtStays
  <2> QED
    BY <2>1, <2>2, <2>3, <2>4
<1> QED
  BY <1>1, <1>2, <1>3

LEMMA OthersQuiet ==
    ASSUME TypeOK, Pointers, Assertions, Matched, Quiet, NEW k \in Call, ByCall(k),
           faults'.hurt = {}, ~Expire(k), NEW j \in Call, j # k
    PROVE  Own(j)' /\ Granted(j)'
<1>1. Own(j) /\ Granted(j)
  BY HurtStays DEF Quiet
<1>2. /\ stage'[j] = stage[j] /\ net'[j] = net[j] /\ obj'[j] = obj[j] /\ chain'[j] = chain[j]
      /\ now' = now /\ sess'[j] = sess[j] /\ sid'[j] \in {sid[j], None}
      /\ stage[j] = "locating" => receiver' = receiver
  BY OthersStay, OthersSessions
<1>3. Own(j)'
  BY <1>1, <1>2 DEF Own
<1>4. Decided(j) => Decided(j)'
  BY <1>2 DEF Decided
<1>5. Granted(j)'
  BY <1>1, <1>2, <1>4 DEF Granted, LoggedIn
<1> QED
  BY <1>3, <1>5

\* Steps of a page.
LEMMA PageQuiet ==
    ASSUME TypeOK, Pointers, Chains, Matched, NEW k \in Call, Own(k), Granted(k),
           OpenInbox(k) \/ ByPage(k)
    PROVE  Own(k)' /\ Granted(k)'
<1>0. /\ now' = now /\ k # None /\ sid[k] \in Call \cup {None}
      /\ sid \in [Call -> Call \cup {None}] /\ obj \in [Call -> Call \cup {None}]
      /\ chain \in [Call -> ChainType \cup {None}]
  BY OthersStay, ConstTypes DEF ByCall, TypeOK
<1>1. CASE OpenInbox(k)
  <2>1. sid' = sid /\ sid[k] = None /\ (stage'[k] = "open" \/ receiver' = k)
        /\ stage'[k] \in {"open", "locating"}
    <3>1. stage[k] = "none" /\ sid' = sid /\ (To(k, "open") \/ receiver' = k)
      BY <1>1 DEF OpenInbox
    <3>2. To(k, "open") => stage'[k] = "open"
      BY NextStage DEF Stage
    <3> QED
      BY <1>1, <3>1, <3>2, PageSteps DEF Own
  <2> QED
    BY <2>1 DEF Own, Granted
<1>2. CASE Login(k)
  <2>1. stage[k] = "locating" /\ sid' = sid /\ sid[k] = None /\ receiver = k
    BY <1>2 DEF Login, Own
  <2>2. To(k, "failed") \/ obj' = [obj EXCEPT ![k] = receiver]
    BY <1>2 DEF Login
  <2>3. To(k, "failed") => stage'[k] = "failed"
    BY NextStage DEF Stage
  <2>4. stage'[k] = "failed" \/ (stage'[k] = "starting" /\ obj'[k] = k /\ net'[k].at = "server")
    BY <1>0, <1>2, <2>1, <2>2, <2>3, PageSteps
  <2> QED
    BY <2>1, <2>4 DEF Own, Granted
<1>3. CASE StartReply(k)
  <2>1. /\ stage[k] = "starting" /\ net[k].at = "client" /\ sess' = sess /\ obj' = obj
        /\ sid' = [sid EXCEPT ![obj[k]] = k]
    BY <1>3 DEF StartReply, Received
  <2>2. obj[k] = k /\ sess[k] = "started"
    BY <2>1 DEF Own, Granted
  <2> QED
    BY <1>0, <1>3, <2>1, <2>2, PageSteps DEF Own, Granted
<1>4. CASE AuthenticateSession(k)
  <2>1. /\ stage[k] = "signing" /\ sess' = sess /\ sid' = sid /\ obj' = obj
        /\ chain' = chain
        /\ \/ ~MaySign(chain[k].user, now) /\ To(k, "failed")
           \/ To(k, "authing") /\ Request(k, "auth", sid[obj[k]],
                                          Assertion(chain[k].user, sid[obj[k]], now))
    BY <1>4 DEF AuthenticateSession
  <2>2. obj[k] = k /\ sess[k] = "started" /\ chain[k] \in ChainType
    BY <2>1 DEF Own, Granted, Chains, Timely, Verified
  <2>3. CASE ~MaySign(chain[k].user, now) /\ To(k, "failed")
    <3>1. now >= chain[k].user.exp /\ chain[k] # None
      <4>1. chain[k].user.exp \in Nat /\ now \in Nat
        BY <2>2 DEF ChainType, CertType, TypeOK
      <4>2. chain[k] # None
        BY <2>2, NoChainAssumption
      <4> QED
        BY <2>3, <4>1, <4>2 DEF MaySign
    <3>2. stage'[k] = "failed"
      BY <2>3, NextStage DEF Stage
    <3> QED
      BY <1>0, <2>1, <3>1, <3>2 DEF Own, Granted
  <2>4. CASE To(k, "authing") /\ Request(k, "auth", sid[k],
                                         Assertion(chain[k].user, sid[k], now))
    <3>1. Assertion(chain[k].user, sid[k], now) \in AssertType
      BY <1>0, <2>2, AssertionTypes DEF TypeOK
    <3>2. net'[k].at = "server" /\ net'[k].sid = sid[k]
      BY <1>0, <2>4, <3>1, RequestTypes
    <3>3. stage'[k] = "authing"
      BY <2>4, NextStage DEF Stage
    <3>4. Own(k)'
      BY <2>1, <2>2, <3>3 DEF Own
    <3>5. Decided(k)'
      BY <2>1, <2>2, <3>2, <3>4 DEF Decided, Own
    <3> QED
      BY <3>3, <3>4, <3>5 DEF Granted
  <2> QED
    BY <2>1, <2>2, <2>3, <2>4
<1>5. CASE AuthReply(k)
  <2>1. /\ stage[k] = "authing" /\ net[k].at = "client" /\ sess' = sess
        /\ To(k, IF net[k].status = "ok" THEN "open" ELSE "failed")
        /\ sid' = IF "authing" \in Forgets(net[k].status)
                  THEN [sid EXCEPT ![obj[k]] = None] ELSE sid
    BY <1>5 DEF AuthReply, Received
  <2>2. obj[k] = k /\ Decided(k)
    BY <2>1 DEF Own, Granted
  <2>3. sid'[k] \in {sid[k], None} /\ (net[k].status = "authFailed" => sid'[k] = None)
    BY <1>0, <2>1, <2>2 DEF Forgets
  <2>4. stage'[k] = IF net[k].status = "ok" THEN "open" ELSE "failed"
    BY <2>1, NextStage DEF Stage
  <2>5. sid'[k] # None => net[k].status = "ok" /\ sess[k] = "authorized"
    BY <2>1, <2>2, <2>3 DEF Decided
  <2> QED
    BY <2>1, <2>3, <2>4, <2>5 DEF Own, Granted, LoggedIn
<1>6. CASE Operate(k)
  <2>1. stage[k] = "open" /\ sid' = sid /\ sess' = sess
    BY <1>6 DEF Operate
  <2> QED
    BY <1>6, <2>1, PageSteps DEF Own, Granted, LoggedIn
<1>7. CASE OperateReply(k)
  <2>1. /\ stage[k] = "operating" /\ sess' = sess
        /\ sid' = sid \/ sid' = [sid EXCEPT ![obj[k]] = None]
        /\ To(k, "served") \/ To(k, "failed")
    BY <1>7 DEF OperateReply, Received
  <2>2. sid'[k] \in {sid[k], None} /\ stage'[k] \in {"served", "failed"}
    BY <1>0, <2>1, NextStage DEF Stage
  <2> QED
    BY <2>1, <2>2 DEF Own, Granted, LoggedIn
<1> QED
  BY <1>1, <1>2, <1>3, <1>4, <1>5, <1>6, <1>7 DEF ByPage

\* Steps of a service.
LEMMA ServiceQuiet ==
    ASSUME TypeOK, Pointers, Chains, Assertions, Matched, NEW k \in Call, Own(k), Granted(k),
           ByService(k)
    PROVE  Own(k)' /\ Granted(k)'
<1>0. /\ now' = now /\ stage' = stage /\ sid' = sid /\ obj' = obj /\ chain' = chain
      /\ receiver' = receiver /\ sess \in [Call -> {"none", "started", "authorized", "closed",
                                                   "expired"}]
  BY OthersStay DEF ByService, ByCall, ServeStart, ServeAuth, Validated, ServeOp, TypeOK
<1>1. Own(k)'
  BY <1>0 DEF Own
<1>2. CASE ServeStart(k)
  <2>1. stage[k] = "starting" /\ sess' = [sess EXCEPT ![k] = "started"]
    BY <1>2 DEF ServeStart, Matched, Served
  <2> QED
    BY <1>0, <1>1, <2>1 DEF Granted
<1>3. CASE ServeAuth(k)
  <2>1. stage[k] = "authing" /\ net[k].at = "server" /\ sess' = sess
    BY <1>3 DEF ServeAuth, Served, Assertions, Asserted
  <2>2. Decided(k) /\ sess[k] = "started"
    BY <2>1 DEF Granted, Decided
  <2>3. net[k].sid = None \/ net[k].sid = k
    BY <2>2 DEF Decided
  <2>4. CASE net[k].sid = None
    <3>1. Answer(k, "needAuth")
      BY <1>3, <2>4 DEF ServeAuth
    <3>2. net'[k].at = "client" /\ net'[k].status = "needAuth" /\ net'[k].sid = None
      BY <2>4, <3>1, AnswerTypes
    <3> QED
      BY <1>0, <1>1, <2>1, <2>2, <2>4, <3>2 DEF Granted, Decided
  <2>5. CASE net[k].sid = k
    <3>1. /\ net[k].sid # None /\ sess[net[k].sid] = "started"
      BY <2>2, <2>5, ConstTypes
    <3>2. net' = [net EXCEPT ![k].kind = "validate", ![k].t = now]
      BY <1>3, <3>1 DEF ServeAuth
    <3>3. net'[k].at = "server" /\ net'[k].sid = k
      BY <2>1, <2>5, <3>2 DEF Pointers, Message
    <3> QED
      BY <1>0, <1>1, <2>1, <2>2, <3>1, <3>3 DEF Granted, Decided
  <2> QED
    BY <2>3, <2>4, <2>5
<1>4. CASE Validated(k)
  <2>1. stage[k] = "authing" /\ net[k].at = "server" /\ net[k].sid \in Call
    BY <1>4 DEF Validated, Served, Assertions, Asserted, Pointers
  <2>2. net[k].sid = k /\ sess[k] = "started"
    BY <2>1, ConstTypes DEF Granted, Decided
  <2>3. \/ Answer(k, "authFailed")
        \/ Answer(k, "ok") /\ sess' = [sess EXCEPT ![k] = "authorized"]
    BY <1>0, <1>4, <2>2 DEF Validated
  <2>4. net'[k].at = "client" /\ net'[k].sid = k
        /\ (net'[k].status = "authFailed" \/ (net'[k].status = "ok" /\ sess'[k] = "authorized"))
    BY <1>0, <2>2, <2>3, AnswerTypes
  <2> QED
    BY <1>0, <1>1, <2>1, <2>4, ConstTypes DEF Granted, Decided
<1>5. CASE ServeOp(k)
  <2>1. stage[k] = "operating" /\ sess' = sess
    BY <1>5 DEF ServeOp, Matched, Served
  <2> QED
    BY <1>0, <1>1, <2>1 DEF Granted, LoggedIn
<1> QED
  BY <1>2, <1>3, <1>4, <1>5 DEF ByService

\* Sessions that expire, while no call needs them.
LEMMA ExpireQuiet ==
    ASSUME TypeOK, Quiet, NEW k \in Call, Expire(k), faults'.hurt = {}
    PROVE  \A j \in Call : Own(j)' /\ Granted(j)'
<1> SUFFICES ASSUME NEW j \in Call PROVE Own(j)' /\ Granted(j)'
  OBVIOUS
<1>1. Own(j) /\ Granted(j) /\ stage[j] \in {"none", "served", "failed"}
  BY HurtStays DEF Quiet, ByCall
<1>2. /\ sess' = [sess EXCEPT ![k] = "expired"] /\ now' = now /\ receiver' = receiver
      /\ stage' = stage /\ sid' = sid /\ obj' = obj /\ chain' = chain /\ net' = net
  BY DEF Expire, login
<1>3. sess'[j] \in {sess[j], "expired"}
  BY <1>2 DEF TypeOK
<1> QED
  BY <1>1, <1>2, <1>3 DEF Own, Granted, LoggedIn

LEMMA QuietKept ==
    ASSUME TypeOK, Pointers, Chains, Assertions, Matched, Quiet, NEW k \in Call, ByCall(k)
    PROVE  Quiet'
<1> SUFFICES ASSUME faults'.hurt = {} PROVE \A j \in Call : Own(j)' /\ Granted(j)'
  BY DEF Quiet
<1>1. CASE Expire(k)
  BY <1>1, ExpireQuiet
<1>2. CASE ~Expire(k)
  <2>1. Own(k) /\ Granted(k) /\ ~Lose(k) /\ ~RootNotFetched(k)
    BY HurtStays DEF Quiet
  <2>2. Own(k)' /\ Granted(k)'
    BY <1>2, <2>1, PageQuiet, ServiceQuiet DEF ByCall
  <2> QED
    BY <1>2, <2>2, OthersQuiet
<1> QED
  BY <1>1, <1>2

\* Time only makes certificates expire.
LEMMA ServerQuiet ==
    ASSUME TypeOK, Pointers, Chains, Matched, Quiet, Tick \/ Restart
    PROVE  Matched' /\ Quiet'
<1>1. login' = login /\ sess' = sess /\ faults' = faults
  BY DEF Tick, Restart
<1>2. /\ stage' = stage /\ receiver' = receiver /\ sid' = sid /\ obj' = obj
      /\ chain' = chain /\ net' = net
  BY <1>1 DEF login
<1>3. now <= now' /\ now \in Nat /\ now' \in Nat
  BY ServerTypes DEF TypeOK
<1>4. \A k \in Call : chain[k] # None => chain[k].user.exp \in Nat
  BY DEF TypeOK, ChainType, CertType
<1>5. Matched'
  BY <1>2 DEF Matched, Served
<1>6. ASSUME NEW k \in Call, Own(k), Granted(k) PROVE Own(k)' /\ Granted(k)'
  <2>1. chain[k] # None /\ now >= chain[k].user.exp => now' >= chain[k].user.exp
    BY <1>3, <1>4
  <2> QED
    BY <1>1, <1>2, <1>6, <2>1 DEF Own, Granted, Decided, LoggedIn
<1> QED
  BY <1>1, <1>5, <1>6 DEF Quiet

-----------------------------------------------------------------------------
(* Theorems                                                                 *)

LEMMA InitInv == Init => IInv
<1> SUFFICES ASSUME Init PROVE IInv
  OBVIOUS
<1>1. TypeOK /\ Pointers
  BY InitTypes
<1>2. \A k \in Call : stage[k] = "none" /\ net[k].at = "none"
  BY DEF Init, NoMsg
<1>3. signer = None
  BY DEF Init
<1>4. Chains /\ Assertions /\ Matched
  BY <1>2, <1>3 DEF Chains, Assertions, Matched, Served, Refusal
<1>5. Quiet
  BY <1>2 DEF Init, Quiet, Own, Granted
<1> QED
  BY <1>1, <1>4, <1>5 DEF IInv

LEMMA InvKept == IInv /\ [Next]_vars => IInv'
<1> SUFFICES ASSUME IInv, [Next]_vars PROVE IInv'
  OBVIOUS
<1>1. TypeOK /\ Pointers /\ Chains /\ Assertions /\ Matched /\ Quiet
  BY DEF IInv
<1>2. CASE Tick \/ Restart
  BY <1>1, <1>2, ServerTypes, ServerKeeps, ServerQuiet DEF IInv
<1>3. ASSUME NEW k \in Call, ByCall(k) PROVE IInv'
  BY <1>1, <1>3, TypesKept, PointersKept, ChainsKept, AssertionsKept, MatchedKept, QuietKept DEF IInv
<1>4. CASE UNCHANGED vars
  <2>1. /\ now' = now /\ root' = root /\ prov' = prov /\ signer' = signer /\ stage' = stage
        /\ receiver' = receiver /\ sid' = sid /\ obj' = obj /\ chain' = chain
        /\ began' = began /\ net' = net /\ sess' = sess /\ faults' = faults
    BY <1>4 DEF vars, certs, login
  <2>2. TypeOK' /\ Pointers'
    BY <1>1, <2>1 DEF TypeOK, Pointers, Served
  <2>3. Chains'
    BY <1>1, <2>1 DEF Chains, Timely, Verified
  <2>4. Assertions'
    BY <1>1, <2>1 DEF Assertions, Served, Asserted, Refusal
  <2>5. Matched' /\ Quiet'
    BY <1>1, <2>1 DEF Matched, Served, Quiet, Own, Granted, Decided, LoggedIn
  <2> QED
    BY <2>2, <2>3, <2>4, <2>5 DEF IInv
<1> QED
  BY <1>2, <1>3, <1>4 DEF Next, ByCall

LEMMA Invariance == Spec => []IInv
BY InitInv, InvKept, PTL DEF Spec

\* Types of all variables, and order of certificates of the server.
THEOREM TypeCorrect == Spec => []TypeOK
<1>1. IInv => TypeOK
  BY DEF IInv
<1> QED
  BY <1>1, Invariance, PTL

\* With any periods, a service refuses an assertion only when MailerId server gave
\* it no root certificate, when a root of the chain has been replaced, or when login
\* took longer than the margin, with which signers are reused
\* (identity-management.ts, mailerid-authorizer.ts).
THEOREM PromptIsAcceptedHolds == Spec => []PromptIsAccepted
<1>1. IInv => PromptIsAccepted
  BY DEF IInv, Assertions, Refusal, PromptIsAccepted
<1> QED
  BY <1>1, Invariance, PTL

\* With any periods, a certified mail key is verified during all of its life, if the
\* root stays (verifyPubKey in mid-sigs-NaCl-Ed.ts).
THEOREM MailKeyVerifiesHolds == Spec => []MailKeyVerifies
<1>1. IInv => MailKeyVerifies
  <2> SUFFICES ASSUME IInv, signer # None, signer.prov.by = root.key,
                      MaySign(signer.user, now),
                      NEW t \in now..(now + KeyLife - 1)
               PROVE  VerifyPubKey(KeyCert, signer.user, signer.prov, root, t)
    BY DEF MailKeyVerifies
  <2>1. Verified(signer) /\ now \in Nat /\ KeyLife \in Nat
    BY PeriodsAssumption DEF IInv, Chains, TypeOK
  <2>2. /\ KeyCert.by = signer.user.key /\ KeyCert.iss = now
        /\ KeyCert.exp = now + KeyLife
    BY DEF KeyCert, Cert
  <2>3. VerifyChain(signer.user, signer.prov, root, KeyCert.iss)
    BY <2>1, <2>2 DEF VerifyChain, Verified, ValidAt, MaySign
  <2>4. VerifyKeyCert(KeyCert, signer.user.key, t)
    BY <2>1, <2>2 DEF VerifyKeyCert, ValidAt
  <2> QED
    BY <2>3, <2>4 DEF VerifyPubKey
<1> QED
  BY <1>1, Invariance, PTL

\* With any periods, and however many calls share a receiver, when nothing runs and
\* no call was hurt, a receiver with a session id has an authorized session, or one
\* that only time has ended, or its login was too slow for its certificate
\* (openInbox in mail-getting.ts, user-with-mid-session.ts, sessions/mid-auth.ts).
THEOREM IdleIsLoggedInHolds == Spec => []IdleIsLoggedIn
<1>1. IInv => IdleIsLoggedIn
  <2> SUFFICES ASSUME IInv, NEW k \in Call, InProgress = {}, sid[k] # None, faults.hurt = {}
               PROVE  \/ sess[sid[k]] \in {"authorized", "expired"}
                      \/ chain[k] # None /\ now >= chain[k].user.exp
    BY DEF IdleIsLoggedIn
  <2>1. Own(k) /\ Granted(k) /\ stage[k] \in Stage
    BY DEF IInv, Quiet, TypeOK
  <2>2. stage[k] \in {"open", "served", "failed"}
    BY <2>1 DEF InProgress, Running, Waiting, Stage, Own
  <2>3. sid[k] = k
    BY <2>1 DEF Own
  <2> QED
    BY <2>1, <2>2, <2>3 DEF Granted, LoggedIn
<1> QED
  BY <1>1, Invariance, PTL
=============================================================================
