------------------------ MODULE ProvisioningProofs -------------------------
(***************************************************************************)
(* Proofs about Provisioning, for any number of calls, of which any number *)
(* may run at once, and for any users.                                     *)
(***************************************************************************)
EXTENDS Provisioning, TLAPS

\* A message of an attempt is of a step, in which this attempt waits.
Kinds ==
    \A a \in Attempt :
        /\ stage[a] = "starting" => net[a].kind = "start"
        /\ stage[a] = "completing" => net[a].kind = "complete"
        /\ stage[a] = "certifying" => net[a].kind = "certify"

\* Server has good keys, and other ones come only from wrong passphrases.
GoodKeys ==
    /\ \A s \in Attempt : sess[s].open => sess[s].enc \in Encryptor /\ sess[s].enc.good
    /\ \A a \in Attempt :
        /\ Served(a, "complete") /\ net[a].enc.good => a \in right
        /\ stage[a] = "completing" /\ net[a].at = "client" /\ net[a].status = "ok"
                => a \in right

\* An attempt, that has a session authorized, and is going to close it.
Holds(a) ==
    \/ stage[a] = "completing" /\ net[a].at = "client" /\ net[a].status = "ok"
    \/ stage[a] = "cleared"
    \/ stage[a] = "certifying" /\ net[a].at = "server" /\ net[a].sid = prov.sid

\* While nothing is hurt, attempts run one at a time, and fields of the provisioner
\* are what the running one has put there.
OneRuns == \A a, b \in InProgress : a = b
Waits(a) == stage[a] \notin Waiting => net[a].at = "none"
Fields(a) ==
    /\ stage[a] = "completing" =>
        /\ prov.verif = prov.enc
        /\ net[a].at = "server" => net[a].sid = prov.sid
        /\ net[a].at = "server" \/ net[a].status = "ok" => net[a].enc = prov.enc
    /\ stage[a] \in {"completing", "cleared"} => prov.enc \in Encryptor /\ ~prov.gone
IsHeld(s) == s = prov.sid /\ \E a \in Attempt : Holds(a)
Quiet ==
    hurt = {} =>
        /\ OneRuns
        /\ \A a \in Attempt : Waits(a) /\ Fields(a)
        /\ \A s \in Attempt : Stuck(s) => IsHeld(s)

\* The inductive invariant.
IInv ==
    /\ TypeOK
    /\ SignerIsWhole
    /\ OnlyRightPass
    /\ Kinds
    /\ GoodKeys
    /\ Quiet

-----------------------------------------------------------------------------
(* Types                                                                    *)

LEMMA InitTypes == Init => TypeOK
BY DEF Init, TypeOK, Stage, Message, NoMsg

\* A request is a message at a server, whatever was there of this attempt.
LEMMA RequestTypes ==
    ASSUME TypeOK, NEW a \in Attempt, NEW kind \in {"start", "complete", "certify"},
           NEW enc \in Encryptor \cup {None}, Request(a, kind, enc)
    PROVE  /\ net' \in [Attempt -> Message]
           /\ \A b \in Attempt : b # a => net'[b] = net[b]
           /\ net'[a].at = "server" /\ net'[a].kind = kind
           /\ net'[a].sid = prov.sid /\ net'[a].enc = enc
BY DEF TypeOK, Request, Message, NoMsg

\* Receipt of a reply removes it.
LEMMA ReceiptTypes ==
    ASSUME TypeOK, NEW a \in Attempt, NEW st, Received(a, st)
    PROVE  /\ net' \in [Attempt -> Message]
           /\ \A b \in Attempt : b # a => net'[b] = net[b]
           /\ net'[a].at = "none"
           /\ net[a].at = "client" /\ stage[a] = st
BY DEF TypeOK, Received, Message, NoMsg

\* An answer comes to an attempt, that waits for it, and to nobody else.
LEMMA AnswerTypes ==
    ASSUME TypeOK, NEW a \in Attempt, NEW status \in {"ok", "unknown", "duplicate",
                "noSession", "authFailed", "cryptoVerifFail"},
           NEW s \in Attempt \cup {None}, NEW k \in Attempt \cup {None},
           NEW enc \in Encryptor \cup {None}, Answer(a, status, s, k, enc)
    PROVE  /\ net' \in [Attempt -> Message]
           /\ \A b \in Attempt : b # a => net'[b] = net[b]
           /\ net'[a].at = IF stage[a] \in Waiting THEN "client" ELSE "none"
           /\ stage[a] \in Waiting => /\ net'[a].kind = net[a].kind
                                     /\ net'[a].status = status /\ net'[a].enc = enc
           /\ \A b \in Attempt : net'[b].at = "client" => stage[b] \in Waiting
<1> DEFINE m == [net[a] EXCEPT !.at = "client", !.status = status,
                               !.sid = s, !.key = k, !.enc = enc]
<1>2. net[a] \in Message
  BY DEF TypeOK
<1>3. m \in Message /\ m.at = "client" /\ m.kind = net[a].kind
      /\ m.status = status /\ m.enc = enc
  BY <1>2 DEF Message
<1>4. stage[a] \in Waiting => net' = [net EXCEPT ![a] = m]
  BY DEF Answer
<1> HIDE DEF m
<1>1. CASE stage[a] \in Waiting
  BY <1>1, <1>3, <1>4 DEF TypeOK
<1>5. CASE stage[a] \notin Waiting
  BY <1>5 DEF TypeOK, Answer, Message, NoMsg
<1> QED
  BY <1>1, <1>5

\* A session id in a message, and in the provisioner, may be missing.
LEMMA SessionIds ==
    ASSUME TypeOK, NEW a \in Attempt
    PROVE  /\ net[a].sid \in Attempt \cup {None} /\ net[a].enc \in Encryptor \cup {None}
           /\ net[a].key \in Attempt \cup {None} /\ prov.sid \in Attempt \cup {None}
           /\ sess[a] \in [open: BOOLEAN, auth: Attempt \cup {None},
                           key: Attempt \cup {None}, enc: Encryptor \cup {None}]
BY DEF TypeOK, Message

Session == [open: BOOLEAN, auth: Attempt \cup {None}, key: Attempt \cup {None},
            enc: Encryptor \cup {None}]

LEMMA ClosedTypes ==
    ASSUME TypeOK, NEW s \in Attempt, Closed(s)
    PROVE  /\ sess' \in [Attempt -> Session]
           /\ ~sess'[s].open /\ \A r \in Attempt : r # s => sess'[r] = sess[r]
<1> DEFINE m == [open |-> FALSE, auth |-> None, key |-> None, enc |-> None]
<1>1. m \in Session /\ ~m.open
  BY DEF Session
<1>2. sess \in [Attempt -> Session] /\ sess' = [sess EXCEPT ![s] = m]
  BY DEF TypeOK, Closed, Session
<1> HIDE DEF m
<1> QED
  BY <1>1, <1>2

LEMMA TypesKept == TypeOK /\ [Next]_vars => TypeOK'
<1> SUFFICES ASSUME TypeOK, [Next]_vars PROVE TypeOK'
  OBVIOUS
<1> USE NoneAssumption
<1>1. ASSUME NEW a \in Attempt, Provision(a) PROVE TypeOK'
  BY <1>1 DEF TypeOK, Stage, Waiting, Message, NoMsg, page, Provision, To
<1>2. ASSUME NEW a \in Attempt, CancelEntry(a) PROVE TypeOK'
  BY <1>2 DEF TypeOK, Stage, Waiting, Message, NoMsg, page, CancelEntry, To
<1>3. ASSUME NEW a \in Attempt, NEW u \in User, NEW ok \in BOOLEAN, Enter(a, u, ok) PROVE TypeOK'
  <2>1. stage' \in [Attempt -> Stage] /\ stage'[a] \notin Waiting
    BY <1>3 DEF TypeOK, Stage, Enter, To, Waiting
  <2>2. \A b \in Attempt : b # a => stage'[b] = stage[b]
    BY <1>3 DEF TypeOK, Enter, To
  <2>3. stage[a] = "asked" /\ owner' \in User \cup {None} /\ right' \subseteq Attempt
    BY <1>3 DEF TypeOK, Enter
  <2>4. hurt' \subseteq Attempt
    BY <1>3 DEF TypeOK, Enter, InProgress
  <2>5. net[a].at # "client"
    BY <2>3 DEF TypeOK, Waiting
  <2> QED
    BY <1>3, <2>1, <2>2, <2>3, <2>4, <2>5 DEF TypeOK, Enter
<1>4. ASSUME NEW a \in Attempt, StartSession(a) PROVE TypeOK'
  <2>1. Request(a, "start", None)
    BY <1>4 DEF StartSession
  <2> QED
    BY <1>4, <2>1, RequestTypes DEF TypeOK, StartSession, To, Stage, Waiting, page
<1>5. ASSUME NEW a \in Attempt, StartReply(a) PROVE TypeOK'
  <2>1. Received(a, "starting")
    BY <1>5 DEF StartReply
  <2>2. prov' \in [sid: Attempt \cup {None}, chal: Attempt \cup {None},
                 enc: Encryptor \cup {None}, gone: BOOLEAN,
                 verif: Encryptor \cup {None}, cert: Attempt \cup {None}]
    BY <1>5, SessionIds DEF TypeOK, StartReply
  <2>3. stage' \in [Attempt -> Stage] /\ \A b \in Attempt : b # a => stage'[b] = stage[b]
    BY <1>5 DEF TypeOK, StartReply, To, Stage
  <2> QED
    BY <1>5, <2>1, <2>2, <2>3, ReceiptTypes DEF TypeOK, StartReply, page
<1>6. ASSUME NEW a \in Attempt, OpenSessionKey(a) PROVE TypeOK'
  <2>1. CASE prov.chal = None
    BY <1>6, <2>1 DEF TypeOK, OpenSessionKey, To, Stage, Waiting, page
  <2>2. CASE prov.chal # None
    <3> DEFINE e == [key |-> prov.chal, good |-> a \in right]
    <3>1. e \in Encryptor
      BY <2>2 DEF TypeOK, Encryptor
    <3>2. /\ Request(a, "complete", e) /\ To(a, "completing")
          /\ prov' = [prov EXCEPT !.enc = e, !.gone = FALSE, !.verif = e, !.chal = None]
      BY <1>6, <2>2 DEF OpenSessionKey
    <3> HIDE DEF e
    <3>3. prov' \in [sid: Attempt \cup {None}, chal: Attempt \cup {None},
                   enc: Encryptor \cup {None}, gone: BOOLEAN,
                   verif: Encryptor \cup {None}, cert: Attempt \cup {None}]
      BY <3>1, <3>2 DEF TypeOK
    <3> QED
      BY <1>6, <3>1, <3>2, <3>3, RequestTypes
      DEF TypeOK, OpenSessionKey, To, Stage, Waiting, page
  <2> QED
    BY <2>1, <2>2
<1>7. ASSUME NEW a \in Attempt, CompleteReply(a) PROVE TypeOK'
  BY <1>7 DEF TypeOK, Stage, Waiting, Message, NoMsg, page, CompleteReply, To, Received
<1>8. ASSUME NEW a \in Attempt, AskCertificates(a) PROVE TypeOK'
  <2>1. CASE prov.enc = None \/ prov.gone
    BY <1>8, <2>1 DEF TypeOK, AskCertificates, To, Stage, Waiting, page
  <2>2. CASE ~(prov.enc = None \/ prov.gone)
    <3>1. Request(a, "certify", prov.enc) /\ prov.enc \in Encryptor \cup {None}
      BY <1>8, <2>2 DEF TypeOK, AskCertificates
    <3> QED
      BY <1>8, <2>2, <3>1, RequestTypes DEF TypeOK, AskCertificates, To, Stage, Waiting, page
  <2> QED
    BY <2>1, <2>2
<1>9. ASSUME NEW a \in Attempt, CertificatesReply(a) PROVE TypeOK'
  BY <1>9 DEF TypeOK, Stage, Waiting, Message, NoMsg, page, CertificatesReply, To, Received
<1>10. ASSUME NEW a \in Attempt, EndSession(a) PROVE TypeOK'
  BY <1>10 DEF TypeOK, Stage, Waiting, Message, NoMsg, page, EndSession, To, MakesPair
<1>11. ASSUME NEW a \in Attempt, ServeStart(a) PROVE TypeOK'
  <2> DEFINE s == IF Live(net[a].sid) THEN net[a].sid ELSE a
             m == [open |-> TRUE, auth |-> None, key |-> a,
                   enc |-> [key |-> a, good |-> TRUE]]
  <2>1. s \in Attempt
    BY SessionIds DEF Live
  <2>2. m \in Session
    BY DEF Encryptor, Session
  <2>3. sess' = sess \/ sess' = [sess EXCEPT ![s] = m]
    BY <1>11 DEF ServeStart
  <2>4. \/ Answer(a, "ok", s, a, None) \/ Answer(a, "unknown", None, None, None)
        \/ Answer(a, "duplicate", None, None, None)
    BY <1>11 DEF ServeStart, Refuse
  <2> HIDE DEF s, m
  <2>5. sess' \in [Attempt -> Session]
    BY <2>1, <2>2, <2>3 DEF TypeOK, Session
  <2>6. net' \in [Attempt -> Message]
        /\ \A b \in Attempt : net'[b].at = "client" => stage[b] \in Waiting
    BY <2>1, <2>4, AnswerTypes
  <2> QED
    BY <1>11, <2>5, <2>6 DEF TypeOK, Session, ServeStart, page
<1>12. ASSUME NEW a \in Attempt, ServeComplete(a) PROVE TypeOK'
  <2> DEFINE s == net[a].sid
  <2>1. \/ sess' = sess
        \/ Live(s) /\ Closed(s)
        \/ Live(s) /\ sess' = [sess EXCEPT ![s].auth = a, ![s].key = None]
    BY <1>12 DEF ServeComplete
  <2>2. \/ Answer(a, "noSession", None, None, None) \/ Answer(a, "duplicate", None, None, None)
        \/ Answer(a, "authFailed", None, None, None)
        \/ Live(s) /\ Answer(a, "ok", None, None, sess[s].enc)
    BY <1>12 DEF ServeComplete, Refuse
  <2>3. Live(s) => s \in Attempt /\ sess[s].enc \in Encryptor \cup {None}
    BY SessionIds DEF Live
  <2> HIDE DEF s
  <2>4. sess' \in [Attempt -> Session]
    BY <2>1, <2>3, ClosedTypes DEF TypeOK, Session
  <2>5. net' \in [Attempt -> Message]
        /\ \A b \in Attempt : net'[b].at = "client" => stage[b] \in Waiting
    BY <2>2, <2>3, AnswerTypes
  <2> QED
    BY <1>12, <2>4, <2>5 DEF TypeOK, Session, ServeComplete, page
<1>13. ASSUME NEW a \in Attempt, ServeCertify(a) PROVE TypeOK'
  <2> DEFINE s == net[a].sid
  <2>1. \/ sess' = sess
        \/ Stuck(s) /\ Closed(s)
    BY <1>13 DEF ServeCertify
  <2>2. \/ Answer(a, "noSession", None, None, None)
        \/ Answer(a, "cryptoVerifFail", None, None, None)
        \/ Stuck(s) /\ Answer(a, "ok", None, a, sess[s].enc)
    BY <1>13 DEF ServeCertify, Refuse
  <2>3. Stuck(s) => s \in Attempt /\ sess[s].enc \in Encryptor \cup {None}
    BY SessionIds DEF Stuck, Live
  <2> HIDE DEF s
  <2>4. sess' \in [Attempt -> Session]
    BY <2>1, <2>3, ClosedTypes DEF TypeOK, Session
  <2>5. net' \in [Attempt -> Message]
        /\ \A b \in Attempt : net'[b].at = "client" => stage[b] \in Waiting
    BY <2>2, <2>3, AnswerTypes
  <2> QED
    BY <1>13, <2>4, <2>5 DEF TypeOK, Session, ServeCertify, page
<1>14. ASSUME NEW a \in Attempt, Expire(a) PROVE TypeOK'
  <2>1. sess' \in [Attempt -> [open: BOOLEAN, auth: Attempt \cup {None},
                key: Attempt \cup {None}, enc: Encryptor \cup {None}]]
    BY <1>14 DEF TypeOK, Expire, Closed
  <2>2. hurt' \subseteq Attempt
    BY <1>14 DEF TypeOK, Expire, InProgress
  <2> QED
    BY <1>14, <2>1, <2>2 DEF TypeOK, Expire, page
<1>15. ASSUME NEW a \in Attempt, NEW later \in BOOLEAN, Lose(a, later) PROVE TypeOK'
  BY <1>15 DEF TypeOK, Stage, Waiting, Message, NoMsg, page, Lose, To
<1>16. CASE UNCHANGED vars
  BY <1>16 DEF TypeOK, vars, page
<1> QED
  BY <1>1, <1>2, <1>3, <1>4, <1>5, <1>6, <1>7, <1>8, <1>9, <1>10, <1>11, <1>12, <1>13, <1>14, <1>15, <1>16 DEF Next, ByUser, ByClient, ByServer, ByNetwork

-----------------------------------------------------------------------------
(* Steps of stages and messages                                             *)

LEMMA NextStage ==
    ASSUME TypeOK, NEW a \in Attempt, NEW st, To(a, st)
    PROVE  stage'[a] = st /\ \A b \in Attempt : b # a => stage'[b] = stage[b]
BY DEF TypeOK, To

\* What each step of a client does with its stage and message.
LEMMA ClientSteps ==
    ASSUME TypeOK, NEW a \in Attempt
    PROVE  /\ StartSession(a) =>
                /\ stage'[a] = "starting" /\ net'[a].kind = "start" /\ net'[a].at = "server"
           /\ StartReply(a) => stage'[a] \in {"deriving", "failed"} /\ net'[a].at = "none"
           /\ OpenSessionKey(a) =>
                \/ stage'[a] = "failed" /\ net' = net /\ prov' = prov
                \/ /\ stage'[a] = "completing" /\ net'[a].kind = "complete"
                   /\ net'[a].at = "server" /\ net'[a].sid = prov.sid
                   /\ prov'.enc \in Encryptor /\ net'[a].enc = prov'.enc
                   /\ prov'.verif = prov'.enc /\ ~prov'.gone /\ prov'.sid = prov.sid
                   /\ prov'.enc.good <=> a \in right
           /\ AskCertificates(a) =>
                \/ stage'[a] = "failed" /\ net' = net /\ (prov.enc = None \/ prov.gone)
                \/ /\ stage'[a] = "certifying" /\ net'[a].kind = "certify"
                   /\ net'[a].at = "server" /\ net'[a].sid = prov.sid
<1> USE NoneAssumption
<1>1. ASSUME StartSession(a)
      PROVE  /\ stage'[a] = "starting" /\ net'[a].kind = "start" /\ net'[a].at = "server"
  BY <1>1, NextStage, RequestTypes DEF StartSession
<1>2. ASSUME StartReply(a)
      PROVE  stage'[a] \in {"deriving", "failed"} /\ net'[a].at = "none"
  BY <1>2, NextStage, ReceiptTypes DEF StartReply
<1>3. ASSUME OpenSessionKey(a), prov.chal = None
      PROVE  stage'[a] = "failed" /\ net' = net /\ prov' = prov
  BY <1>3, NextStage DEF OpenSessionKey
<1>4. ASSUME OpenSessionKey(a), prov.chal # None
      PROVE  /\ stage'[a] = "completing" /\ net'[a].kind = "complete"
             /\ net'[a].at = "server" /\ net'[a].sid = prov.sid
             /\ prov'.enc \in Encryptor /\ net'[a].enc = prov'.enc
             /\ prov'.verif = prov'.enc /\ ~prov'.gone /\ prov'.sid = prov.sid
             /\ prov'.enc.good <=> a \in right
  <2> DEFINE e == [key |-> prov.chal, good |-> a \in right]
  <2>1. e \in Encryptor
    BY <1>4 DEF TypeOK, Encryptor
  <2>2. e.good <=> a \in right
    BY Zenon
  <2>3. /\ Request(a, "complete", e) /\ To(a, "completing")
        /\ prov' = [prov EXCEPT !.enc = e, !.gone = FALSE, !.verif = e, !.chal = None]
    BY <1>4 DEF OpenSessionKey
  <2> HIDE DEF e
  <2>4. prov'.enc = e /\ prov'.verif = e /\ ~prov'.gone /\ prov'.sid = prov.sid
    BY <2>3 DEF TypeOK
  <2> QED
    BY <2>1, <2>2, <2>3, <2>4, NextStage, RequestTypes
<1>5. ASSUME AskCertificates(a), prov.enc = None \/ prov.gone
      PROVE  stage'[a] = "failed" /\ net' = net
  BY <1>5, NextStage DEF AskCertificates
<1>6. ASSUME AskCertificates(a), ~(prov.enc = None \/ prov.gone)
      PROVE  /\ stage'[a] = "certifying" /\ net'[a].kind = "certify"
             /\ net'[a].at = "server" /\ net'[a].sid = prov.sid
  <2>1. Request(a, "certify", prov.enc) /\ prov.enc \in Encryptor \cup {None}
    BY <1>6 DEF TypeOK, AskCertificates
  <2> QED
    BY <1>6, <2>1, NextStage, RequestTypes DEF AskCertificates
<1> QED
  BY <1>1, <1>2, <1>3, <1>4, <1>5, <1>6

\* Steps of one attempt leave stages and messages of others.
LEMMA OthersStay ==
    ASSUME TypeOK, NEW a \in Attempt, NEW b \in Attempt, a # b,
           \/ ByUser(a) \/ ByClient(a) \/ ByServer(a) \/ ByNetwork(a)
    PROVE  stage'[b] = stage[b] /\ net'[b] = net[b]
<1>1. ASSUME Provision(a) PROVE stage'[b] = stage[b] /\ net'[b] = net[b]
  BY <1>1 DEF TypeOK, Provision, To
<1>2. ASSUME CancelEntry(a) PROVE stage'[b] = stage[b] /\ net'[b] = net[b]
  BY <1>2 DEF TypeOK, CancelEntry, To
<1>3. ASSUME NEW u \in User, NEW ok \in BOOLEAN, Enter(a, u, ok) PROVE stage'[b] = stage[b] /\ net'[b] = net[b]
  BY <1>3 DEF TypeOK, Enter, To
<1>4. ASSUME StartSession(a) PROVE stage'[b] = stage[b] /\ net'[b] = net[b]
  BY <1>4 DEF TypeOK, StartSession, To, Request
<1>5. ASSUME StartReply(a) PROVE stage'[b] = stage[b] /\ net'[b] = net[b]
  BY <1>5 DEF TypeOK, StartReply, To, Received
<1>6. ASSUME OpenSessionKey(a) PROVE stage'[b] = stage[b] /\ net'[b] = net[b]
  BY <1>6 DEF TypeOK, OpenSessionKey, To, Request
<1>7. ASSUME CompleteReply(a) PROVE stage'[b] = stage[b] /\ net'[b] = net[b]
  BY <1>7 DEF TypeOK, CompleteReply, To, Received
<1>8. ASSUME AskCertificates(a) PROVE stage'[b] = stage[b] /\ net'[b] = net[b]
  BY <1>8 DEF TypeOK, AskCertificates, To, Request
<1>9. ASSUME CertificatesReply(a) PROVE stage'[b] = stage[b] /\ net'[b] = net[b]
  BY <1>9 DEF TypeOK, CertificatesReply, To, Received
<1>10. ASSUME EndSession(a) PROVE stage'[b] = stage[b] /\ net'[b] = net[b]
  BY <1>10 DEF TypeOK, EndSession, To
<1>11. ASSUME ServeStart(a) PROVE stage'[b] = stage[b] /\ net'[b] = net[b]
  BY <1>11 DEF TypeOK, ServeStart, Refuse, Answer
<1>12. ASSUME ServeComplete(a) PROVE stage'[b] = stage[b] /\ net'[b] = net[b]
  BY <1>12 DEF TypeOK, ServeComplete, Refuse, Answer
<1>13. ASSUME ServeCertify(a) PROVE stage'[b] = stage[b] /\ net'[b] = net[b]
  BY <1>13 DEF TypeOK, ServeCertify, Refuse, Answer
<1>14. ASSUME Expire(a) PROVE stage'[b] = stage[b] /\ net'[b] = net[b]
  BY <1>14 DEF TypeOK, Expire
<1>15. ASSUME NEW later \in BOOLEAN, Lose(a, later) PROVE stage'[b] = stage[b] /\ net'[b] = net[b]
  BY <1>15 DEF TypeOK, Lose, To
<1> QED
  BY <1>1, <1>2, <1>3, <1>4, <1>5, <1>6, <1>7, <1>8, <1>9, <1>10, <1>11, <1>12, <1>13, <1>14, <1>15 DEF ByUser, ByClient, ByServer, ByNetwork

\* What each step of the server does with a message, and with its session.
Answered(a) ==
    /\ stage' = stage /\ prov' = prov /\ right' = right /\ hurt' = hurt /\ signer' = signer
    /\ net'[a].at = IF stage[a] \in Waiting THEN "client" ELSE "none"
    /\ stage[a] \in Waiting => net'[a].kind = net[a].kind

LEMMA ServeStartStep ==
    ASSUME TypeOK, NEW a \in Attempt, ServeStart(a)
    PROVE  /\ Served(a, "start") /\ Answered(a)
           /\ \A s \in Attempt :
                \/ sess'[s] = sess[s]
                \/ sess'[s].auth = None /\ sess'[s].enc \in Encryptor /\ sess'[s].enc.good
<1> USE NoneAssumption
<1> DEFINE s == IF Live(net[a].sid) THEN net[a].sid ELSE a
           e == [key |-> a, good |-> TRUE]
           m == [open |-> TRUE, auth |-> None, key |-> a, enc |-> e]
<1>1. s \in Attempt
  BY SessionIds DEF Live
<1>2. e \in Encryptor /\ e.good
  BY DEF Encryptor
<1>3. \/ sess' = sess
      \/ sess' = [sess EXCEPT ![s] = m]
  BY DEF ServeStart
<1>4. \/ Answer(a, "ok", s, a, None)
      \/ Answer(a, "unknown", None, None, None)
      \/ Answer(a, "duplicate", None, None, None)
  BY DEF ServeStart, Refuse
<1>5. m.auth = None /\ m.enc = e
  OBVIOUS
<1>6. Served(a, "start") /\ UNCHANGED <<stage, page, prov, signer, hurt>>
  BY DEF ServeStart
<1> HIDE DEF s, m, e
<1>7. Answered(a)
  BY <1>1, <1>4, <1>6, AnswerTypes DEF Answered, page
<1> QED
  BY <1>1, <1>2, <1>3, <1>5, <1>6, <1>7 DEF TypeOK

LEMMA ServeCompleteStep ==
    ASSUME TypeOK, NEW a \in Attempt, ServeComplete(a)
    PROVE  /\ Served(a, "complete") /\ Answered(a)
           /\ \/ /\ stage[a] \in Waiting => net'[a].status # "ok"
                 /\ \A r \in Attempt : sess'[r] = sess[r] \/ ~sess'[r].open
              \/ /\ net[a].sid \in Attempt /\ sess[net[a].sid].open
                 /\ net[a].enc = sess[net[a].sid].enc
                 /\ stage[a] \in Waiting => /\ net'[a].status = "ok"
                                           /\ net'[a].enc = net[a].enc
                 /\ sess'[net[a].sid].enc = net[a].enc
                 /\ sess'[net[a].sid].auth = a
                 /\ \A r \in Attempt : r # net[a].sid => sess'[r] = sess[r]
<1> USE NoneAssumption
<1> DEFINE s == net[a].sid
           Refused == \/ Answer(a, "noSession", None, None, None)
                      \/ Answer(a, "duplicate", None, None, None)
                      \/ Answer(a, "authFailed", None, None, None)
           Accepted == /\ Live(s) /\ net[a].enc = sess[s].enc
                       /\ sess' = [sess EXCEPT ![s].auth = a, ![s].key = None]
                       /\ Answer(a, "ok", None, None, sess[s].enc)
<1>1. Served(a, "complete") /\ UNCHANGED <<stage, page, prov, signer, hurt>>
  BY DEF ServeComplete
<1>2. \/ Refused /\ sess' = sess
      \/ Refused /\ Live(s) /\ Closed(s)
      \/ Accepted
  BY DEF ServeComplete, Refuse, Opens
<1>3. Live(s) => s \in Attempt /\ sess[s].open /\ sess[s].enc \in Encryptor \cup {None}
  BY SessionIds DEF Live
<1> HIDE DEF s
<1>4. CASE Refused
  <2>1. Answered(a) /\ (stage[a] \in Waiting => net'[a].status # "ok")
    BY <1>1, <1>4, AnswerTypes DEF Answered, page
  <2> HIDE DEF Refused
  <2>2. (\A r \in Attempt : sess'[r] = sess[r] \/ ~sess'[r].open) \/ Accepted
    BY <1>2, <1>3, ClosedTypes
  <2>3. CASE Accepted
    <3>1. stage[a] \notin Waiting
      BY <1>3, <2>1, <2>3, AnswerTypes
    <3>2. sess'[s].auth = a /\ sess'[s].enc = sess[s].enc
          /\ \A r \in Attempt : r # s => sess'[r] = sess[r]
      BY <1>3, <2>3 DEF TypeOK
    <3> QED
      BY <1>1, <1>3, <2>1, <2>3, <3>1, <3>2 DEF s
  <2> QED
    BY <1>1, <2>1, <2>2, <2>3
<1>5. CASE Accepted
  <2>1. Answered(a) /\ (stage[a] \in Waiting => /\ net'[a].status = "ok"
                                              /\ net'[a].enc = sess[s].enc)
    BY <1>1, <1>3, <1>5, AnswerTypes DEF Answered, page
  <2>2. sess'[s].auth = a /\ sess'[s].enc = sess[s].enc
        /\ \A r \in Attempt : r # s => sess'[r] = sess[r]
    BY <1>3, <1>5 DEF TypeOK
  <2> QED
    BY <1>1, <1>3, <1>5, <2>1, <2>2 DEF s
<1> QED
  BY <1>2, <1>4, <1>5

LEMMA ServeCertifyStep ==
    ASSUME TypeOK, NEW a \in Attempt, ServeCertify(a)
    PROVE  /\ Served(a, "certify") /\ Answered(a)
           /\ \A r \in Attempt : sess'[r] = sess[r] \/ ~sess'[r].open
           /\ net[a].sid \in Attempt =>
                ~(sess'[net[a].sid].open /\ sess'[net[a].sid].auth # None)
<1> USE NoneAssumption
<1> DEFINE s == net[a].sid
<1>1. Served(a, "certify") /\ UNCHANGED <<stage, page, prov, signer, hurt>>
  BY DEF ServeCertify
<1>2. \/ ~Stuck(s) /\ sess' = sess
      \/ Stuck(s) /\ Closed(s)
  BY DEF ServeCertify
<1>3. \/ Answer(a, "noSession", None, None, None)
      \/ Answer(a, "cryptoVerifFail", None, None, None)
      \/ Stuck(s) /\ Answer(a, "ok", None, a, sess[s].enc)
  BY DEF ServeCertify, Refuse
<1>4. Stuck(s) => s \in Attempt /\ sess[s].enc \in Encryptor \cup {None}
  BY SessionIds DEF Stuck, Live
<1> HIDE DEF s
<1>5. Answered(a)
  BY <1>1, <1>3, <1>4, AnswerTypes DEF Answered, page
<1>6. \A r \in Attempt : sess'[r] = sess[r] \/ ~sess'[r].open
  BY <1>2, <1>4, ClosedTypes
<1>7. s \in Attempt => ~(sess'[s].open /\ sess'[s].auth # None)
  BY <1>2, <1>4, ClosedTypes DEF Stuck, Live
<1> QED
  BY <1>1, <1>5, <1>6, <1>7 DEF s

LEMMA CompleteReplyStep ==
    ASSUME TypeOK, NEW a \in Attempt, CompleteReply(a)
    PROVE  /\ stage[a] = "completing" /\ net[a].at = "client" /\ net'[a].at = "none"
           /\ stage'[a] \in {"hung", "cleared", "failed"}
           /\ stage'[a] = "cleared" =>
                /\ net[a].status = "ok" /\ prov'.sid = prov.sid
                /\ prov'.enc = prov.enc /\ prov'.gone = prov.gone
           /\ net[a].status = "ok" /\ prov.verif = net[a].enc /\ prov.verif # None
                => stage'[a] = "cleared"
           /\ sess' = sess /\ right' = right /\ hurt' = hurt /\ signer' = signer
<1>1. Received(a, "completing") /\ UNCHANGED <<page, signer, sess, hurt>>
  BY DEF CompleteReply
<1>2. CASE net[a].status = "ok"
  <2>1. /\ To(a, IF prov.verif = None THEN "hung"
                 ELSE IF prov.verif = net[a].enc THEN "cleared" ELSE "failed")
        /\ prov' = IF prov.verif = net[a].enc
                   THEN [prov EXCEPT !.verif = None] ELSE prov
    BY <1>2 DEF CompleteReply
  <2> QED
    BY <1>1, <1>2, <2>1, NextStage, ReceiptTypes DEF page, TypeOK
<1>3. CASE net[a].status # "ok"
  <2>1. To(a, "failed")
    BY <1>3 DEF CompleteReply
  <2> QED
    BY <1>1, <1>3, <2>1, NextStage, ReceiptTypes DEF page
<1> QED
  BY <1>2, <1>3

-----------------------------------------------------------------------------
(* Kinds of messages                                                        *)

LEMMA KindsKept == TypeOK /\ Kinds /\ [Next]_vars => Kinds'
<1> SUFFICES ASSUME TypeOK, Kinds, [Next]_vars PROVE Kinds'
  OBVIOUS
<1> DEFINE Kind(a) == /\ stage[a] = "starting" => net[a].kind = "start"
                      /\ stage[a] = "completing" => net[a].kind = "complete"
                      /\ stage[a] = "certifying" => net[a].kind = "certify"
<1>1. ASSUME NEW a \in Attempt, ByUser(a) \/ ByClient(a) \/ ByServer(a) \/ ByNetwork(a)
      PROVE  Kind(a)'
  <2>1. CASE ByUser(a)
    <3>1. stage'[a] = stage[a] \/ stage'[a] \notin Waiting
      BY <2>1, NextStage DEF ByUser, Provision, CancelEntry, Enter, Waiting
    <3>2. net' = net
      BY <2>1 DEF ByUser, Provision, CancelEntry, Enter
    <3> QED
      BY <3>1, <3>2 DEF Kinds, Waiting
  <2>2. CASE ByClient(a)
    <3>1. CASE StartSession(a) \/ StartReply(a) \/ OpenSessionKey(a) \/ AskCertificates(a)
      BY <3>1, ClientSteps
    <3>2. CASE CompleteReply(a)
      BY <3>2, CompleteReplyStep
    <3>3. CASE CertificatesReply(a) \/ EndSession(a)
      BY <3>3, NextStage DEF CertificatesReply, EndSession
    <3> QED
      BY <2>2, <3>1, <3>2, <3>3 DEF ByClient
  <2>3. CASE ByServer(a)
    <3>1. Answered(a)
      BY <2>3, ServeStartStep, ServeCompleteStep, ServeCertifyStep DEF ByServer
    <3> QED
      BY <3>1 DEF Kinds, Answered, Waiting
  <2>4. CASE ByNetwork(a)
    <3>1. CASE Expire(a)
      BY <3>1 DEF Expire, Kinds
    <3>2. ASSUME NEW later \in BOOLEAN, Lose(a, later) PROVE Kind(a)'
      BY <3>2, NextStage DEF Lose
    <3> QED
      BY <2>4, <3>1, <3>2 DEF ByNetwork
  <2> QED
    BY <1>1, <2>1, <2>2, <2>3, <2>4
<1>2. ASSUME NEW a \in Attempt, ByUser(a) \/ ByClient(a) \/ ByServer(a) \/ ByNetwork(a)
      PROVE  Kinds'
  BY <1>1, <1>2, OthersStay DEF Kinds
<1>3. CASE UNCHANGED vars
  BY <1>3 DEF Kinds, vars
<1> QED
  BY <1>2, <1>3 DEF Next

-----------------------------------------------------------------------------
(* Passphrases                                                              *)

LEMMA RightKept ==
    TypeOK /\ Kinds /\ GoodKeys /\ OnlyRightPass /\ [Next]_vars
        => GoodKeys' /\ OnlyRightPass'
<1> SUFFICES ASSUME TypeOK, Kinds, GoodKeys, OnlyRightPass, [Next]_vars
             PROVE  GoodKeys' /\ OnlyRightPass'
  OBVIOUS
<1> USE NoneAssumption
<1> DEFINE Keys(a) == /\ Served(a, "complete") /\ net[a].enc.good => a \in right
                      /\ stage[a] = "completing" /\ net[a].at = "client"
                         /\ net[a].status = "ok" => a \in right
                      /\ stage[a] \in {"cleared", "certifying", "got", "done"}
                            => a \in right
           Sess(s) == /\ sess[s].open => sess[s].enc \in Encryptor /\ sess[s].enc.good
                      /\ Stuck(s) => sess[s].auth \in right
           AllKeys == \A a \in Attempt : Keys(a)
           AllSess == \A s \in Attempt : Sess(s)
<1>0. GoodKeys /\ OnlyRightPass <=> AllKeys /\ AllSess
  BY DEF GoodKeys, OnlyRightPass
<1>1. ASSUME NEW a \in Attempt, ByUser(a) PROVE AllKeys' /\ AllSess'
  <2>1. net' = net /\ sess' = sess /\ right \subseteq right'
    BY <1>1 DEF ByUser, Provision, CancelEntry, Enter, page
  <2>2. stage'[a] = stage[a] \/ stage'[a] \in {"asked", "failed", "locating"}
    BY <1>1, NextStage DEF ByUser, Provision, CancelEntry, Enter
  <2>3. \A b \in Attempt : b # a => stage'[b] = stage[b]
    BY <1>1, OthersStay
  <2> QED
    BY <1>0, <2>1, <2>2, <2>3 DEF Served, Stuck, Live
<1>2. ASSUME NEW a \in Attempt, ByClient(a) PROVE AllKeys' /\ AllSess'
  <2>1. sess' = sess /\ right' = right
    BY <1>2 DEF ByClient, StartSession, StartReply, OpenSessionKey, CompleteReply,
            AskCertificates, CertificatesReply, EndSession, page
  <2>2. Keys(a)'
    <3>1. CASE StartSession(a) \/ StartReply(a)
      BY <2>1, <3>1, ClientSteps DEF Served
    <3>2. CASE OpenSessionKey(a)
      BY <1>0, <2>1, <3>2, ClientSteps DEF Served
    <3>3. CASE AskCertificates(a)
      <4>1. stage[a] = "cleared"
        BY <3>3 DEF AskCertificates
      <4> QED
        BY <1>0, <2>1, <3>3, <4>1, ClientSteps DEF Served
    <3>4. CASE CompleteReply(a)
      BY <1>0, <2>1, <3>4, CompleteReplyStep DEF Served
    <3>5. CASE CertificatesReply(a)
      <4>1. stage[a] = "certifying" /\ net'[a].at = "none" /\ stage'[a] \in {"got", "missed"}
        BY <3>5, NextStage, ReceiptTypes DEF CertificatesReply
      <4> QED
        BY <1>0, <2>1, <4>1 DEF Served
    <3>6. CASE EndSession(a)
      <4>1. /\ net' = net /\ stage'[a] \in {"done", "failed"}
            /\ stage'[a] = "done" => stage[a] = "got"
        BY <3>6, NextStage DEF EndSession
      <4> QED
        BY <1>0, <2>1, <4>1 DEF Served
    <3> QED
      BY <1>2, <3>1, <3>2, <3>3, <3>4, <3>5, <3>6 DEF ByClient
  <2>3. \A b \in Attempt : b # a => Keys(b)'
    BY <1>0, <1>2, <2>1, OthersStay DEF Served
  <2> QED
    BY <1>0, <2>1, <2>2, <2>3 DEF Stuck, Live
<1>3. ASSUME NEW a \in Attempt, ByServer(a) PROVE AllKeys' /\ AllSess'
  <2>1. Answered(a)
    BY <1>3, ServeStartStep, ServeCompleteStep, ServeCertifyStep DEF ByServer
  <2>2. \A b \in Attempt : b # a => Keys(b)'
    BY <1>0, <1>3, <2>1, OthersStay DEF Served, Answered
  <2>3. CASE ServeStart(a) \/ ServeCertify(a)
    <3>1. stage[a] # "completing"
      BY <2>3, ServeStartStep, ServeCertifyStep DEF Kinds, Served
    <3>2. Keys(a)'
      BY <1>0, <2>1, <3>1 DEF Served, Answered
    <3>3. \A s \in Attempt : \/ sess'[s] = sess[s] \/ ~sess'[s].open
                             \/ /\ sess'[s].auth = None
                                /\ sess'[s].enc \in Encryptor /\ sess'[s].enc.good
      BY <2>3, ServeStartStep, ServeCertifyStep
    <3>4. AllSess'
      BY <1>0, <2>1, <3>3 DEF Stuck, Live, Answered
    <3> QED
      BY <2>2, <3>2, <3>4
  <2>4. CASE ServeComplete(a)
    <3>1. CASE /\ stage[a] \in Waiting => net'[a].status # "ok"
               /\ \A r \in Attempt : sess'[r] = sess[r] \/ ~sess'[r].open
      <4>1. Keys(a)'
        BY <1>0, <2>1, <3>1 DEF Served, Answered, Waiting
      <4>2. AllSess'
        BY <1>0, <2>1, <3>1 DEF Stuck, Live, Answered
      <4> QED
        BY <2>2, <4>1, <4>2
    <3>2. CASE /\ net[a].sid \in Attempt /\ sess[net[a].sid].open
               /\ net[a].enc = sess[net[a].sid].enc
               /\ sess'[net[a].sid].enc = net[a].enc
               /\ sess'[net[a].sid].auth = a
               /\ \A r \in Attempt : r # net[a].sid => sess'[r] = sess[r]
      <4>1. a \in right
        BY <1>0, <2>4, <3>2, ServeCompleteStep
      <4>2. Keys(a)'
        BY <2>1, <4>1 DEF Answered
      <4>3. AllSess'
        BY <1>0, <2>1, <3>2, <4>1 DEF Stuck, Live, Answered
      <4> QED
        BY <2>2, <4>2, <4>3
    <3> QED
      BY <2>4, <3>1, <3>2, ServeCompleteStep
  <2> QED
    BY <1>3, <2>3, <2>4 DEF ByServer
<1>4. ASSUME NEW a \in Attempt, ByNetwork(a) PROVE AllKeys' /\ AllSess'
  <2>1. CASE Expire(a)
    <3>1. \A s \in Attempt : sess'[s] = sess[s] \/ ~sess'[s].open
      BY <2>1, ClosedTypes DEF Expire
    <3>2. stage' = stage /\ net' = net /\ right' = right
      BY <2>1 DEF Expire, page
    <3> QED
      BY <1>0, <3>1, <3>2 DEF Served, Stuck, Live
  <2>2. ASSUME NEW later \in BOOLEAN, Lose(a, later) PROVE AllKeys' /\ AllSess'
    <3>1. sess' = sess /\ right' = right
      BY <2>2 DEF Lose, page
    <3>2. stage'[a] \in {"missed", "failed"} /\ (net'[a] = net[a] \/ net'[a].at = "none")
      BY <2>2, NextStage DEF Lose, TypeOK, NoMsg
    <3>3. \A b \in Attempt : b # a => Keys(b)'
      BY <1>0, <1>4, <3>1, OthersStay DEF Served
    <3>4. Keys(a)'
      BY <1>0, <3>1, <3>2 DEF Served
    <3> QED
      BY <1>0, <3>1, <3>3, <3>4 DEF Stuck, Live
  <2> QED
    BY <1>4, <2>1, <2>2 DEF ByNetwork
<1>5. ASSUME UNCHANGED vars PROVE AllKeys' /\ AllSess'
  <2>1. stage' = stage /\ net' = net /\ right' = right /\ sess' = sess
    BY <1>5 DEF vars, page
  <2> QED
    BY <1>0, <2>1 DEF Served, Stuck, Live
<1>6. ASSUME NEW a \in Attempt, ByUser(a) \/ ByClient(a) \/ ByServer(a) \/ ByNetwork(a)
      PROVE  AllKeys' /\ AllSess'
  BY <1>1, <1>2, <1>3, <1>4, <1>6
<1> HIDE DEF AllKeys, AllSess
<1>7. AllKeys' /\ AllSess'
  BY <1>5, <1>6 DEF Next
<1> QED
  BY <1>7 DEF AllKeys, AllSess, GoodKeys, OnlyRightPass

-----------------------------------------------------------------------------
(* Attempts that are not hurt                                               *)

\* Nothing else runs with an attempt a, which may be the only one to hold a session.
Alone(a) == \A b \in Attempt : stage[b] \in Running => b = a
HeldBy(a) == \A s \in Attempt : Stuck(s) => s = prov.sid /\ Holds(a)

LEMMA AloneBefore ==
    ASSUME TypeOK, Quiet, hurt = {}, NEW a \in Attempt, stage[a] \in Running
    PROVE  Alone(a) /\ HeldBy(a) /\ Waits(a) /\ Fields(a)
<1>1. Alone(a)
  BY DEF Quiet, OneRuns, Alone, InProgress
<1>2. \A b \in Attempt : Holds(b) => b = a
  BY <1>1 DEF Alone, Holds, Running, Waiting
<1> QED
  BY <1>1, <1>2 DEF Quiet, IsHeld, HeldBy

LEMMA AloneAfter ==
    ASSUME TypeOK, Quiet, hurt = {}, NEW a \in Attempt, Alone(a),
           ByUser(a) \/ ByClient(a) \/ ByServer(a) \/ ByNetwork(a),
           (HeldBy(a) /\ Waits(a) /\ Fields(a))'
    PROVE  Quiet'
<1>1. \A b \in Attempt : b # a => stage'[b] = stage[b] /\ net'[b] = net[b]
  BY OthersStay
<1>2. OneRuns'
  BY <1>1 DEF Alone, OneRuns, InProgress
<1>3. \A b \in Attempt : b # a => Waits(b)' /\ Fields(b)'
  <2> SUFFICES ASSUME NEW b \in Attempt, b # a PROVE Waits(b)' /\ Fields(b)'
    OBVIOUS
  <2>1. stage'[b] = stage[b] /\ net'[b] = net[b] /\ stage[b] \notin Running /\ Waits(b)
    BY <1>1 DEF Alone, Quiet
  <2> QED
    BY <2>1 DEF Waits, Fields, Running, Waiting
<1>4. \A s \in Attempt : Stuck(s)' => IsHeld(s)'
  BY DEF HeldBy, IsHeld
<1> QED
  BY <1>2, <1>3, <1>4 DEF Quiet

LEMMA QuietKept == TypeOK /\ Kinds /\ Quiet /\ [Next]_vars => Quiet'
<1> SUFFICES ASSUME TypeOK, Kinds, Quiet, [Next]_vars, hurt' = {} PROVE Quiet'
  BY DEF Quiet
<1> USE NoneAssumption
<1>1. ASSUME NEW a \in Attempt, ByUser(a) PROVE Quiet'
  <2>1. CASE Provision(a) \/ CancelEntry(a)
    <3>1. /\ stage'[a] \notin Running /\ stage[a] \notin Running
          /\ net' = net /\ prov' = prov /\ sess' = sess /\ hurt' = hurt
      BY <2>1, NextStage DEF Provision, CancelEntry, Running, Waiting, page
    <3>2. \A b \in Attempt : b # a => stage'[b] = stage[b]
      BY <1>1, OthersStay
    <3>3. OneRuns'
      BY <3>1, <3>2 DEF Quiet, OneRuns, InProgress
    <3>4. \A b \in Attempt : Waits(b)' /\ Fields(b)'
      BY <3>1, <3>2 DEF Quiet, Waits, Fields, Running, Waiting
    <3>5. \A b \in Attempt : Holds(b) => Holds(b)'
      BY <3>1, <3>2 DEF Holds, Running, Waiting
    <3>6. \A s \in Attempt : Stuck(s)' => IsHeld(s)'
      BY <3>1, <3>5 DEF Quiet, IsHeld, Stuck, Live
    <3> QED
      BY <3>3, <3>4, <3>6 DEF Quiet
  <2>2. ASSUME NEW u \in User, NEW ok \in BOOLEAN, Enter(a, u, ok) PROVE Quiet'
    <3>1. InProgress = {} /\ hurt = {}
      BY <2>2 DEF Enter
    <3>2. Alone(a) /\ \A b \in Attempt : ~Holds(b)
      BY <3>1 DEF InProgress, Alone, Holds, Running, Waiting
    <3>3. stage[a] = "asked" /\ net' = net /\ prov' = prov /\ sess' = sess
      BY <2>2 DEF Enter, page
    <3>4. stage'[a] \in {"locating", "failed"}
      BY <2>2, NextStage DEF Enter
    <3>5. Waits(a)' /\ Fields(a)'
      BY <3>1, <3>3, <3>4 DEF Quiet, Waits, Fields, Waiting
    <3>6. HeldBy(a)'
      BY <3>1, <3>2, <3>3 DEF Quiet, HeldBy, IsHeld, Stuck, Live
    <3> QED
      BY <1>1, <3>1, <3>2, <3>5, <3>6, AloneAfter
  <2> QED
    BY <1>1, <2>1, <2>2 DEF ByUser
<1>2. ASSUME NEW a \in Attempt, ByClient(a) PROVE Quiet'
  <2>1. hurt = {} /\ sess' = sess
    BY <1>2 DEF ByClient, StartSession, StartReply, OpenSessionKey, CompleteReply,
            AskCertificates, CertificatesReply, EndSession, page
  <2>2. stage[a] \in Running
    BY <1>2, ReceiptTypes DEF ByClient, StartSession, StartReply, OpenSessionKey, CompleteReply,
            AskCertificates, CertificatesReply, EndSession, Running, Waiting
  <2>3. Alone(a) /\ HeldBy(a) /\ Waits(a) /\ Fields(a)
    BY <2>1, <2>2, AloneBefore
  <2>4. CASE ~Holds(a)
    <3>1. \A s \in Attempt : ~Stuck(s)'
      BY <2>1, <2>3, <2>4 DEF HeldBy, Stuck, Live
    <3>2. HeldBy(a)'
      BY <3>1 DEF HeldBy
    <3>3. Waits(a)' /\ Fields(a)'
      <4>1. CASE StartSession(a) \/ StartReply(a) \/ OpenSessionKey(a)
        <5>1. CASE StartSession(a) \/ StartReply(a)
          BY <5>1, ClientSteps DEF Waits, Fields, Waiting
        <5>2. CASE OpenSessionKey(a)
          <6>1. net[a].at = "none" /\ stage[a] = "deriving"
            BY <2>3, <5>2 DEF OpenSessionKey, Waits, Waiting
          <6>2. CASE stage'[a] = "failed" /\ net' = net /\ prov' = prov
            BY <6>1, <6>2 DEF Waits, Fields
          <6>3. CASE /\ stage'[a] = "completing" /\ net'[a].at = "server"
                     /\ net'[a].sid = prov.sid /\ prov'.enc \in Encryptor
                     /\ net'[a].enc = prov'.enc /\ prov'.verif = prov'.enc
                     /\ ~prov'.gone /\ prov'.sid = prov.sid
            BY <6>3 DEF Waits, Fields, Waiting
          <6> QED
            BY <5>2, <6>2, <6>3, ClientSteps
        <5> QED
          BY <4>1, <5>1, <5>2
      <4>2. CASE CompleteReply(a)
        BY <2>3, <2>4, <4>2, CompleteReplyStep DEF Waits, Fields, Holds
      <4>3. CASE AskCertificates(a)
        BY <2>4, <4>3 DEF AskCertificates, Holds
      <4>4. CASE CertificatesReply(a)
        <5>1. stage'[a] \in {"got", "missed"} /\ net'[a].at = "none"
          BY <4>4, NextStage, ReceiptTypes DEF CertificatesReply
        <5> QED
          BY <5>1 DEF Waits, Fields
      <4>5. CASE EndSession(a)
        <5>1. stage'[a] \in {"done", "failed"} /\ net' = net /\ stage[a] \in {"got", "missed"}
          BY <4>5, NextStage DEF EndSession
        <5> QED
          BY <2>3, <5>1 DEF Waits, Fields, Waiting
      <4> QED
        BY <1>2, <4>1, <4>2, <4>3, <4>4, <4>5 DEF ByClient
    <3> QED
      BY <1>2, <2>1, <2>3, <3>2, <3>3, AloneAfter
  <2>5. CASE Holds(a)
    <3>1. CASE CompleteReply(a)
      <4>1. net[a].status = "ok" /\ stage[a] = "completing"
        BY <2>5, <3>1, CompleteReplyStep DEF Holds
      <4>2. prov.verif = net[a].enc /\ prov.verif # None /\ prov.enc \in Encryptor /\ ~prov.gone
        BY <2>3, <4>1 DEF Fields
      <4>3. /\ stage'[a] = "cleared" /\ net'[a].at = "none" /\ prov'.sid = prov.sid
            /\ prov'.enc = prov.enc /\ prov'.gone = prov.gone
        BY <3>1, <4>1, <4>2, CompleteReplyStep
      <4>4. Waits(a)' /\ Fields(a)'
        BY <4>2, <4>3 DEF Waits, Fields
      <4>5. HeldBy(a)'
        BY <2>1, <2>3, <4>3 DEF HeldBy, Holds, Stuck, Live
      <4> QED
        BY <1>2, <2>1, <2>3, <4>4, <4>5, AloneAfter
    <3>2. CASE AskCertificates(a)
      <4>1. stage[a] = "cleared" /\ prov' = prov
        BY <3>2 DEF AskCertificates
      <4>2. prov.enc \in Encryptor /\ ~prov.gone
        BY <2>3, <4>1 DEF Fields
      <4>3. stage'[a] = "certifying" /\ net'[a].at = "server" /\ net'[a].sid = prov.sid
        BY <3>2, <4>2, ClientSteps
      <4>4. Waits(a)' /\ Fields(a)'
        BY <4>3 DEF Waits, Fields, Waiting
      <4>5. HeldBy(a)'
        BY <2>1, <2>3, <4>1, <4>3 DEF HeldBy, Holds, Stuck, Live
      <4> QED
        BY <1>2, <2>1, <2>3, <4>4, <4>5, AloneAfter
    <3>3. CASE StartSession(a) \/ StartReply(a) \/ OpenSessionKey(a)
               \/ CertificatesReply(a) \/ EndSession(a)
      BY <2>5, <3>3, ReceiptTypes DEF Holds, StartSession, StartReply, OpenSessionKey,
            CertificatesReply, EndSession
    <3> QED
      BY <1>2, <3>1, <3>2, <3>3 DEF ByClient
  <2> QED
    BY <2>4, <2>5
<1>3. ASSUME NEW a \in Attempt, ByServer(a) PROVE Quiet'
  <2>1. Answered(a) /\ net[a].at = "server"
    BY <1>3, ServeStartStep, ServeCompleteStep, ServeCertifyStep DEF ByServer, Served
  <2>2. hurt = {} /\ stage[a] \in Waiting /\ stage[a] \in Running
    <3>1. hurt = {}
      BY <2>1 DEF Answered
    <3>2. Waits(a)
      BY <3>1 DEF Quiet
    <3> QED
      BY <2>1, <3>1, <3>2 DEF Waits, Running, Waiting
  <2>3. Alone(a) /\ HeldBy(a) /\ Fields(a)
    BY <2>2, AloneBefore
  <2>4. /\ stage' = stage /\ prov' = prov /\ net'[a].at = "client" /\ Waits(a)'
    BY <2>1, <2>2 DEF Answered, Waits
  <2>5. CASE ServeStart(a)
    <3>1. stage[a] = "starting"
      BY <2>2, <2>5, ServeStartStep DEF Kinds, Served, Waiting
    <3>2. \A s \in Attempt : ~Stuck(s)'
      BY <2>3, <2>5, <3>1, ServeStartStep DEF HeldBy, Holds, Stuck, Live
    <3> QED
      BY <1>3, <2>2, <2>3, <2>4, <3>1, <3>2, AloneAfter DEF HeldBy, Fields
  <2>6. CASE ServeComplete(a)
    <3>1. stage[a] = "completing"
      BY <2>2, <2>6, ServeCompleteStep DEF Kinds, Served, Waiting
    <3>2. \A s \in Attempt : ~Stuck(s)
      BY <2>1, <2>3, <3>1 DEF HeldBy, Holds
    <3>3. net[a].sid = prov.sid /\ net[a].enc = prov.enc
      BY <2>1, <2>3, <3>1 DEF Fields
    <3>4. CASE net'[a].status # "ok" /\ \A r \in Attempt : sess'[r] = sess[r] \/ ~sess'[r].open
      <4>1. \A s \in Attempt : ~Stuck(s)'
        BY <3>2, <3>4 DEF Stuck, Live
      <4>2. Fields(a)'
        BY <2>3, <2>4, <3>1, <3>4 DEF Fields
      <4> QED
        BY <1>3, <2>2, <2>3, <2>4, <4>1, <4>2, AloneAfter DEF HeldBy
    <3>5. CASE /\ net'[a].status = "ok" /\ net'[a].enc = net[a].enc
               /\ \A r \in Attempt : r # net[a].sid => sess'[r] = sess[r]
      <4>1. HeldBy(a)'
        BY <2>4, <3>1, <3>2, <3>3, <3>5 DEF HeldBy, Holds, Stuck, Live
      <4>2. Fields(a)'
        BY <2>3, <2>4, <3>1, <3>3, <3>5 DEF Fields
      <4> QED
        BY <1>3, <2>2, <2>3, <2>4, <4>1, <4>2, AloneAfter
    <3> QED
      BY <2>2, <2>6, <3>4, <3>5, ServeCompleteStep
  <2>7. CASE ServeCertify(a)
    <3>1. stage[a] = "certifying"
      BY <2>2, <2>7, ServeCertifyStep DEF Kinds, Served, Waiting
    <3>2. \A s \in Attempt : Stuck(s) => s = net[a].sid
      BY <2>3, <3>1 DEF HeldBy, Holds
    <3>3. \A s \in Attempt : ~Stuck(s)'
      BY <2>7, <3>2, ServeCertifyStep DEF Stuck, Live
    <3> QED
      BY <1>3, <2>2, <2>3, <2>4, <3>1, <3>3, AloneAfter DEF HeldBy, Fields
  <2> QED
    BY <1>3, <2>5, <2>6, <2>7 DEF ByServer
<1>4. ASSUME NEW a \in Attempt, ByNetwork(a) PROVE Quiet'
  <2>1. CASE Expire(a)
    <3>1. \A s \in Attempt : sess'[s] = sess[s] \/ ~sess'[s].open
      BY <2>1, ClosedTypes DEF Expire
    <3>2. stage' = stage /\ net' = net /\ prov' = prov /\ hurt = {}
      BY <2>1 DEF Expire, page
    <3>3. OneRuns' /\ \A b \in Attempt : Waits(b)' /\ Fields(b)'
      BY <3>2 DEF Quiet, OneRuns, InProgress, Waits, Fields
    <3>4. \A s \in Attempt : Stuck(s)' => IsHeld(s)'
      BY <3>1, <3>2 DEF Quiet, IsHeld, Holds, Stuck, Live
    <3> QED
      BY <3>3, <3>4 DEF Quiet
  <2>2. ASSUME NEW later \in BOOLEAN, Lose(a, later) PROVE Quiet'
    BY <2>2 DEF Lose
  <2> QED
    BY <1>4, <2>1, <2>2 DEF ByNetwork
<1>5. ASSUME UNCHANGED vars PROVE Quiet'
  BY <1>5 DEF Quiet, OneRuns, InProgress, Waits, Fields, IsHeld, Holds, Stuck, Live, vars, page
<1> QED
  BY <1>1, <1>2, <1>3, <1>4, <1>5 DEF Next

-----------------------------------------------------------------------------
(* Theorems                                                                 *)

LEMMA InitInv == Init => IInv
<1> SUFFICES ASSUME Init PROVE IInv
  OBVIOUS
<1>1. TypeOK
  BY InitTypes
<1>2. /\ \A a \in Attempt : stage[a] = "none" /\ net[a] = NoMsg
      /\ \A s \in Attempt : ~sess[s].open
      /\ signer = [skey |-> None, cert |-> None]
  BY DEF Init
<1>3. SignerIsWhole /\ OnlyRightPass /\ Kinds /\ GoodKeys
  BY <1>2 DEF SignerIsWhole, OnlyRightPass, Kinds, GoodKeys, Stuck, Live, NoMsg, Served
<1>4. Quiet
  BY <1>2 DEF Quiet, OneRuns, InProgress, Waits, Fields, Stuck, Live, NoMsg, Running, Waiting
<1> QED
  BY <1>1, <1>3, <1>4 DEF IInv

LEMMA SignerKept == TypeOK /\ SignerIsWhole /\ [Next]_vars => SignerIsWhole'
<1> SUFFICES ASSUME TypeOK, SignerIsWhole, [Next]_vars PROVE SignerIsWhole'
  OBVIOUS
<1>1. ASSUME NEW a \in Attempt, EndSession(a) PROVE SignerIsWhole'
  BY <1>1 DEF EndSession, MakesPair, SignerIsWhole
<1>2. ASSUME NEW a \in Attempt, ByUser(a) \/ ByServer(a) \/ ByNetwork(a) PROVE signer' = signer
  BY <1>2 DEF ByUser, Provision, CancelEntry, Enter, ByServer, ServeStart, ServeComplete,
          ServeCertify, ByNetwork, Expire, Lose
<1>3. ASSUME NEW a \in Attempt, ByClient(a), ~EndSession(a) PROVE signer' = signer
  BY <1>3 DEF ByClient, StartSession, StartReply, OpenSessionKey, CompleteReply,
          AskCertificates, CertificatesReply
<1>4. ASSUME UNCHANGED vars PROVE signer' = signer
  BY <1>4 DEF vars
<1> QED
  BY <1>1, <1>2, <1>3, <1>4 DEF Next, SignerIsWhole

LEMMA InvKept == IInv /\ [Next]_vars => IInv'
BY TypesKept, SignerKept, KindsKept, RightKept, QuietKept DEF IInv

LEMMA Invariance == Spec => []IInv
BY InitInv, InvKept, PTL DEF Spec

\* Types of all variables, and replies come only to attempts that wait for them.
THEOREM TypeCorrect == Spec => []TypeOK
<1>1. IInv => TypeOK
  BY DEF IInv
<1> QED
  BY <1>1, Invariance, PTL

\* However attempts overlap, the manager never holds a signer with a key and a
\* certificate of different attempts (provisionSigner, makeMailerIdSigner).
THEOREM SignerIsWholeHolds == Spec => []SignerIsWhole
<1>1. IInv => SignerIsWhole
  BY DEF IInv
<1> QED
  BY <1>1, Invariance, PTL

\* However attempts overlap, and whatever is lost, sessions are authorized, and
\* certificates are given, only to attempts with a right passphrase
\* (start-exchange.ts, complete-exchange.ts, certify.ts).
THEOREM OnlyRightPassHolds == Spec => []OnlyRightPass
<1>1. IInv => OnlyRightPass
  BY DEF IInv
<1> QED
  BY <1>1, Invariance, PTL

\* When no attempt has been hurt, an idle provisioner has no session id, with which
\* the next attempt is refused as a repeated one (complete-exchange.ts).
THEOREM IdleNotStuckHolds == Spec => []IdleNotStuck
<1>1. IInv => IdleNotStuck
  <2> SUFFICES ASSUME IInv, InProgress = {}, Stuck(prov.sid), hurt = {} PROVE FALSE
    BY DEF IdleNotStuck
  <2>1. prov.sid \in Attempt
    BY DEF IInv, TypeOK, Stuck, Live
  <2>2. \E a \in Attempt : Holds(a)
    BY <2>1 DEF IInv, Quiet, IsHeld
  <2> QED
    BY <2>2 DEF Holds, InProgress, Running, Waiting
<1> QED
  BY <1>1, Invariance, PTL
=============================================================================
