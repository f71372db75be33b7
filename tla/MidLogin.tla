------------------------------ MODULE MidLogin ------------------------------
(***************************************************************************)
(* MailerId login: a page that opens an inbox (openInbox in client-apps/   *)
(* public-content/asmail/mail-getting.ts, lib-client/asmail/recipient.ts,  *)
(* lib-client/user-with-mid-session.ts), a service (lib-server/routes/     *)
(* sessions/, lib-server/resources/mailerid-authorizer.ts), and a MailerId *)
(* server with its root and provider keys (mailerId/resources/certifier.   *)
(* ts), over a common clock.                                               *)
(*                                                                         *)
(* Calls of openInbox share a variable msgReceiver, and a signer of an     *)
(* identity manager.  A receiver, and a session, are named by a call, that *)
(* made it, as every call makes one at most.  Signer's key is named by a   *)
(* call, for which it was provisioned (module Provisioning shows how).     *)
(***************************************************************************)
EXTENDS Certificates, FiniteSets

CONSTANTS
    Calls,          \* number of calls of openInbox
    Start, MaxTime, \* time of MailerId server's start, and bound of the clock
    MaxRestarts,    \* bound on restarts of MailerId server
    MaxFaults,      \* bound on losses of requests, of replies with a root
                    \* certificate, and on expiries of sessions
    Asked,          \* CERTIFICATE_DURATION_SECONDS
    Margin,         \* MIN_SECS_LEFT_ASSUMED_OK
    KeyLife,        \* validity of a certified mail key
    None

Call == 1..Calls

ASSUME CallsAssumption == Calls \in Nat /\ MaxTime \in Nat /\ Start < RootLife
                          /\ Start \in Nat
                          /\ MaxRestarts \in Nat /\ MaxFaults \in Nat
ASSUME PeriodsAssumption == Asked \in Nat /\ KeyLife \in Nat /\ Margin \in Nat
                           /\ Margin < AssertLife /\ Margin < Asked
                           /\ Margin < MaxUserLife
ASSUME NoneAssumption == None \notin Nat

VARIABLES
    now,
    root,       \* current root certificate
    prov,       \* certificate of a provider key in use
    signer,     \* manager's signer: its chain
    stage,      \* progress of calls
    receiver,   \* msgReceiver
    sid,        \* sessionId of receivers
    obj,        \* receiver, whose method a call is in
    chain,      \* signer used by a call
    began,      \* time, at which a call took its signer
    net,        \* request or reply of a call
    sess,       \* sessions of the service
    faults      \* these losses and expiries so far, and calls that met them, or other
                \* running calls

certs == <<root, prov, signer>>
login == <<stage, receiver, sid, obj, chain, began, net>>
vars == <<now, certs, login, sess, faults>>

Stage == {"none", "locating", "starting", "signing", "authing", "open",
          "operating", "served", "failed"}
Waiting == {"starting", "authing", "operating"}
Running == Waiting \cup {"locating", "signing"}
InProgress == {k \in Call : stage[k] \in Running}

NoMsg == [at |-> "none", kind |-> "none", sid |-> None, assertion |-> None,
          t |-> None, status |-> "none"]

\* A root is as old as the clock, and a provider key is of this start.
Init ==
    /\ now = Start
    /\ root = RootCert(1, 0)
    /\ prov = ProviderCert(1, RootCert(1, 0), Start)
    /\ signer = None
    /\ stage = [k \in Call |-> "none"]
    /\ receiver = None
    /\ sid = [k \in Call |-> None]
    /\ obj = [k \in Call |-> None]
    /\ chain = [k \in Call |-> None]
    /\ began = [k \in Call |-> None]
    /\ net = [k \in Call |-> NoMsg]
    /\ sess = [k \in Call |-> "none"]
    /\ faults = [count |-> 0, hurt |-> {}]

To(k, st) == stage' = [stage EXCEPT ![k] = st]
Request(k, kind, s, a) ==
    net' = [net EXCEPT ![k] = [NoMsg EXCEPT !.at = "server", !.kind = kind,
                                            !.sid = s, !.assertion = a]]
Answer(k, status) == net' = [net EXCEPT ![k].at = "client", ![k].status = status]
Served(k, kind) == net[k].at = "server" /\ net[k].kind = kind
Received(k, st) ==
    /\ stage[k] = st /\ net[k].at = "client"
    /\ net' = [net EXCEPT ![k] = NoMsg]

-----------------------------------------------------------------------------
(* The clock and the MailerId server                                        *)

Tick ==
    /\ now < MaxTime
    /\ now' = now + 1
    /\ UNCHANGED <<certs, login, sess, faults>>

\* loadOrGenerateRootCert: a root, that is not valid at start, is replaced.
\* Then, a new provider key is generated for the whole life of a process.
Restart ==
    /\ prov.key <= MaxRestarts
    /\ root' = IF ValidAt(root, now) THEN root ELSE RootCert(root.key + 1, now)
    /\ prov' = ProviderCert(prov.key + 1, root', now)
    /\ UNCHANGED <<now, signer, login, sess, faults>>

-----------------------------------------------------------------------------
(* The identity manager                                                     *)

WrongIsProvisionedAndValid == signer # None     \* expiration is not checked
IsProvisionedAndValid == signer # None /\ signer.user.exp > now + Margin

\* A chain that is given by certify, and is verified by the provisioner at
\* the first second of its life.
NewChain(k) == [user |-> UserCert(k, prov, now, Asked), prov |-> prov]
Provisions(k) ==
    LET c == NewChain(k) IN VerifyChain(c.user, c.prov, root, c.user.iss + 1)

\* certifyPublicKey, for an introductory key, or for a key in a message.
KeyCert == Cert("mail", signer.user.key, now, KeyLife)

-----------------------------------------------------------------------------
(* The client                                                               *)

\* openInbox: an opened receiver is used, or a new one takes its place.
OpenInbox(k) ==
    /\ stage[k] = "none"
    /\ \A j \in Call : j < k => stage[j] # "none"
    /\ IF receiver # None /\ sid[receiver] # None
       THEN To(k, "open") /\ UNCHANGED receiver
       ELSE To(k, "locating") /\ receiver' = k
    /\ faults' = IF InProgress = {} THEN faults
                ELSE [faults EXCEPT !.hurt = @ \cup {k} \cup InProgress]
    /\ UNCHANGED <<now, certs, sid, obj, chain, began, net, sess>>

\* A signer is reused, or provisioned, and login is called on a receiver that
\* is in the variable at this moment.
HasSession(r) == sid[r] # None
Login(k) ==
    /\ stage[k] = "locating"
    /\ signer' = IF IsProvisionedAndValid THEN signer
                 ELSE IF Provisions(k) THEN NewChain(k) ELSE signer
    /\ IF HasSession(receiver) \/ ~(IsProvisionedAndValid \/ Provisions(k))
       THEN To(k, "failed") /\ UNCHANGED <<obj, chain, began, net>>
       ELSE /\ obj' = [obj EXCEPT ![k] = receiver]
            /\ chain' = [chain EXCEPT ![k] = signer']
            /\ began' = [began EXCEPT ![k] = now]
            /\ To(k, "starting")
            /\ Request(k, "start", None, None)
    /\ UNCHANGED <<now, root, prov, receiver, sid, sess, faults>>

StartReply(k) ==
    /\ Received(k, "starting")
    /\ sid' = [sid EXCEPT ![obj[k]] = k]
    /\ To(k, "signing")
    /\ UNCHANGED <<now, certs, receiver, obj, chain, began, sess, faults>>

\* authenticateSession takes session id as it is at this moment.
AuthenticateSession(k) ==
    /\ stage[k] = "signing"
    /\ IF MaySign(chain[k].user, now)
       THEN /\ To(k, "authing")
            /\ Request(k, "auth", sid[obj[k]],
                       Assertion(chain[k].user, sid[obj[k]], now))
       ELSE To(k, "failed") /\ UNCHANGED net
    /\ UNCHANGED <<now, certs, receiver, sid, obj, chain, began, sess, faults>>

WrongForgets(status) == {}         \* session id is kept by a refused client
Forgets(status) == IF status = "authFailed" THEN {"authing"}
                   ELSE IF status = "needAuth" THEN {"operating"} ELSE {}

AuthReply(k) ==
    /\ Received(k, "authing")
    /\ To(k, IF net[k].status = "ok" THEN "open" ELSE "failed")
    /\ sid' = IF "authing" \in Forgets(net[k].status)
              THEN [sid EXCEPT ![obj[k]] = None] ELSE sid
    /\ UNCHANGED <<now, certs, receiver, obj, chain, began, sess, faults>>

\* Any request with an opened session, like listMsgs.
Operate(k) ==
    /\ stage[k] = "open"
    /\ To(k, "operating")
    /\ Request(k, "op", sid[receiver], None)
    /\ obj' = [obj EXCEPT ![k] = receiver]
    /\ UNCHANGED <<now, certs, receiver, sid, chain, began, sess, faults>>

\* Local variables of a call are gone with its success.
OperateReply(k) ==
    /\ Received(k, "operating")
    /\ IF net[k].status = "ok"
       THEN /\ To(k, "served")
            /\ obj' = [obj EXCEPT ![k] = None]
            /\ chain' = [chain EXCEPT ![k] = None]
            /\ began' = [began EXCEPT ![k] = None]
       ELSE To(k, "failed") /\ UNCHANGED <<obj, chain, began>>
    /\ sid' = IF "operating" \in Forgets(net[k].status)
              THEN [sid EXCEPT ![obj[k]] = None] ELSE sid
    /\ UNCHANGED <<now, certs, receiver, sess, faults>>

-----------------------------------------------------------------------------
(* The service                                                              *)

\* Client gives no session id at start, and a new session is generated.
ServeStart(k) ==
    /\ Served(k, "start")
    /\ sess' = [sess EXCEPT ![k] = "started"]
    /\ Answer(k, "ok")
    /\ UNCHANGED <<now, certs, stage, receiver, sid, obj, chain, began, faults>>

\* authorize-session route up to a call of an authorizer, which takes time,
\* and asks MailerId server for a root certificate.
ServeAuth(k) ==
    /\ Served(k, "auth")
    /\ LET s == net[k].sid IN
       IF s = None \/ sess[s] \notin {"started", "authorized"} THEN Answer(k, "needAuth")
       ELSE IF sess[s] = "authorized" THEN Answer(k, "duplicate")
       ELSE net' = [net EXCEPT ![k].kind = "validate", ![k].t = now]
    /\ UNCHANGED <<now, certs, stage, receiver, sid, obj, chain, began, sess,
                   faults>>

\* A root has come, and an assertion is verified for the time of its arrival.
\* Session's id is that of an assertion.
Validated(k) ==
    /\ Served(k, "validate")
    /\ LET s == net[k].sid
           ok == VerifyAssertion(net[k].assertion, chain[k].user,
                                 chain[k].prov, root, net[k].t)
                 /\ net[k].assertion.sid = s
       IN /\ sess' = [sess EXCEPT ![s] = IF ~ok THEN "closed"
                                         ELSE IF @ = "expired" THEN @
                                         ELSE "authorized"]
          /\ Answer(k, IF ok THEN "ok" ELSE "authFailed")
    /\ UNCHANGED <<now, certs, stage, receiver, sid, obj, chain, began, faults>>

ServeOp(k) ==
    /\ Served(k, "op")
    /\ Answer(k, IF net[k].sid # None /\ sess[net[k].sid] = "authorized"
                 THEN "ok" ELSE "needAuth")
    /\ UNCHANGED <<now, certs, stage, receiver, sid, obj, chain, began, sess,
                   faults>>

-----------------------------------------------------------------------------
(* Losses                                                                   *)

Fault(calls) ==
    /\ faults.count < MaxFaults
    /\ faults' = [count |-> faults.count + 1, hurt |-> faults.hurt \cup calls]

\* onerror of a request, which may have been served.
Lose(k) ==
    /\ stage[k] \in Waiting
    /\ To(k, "failed")
    /\ net' = [net EXCEPT ![k] = NoMsg]
    /\ Fault({k})
    /\ UNCHANGED <<now, certs, receiver, sid, obj, chain, began, sess>>

\* MailerId server has answered with an error, or without a certificate: this is
\* a failed authorization, like any other.
RootNotFetched(k) ==
    /\ Served(k, "validate")
    /\ sess' = [sess EXCEPT ![net[k].sid] = "closed"]
    /\ net' = [net EXCEPT ![k].at = "client", ![k].kind = "noRoot",
                          ![k].status = "authFailed"]
    /\ Fault({k})
    /\ UNCHANGED <<now, certs, stage, receiver, sid, obj, chain, began>>

\* checkSessionsForTimeout
Expire(s) ==
    /\ sess[s] \in {"started", "authorized"}
    /\ sess' = [sess EXCEPT ![s] = "expired"]
    /\ Fault({k \in Call : stage[k] \notin {"none", "served", "failed"}})
    /\ UNCHANGED <<now, certs, login>>

-----------------------------------------------------------------------------
ByPage(k) == Login(k) \/ StartReply(k) \/ AuthenticateSession(k)
             \/ AuthReply(k) \/ Operate(k) \/ OperateReply(k)
ByService(k) == ServeStart(k) \/ ServeAuth(k) \/ Validated(k) \/ ServeOp(k)

Next == \/ Tick \/ Restart
        \/ \E k \in Call : \/ OpenInbox(k) \/ ByPage(k) \/ ByService(k)
                           \/ RootNotFetched(k) \/ Lose(k) \/ Expire(k)

\* Every call has a few steps, thus, none of them can be left waiting.
Fairness == WF_vars(\E k \in Call : ByPage(k) \/ ByService(k))

Spec == Init /\ [][Next]_vars /\ Fairness

-----------------------------------------------------------------------------
CertType == [key: Nat, by: Nat, iss: Nat, exp: Nat]
ChainType == [user: CertType, prov: CertType]
ASSUME NoChainAssumption == None \notin ChainType

\* Types of variables that are not certificates, and order of certificates.
TypeOK ==
    /\ now \in Nat /\ faults \in [count: 0..MaxFaults, hurt: SUBSET Call]
    /\ root \in CertType /\ prov \in CertType
    /\ root.iss <= prov.iss /\ prov.iss <= now /\ prov.by = root.key
    /\ signer \in ChainType \cup {None}
    /\ stage \in [Call -> Stage]
    /\ receiver \in Call \cup {None}
    /\ sid \in [Call -> Call \cup {None}]
    /\ obj \in [Call -> Call \cup {None}]
    /\ chain \in [Call -> ChainType \cup {None}]
    /\ began \in [Call -> Nat \cup {None}]
    /\ sess \in [Call -> {"none", "started", "authorized", "closed",
                            "expired"}]

\* A chain, taken by a client, and an assertion with it, are refused by a
\* service only when the service got no root certificate to check them with,
\* when a root of this chain has been replaced, or when login has taken longer
\* than a margin, with which the manager gives its signers.
PromptIsAccepted ==
    \A k \in Call :
        stage[k] = "authing" /\ net[k].status = "authFailed" =>
            \/ net[k].kind = "noRoot"
            \/ chain[k].prov.by # root.key
            \/ net[k].t > began[k] + Margin

\* A mail key, certified with the current signer, is verified by others during
\* all of its life, even when certificates of its chain are long expired, if
\* the root stays the same.
MailKeyVerifies ==
    signer # None /\ signer.prov.by = root.key /\ MaySign(signer.user, now) =>
        \A t \in now..(now + KeyLife - 1) :
            VerifyPubKey(KeyCert, signer.user, signer.prov, root, t)

\* Receiver has a session id, when nothing runs, only if this session is, or
\* was, authorized, or some call was hurt, or too slow for its certificate.
IdleIsLoggedIn ==
    \A k \in Call :
        InProgress = {} /\ sid[k] # None /\ faults.hurt = {} =>
            \/ sess[sid[k]] \in {"authorized", "expired"}
            \/ chain[k] # None /\ now >= chain[k].user.exp

\* A call, that runs alone, ends with a served request, if it is not hurt,
\* though calls before it might have failed at any step.  Exceptions are: an
\* expired provider's certificate, an old signer of a replaced root, and a
\* slow login.
AloneIsServed ==
    \A k \in Call :
        (stage[k] = "locating" /\ InProgress = {k})
            ~> \/ stage[k] = "served" \/ k \in faults.hurt
               \/ stage[k] = "failed" /\ \/ now >= prov.exp
                                         \/ chain[k] # None /\ chain[k].prov.by # root.key
                                         \/ began[k] # None /\ now > began[k] + Margin
=============================================================================
