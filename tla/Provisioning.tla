---------------------------- MODULE Provisioning ----------------------------
(***************************************************************************)
(* Provisioning of a MailerId signer: identity manager of a page           *)
(* (client-apps/public-content/identity-management.ts), a provisioner,     *)
(* that is its public key login client (lib-client/mailer-id/provisioner.  *)
(* ts, lib-client/user-with-pkl-session.ts), and routes of a MailerId      *)
(* server (lib-server/routes/pub-key-login/, mailerid-service/routes/      *)
(* certify.ts).                                                            *)
(*                                                                         *)
(* Any part of a page may call provision(), and all calls share a form and *)
(* one provisioner, with its session id, challenge and encryptor.  Calls   *)
(* are members of Attempt.  An attempt starts one exchange at most, thus,  *)
(* a session, and a session key, that are generated when a start of an     *)
(* attempt is served, carry the name of this attempt.                      *)
(*                                                                         *)
(* A callback of a request and promises, that wait for it, run in separate *)
(* turns of an event loop: stages "cleared", "got" and "missed" are in     *)
(* between of these turns.                                                 *)
(***************************************************************************)
EXTENDS Integers, FiniteSets

CONSTANTS
    Calls,      \* number of calls of provision()
    MaxRunning, \* how many of them run at once: bound of the model
    User,       \* ids, that can be typed into a form
    Known,      \* users, known to the server
    None        \* null of the code

Attempt == 1..Calls     \* calls in their order
Encryptor == [key: Attempt, good: BOOLEAN]  \* good is one that server has

ASSUME CallsAssumption == Calls \in Nat /\ MaxRunning \in Nat
ASSUME NoneAssumption == None \notin Attempt \cup User \cup Encryptor
ASSUME KnownAssumption == Known \subseteq User

VARIABLES
    stage,      \* progress of attempts
    right,      \* attempts with a right passphrase typed in
    form,       \* attempt, with which deferredCredentials were last set
    owner,      \* provisioner's userId
    prov,       \* other fields of provisioner
    signer,     \* manager's signer: its secret key, and its certificate's key
    net,        \* request or reply of an attempt
    sess,       \* sessions; auth is an attempt, that got isAuthorized set
    hurt        \* attempts that met a loss, an expiry, or another attempt

page == <<form, owner, right>>
vars == <<stage, page, prov, signer, net, sess, hurt>>

Stage == {"none", "asked", "locating", "starting", "deriving", "completing",
          "cleared", "certifying", "got", "missed", "done", "failed", "hung"}

Waiting == {"starting", "completing", "certifying"}     \* for a reply

\* Stages from a completed form to an end.
Running == {"locating", "starting", "deriving", "completing", "cleared",
            "certifying", "got", "missed"}
InProgress == {a \in Attempt : stage[a] \in Running}

Live(s) == s # None /\ sess[s].open
Stuck(s) == Live(s) /\ sess[s].auth # None

NoMsg == [at |-> "none", kind |-> "none", sid |-> None, key |-> None,
          enc |-> None, status |-> "none"]

Init ==
    /\ stage = [a \in Attempt |-> "none"]
    /\ right = {} /\ hurt = {}
    /\ form = None /\ owner = None
    /\ prov = [sid |-> None, chal |-> None, enc |-> None, gone |-> FALSE,
               verif |-> None, cert |-> None]
    /\ signer = [skey |-> None, cert |-> None]
    /\ net = [a \in Attempt |-> NoMsg]
    /\ sess = [s \in Attempt |->
                [open |-> FALSE, auth |-> None, key |-> None, enc |-> None]]

To(a, st) == stage' = [stage EXCEPT ![a] = st]
Request(a, kind, enc) ==
    net' = [net EXCEPT ![a] = [NoMsg EXCEPT !.at = "server", !.kind = kind,
                                            !.sid = prov.sid, !.enc = enc]]
WrongAnswer(a, status, s, k, enc) ==    \* reply waits for one, who is gone
    net' = [net EXCEPT ![a] = [@ EXCEPT !.at = "client", !.status = status,
                                        !.sid = s, !.key = k, !.enc = enc]]
Answer(a, status, s, k, enc) ==
    net' = [net EXCEPT ![a] =
                IF stage[a] \notin Waiting THEN NoMsg
                ELSE [@ EXCEPT !.at = "client", !.status = status,
                               !.sid = s, !.key = k, !.enc = enc]]
Refuse(a, status) == Answer(a, status, None, None, None)
Served(a, kind) == net[a].at = "server" /\ net[a].kind = kind
Received(a, st) ==
    /\ stage[a] = st /\ net[a].at = "client"
    /\ net' = [net EXCEPT ![a] = NoMsg]

-----------------------------------------------------------------------------
(* The manager                                                              *)

\* provision(): a form is shown with a new deferred, whatever waits on an old.
Provision(a) ==
    /\ stage[a] = "none"
    /\ \A b \in Attempt : b < a => stage[b] # "none"
    /\ To(a, "asked")
    /\ form' = a
    /\ UNCHANGED <<owner, right, prov, signer, net, sess, hurt>>

\* A form is filled, u is typed id, and ok is for a right passphrase.
Enter(a, u, ok) ==
    /\ form = a /\ stage[a] = "asked"
    /\ Cardinality(InProgress) < MaxRunning
    /\ owner' = IF owner = None THEN u ELSE owner
    /\ right' = IF ok THEN right \cup {a} ELSE right
    /\ To(a, IF owner \in {None, u} THEN "locating" ELSE "failed")
    /\ hurt' = IF InProgress = {} THEN hurt ELSE hurt \cup {a} \cup InProgress
    /\ UNCHANGED <<form, prov, signer, net, sess>>

CancelEntry(a) ==
    /\ form = a /\ stage[a] = "asked"
    /\ To(a, "failed")
    /\ UNCHANGED <<page, prov, signer, net, sess, hurt>>

-----------------------------------------------------------------------------
(* The client of public key login                                           *)

\* Service is located, and startSession sends whatever session id is there.
StartSession(a) ==
    /\ stage[a] = "locating"
    /\ To(a, "starting")
    /\ Request(a, "start", None)
    /\ UNCHANGED <<page, prov, signer, sess, hurt>>

StartReply(a) ==
    /\ Received(a, "starting")
    /\ IF net[a].status = "ok"
       THEN /\ To(a, "deriving")
            /\ prov' = [prov EXCEPT !.sid = net[a].sid, !.chal = net[a].key]
       ELSE To(a, "failed") /\ UNCHANGED prov
    /\ UNCHANGED <<page, signer, sess, hurt>>

\* A key is derived from a passphrase, and challenge, present at this moment,
\* is opened.  Then, the challenge is used up.
OpenSessionKey(a) ==
    /\ stage[a] = "deriving"
    /\ IF prov.chal = None
       THEN To(a, "failed") /\ UNCHANGED <<prov, net>>
       ELSE LET e == [key |-> prov.chal, good |-> a \in right] IN
            /\ prov' = [prov EXCEPT !.enc = e, !.gone = FALSE,
                                    !.verif = e, !.chal = None]
            /\ To(a, "completing")
            /\ Request(a, "complete", e)
    /\ UNCHANGED <<page, signer, sess, hurt>>

\* Missing verification bytes break a callback, and nothing ends a promise.
CompleteReply(a) ==
    /\ Received(a, "completing")
    /\ IF net[a].status = "ok"
       THEN /\ To(a, IF prov.verif = None THEN "hung"
                     ELSE IF prov.verif = net[a].enc THEN "cleared"
                     ELSE "failed")
            /\ prov' = IF prov.verif = net[a].enc
                       THEN [prov EXCEPT !.verif = None] ELSE prov
       ELSE /\ To(a, "failed")
            /\ prov' = IF net[a].status = "authFailed"
                       THEN [prov EXCEPT !.sid = None] ELSE prov
    /\ UNCHANGED <<page, signer, sess, hurt>>

-----------------------------------------------------------------------------
(* The provisioner                                                          *)

AskCertificates(a) ==
    /\ stage[a] = "cleared"
    /\ IF prov.enc = None \/ prov.gone
       THEN To(a, "failed") /\ UNCHANGED net
       ELSE To(a, "certifying") /\ Request(a, "certify", prov.enc)
    /\ UNCHANGED <<page, prov, signer, sess, hurt>>

\* Certificate of an attempt b is named b.  Its key should be attempt's own.
CertificatesReply(a) ==
    /\ Received(a, "certifying")
    /\ LET fits == /\ net[a].status = "ok"
                   /\ prov.enc = net[a].enc /\ ~prov.gone
                   /\ net[a].key = a
       IN /\ To(a, IF fits THEN "got" ELSE "missed")
          /\ prov' = [prov EXCEPT !.cert = IF fits THEN net[a].key ELSE @,
                                  !.gone = TRUE]
    /\ UNCHANGED <<page, signer, sess, hurt>>

\* makeMailerIdSigner checks that a key and a certificate are a pair.
WrongMakesPair(a) == TRUE          \* no check
MakesPair(a) == prov.cert = a

\* fin of getCertificates, which breaks if another attempt has done it, and
\* making of a signer with whatever certificate the provisioner has got.
EndSession(a) ==
    /\ stage[a] \in {"got", "missed"}
    /\ prov' = [prov EXCEPT !.sid = None, !.enc = None]
    /\ LET made == stage[a] = "got" /\ prov.enc # None /\ MakesPair(a)
       IN /\ To(a, IF made THEN "done" ELSE "failed")
          /\ signer' = IF made THEN [skey |-> a, cert |-> prov.cert]
                               ELSE signer
    /\ UNCHANGED <<page, net, sess, hurt>>

-----------------------------------------------------------------------------
(* The server                                                               *)

WrongServeStart(a) ==              \* a session, that is there, is refused
    /\ Served(a, "start")
    /\ IF owner \notin Known THEN Refuse(a, "unknown") /\ UNCHANGED sess
       ELSE IF Live(net[a].sid) THEN Refuse(a, "duplicate") /\ UNCHANGED sess
       ELSE /\ sess' = [sess EXCEPT ![a] = [open |-> TRUE, auth |-> None,
                          key |-> a, enc |-> [key |-> a, good |-> TRUE]]]
            /\ Answer(a, "ok", a, a, None)
    /\ UNCHANGED <<stage, page, prov, signer, hurt>>
ServeStart(a) ==
    /\ Served(a, "start")
    /\ IF owner \notin Known THEN Refuse(a, "unknown") /\ UNCHANGED sess
       ELSE IF Stuck(net[a].sid) THEN Refuse(a, "duplicate") /\ UNCHANGED sess
       ELSE LET s == IF Live(net[a].sid) THEN net[a].sid ELSE a IN
            /\ sess' = [sess EXCEPT ![s] = [open |-> TRUE, auth |-> None,
                          key |-> a, enc |-> [key |-> a, good |-> TRUE]]]
            /\ Answer(a, "ok", s, a, None)
    /\ UNCHANGED <<stage, page, prov, signer, hurt>>

\* Challenge is answered by a session key, encrypted with it.
WrongOpens(e, s) == e.key = s.key  \* a wrong passphrase is not noticed
Opens(e, s) == e = s.enc /\ e.key = s.key

Closed(s) == sess' = [sess EXCEPT ![s] = [open |-> FALSE, auth |-> None,
                                          key |-> None, enc |-> None]]

ServeComplete(a) ==
    /\ Served(a, "complete")
    /\ LET s == net[a].sid IN
       IF ~Live(s) THEN Refuse(a, "noSession") /\ UNCHANGED sess
       ELSE IF Stuck(s) THEN Refuse(a, "duplicate") /\ UNCHANGED sess
       ELSE IF Opens(net[a].enc, sess[s])
       THEN /\ sess' = [sess EXCEPT ![s].auth = a, ![s].key = None]
            /\ Answer(a, "ok", None, None, sess[s].enc)
       ELSE Closed(s) /\ Refuse(a, "authFailed")
    /\ UNCHANGED <<stage, page, prov, signer, hurt>>

ServeCertify(a) ==
    /\ Served(a, "certify")
    /\ LET s == net[a].sid IN
       IF ~Stuck(s) THEN Refuse(a, "noSession") /\ UNCHANGED sess
       ELSE /\ Closed(s)
            /\ IF net[a].enc = sess[s].enc THEN Answer(a, "ok", None, a, sess[s].enc)
               ELSE Refuse(a, "cryptoVerifFail")
    /\ UNCHANGED <<stage, page, prov, signer, hurt>>

-----------------------------------------------------------------------------
(* Losses                                                                   *)

\* onerror of a request: it never comes, or comes later, or a reply is lost.
Lose(a, later) ==
    /\ stage[a] \in Waiting \cup {"locating"}
    /\ To(a, IF stage[a] = "certifying" THEN "missed" ELSE "failed")
    /\ net' = IF later /\ net[a].at = "server" THEN net
              ELSE [net EXCEPT ![a] = NoMsg]
    /\ hurt' = hurt \cup {a}
    /\ UNCHANGED <<page, prov, signer, sess>>

\* checkSessionsForTimeout, or a restart of the server.
Expire(s) ==
    /\ sess[s].open
    /\ Closed(s)
    /\ hurt' = hurt \cup {a \in InProgress : prov.sid = s \/ net[a].sid = s}
    /\ UNCHANGED <<stage, page, prov, signer, net>>

-----------------------------------------------------------------------------
ByUser(a) == Provision(a) \/ CancelEntry(a)
             \/ \E u \in User, ok \in BOOLEAN : Enter(a, u, ok)
ByClient(a) == StartSession(a) \/ StartReply(a) \/ OpenSessionKey(a)
               \/ CompleteReply(a) \/ AskCertificates(a)
               \/ CertificatesReply(a) \/ EndSession(a)
ByServer(a) == ServeStart(a) \/ ServeComplete(a) \/ ServeCertify(a)
ByNetwork(a) == Expire(a) \/ \E later \in BOOLEAN : Lose(a, later)

Next == \E a \in Attempt :
            ByUser(a) \/ ByClient(a) \/ ByServer(a) \/ ByNetwork(a)

\* Every attempt has a few steps, thus, none of them can be left waiting.
Fairness == WF_vars(\E a \in Attempt : ByClient(a) \/ ByServer(a))

Spec == Init /\ [][Next]_vars /\ Fairness

-----------------------------------------------------------------------------
Message == [at: {"none", "server", "client"},
            kind: {"none", "start", "complete", "certify"},
            sid: Attempt \cup {None}, key: Attempt \cup {None},
            enc: Encryptor \cup {None},
            status: {"none", "ok", "unknown", "duplicate", "noSession",
                     "authFailed", "cryptoVerifFail"}]

\* Types of all variables.  A reply comes only to an attempt that waits for it.
TypeOK ==
    /\ stage \in [Attempt -> Stage]
    /\ right \subseteq Attempt /\ hurt \subseteq Attempt
    /\ form \in Attempt \cup {None}
    /\ owner \in User \cup {None}
    /\ prov \in [sid: Attempt \cup {None}, chal: Attempt \cup {None},
                 enc: Encryptor \cup {None}, gone: BOOLEAN,
                 verif: Encryptor \cup {None}, cert: Attempt \cup {None}]
    /\ signer \in [skey: Attempt \cup {None}, cert: Attempt \cup {None}]
    /\ net \in [Attempt -> Message]
    /\ \A a \in Attempt : net[a].at = "client" =>
            stage[a] \in Waiting
    /\ sess \in [Attempt -> [open: BOOLEAN, auth: Attempt \cup {None},
                             key: Attempt \cup {None},
                             enc: Encryptor \cup {None}]]

\* Attempts write their certificates into one field of the provisioner, and
\* still the manager never holds a signer, whose certificate is of another
\* key (provisionSigner, makeMailerIdSigner).
SignerIsWhole == signer.cert = signer.skey

\* Only attempts with a right passphrase authorize sessions and get
\* certificates: no mix of challenges, sessions and encryptors of overlapping
\* attempts lets another one through (start-exchange.ts, complete-exchange.ts,
\* certify.ts).
OnlyRightPass ==
    /\ \A a \in Attempt : stage[a] \in {"cleared", "certifying", "got", "done"}
                              => a \in right
    /\ \A s \in Attempt : Stuck(s) => sess[s].auth \in right

\* When nothing runs, a session id that is kept by the provisioner, is not of
\* an authorized session, which would make server refuse every next attempt
\* as a repeated one, unless some attempt was hurt before.
IdleNotStuck == InProgress = {} /\ Stuck(prov.sid) => hurt # {}

\* An attempt with a right passphrase, which has not been locked out by an
\* authorized session from before, gets a signer, if it is not hurt itself,
\* whatever was left in the provisioner and on the server by attempts before
\* it.  An exception is a late request, that may still come to the server.
AloneSucceeds ==
    \A a \in Attempt :
        (stage[a] = "locating" /\ a \in right /\ owner \in Known
                               /\ ~Stuck(prov.sid)
                               /\ \A b \in Attempt : net[b].at # "server")
            ~> (stage[a] = "done" \/ a \in hurt)
=============================================================================
