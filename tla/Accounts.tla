------------------------------ MODULE Accounts ------------------------------
(***************************************************************************)
(* Account of one user at an ASMail server, or at a 3NStorage server       *)
(* (variable service): folders, that factories make and pick up on a       *)
(* start, files with parameters, pages that sign up, pages that take an    *)
(* invitation token for senders, and a sender that comes with the token, or *)
(* with a name, and goes on to metadata of a message.                      *)
(*                                                                         *)
(* Handlers are chains of file system calls.  Files are opened, truncated, *)
(* and then written, and a process may die in between, or serve other      *)
(* requests.  Attempts to make an account are numbered, and names of       *)
(* folders and salts of keys, which are random, are these numbers.         *)
(***************************************************************************)
EXTENDS Naturals, FiniteSets

CONSTANTS
    Page,               \* pages of the user
    MaxAsks,            \* bounds of the model: attempts to make an account,
    MaxFaults,          \* restarts of a server, and lost replies,
    Overlapping,        \* services, at which attempts overlap
    None

Attempt == 1..MaxAsks
Own == 0            \* salt of a page, that no server's folder has

ASSUME BoundsAssumption == {MaxAsks, MaxFaults} \subseteq Nat
ASSUME OverlappingAssumption == Overlapping \subseteq {"asmail", "3nstorage"}
ASSUME NoneAssumption == None \notin Page /\ None \notin Nat

VARIABLES
    service,    \* whose account it is
    map,        \* factory's folder of the user, in memory
    disk,       \* folders of attempts
    make,       \* progress of requests to make an account
    tasks,      \* file system calls that run in parallel, of a folder
    page,       \* sign up pages
    mail,       \* pages of mail application, that ask for a token
    send,       \* a sender with a token of one of these pages, or with a name
    faults,
    broken,     \* folders, calls on which were interrupted, or out of order
    hurt        \* "twice": attempts overlapped; "exists": root is made on 473
                \* reply; a page: it asked for a token while another one did, or
                \* its request to set a token has failed

serverVars == <<service, map, disk, make, tasks>>
clientVars == <<page, mail, send>>
noteVars == <<faults, broken, hurt>>
vars == <<serverVars, clientVars, noteVars>>

\* Files of an inbox are many more: pubkey is written, and read, like quota, policy
\* for anonymous senders like their invites, and those for senders with names are
\* in one.
Param == {"quota", "invites", "lists", "kdp"}
Absent == [st |-> "absent", val |-> {}]
Empty == [st |-> "empty", val |-> {}]
Full(v) == [st |-> "full", val |-> v]

\* Transaction of a root: it has a folder, when it is open, when a request to
\* finalize it is on its way, and when nobody will ever complete it.
NoTrans == [st |-> "none", by |-> None, key |-> None]
LeftTrans == [NoTrans EXCEPT !.st = "left"]

\* There are no invitations, and nobody is in lists, when an account is made.
Default(k, f) == Full(IF f = "kdp" THEN {k} ELSE {})

OfService == {"quota"} \cup (IF service = "asmail" THEN {"invites", "lists"} ELSE {"kdp"})

Init ==
    /\ service \in {"asmail", "3nstorage"}
    /\ map = None
    /\ disk = [k \in Attempt |-> [userid |-> FALSE, anon |-> FALSE, root |-> None,
                                  trans |-> NoTrans, file |-> [f \in Param |-> Absent]]]
    /\ make = [k \in Attempt |-> "none"]
    /\ tasks = [k \in Attempt |-> {}]
    /\ page = [p \in Page |-> [st |-> "none", ask |-> None]]
    /\ mail = [p \in Page |-> [st |-> "none", token |-> None, at |-> None, lost |-> FALSE]]
    /\ send = [by |-> None, told |-> "none", session |-> "none"]
    /\ faults = 0 /\ broken = {} /\ hurt = {}

Readable(k, files) == \A f \in files : disk[k].file[f].st = "full"

\* Mail pages, that are setting a token.
Asking == {p \in Page : mail[p].st \in {"got", "writing"}}

-----------------------------------------------------------------------------
(* Sign up pages                                                            *)

Shows(p, from, st) ==
    /\ page[p].st = from
    /\ page' = [page EXCEPT ![p].st = st]
    /\ UNCHANGED <<serverVars, mail, send, noteVars>>

\* Every file of an inbox is read to show an account.
GetInfo == IF map = None THEN "unknown"
           ELSE IF Readable(map, OfService) THEN "info" ELSE "error"
GetAccountInfo(p) ==
    /\ service = "asmail"
    /\ Shows(p, "none", CASE GetInfo = "unknown" -> "asking"
                          [] GetInfo = "info" -> "opened"
                          [] GetInfo = "error" -> "failed")

\* No file of a store is read to check, if it is there.
CheckIfAccountExist(p) ==
    /\ service = "3nstorage"
    /\ Shows(p, "none", IF map = None THEN "asking" ELSE "exists")

WrongExists == FALSE
Exists == map # None

\* The next free number is taken by an attempt, that goes on.
Ask(p) ==
    /\ page[p].st = "asking" /\ ~Exists
    /\ \E k \in Attempt :
        /\ make[k] = "none" /\ \A j \in 1..(k - 1) : make[j] # "none"
        /\ service \in Overlapping \/ \A j \in Attempt : make[j] # "mkdir"
        /\ make' = [make EXCEPT ![k] = "mkdir"]
        /\ page' = [page EXCEPT ![p] = [st |-> "waiting", ask |-> k]]
    /\ hurt' = IF \E k \in Attempt : make[k] = "mkdir" THEN hurt \cup {"twice"} ELSE hurt
    /\ UNCHANGED <<service, map, disk, tasks, mail, send, faults, broken>>

MakeAccountInVain(p) ==
    /\ service = "asmail" /\ Exists
    /\ Shows(p, "asking", "failed")

\* A page of storage is content with a reply, that an account exists, and goes on
\* with its own key.
CreateAccountInVain(p) ==
    /\ service = "3nstorage" /\ Exists
    /\ page[p].st = "asking"
    /\ page' = [page EXCEPT ![p] = [st |-> "rooting", ask |-> Own]]
    /\ hurt' = hurt \cup {"exists"}
    /\ UNCHANGED <<serverVars, mail, send, faults, broken>>

\* A transaction, that is left, makes calls after it fail.
SetTrans(k, t) ==
    /\ disk' = [disk EXCEPT ![k].trans = t]
    /\ broken' = IF t = LeftTrans THEN broken \cup {k} ELSE broken

\* makeAndSaveRoot, with a key from a passphrase and page's own salt.  The root is
\* the first object to be saved.  Start of its transaction is refused, when it has
\* one, and fails, when quota is not read, with a transaction's folder left there.
IsFree == map # None /\ disk[map].trans.st = "none"
StartRoot(p) ==
    /\ page[p].st = "rooting"
    /\ \/ /\ IsFree /\ Readable(map, {"quota"})
          /\ SetTrans(map, [st |-> "open", by |-> p, key |-> page[p].ask])
          /\ page' = [page EXCEPT ![p].st = "saving"]
       \/ /\ IsFree /\ ~Readable(map, {"quota"})
          /\ SetTrans(map, LeftTrans)
          /\ page' = [page EXCEPT ![p].st = "failed"]
       \/ /\ ~IsFree
          /\ page' = [page EXCEPT ![p].st = "failed"]
          /\ UNCHANGED <<disk, broken>>
    /\ UNCHANGED <<service, map, make, tasks, mail, send, faults, hurt>>

\* Bytes are sent, then a request to finalize, for which nobody waits, and then
\* system folders are saved.  Transaction is not found, when another attempt has
\* replaced a folder.
HasTrans(p) == map # None /\ disk[map].trans.st = "open" /\ disk[map].trans.by = p
Finalized(k) == [disk[k].trans EXCEPT !.st = "final"]
SendRoot(p) ==
    /\ page[p].st = "saving"
    /\ \/ /\ HasTrans(p)
          /\ SetTrans(map, Finalized(map))
          /\ page' = [page EXCEPT ![p].st = "opened"]
       \/ /\ ~HasTrans(p)
          /\ page' = [page EXCEPT ![p].st = "failed"]
          /\ UNCHANGED <<disk, broken>>
    /\ UNCHANGED <<service, map, make, tasks, mail, send, faults, hurt>>

\* Some request of makeAndSaveRoot fails, with nothing done for it, or with a start,
\* of which nobody knows, with a transaction cancelled, or left, or with the root
\* sent, when it is a request for one of later objects.
LoseRoot(p) ==
    /\ page[p].st \in {"rooting", "saving"} /\ faults < MaxFaults
    /\ faults' = faults + 1
    /\ page' = [page EXCEPT ![p].st = "failed"]
    /\ \/ UNCHANGED <<disk, broken>> /\ ~HasTrans(p)
       \/ page[p].st = "rooting" /\ IsFree /\ SetTrans(map, LeftTrans)
       \/ HasTrans(p) /\ \E t \in {NoTrans, LeftTrans, Finalized(map)} : SetTrans(map, t)
    /\ UNCHANGED <<service, map, make, tasks, mail, send, hurt>>

\* A form of the storage page stays there, and an ASMail page starts again.
TryAgain(p) == Shows(p, "failed", IF service = "asmail" THEN "none" ELSE "asking")

LoseReply(p) ==
    /\ page[p].st = "waiting" /\ faults < MaxFaults
    /\ faults' = faults + 1
    /\ page' = [page EXCEPT ![p].st = "failed"]
    /\ UNCHANGED <<serverVars, mail, send, broken, hurt>>

-----------------------------------------------------------------------------
(* Making of an account: makeNewInboxFor and initInbox, makeNewStoreFor and *)
(* initStore, add, and a handler                                            *)

MakeFolder(k, of) ==
    /\ service = of /\ make[k] = "mkdir"
    /\ make' = [make EXCEPT ![k] = "dirs"]
    /\ map' = k
    /\ UNCHANGED <<service, disk, tasks, clientVars, noteVars>>
MakeNewInbox(k) == MakeFolder(k, "asmail")
MakeNewStore(k) == MakeFolder(k, "3nstorage")

\* Folders in the folder are made, and then userid is written.  An empty file
\* of a process, that dies in between, names nobody, and is left out.
NameFolder(k, first) ==
    /\ make[k] = "dirs"
    /\ make' = [make EXCEPT ![k] = "defaults"]
    /\ disk' = [disk EXCEPT ![k].userid = TRUE]
    /\ tasks' = [tasks EXCEPT ![k] = first]
    /\ UNCHANGED <<service, map, clientVars, noteVars>>

\* Inbox makes folders, and writes files into them, all at once.
SetDefaultParameters == {<<"mkdir", "anon">>} \cup {<<"open", f>> : f \in OfService}
InitInbox(k) == service = "asmail" /\ NameFolder(k, SetDefaultParameters)
InitStore(k) == service = "3nstorage" /\ NameFolder(k, {<<"open", "quota">>})

TaskDone(k, task, next) ==
    task \in tasks[k] /\ tasks' = [tasks EXCEPT ![k] = (@ \ {task}) \cup next]

MakeAnonFolder(k) ==
    /\ TaskDone(k, <<"mkdir", "anon">>, {})
    /\ disk' = [disk EXCEPT ![k].anon = TRUE]
    /\ UNCHANGED <<service, map, make, clientVars, noteVars>>

\* Nobody looks at a rejection, when a folder is not there, yet.
OpenParam(k, f) ==
    /\ IF f \in {"invites", "lists"} /\ ~disk[k].anon
       THEN /\ TaskDone(k, <<"open", f>>, {})
            /\ broken' = broken \cup {k}
            /\ UNCHANGED disk
       ELSE /\ TaskDone(k, <<"open", f>>, {<<"write", f>>})
            /\ disk' = [disk EXCEPT ![k].file[f] = Empty]
            /\ UNCHANGED broken
    /\ UNCHANGED <<service, map, make, clientVars, faults, hurt>>

\* In a store, setKeyDerivParams follows writing of its quota.
SetNext(f) == IF service = "3nstorage" /\ f = "quota" THEN {<<"open", "kdp">>} ELSE {}
WriteParam(k, f) ==
    /\ TaskDone(k, <<"write", f>>, SetNext(f))
    /\ disk' = [disk EXCEPT ![k].file[f] = Default(k, f)]
    /\ UNCHANGED <<service, map, make, clientVars, noteVars>>

\* Writing of inbox's files is not awaited.
WrongBuilt(k) == make[k] = "defaults"
Built(k) ==
    /\ make[k] = "defaults"
    /\ IF service = "asmail" THEN disk[k].anon ELSE tasks[k] = {}

StuckReply(k) ==
    /\ Built(k)
    /\ make' = [make EXCEPT ![k] = "done"]
    /\ UNCHANGED <<service, map, disk, tasks, clientVars, noteVars>>

Reply(k) ==
    /\ Built(k)
    /\ make' = [make EXCEPT ![k] = "done"]
    /\ page' = [p \in Page |->
                    IF page[p].st = "waiting" /\ page[p].ask = k
                    THEN [page[p] EXCEPT !.st = IF service = "asmail" THEN "none"
                                                ELSE "rooting"]
                    ELSE page[p]]
    /\ UNCHANGED <<service, map, disk, tasks, mail, send, noteVars>>

\* Server finalizes a transaction, that it finds.
FinalizeRoot(k) ==
    /\ map = k /\ disk[k].trans.st = "final"
    /\ disk' = [disk EXCEPT ![k].root = disk[k].trans.key, ![k].trans = NoTrans]
    /\ UNCHANGED <<service, map, make, tasks, clientVars, noteVars>>

\* Request to finalize is lost, or comes after one to log out, which the page sends
\* next, and is refused with no session.  No fault is needed for this.
FinalizeLost(k) ==
    /\ disk[k].trans.st = "final"
    /\ SetTrans(k, LeftTrans)
    /\ UNCHANGED <<service, map, make, tasks, clientVars, faults, hurt>>

\* A folder is picked up, when it names a user, and the last such folder in an order
\* of readdir is taken.
WrongPicked == {k \in Attempt : make[k] \in {"dirs", "defaults", "done", "dead"}}
Picked == {k \in Attempt : disk[k].userid}

\* Transactions, and requests of pages, end without sessions.  A page, that sets a
\* token, goes on with it, though it has not been stored.
InTrans(k) == disk[k].trans.st \in {"open", "final"}
Restart ==
    /\ faults < MaxFaults
    /\ faults' = faults + 1
    /\ map' \in IF Picked = {} THEN {None} ELSE Picked
    /\ make' = [k \in Attempt |-> IF make[k] \in {"none", "done"}
                                  THEN make[k] ELSE "dead"]
    /\ tasks' = [k \in Attempt |-> {}]
    /\ broken' = broken \cup {k \in Attempt : tasks[k] # {} \/ InTrans(k)}
                    \cup {mail[p].at : p \in {q \in Page : mail[q].st = "writing"}}
    /\ disk' = [k \in Attempt |-> IF InTrans(k) THEN [disk[k] EXCEPT !.trans = LeftTrans]
                                  ELSE disk[k]]
    /\ page' = [p \in Page |-> IF page[p].st \in {"waiting", "saving"}
                               THEN [page[p] EXCEPT !.st = "failed"] ELSE page[p]]
    /\ mail' = [p \in Page |-> IF p \in Asking
                               THEN [mail[p] EXCEPT !.st = "done"] ELSE mail[p]]
    /\ hurt' = hurt \cup Asking
    /\ send' = [send EXCEPT !.session = IF @ = "none" THEN "none" ELSE "closed"]
    /\ UNCHANGED service

-----------------------------------------------------------------------------
(* getSingleAnonSenderInvite of a mail page, config routes, and setters     *)

CanGet(f) == map # None /\ Readable(map, {f})

\* A user goes to mail, when some sign up page has shown an account.  Any failure
\* is swallowed by promiseCallWithMailConf.  There is no token, if it is a failure
\* to get invites, and a token is made up before it is sent to be set.
GetInvites(p) ==
    /\ service = "asmail" /\ map # None
    /\ \E q \in Page : page[q].st = "opened"
    /\ mail[p].st \in {"none", "failed"}
    /\ LET invites == disk[map].file["invites"]
           st == IF ~CanGet("invites") THEN "failed"
                 ELSE IF invites.val = {} THEN "got" ELSE "done"
       IN /\ mail' = [mail EXCEPT ![p] =
                [st |-> st, at |-> None, lost |-> FALSE,
                 token |-> IF st = "got" THEN p
                           ELSE IF st = "done" THEN CHOOSE t \in invites.val : TRUE
                           ELSE None]]
          /\ hurt' = hurt \cup (IF Asking = {} THEN {}
                                ELSE {p} \cup (IF st = "got" THEN Asking ELSE {}))
    /\ UNCHANGED <<serverVars, page, send, faults, broken>>

\* The whole list is sent, a file is truncated, and is written.
OpenInvites(p) ==
    /\ mail[p].st = "got"
    /\ mail' = [mail EXCEPT ![p].st = "writing", ![p].at = map]
    /\ disk' = [disk EXCEPT ![map].file["invites"] = Empty]
    /\ UNCHANGED <<service, map, make, tasks, page, send, noteVars>>

WriteInvites(p) ==
    /\ mail[p].st = "writing"
    /\ mail' = [mail EXCEPT ![p].st = "done"]
    /\ disk' = [disk EXCEPT ![mail[p].at].file["invites"] = Full({p})]
    /\ UNCHANGED <<service, map, make, tasks, page, send, noteVars>>

\* Setting of a token has failed for its page, which returns the token anyway.
\* Request is lost, or server is going on with it.
LoseSetting(p) ==
    /\ p \in Asking /\ ~mail[p].lost /\ faults < MaxFaults
    /\ faults' = faults + 1
    /\ hurt' = hurt \cup {p}
    /\ \/ mail' = [mail EXCEPT ![p].lost = TRUE]
       \/ mail[p].st = "got" /\ mail' = [mail EXCEPT ![p].st = "done"]
    /\ UNCHANGED <<serverVars, page, send, broken>>

-----------------------------------------------------------------------------
(* What a server tells to senders: allowedMaxMsgSize                        *)

\* Space is looked at last: du may fail, which is an error for a sender, told apart
\* here, and an inbox may be found full.
AdaptToFreeSpace ==
    {"duFailed"} \cup IF Readable(map, {"quota"}) THEN {"allowed", "inboxFull"} ELSE {"error"}

\* Policies are default ones, as no route changes them.
\* A sender without a name comes with a token, and then this token counts.
AnonSenderPolicy == [accept |-> TRUE]
AuthSenderPolicy == [acceptFromWhiteListOnly |-> FALSE, applyBlackList |-> TRUE]

WrongInvited(token) == token \notin disk[map].file["invites"].val
Invited(token) == token \in disk[map].file["invites"].val
AllowedForAnonSender(token) ==
    IF ~Readable(map, {"invites"}) THEN {"error"}
    ELSE IF AnonSenderPolicy.accept /\ Invited(token)
         THEN AdaptToFreeSpace ELSE {"forbidden"}

\* A sender's address, or its domain, is looked for in a list.
FindMatchIn(list) == None \in list
AllowedForAuthSender ==
    LET list == disk[map].file["lists"].val IN
    IF ~Readable(map, {"lists"}) THEN {"error"}
    ELSE IF \/ FindMatchIn(list)
            \/ /\ ~AuthSenderPolicy.acceptFromWhiteListOnly
               /\ ~(AuthSenderPolicy.applyBlackList /\ FindMatchIn(list))
         THEN AdaptToFreeSpace ELSE {"forbidden"}

\* None stands for a token of a sender with a name.
Told(token) ==
    IF map = None THEN {"unknown"}
    ELSE IF token = None THEN AllowedForAuthSender ELSE AllowedForAnonSender(token)

-----------------------------------------------------------------------------
(* A sender: it has no session, an opened one, an authorized one, or one    *)
(* that a server has closed, or has forgotten                               *)

Tells(from, st) ==
    /\ send.told = from
    /\ send' = [send EXCEPT !.told = st]
    /\ UNCHANGED <<serverVars, page, mail, noteVars>>

\* Address of a user is known, when a sign up page has shown an account.  A
\* sender without a name has a token, that a mail page has got.
Senders == {p \in Page : mail[p].st = "done" \/ mail[p].lost}
            \cup (IF \E q \in Page : page[q].st = "opened" THEN {None} ELSE {})

Token(p) == IF p = None THEN None ELSE mail[p].token
ServeRequestHere(p) == Told(Token(p))
PreFlight(p) ==
    /\ service = "asmail" /\ send.told = "none" /\ p \in Senders
    /\ \E told \in ServeRequestHere(p) :
            send' = [by |-> p, told |-> told, session |-> "none"]
    /\ UNCHANGED <<serverVars, page, mail, noteVars>>

\* A session is started, without looking at what pre-flight has told.  It is
\* authorized from the beginning, when a sender gives no name.
SessionFor(told) ==
    IF told # "allowed" THEN "none"
    ELSE IF send.by = None THEN "opened" ELSE "authorized"
StartSession ==
    /\ send.told = "allowed"
    /\ \E told \in ServeRequestHere(send.by) :
        send' = [send EXCEPT !.told = IF told = "allowed" THEN "started" ELSE told,
                             !.session = SessionFor(told)]
    /\ UNCHANGED <<serverVars, page, mail, noteVars>>

\* Certificates are either accepted, or a session is closed.
Authorized ==
    IF send.session = "opened"
    THEN {[send EXCEPT !.session = "authorized"],
          [send EXCEPT !.session = "closed", !.told = "rejected"]}
    ELSE {[send EXCEPT !.told = "noSession"]}
AuthorizeSender ==
    /\ send.told = "started" /\ send.by = None /\ send.session # "authorized"
    /\ send' \in Authorized
    /\ UNCHANGED <<serverVars, page, mail, noteVars>>

MayAsk == send.told = "started" /\ (send.by # None \/ send.session # "opened")
CanServe == send.session = "authorized"

\* File with a public key is written with a quota.
RecipientPubKey == IF map = None THEN "unknown"
                   ELSE IF Readable(map, {"quota"}) THEN "key" ELSE "error"
GetRecipientsInitPubKey ==
    /\ MayAsk
    /\ Tells("started", IF CanServe THEN RecipientPubKey ELSE "noSession")

\* Keys of a known correspondent are not asked for.
SendMetadata ==
    /\ MayAsk \/ send.told = "key"
    /\ Tells(send.told, IF ~CanServe THEN "noSession"
                        ELSE IF ~Exists THEN "unknown" ELSE "sent")

Server(k) ==
    \/ MakeNewInbox(k) \/ MakeNewStore(k) \/ InitInbox(k) \/ InitStore(k)
    \/ MakeAnonFolder(k) \/ Reply(k) \/ FinalizeRoot(k)
    \/ \E f \in OfService : OpenParam(k, f) \/ WriteParam(k, f)

SignUp(p) ==
    \/ GetAccountInfo(p) \/ CheckIfAccountExist(p) \/ Ask(p)
    \/ MakeAccountInVain(p) \/ CreateAccountInVain(p)
    \/ StartRoot(p) \/ SendRoot(p) \/ TryAgain(p)

Next ==
    \/ \E k \in Attempt : Server(k) \/ FinalizeLost(k)
    \/ \E p \in Page : SignUp(p) \/ LoseReply(p) \/ LoseRoot(p)
    \/ Restart
    \/ \E p \in Page : \/ GetInvites(p) \/ OpenInvites(p) \/ WriteInvites(p)
                       \/ LoseSetting(p)
    \/ \E p \in Page \cup {None} : PreFlight(p)
    \/ StartSession \/ AuthorizeSender \/ GetRecipientsInitPubKey \/ SendMetadata

\* Calls end, and a user tries till a page shows an account.
Fairness == /\ \A k \in Attempt : WF_vars(Server(k))
            /\ \A p \in Page : WF_vars(SignUp(p)) /\ WF_vars(WriteInvites(p))

Spec == Init /\ [][Next]_vars /\ Fairness

-----------------------------------------------------------------------------
(* Properties                                                               *)

\* Types of all variables.
FileType == [st: {"absent", "empty", "full"}, val: SUBSET (Page \cup Attempt)]
TransType == [st: {"none", "open", "final", "left"}, by: Page \cup {None},
              key: Attempt \cup {Own, None}]
FolderType == [userid: BOOLEAN, anon: BOOLEAN, root: Attempt \cup {Own, None},
               trans: TransType, file: [Param -> FileType]]
Task == {<<"mkdir", "anon">>} \cup ({"open", "write"} \X Param)
PageType == [st: {"none", "asking", "waiting", "rooting", "saving", "opened", "exists",
                  "failed"},
             ask: Attempt \cup {Own, None}]
MailType == [st: {"none", "got", "writing", "done", "failed"},
             token: Page \cup Attempt \cup {None}, at: Attempt \cup {None},
             lost: BOOLEAN]
SendType == [by: Page \cup {None},
             told: {"none", "unknown", "error", "forbidden", "duFailed", "allowed",
                    "inboxFull", "started", "rejected", "noSession", "key", "sent"},
             session: {"none", "opened", "authorized", "closed"}]

TypeOK ==
    /\ service \in {"asmail", "3nstorage"}
    /\ map \in Attempt \cup {None}
    /\ disk \in [Attempt -> FolderType]
    /\ make \in [Attempt -> {"none", "mkdir", "dirs", "defaults", "done", "dead"}]
    /\ tasks \in [Attempt -> SUBSET Task]
    /\ page \in [Page -> PageType]
    /\ mail \in [Page -> MailType]
    /\ send \in SendType
    /\ faults \in 0..MaxFaults
    /\ broken \subseteq Attempt \cup {None} /\ hurt \subseteq Page \cup {"twice", "exists"}

\* Folder of an account, of which a page was told, stays folder of this
\* account, whatever restarts, repeated sign ups and remains of interrupted ones
\* come after: mail and objects of a user do not disappear.  Only overlapping
\* attempts make two folders, both of which are picked up later.
FolderStays ==
    [][ map # None /\ make[map] = "done" /\ "twice" \notin hurt
        => map' = map ]_vars

\* A root folder of storage is encrypted with a key, that parameters on a
\* server give, even when sign ups are interrupted and repeated, unless attempts
\* overlap, or a page takes an account of another attempt for its own.
RootOpens ==
    hurt \cap {"twice", "exists"} = {} =>
        \A k \in Attempt : disk[k].root # None =>
            disk[k].file["kdp"] = Full({disk[k].root})

\* A token, that a page has got while no other page was after one, and which was set
\* with no failure, lets a sender in, and a sender with a name is let in without it,
\* unless there is no space, or du fails: neither pages that come later, nor
\* restarts, replace it, or make files, that are read for a decision, or for a key,
\* unreadable.  What pre-flight tells is held to, when a session starts.
TokenIsAccepted ==
    send.told \in {"unknown", "error", "forbidden"} =>
        hurt \cap {send.by, "twice"} # {} \/ broken # {}

\* A page, that found no account, ends up showing one, when a user keeps trying,
\* unless calls on a folder were interrupted, or came out of order, among which is a
\* finalization of a root, that does not come, or comes after a logout.  It is so,
\* when two pages are after the same root, and when requests, and replies, are lost,
\* if this leaves no transaction.
SignsUp ==
    \A p \in Page :
        page[p].st = "asking" ~> (page[p].st \in {"opened", "exists"} \/ broken # {})

\* When an attempt is told to be done, its disk structure is constructed ("It
\* returns a promise, resolvable, when inbox store's disk structure has been
\* constructed.").
StructureIsConstructed ==
    \A k \in Attempt : make[k] = "done" => Readable(k, OfService)
=============================================================================
