# Formal models of 3NWeb protocols: storage, sessions, logins, accounts, mail delivery, keyrings, and a client's file system

This directory holds TLA+ modules about the code in `src/src`, configurations
for TLC, theorems that TLAPS checks, and `PROJECT.json`, an index that connects
all of them to the lines of source. Paths below are relative to `src/src`,
where nothing else is said.

The repository is a TypeScript implementation of 3NWeb protocols: an express
server (one process, one thread, an event loop, Q promises), a client library,
and demonstration applications that run in a browser. There are no unit tests.
All data of a server is in files; the only exclusion between requests is what
the file system gives: `mkdir`, open with `wx`, `rename`. Therefore most of
interesting behaviour is in what happens between two callbacks of one request.

## 1. Inventory

### 1.1 Components, their state and operations

| Component | State | Operations |
|---|---|---|
| 3NStorage, transactions (`3nstorage/resources/store.ts`, `routes/owner`) | per object: folder with `current.v` and `N.hxsp`, `N.sxsp`; `transactions/<obj>` with `transaction`, `new.hxsp`, `new.sxsp` | start, put bytes of header and segments, finalize, cancel, get bytes, append, root object |
| 3NStorage, saving (`lib-client/3nstorage/service.ts`) | a session, one transaction in process | `saveObj`, `saveNewObj`, login, bytes source |
| 3NStorage, users and space (`users.ts`, `storage-factory.ts`) | folder per user, parameters, space tracker | add, look up, account for space |
| Sessions (`lib-server/resources/*sessions*.ts`, `routes/sessions`) | dictionary, count, interval, parameters of a session | generate, find, close, sweep, authenticate, log out |
| Public key login (`routes/pub-key-login`, `user-with-pkl-session.ts`) | parameters of an exchange in a session; session id, challenge and encryptor in a client | start, complete |
| MailerId provisioning (`mailer-id/provisioner.ts`, `identity-management.ts`) | one provisioner of a page, a form with a deferred, a signer | provision, certify a key |
| MailerId login (`user-with-mid-session.ts`) | a session id in a client | start, authorize, log out |
| Bytes pump (`lib-server/resources/file_ops.ts`) | files, buffers between a socket and a file | create, write at an offset, read a part, remove a folder |
| ASMail, delivery (`asmail/resources/inbox.ts`, `recipients.ts`, `routes/delivery`) | `delivery/<id>`, `messages/<id>` with `meta.json` and object files; message id and length in a session | pre-flight, metadata, bytes, completion |
| ASMail, sender (`mail-sending.ts`, `lib-client/asmail/sender.ts`) | progress of a message | the order of requests |
| ASMail, retrieval (`routes/retrieval`, `lib-client/asmail/recipient.ts`, `mail-getting.ts`) | messages that an application has got | list, get metadata, get bytes, remove |
| ASMail, configuration (`routes/config`, `service-config.ts`) | public key, invitations, policies | get, replace |
| ASMail, keyring (`lib-client/asmail/keyring`) | key pairs for every correspondent, both suggested and in use, map of ids | generate, absorb a suggested pair, choose a pair for a message, find a pair by id |
| Client file system (`lib-client/3nstorage/xsp-fs`) | queue of saving tasks, folders, file versions | schedule a save, make, move, delete, read |
| MailerId provider (`mailerId`) | users in memory and on a disk, root and provider certificates | add user, certify, rotate |
| Certificates (`lib-common/mid-sigs-NaCl-Ed.ts`) | none | certify, sign an assertion or a key, verify a chain |
| Byte sources and sinks (`lib-client/byte-source.ts`, `xsp-fs/common.ts`) | a queue of chunks, a deferred read, a segment in process | push, take out, swallow, read, pack, open |
| Accounts and sign up (factories, `user-settings` applications) | a map of folders, folders with files of parameters | look up, make, read parameters, make a root |
| Encodings, requests, pages, `delta.ts` (`lib-common`, `lib-client`, `client-apps`) | mostly none | conversions |

`PROJECT.json` lists the same parts, with the status of each.

### 1.2 How they interact

* A client of every service opens a session, authenticates in it, and then
  makes requests with an id of the session in a header. Middleware of Sessions
  picks the session when headers come. Handlers use it later.
* `saveObj` of a client starts a transaction, sends the header, waits, sends
  segments, waits, and finalizes. On a failure it cancels. The server's Store
  shares no memory between requests: files are its state.
* A sending application of ASMail makes its session with the recipient's server,
  and sends metadata, bytes and completion. A receiving application lists folders
  that completion has moved to `messages/`.
* Keyrings and mail settings of a user are files in the client file system, and
  are, thus, objects of 3NStorage.
* A login with MailerId takes a signer from a manager, which gets it from a MailerId server by a
  public key login; the service verifies an assertion against a chain up to the present root.
* An application opens its file system from the root folder. Objects on a storage server are
  all that pages of one user have in common.
* All handlers of bytes go through the pump in `file_ops.ts`, which opens a file
  *by its path* each time there is enough in a buffer.

### 1.3 What is hard here

* Interleaving of file operations of different requests, and of parallel tasks
  of one request: `Q.all` rejects on the first failure, and does not stop others.
* Death of the process between two file operations, and in the middle of
  `writeFile`, which first truncates a file, and then writes.
* Checks that are stale, when used: a transaction's id is compared with a file,
  and bytes are written by a path later; a session is picked, and closed by
  another request or by the timer, before a handler uses it.
* Connections that drop: client thinks that its request has failed, while the
  server goes on processing it; a browser may repeat a request.
* Counters that are not tied to what they count (`sessionCount`).
* Numeric edges: offsets and lengths of chunks, loops over a queue that shrinks, intervals of validity.
* Objects of a page that are shared by calls that overlap: a provisioner, a form, a receiver.
* Pages that are closed at any moment, or opened twice, and leave halves of what they were making.

The complete list, each item at its line, is under "hazards" in `PROJECT.json`.

### 1.4 What makes the parts correct

* Transactions: at most one in progress on an object; a transaction with an id
  is not broken by others; versions appear atomically, in order, and stay; a
  version has bytes of its own transaction; an opened transaction gets closed.
* Sessions: the timer runs when there are sessions to look after, an idle session
  is closed in time, rejected credentials end a session.
* Delivery: the recipient sees only complete messages, each appears once and
  whole; what the sender was told to be delivered is kept; a recipient gets to
  know every delivered message.
* Keyring: correspondents have keys to read each other's messages, to use each other's
  suggestions, and to reply, in whatever order messages are opened; a loss of any of
  these comes only from a loss of keys.
* Logins: only who has shown a passphrase gets a certificate; what a client keeps after a failed,
  a lost, or an overlapping login does not lock it out; a signer that is given out is good for long enough
  to log in; a mail key is verified during all of its life.
* Bytes: what a reader gets is what one save has put, and reads end.
* Accounts: the account of a user, its root folder, and tokens that were given, stay, whatever restarts
  and repeated sign ups come; a user who goes on trying gets an account.
* Client file system: the last content that was scheduled is saved, whichever saves are
  merged or fail before it, content on the server never goes back to an earlier one,
  and a file system that is closed has nothing unsaved. A folder does not list what is not there, and
  what was once found in a tree is found later.

## 2. Modules

| Module | What it is |
|---|---|
| `ObjTransaction` | the Store's handlers of transactions on one object, with saveObj's client, fs call by fs call |
| `VersionedObject` | abstract specification: a sequence of versions, each of which appears at once |
| `ObjectProofs` | inductive invariants and theorems about `ObjTransaction` and `ObjBytes` |
| `Sessions` | a single process factory of sessions, with its timer and requests in process |
| `Delivery` | delivery of messages to one inbox, and their retrieval: server, sender and recipient |
| `Mailbox` | abstract specification: a message appears whole, and goes away on request |
| `DeliveryProofs` | inductive invariant and theorems about `Delivery` |
| `FsSaving` | the client's queue of saving tasks, and the requests of `saveObj` that empty it, up to logout |
| `FsSavingProofs` | inductive invariant and theorems about `FsSaving` |
| `Keyring` | rings of correspondents: pairs that are suggested in messages, absorbed and used, introductory keys, saving and restarts |
| `KeyringProofs` | inductive invariant and theorems about `Keyring` |
| `Provisioning` | calls for a MailerId signer, which share a form and a provisioner; public key login and certification on a server |
| `ProvisioningProofs` | inductive invariant and theorems about `Provisioning` |
| `Certificates` | certificates, assertions and their verification, as operators |
| `MidLogin` | MailerId logins over a clock, with the provider's server that restarts and replaces its root |
| `MidLoginProofs` | inductive invariant and theorems about `MidLogin` |
| `ByteSource` | a client's buffer, pipe, packing, and decrypting source, as operators |
| `ObjBytes` | bytes of an object on the whole way from a saving client to a reading one |
| `MCObjBytes` | lengths of arrays, with which `ObjBytes` is checked |
| `Accounts` | making of an account, its files over restarts, sign up pages, tokens for senders, and a sender that comes with one |
| `ServicesProofs` | inductive invariants and theorems about `Sessions` and `Accounts` |
| `FileTree` | a tree of folders, as pages make it, open it, and go down in it |
| `FileTreeProofs` | inductive invariants and theorems about `FileTree` |

TLC runs instantiate these modules with model values in `.cfg` files. A run of a component with
proofs uses its module of proofs, so that what TLC evaluates, assumptions on constants included, is
what theorems are about. `ServicesProofs` and `ObjectProofs` are about two components each, and their runs use the
components themselves; for these modules definitions of `Sessions` and `ObjBytes` have names of their own, like `SessionsSpec` and `BytesSpec`.
Each inductive invariant (`IInv`, `GInv`, `AInv`, `ReadInv`, `WholeInv`) was checked by TLC, as an invariant of the same
configuration, before it was proved; `AInv` also with overlapping attempts to make an inbox, as far as the first 12 million states, and the
last two with "being a sequence" said in a way that TLC can evaluate.

`ObjTransaction` and `Delivery` implement the abstract `VersionedObject` and `Mailbox`. Other modules see
a part that has a module of its own in a coarser way: `FsSaving`, `ObjBytes` and `FileTree` see a transaction of
`ObjTransaction` as requests that are accepted or refused, a lock, and a finalization; `MidLogin` sees
`Provisioning` as a step that gives a signer; `Accounts` sees a validation of `MidLogin` as an outcome.

Definitions whose names start with `Wrong` or `Stuck`, and which the model does not use, are broken
variants of those that follow them. They show that properties notice
plausible bugs: with a broken variant in place of the original, a property of the
same configuration is violated. Pairs are under "mutants" in `PROJECT.json`. (`Stuck` of `Provisioning` is an
exception: it is a part of its properties.)

### 2.1 ObjTransaction

One object, and a set `Trans` of requests that try to start a transaction on it. A
transaction is named by its request, as the code gives it a random id.

| Variables | Code |
|---|---|
| `objFolder`, `current`, `curVer`, `verFiles` | object's folder, `current.v` with its text, version files; `from` of a file is the transaction that allocated it |
| `lock`, `params`, `newFile` | transaction's folder, the file `transaction`, and `new.hxsp`, `new.sxsp` |
| `bytes` | ghost: whose bytes were written into a file that was allocated by a transaction |
| `start`, `tasks`, `isNew`, `ver` | a request in `startTransaction`: stage, its parallel tasks, `trans.isNewObj`, `trans.version` |
| `put`, `close`, `renames` | requests in `saveObjChunk` and `completeTransaction` |

One action is one file system call, with synchronous code that follows it. Thus
`setObjVersion` is two actions (truncation and writing), tasks of a start interleave
with each other, and both renames may go in any order. `StartTransaction` is `mkdir`,
which is the lock. If a start fails, the code calls `completeTransaction` with
cancellation, this throws as there are no parameters on the disk, and the error is
swallowed. This is why a failure changes nothing but the state of the request.

`Crash` is death and restart of the process. Requests in process are gone, and so
are sessions, which are in memory, so that clients do not go on with their
transactions.

A client sends its requests in the order of `saveObj`. Transactions in `Dropping`
have a client that may think at any moment that the connection is lost, and cancel,
while its bytes are still being processed. `LoseRequest` is a client, whose next request never
comes: a reply with an id, a finalization, for which `saveObj` does not wait, or a cancellation is lost, or
the page is closed. Nothing repeats these requests, and the object stays locked.

`WriteBytes` is one write of the pump, which opens a file by its path. After it more bytes are to come,
or all are written, or a tail of them stays in the pump's buffer, and the request is never answered (`stalled`).

What is abstracted: length of bytes, headers and checks of a handler that change
nothing, outcome of a space check (any), all of the reading.

### 2.2 Sessions

`dict`, `count`, `timer` are `sessionsDict`, `sessionCount`, and the interval of
`mem-backed-sessions-factory.ts`. Time is discrete: `Tick` increments idle times and
`sinceCheck`, and cannot pass the moment when the interval fires. A request is
`Arrive`, in which middleware picks a session, and a later step of its handler.
`closes` is a ghost, that counts calls of `close` on every session. `Generate` draws
an id that was never used, as the code draws random bytes.

The stage after `Arrive` is separate, as bodies of requests come later, and as
MailerId assertions are validated in promises. Authentication may be done by many
requests of one session at once.

### 2.3 Delivery

A message names its session and its folder, with one sender. `place`, `meta`, `sizes`,
`files`, `at` are what is on the disk: the folder, `meta.json`, sizes that it holds,
object files, and what bytes are in the place of every chunk. `md`, `put`, `fin`,
`found`, `rm` are requests in process, and `known`, `todo` are in the receiving
application. A message has an object with a header and segments. Segments of messages
in `Long` need two chunks. With a last chunk that is not full, `sendSegs` reads
after the end of its array and throws (`mail-sending.ts:125-140`): this is `SendSegsThrows`, and a chunk, that
is full, goes on in `PutBytes`.

Bodies of requests of messages in `Big` do not fit into the server's buffer (`writeBufferSize`, 4K by default). The pump
writes them in pieces, each of which opens a file by its path, or leaves a tail in its buffer, and never answers (`hung`).
`cut` has chunks, that are written so. `Position` is a definition on its own, as this is where the code departs from its
protocol: offset of a chunk is checked, and never passed to storage, and bytes of every piece go to the start of a file.
A body that drops on its way is `DropBody`, after which the first request for a file removes it (`UnlinkFile`).

`quit` has messages, whose sender has stopped: by an exception, or by a request or a reply, that was lost (`SenderFails`).
Every failure goes to the end of the chain in `sendMsg`, is logged there, and nothing is repeated.

`Expire` closes a session by its timer, in the middle of any request. `Crash` is the
server's death. `Fin` is the set of completion requests: with two of them the completion is
repeated, while the first one is in process.

### 2.4 FsSaving

A folder `Dir` and files in it. `mem` is what an application has made of entities, `told` is
what has happened to promises of `File.save`. `ordered` and `byId` are `objsToSave` of `fs.ts`;
`stage` and `cur` are the process that empties it (`savingProc`), together with the request of
`saveObj`, in which it is. `exists`, `saved`, `stored`, `locked` are a server's folder, current
version, its content, and a transaction's folder of each object. `finals` are requests to
finalize: `saveObj` sends one, does not wait for it (`service.ts:382-384`), and is resolved.

Content is the set of changes that led to it, so that a later content includes an earlier one,
and "goes back" is "is not a superset". A server's transaction is seen at the level of
requests: one is accepted, refused, fails after it has made its folder, or has its reply
lost; what happens between its fs calls is in `ObjTransaction`.

`StartRefused` is the refusal due to a transaction's folder that is there, including the
one of a previous save of the same object, whose finalization is on its way. `Close` is either
`FS.close()`, which waits for the queue and then logs out ("drain"), or `FileStorage.close()`,
which closes a storage in parallel ("parallel"). After it an application makes no calls.

What is abstracted: chunks of bytes, and encryption, which is done before a task is queued.
Subfolders are entities in the same queue; moves and reading do not change it.

### 2.5 Keyring

Users, each with a ring in a running application (`ring`) and in a storage (`saved`). A ring has
published and retired introductory keys, and, for every correspondent, what `CorrespondentKeys`
has: a sending pair with its time, and a suggested reception pair. `known` says that there is
an object of a correspondent. Pairs "in use" and "old" are left out, as they are always null:
`markPairAsInUse` is never called. `served` is the key on a mail server, `msgs` are all messages
that have been sent; a message that is lost is one that is never opened. A message is named
by what it has: keys or pair that it is encrypted with, and the pair that it suggests. `clock`
gives delivery times at the recipient's server.

`SendMsg` is `generateKeysForSendingTo` with everything it calls, and a look up of a
stranger's introductory key. An old reply to that look up is the same as a server that is
told of a new key later (`SetInitPubKey` is a separate step). `OpenMsg` and `StartTrust` are
openings of a message from a known correspondent and from a stranger, with the button that may
be pressed later. `Absorbed` is `setSendingPair`, with its three outcomes: an old suggestion is
ignored, one for an unknown key throws, when the correspondent has already been added, others
are taken. `SaveChanges` is separate from all others, as nobody waits for the promise of
`saveChanges`. `Restart` brings what is saved, and generates a key, when there is none.
`UpdatePublishedKey` is exported by a ring; the present application calls it only in `init`, when
there is no key (`mail-conf.ts:113-121`), its button being commented out (`app.ts:123`).

`forgotten` is a history of keys that were lost in an unsaved restart, or by a second update of an
introductory key. Properties say that nothing but such a loss makes a message unreadable, or a
suggestion useless.

A key stands for its id, and pair ids (5 random strings of 4 characters each) for the
recipient's key that is generated with them; their collisions, which the code admits by trying
all correspondents with the same id, are not modelled. Invitations are left out: no step depends
on them.

### 2.6 Provisioning

Calls of `provision()` of an identity manager come in their order, and any number of them overlap. They
share a form (`form` is the call, with which the deferred was set last), and one provisioner: `owner` is its user
id, `prov` has the other fields, i.e. a session id, a challenge, an encryptor, and a certificate. A call starts at most
one exchange, so that a session and its key are named by a call. `net` is a request or a reply of each call, `sess`
are the server's sessions. `right` has calls, with which a right passphrase was typed; a challenge is opened with
the right key only then.

A callback of a request and a promise that waits for it run in different turns of an event loop. Other calls may come in
between: these are the stages "cleared", "got" and "missed". `Lose` makes a call to miss its reply: a request may be dropped, served already, or come to the server
later. `Expire` closes a session. `hurt` is a ghost, with calls that
met any of it, or overlapped with another call.

### 2.7 Certificates and MidLogin

A certificate is a record with its key, a key that signs it, and an interval of validity. A signature is right, when it is
made with the expected key. `VerifyChain` checks a certificate of a root for the moment, when a provider's one was
made, and so on, as the code does; only the last one is checked for the present.

`MidLogin` has a clock, the MailerId server's `root` and `prov`, a manager's `signer`, and calls of `openInbox`
(`mail-getting.ts`), which share a variable with a receiver. `Restart` is a restart of the MailerId server: a root is
replaced, if it has expired by then, and a provider's key is always new. Calls take a signer, which is reused while it is valid
with a margin, start a session, sign an assertion, authorize, and then make a request. The clock ticks between any two of these.
`faults` has a count of losses and expirations, and calls that were hurt by them or by other calls. `RootNotFetched` is a
reply of the MailerId server with an error, or without a certificate: a service then refuses a login as a wrong one, and closes
its session (`mailerid-authorizer.ts:93-97`). A root that never comes is the same for a call as a lost reply (`Lose`).

### 2.8 ByteSource and ObjBytes

Operators of `ByteSource` are methods of classes in `byte-source.ts`. `Left` is the loop of `extractAllBytesFrom`, which
compares a counter with a length that shrinks: it removes a half of a queue. A pipe is a sink with a source, whose
read may be deferred, and resolved by bytes, or by an end, that come later. `Packs` tells which lengths of arrays do not
make the packer throw.

`ObjBytes` has one saving and one reading client. Bytes are pairs of an attempt to save and a position, so that a
property tells, whose bytes a reader gets, and which. A body comes to the server's pump in one or two pieces, cut at any place;
the pump collects them in a buffer, and writes them, as `streamToExistingFile` does, at a position that is counted from
the body's start, since an offset is not passed to it. A completed transaction is the next version of an object. A reader
asks for a header, and then for chunks of segments, with versions of replies compared; a reply may be lost.

### 2.9 Accounts

One user's account at one service, which is a variable. `map` is the factory's folder of the user, in memory; `disk`
has folders of attempts, with the file of a user's id and files of parameters. A file is absent, empty or full, as a write
is a truncation, which is followed by a write. `make` are requests to make an account, and `tasks` are parallel calls
of its initialization. `Restart` of a server drops all of these, and picks up folders, in any order, if there are many.

Pages sign up: they look for an account, ask to make one, and then make a root of storage with a key, whose
salt is named by an attempt (`Own` is a salt of a page that no server's folder has). Pages of mail application read invitations,
add a token, and write them back, with no lock. A page makes a token up before it is stored, and gives it out even when storing
has failed (`LoseSetting`), as failures are swallowed. One sender comes with a token, or with its name, and goes from pre-flight
to start of a session, authorization, a look up of a key, and metadata.

A root is saved in a transaction (`trans`): `StartRoot`, `SendRoot`, and `FinalizeRoot` on the server, which nobody waits for. A start that fails,
a request that is lost (`LoseRoot`), a restart, or a finalization that comes after a logout (`FinalizeLost`) leave the transaction's
folder, and every next try is refused by it. Bytes of a root, which are sent between a start and a finalization, are in `ObjTransaction` and `ObjBytes`.

`AdaptToFreeSpace` is the last part of an answer to a sender: `du` may fail, which is an error, told apart as `duFailed`, and an inbox may be full.

`broken` has folders, whose calls were interrupted by a restart, or came out of order (a file before its folder), and those with a
root's transaction that is left. `hurt` has what properties make exceptions for: attempts that overlap, a root that is made after a reply "account exists",
pages that take tokens at the same time, and those, whose requests to set a token have failed.

### 2.10 FileTree

Pages start in an order. The one that signs up makes a root with a system folder. Others open the root, go to the application's
folder, look for a ring's folder, make it, if it is not listed, then load or make a file of a keyring, and save changes
of it. A page knows of a folder what it has read. `queue` is a sequence of saving tasks with merging, `cur` is the task in process,
with its transaction; `stored`, `locked` and `finals` are as in `FsSaving`. `Leave` closes a page at any moment, between
any two of its requests; requests to finalize, which are on their way, come later. `lost` has objects, whose save has
failed, or was left without finalization; `hurt` tells that pages have overlapped.

## 3. Runs

| Run | Configuration | Shows |
|---|---|---|
| `transactions` | `ObjTransaction.cfg`: 3 transactions, 1 of them with a dropping client, 80,428 states | the lock excludes, a transaction with an id is not broken, finalized versions stay, refinement of `VersionedObject`; a transaction, whose start was confirmed, is finalized or cancelled, if no request of it is lost, its pump answers, and the server does not die |
| `lock_leak` | `LockOnlyForTransaction.cfg`: 2 transactions | violated: a failed start leaves its folder without a file with parameters, and the object stays locked (`store.ts:432`); a death of the server, and a start in process, are excepted by the property |
| `sessions` | `Sessions.cfg`: 3 sessions, 3 requests, timeout 2, period 1, 786,688 states | the timer follows the count, sessions are swept, if none is closed twice, rejected credentials end a session |
| `delivery` | `Delivery.cfg`: 2 messages that fit into the server's buffer, 1 completion each, 95,229 states | refinement of `Mailbox`, the recipient gets to know messages |
| `delivery_retried` | `DeliveryRetried.cfg`: 1 long message, in pieces, 2 completions, 275,031 states | what is listed is complete, what is confirmed is kept, delivery ends, unless it meets one of the stated failures |
| `fs_saving` | `FsSaving.cfg`: a folder, a file, 3 saves, 1 fault, 112,909 states | merged and failed saves forget nothing, content on the server never goes back, and gets there, if nothing fails |
| `keyring` | `Keyring.cfg`: 2 users, 2 messages to each, 1 update, 1 restart, 240,267 states | what is sent may be read, suggestions may be used, and everyone known may be written to, unless keys are forgotten; late messages do not break an established pair |
| `provisioning` | `Provisioning.cfg`: 3 calls, 2 at once, 2 ids, one of which is known, 484,864 states | a signer has its own certificate, only a right passphrase opens a session, an idle provisioner is not locked out, a call ends with a signer, if it is not hurt, whatever calls before it have left |
| `mid_login` | `MidLogin.cfg`: 2 calls, 1 restart, 2 faults, time up to 4, 598,337 states | prompt logins are accepted, when a service has a root to check them with, a mail key is verified through all of its life, an idle receiver has an authorized session, a call that is alone is served |
| `object_bytes` | `ObjBytes.cfg`: 2 saves of 11 kinds of arrays, 2 readings, 1 lost request, 32,865 states | a fulfilled read gives bytes of exactly one save, an object of one sent chunk is stored whole, an undisturbed read ends |
| `accounts` | `Accounts.cfg`: 2 pages, 4 attempts, 1 restart, lost request or lost reply, 220,742 states | the account stays, its root opens, tokens that were stored are accepted, and a user who goes on trying gets an account, unless calls on its folder were interrupted |
| `file_tree` | `FileTree.cfg`: 3 pages, 2 at once, 2 changes, 1 failure, 707,213 states | folders do not list what is not there, a keyring that was found is found later, the last page gets to it |

`TwoDropping.cfg` is not a run of `PROJECT.json`. It checks safety properties of `transactions`, with two clients, whose connections
drop: 428,741 states, and no violation.

The following configurations are not runs of `PROJECT.json`, as they are about single traces. With each of
them (`tlc -config X.cfg M`) TLC finds a violation, in which the code departs from its own comment:

| Configuration, module | What a trace shows |
|---|---|
| `CurrentVersionReadable`, `ObjTransaction` | `current.v` is truncated before it is written (`store.ts:324`), so that a reader or a start, or everyone after a death of the process, finds no current version, while `store.ts:30` says that the file has it |
| `BytesInOwnTransaction`, `ObjTransaction` | bytes of a cancelled transaction get into a file of the next one (`store.ts:599`), while `lib-common/service-api/3nstorage/owner.ts:104` speaks of a "Transaction id, in which these bytes are absorbed." |
| `SweptInTime`, `Sessions` | a session is closed twice, the interval is cleared, and another session is never swept (`mem-backed-sessions-factory.ts:66`), while lines 27-28 promise "clearing up sessions that past given timeout" |
| `ListedAreWhole`, `Delivery` | a message with segments in two chunks, or with a body in pieces, is listed with bytes in a wrong place, or without them (`put-bytes.ts:117` drops an offset, `mail-sending.ts:147` does not wait), while `inbox.ts:23-24` says that "complete messages are moved to 'messages' folder" |
| `ChangesWritten`, `FsSaving` | a closed file system has unwritten content, as logout overtakes a finalization, for which nobody waits (`service.ts:382-384`), while `3nstorage/user-settings/public-content/account.ts:237` logs "All changes are written to server." |
| `SentIsTotal`, `MCObjBytes` | a sender takes out more bytes than its source says it has: `extractAllBytesFrom` leaves a half of its queue (`byte-source.ts:93-95`), while a comment at line 41 describes a total "that come from this byte source" |
| `StructureConstructed`, `Accounts` | an account is told to be made, while its default files are not there (`inbox.ts:687`), and lines 103-107 say that a promise is resolved, "when inbox store's disk structure has been constructed." |

### 3.1 Bounds

* Three transactions are enough for the one that is in progress, a late request of a
  previous one, and a start that comes meanwhile; it also gives versions above one. One
  version number is the longest chain of interest: the code looks at the current one only.
* In `transactions` one of three connections drops: its late requests meet both other transactions. A second one makes a behaviour
  graph, in which TLC looks for an unfair cycle, five times larger, and is left to `TwoDropping.cfg`, for safety only.
* Three sessions are needed for a count to become wrong, and to go up again; three
  requests let two of them close the same session, while the third one uses another.
  Timeout is twice the period, as in the code.
* Two messages are needed for a listing that fails on one message and has another one to
  get. A long message and a repeated completion act within one folder, so that one
  message is enough for them; together with a second message the number of states is a
  product of two. A body in pieces has two of them: the third one does to files what the second does. Messages of
  `Delivery.cfg` are not in `Big`, since properties of this run are about them, or about recipients; theorems have messages of all kinds together.
* Three saves of a file are: one on its way, one being sent, and one that is merged into a
  queued one. The folder is the second object of the queue. One fault of any request leaves
  a state from which everything else has to be right; each of refusals without faults
  may happen any number of times.
* `MaxFaults` in `FsSaving` is a bound on lost requests and expired sessions, in `Fault`.
* Two messages to each user are the one that is on its way, when the next one is sent, so that
  they may be opened in a wrong order; an older suggestion, and one for an older key, come with
  them. One restart and one update are the events that lose keys; a second update is allowed for
  in theorems. `MaxMsgs`, `MaxUpdates` and `MaxRestarts` are guards of `SendMsg`,
  `UpdatePublishedKey` and `Restart`.
* `idle` in `Sessions` stops at `Timeout + Period`, a bound in `Tick`: more idle time makes no
  difference to any guard.

* Three calls in `Provisioning` are: one that leaves something in the provisioner, and two that overlap. A
  third one at once would only wait for the same form. One of two typed ids is unknown to the server.
* Lives in `MidLogin` are small, and ordered as in the code: an assertion is shorter than a user's certificate,
  this one than a provider's, and this one than a root's; a margin (60 s) is less than each of
  them. A clock that starts at 2 and goes to 4 passes the ends of a root that was made at 0, of a provider's certificate of an earlier
  start, and of a user's one. One restart then meets a root that is valid, or has expired. `KeyCert` lives longer than its chain.
* In `ObjBytes` a segment is 2 bytes, a sent chunk 3 segments, a requested one 4, and a server's buffer is less than a chunk, with
  bodies cut at 1 to 4. Lengths of arrays are 0 to 9: nothing, a part of a segment, a whole number of segments, a chunk, and more
  than a chunk; pairs of arrays are a folder's key and the rest, some of which do not pack. Two saves give a reader two versions, and two
  readings follow a lost reply by the next one. `MaxSaves`, `MaxGets` and `MaxLost` are guards.
* Four attempts in `Accounts` are: two of one page, with a lost reply in between, and two of another. Attempts overlap at
  a storage only (`Overlapping`); at mail this adds ten times more states, and the factory's code is the same.
* Three pages in `FileTree` are: one that signs up, one that makes a keyring and is closed anywhere, and one that has to find it. Two
  pages at once are an exception in most properties, yet `NoDangling` holds for these, too.
* `MaxRestarts`, `MaxFaults`, `MaxTime`, `MaxAsks`, `MaxBusy`, `MaxChanges`, `MaxRunning` are guards of restarts, faults, ticks, attempts to make an account,
  starts of pages, changes of a keyring, and starts of calls.

All other variables are bounded by constants: every request is done once.
Deadlock is not checked, as in all modules all requests may be done.

### 3.2 Fairness and liveness

* `ObjTransaction!FairSpec`: weak fairness of server's steps and of client's steps of each
  transaction. The event loop calls back for every fs operation, and a promise chain of
  `saveObj`, none of whose requests is lost, goes on to either `completeTransaction` or its cancellation. `LoseRequest`
  is possible at each of these steps, and then nothing comes. There is
  no fairness for starts, losses and crashes. `EventuallyClosed` leaves out transactions that were
  in process when the server died, that have lost a request or a reply, and whose pump of bytes has not answered: each of
  these leaves an object locked.
* `Delivery!FairSpec`: weak fairness of each message's sender, delivery and removal
  steps, for the same reasons; weak fairness of `ListMsgs`, as a user goes on pressing
  the button; strong fairness of getting metadata of listed messages, i.e. the server does
  not die in the middle of every listing. None for `StartSession`, `SenderFails`, `DropBody`, `Expire`, `RmMsg`, `Crash`.
  `EventuallyDelivered` leaves out lost sessions, senders that have stopped, and a pump of bytes that never answers: the code has no way to resume a
  delivery. `EventuallyKnown` leaves out states with a message, whose removal was
  interrupted: such message does make listing fail forever.
* `FsSaving!FairSpec`: weak fairness of the saving process and of requests to finalize, since
  each request of a browser ends with a reply or an error. None for calls of an application,
  closing, and expiration of a session. `EventuallySaved` leaves out behaviours, in which some save
  has failed: a task that has failed is not tried again.
* `Provisioning`, `MidLogin` and `FileTree`: weak fairness of all steps of clients and of servers together. Requests end with a reply or
  an error, and promise chains go on; each call or page has a few of these steps, so that none may
  be left waiting forever. None for users, the clock, restarts and losses. `AloneSucceeds` leaves out calls
  that are hurt, and a session that an earlier lost reply has left authorized. `AloneIsServed` leaves out hurt calls (a root that was not got is among causes), an expired
  certificate of a provider, a replaced root, and logins that are slower than the margin. `PageOpens` is
  about the last page, when all that it needs is stored whole and is not left locked: a page that is closed in the middle of a
  transaction leaves an object locked forever.
* `ObjBytes`: weak fairness of replies to the reader, and of its reads. `ReadCompletes` leaves out reads that meet a loss or a new version
  in between (`Disturbed`), and objects that are not stored whole.
* `Accounts`: weak fairness of the server's steps, of a page's sign up, which tries again, as a user presses
  a button, and of writing of invitations. `SignsUp` leaves out folders, whose calls were interrupted or came out of order, a
  root's transaction that was left among them: these stay broken forever. A lost reply to an attempt, or a request that has changed nothing, is not an exception.
* `Sessions` has no fairness: its promise about time is stated as a bound on idle time. `Keyring`
  has none: its users may stop at any moment, and nothing is promised to happen.

## 4. Theorems

Proofs are for any values of constants, under assumptions named in modules:
any number of transactions, sessions, requests, messages, completions, files, faults, users, calls, pages, attempts, any lives of certificates,
and any sizes of arrays, segments, chunks and buffers.

| Theorem | States |
|---|---|
| `ObjectProofs!TypeCorrect` | types of `ObjTransaction`, for both kinds of objects |
| `...!OneTransactionHolds`, `NoInterferenceHolds`, `FinalizedStaysHolds`, `OwnBytesHolds` | safety properties of `transactions`, for non-root objects |
| `ObjectProofs!Implements` | `~IsRoot /\ Spec => Versions!Spec` |
| `ObjectProofs!ReadIsSavedHolds`, `StoredIsWholeHolds` | safety properties of `object_bytes`, for any arrays, sizes, cuts of bodies, and numbers of saves, reads and lost requests |
| `ServicesProofs!TypeCorrect`, `TimerFollowsCountHolds`, `SweptUnlessClosedTwiceHolds`, `FailedAuthEndsSessionHolds` | properties of `sessions` |
| `DeliveryProofs!TypeCorrect`, `OnlyCompletedListedHolds`, `DeliveredIsKeptHolds` | safety properties of `delivery` and `delivery_retried` |
| `DeliveryProofs!Implements` | `Spec => Box!Spec`: messages, whose bodies fit into the server's buffer, are in an inbox those of `Mailbox`, whatever other messages are next to them |
| `FsSavingProofs!TypeCorrect`, `NothingForgottenHolds`, `NeverBackHolds` | safety properties of `fs_saving` |
| `KeyringProofs!TypeCorrect`, `ReadableHolds`, `AbsorbableHolds`, `CanReplyHolds`, `StaysEstablishedHolds` | properties of `keyring`, for any users, and any numbers of messages, updates and restarts |
| `ProvisioningProofs!TypeCorrect`, `SignerIsWholeHolds`, `OnlyRightPassHolds`, `IdleNotStuckHolds` | safety properties of `provisioning`, for any number of calls and of those at once |
| `MidLoginProofs!TypeCorrect`, `PromptIsAcceptedHolds`, `MailKeyVerifiesHolds`, `IdleIsLoggedInHolds` | safety properties of `mid_login`, for any lives, restarts and time |
| `FileTreeProofs!TypeCorrect`, `NoDanglingHolds` | properties of `file_tree`, for any number of pages that overlap, changes and failures |
| `FileTreeProofs!KeyringStaysHolds` | an action property of `file_tree`, for any number of pages that follow each other |
| `ServicesProofs!AccountsTypeCorrect`, `FolderStaysHolds`, `RootOpensHolds`, `TokenIsAcceptedHolds` | safety properties of `accounts`, for both services, any number of pages, attempts and faults, and any set of services whose attempts may overlap |

### 4.1 Inductive invariants

`ObjectProofs!IInv`. `OneTransaction` is about requests, while what excludes them
is a folder on the disk. The conjunct `Lock` connects the two: whoever is in the middle of
anything has the folder, and there is only one. `Folder` and `FreeFolder` say what the
folder holds at each stage of its holder, also for a failed start, whose tasks are
still running: those may allocate files, and write "new" to `current.v`, but only of an
object that they have just made. `Current` and `Version` connect the text of `current.v` with
the version of the transaction in process, `Files`, `Pending` and `Finalized` say which
version files are there, who they are from, and which are half renamed. `Bytes` says whose
bytes are in which files. The lemma `CommittedIsCurVer` lets the refinement proof consider
only `WriteCurrentVersion` as `Commit`, and everything else as stuttering. The root object
needs `~IsRoot`, because a start with `isNewObj` on an existing root object does not check
for its existence (`store.ts:390-394`), and version numbers start from one again.

`ObjectProofs!ReadInv` and `WholeInv` are about `ObjBytes`, operators of which are folds over sequences. What a fold gives is proved from
the library's theorem about minimal elements: `Induction` says that a set of numbers, with zero and with a next one of each, has all
numbers, so that a fact about every step of a fold is a set, and no operator is a parameter (`FoldExists`, `Total`, `FlattenSegments`, `PackedPipeIs`,
`OneWrite`). `SavesInv`, a common part, says what every save and version is a sequence of. In `ReadInv`, `Chosen` says that a pipe has bytes of
one version only, which came with a header, whatever is saved later. A reader may get them many times, or from the middle, so
`Decrypting` does not follow positions. It says that a source either has got nothing (`Fresh`), or is `Stuck`: it lacks bytes for the next segment,
and what it keeps starts with the first stored byte, or its first segment was opened from there. Bytes of a content
are all different, thus after that no other segment opens (`StuckStays`), and a read that succeeds has opened all segments by its first portion
of bytes, with nothing before them (`FreshOpens`). In `WholeInv`, `SentAtOnce` says of an object of one chunk that nothing of it is sent, or its first
body has all of it, or a file has all of it, and the next bodies, which a buffer gives out again, are a start of the same segments
(`Prefix`), so that writing them at the file's start changes nothing (`WriteContent`). `NoneAssumption` says that `null` is no array; the code tests for it.

`ServicesProofs!IInv` has `TimerFollowsCount` and `Registered`, `Held`, `Counted`, `Checked`: while
no session is closed twice, the count is the cardinality of the dictionary, thus a set
timer, and an idle time of a session is within `Timeout` plus time since the last check.

`DeliveryProofs!IInv` follows a message's folder: `Order` is the order of sender's
requests, `Stored` and `Written` say what files and bytes are there after each request,
`Found` what a completion has found, `Sized` and `Moved` relate what completion saw to what is
in metadata and in the folder, `Listed` is about all listed. It is needed since a message is
moved by any of completion requests, and what it found is a snapshot, taken before
the move of another one.

`FsSavingProofs!IInv`. That content on the server never goes back is not a fact about the server:
`Grows` orders contents of an object over all places, where it can be, from the server to a
request to finalize, to the one that is being saved, to the application. Its induction needs that
there is never more than one request to finalize an object (`Finalizing`), and that none is left,
when bytes of a next save are sent (`Process`). Both come from the transaction's folder, which a
request holds till it is processed. `NothingForgotten` needs `Tasks`, i.e. that a queued task has the
latest content, and `QueueOK`, without which a merged task could be taken out twice or never.
`Uncreated` says that files, which are not in the folder, are nowhere.

`KeyringProofs!IInv` follows a key through places, where a reference to it may be. A message is
readable, because the pair that it is sent with is one that its recipient has suggested, which is a
fact about the sender's ring (`Rings`), also about the saved one, from which a restart may bring an
old pair; and it comes from a fact about the message that suggested the pair (`Messages`).
`KeysStay` is the lemma under it: a step keeps a key, or remembers it as forgotten.
It needs that a suggestion is never replaced by another one, with restarts included:
`SavedSuggestions`. `Suggestions` and `Served` say the same about keys, for which suggestions
are made, and about keys on servers. `Displayed` is about a message with a button under it,
while keys are updated. `Ordered` is there for `StaysEstablishedHolds`: all messages after one with
the present suggestion have this suggestion as well, so that a newer time of a message is enough to
choose among suggestions. Theorems cover any number of updates: `CanReply` itself makes an exception
for users with more than one.

`ProvisioningProofs!IInv`. While no call is hurt, calls run one at a time, and the provisioner's fields are those of the running one: `Quiet`
says this (`OneRuns`, `Waits`, `Fields`), and that an authorized session is the one that the provisioner holds, while a call is going to
close it (`IsHeld`, `Holds`). This gives `IdleNotStuck`. When calls overlap, nothing of this is left, and `OnlyRightPass` has to come from
encryptors alone: `GoodKeys` says that a session has a good one, and that a good one is in a request only if a right passphrase was typed for its call.
`Kinds` connects messages and stages.

`MidLoginProofs!IInv`. `Chains` says of a chain, in a signer, or in use by a call, that its certificates are right for the moments of
their making, as long as the root is the same (`Verified`), and that a user's certificate had a margin left, when a call took it (`Timely`).
`Assertions` says what an assertion on its way was made from (`Asserted`), and what has become false, when a service has refused it
(`Refusal`). `Pointers` are types of references between calls. `PeriodsAssumption` is what constants of the code satisfy: a margin of 60 s
(`identity-management.ts:29,31`) is less than lives of assertions and certificates (`mid-sigs-NaCl-Ed.ts:101`).
`IdleIsLoggedIn` is about an idle receiver, and says nothing of how it came to be so; calls share its session id and a session object,
so it is an invariant of all stages. `Quiet` says it for calls that are not hurt: each has a receiver of its own (`Own`), and at every
stage, whoever has the request, it is known what the service has made of the call's session (`Granted`, `Decided`). `Matched` excludes
requests of one kind at a stage of another.

`FileTreeProofs!IInv`. `NoDangling` is about objects on a server, but it is kept by queues of pages. `Settled` tells that an object is stored, is
in a request to finalize, or is lost. Every listed child of a folder that a page is going to write is settled, or in hand, or ahead in its queue:
`InOrder` for the queue, `HandSettled` for the task in process, `OnWay` for what a page has read, and for folders that it goes down from.
`ServerKept` is the same for stored contents and for requests to finalize, which may come in any order. The induction needs that merging
keeps the place of a task, and that a child is always queued before its folder. The root is an exception: it is queued before its system folder, and
`RootTasks` says only that every version of it lists one, so that nobody makes a second one.

`FileTreeProofs!GInv` is for `KeyringStays`, in which stored contents are compared with earlier ones, along a path from the root. A save
replaces a folder's content with one that a page has composed from what it read, perhaps long ago. `Growth` says, while pages do not overlap, that
content of a folder, that a page has in hand, in its queue, or in variables, has all that is stored in it, or is on its way to be (`Covers`, `Low`). An
exception is a task for a new object (`Firm`), which the server refuses if the object exists. That a new object, once there, was made by this page only, is
`Origins`; that a second finalization of one object does not come is `Locks`. `Waits` gives stages at which a queue is empty.
`Known` is monotone in contents, thus `KeyringStays` follows from growth of every object.

`ServicesProofs!AInv`. Properties of accounts are about files of the folder that the map gives, while steps of an attempt write files
of its own folder, which may be another one. `Folders` says that, when attempts have not overlapped, there is one folder at most with a user's name, and the map has it;
`Named` says when a folder names its user, with deaths of the server in between, thus which folders a restart picks up. `Stores` and `Roots` are about order: a
root's transaction is started by a page, which was told that the attempt is done, after its parameters are in the file, and whoever finalizes it, and
whenever, writes a root with the key of this attempt. `RootOpens` follows from these two.
`Filling` says that a file is opened and truncated once, and is written after that, without which a late truncation could undo a page's write of
invitations; `Inboxes` that sign up leaves the files alone, when an account is shown; `Tokens` that a page, which was alone and lost no request, has its token in the file.
`TokenIsAccepted` is not implied by others: a sender's answer is a copy of a moment, when the file was read, so it is a conjunct of its own, with `Sender`.

### 4.2 Only model-checked

* Liveness: `EventuallyClosed`, `EventuallyDelivered`, `EventuallyKnown`, `EventuallySaved`, `AloneSucceeds`, `AloneIsServed`,
  `ReadCompletes`, `SignsUp`, `PageOpens`. TLAPS has no support of `ENABLED`.
* Types of `ObjBytes` (`BytesTypeOK`) are not a property of a run; what proofs need of them is in `ReadInv`.
* Violations. The one of `lock_leak` is in `PROJECT.json` under "findings", others are in the table above.

## 5. Not modelled, and why

* `lib-common/delta.ts`: nothing uses it; Store throws on diffs (`store.ts:374`, `460-467`).
* Encodings, `nacl` cryptography, requests and wrappers of routes, pages: transformations of data, I/O, and user interface. Models have what
  a check says, and what a callback does.
* Sums of space (`SpaceTracker` of `store.ts`, `recipients.ts:74`): no entry of `this.space` is ever set, so that each check counts files anew, with `du` (`store.ts:216`, `inbox.ts:126`); models take any outcome of it, failures of `du` included.
* Death of a service's process by an error of a request for a root certificate, which has no handler, or of `JSON.parse` of it (`mailerid-authorizer.ts:43-71`): a death with a restart is `Crash`, or `Expire` of sessions, in models.
* Appending of bytes, on both servers: no client uses it. Limits of message's size: see below, they never apply.
* A repeated request with metadata of a message (`put-metadata.ts:58`) makes a second folder, which is nobody's, and changes nothing else.
* Moves, links and removal in the client file system; `markPairAsInUse`, `setCorrepondentTrustedIntroKey`; `EncryptingByteSink`; `setTotalSize`;
  a logout of a public key login: no application calls them.
* Preparation of a message (`lib-client/asmail/msg.ts`) and opening of its parts: sequential transformations of one call. What they have of keys is in `Keyring`.
* Bytes of a message's objects, as a recipient gets them: a request changes nothing, and reading on both sides is like the one of `ObjBytes`.
* Sign up for MailerId, and changes of parameters by a user who has an account: one request each, that overwrites a file.
* `addCleanUp` of sessions: its only use destroys an encryptor of a session that is closed.
* Redirects of delivery: clients follow them, and the server never sends one. Policies and lists of an inbox: no page sets them.

Facts about the code, noted while reading. Where a model has one of them, properties hold in its presence, or it is one of the stated exceptions.

Storage and bytes:

* A start with `isNewObj` on an existing root does not look for it, and sets its version to 1 (`store.ts:390-394`).
* An offset of a body is dropped (`put-bytes.ts:99-104` of both services; in `ObjBytes`): an object that is longer than one sent chunk, or a body
  that is flushed to a file in more than one write, is corrupted.
* `streamToExistingFile` leaves a tail in its buffer, when the last bytes come while an earlier write is in process, and
  its promise is never resolved (`file_ops.ts:131`; `stalled` of `ObjTransaction`, `hung` of `Delivery`, and in `ObjBytes`).
* `getAllBytesSequentially` never advances its offset (`lib-client/3nstorage/service.ts:249-266`; in `ObjBytes`): an object of a whole requested chunk, or more, is fetched forever.
* A version that is completed between requests for a header and for segments makes a client drop the rest, and its deferred
  read stays pending (in `ObjBytes`, an exception of `ReadCompletes`). A read that fails ends with a call of `done()`, which throws, with the same result.
* A chunk that a decrypting source has merged with a segment, which is not the last one, is dropped (`byte-source.ts:647`); chunks that are whole
  segments do not meet this.
* A folder, whose JSON with a key in front of it is longer than a segment, cannot be packed: `packSeg(null)` throws (`byte-source.ts:369`; in `ByteSource`).
* `getObj` methods do not subtract an offset from the length, when no limit is given (`store.ts:616-656`, `inbox.ts:432-459`); clients always give it.
* `getKeyDerivParams` of a store sets its value from a file of space quota (`store.ts:690`).
* `WRONG_OBJ_STATE` is not handled by a route that gets bytes.
* `packDeltaFileHeader` always throws; `deleteBytes`, `makeFlippedDelta` and `orderChangesAlongP2` of `delta.ts` have errors in their counters and loops.

File system:

* A second save of an object, which quickly follows the first one, is refused by the server as a
  concurrent transaction, for which there is no retry (`lib-client/3nstorage/service.ts:382-384`, `fs.ts:137-140`; in `FsSaving`).
* A save that fails stays unsaved till the next save of the same entity; other tasks of the queue
  wait for the next save of anything, or for closing (`fs.ts:137-154`; in `FsSaving` and `FileTree`).
* A root is saved before its system folder (`fs.ts:177-186`, merging keeps a place in the queue): a page that is closed in between leaves a root, from which no page gets down (in `FileTree`).
* When a new file is not saved, its folder still is, with an entry of what is not there, and later saves of this file are refused (in `FileTree`, `lost`).
* A page that is closed in the middle of a transaction leaves its object locked forever (in `FileTree`). Pages that overlap make two folders for a keyring, and the last one saved wins (`hurt`).
* `login` of `stores.ts:53-63` does nothing, so that a lost session is never restored.

Logins and certificates:

* A service that cannot get a root certificate refuses a good login as a wrong one, and closes its session (`mailerid-authorizer.ts:93-97`; in `MidLogin`, `noRoot`).
* A session id stays set after a failed login (`user-with-mid-session.ts:126-149`; in `MidLogin`).
* When a reply to a completion of a public key login is lost, the session stays authorized on a server, and every next exchange in it is
  refused, till it expires (in `Provisioning`, the exception of `IdleNotStuck`).
* Of two calls that wait in a form, the first one is never answered (in `Provisioning`). A completion without server's verification bytes is never answered either.
* A provider's certificate is made once, and never renewed by a running process (`certifier.ts:102-106`; in `MidLogin`). A root certificate is replaced
  only at a start, when it has expired, and this breaks all chains before it.

Accounts:

* Default files of an inbox are written in parallel with making of a folder for one of them (`inbox.ts:687`; in `Accounts`). A death between
  truncation and writing of invitations leaves an empty file, and no page can add one.
* A map of accounts is looked up, and a folder is made asynchronously (`inbox-factory.ts:92`): overlapping attempts make two folders (in `Accounts`).
* A reply 473 to a sign up is treated by a page of 3NStorage as success (`account.ts:88`), and it makes a root with a key, whose salt
  the server may not have (in `Accounts`). Failures of mail configuration are swallowed by a page, and a token is given out, that
  was never stored (`mail-conf.ts:50-53`, `151-153`; in `Accounts`, `hurt`).
* When a page is interrupted, while it saves a root, or a finalization comes after its logout, the root stays locked: every next try is refused (`account.ts:214-243`, `store.ts:381-385`; in `Accounts`, `broken`).
* `readUserFromFolder` looks for `users[user.id]`, and stores under a stripped id. A file in `users.ts:80` is named by time, and two users may come within a millisecond.
* `acceptWithInvitesOnly` is ignored for senders with names.

Mail:

* Listing has ids with `~remove` in it (`inbox.ts:412`), and remains of an interrupted removal
  make every next listing in `mail-getting.ts` fail (in `Delivery`).
* `currentMsgLength` is never set to a number, so that the limit of message's size never
  applies (`put-bytes.ts:129-138`).
* `sendSegs` throws on a last chunk that is not full (`mail-sending.ts:125-140`; in `Delivery`). A third request of a sending chain that fails with a status other than 474 is swallowed (`mail-sending.ts:274-284`).
* A delivery with an expired session leaves its folder forever, as a TODO in `delivery.ts:69-72` of routes admits.
* `removePair` of id-to-email map removes nothing (`id-to-email-map.ts:86-97`). It is reached only
  from `markPairAsInUse` and `setIntroKey`, which no application calls.
* `markPairAsInUse` is never called, and does not reset `suggested`: a pair, once suggested, is
  suggested in every next message, while `correspondent-keys.ts:82-86` describes pairs that move from
  suggested to in use and old.
* After a ring is lost, suggestions that correspondents have made for its keys cannot be absorbed
  ("Key cannot be found", `correspondent-keys.ts:289`), and they make no others.
* `setSendingPair` throws, when the correspondent is already in the ring (`ring.ts:162-166`). After two
  updates of an introductory key, while a stranger's message is on a display, it leaves a known
  correspondent without keys: `isKnownCorrespondent` then skips a look up, and sending throws. This is
  the exception in `CanReply`.
* An invitation, which is given to `suggestPair` with an existing pair, is sent and not stored
  (`correspondent-keys.ts:214-218`).

## 6. Plan

Done: transactions of the Store; sessions; delivery and retrieval; saving of a client's file system; keyrings; provisioning and public key logins;
MailerId logins with certificates; bytes of objects; accounts with their configuration; a tree of folders. All of them have theorems:
30 of 39 properties of runs are proved, which are all but the nine about liveness.

Left, in this order:

1. Space: a module of sums, when the code starts to keep them.
2. Preparation and opening of messages, with invitations and collisions of pair ids in `Keyring`.
3. Moves and removal in a client's file system, when an application uses them.
