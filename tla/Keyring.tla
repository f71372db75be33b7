------------------------------ MODULE Keyring -------------------------------
(***************************************************************************)
(* Keyrings of correspondents (lib-client/asmail/keyring): how pairs of    *)
(* keys are suggested in messages, absorbed from them, and used in replies,*)
(* while messages are opened in any order, or never, and a ring is saved   *)
(* without waiting, so that a restart may bring an older one.              *)
(*                                                                         *)
(* A key stands for both its parts and for its id.  Ids of a pair (pids)   *)
(* are represented by its recipient's key, as one is generated with them.  *)
(* Names without a path are of lib-client/asmail/keyring; other paths are  *)
(* relative to src/src.  Definitions Wrong... are deliberately broken      *)
(* variants of the next ones, and are not used in the model.               *)
(***************************************************************************)
EXTENDS Naturals

CONSTANTS
    User,           \* correspondents
    NoKey,          \* "no key"
    NoPair,         \* "no pair"
    NoMsg,          \* no message is on a display
    MaxMsgs,        \* a bound on messages to one user
    Updating,       \* users, that update their introductory keys
    MaxUpdates,     \* a bound on updates by each of them
    MaxRestarts     \* a bound on restarts of all applications

ASSUME BoundsAssumption ==
    MaxMsgs \in Nat /\ MaxUpdates \in Nat /\ MaxRestarts \in Nat

VARIABLES
    ring,        \* ring in a running application
    saved,       \* ring in a storage
    served,      \* introductory key, that is registered on a mail server
    msgs,        \* all messages that have been sent
    clock,       \* of a mail server with user's inbox: number of messages to the user
    shown,       \* a stranger's message on a display, with a button to start trust
    generated,   \* number of keys that a user has generated
    forgotten,   \* history: keys, to which a user can no longer receive
    updates,     \* number of calls of updatePublishedKey
    restarts     \* number of restarts of all applications

vars == <<ring, saved, served, msgs, clock, shown, generated, forgotten, updates, restarts>>

Key         == User \X Nat
SendingPair == [recipient : Key, sender : Key, isSelfGenerated : BOOLEAN]
\* It is also what a message suggests to use in replies.
ReceptionPair == [recipient : Key, sender : Key]
\* Pairs in use, and old pairs, are always null: markPairAsInUse is never called.
CorrespondentKeys ==
    [known : BOOLEAN, sendingPair : SendingPair \cup {NoPair}, sendingPairTS : Nat,
     suggested : ReceptionPair \cup {NoPair}]
Ring == [publishedKey : Key \cup {NoKey}, retiredKey : Key \cup {NoKey},
         corrKeys : [User -> CorrespondentKeys]]
Msg  == [from : User, to : User, intro : BOOLEAN, recipient : Key, sender : Key,
         next : ReceptionPair, timestamp : Nat]

ASSUME NoneAssumption ==
    NoKey \notin Key /\ NoPair \notin SendingPair \cup ReceptionPair /\ NoMsg \notin Msg

Stranger == [known |-> FALSE, sendingPair |-> NoPair, sendingPairTS |-> 0,
             suggested |-> NoPair]
EmptyRing == [publishedKey |-> NoKey, retiredKey |-> NoKey,
              corrKeys |-> [v \in User |-> Stranger]]

\* Applications have started for the first time, and have nothing saved, yet.
Init ==
    /\ ring = [u \in User |-> [EmptyRing EXCEPT !.publishedKey = <<u, 1>>]]
    /\ saved = [u \in User |-> EmptyRing]
    /\ served = [u \in User |-> NoKey]
    /\ msgs = {} /\ clock = [u \in User |-> 0]
    /\ shown = [u \in User |-> NoMsg]
    /\ generated = [u \in User |-> 1]
    /\ forgotten = [u \in User |-> {}]
    /\ updates = [u \in User |-> 0]
    /\ restarts = 0

-----------------------------------------------------------------------------
(* Keys in a ring                                                           *)

IntroKeys(r) == {r.publishedKey, r.retiredKey} \ {NoKey}

SuggestedKeys(r, v) ==
    IF r.corrKeys[v].suggested = NoPair THEN {} ELSE {r.corrKeys[v].suggested.recipient}

\* Keys, among which findReceptionKey looks for the one that a sender has used.
WrongReceptionKeys(r, v) == IntroKeys(r)            \* pairs are not looked at
ReceptionKeys(r, v) == SuggestedKeys(r, v) \cup IntroKeys(r)

\* Keys that are lost, when ring r is replaced by ring q.
Lost(r, q) == (IntroKeys(r) \ IntroKeys(q)) \cup
              UNION {SuggestedKeys(r, v) \ SuggestedKeys(q, v) : v \in User}

\* When a pair id is given, a pair is found with a sender's key in it; otherwise,
\* sender's key comes in a message's metadata.
Decrypts(r, m) ==
    IF m.intro THEN m.recipient \in IntroKeys(r)
    ELSE r.corrKeys[m.from].suggested = [recipient |-> m.recipient, sender |-> m.sender]

-----------------------------------------------------------------------------
(* Sending                                                                  *)

\* The pair, with which u sends to v, and a number of keys generated for it.
PairToUse(u, v) ==
    IF ring[u].corrKeys[v].sendingPair # NoPair THEN ring[u].corrKeys[v].sendingPair
    ELSE [recipient |-> served[v], sender |-> <<u, generated[u] + 1>>,
          isSelfGenerated |-> TRUE]

KeysForPair(u, v) == IF ring[u].corrKeys[v].sendingPair = NoPair THEN 1 ELSE 0

\* The pair, that u suggests to v: there is either one already, or it is generated
\* for a key, to which this message is encrypted.
WrongPairToSuggest(u, v) ==                \* the key is always of this message
    [recipient |->
        IF ring[u].corrKeys[v].suggested # NoPair
        THEN ring[u].corrKeys[v].suggested.recipient
        ELSE <<u, generated[u] + KeysForPair(u, v) + 1>>,
     sender |-> PairToUse(u, v).recipient]
PairToSuggest(u, v) ==
    IF ring[u].corrKeys[v].suggested # NoPair THEN ring[u].corrKeys[v].suggested
    ELSE [recipient |-> <<u, generated[u] + KeysForPair(u, v) + 1>>,
          sender |-> PairToUse(u, v).recipient]

KeysForNext(u, v) == IF ring[u].corrKeys[v].suggested = NoPair THEN 1 ELSE 0

\* Introductory key is looked up only for a stranger.  When a correspondent is
\* known, and there are no keys, generateKeysForSendingTo throws.
HasKeyFor(u, v) ==
    \/ ring[u].corrKeys[v].sendingPair # NoPair
    \/ ~ring[u].corrKeys[v].known /\ served[v] # NoKey

SendMsg(u, v) ==
    /\ u # v
    /\ clock[v] < MaxMsgs
    /\ clock' = [clock EXCEPT ![v] = @ + 1]
    /\ HasKeyFor(u, v)
    /\ LET pair == PairToUse(u, v)
           next == PairToSuggest(u, v)
           keys == [ring[u].corrKeys[v] EXCEPT
                      !.known = TRUE, !.sendingPair = pair, !.suggested = next]
       IN  /\ ring' = [ring EXCEPT ![u].corrKeys[v] = keys]
           /\ msgs' = msgs \cup
                {[from |-> u, to |-> v, intro |-> pair.isSelfGenerated,
                  recipient |-> pair.recipient, sender |-> pair.sender,
                  next |-> next, timestamp |-> clock[v] + 1]}
    /\ generated' = [generated EXCEPT ![u] = @ + KeysForPair(u, v) + KeysForNext(u, v)]
    /\ UNCHANGED <<saved, served, shown, forgotten, updates, restarts>>

-----------------------------------------------------------------------------
(* Opening                                                                  *)

WrongAbsorbed(r, m) ==                     \* time of a suggestion is not looked at
    LET keys == r.corrKeys[m.from]
    IN  IF m.next.sender \notin ReceptionKeys(r, m.from)
        THEN [keys EXCEPT !.known = TRUE]
        ELSE [keys EXCEPT
                !.known = TRUE,
                !.sendingPair = [recipient |-> m.next.recipient,
                                 sender |-> m.next.sender, isSelfGenerated |-> FALSE],
                !.sendingPairTS = m.timestamp]

\* A key of this user, that a suggestion is for, has to be found, or an error is
\* thrown, when a correspondent has already been added.
Absorbed(r, m) ==
    LET keys == r.corrKeys[m.from]
    IN  IF keys.sendingPairTS >= m.timestamp THEN keys
        ELSE IF m.next.sender \notin ReceptionKeys(r, m.from)
             THEN [keys EXCEPT !.known = TRUE]
        ELSE [keys EXCEPT
                !.known = TRUE,
                !.sendingPair = [recipient |-> m.next.recipient,
                                 sender |-> m.next.sender, isSelfGenerated |-> FALSE],
                !.sendingPairTS = m.timestamp]

AbsorbSuggestedNextKeyPair(u, m) ==
    ring' = [ring EXCEPT ![u].corrKeys[m.from] = Absorbed(ring[u], m)]

\* Messages may be opened in any order, and many times.  Keys are looked up in a
\* list of messages, which a user refreshes before opening.  A display covers the
\* list, so that one message is closed, before another one is opened.
OpenMsg(u, m) ==
    /\ m \in msgs /\ m.to = u
    /\ Decrypts(ring[u], m)
    /\ \/ /\ ring[u].corrKeys[m.from].known
          /\ AbsorbSuggestedNextKeyPair(u, m)
          /\ shown' = [shown EXCEPT ![u] = NoMsg]
       \/ /\ ~ring[u].corrKeys[m.from].known
          /\ shown' = [shown EXCEPT ![u] = m]
          /\ UNCHANGED ring
    /\ UNCHANGED <<saved, served, msgs, clock, generated, forgotten, updates, restarts>>

\* A button on a display, pressed at any time later.
StartTrust(u) ==
    /\ shown[u] # NoMsg
    /\ AbsorbSuggestedNextKeyPair(u, shown[u])
    /\ shown' = [shown EXCEPT ![u] = NoMsg]
    /\ UNCHANGED <<saved, served, msgs, clock, generated, forgotten, updates, restarts>>

-----------------------------------------------------------------------------
(* Introductory keys, saving and restarts                                   *)

WrongUpdated(r, key) ==                    \* nothing is retired
    [r EXCEPT !.publishedKey = key]
Updated(r, key) ==
    [r EXCEPT !.publishedKey = key,
              !.retiredKey = IF r.publishedKey = NoKey THEN @ ELSE r.publishedKey]

Replace(u, newRing) ==
    /\ ring' = [ring EXCEPT ![u] = newRing]
    /\ forgotten' = [forgotten EXCEPT ![u] = @ \cup Lost(ring[u], newRing)]

\* Ring's function for an application; the present one calls it only at its start.
UpdatePublishedKey(u) ==
    /\ u \in Updating /\ updates[u] < MaxUpdates
    /\ Replace(u, Updated(ring[u], <<u, generated[u] + 1>>))
    /\ generated' = [generated EXCEPT ![u] = @ + 1]
    /\ updates' = [updates EXCEPT ![u] = @ + 1]
    /\ UNCHANGED <<saved, served, msgs, clock, shown, restarts>>

\* A mail server is given the key at each start of an application, and by a button.
SetInitPubKey(u) ==
    /\ served[u] # ring[u].publishedKey
    /\ served' = [served EXCEPT ![u] = ring[u].publishedKey]
    /\ UNCHANGED <<ring, saved, msgs, clock, shown, generated, forgotten, updates, restarts>>

\* A file with a ring gets to a storage some time after saveChanges.
SaveChanges(u) ==
    /\ saved[u] # ring[u]
    /\ saved' = [saved EXCEPT ![u] = ring[u]]
    /\ UNCHANGED <<ring, served, msgs, clock, shown, generated, forgotten, updates, restarts>>

\* An application loads what is saved, and generates an introductory key, when
\* there is none.
Restart(u) ==
    /\ restarts < MaxRestarts
    /\ IF saved[u].publishedKey = NoKey
       THEN /\ Replace(u, Updated(saved[u], <<u, generated[u] + 1>>))
            /\ generated' = [generated EXCEPT ![u] = @ + 1]
       ELSE Replace(u, saved[u]) /\ UNCHANGED generated
    /\ shown' = [shown EXCEPT ![u] = NoMsg]
    /\ restarts' = restarts + 1
    /\ UNCHANGED <<saved, served, msgs, clock, updates>>

-----------------------------------------------------------------------------

Next ==
    \E u \in User :
        \/ \E v \in User : SendMsg(u, v)
        \/ \E m \in msgs : OpenMsg(u, m)
        \/ StartTrust(u) \/ UpdatePublishedKey(u) \/ SetInitPubKey(u)
        \/ SaveChanges(u) \/ Restart(u)

Spec == Init /\ [][Next]_vars

-----------------------------------------------------------------------------
(* Properties                                                               *)

TypeOK ==
    /\ ring \in [User -> Ring] /\ saved \in [User -> Ring]
    /\ served \in [User -> Key \cup {NoKey}]
    /\ msgs \subseteq Msg /\ clock \in [User -> Nat]
    /\ shown \in [User -> Msg \cup {NoMsg}]
    /\ generated \in [User -> Nat]
    /\ forgotten \in [User -> SUBSET Key]
    /\ updates \in [User -> 0..MaxUpdates] /\ restarts \in 0..MaxRestarts

\* Everyone can read what is sent to them, unless they have forgotten the key,
\* by an unsaved restart, or by two updates of an introductory one.  Namely, they
\* have the same pair as a sender has, of all that both have ever suggested.
Readable == \A m \in msgs : Decrypts(ring[m.to], m) \/ m.recipient \in forgotten[m.to]

\* Suggestion in a message may always be used by its recipient, unless a key, that
\* it is for, has been forgotten.
Absorbable ==
    \A m \in msgs : \/ m.next.sender \in ReceptionKeys(ring[m.to], m.from)
                    \/ m.next.sender \in forgotten[m.to]

\* Everyone, who is in a ring, may be written to: generateKeysForSendingTo does not
\* throw.  Two updates, between which a message is on a display, are an exception.
CanReply ==
    \A u, v \in User :
        \/ ring[u].corrKeys[v].known => ring[u].corrKeys[v].sendingPair # NoPair
        \/ updates[u] > 1

\* v has a key, to which u sends after a suggestion.
Established(u, v) ==
    /\ ring[u].corrKeys[v].sendingPair # NoPair
    /\ ~ring[u].corrKeys[v].sendingPair.isSelfGenerated
    /\ ring[u].corrKeys[v].sendingPair.recipient \in SuggestedKeys(ring[v], u)

\* Old messages that are opened late, do not break what has been established:
\* only a loss of keys by one of the users does.
StaysEstablished ==
    [][\A u, v \in User :
          Established(u, v) /\ forgotten' = forgotten /\ restarts' = restarts
              => Established(u, v)']_vars

=============================================================================
