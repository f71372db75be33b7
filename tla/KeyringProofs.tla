--------------------------- MODULE KeyringProofs ----------------------------
(***************************************************************************)
(* Proofs about Keyring for any users, and any numbers of messages,        *)
(* updates and restarts: types, that what is sent may be read, that        *)
(* suggestions may be used, that replies may be written, and that late     *)
(* messages do not break an established pair.                              *)
(***************************************************************************)
EXTENDS Keyring, TLAPS

(* What v has, or has lost, at the moment.                                  *)

\* v receives to an introductory key.
Receives(v, key) == key \in IntroKeys(ring[v]) \cup forgotten[v]

\* v has suggested this pair to u.
Suggests(v, u, recipient, sender) ==
    \/ ring[v].corrKeys[u].suggested = [recipient |-> recipient, sender |-> sender]
    \/ recipient \in forgotten[v]

\* v finds a key, when u suggests a pair for it.
Finds(v, u, key) == key \in ReceptionKeys(ring[v], u) \cup forgotten[v]

-----------------------------------------------------------------------------
(* The inductive invariant                                                  *)

\* A pair, with which u sends to v, is either for an introductory key of v, or
\* comes from a suggestion in a message, with message's time.
FromMessage(u, v, pair, time) ==
    \E m \in msgs : /\ m.from = v /\ m.to = u /\ m.timestamp = time
                    /\ m.next = [recipient |-> pair.recipient, sender |-> pair.sender]

SendingGood(u, v, keys) ==
    LET pair == keys.sendingPair
    IN  IF pair.isSelfGenerated
        THEN /\ Receives(v, pair.recipient)
             /\ keys.suggested # NoPair => keys.suggested.sender = pair.recipient
        ELSE /\ Suggests(v, u, pair.recipient, pair.sender)
             /\ FromMessage(u, v, pair, keys.sendingPairTS)

KeysGood(u, v, keys) ==
    /\ keys.suggested # NoPair =>
          keys.known /\ keys.sendingPair # NoPair /\ keys.suggested.recipient[2] <= generated[u]
    /\ keys.sendingPair # NoPair => SendingGood(u, v, keys)
    /\ keys.known => keys.sendingPair # NoPair \/ updates[u] > 1

RingGood(u, r) ==
    /\ \A v \in User : KeysGood(u, v, r.corrKeys[v])
    /\ updates[u] = 0 => r.retiredKey = NoKey

Rings == \A u \in User : RingGood(u, ring[u]) /\ RingGood(u, saved[u])

\* A suggestion that is saved, is the present one.
SavedSuggestions ==
    \A u, v \in User : saved[u].corrKeys[v].suggested # NoPair =>
        ring[u].corrKeys[v].suggested = saved[u].corrKeys[v].suggested

\* A suggestion is for a key, which its recipient finds.
Suggestions ==
    \A u, v \in User : ring[u].corrKeys[v].suggested # NoPair =>
        Finds(v, u, ring[u].corrKeys[v].suggested.sender)

Served == \A u \in User : served[u] # NoKey => Receives(u, served[u])

MsgGood(m) ==
    /\ Suggests(m.from, m.to, m.next.recipient, m.next.sender)
    /\ Finds(m.to, m.from, m.next.sender)
    /\ IF m.intro THEN Receives(m.to, m.recipient) /\ m.next.sender = m.recipient
                  ELSE Suggests(m.to, m.from, m.recipient, m.sender)
    /\ m.timestamp <= clock[m.to]
    /\ m.next.recipient[2] <= generated[m.from]

Messages == \A m \in msgs : MsgGood(m)

\* After a message with the present suggestion all others have it.
Ordered ==
    \A m, n \in msgs :
        m.from = n.from /\ m.to = n.to /\ m.timestamp < n.timestamp
        /\ m.next.recipient \in SuggestedKeys(ring[m.from], m.to)
            => n.next.recipient \in SuggestedKeys(ring[n.from], n.to)

\* A key of a message on a display is there, if it has not been updated twice.
Displayed ==
    \A u \in User : shown[u] # NoMsg =>
        /\ shown[u] \in msgs /\ shown[u].to = u /\ shown[u].intro
        /\ updates[u] <= 1 => shown[u].recipient \in IntroKeys(ring[u])

\* The inductive invariant.
IInv ==
    /\ TypeOK
    /\ Rings
    /\ SavedSuggestions
    /\ Suggestions
    /\ Served
    /\ Messages
    /\ Ordered
    /\ Displayed

-----------------------------------------------------------------------------
(* Types                                                                    *)

\* Keys of one correspondent are put into a ring of an application.
Puts(u, v, keys) == ring' = [ring EXCEPT ![u].corrKeys[v] = keys]

\* A ring with keys that are put into it.
LEMMA PutInRing ==
    ASSUME ring \in [User -> Ring], NEW u \in User, NEW v \in User,
           NEW keys \in CorrespondentKeys, Puts(u, v, keys)
    PROVE  /\ ring' \in [User -> Ring]
           /\ \A w \in User : w # u => ring'[w] = ring[w]
           /\ ring'[u].publishedKey = ring[u].publishedKey
           /\ ring'[u].retiredKey = ring[u].retiredKey
           /\ ring'[u].corrKeys[v] = keys
           /\ \A w \in User : w # v => ring'[u].corrKeys[w] = ring[u].corrKeys[w]
<1> DEFINE r == [ring[u] EXCEPT !.corrKeys[v] = keys]
<1>1. ring[u].corrKeys \in [User -> CorrespondentKeys]
  BY DEF Ring
<1>2. /\ r \in Ring
      /\ r.publishedKey = ring[u].publishedKey /\ r.retiredKey = ring[u].retiredKey
      /\ r.corrKeys = [ring[u].corrKeys EXCEPT ![v] = keys]
  BY <1>1 DEF Ring
<1>3. ring' = [ring EXCEPT ![u] = r]
  BY DEF Puts
<1> HIDE DEF r
<1> QED
  BY <1>1, <1>2, <1>3

\* New and retired keys.
LEMMA UpdatedType ==
    ASSUME NEW r \in Ring, NEW key \in Key
    PROVE  /\ Updated(r, key) \in Ring
           /\ Updated(r, key).publishedKey = key
           /\ Updated(r, key).corrKeys = r.corrKeys
           /\ r.publishedKey # NoKey => Updated(r, key).retiredKey = r.publishedKey
           /\ r.publishedKey = NoKey => Updated(r, key).retiredKey = r.retiredKey
BY DEF Updated, Ring

\* What is lost are keys.
LEMMA LostType ==
    ASSUME NEW r \in Ring, NEW q \in Ring
    PROVE  Lost(r, q) \subseteq Key
<1>1. IntroKeys(r) \subseteq Key
  BY DEF IntroKeys, Ring
<1>2. \A v \in User : SuggestedKeys(r, v) \subseteq Key
  <2> SUFFICES ASSUME NEW v \in User PROVE SuggestedKeys(r, v) \subseteq Key
    OBVIOUS
  <2>1. r.corrKeys[v].suggested \in ReceptionPair \cup {NoPair}
    BY DEF Ring, CorrespondentKeys
  <2> QED
    BY <2>1 DEF SuggestedKeys, ReceptionPair
<1> QED
  BY <1>1, <1>2 DEF Lost

\* What a message changes in keys of its sender.
LEMMA AbsorbedType ==
    ASSUME NEW r \in Ring, NEW m \in Msg
    PROVE  LET old == r.corrKeys[m.from]
               new == Absorbed(r, m)
           IN  /\ new \in CorrespondentKeys
               /\ new.suggested = old.suggested
               /\ \/ new = old
                  \/ /\ old.sendingPairTS < m.timestamp
                     /\ m.next.sender \notin ReceptionKeys(r, m.from)
                     /\ new = [old EXCEPT !.known = TRUE]
                  \/ /\ old.sendingPairTS < m.timestamp
                     /\ m.next.sender \in ReceptionKeys(r, m.from)
                     /\ new.known
                     /\ new.sendingPair = [recipient |-> m.next.recipient,
                                           sender |-> m.next.sender,
                                           isSelfGenerated |-> FALSE]
                     /\ new.sendingPairTS = m.timestamp
<1> DEFINE old == r.corrKeys[m.from]
           new == Absorbed(r, m)
           pair == [recipient |-> m.next.recipient, sender |-> m.next.sender,
                    isSelfGenerated |-> FALSE]
<1>1. /\ old \in CorrespondentKeys /\ old.sendingPairTS \in Nat
      /\ m.timestamp \in Nat /\ pair \in SendingPair
  BY DEF Ring, Msg, CorrespondentKeys, ReceptionPair, SendingPair
<1>2. CASE old.sendingPairTS >= m.timestamp
  <2>1. new = old
    BY <1>2 DEF Absorbed
  <2> HIDE DEF new, old
  <2> QED
    BY <1>1, <2>1 DEF new, old
<1>3. CASE ~(old.sendingPairTS >= m.timestamp)
           /\ m.next.sender \notin ReceptionKeys(r, m.from)
  <2>1. new = [old EXCEPT !.known = TRUE]
    BY <1>3 DEF Absorbed
  <2>2. old.sendingPairTS < m.timestamp
    BY <1>1, <1>3
  <2>3. new \in CorrespondentKeys /\ new.suggested = old.suggested
    BY <1>1, <2>1 DEF CorrespondentKeys
  <2> QED
    BY <1>3, <2>1, <2>2, <2>3
<1>4. CASE ~(old.sendingPairTS >= m.timestamp)
           /\ m.next.sender \in ReceptionKeys(r, m.from)
  <2>1. new = [old EXCEPT !.known = TRUE, !.sendingPair = pair,
                          !.sendingPairTS = m.timestamp]
    BY <1>4 DEF Absorbed
  <2>2. old.sendingPairTS < m.timestamp
    BY <1>1, <1>4
  <2>3. /\ new \in CorrespondentKeys /\ new.suggested = old.suggested
        /\ new.known /\ new.sendingPair = pair /\ new.sendingPairTS = m.timestamp
    BY <1>1, <2>1 DEF CorrespondentKeys
  <2> QED
    BY <1>4, <2>2, <2>3
<1> QED
  BY <1>2, <1>3, <1>4

\* What is put into u's ring and into a message, when u sends to v.
SentKeys(u, v) ==
    [ring[u].corrKeys[v] EXCEPT
        !.known = TRUE, !.sendingPair = PairToUse(u, v), !.suggested = PairToSuggest(u, v)]
SentMsg(u, v) ==
    [from |-> u, to |-> v, intro |-> PairToUse(u, v).isSelfGenerated,
     recipient |-> PairToUse(u, v).recipient, sender |-> PairToUse(u, v).sender,
     next |-> PairToSuggest(u, v), timestamp |-> clock[v] + 1]

\* Sending, with these keys.
LEMMA SendMsgDoes ==
    ASSUME NEW u \in User, NEW v \in User, SendMsg(u, v)
    PROVE  /\ Puts(u, v, SentKeys(u, v))
           /\ msgs' = msgs \cup {SentMsg(u, v)}
BY DEF SendMsg, SentKeys, SentMsg, Puts

\* Types of what is sent.
LEMMA SentType ==
    ASSUME TypeOK, NEW u \in User, NEW v \in User, HasKeyFor(u, v)
    PROVE  /\ PairToUse(u, v) \in SendingPair
           /\ PairToSuggest(u, v) \in ReceptionPair
           /\ SentKeys(u, v) \in CorrespondentKeys
           /\ SentMsg(u, v) \in Msg
           /\ KeysForPair(u, v) \in Nat /\ KeysForNext(u, v) \in Nat
<1>1. /\ ring[u].corrKeys[v] \in CorrespondentKeys
      /\ ring[u].corrKeys[v].sendingPair \in SendingPair \cup {NoPair}
      /\ ring[u].corrKeys[v].suggested \in ReceptionPair \cup {NoPair}
      /\ generated[u] \in Nat /\ clock[v] \in Nat
  BY DEF TypeOK, Ring, CorrespondentKeys
<1>2. KeysForPair(u, v) \in Nat /\ KeysForNext(u, v) \in Nat
  BY DEF KeysForPair, KeysForNext
<1>3. PairToUse(u, v) \in SendingPair
  <2>1. CASE ring[u].corrKeys[v].sendingPair # NoPair
    BY <1>1, <2>1 DEF PairToUse
  <2>2. CASE ring[u].corrKeys[v].sendingPair = NoPair
    <3>1. served[v] \in Key
      BY <2>2 DEF HasKeyFor, TypeOK
    <3>2. <<u, generated[u] + 1>> \in Key
      BY <1>1 DEF Key
    <3>3. PairToUse(u, v) = [recipient |-> served[v], sender |-> <<u, generated[u] + 1>>,
                             isSelfGenerated |-> TRUE]
      BY <2>2 DEF PairToUse
    <3> QED
      BY <3>1, <3>2, <3>3 DEF SendingPair
  <2> QED
    BY <2>1, <2>2
<1>4. PairToSuggest(u, v) \in ReceptionPair
  <2>1. CASE ring[u].corrKeys[v].suggested # NoPair
    BY <1>1, <2>1 DEF PairToSuggest
  <2>2. CASE ring[u].corrKeys[v].suggested = NoPair
    <3>1. <<u, generated[u] + KeysForPair(u, v) + 1>> \in Key
      BY <1>1, <1>2 DEF Key
    <3>2. PairToUse(u, v).recipient \in Key
      BY <1>3 DEF SendingPair
    <3> QED
      BY <2>2, <3>1, <3>2 DEF PairToSuggest, ReceptionPair
  <2> QED
    BY <2>1, <2>2
<1>5. SentKeys(u, v) \in CorrespondentKeys
  BY <1>1, <1>3, <1>4 DEF SentKeys, CorrespondentKeys
<1>6. /\ PairToUse(u, v).isSelfGenerated \in BOOLEAN
      /\ PairToUse(u, v).recipient \in Key /\ PairToUse(u, v).sender \in Key
  BY <1>3 DEF SendingPair
<1>7. SentMsg(u, v) \in Msg
  BY <1>1, <1>4, <1>6 DEF SentMsg, Msg
<1> QED
  BY <1>2, <1>3, <1>4, <1>5, <1>7

\* A ring that a user restarts with.
Restarted(u) ==
    IF saved[u].publishedKey = NoKey THEN Updated(saved[u], <<u, generated[u] + 1>>)
                                     ELSE saved[u]

\* A restart brings what is saved, with a key, if there was none.
LEMMA RestartDoes ==
    ASSUME NEW u \in User, TypeOK, Restart(u)
    PROVE  /\ Restarted(u) \in Ring
           /\ Restarted(u).corrKeys = saved[u].corrKeys
           /\ Restarted(u).retiredKey = saved[u].retiredKey
           /\ Replace(u, Restarted(u))
           /\ generated' \in [User -> Nat]
           /\ \A w \in User : generated[w] <= generated'[w]
<1>1. saved[u] \in Ring /\ generated \in [User -> Nat]
  BY DEF TypeOK
<1>2. <<u, generated[u] + 1>> \in Key
  BY <1>1 DEF Key
<1>3. CASE saved[u].publishedKey = NoKey
  <2>1. /\ Replace(u, Restarted(u))
        /\ generated' = [generated EXCEPT ![u] = @ + 1]
    BY <1>3 DEF Restart, Restarted
  <2> QED
    BY <1>1, <1>2, <1>3, <2>1, UpdatedType DEF Restarted
<1>4. CASE saved[u].publishedKey # NoKey
  <2>1. Replace(u, Restarted(u)) /\ generated' = generated
    BY <1>4 DEF Restart, Restarted
  <2> QED
    BY <1>1, <1>4, <2>1 DEF Restarted
<1> QED
  BY <1>3, <1>4

\* Types, when a ring is replaced.
LEMMA ReplaceType ==
    ASSUME TypeOK, NEW u \in User, NEW r \in Ring, Replace(u, r)
    PROVE  ring' \in [User -> Ring] /\ forgotten' \in [User -> SUBSET Key]
<1>1. ring[u] \in Ring
  BY DEF TypeOK
<1>2. Lost(ring[u], r) \subseteq Key
  BY <1>1, LostType
<1> QED
  BY <1>2 DEF Replace, TypeOK

\* Every step keeps types.
LEMMA TypeInvariant == TypeOK /\ [Next]_vars => TypeOK'
<1> SUFFICES ASSUME TypeOK, [Next]_vars PROVE TypeOK'
  OBVIOUS
<1>1. ASSUME NEW u \in User, NEW v \in User, SendMsg(u, v) PROVE TypeOK'
  <2>1. HasKeyFor(u, v)
    BY <1>1 DEF SendMsg
  <2>2. /\ SentKeys(u, v) \in CorrespondentKeys /\ SentMsg(u, v) \in Msg
        /\ KeysForPair(u, v) \in Nat /\ KeysForNext(u, v) \in Nat
    BY <2>1, SentType
  <2>3. Puts(u, v, SentKeys(u, v))
        /\ msgs' = msgs \cup {SentMsg(u, v)}
    BY <1>1, SendMsgDoes
  <2>4. ring \in [User -> Ring]
    BY DEF TypeOK
  <2>5. ring' \in [User -> Ring] /\ msgs' \subseteq Msg
    BY <2>2, <2>3, <2>4, PutInRing DEF TypeOK
  <2>6. clock' \in [User -> Nat] /\ generated' \in [User -> Nat]
    BY <1>1, <2>2 DEF SendMsg, TypeOK
  <2> QED
    BY <1>1, <2>5, <2>6 DEF SendMsg, TypeOK
<1>2. ASSUME NEW u \in User, NEW m \in Msg, AbsorbSuggestedNextKeyPair(u, m)
      PROVE  ring' \in [User -> Ring]
  <2>1. ring[u] \in Ring /\ m.from \in User
    BY DEF TypeOK, Msg
  <2>2. Absorbed(ring[u], m) \in CorrespondentKeys
    BY <2>1, AbsorbedType
  <2> QED
    BY <1>2, <2>1, <2>2, PutInRing DEF AbsorbSuggestedNextKeyPair, Puts, TypeOK
<1>3. ASSUME NEW u \in User, NEW m \in msgs, OpenMsg(u, m) PROVE TypeOK'
  <2>1. m \in Msg
    BY DEF TypeOK
  <2>2. ring' \in [User -> Ring]
    BY <1>2, <1>3, <2>1 DEF OpenMsg, TypeOK
  <2>3. shown' \in [User -> Msg \cup {NoMsg}]
    BY <1>3, <2>1 DEF OpenMsg, TypeOK
  <2> QED
    BY <1>3, <2>2, <2>3 DEF OpenMsg, TypeOK
<1>4. ASSUME NEW u \in User, StartTrust(u) PROVE TypeOK'
  <2>1. shown[u] \in Msg
    BY <1>4 DEF StartTrust, TypeOK
  <2>2. ring' \in [User -> Ring]
    BY <1>2, <1>4, <2>1 DEF StartTrust
  <2> QED
    BY <1>4, <2>2 DEF StartTrust, TypeOK
<1>5. ASSUME NEW u \in User, UpdatePublishedKey(u) PROVE TypeOK'
  <2>1. <<u, generated[u] + 1>> \in Key /\ ring[u] \in Ring
    BY DEF TypeOK, Key
  <2>2. Updated(ring[u], <<u, generated[u] + 1>>) \in Ring
    BY <2>1, UpdatedType
  <2>3. ring' \in [User -> Ring] /\ forgotten' \in [User -> SUBSET Key]
    BY <1>5, <2>2, ReplaceType DEF UpdatePublishedKey
  <2>4. generated' \in [User -> Nat] /\ updates' \in [User -> 0..MaxUpdates]
    BY <1>5, BoundsAssumption DEF UpdatePublishedKey, TypeOK
  <2> QED
    BY <1>5, <2>3, <2>4 DEF UpdatePublishedKey, TypeOK
<1>6. ASSUME NEW u \in User, SetInitPubKey(u) PROVE TypeOK'
  <2>1. ring[u].publishedKey \in Key \cup {NoKey}
    BY DEF TypeOK, Ring
  <2> QED
    BY <1>6, <2>1 DEF SetInitPubKey, TypeOK
<1>7. ASSUME NEW u \in User, SaveChanges(u) PROVE TypeOK'
  BY <1>7 DEF SaveChanges, TypeOK
<1>8. ASSUME NEW u \in User, Restart(u) PROVE TypeOK'
  <2>1. ring' \in [User -> Ring] /\ forgotten' \in [User -> SUBSET Key]
        /\ generated' \in [User -> Nat]
    BY <1>8, RestartDoes, ReplaceType
  <2>2. restarts' \in 0..MaxRestarts /\ shown' \in [User -> Msg \cup {NoMsg}]
    BY <1>8, BoundsAssumption DEF Restart, TypeOK
  <2> QED
    BY <1>8, <2>1, <2>2 DEF Restart, TypeOK
<1>9. CASE UNCHANGED vars
  BY <1>9 DEF vars, TypeOK
<1> QED
  BY <1>1, <1>3, <1>4, <1>5, <1>6, <1>7, <1>8, <1>9 DEF Next

\* Types at the start.
LEMMA TypeInit == Init => TypeOK
<1> SUFFICES ASSUME Init PROVE TypeOK
  OBVIOUS
<1>1. Stranger \in CorrespondentKeys
  BY DEF Stranger, CorrespondentKeys
<1>2. EmptyRing \in Ring
  BY <1>1 DEF EmptyRing, Ring
<1>3. \A u \in User : [EmptyRing EXCEPT !.publishedKey = <<u, 1>>] \in Ring
  BY <1>2 DEF Ring, Key
<1> QED
  BY <1>2, <1>3, BoundsAssumption DEF Init, TypeOK

\* Types of all variables.
THEOREM TypeCorrect == Spec => []TypeOK
BY TypeInit, TypeInvariant, PTL DEF Spec

-----------------------------------------------------------------------------
(* Keys that are not lost                                                   *)

\* In a step keys are either kept, or are remembered as forgotten, and a suggestion
\* is not replaced by another one.
KeysStep ==
    /\ \A v \in User : Lost(ring[v], ring'[v]) \subseteq forgotten'[v]
    /\ \A v \in User : forgotten[v] \subseteq forgotten'[v]
    /\ \A v, w \in User : ring[v].corrKeys[w].suggested # NoPair =>
          ring'[v].corrKeys[w].suggested \in {NoPair, ring[v].corrKeys[w].suggested}

\* Therefore, what anyone had, either stays, or is forgotten.
LEMMA KeysStay ==
    ASSUME TypeOK, KeysStep
    PROVE  /\ \A v \in User : \A key \in Key : Receives(v, key) => Receives(v, key)'
           /\ \A v, w \in User : \A key, sender \in Key :
                 Suggests(v, w, key, sender) => Suggests(v, w, key, sender)'
           /\ \A v, w \in User : \A key \in Key : Finds(v, w, key) => Finds(v, w, key)'
<1>1. ASSUME NEW v \in User, NEW key \in Key, key \in IntroKeys(ring[v])
      PROVE  key \in IntroKeys(ring'[v]) \/ key \in forgotten'[v]
  <2>1. key \notin IntroKeys(ring'[v]) => key \in Lost(ring[v], ring'[v])
    BY <1>1 DEF Lost
  <2> QED
    BY <2>1 DEF KeysStep
<1>2. ASSUME NEW v \in User, NEW w \in User, NEW key \in Key,
             key \in SuggestedKeys(ring[v], w)
      PROVE  key \in SuggestedKeys(ring'[v], w) \/ key \in forgotten'[v]
  <2>1. key \notin SuggestedKeys(ring'[v], w) => key \in Lost(ring[v], ring'[v])
    BY <1>2 DEF Lost
  <2> QED
    BY <2>1 DEF KeysStep
<1>3. ASSUME NEW v \in User, NEW w \in User, NEW key \in Key, NEW sender \in Key,
             Suggests(v, w, key, sender)
      PROVE  Suggests(v, w, key, sender)'
  <2> DEFINE pair == [recipient |-> key, sender |-> sender]
  <2>1. CASE key \in forgotten[v]
    BY <2>1 DEF KeysStep, Suggests
  <2>2. CASE ring[v].corrKeys[w].suggested = pair
    <3>1. pair # NoPair
      BY NoneAssumption DEF ReceptionPair
    <3>2. key \in SuggestedKeys(ring[v], w)
      BY <2>2, <3>1 DEF SuggestedKeys
    <3>3. ring'[v].corrKeys[w].suggested \in {NoPair, pair}
      BY <2>2, <3>1 DEF KeysStep
    <3>4. ring'[v].corrKeys[w].suggested = NoPair => key \in forgotten'[v]
      BY <1>2, <3>2 DEF SuggestedKeys
    <3> QED
      BY <3>3, <3>4 DEF Suggests
  <2> QED
    BY <1>3, <2>1, <2>2 DEF Suggests
<1>4. ASSUME NEW v \in User, NEW w \in User, NEW key \in Key, Finds(v, w, key)
      PROVE  Finds(v, w, key)'
  BY <1>1, <1>2, <1>4 DEF Finds, ReceptionKeys, KeysStep
<1>5. ASSUME NEW v \in User, NEW key \in Key, Receives(v, key)
      PROVE  Receives(v, key)'
  BY <1>1, <1>5 DEF Receives, KeysStep
<1> QED
  BY <1>3, <1>4, <1>5

\* Who is suggested to, and who has introductory keys, may be sent a suggestion.
LEMMA FindsWhatIsThere ==
    ASSUME TypeOK, NEW v \in User, NEW u \in User, NEW key \in Key, NEW sender \in Key
    PROVE  /\ Receives(v, key) => Finds(v, u, key)
           /\ Suggests(v, u, key, sender) => Finds(v, u, key)
<1>1. [recipient |-> key, sender |-> sender] # NoPair
  BY NoneAssumption DEF ReceptionPair
<1> QED
  BY <1>1 DEF Receives, Suggests, Finds, ReceptionKeys, SuggestedKeys

\* When keys of one correspondent are put, with the suggestion that there was.
LEMMA PutKeysStep ==
    ASSUME TypeOK, NEW u \in User, NEW v \in User, NEW keys \in CorrespondentKeys,
           Puts(u, v, keys), forgotten' = forgotten,
           ring[u].corrKeys[v].suggested \in {NoPair, keys.suggested}
    PROVE  KeysStep
<1>1. /\ \A w \in User : w # u => ring'[w] = ring[w]
      /\ ring'[u].publishedKey = ring[u].publishedKey
      /\ ring'[u].retiredKey = ring[u].retiredKey
      /\ ring'[u].corrKeys[v] = keys
      /\ \A w \in User : w # v => ring'[u].corrKeys[w] = ring[u].corrKeys[w]
  <2>1. ring \in [User -> Ring]
    BY DEF TypeOK
  <2> QED
    BY <2>1, PutInRing
<1>2. \A w, x \in User : \/ ring'[w].corrKeys[x].suggested = ring[w].corrKeys[x].suggested
                        \/ ring[w].corrKeys[x].suggested = NoPair
  BY <1>1
<1>3. \A w \in User : IntroKeys(ring'[w]) = IntroKeys(ring[w])
  BY <1>1 DEF IntroKeys
<1>4. \A w, x \in User : SuggestedKeys(ring[w], x) \subseteq SuggestedKeys(ring'[w], x)
  BY <1>2 DEF SuggestedKeys
<1>5. \A w \in User : Lost(ring[w], ring'[w]) = {}
  BY <1>3, <1>4 DEF Lost
<1> QED
  BY <1>2, <1>5 DEF KeysStep

\* When a ring is replaced by one with some of its suggestions.
LEMMA ReplaceStep ==
    ASSUME TypeOK, NEW u \in User, NEW r \in Ring, Replace(u, r),
           \A v \in User : ring[u].corrKeys[v].suggested # NoPair =>
               r.corrKeys[v].suggested \in {NoPair, ring[u].corrKeys[v].suggested}
    PROVE  KeysStep
<1>1. /\ ring'[u] = r /\ \A w \in User : w # u => ring'[w] = ring[w]
      /\ forgotten'[u] = forgotten[u] \cup Lost(ring[u], r)
      /\ \A w \in User : w # u => forgotten'[w] = forgotten[w]
  BY DEF Replace, TypeOK
<1>2. \A q \in Ring : Lost(q, q) = {}
  BY DEF Lost
<1> QED
  BY <1>1, <1>2 DEF KeysStep, TypeOK

\* Every step is such.
LEMMA StepKeepsKeys ==
    ASSUME TypeOK, SavedSuggestions, [Next]_vars
    PROVE  KeysStep
<1>1. ASSUME NEW u \in User, NEW v \in User, SendMsg(u, v) PROVE KeysStep
  <2>1. HasKeyFor(u, v) /\ forgotten' = forgotten
    BY <1>1 DEF SendMsg
  <2>2. SentKeys(u, v) \in CorrespondentKeys
    BY <2>1, SentType
  <2>3. Puts(u, v, SentKeys(u, v))
    BY <1>1, SendMsgDoes
  <2>4. ring[u].corrKeys[v] \in CorrespondentKeys
    BY DEF TypeOK, Ring
  <2>5. SentKeys(u, v).suggested = PairToSuggest(u, v)
    BY <2>4 DEF SentKeys, CorrespondentKeys
  <2>6. ring[u].corrKeys[v].suggested \in {NoPair, SentKeys(u, v).suggested}
    BY <2>5 DEF PairToSuggest
  <2> QED
    BY <2>1, <2>2, <2>3, <2>6, PutKeysStep
<1>2. ASSUME NEW u \in User, NEW m \in Msg, AbsorbSuggestedNextKeyPair(u, m),
             forgotten' = forgotten
      PROVE  KeysStep
  <2>1. ring[u] \in Ring /\ m.from \in User
    BY DEF TypeOK, Msg
  <2>2. /\ Absorbed(ring[u], m) \in CorrespondentKeys
        /\ Absorbed(ring[u], m).suggested = ring[u].corrKeys[m.from].suggested
    BY <2>1, AbsorbedType
  <2> QED
    BY <1>2, <2>1, <2>2, PutKeysStep DEF AbsorbSuggestedNextKeyPair, Puts
<1>3. ASSUME ring' = ring, forgotten' = forgotten PROVE KeysStep
  BY <1>3 DEF KeysStep, Lost
<1>4. ASSUME NEW u \in User, NEW m \in msgs, OpenMsg(u, m) PROVE KeysStep
  <2>1. m \in Msg /\ forgotten' = forgotten
    BY <1>4 DEF OpenMsg, TypeOK
  <2> QED
    BY <1>2, <1>3, <1>4, <2>1 DEF OpenMsg
<1>5. ASSUME NEW u \in User, StartTrust(u) PROVE KeysStep
  <2>1. shown[u] \in Msg
    BY <1>5 DEF StartTrust, TypeOK
  <2> QED
    BY <1>2, <1>5, <2>1 DEF StartTrust
<1>6. ASSUME NEW u \in User, UpdatePublishedKey(u) PROVE KeysStep
  <2> DEFINE r == Updated(ring[u], <<u, generated[u] + 1>>)
  <2>1. <<u, generated[u] + 1>> \in Key /\ ring[u] \in Ring
    BY DEF TypeOK, Key
  <2>2. r \in Ring /\ r.corrKeys = ring[u].corrKeys
    BY <2>1, UpdatedType
  <2>3. Replace(u, r)
    BY <1>6 DEF UpdatePublishedKey
  <2> HIDE DEF r
  <2> QED
    BY <2>2, <2>3, ReplaceStep
<1>7. ASSUME NEW u \in User, SetInitPubKey(u) \/ SaveChanges(u) PROVE KeysStep
  BY <1>3, <1>7 DEF SetInitPubKey, SaveChanges
<1>8. ASSUME NEW u \in User, Restart(u) PROVE KeysStep
  <2>1. /\ Restarted(u) \in Ring /\ Replace(u, Restarted(u))
        /\ Restarted(u).corrKeys = saved[u].corrKeys
    BY <1>8, RestartDoes
  <2>2. \A v \in User : ring[u].corrKeys[v].suggested # NoPair =>
            Restarted(u).corrKeys[v].suggested \in {NoPair, ring[u].corrKeys[v].suggested}
    BY <2>1 DEF SavedSuggestions
  <2> QED
    BY <2>1, <2>2, ReplaceStep
<1>9. CASE UNCHANGED vars
  BY <1>3, <1>9 DEF vars
<1> QED
  BY <1>1, <1>4, <1>5, <1>6, <1>7, <1>8, <1>9 DEF Next

-----------------------------------------------------------------------------
(* What stays good                                                          *)

\* Messages are not removed, and counters do not decrease.
Grow ==
    /\ msgs \subseteq msgs'
    /\ \A u \in User : /\ generated[u] <= generated'[u]
                      /\ updates[u] <= updates'[u]
                      /\ clock[u] <= clock'[u]

\* Every step grows.
LEMMA StepGrows ==
    ASSUME TypeOK, [Next]_vars
    PROVE  Grow
<1>1. /\ \A u \in User : generated[u] \in Nat /\ updates[u] \in Nat /\ clock[u] \in Nat
      /\ generated \in [User -> Nat] /\ clock \in [User -> Nat]
      /\ updates \in [User -> 0..MaxUpdates]
  BY BoundsAssumption DEF TypeOK
<1>2. ASSUME NEW u \in User, NEW v \in User, SendMsg(u, v) PROVE Grow
  <2>1. KeysForPair(u, v) \in Nat /\ KeysForNext(u, v) \in Nat
    BY DEF KeysForPair, KeysForNext
  <2>2. /\ clock' = [clock EXCEPT ![v] = @ + 1] /\ updates' = updates
        /\ generated' = [generated EXCEPT ![u] = @ + KeysForPair(u, v) + KeysForNext(u, v)]
    BY <1>2 DEF SendMsg
  <2>3. msgs \subseteq msgs'
    BY <1>2, SendMsgDoes
  <2> QED
    BY <1>1, <2>1, <2>2, <2>3 DEF Grow
<1>3. ASSUME msgs' = msgs, generated' = generated, updates' = updates, clock' = clock
      PROVE  Grow
  BY <1>1, <1>3 DEF Grow
<1>4. ASSUME NEW u \in User, UpdatePublishedKey(u) PROVE Grow
  <2>1. /\ generated' = [generated EXCEPT ![u] = @ + 1] /\ msgs' = msgs /\ clock' = clock
        /\ updates' = [updates EXCEPT ![u] = @ + 1]
    BY <1>4 DEF UpdatePublishedKey
  <2> QED
    BY <1>1, <2>1 DEF Grow
<1>5. ASSUME NEW u \in User, Restart(u) PROVE Grow
  <2>1. \A w \in User : generated[w] <= generated'[w]
    BY <1>5, RestartDoes
  <2>2. msgs' = msgs /\ clock' = clock /\ updates' = updates
    BY <1>5 DEF Restart
  <2> QED
    BY <1>1, <2>1, <2>2 DEF Grow
<1>6. ASSUME NEW u \in User,
             \/ \E m \in msgs : OpenMsg(u, m)
             \/ StartTrust(u) \/ SetInitPubKey(u) \/ SaveChanges(u)
      PROVE  Grow
  BY <1>3, <1>6 DEF OpenMsg, StartTrust, SetInitPubKey, SaveChanges
<1>7. CASE UNCHANGED vars
  BY <1>3, <1>7 DEF vars
<1> QED
  BY <1>2, <1>4, <1>5, <1>6, <1>7 DEF Next

\* Good keys of a correspondent stay good.
LEMMA KeysGoodStay ==
    ASSUME TypeOK, TypeOK', KeysStep, Grow, NEW u \in User, NEW v \in User,
           NEW keys \in CorrespondentKeys, KeysGood(u, v, keys)
    PROVE  KeysGood(u, v, keys)'
<1>1. /\ keys.suggested \in ReceptionPair \cup {NoPair}
      /\ keys.sendingPair \in SendingPair \cup {NoPair}
  BY DEF CorrespondentKeys
<1>2. generated[u] \in Nat /\ generated'[u] \in Nat /\ generated[u] <= generated'[u]
  BY DEF TypeOK, Grow
<1>3. updates[u] \in Nat /\ updates'[u] \in Nat /\ updates[u] <= updates'[u]
  BY BoundsAssumption DEF TypeOK, Grow
<1>4. ASSUME keys.suggested # NoPair
      PROVE  /\ keys.known /\ keys.sendingPair # NoPair
             /\ keys.suggested.recipient[2] <= generated'[u]
  <2>1. keys.suggested.recipient[2] \in Nat
    BY <1>1, <1>4 DEF ReceptionPair, Key
  <2> QED
    BY <1>2, <1>4, <2>1 DEF KeysGood
<1>5. ASSUME keys.sendingPair # NoPair
      PROVE  SendingGood(u, v, keys)'
  <2> DEFINE pair == keys.sendingPair
  <2>1. pair.recipient \in Key /\ pair.sender \in Key
    BY <1>1, <1>5 DEF SendingPair
  <2>2. SendingGood(u, v, keys)
    BY <1>5 DEF KeysGood
  <2>3. Receives(v, pair.recipient) => Receives(v, pair.recipient)'
    BY <2>1, KeysStay
  <2>4. Suggests(v, u, pair.recipient, pair.sender)
            => Suggests(v, u, pair.recipient, pair.sender)'
    BY <2>1, KeysStay
  <2>5. FromMessage(u, v, pair, keys.sendingPairTS)
            => FromMessage(u, v, pair, keys.sendingPairTS)'
    BY DEF FromMessage, Grow
  <2> QED
    BY <2>2, <2>3, <2>4, <2>5 DEF SendingGood
<1>6. keys.known => keys.sendingPair # NoPair \/ updates'[u] > 1
  BY <1>3 DEF KeysGood
<1> QED
  BY <1>4, <1>5, <1>6 DEF KeysGood

\* A good message stays good.
LEMMA MsgGoodStays ==
    ASSUME TypeOK, TypeOK', KeysStep, Grow, NEW m \in Msg, MsgGood(m)
    PROVE  MsgGood(m)'
<1>1. /\ m.from \in User /\ m.to \in User /\ m.recipient \in Key /\ m.sender \in Key
      /\ m.next.recipient \in Key /\ m.next.sender \in Key
      /\ m.timestamp \in Nat /\ m.next.recipient[2] \in Nat
  BY DEF Msg, ReceptionPair, Key
<1>2. /\ Suggests(m.from, m.to, m.next.recipient, m.next.sender)
            => Suggests(m.from, m.to, m.next.recipient, m.next.sender)'
      /\ Finds(m.to, m.from, m.next.sender) => Finds(m.to, m.from, m.next.sender)'
      /\ Receives(m.to, m.recipient) => Receives(m.to, m.recipient)'
      /\ Suggests(m.to, m.from, m.recipient, m.sender)
            => Suggests(m.to, m.from, m.recipient, m.sender)'
  BY <1>1, KeysStay
<1>3. m.timestamp <= clock[m.to] => m.timestamp <= clock'[m.to]
  <2>1. clock[m.to] \in Nat /\ clock'[m.to] \in Nat /\ clock[m.to] <= clock'[m.to]
    BY <1>1 DEF TypeOK, Grow
  <2> QED
    BY <1>1, <2>1
<1>4. m.next.recipient[2] <= generated[m.from] => m.next.recipient[2] <= generated'[m.from]
  <2>1. /\ generated[m.from] \in Nat /\ generated'[m.from] \in Nat
        /\ generated[m.from] <= generated'[m.from]
    BY <1>1 DEF TypeOK, Grow
  <2> QED
    BY <1>1, <2>1
<1> QED
  BY <1>2, <1>3, <1>4 DEF MsgGood

\* So do keys that are not changed by a step.
LEMMA SameKeysStay ==
    ASSUME IInv, TypeOK', KeysStep, Grow, NEW u \in User, NEW v \in User
    PROVE  /\ ring'[u].corrKeys[v] = ring[u].corrKeys[v]
                 => KeysGood(u, v, ring[u].corrKeys[v])'
           /\ saved'[u].corrKeys[v] = saved[u].corrKeys[v]
                 => KeysGood(u, v, saved[u].corrKeys[v])'
<1>1. ASSUME NEW keys \in CorrespondentKeys, KeysGood(u, v, keys)
      PROVE  KeysGood(u, v, keys)'
  BY <1>1, KeysGoodStay DEF IInv
<1>2. /\ ring[u].corrKeys[v] \in CorrespondentKeys
      /\ saved[u].corrKeys[v] \in CorrespondentKeys
  BY DEF IInv, TypeOK, Ring
<1>3. KeysGood(u, v, ring[u].corrKeys[v]) /\ KeysGood(u, v, saved[u].corrKeys[v])
  BY DEF IInv, Rings, RingGood
<1>4. ASSUME ring'[u].corrKeys[v] = ring[u].corrKeys[v]
      PROVE  KeysGood(u, v, ring[u].corrKeys[v])'
  <2> PICK keys \in CorrespondentKeys : keys = ring[u].corrKeys[v]
    BY <1>2
  <2>1. KeysGood(u, v, keys)'
    BY <1>1, <1>3
  <2> QED
    BY <1>4, <2>1
<1>5. ASSUME saved'[u].corrKeys[v] = saved[u].corrKeys[v]
      PROVE  KeysGood(u, v, saved[u].corrKeys[v])'
  <2> PICK keys \in CorrespondentKeys : keys = saved[u].corrKeys[v]
    BY <1>2
  <2>1. KeysGood(u, v, keys)'
    BY <1>1, <1>3
  <2> QED
    BY <1>5, <2>1
<1> QED
  BY <1>4, <1>5

\* Saved rings, when none is saved in a step.
LEMMA SavedStays ==
    ASSUME IInv, TypeOK', KeysStep, Grow, saved' = saved, NEW u \in User
    PROVE  RingGood(u, saved[u])'
<1>1. \A v \in User : KeysGood(u, v, saved[u].corrKeys[v])'
  BY SameKeysStay
<1>2. updates'[u] = 0 => updates[u] = 0
  BY BoundsAssumption DEF IInv, TypeOK, Grow
<1>3. updates[u] = 0 => saved[u].retiredKey = NoKey
  BY DEF IInv, Rings, RingGood
<1> QED
  BY <1>1, <1>2, <1>3 DEF RingGood

\* The same about rings in applications.
LEMMA RingStays ==
    ASSUME IInv, TypeOK', KeysStep, Grow, NEW u \in User, ring'[u] = ring[u]
    PROVE  RingGood(u, ring[u])'
<1>1. \A v \in User : KeysGood(u, v, ring[u].corrKeys[v])'
  BY SameKeysStay
<1>2. updates'[u] = 0 => updates[u] = 0
  BY BoundsAssumption DEF IInv, TypeOK, Grow
<1>3. updates[u] = 0 => ring[u].retiredKey = NoKey
  BY DEF IInv, Rings, RingGood
<1> QED
  BY <1>1, <1>2, <1>3 DEF RingGood

\* Introductory keys, when none is given to a server.
LEMMA ServedStays ==
    ASSUME IInv, KeysStep, served' = served
    PROVE  Served'
<1> SUFFICES ASSUME NEW u \in User, served[u] # NoKey PROVE Receives(u, served[u])'
  BY DEF Served
<1> PICK key \in Key : key = served[u]
  BY DEF IInv, TypeOK
<1>1. Receives(u, key)
  BY DEF IInv, Served
<1>2. Receives(u, key)'
  BY <1>1, KeysStay DEF IInv
<1> QED
  BY <1>2 DEF Receives

\* Steps without new messages and suggestions.
Quiet ==
    /\ msgs' = msgs
    /\ \A u, v \in User : ring'[u].corrKeys[v].suggested
                            \in {NoPair, ring[u].corrKeys[v].suggested}

\* In such steps suggestions and messages stay good.
LEMMA QuietKeeps ==
    ASSUME IInv, TypeOK', KeysStep, Grow, Quiet
    PROVE  Suggestions' /\ Messages' /\ Ordered'
<1>1. Suggestions'
  <2> SUFFICES ASSUME NEW u \in User, NEW v \in User,
                      ring'[u].corrKeys[v].suggested # NoPair
               PROVE  Finds(v, u, ring[u].corrKeys[v].suggested.sender)'
    BY DEF Suggestions
  <2>1. ring'[u].corrKeys[v].suggested = ring[u].corrKeys[v].suggested
    BY DEF Quiet
  <2>2. ring[u].corrKeys[v].suggested \in ReceptionPair
    BY <2>1 DEF IInv, TypeOK, Ring, CorrespondentKeys
  <2> PICK key \in Key : key = ring[u].corrKeys[v].suggested.sender
    BY <2>2 DEF ReceptionPair
  <2>3. Finds(v, u, key)
    BY <2>1 DEF IInv, Suggestions
  <2>4. Finds(v, u, key)'
    BY <2>3, KeysStay DEF IInv
  <2> QED
    BY <2>1, <2>4 DEF Finds
<1>2. Messages'
  <2> SUFFICES ASSUME NEW m \in msgs PROVE MsgGood(m)'
    BY DEF Messages, Quiet
  <2>1. m \in Msg /\ MsgGood(m)
    BY DEF IInv, TypeOK, Messages
  <2> QED
    BY <2>1, MsgGoodStays DEF IInv
<1>3. Ordered'
  <2> SUFFICES ASSUME NEW m \in msgs, NEW n \in msgs,
                      m.from = n.from, m.to = n.to, m.timestamp < n.timestamp,
                      m.next.recipient \in SuggestedKeys(ring'[m.from], m.to)
               PROVE  n.next.recipient \in SuggestedKeys(ring'[n.from], n.to)
    BY DEF Ordered, Quiet
  <2>1. m.from \in User /\ m.to \in User
    BY DEF IInv, TypeOK, Msg
  <2>2. ring'[m.from].corrKeys[m.to].suggested = ring[m.from].corrKeys[m.to].suggested
    BY <2>1 DEF Quiet, SuggestedKeys
  <2>3. SuggestedKeys(ring'[m.from], m.to) = SuggestedKeys(ring[m.from], m.to)
    BY <2>2 DEF SuggestedKeys
  <2>4. n.next.recipient \in SuggestedKeys(ring[n.from], n.to)
    BY <2>3 DEF IInv, Ordered
  <2> QED
    BY <2>3, <2>4
<1> QED
  BY <1>1, <1>2, <1>3

-----------------------------------------------------------------------------
(* Steps                                                                    *)

\* A suggestion in a message is absorbed by its recipient, who either has a key for
\* it, or has the sender in a ring already, or has updated keys twice.
LEMMA AbsorbKeeps ==
    ASSUME IInv, TypeOK', KeysStep, Grow, NEW u \in User, NEW m \in msgs, m.to = u,
           AbsorbSuggestedNextKeyPair(u, m), msgs' = msgs, saved' = saved,
           updates' = updates,
           \/ ring[u].corrKeys[m.from].known
           \/ m.next.sender \in ReceptionKeys(ring[u], m.from)
           \/ updates[u] > 1
    PROVE  /\ Rings' /\ SavedSuggestions' /\ Quiet
           /\ \A w \in User : IntroKeys(ring'[w]) = IntroKeys(ring[w])
<1> DEFINE v == m.from
           old == ring[u].corrKeys[v]
           new == Absorbed(ring[u], m)
           pair == [recipient |-> m.next.recipient, sender |-> m.next.sender,
                    isSelfGenerated |-> FALSE]
<1>1. m \in Msg /\ v \in User /\ ring[u] \in Ring /\ ring \in [User -> Ring]
  BY DEF IInv, TypeOK, Msg
<1>2. /\ new \in CorrespondentKeys
      /\ new.suggested = old.suggested
      /\ \/ new = old
         \/ /\ m.next.sender \notin ReceptionKeys(ring[u], v)
            /\ new = [old EXCEPT !.known = TRUE]
         \/ /\ new.known /\ new.sendingPair = pair /\ new.sendingPairTS = m.timestamp
  BY <1>1, AbsorbedType
<1> HIDE DEF new
<1>3. /\ \A w \in User : w # u => ring'[w] = ring[w]
      /\ ring'[u].publishedKey = ring[u].publishedKey
      /\ ring'[u].retiredKey = ring[u].retiredKey
      /\ ring'[u].corrKeys[v] = new
      /\ \A w \in User : w # v => ring'[u].corrKeys[w] = ring[u].corrKeys[w]
  <2>1. Puts(u, v, new)
    BY DEF AbsorbSuggestedNextKeyPair, Puts, new
  <2> QED
    BY <1>1, <1>2, <2>1, PutInRing
<1>4. \A w, x \in User : ring'[w].corrKeys[x].suggested = ring[w].corrKeys[x].suggested
  BY <1>2, <1>3
<1>5. \A w \in User : IntroKeys(ring'[w]) = IntroKeys(ring[w])
  BY <1>3 DEF IntroKeys
<1>6. SavedSuggestions'
  BY <1>4 DEF SavedSuggestions, IInv
<1>7. KeysGood(u, v, old)
  BY <1>1 DEF IInv, Rings, RingGood
<1>8. KeysGood(u, v, ring[u].corrKeys[v])'
  <2>1. CASE new = old
    BY <1>1, <1>3, <2>1, SameKeysStay
  <2>2. CASE m.next.sender \notin ReceptionKeys(ring[u], v)
             /\ new = [old EXCEPT !.known = TRUE]
    <3> PICK keys \in CorrespondentKeys : keys = new
      BY <1>2
    <3>1. old \in CorrespondentKeys
      BY <1>1 DEF Ring
    <3>2. /\ keys.known /\ keys.suggested = old.suggested
          /\ keys.sendingPair = old.sendingPair /\ keys.sendingPairTS = old.sendingPairTS
      BY <2>2, <3>1 DEF CorrespondentKeys
    <3>3. keys.sendingPair # NoPair \/ updates[u] > 1
      BY <1>7, <2>2, <3>2 DEF KeysGood
    <3>4. KeysGood(u, v, keys)
      BY <1>7, <3>2, <3>3 DEF KeysGood, SendingGood
    <3>5. KeysGood(u, v, keys)'
      BY <1>1, <3>4, KeysGoodStay DEF IInv
    <3> QED
      BY <1>3, <3>5
  <2>3. CASE new.known /\ new.sendingPair = pair /\ new.sendingPairTS = m.timestamp
    <3> PICK keys \in CorrespondentKeys : keys = new
      BY <1>2
    <3>1. /\ m.next \in ReceptionPair
          /\ m.next = [recipient |-> m.next.recipient, sender |-> m.next.sender]
      BY <1>1 DEF Msg, ReceptionPair
    <3>2. pair \in SendingPair
      BY <3>1 DEF ReceptionPair, SendingPair
    <3>3. Suggests(v, u, m.next.recipient, m.next.sender)
      BY DEF IInv, Messages, MsgGood
    <3>4. FromMessage(u, v, pair, m.timestamp)
      BY <3>1 DEF FromMessage
    <3>5. SendingGood(u, v, keys)
      BY <2>3, <3>3, <3>4 DEF SendingGood
    <3>6. keys.suggested # NoPair => keys.suggested.recipient[2] <= generated[u]
      BY <1>2, <1>7 DEF KeysGood
    <3>7. KeysGood(u, v, keys)
      BY <2>3, <3>2, <3>5, <3>6, NoneAssumption DEF KeysGood
    <3>8. KeysGood(u, v, keys)'
      BY <1>1, <3>7, KeysGoodStay DEF IInv
    <3> QED
      BY <1>3, <3>8
  <2> QED
    BY <1>2, <2>1, <2>2, <2>3
<1>9. Rings'
  <2> SUFFICES ASSUME NEW w \in User PROVE RingGood(w, ring[w])' /\ RingGood(w, saved[w])'
    BY DEF Rings
  <2>1. RingGood(w, saved[w])'
    BY SavedStays
  <2>2. CASE w # u
    BY <1>3, <2>1, <2>2, RingStays
  <2>3. CASE w = u
    <3>1. \A x \in User : KeysGood(u, x, ring[u].corrKeys[x])'
      BY <1>3, <1>8, SameKeysStay
    <3>2. updates'[u] = 0 => ring'[u].retiredKey = NoKey
      BY <1>3 DEF IInv, Rings, RingGood
    <3> QED
      BY <2>1, <2>3, <3>1, <3>2 DEF RingGood
  <2> QED
    BY <2>2, <2>3
<1> QED
  BY <1>4, <1>5, <1>6, <1>9 DEF Quiet

\* A pair that u uses to send to v.
LEMMA PairToUseGood ==
    ASSUME IInv, NEW u \in User, NEW v \in User, HasKeyFor(u, v)
    PROVE  LET pair == PairToUse(u, v)
           IN  IF pair.isSelfGenerated
               THEN Receives(v, pair.recipient)
               ELSE /\ Suggests(v, u, pair.recipient, pair.sender)
                    /\ FromMessage(u, v, pair, ring[u].corrKeys[v].sendingPairTS)
<1> DEFINE old == ring[u].corrKeys[v]
<1>1. CASE old.sendingPair # NoPair
  <2>1. SendingGood(u, v, old)
    BY <1>1 DEF IInv, Rings, RingGood, KeysGood
  <2>2. PairToUse(u, v) = old.sendingPair
    BY <1>1 DEF PairToUse
  <2> QED
    BY <2>1, <2>2 DEF SendingGood
<1>2. CASE old.sendingPair = NoPair
  <2>1. PairToUse(u, v).isSelfGenerated /\ PairToUse(u, v).recipient = served[v]
    BY <1>2 DEF PairToUse
  <2>2. Receives(v, served[v])
    BY <1>2 DEF HasKeyFor, IInv, Served
  <2> QED
    BY <2>1, <2>2
<1> QED
  BY <1>1, <1>2

\* A pair that u suggests to v, with g keys generated by then: either the present
\* one, or one with a new key.
LEMMA PairToSuggestGood ==
    ASSUME IInv, NEW u \in User, NEW v \in User, HasKeyFor(u, v), NEW g \in Nat,
           g = generated[u] + KeysForPair(u, v) + KeysForNext(u, v)
    PROVE  LET next == PairToSuggest(u, v)
               old == ring[u].corrKeys[v]
           IN  /\ Finds(v, u, next.sender)
               /\ PairToUse(u, v).isSelfGenerated => next.sender = PairToUse(u, v).recipient
               /\ next.recipient[2] <= g
               /\ \/ old.suggested # NoPair /\ next = old.suggested
                  \/ old.suggested = NoPair /\ next.recipient[2] > generated[u]
<1> DEFINE old == ring[u].corrKeys[v]
           pair == PairToUse(u, v)
           next == PairToSuggest(u, v)
<1>1. /\ pair \in SendingPair /\ pair.recipient \in Key /\ pair.sender \in Key
      /\ next \in ReceptionPair /\ generated[u] \in Nat
      /\ KeysForPair(u, v) \in Nat /\ KeysForNext(u, v) \in Nat
  BY SentType DEF IInv, TypeOK, SendingPair
<1>2. CASE old.suggested # NoPair
  <2>1. next = old.suggested
    BY <1>2 DEF PairToSuggest
  <2>2. KeysGood(u, v, old)
    BY DEF IInv, Rings, RingGood
  <2>3. pair = old.sendingPair
    BY <1>2, <2>2 DEF KeysGood, PairToUse
  <2>4. pair.isSelfGenerated => next.sender = pair.recipient
    BY <1>2, <2>1, <2>2, <2>3 DEF KeysGood, SendingGood
  <2>5. Finds(v, u, next.sender)
    BY <1>2, <2>1 DEF IInv, Suggestions
  <2>6. next.recipient[2] <= generated[u]
    BY <1>2, <2>1, <2>2 DEF KeysGood
  <2>7. next.recipient[2] \in Nat
    BY <1>1 DEF ReceptionPair, Key
  <2>8. next.recipient[2] <= g
    BY <1>1, <2>6, <2>7
  <2> QED
    BY <1>2, <2>1, <2>4, <2>5, <2>8
<1>3. CASE old.suggested = NoPair
  <2>1. next = [recipient |-> <<u, generated[u] + KeysForPair(u, v) + 1>>,
                sender |-> pair.recipient]
    BY <1>3 DEF PairToSuggest
  <2>2. KeysForNext(u, v) = 1
    BY <1>3 DEF KeysForNext
  <2>3. next.sender = pair.recipient
        /\ next.recipient[2] = generated[u] + KeysForPair(u, v) + 1
    BY <2>1
  <2>4. next.recipient[2] <= g /\ next.recipient[2] > generated[u]
    BY <1>1, <2>2, <2>3
  <2>5. Finds(v, u, pair.recipient)
    <3>1. Receives(v, pair.recipient) \/ Suggests(v, u, pair.recipient, pair.sender)
      BY PairToUseGood
    <3> QED
      BY <1>1, <3>1, FindsWhatIsThere DEF IInv
  <2> QED
    BY <1>3, <2>3, <2>4, <2>5
<1> QED
  BY <1>2, <1>3

\* Sending of a message.
LEMMA SendKeeps ==
    ASSUME IInv, TypeOK', KeysStep, Grow, NEW u \in User, NEW v \in User, SendMsg(u, v)
    PROVE  /\ Rings' /\ SavedSuggestions' /\ Suggestions' /\ Served'
           /\ Messages' /\ Ordered' /\ Displayed'
<1> DEFINE old == ring[u].corrKeys[v]
<1>1. /\ u # v /\ HasKeyFor(u, v)
      /\ clock' = [clock EXCEPT ![v] = @ + 1]
      /\ generated' = [generated EXCEPT ![u] = @ + KeysForPair(u, v) + KeysForNext(u, v)]
      /\ saved' = saved /\ served' = served /\ shown' = shown
      /\ forgotten' = forgotten /\ updates' = updates
  BY DEF SendMsg
<1>2. /\ generated[u] \in Nat /\ clock[v] \in Nat /\ old \in CorrespondentKeys
      /\ generated \in [User -> Nat] /\ clock \in [User -> Nat]
      /\ ring \in [User -> Ring] /\ msgs \subseteq Msg
  BY DEF IInv, TypeOK, Ring
<1> PICK pair \in SendingPair : pair = PairToUse(u, v)
  BY <1>1, SentType DEF IInv
<1> PICK next \in ReceptionPair : next = PairToSuggest(u, v)
  BY <1>1, SentType DEF IInv
<1> PICK keys \in CorrespondentKeys : keys = SentKeys(u, v)
  BY <1>1, SentType DEF IInv
<1> PICK msg \in Msg : msg = SentMsg(u, v)
  BY <1>1, SentType DEF IInv
<1> PICK g \in Nat : g = generated[u] + KeysForPair(u, v) + KeysForNext(u, v)
  BY <1>1, <1>2, SentType DEF IInv
<1>3. /\ pair.recipient \in Key /\ pair.sender \in Key /\ pair # NoPair
      /\ next.recipient \in Key /\ next.sender \in Key /\ next # NoPair
      /\ next = [recipient |-> next.recipient, sender |-> next.sender]
  BY NoneAssumption DEF SendingPair, ReceptionPair
<1>4. /\ keys.known /\ keys.sendingPair = pair /\ keys.suggested = next
      /\ keys.sendingPairTS = old.sendingPairTS
  BY <1>2 DEF SentKeys, CorrespondentKeys
<1>5. /\ msg.from = u /\ msg.to = v /\ msg.intro = pair.isSelfGenerated
      /\ msg.recipient = pair.recipient /\ msg.sender = pair.sender
      /\ msg.next = next /\ msg.timestamp = clock[v] + 1
  BY DEF SentMsg
<1>6. IF pair.isSelfGenerated
      THEN Receives(v, pair.recipient)
      ELSE /\ Suggests(v, u, pair.recipient, pair.sender)
           /\ FromMessage(u, v, pair, keys.sendingPairTS)
  BY <1>1, <1>4, PairToUseGood
<1>7. /\ Finds(v, u, next.sender)
      /\ pair.isSelfGenerated => next.sender = pair.recipient
      /\ next.recipient[2] <= g
      /\ \/ old.suggested # NoPair /\ next = old.suggested
         \/ old.suggested = NoPair /\ next.recipient[2] > generated[u]
  BY <1>1, PairToSuggestGood
<1>8. generated'[u] = g /\ clock'[v] = clock[v] + 1
  BY <1>1, <1>2
<1>9. /\ \A w \in User : w # u => ring'[w] = ring[w]
      /\ ring'[u].publishedKey = ring[u].publishedKey
      /\ ring'[u].retiredKey = ring[u].retiredKey
      /\ ring'[u].corrKeys[v] = keys
      /\ \A w \in User : w # v => ring'[u].corrKeys[w] = ring[u].corrKeys[w]
  BY <1>2, SendMsgDoes, PutInRing
<1>10. msgs' = msgs \cup {msg}
  BY SendMsgDoes
<1>11. /\ Receives(v, pair.recipient) => Receives(v, pair.recipient)'
       /\ Suggests(v, u, pair.recipient, pair.sender)
             => Suggests(v, u, pair.recipient, pair.sender)'
       /\ Finds(v, u, next.sender)'
  BY <1>3, <1>7, KeysStay DEF IInv
<1>12. Rings'
  <2>1. SendingGood(u, v, keys)'
    <3>1. FromMessage(u, v, pair, keys.sendingPairTS)
              => FromMessage(u, v, pair, keys.sendingPairTS)'
      BY <1>10 DEF FromMessage
    <3> QED
      BY <1>4, <1>6, <1>7, <1>11, <3>1 DEF SendingGood
  <2>2. KeysGood(u, v, keys)'
    BY <1>3, <1>4, <1>7, <1>8, <2>1 DEF KeysGood
  <2>3. KeysGood(u, v, ring[u].corrKeys[v])'
    BY <1>9, <2>2
  <2>4. \A x \in User : KeysGood(u, x, ring[u].corrKeys[x])'
    BY <1>9, <2>3, SameKeysStay
  <2>5. RingGood(u, ring[u])'
    BY <1>1, <1>9, <2>4 DEF RingGood, IInv, Rings
  <2>6. \A w \in User : RingGood(w, ring[w])'
    BY <1>9, <2>5, RingStays
  <2>7. \A w \in User : RingGood(w, saved[w])'
    BY <1>1, SavedStays
  <2> QED
    BY <2>6, <2>7 DEF Rings
<1>13. SavedSuggestions'
  <2> SUFFICES ASSUME NEW w \in User, NEW x \in User,
                      saved[w].corrKeys[x].suggested # NoPair
               PROVE  ring'[w].corrKeys[x].suggested = saved[w].corrKeys[x].suggested
    BY <1>1 DEF SavedSuggestions
  <2>1. ring[w].corrKeys[x].suggested = saved[w].corrKeys[x].suggested
    BY DEF IInv, SavedSuggestions
  <2> QED
    BY <1>4, <1>7, <1>9, <2>1
<1>14. Suggestions'
  <2> SUFFICES ASSUME NEW w \in User, NEW x \in User,
                      ring'[w].corrKeys[x].suggested # NoPair
               PROVE  Finds(x, w, ring[w].corrKeys[x].suggested.sender)'
    BY DEF Suggestions
  <2>1. CASE w = u /\ x = v
    <3>1. ring'[w].corrKeys[x].suggested.sender = next.sender
      BY <1>4, <1>9, <2>1
    <3> QED
      BY <1>11, <2>1, <3>1 DEF Finds
  <2>2. CASE ~(w = u /\ x = v)
    <3>1. ring'[w].corrKeys[x] = ring[w].corrKeys[x]
      BY <1>9, <2>2
    <3>2. ring[w].corrKeys[x].suggested \in ReceptionPair
      BY <3>1 DEF IInv, TypeOK, Ring, CorrespondentKeys
    <3> PICK key \in Key : key = ring[w].corrKeys[x].suggested.sender
      BY <3>2 DEF ReceptionPair
    <3>3. Finds(x, w, key)'
      BY <3>1, KeysStay DEF IInv, Suggestions
    <3> QED
      BY <3>1, <3>3 DEF Finds
  <2> QED
    BY <2>1, <2>2
<1>15. Served'
  BY <1>1, ServedStays
<1>16. Messages'
  <2>1. ASSUME NEW m \in msgs PROVE MsgGood(m)'
    <3>1. m \in Msg /\ MsgGood(m)
      BY <1>2 DEF IInv, Messages
    <3> QED
      BY <3>1, MsgGoodStays DEF IInv
  <2>2. MsgGood(msg)'
    <3>1. Suggests(u, v, next.recipient, next.sender)'
      BY <1>3, <1>4, <1>9 DEF Suggests
    <3>2. IF pair.isSelfGenerated
          THEN Receives(v, pair.recipient)' /\ next.sender = pair.recipient
          ELSE Suggests(v, u, pair.recipient, pair.sender)'
      BY <1>6, <1>7, <1>11
    <3>3. clock[v] + 1 <= clock'[v]
      BY <1>2, <1>8
    <3> QED
      BY <1>5, <1>7, <1>8, <1>11, <3>1, <3>2, <3>3 DEF MsgGood
  <2> QED
    BY <1>10, <2>1, <2>2 DEF Messages
<1>17. Ordered'
  <2> SUFFICES ASSUME NEW m \in msgs \cup {msg}, NEW n \in msgs \cup {msg},
                      m.from = n.from, m.to = n.to, m.timestamp < n.timestamp,
                      m.next.recipient \in SuggestedKeys(ring'[m.from], m.to)
               PROVE  n.next.recipient \in SuggestedKeys(ring'[n.from], n.to)
    BY <1>10 DEF Ordered
  <2>1. SuggestedKeys(ring'[u], v) = {next.recipient}
    BY <1>3, <1>4, <1>9 DEF SuggestedKeys
  <2>2. CASE n = msg
    BY <1>5, <2>1, <2>2
  <2>3. CASE m = msg /\ n # msg
    <3>1. n \in Msg /\ n.timestamp <= clock[n.to] /\ n.timestamp \in Nat
      BY <1>2, <2>3 DEF IInv, Messages, MsgGood, Msg
    <3>2. n.to = v /\ m.timestamp = clock[v] + 1
      BY <1>5, <2>3
    <3> QED
      BY <1>2, <3>1, <3>2
  <2>4. CASE m # msg /\ n # msg
    <3>1. /\ m \in msgs /\ n \in msgs /\ m.from \in User /\ m.to \in User
          /\ m.next.recipient[2] <= generated[m.from] /\ m.next.recipient[2] \in Nat
      BY <1>2, <2>4 DEF IInv, Messages, MsgGood, Msg, ReceptionPair, Key
    <3>2. CASE m.from = u /\ m.to = v
      <4>1. m.next.recipient = next.recipient
        BY <2>1, <3>2
      <4>2. next = old.suggested /\ old.suggested # NoPair
        BY <1>2, <1>7, <3>1, <3>2, <4>1
      <4>3. SuggestedKeys(ring[u], v) = {next.recipient}
        BY <4>2 DEF SuggestedKeys
      <4>4. n.next.recipient \in SuggestedKeys(ring[u], v)
        BY <3>1, <3>2, <4>1, <4>3 DEF IInv, Ordered
      <4> QED
        BY <2>1, <3>2, <4>3, <4>4
    <3>3. CASE ~(m.from = u /\ m.to = v)
      <4>1. ring'[m.from].corrKeys[m.to] = ring[m.from].corrKeys[m.to]
        BY <1>9, <3>1, <3>3
      <4>2. SuggestedKeys(ring'[m.from], m.to) = SuggestedKeys(ring[m.from], m.to)
        BY <4>1 DEF SuggestedKeys
      <4>3. n.next.recipient \in SuggestedKeys(ring[n.from], n.to)
        BY <3>1, <4>2 DEF IInv, Ordered
      <4> QED
        BY <4>2, <4>3
    <3> QED
      BY <3>2, <3>3
  <2> QED
    BY <2>2, <2>3, <2>4
<1>18. Displayed'
  <2>1. \A w \in User : IntroKeys(ring'[w]) = IntroKeys(ring[w])
    BY <1>9 DEF IntroKeys
  <2> QED
    BY <1>1, <1>10, <2>1 DEF Displayed, IInv
<1> QED
  BY <1>12, <1>13, <1>14, <1>15, <1>16, <1>17, <1>18

\* Opening of a message, and a start of trust.
LEMMA OpenKeeps ==
    ASSUME IInv, TypeOK', KeysStep, Grow, NEW u \in User,
           (\E m \in msgs : OpenMsg(u, m)) \/ StartTrust(u)
    PROVE  Rings' /\ SavedSuggestions' /\ Quiet /\ Displayed'
<1>1. ASSUME NEW m \in msgs, OpenMsg(u, m), ring[u].corrKeys[m.from].known,
             AbsorbSuggestedNextKeyPair(u, m), shown' = [shown EXCEPT ![u] = NoMsg]
      PROVE  Rings' /\ SavedSuggestions' /\ Quiet /\ Displayed'
  <2>1. m.to = u /\ msgs' = msgs /\ saved' = saved /\ updates' = updates
    BY <1>1 DEF OpenMsg
  <2>2. /\ Rings' /\ SavedSuggestions' /\ Quiet
        /\ \A w \in User : IntroKeys(ring'[w]) = IntroKeys(ring[w])
    BY <1>1, <2>1, AbsorbKeeps
  <2>3. Displayed'
    BY <1>1, <2>1, <2>2 DEF Displayed, IInv, TypeOK
  <2> QED
    BY <2>2, <2>3
<1>2. ASSUME NEW m \in msgs, OpenMsg(u, m), ~ring[u].corrKeys[m.from].known,
             shown' = [shown EXCEPT ![u] = m], ring' = ring
      PROVE  Rings' /\ SavedSuggestions' /\ Quiet /\ Displayed'
  <2>1. m \in Msg /\ m.from \in User
    BY DEF IInv, TypeOK, Msg
  <2>2. m.to = u /\ Decrypts(ring[u], m) /\ msgs' = msgs /\ saved' = saved
        /\ updates' = updates
    BY <1>2 DEF OpenMsg
  <2>3. ring[u].corrKeys[m.from].suggested = NoPair
    BY <1>2, <2>1 DEF IInv, Rings, RingGood, KeysGood
  <2>4. [recipient |-> m.recipient, sender |-> m.sender] # NoPair
    BY <2>1, NoneAssumption DEF Msg, ReceptionPair
  <2>5. m.intro /\ m.recipient \in IntroKeys(ring[u])
    BY <2>2, <2>3, <2>4 DEF Decrypts
  <2>6. Rings'
    BY <1>2, <2>2, RingStays, SavedStays DEF Rings
  <2>7. SavedSuggestions' /\ Quiet
    BY <1>2, <2>2 DEF SavedSuggestions, Quiet, IInv
  <2>8. Displayed'
    BY <1>2, <2>2, <2>5 DEF Displayed, IInv, TypeOK
  <2> QED
    BY <2>6, <2>7, <2>8
<1>3. ASSUME StartTrust(u)
      PROVE  Rings' /\ SavedSuggestions' /\ Quiet /\ Displayed'
  <2> DEFINE m == shown[u]
  <2>1. /\ m # NoMsg /\ AbsorbSuggestedNextKeyPair(u, m)
        /\ shown' = [shown EXCEPT ![u] = NoMsg] /\ msgs' = msgs /\ saved' = saved
        /\ updates' = updates
    BY <1>3 DEF StartTrust
  <2>2. /\ m \in msgs /\ m.to = u /\ m.intro
        /\ updates[u] <= 1 => m.recipient \in IntroKeys(ring[u])
    BY <2>1 DEF IInv, Displayed
  <2>3. m.next.sender = m.recipient
    BY <2>2 DEF IInv, Messages, MsgGood
  <2>4. m.next.sender \in ReceptionKeys(ring[u], m.from) \/ updates[u] > 1
    <3>1. updates[u] \in Nat
      BY BoundsAssumption DEF IInv, TypeOK
    <3> QED
      BY <2>2, <2>3, <3>1 DEF ReceptionKeys
  <2> HIDE DEF m
  <2>5. /\ Rings' /\ SavedSuggestions' /\ Quiet
        /\ \A w \in User : IntroKeys(ring'[w]) = IntroKeys(ring[w])
    BY <2>1, <2>2, <2>4, AbsorbKeeps
  <2>6. Displayed'
    BY <2>1, <2>5 DEF Displayed, IInv, TypeOK
  <2> QED
    BY <2>5, <2>6
<1> QED
  BY <1>1, <1>2, <1>3 DEF OpenMsg

\* A new introductory key, after which the one before it is still there.
LEMMA UpdateKeeps ==
    ASSUME IInv, TypeOK', KeysStep, Grow, NEW u \in User, UpdatePublishedKey(u)
    PROVE  Rings' /\ SavedSuggestions' /\ Quiet /\ Displayed'
<1> DEFINE key == <<u, generated[u] + 1>>
<1>1. ring \in [User -> Ring] /\ ring[u] \in Ring /\ key \in Key
  BY DEF IInv, TypeOK, Key
<1>2. /\ msgs' = msgs /\ saved' = saved /\ shown' = shown
      /\ updates' = [updates EXCEPT ![u] = @ + 1] /\ Replace(u, Updated(ring[u], key))
  BY DEF UpdatePublishedKey
<1>3. ring' = [ring EXCEPT ![u] = Updated(ring[u], key)]
  BY <1>2 DEF Replace
<1>4. /\ \A w \in User : w # u => ring'[w] = ring[w]
      /\ ring'[u].corrKeys = ring[u].corrKeys
      /\ ring[u].publishedKey # NoKey => ring'[u].retiredKey = ring[u].publishedKey
  BY <1>1, <1>3, UpdatedType
<1>5. updates[u] \in Nat /\ updates'[u] = updates[u] + 1
      /\ \A w \in User : w # u => updates'[w] = updates[w]
  BY <1>2, BoundsAssumption DEF IInv, TypeOK
<1>6. Rings'
  <2>1. \A x \in User : KeysGood(u, x, ring[u].corrKeys[x])'
    BY <1>4, SameKeysStay
  <2>2. RingGood(u, ring[u])'
    BY <1>5, <2>1 DEF RingGood
  <2>3. \A w \in User : RingGood(w, ring[w])' /\ RingGood(w, saved[w])'
    BY <1>2, <1>4, <2>2, RingStays, SavedStays
  <2> QED
    BY <2>3 DEF Rings
<1>7. \A w, x \in User : ring'[w].corrKeys[x].suggested = ring[w].corrKeys[x].suggested
  BY <1>4
<1>8. SavedSuggestions' /\ Quiet
  BY <1>2, <1>7 DEF SavedSuggestions, Quiet, IInv
<1>9. Displayed'
  <2> SUFFICES ASSUME NEW w \in User, shown[w] # NoMsg
               PROVE  /\ shown[w] \in msgs /\ shown[w].to = w /\ shown[w].intro
                      /\ updates'[w] <= 1 => shown[w].recipient \in IntroKeys(ring'[w])
    BY <1>2 DEF Displayed
  <2>1. /\ shown[w] \in msgs /\ shown[w].to = w /\ shown[w].intro
        /\ updates[w] <= 1 => shown[w].recipient \in IntroKeys(ring[w])
    BY DEF IInv, Displayed
  <2>2. CASE w = u /\ updates'[w] <= 1
    <3>1. updates[u] = 0
      BY <1>5, <2>2
    <3>2. ring[u].retiredKey = NoKey
      BY <3>1 DEF IInv, Rings, RingGood
    <3>3. shown[w].recipient = ring[u].publishedKey /\ ring[u].publishedKey # NoKey
      BY <2>1, <2>2, <3>1, <3>2 DEF IntroKeys
    <3> QED
      BY <1>4, <2>1, <2>2, <3>3 DEF IntroKeys
  <2>3. CASE w # u
    BY <1>4, <1>5, <2>1, <2>3
  <2> QED
    BY <2>1, <2>2, <2>3
<1> QED
  BY <1>6, <1>8, <1>9

\* A restart with a saved ring.
LEMMA RestartKeeps ==
    ASSUME IInv, TypeOK', KeysStep, Grow, NEW u \in User, Restart(u)
    PROVE  Rings' /\ SavedSuggestions' /\ Quiet /\ Displayed'
<1>1. ring \in [User -> Ring] /\ shown \in [User -> Msg \cup {NoMsg}]
  BY DEF IInv, TypeOK
<1>2. /\ msgs' = msgs /\ saved' = saved /\ updates' = updates
      /\ shown' = [shown EXCEPT ![u] = NoMsg]
  BY DEF Restart
<1>3. /\ \A w \in User : w # u => ring'[w] = ring[w]
      /\ ring'[u].corrKeys = saved[u].corrKeys /\ ring'[u].retiredKey = saved[u].retiredKey
  <2>1. ring' = [ring EXCEPT ![u] = Restarted(u)]
    BY RestartDoes DEF Replace, IInv
  <2>2. /\ Restarted(u).corrKeys = saved[u].corrKeys
        /\ Restarted(u).retiredKey = saved[u].retiredKey
    BY RestartDoes DEF IInv
  <2> QED
    BY <1>1, <2>1, <2>2
<1>4. Rings'
  <2>1. \A x \in User : KeysGood(u, x, saved[u].corrKeys[x])'
    BY <1>2, SameKeysStay
  <2>2. RingGood(u, ring[u])'
    <3>1. \A x \in User : KeysGood(u, x, ring[u].corrKeys[x])'
      BY <1>2, <1>3, <2>1
    <3>2. updates'[u] = 0 => ring'[u].retiredKey = NoKey
      BY <1>2, <1>3 DEF IInv, Rings, RingGood
    <3> QED
      BY <3>1, <3>2 DEF RingGood
  <2>3. \A w \in User : RingGood(w, ring[w])' /\ RingGood(w, saved[w])'
    BY <1>2, <1>3, <2>2, RingStays, SavedStays
  <2> QED
    BY <2>3 DEF Rings
<1>5. SavedSuggestions' /\ Quiet
  BY <1>2, <1>3 DEF SavedSuggestions, Quiet, IInv
<1>6. Displayed'
  BY <1>1, <1>2, <1>3 DEF Displayed, IInv
<1> QED
  BY <1>4, <1>5, <1>6

\* A ring gets to a storage.
LEMMA SaveKeeps ==
    ASSUME IInv, TypeOK', KeysStep, Grow, NEW u \in User, SaveChanges(u)
    PROVE  Rings' /\ SavedSuggestions' /\ Quiet /\ Displayed'
<1>1. /\ ring' = ring /\ msgs' = msgs /\ shown' = shown /\ updates' = updates
      /\ saved' = [saved EXCEPT ![u] = ring[u]] /\ saved \in [User -> Ring]
  BY DEF SaveChanges, IInv, TypeOK
<1>2. \A w \in User : saved'[w] = ring[w] \/ saved'[w] = saved[w]
  BY <1>1
<1>3. Rings'
  <2> SUFFICES ASSUME NEW w \in User
               PROVE  RingGood(w, ring[w])' /\ RingGood(w, saved[w])'
    BY DEF Rings
  <2>1. RingGood(w, ring[w])'
    BY <1>1, RingStays
  <2>2. CASE saved'[w] = ring[w]
    BY <1>1, <2>1, <2>2
  <2>3. CASE saved'[w] = saved[w]
    <3>1. \A x \in User : KeysGood(w, x, saved[w].corrKeys[x])'
      BY <2>3, SameKeysStay
    <3>2. updates'[w] = 0 => saved'[w].retiredKey = NoKey
      BY <1>1, <2>3 DEF IInv, Rings, RingGood
    <3> QED
      BY <2>1, <3>1, <3>2 DEF RingGood
  <2> QED
    BY <1>2, <2>2, <2>3
<1>4. SavedSuggestions' /\ Quiet /\ Displayed'
  BY <1>1, <1>2 DEF SavedSuggestions, Quiet, Displayed, IInv
<1> QED
  BY <1>3, <1>4

-----------------------------------------------------------------------------
(* The invariant                                                            *)

\* The invariant holds at the start, as nobody is known.
LEMMA IInvInit == Init => IInv
<1> SUFFICES ASSUME Init PROVE IInv
  OBVIOUS
<1>1. \A u, v \in User : /\ ring[u].corrKeys[v] = Stranger /\ saved[u].corrKeys[v] = Stranger
                         /\ ring[u].retiredKey = NoKey /\ saved[u].retiredKey = NoKey
  BY DEF Init, EmptyRing
<1>2. ~Stranger.known /\ Stranger.suggested = NoPair /\ Stranger.sendingPair = NoPair
  BY DEF Stranger
<1>3. \A u, v \in User : KeysGood(u, v, Stranger)
  BY <1>2 DEF KeysGood
<1>4. Rings
  BY <1>1, <1>3 DEF Rings, RingGood
<1>5. SavedSuggestions /\ Suggestions
  BY <1>1, <1>2 DEF SavedSuggestions, Suggestions
<1>6. Served /\ Messages /\ Ordered /\ Displayed
  BY DEF Init, Served, Messages, Ordered, Displayed
<1> QED
  BY <1>4, <1>5, <1>6, TypeInit DEF IInv

\* Every step keeps it.
LEMMA IInvNext == IInv /\ [Next]_vars => IInv'
<1> SUFFICES ASSUME IInv, [Next]_vars PROVE IInv'
  OBVIOUS
<1>1. TypeOK' /\ KeysStep /\ Grow
  BY TypeInvariant, StepKeepsKeys, StepGrows DEF IInv
<1>2. ASSUME Quiet, Rings', SavedSuggestions', Displayed', Served' PROVE IInv'
  BY <1>1, <1>2, QuietKeeps DEF IInv
<1>3. ASSUME NEW u \in User, NEW v \in User, SendMsg(u, v) PROVE IInv'
  BY <1>1, <1>3, SendKeeps DEF IInv
<1>4. ASSUME NEW u \in User, (\E m \in msgs : OpenMsg(u, m)) \/ StartTrust(u) PROVE IInv'
  <2>1. served' = served
    BY <1>4 DEF OpenMsg, StartTrust
  <2> QED
    BY <1>1, <1>2, <1>4, <2>1, OpenKeeps, ServedStays
<1>5. ASSUME NEW u \in User, UpdatePublishedKey(u) PROVE IInv'
  <2>1. served' = served
    BY <1>5 DEF UpdatePublishedKey
  <2> QED
    BY <1>1, <1>2, <1>5, <2>1, UpdateKeeps, ServedStays
<1>6. ASSUME NEW u \in User, Restart(u) PROVE IInv'
  <2>1. served' = served
    BY <1>6 DEF Restart
  <2> QED
    BY <1>1, <1>2, <1>6, <2>1, RestartKeeps, ServedStays
<1>7. ASSUME NEW u \in User, SaveChanges(u) PROVE IInv'
  <2>1. served' = served
    BY <1>7 DEF SaveChanges
  <2> QED
    BY <1>1, <1>2, <1>7, <2>1, SaveKeeps, ServedStays
<1>8. ASSUME ring' = ring, saved' = saved, msgs' = msgs, shown' = shown, updates' = updates,
             Served'
      PROVE  IInv'
  <2>1. Rings'
    BY <1>1, <1>8, RingStays, SavedStays DEF Rings
  <2>2. SavedSuggestions' /\ Quiet /\ Displayed'
    BY <1>8 DEF SavedSuggestions, Quiet, Displayed, IInv
  <2> QED
    BY <1>2, <1>8, <2>1, <2>2
<1>9. ASSUME NEW u \in User, SetInitPubKey(u) PROVE IInv'
  <2>1. /\ ring' = ring /\ saved' = saved /\ msgs' = msgs /\ shown' = shown
        /\ updates' = updates /\ forgotten' = forgotten
        /\ served' = [served EXCEPT ![u] = ring[u].publishedKey]
    BY <1>9 DEF SetInitPubKey
  <2>2. Served'
    BY <2>1 DEF Served, Receives, IntroKeys, IInv, TypeOK
  <2> QED
    BY <1>8, <2>1, <2>2
<1>10. CASE UNCHANGED vars
  <2>1. Served'
    BY <1>1, <1>10, ServedStays DEF vars
  <2> QED
    BY <1>8, <1>10, <2>1 DEF vars
<1> QED
  BY <1>3, <1>4, <1>5, <1>6, <1>7, <1>9, <1>10 DEF Next

\* Therefore, it always holds.
LEMMA IInvAlways == Spec => []IInv
BY IInvInit, IInvNext, PTL DEF Spec

-----------------------------------------------------------------------------

\* What is sent may be read, unless a key for it has been forgotten, however many
\* messages are opened late, in any order, or never, and rings go back to saved ones.
THEOREM ReadableHolds == Spec => []Readable
<1>1. IInv => Readable
  <2> SUFFICES ASSUME IInv, NEW m \in msgs
               PROVE  Decrypts(ring[m.to], m) \/ m.recipient \in forgotten[m.to]
    BY DEF Readable
  <2>1. MsgGood(m)
    BY DEF IInv, Messages
  <2> QED
    BY <2>1 DEF MsgGood, Receives, Suggests, Decrypts
<1> QED
  BY <1>1, IInvAlways, PTL

\* A suggestion may be used, unless a key that it is for, has been forgotten.
THEOREM AbsorbableHolds == Spec => []Absorbable
<1>1. IInv => Absorbable
  BY DEF IInv, Messages, MsgGood, Finds, Absorbable
<1> QED
  BY <1>1, IInvAlways, PTL

\* Everyone in a ring may be written to, with an exception for keys that are updated
\* twice.
THEOREM CanReplyHolds == Spec => []CanReply
<1>1. IInv => CanReply
  BY DEF IInv, Rings, RingGood, KeysGood, CanReply
<1> QED
  BY <1>1, IInvAlways, PTL

\* When u absorbs a suggestion, and v keeps the present one, u has that one.
LEMMA AbsorbStaysEstablished ==
    ASSUME IInv, TypeOK', KeysStep, NEW u \in User, NEW v \in User,
           Established(u, v), forgotten' = forgotten,
           NEW w \in User, NEW m \in msgs, m.to = w, AbsorbSuggestedNextKeyPair(w, m)
    PROVE  Established(u, v)'
<1> DEFINE old == ring[u].corrKeys[v]
           new == Absorbed(ring[w], m)
<1>1. m \in Msg /\ m.from \in User /\ ring[w] \in Ring /\ ring \in [User -> Ring]
  BY DEF IInv, TypeOK, Msg
<1>2. /\ new \in CorrespondentKeys
      /\ new.suggested = ring[w].corrKeys[m.from].suggested
  BY <1>1, AbsorbedType
<1>3. /\ \A x \in User : x # w => ring'[x] = ring[x]
      /\ ring'[w].corrKeys[m.from] = new
      /\ \A x \in User : x # m.from => ring'[w].corrKeys[x] = ring[w].corrKeys[x]
  <2>1. Puts(w, m.from, new)
    BY DEF AbsorbSuggestedNextKeyPair, Puts
  <2> HIDE DEF new
  <2> QED
    BY <1>1, <1>2, <2>1, PutInRing
<1>4. SuggestedKeys(ring'[v], u) = SuggestedKeys(ring[v], u)
  <2>1. ring'[v].corrKeys[u].suggested = ring[v].corrKeys[u].suggested
    BY <1>2, <1>3
  <2> QED
    BY <2>1 DEF SuggestedKeys
<1>5. CASE ring'[u].corrKeys[v] = old
  BY <1>4, <1>5 DEF Established
<1>6. CASE w = u /\ m.from = v /\ new # old
  <2>1. PICK n \in msgs : /\ n.from = v /\ n.to = u /\ n.timestamp = old.sendingPairTS
                          /\ n.next.recipient = old.sendingPair.recipient
    <3>1. SendingGood(u, v, old)
      BY DEF IInv, Rings, RingGood, KeysGood, Established
    <3>2. FromMessage(u, v, old.sendingPair, old.sendingPairTS)
      BY <3>1 DEF SendingGood, Established
    <3> QED
      BY <3>2 DEF FromMessage
  <2>2. n.next.recipient \in SuggestedKeys(ring[v], u)
    BY <2>1 DEF Established
  <2>3. m.timestamp > old.sendingPairTS
    BY <1>1, <1>6, AbsorbedType
  <2>4. n.timestamp < m.timestamp
    BY <1>1, <2>1, <2>3 DEF IInv, TypeOK, Msg
  <2>5. m.next.recipient \in SuggestedKeys(ring[v], u)
    BY <1>6, <2>1, <2>2, <2>4 DEF IInv, Ordered
  <2>6. CASE new = [old EXCEPT !.known = TRUE]
    <3>1. old \in CorrespondentKeys
      BY <1>1 DEF TypeOK, IInv, Ring
    <3>2. new.sendingPair = old.sendingPair
      BY <2>6, <3>1 DEF CorrespondentKeys
    <3> QED
      BY <1>3, <1>4, <1>6, <3>2 DEF Established
  <2>7. CASE new.sendingPair = [recipient |-> m.next.recipient, sender |-> m.next.sender,
                                isSelfGenerated |-> FALSE]
    <3>1. new.sendingPair # NoPair
      <4>1. m.next.recipient \in Key /\ m.next.sender \in Key
        BY <1>1 DEF Msg, ReceptionPair
      <4>2. new.sendingPair \in SendingPair
        BY <2>7, <4>1 DEF SendingPair
      <4> QED
        BY <4>2, NoneAssumption
    <3> QED
      BY <1>3, <1>4, <1>6, <2>5, <2>7, <3>1 DEF Established
  <2> QED
    BY <1>1, <1>6, <2>6, <2>7, AbsorbedType
<1> QED
  BY <1>1, <1>3, <1>5, <1>6

\* Late messages do not break an established pair.
THEOREM StaysEstablishedHolds == Spec => StaysEstablished
<1> DEFINE Stays == \A u, v \in User :
              Established(u, v) /\ forgotten' = forgotten /\ restarts' = restarts
                  => Established(u, v)'
<1>1. ASSUME IInv, [Next]_vars PROVE Stays
  <2>1. TypeOK' /\ KeysStep
    BY <1>1, TypeInvariant, StepKeepsKeys DEF IInv
  <2> SUFFICES ASSUME NEW u \in User, NEW v \in User, Established(u, v),
                      forgotten' = forgotten, restarts' = restarts
               PROVE  Established(u, v)'
    OBVIOUS
  <2>2. ASSUME \A x, y \in User :
                   /\ ring[x].corrKeys[y].sendingPair # NoPair =>
                         ring'[x].corrKeys[y].sendingPair = ring[x].corrKeys[y].sendingPair
                   /\ ring[x].corrKeys[y].suggested # NoPair =>
                         ring'[x].corrKeys[y].suggested = ring[x].corrKeys[y].suggested
        PROVE  Established(u, v)'
    BY <2>2 DEF Established, SuggestedKeys
  <2>3. ASSUME NEW w \in User, NEW x \in User, SendMsg(w, x) PROVE Established(u, v)'
    <3>1. HasKeyFor(w, x)
      BY <2>3 DEF SendMsg
    <3>2. SentKeys(w, x) \in CorrespondentKeys /\ Puts(w, x, SentKeys(w, x))
      BY <1>1, <2>3, <3>1, SentType, SendMsgDoes DEF IInv
    <3>3. /\ \A y \in User : y # w => ring'[y] = ring[y]
          /\ ring'[w].corrKeys[x] = SentKeys(w, x)
          /\ \A y \in User : y # x => ring'[w].corrKeys[y] = ring[w].corrKeys[y]
      BY <1>1, <3>2, PutInRing DEF IInv, TypeOK
    <3>4. ring[w].corrKeys[x] \in CorrespondentKeys
      BY <1>1 DEF IInv, TypeOK, Ring
    <3>5. /\ SentKeys(w, x).sendingPair = PairToUse(w, x)
          /\ SentKeys(w, x).suggested = PairToSuggest(w, x)
      BY <3>4 DEF SentKeys, CorrespondentKeys
    <3> QED
      BY <2>2, <3>3, <3>5 DEF PairToUse, PairToSuggest
  <2>4. ASSUME NEW w \in User, NEW m \in msgs, OpenMsg(w, m) PROVE Established(u, v)'
    <3>1. CASE ring' = ring
      BY <2>2, <3>1
    <3>2. CASE AbsorbSuggestedNextKeyPair(w, m)
      <4>1. m.to = w
        BY <2>4 DEF OpenMsg
      <4> QED
        BY <1>1, <2>1, <3>2, <4>1, AbsorbStaysEstablished
    <3> QED
      BY <2>4, <3>1, <3>2 DEF OpenMsg
  <2>5. ASSUME NEW w \in User, StartTrust(w) PROVE Established(u, v)'
    <3>1. shown[w] \in msgs /\ shown[w].to = w
      BY <1>1, <2>5 DEF StartTrust, IInv, Displayed
    <3>2. AbsorbSuggestedNextKeyPair(w, shown[w])
      BY <2>5 DEF StartTrust
    <3> QED
      BY <1>1, <2>1, <3>1, <3>2, AbsorbStaysEstablished
  <2>6. ASSUME NEW w \in User, UpdatePublishedKey(w) PROVE Established(u, v)'
    <3>1. <<w, generated[w] + 1>> \in Key /\ ring[w] \in Ring /\ ring \in [User -> Ring]
      BY <1>1 DEF IInv, TypeOK, Key
    <3>2. ring' = [ring EXCEPT ![w] = Updated(ring[w], <<w, generated[w] + 1>>)]
      BY <2>6 DEF UpdatePublishedKey, Replace
    <3>3. \A x \in User : ring'[x].corrKeys = ring[x].corrKeys
      BY <3>1, <3>2, UpdatedType
    <3> QED
      BY <2>2, <3>3
  <2>7. ASSUME NEW w \in User, SetInitPubKey(w) \/ SaveChanges(w) PROVE Established(u, v)'
    BY <2>2, <2>7 DEF SetInitPubKey, SaveChanges
  <2>8. ASSUME NEW w \in User, Restart(w) PROVE Established(u, v)'
    <3>1. restarts \in Nat /\ restarts' = restarts + 1
      BY <1>1, <2>8, BoundsAssumption DEF IInv, TypeOK, Restart
    <3> QED
      BY <3>1
  <2>9. CASE UNCHANGED vars
    BY <2>2, <2>9 DEF vars
  <2> QED
    BY <1>1, <2>3, <2>4, <2>5, <2>6, <2>7, <2>8, <2>9 DEF Next
<1>2. Spec => [][Next]_vars /\ []IInv
  BY IInvAlways DEF Spec
<1>3. IInv /\ [Next]_vars => [Stays]_vars
  BY <1>1
<1>4. Spec => [][Stays]_vars
  BY <1>2, <1>3, PTL
<1> QED
  BY <1>4 DEF StaysEstablished

=============================================================================
