--------------------------- MODULE DoubleRatchet ---------------------------
(***************************************************************************)
(* One-to-one messaging between devices.  Each device keeps its identity,  *)
(* its prekeys, the identities it has pinned and one session record per    *)
(* remote address; the calls of session.rs and session_cipher.rs read and  *)
(* write them through the browser's store.  Here a call is one step, as it *)
(* is when nothing else touches the store meanwhile.                       *)
(*                                                                         *)
(* The relay server is not trusted with order or delivery: a message once  *)
(* sent may arrive any number of times, in any order, or never.            *)
(***************************************************************************)
EXTENDS SessionRecord

CONSTANTS
    NumPreKeys,        \* one-time prekeys generated per upload (initWasm.js: 100)
    MaxAge,            \* MAX_UNACKNOWLEDGED_SESSION_AGE, in ticks of the clock
    MaxTexts,          \* bound: messages a device sends
    MaxTime,           \* bound: ticks of the clock
    Disruption,        \* which of "delete", "replenish", "reinstall" may happen
    MaxDisruptions     \* bound: how many of them

ASSUME BoundsAssumption ==
    /\ NumPreKeys \in Nat /\ MaxAge \in Nat /\ MaxTexts \in Nat
    /\ MaxTime \in Nat /\ MaxDisruptions \in Nat
    /\ Disruption \subseteq {"delete", "replenish", "reinstall"}

VARIABLES
    identity,      \* own_identity_key of each device
    signedPreKey,  \* the signed (and Kyber) prekey in each store
    preKeys,       \* the one-time prekeys in each store
    kyberUsed,     \* kyber_used_combos: the base keys already answered
    pinned,        \* identities: the key stored for each remote address
    records,       \* sessions: the record stored for each remote address
    published,     \* what the server hands out for each device
    nextKey,       \* the number of key pairs each device has generated
    sent,          \* every message handed to the server
    opened,        \* the messages each device has decrypted
    reopened,      \* the messages each device has decrypted once more
    texts,         \* the number of messages each device has sent
    now,           \* the clock
    disruptions    \* the number of disruptions so far

keyVars == <<identity, signedPreKey, preKeys, kyberUsed, published>>
sessionVars == <<pinned, records>>
historyVars == <<sent, opened, reopened, texts>>
boundVars == <<now, disruptions>>
vars == <<keyVars, sessionVars, nextKey, historyVars, boundVars>>

Bundle == [identity : Key, signedPreKey : Key, preKeys : SUBSET Key]

TypeOK ==
    /\ identity \in [Party -> Key]
    /\ signedPreKey \in [Party -> Key]
    /\ preKeys \in [Party -> SUBSET Key]
    /\ kyberUsed \in [Party -> SUBSET Key]
    /\ pinned \in [Party -> [Party -> OptionalKey]]
    /\ records \in [Party -> [Party -> Record]]
    /\ published \in [Party -> Bundle]
    /\ nextKey \in [Party -> Nat]
    /\ sent \in SUBSET Message
    /\ opened \in [Party -> SUBSET Message]
    /\ reopened \in [Party -> SUBSET Message]
    /\ texts \in [Party -> Nat]
    /\ now \in Nat
    /\ disruptions \in Nat

-----------------------------------------------------------------------------
(* Generating, publishing and fetching keys                                *)

\* the n-th key pair p generates from here on
NewKey(p, n) == <<p, nextKey[p] + n>>
NewPreKeys(p, n) == {NewKey(p, k) : k \in n .. n + NumPreKeys - 1}

Init ==
    /\ identity = [p \in Party |-> <<p, 0>>]
    /\ signedPreKey = [p \in Party |-> <<p, 1>>]
    /\ preKeys = [p \in Party |-> {<<p, k>> : k \in 2 .. NumPreKeys + 1}]
    /\ published = [p \in Party |-> [identity |-> identity[p],
                                     signedPreKey |-> signedPreKey[p],
                                     preKeys |-> preKeys[p]]]
    /\ nextKey = [p \in Party |-> NumPreKeys + 2]
    /\ kyberUsed = [p \in Party |-> {}]
    /\ pinned = [p \in Party |-> [q \in Party |-> NoKey]]
    /\ records = [p \in Party |-> [q \in Party |-> FreshRecord]]
    /\ sent = {}
    /\ opened = [p \in Party |-> {}]
    /\ reopened = [p \in Party |-> {}]
    /\ texts = [p \in Party |-> 0]
    /\ now = 0
    /\ disruptions = 0

\* the server gives out each one-time prekey at most once, and none when it
\* has run out
OfferedPreKeys(q) ==
    IF published[q].preKeys = {} THEN {NoKey} ELSE published[q].preKeys

FetchBundle(q, preKey) ==
    published' = [published EXCEPT ![q].preKeys = @ \ {preKey}]

\* isTrustedIdentity of the store, for sending; for receiving it is always true
TrustedForSending(p, q, key) == pinned[p][q] \in {NoKey, key}

SaveIdentity(p, q, key) == pinned' = [pinned EXCEPT ![p][q] = key]

StoreSession(p, q, r) == records' = [records EXCEPT ![p][q] = r]

-----------------------------------------------------------------------------
(* process_prekey_bundle, called by establishSession                       *)

\* opening a conversation fetches a bundle in any case; it is processed only
\* if no record is stored for the address
EstablishSession(p, q) ==
    \E preKey \in OfferedPreKeys(q) :
        /\ records[p][q] = FreshRecord
        /\ TrustedForSending(p, q, published[q].identity)
        /\ FetchBundle(q, preKey)
        /\ LET session == InitializeAlice(identity[p], published[q].identity,
                                          NewKey(p, 0), NewKey(p, 1),
                                          published[q].signedPreKey, preKey, now)
           IN  StoreSession(p, q, PromoteState(records[p][q], session))
        /\ SaveIdentity(p, q, published[q].identity)
        /\ nextKey' = [nextKey EXCEPT ![p] = @ + 2]
        /\ UNCHANGED <<identity, signedPreKey, preKeys, kyberUsed, historyVars, boundVars>>

\* the bundle of a conversation that already has a session is fetched and dropped
FetchUnused(p, q) ==
    \E preKey \in published[q].preKeys :
        /\ \/ records[p][q] # FreshRecord
           \/ ~TrustedForSending(p, q, published[q].identity)
        /\ FetchBundle(q, preKey)
        /\ UNCHANGED <<identity, signedPreKey, preKeys, kyberUsed, sessionVars, nextKey,
                       historyVars, boundVars>>

-----------------------------------------------------------------------------
(* message_encrypt                                                         *)

Stale(s) == s.pending # NoPending /\ s.pending.time + MaxAge < now

\* mutant: the prekey message leaves out the base key
CiphertextWithoutBase(p, q, s) ==
    [from |-> p, to |-> q, text |-> texts[p], sender |-> s.local, receiver |-> s.remote,
     ratchet |-> s.sender.ratchet,
     key |-> [root |-> s.sender.root, index |-> s.sender.index],
     type |-> IF s.pending = NoPending THEN "whisper" ELSE "prekey",
     base |-> NoKey,
     signedPreKey |-> IF s.pending = NoPending THEN NoKey ELSE s.pending.signedPreKey,
     preKey |-> IF s.pending = NoPending THEN NoKey ELSE s.pending.preKey]

Ciphertext(p, q, s) ==
    [from |-> p, to |-> q, text |-> texts[p], sender |-> s.local, receiver |-> s.remote,
     ratchet |-> s.sender.ratchet,
     key |-> [root |-> s.sender.root, index |-> s.sender.index],
     type |-> IF s.pending = NoPending THEN "whisper" ELSE "prekey",
     base |-> IF s.pending = NoPending THEN NoKey ELSE s.base,
     signedPreKey |-> IF s.pending = NoPending THEN NoKey ELSE s.pending.signedPreKey,
     preKey |-> IF s.pending = NoPending THEN NoKey ELSE s.pending.preKey]

\* mutant: the chain key is stored as it was
KeepSenderChain(s) == s

\* set_sender_chain_key(chain_key.next_chain_key())
AdvanceSenderChain(s) == [s EXCEPT !.sender.index = @ + 1]

Encrypt(p, q) ==
    LET s == records[p][q].current
    IN  /\ texts[p] < MaxTexts
        /\ s # NoSession
        /\ ~Stale(s)
        /\ TrustedForSending(p, q, s.remote)
        /\ sent' = sent \cup {Ciphertext(p, q, s)}
        /\ StoreSession(p, q, [records[p][q] EXCEPT !.current = AdvanceSenderChain(s)])
        /\ SaveIdentity(p, q, s.remote)
        /\ texts' = [texts EXCEPT ![p] = @ + 1]
        /\ UNCHANGED <<keyVars, nextKey, opened, reopened, boundVars>>

-----------------------------------------------------------------------------
(* message_decrypt                                                         *)

Opens(p, m) ==
    /\ opened' = [opened EXCEPT ![p] = @ \cup {m}]
    /\ reopened' = [reopened EXCEPT ![p] = IF m \in opened[p] THEN @ \cup {m} ELSE @]

\* the key pair a decryption generates is kept only if it started a new chain
UseNewKey(p, q, r) ==
    nextKey' = [nextKey EXCEPT ![p] =
        IF r.current.sender.ratchet = NewKey(p, 0) THEN @ + 1 ELSE @]

\* process_prekey_impl fails if a private key it needs is gone
CanInitializeBob(p, m) ==
    /\ m.signedPreKey = signedPreKey[p]
    /\ m.preKey \in preKeys[p] \cup {NoKey}

\* process_prekey on the record r
ProcessPreKey(p, r, m) ==
    IF HasMatchingSession(r, m.base) THEN PromoteMatching(r, m.base)
    ELSE PromoteState(r, InitializeBob(identity[p], m.sender, m.base,
                                       m.signedPreKey, m.preKey))

PreKeyResult(p, m) ==
    DecryptWithRecord(ProcessPreKey(p, records[p][m.from], m), m, NewKey(p, 0))

\* a prekey message of a session this device already has
DecryptKnownPreKey(p, m) ==
    /\ m.type = "prekey"
    /\ HasMatchingSession(records[p][m.from], m.base)
    /\ PreKeyResult(p, m).verdict = "ok"
    /\ SaveIdentity(p, m.from, m.sender)
    /\ StoreSession(p, m.from, PreKeyResult(p, m).record)
    /\ UseNewKey(p, m.from, PreKeyResult(p, m).record)
    /\ Opens(p, m)
    /\ UNCHANGED <<keyVars, sent, texts, boundVars>>

\* mutant: no record of the base keys already answered
NeverReplayed(p, m) == FALSE

Replayed(p, m) == m.base \in kyberUsed[p]

\* a prekey message that starts a session: the Kyber prekey is marked and the
\* one-time prekey removed before the session is stored
DecryptNewPreKey(p, m) ==
    /\ m.type = "prekey"
    /\ ~HasMatchingSession(records[p][m.from], m.base)
    /\ CanInitializeBob(p, m)
    /\ PreKeyResult(p, m).verdict = "ok"
    /\ ~Replayed(p, m)
    /\ SaveIdentity(p, m.from, m.sender)
    /\ kyberUsed' = [kyberUsed EXCEPT ![p] = @ \cup {m.base}]
    /\ preKeys' = [preKeys EXCEPT ![p] = @ \ {m.preKey}]
    /\ StoreSession(p, m.from, PreKeyResult(p, m).record)
    /\ UseNewKey(p, m.from, PreKeyResult(p, m).record)
    /\ Opens(p, m)
    /\ UNCHANGED <<identity, signedPreKey, published, sent, texts, boundVars>>

\* a replay is noticed only after the identity has been saved
RejectReplay(p, m) ==
    /\ m.type = "prekey"
    /\ ~HasMatchingSession(records[p][m.from], m.base)
    /\ CanInitializeBob(p, m)
    /\ PreKeyResult(p, m).verdict = "ok"
    /\ Replayed(p, m)
    /\ SaveIdentity(p, m.from, m.sender)
    /\ UNCHANGED <<keyVars, records, nextKey, historyVars, boundVars>>

SignalResult(p, m) == DecryptWithRecord(records[p][m.from], m, NewKey(p, 0))

DecryptSignal(p, m) ==
    /\ m.type = "whisper"
    /\ SignalResult(p, m).verdict = "ok"
    /\ SaveIdentity(p, m.from, SignalResult(p, m).record.current.remote)
    /\ StoreSession(p, m.from, SignalResult(p, m).record)
    /\ UseNewKey(p, m.from, SignalResult(p, m).record)
    /\ Opens(p, m)
    /\ UNCHANGED <<keyVars, sent, texts, boundVars>>

\* what a delivery of m to p would come to now
Verdict(p, m) ==
    LET r == records[p][m.from]
    IN  IF m.type = "whisper" THEN SignalResult(p, m).verdict
        ELSE IF HasMatchingSession(r, m.base) THEN PreKeyResult(p, m).verdict
        ELSE IF ~CanInitializeBob(p, m) \/ Replayed(p, m) THEN "invalid"
        ELSE PreKeyResult(p, m).verdict

Decrypt(p, m) ==
    \/ DecryptKnownPreKey(p, m)
    \/ DecryptNewPreKey(p, m)
    \/ RejectReplay(p, m)
    \/ DecryptSignal(p, m)

-----------------------------------------------------------------------------
(* What else changes the store                                             *)

Disrupts(kind) ==
    /\ kind \in Disruption
    /\ disruptions < MaxDisruptions
    /\ disruptions' = disruptions + 1
    /\ UNCHANGED now

\* removeSessionsAndIdentitiesForUser: a conversation was deleted
DeleteSession(p, q) ==
    /\ Disrupts("delete")
    /\ records[p][q] # FreshRecord
    /\ StoreSession(p, q, FreshRecord)
    /\ SaveIdentity(p, q, NoKey)
    /\ UNCHANGED <<keyVars, nextKey, historyVars>>

\* uploadKeysIfNeeded once the server has no one-time prekey left: every
\* prekey record is overwritten, the ids being always the same
ReplenishKeys(p) ==
    /\ Disrupts("replenish")
    /\ published[p].preKeys = {}
    /\ signedPreKey' = [signedPreKey EXCEPT ![p] = NewKey(p, 0)]
    /\ preKeys' = [preKeys EXCEPT ![p] = NewPreKeys(p, 1)]
    /\ published' = [published EXCEPT ![p] = [identity |-> identity[p],
                                              signedPreKey |-> NewKey(p, 0),
                                              preKeys |-> NewPreKeys(p, 1)]]
    /\ nextKey' = [nextKey EXCEPT ![p] = @ + NumPreKeys + 1]
    /\ UNCHANGED <<identity, kyberUsed, sessionVars, historyVars>>

\* the device's storage is wiped and the device set up again: initIdentity and
\* uploadKeysIfNeeded find nothing and generate everything
Reinstall(p) ==
    /\ Disrupts("reinstall")
    /\ identity' = [identity EXCEPT ![p] = NewKey(p, 0)]
    /\ signedPreKey' = [signedPreKey EXCEPT ![p] = NewKey(p, 1)]
    /\ preKeys' = [preKeys EXCEPT ![p] = NewPreKeys(p, 2)]
    /\ published' = [published EXCEPT ![p] = [identity |-> NewKey(p, 0),
                                              signedPreKey |-> NewKey(p, 1),
                                              preKeys |-> NewPreKeys(p, 2)]]
    /\ nextKey' = [nextKey EXCEPT ![p] = @ + NumPreKeys + 2]
    /\ kyberUsed' = [kyberUsed EXCEPT ![p] = {}]
    /\ pinned' = [pinned EXCEPT ![p] = [q \in Party |-> NoKey]]
    /\ records' = [records EXCEPT ![p] = [q \in Party |-> FreshRecord]]
    /\ UNCHANGED historyVars

Tick ==
    /\ now < MaxTime
    /\ now' = now + 1
    /\ UNCHANGED <<keyVars, sessionVars, nextKey, historyVars, disruptions>>

-----------------------------------------------------------------------------
Next ==
    \/ \E p, q \in Party : p # q /\ (\/ EstablishSession(p, q)
                                     \/ FetchUnused(p, q)
                                     \/ Encrypt(p, q)
                                     \/ DeleteSession(p, q))
    \/ \E m \in sent : Decrypt(m.to, m)
    \/ \E p \in Party : ReplenishKeys(p) \/ Reinstall(p)
    \/ Tick

Spec == Init /\ [][Next]_vars

\* the server keeps a message until it has been handed over, and the client asks
\* for the history whenever it opens the conversation
FairDelivery ==
    WF_vars(\E m \in sent : m \notin opened[m.to] /\ Decrypt(m.to, m))

\* the user opens every conversation again and again
FairOpening == \A p, q \in Party : WF_vars(p # q /\ EstablishSession(p, q))

FairSpec == Spec /\ FairDelivery /\ FairOpening

-----------------------------------------------------------------------------
(* Properties                                                              *)

\* No two messages are ever encrypted under the same message key: every
\* store_session of message_encrypt moves the chain past the key it used, and
\* no archived, promoted or re-created session brings an old chain back.
MessageKeysUnique == \A m1, m2 \in sent : m1.key = m2.key => m1 = m2

\* A sender keeps nothing to derive the key of a sent message from: no session
\* of the record, current or archived, stands at or before it on its chain.
SenderForgets ==
    \A m \in sent : \A s \in Sessions(records[m.from][m.to]) :
        s.sender.root = m.key.root => s.sender.index > m.key.index

\* Why message keys are unique.  Sender chains are named by what they were split
\* from, a key agreement with a key pair generated for the purpose: every chain in
\* a record or used by a message is made of key pairs already generated, no two
\* sessions send on the same chain, and each is past every message sent on it.
Known(k) == k[2] < nextKey[k[1]]
KnownChain(ratchet, root) ==
    Known(ratchet) /\ root # <<>> /\ \A k \in root[Len(root)] : Known(k)

KeysKnown ==
    /\ \A p \in Party : Known(published[p].signedPreKey)
    /\ \A m \in sent : KnownChain(m.ratchet, m.key.root)
    /\ \A p, q \in Party : \A c \in SenderChains(records[p][q]) : KnownChain(c.ratchet, c.root)

ChainsApart ==
    \A p, q \in Party :
        /\ ChainsDistinct(records[p][q])
        /\ \A p2, q2 \in Party : <<p, q>> # <<p2, q2>> =>
              \A c \in SenderChains(records[p][q]), c2 \in SenderChains(records[p2][q2]) :
                  c.root # c2.root

ChainsAhead ==
    \A m \in sent : \A p, q \in Party : \A c \in SenderChains(records[p][q]) :
        c.root = m.key.root => c.index > m.key.index

ChainInv == KeysKnown /\ ChainsApart /\ ChainsAhead /\ MessageKeysUnique

CanDerive(s, m) ==
    \/ \E c \in ToSet(s.receivers) :
          /\ c.root = m.key.root
          /\ c.index <= m.key.index \/ Contains(c.skipped, m.key.index)
    \/ CreateChain(s.root, s.sender.ratchet, m.ratchet) = m.key.root

\* Forward secrecy at the receiver: once a message is decrypted, no session
\* left in the record, archived ones included, can derive its key again.
ReceiverForgets ==
    \A p \in Party : \A m \in opened[p] : \A s \in Sessions(records[p][m.from]) :
        ~CanDerive(s, m)

\* A message is decrypted at most once, whatever is delivered again and in
\* whatever order, after sessions were archived, evicted or deleted: the used
\* keys, the removed one-time prekeys and the Kyber replay record see to it.
AtMostOnce == \A p \in Party : reopened[p] = {}

\* While no limit is reached and no key or session is discarded, any message
\* still under way decrypts, however late and after whatever others it comes,
\* also when both sides open the conversation at once.
NothingLost == \A m \in sent : m \in opened[m.to] \/ Verdict(m.to, m) = "ok"

\* While no skipped key is evicted, the verdict "duplicate", which ends the
\* search through the archived sessions, is given to decrypted messages only.
DuplicateMeansOpened ==
    \A m \in sent : Verdict(m.to, m) = "duplicate" => m \in opened[m.to]

\* The two ends of a session agree: a chain one of them receives on is a chain
\* the other one sent on, unless it starts at the other's signed prekey.
ReceiversFollowSender ==
    \A p, q \in Party : \A s \in Sessions(records[p][q]) : \A c \in ToSet(s.receivers) :
        c.index > 0 => \E m \in sent : m.from = q /\ m.to = p /\ m.key = [root |-> c.root, index |-> c.index - 1]

\* However far the peers run ahead, the record stays within the limits of
\* consts.rs: receiver chains, skipped keys of each chain, archived sessions.
WithinLimits == \A p, q \in Party : RecordWithinLimits(records[p][q])

\* The channel the two devices implement, for the user who sees neither keys nor
\* sessions: every message is read by its addressee once.
Letter(m) == [from |-> m.from, to |-> m.to, text |-> m.text]
Letters(S) == {Letter(m) : m \in S}

Channel == INSTANCE SecureChannel WITH
    Text <- 0 .. MaxTexts - 1,
    written <- Letters(sent),
    read <- Letters(UNION {opened[p] : p \in Party}),
    repeated <- Letters(UNION {reopened[p] : p \in Party})

ImplementsFairChannel == Channel!FairSpec

\* SignalStoreAdapter.js: "The user must manually approve the new key before we
\* encrypt to it."  With no approval in the model, a device never encrypts to
\* two different identity keys of the same address.
NoUnapprovedIdentity ==
    \A m1, m2 \in sent :
        m1.sender = m2.sender /\ m1.to = m2.to => m1.receiver = m2.receiver

=============================================================================
