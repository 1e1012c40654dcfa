--------------------------- MODULE SessionRecord ---------------------------
(***************************************************************************)
(* The session record of libsignal: one Double Ratchet session per remote  *)
(* address that is current, and a bounded list of archived ones.  The      *)
(* module holds no state: it defines what the functions of ratchet.rs,     *)
(* state/session.rs and session_cipher.rs compute on a record, and         *)
(* DoubleRatchet builds its actions from them.                             *)
(*                                                                         *)
(* Keys are symbolic.  A key pair is <<owner, n>>, the n-th one its owner  *)
(* generated.  A root key is the sequence of key agreements hashed into it *)
(* since the handshake; two parties hold the same root key exactly if they *)
(* performed the same agreements in the same order.  A chain is named by   *)
(* the root key it was split from, a chain key is that name and an index,  *)
(* a message key is the chain key at which it was derived.  The Kyber      *)
(* prekey is generated, uploaded and replaced together with the signed     *)
(* prekey and is part of what SignedPreKey stands for; the SPQR ratchet    *)
(* (an external crate) is left out.                                        *)
(***************************************************************************)
EXTENDS Integers, SequencesExt

CONSTANTS
    Party,                       \* protocol addresses (user.device)
    NoKey,                       \* no one-time prekey, no key
    NoSession,                   \* current_session = None
    NoPending,                   \* pending_pre_key = None
    MAX_FORWARD_JUMPS,           \* consts.rs: 25000
    MAX_MESSAGE_KEYS,            \* consts.rs: 2000
    MAX_RECEIVER_CHAINS,         \* consts.rs: 5
    ARCHIVED_STATES_MAX_LENGTH   \* consts.rs: 40

ASSUME LimitsAssumption ==
    /\ MAX_FORWARD_JUMPS \in Nat
    /\ MAX_MESSAGE_KEYS \in Nat \ {0}
    /\ MAX_RECEIVER_CHAINS \in Nat \ {0}
    /\ ARCHIVED_STATES_MAX_LENGTH \in Nat \ {0}

Key == Party \X Nat
OptionalKey == Key \cup {NoKey}
RootKey == Seq(SUBSET Key)
MessageKey == [root : RootKey, index : Nat]

SenderChain == [ratchet : Key, root : RootKey, index : Nat]
ReceiverChain == [ratchet : Key, root : RootKey, index : Nat, skipped : Seq(Nat)]
Pending == [preKey : OptionalKey, signedPreKey : Key, time : Nat]

\* SessionStructure; previous_counter is only ever copied into a message
Session == [local : Key, remote : Key, base : Key, root : RootKey,
            sender : SenderChain, receivers : Seq(ReceiverChain),
            pending : Pending \cup {NoPending}]

Record == [current : Session \cup {NoSession}, previous : Seq(Session)]

\* what SignalMessage and, for type "prekey", PreKeySignalMessage carry; "key"
\* stands for the ciphertext and its MAC, which only that message key opens
Message == {m \in [from : Party, to : Party, type : {"prekey", "whisper"}, text : Nat,
                   sender : Key, receiver : Key, ratchet : Key, key : MessageKey,
                   base : OptionalKey, signedPreKey : OptionalKey, preKey : OptionalKey] :
               m.type = "prekey" => m.base \in Key /\ m.signedPreKey \in Key}

ASSUME SentinelAssumption ==
    /\ NoKey \notin Key
    /\ NoSession \notin Session
    /\ NoPending \notin Pending

-----------------------------------------------------------------------------
(* The handshake and the root key                                          *)

\* derive_keys over the X3DH and KEM secrets
HandshakeRoot(idA, idB, base, signedPreKey, preKey) ==
    << {idA, idB, base, signedPreKey, preKey} \ {NoKey} >>

\* RootKey::create_chain: the new root key, and the name of the new chain
CreateChain(root, ours, theirs) == Append(root, {ours, theirs})

InitializeAlice(local, remote, base, ratchet, signedPreKey, preKey, now) ==
    LET root == HandshakeRoot(local, remote, base, signedPreKey, preKey)
        sending == CreateChain(root, ratchet, signedPreKey)
    IN  [local |-> local, remote |-> remote, base |-> base, root |-> sending,
         sender |-> [ratchet |-> ratchet, root |-> sending, index |-> 0],
         receivers |-> << [ratchet |-> signedPreKey, root |-> root,
                           index |-> 0, skipped |-> <<>>] >>,
         pending |-> [preKey |-> preKey, signedPreKey |-> signedPreKey, time |-> now]]

InitializeBob(local, remote, base, signedPreKey, preKey) ==
    LET root == HandshakeRoot(local, remote, base, signedPreKey, preKey)
    IN  [local |-> local, remote |-> remote, base |-> base, root |-> root,
         sender |-> [ratchet |-> signedPreKey, root |-> root, index |-> 0],
         receivers |-> <<>>, pending |-> NoPending]

-----------------------------------------------------------------------------
(* One session: the state functions of state/session.rs                    *)

\* get_receiver_chain: the first chain of that ratchet key
ReceiverChains(s, ratchet) == {i \in DOMAIN s.receivers : s.receivers[i].ratchet = ratchet}
HasReceiverChain(s, ratchet) == ReceiverChains(s, ratchet) # {}
ReceiverChainIndex(s, ratchet) == Min(ReceiverChains(s, ratchet))

\* mutant: the count is taken before the push
AddReceiverChainLate(chains, chain) ==
    LET pushed == Append(chains, chain)
    IN  IF Len(chains) > MAX_RECEIVER_CHAINS THEN Tail(pushed) ELSE pushed

AddReceiverChain(chains, chain) ==
    LET pushed == Append(chains, chain)
    IN  IF Len(pushed) > MAX_RECEIVER_CHAINS THEN Tail(pushed) ELSE pushed

ClearPending(s) == [s EXCEPT !.pending = NoPending]

\* get_or_create_chain_key, "fresh" being the key pair a new chain generates
WithReceiverChain(s, ratchet, fresh) ==
    IF HasReceiverChain(s, ratchet) THEN s
    ELSE LET receiving == CreateChain(s.root, s.sender.ratchet, ratchet)
             sending == CreateChain(receiving, fresh, ratchet)
         IN  [s EXCEPT
                !.root = sending,
                !.receivers = AddReceiverChain(@, [ratchet |-> ratchet, root |-> receiving,
                                                   index |-> 0, skipped |-> <<>>]),
                !.sender = [ratchet |-> fresh, root |-> sending, index |-> 0]]

-----------------------------------------------------------------------------
(* decrypt_message_with_state: a verdict and the session after it          *)

\* mutant: the first of the skipped keys is not stored
SkipToShort(skipped, from, to) ==
    LET kept == [i \in 1 .. to - from - 1 |-> to - i] \o skipped
    IN  SubSeq(kept, 1, IF Len(kept) < MAX_MESSAGE_KEYS THEN Len(kept) ELSE MAX_MESSAGE_KEYS)

\* the skipped counters from .. to - 1, newest first, before the ones kept so far
SkipTo(skipped, from, to) ==
    LET kept == [i \in 1 .. to - from |-> to - i] \o skipped
    IN  SubSeq(kept, 1, IF Len(kept) < MAX_MESSAGE_KEYS THEN Len(kept) ELSE MAX_MESSAGE_KEYS)

SessionWithSelf(s) == s.local = s.remote

\* get_or_create_message_key on the chain c
KeyVerdict(s, c, counter) ==
    IF c.index > counter
    THEN IF Contains(c.skipped, counter) THEN "ok" ELSE "duplicate"
    ELSE IF counter - c.index > MAX_FORWARD_JUMPS /\ ~SessionWithSelf(s)
         THEN "invalid" ELSE "ok"

\* get_message_keys takes the stored key out
SkippedPosition(c, counter) == CHOOSE i \in DOMAIN c.skipped : c.skipped[i] = counter

\* mutant: the skipped key is copied, not taken out
AdvanceChainCopying(c, counter) ==
    IF c.index > counter THEN c
    ELSE [c EXCEPT !.skipped = SkipTo(@, c.index, counter), !.index = counter + 1]

AdvanceChain(c, counter) ==
    IF c.index > counter
    THEN [c EXCEPT !.skipped = RemoveAt(@, SkippedPosition(c, counter))]
    ELSE [c EXCEPT !.skipped = SkipTo(@, c.index, counter), !.index = counter + 1]

Failed(verdict, s) == [verdict |-> verdict, session |-> s]

\* mutant: the MAC is not verified
MacUnchecked(s, c, m) == m.sender = s.remote /\ m.receiver = s.local

\* the MAC covers both identity keys and only the message key verifies it
MacValid(s, c, m) ==
    /\ m.key.root = c.root
    /\ m.sender = s.remote
    /\ m.receiver = s.local

DecryptWithState(s, m, fresh) ==
    LET s1 == WithReceiverChain(s, m.ratchet, fresh)
        i  == ReceiverChainIndex(s1, m.ratchet)
        c  == s1.receivers[i]
        verdict == KeyVerdict(s, c, m.key.index)
    IN  IF verdict # "ok" THEN Failed(verdict, s)
        ELSE IF ~MacValid(s, c, m) THEN Failed("invalid", s)
        ELSE [verdict |-> "ok",
              session |-> ClearPending([s1 EXCEPT !.receivers[i] =
                                            AdvanceChain(c, m.key.index)])]

-----------------------------------------------------------------------------
(* The record: SessionRecord of state/session.rs                           *)

FreshRecord == [current |-> NoSession, previous |-> <<>>]

\* mutant: the replaced session is dropped
ArchiveNothing(r) == [r EXCEPT !.current = NoSession]

ArchiveCurrent(r) ==
    IF r.current = NoSession THEN r
    ELSE [current |-> NoSession,
          previous |-> << ClearPending(r.current) >> \o
                       (IF Len(r.previous) >= ARCHIVED_STATES_MAX_LENGTH
                        THEN Front(r.previous) ELSE r.previous)]

PromoteState(r, s) == [ArchiveCurrent(r) EXCEPT !.current = s]

\* mutant: the archived session stays in the list
PromoteOldCopy(r, i, s) == PromoteState(r, s)

PromoteOldSession(r, i, s) ==
    PromoteState([r EXCEPT !.previous = RemoveAt(@, i)], s)

\* current_session and previous_session_states
Sessions(r) == ToSet(r.previous) \cup ({r.current} \ {NoSession})

\* promote_matching_session
MatchingPrevious(r, base) == {i \in DOMAIN r.previous : r.previous[i].base = base}
MatchesCurrent(r, base) == r.current # NoSession /\ r.current.base = base
HasMatchingSession(r, base) == MatchesCurrent(r, base) \/ MatchingPrevious(r, base) # {}

PromoteMatching(r, base) ==
    IF MatchesCurrent(r, base) THEN r
    ELSE LET i == Min(MatchingPrevious(r, base))
         IN  PromoteOldSession(r, i, r.previous[i])

\* decrypt_message_with_record: the first session whose verdict is not "invalid"
\* decides; a prekey message is tried on the current session only
DecryptWithRecord(r, m, fresh) ==
    LET current == IF r.current = NoSession THEN Failed("invalid", NoSession)
                   ELSE DecryptWithState(r.current, m, fresh)
        old == [i \in DOMAIN r.previous |-> DecryptWithState(r.previous[i], m, fresh)]
        decided == {i \in DOMAIN old : old[i].verdict # "invalid"}
        first == Min(decided)
    IN  IF current.verdict = "ok"
        THEN [verdict |-> "ok", record |-> [r EXCEPT !.current = current.session]]
        ELSE IF current.verdict = "duplicate"
        THEN [verdict |-> "duplicate", record |-> r]
        ELSE IF (r.current # NoSession /\ m.type = "prekey") \/ decided = {}
        THEN [verdict |-> "invalid", record |-> r]
        ELSE IF old[first].verdict = "duplicate"
        THEN [verdict |-> "duplicate", record |-> r]
        ELSE [verdict |-> "ok", record |-> PromoteOldSession(r, first, old[first].session)]

-----------------------------------------------------------------------------
(* What the records are meant to satisfy                                   *)

SessionWithinLimits(s) ==
    /\ Len(s.receivers) <= MAX_RECEIVER_CHAINS
    /\ \A i \in DOMAIN s.receivers : Len(s.receivers[i].skipped) <= MAX_MESSAGE_KEYS

RecordWithinLimits(r) ==
    /\ Len(r.previous) <= ARCHIVED_STATES_MAX_LENGTH
    /\ \A s \in Sessions(r) : SessionWithinLimits(s)

\* the chains the sessions of a record would send on next
SenderChains(r) == {s.sender : s \in Sessions(r)}

\* no two sessions of a record send on the same chain
ChainsDistinct(r) ==
    /\ \A i, j \in DOMAIN r.previous :
          i # j => r.previous[i].sender.root # r.previous[j].sender.root
    /\ r.current # NoSession =>
          \A i \in DOMAIN r.previous : r.previous[i].sender.root # r.current.sender.root

=============================================================================
