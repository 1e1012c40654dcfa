-------------------------- MODULE SenderKeyRecord --------------------------
(***************************************************************************)
(* The sender key record of libsignal, stored for each sender and group:   *)
(* the sender key states of that sender, newest first.  The module holds   *)
(* no state: it defines what the functions of sender_keys.rs and           *)
(* group_cipher.rs compute on a record, for GroupMessaging.                *)
(*                                                                         *)
(* A chain is the random chain id put into every message and the signing   *)
(* key generated with it, which stands for the chain key as well: the two  *)
(* are generated, distributed and replaced together.  A message key is a   *)
(* chain and an iteration.  The message version is always the current one. *)
(***************************************************************************)
EXTENDS Integers, SequencesExt

CONSTANTS
    ChainId,                 \* 31-bit random numbers
    MAX_FORWARD_JUMPS,       \* consts.rs: 25000
    MAX_MESSAGE_KEYS,        \* consts.rs: 2000
    MAX_SENDER_KEY_STATES,   \* consts.rs: 5
    MAX_ITERATION            \* u32::MAX

ASSUME SenderKeyLimits ==
    /\ MAX_FORWARD_JUMPS \in Nat
    /\ MAX_MESSAGE_KEYS \in Nat \ {0}
    /\ MAX_SENDER_KEY_STATES \in Nat \ {0}
    /\ MAX_ITERATION \in Nat

Iteration == 0 .. MAX_ITERATION
Chain == [id : ChainId, signingKey : Nat]

SenderKeyState == [chain : Chain, iteration : Iteration, skipped : Seq(Iteration)]
SenderKeyRecord == Seq(SenderKeyState)

\* SenderKeyDistributionMessage and SenderKeyMessage
KeyMessage == [chain : Chain, iteration : Iteration]

-----------------------------------------------------------------------------
(* One state                                                               *)

NewState(chain, iteration) == [chain |-> chain, iteration |-> iteration, skipped |-> <<>>]

\* mutant: the counter wraps
CanAlwaysAdvance(iteration) == TRUE

\* SenderChainKey::next, with checked_add
CanAdvance(iteration) == iteration < MAX_ITERATION

\* mutant: the key of the first skipped iteration is not stored
SkipIterationsShort(skipped, from, to) ==
    skipped \o [i \in 1 .. to - from - 1 |-> from + i]

\* add_sender_message_key for the iterations from .. to - 1: the oldest go first
SkipIterations(skipped, from, to) ==
    LET kept == skipped \o [i \in 1 .. to - from |-> from + i - 1]
    IN  IF Len(kept) > MAX_MESSAGE_KEYS
        THEN SubSeq(kept, Len(kept) - MAX_MESSAGE_KEYS + 1, Len(kept)) ELSE kept

\* get_sender_key
SenderKeyVerdict(s, iteration) ==
    IF s.iteration > iteration
    THEN IF Contains(s.skipped, iteration) THEN "ok" ELSE "duplicate"
    ELSE IF iteration - s.iteration <= MAX_FORWARD_JUMPS /\ CanAdvance(iteration)
         THEN "ok" ELSE "invalid"

\* the state after get_sender_key has taken the key of that iteration
TakeSenderKey(s, iteration) ==
    IF s.iteration > iteration THEN [s EXCEPT !.skipped = RemoveFirst(@, iteration)]
    ELSE [s EXCEPT !.skipped = SkipIterations(@, s.iteration, iteration),
                   !.iteration = iteration + 1]

-----------------------------------------------------------------------------
(* The record                                                              *)

StateIndices(r, id) == {i \in DOMAIN r : r[i].chain.id = id}

\* the states of one chain
StatesOf(r, chain) == {i \in DOMAIN r : r[i].chain = chain}

\* remove_states_with_chain_id
WithoutId(r, id) ==
    LET kept[n \in 0 .. Len(r)] ==
            IF n = 0 THEN <<>>
            ELSE IF r[n].chain.id = id THEN kept[n - 1] ELSE Append(kept[n - 1], r[n])
    IN  kept[Len(r)]

\* pop_back until one more state fits
MakeRoom(r) ==
    SubSeq(r, 1, IF Len(r) < MAX_SENDER_KEY_STATES THEN Len(r) ELSE MAX_SENDER_KEY_STATES - 1)

\* the state of that chain, or a new one
StateFor(r, chain, iteration) ==
    IF StatesOf(r, chain) = {} THEN NewState(chain, iteration) ELSE r[Min(StatesOf(r, chain))]

\* mutant: a chain that is distributed again starts over
AddSenderKeyStateAfresh(r, chain, iteration) ==
    << NewState(chain, iteration) >> \o MakeRoom(WithoutId(r, chain.id))

\* mutant: the record is cut back before the chain's own state is taken out
AddSenderKeyStateLoose(r, chain, iteration) ==
    << StateFor(r, chain, iteration) >> \o MakeRoom(r)

\* add_sender_key_state: a state of the same chain is kept as it is, others of the
\* same id are dropped, and the oldest make room
AddSenderKeyState(r, chain, iteration) ==
    << StateFor(r, chain, iteration) >> \o MakeRoom(WithoutId(r, chain.id))

\* group_decrypt: the first state of the message's chain id decides; one of
\* another chain fails the signature check
GroupVerdict(r, m) ==
    LET i == Min(StateIndices(r, m.chain.id))
    IN  IF StateIndices(r, m.chain.id) = {} \/ r[i].chain # m.chain THEN "invalid"
        ELSE SenderKeyVerdict(r[i], m.iteration)

GroupDecrypt(r, m) ==
    LET i == Min(StateIndices(r, m.chain.id))
    IN  [r EXCEPT ![i] = TakeSenderKey(@, m.iteration)]

\* group_encrypt uses the first state of the record
CanGroupEncrypt(r) == r # <<>> /\ CanAdvance(Head(r).iteration)
KeyMessageOf(r) == [chain |-> Head(r).chain, iteration |-> Head(r).iteration]

\* mutant: the chain key is stored as it was
GroupEncryptInPlace(r) == r

GroupEncrypt(r) == [r EXCEPT ![1].iteration = @ + 1]

-----------------------------------------------------------------------------
(* What the records are meant to satisfy                                   *)

SenderKeyRecordWithinLimits(r) ==
    /\ Len(r) <= MAX_SENDER_KEY_STATES
    /\ \A i \in DOMAIN r : Len(r[i].skipped) <= MAX_MESSAGE_KEYS

\* sender_key_state_for_chain_id finds the only state there is
ChainIdsDistinct(r) == \A i, j \in DOMAIN r : r[i].chain.id = r[j].chain.id => i = j

\* the key of m can still be derived from a state of r
CanDeriveSenderKey(r, m) ==
    \E i \in DOMAIN r :
        /\ r[i].chain = m.chain
        /\ r[i].iteration <= m.iteration \/ Contains(r[i].skipped, m.iteration)

=============================================================================
