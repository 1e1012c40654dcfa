--------------------------- MODULE DirectSession ---------------------------
(***************************************************************************)
(* The page of one device, whose calls of the session protocol overlap.    *)
(* useSignalSession.js keeps one cipher object per device id of the other  *)
(* user.  A bridge call on it reads the session record, computes, and      *)
(* writes the identity, the used prekeys and the record back, awaiting the *)
(* store between any two of these.  Nothing else keeps two calls apart     *)
(* than that wasm-bindgen lends an object to one call at a time: a second  *)
(* call on a borrowed object throws.                                       *)
(*                                                                         *)
(* The other devices make each call in one step, as in DoubleRatchet.  The *)
(* symbolic keys a call generates are numbered when it stores its result.  *)
(***************************************************************************)
EXTENDS DoubleRatchet

CONSTANTS
    Me,             \* the device whose page is modelled
    UserOf,         \* the user of each device
    DeviceId,       \* its number among the devices of the user
    None,           \* no conversation, no address
    Online,         \* bound: the other devices in use
    Flow,           \* bound: calls of the hook under way at once
    OpeningRace,    \* may a conversation be opened by several calls at once?
    MaxClosed       \* bound: how often the page is closed

ASSUME PageAssumption ==
    /\ Me \in Party
    /\ UserOf \in [Party -> Party]
    /\ DeviceId \in [Party -> Nat \ {0}]
    /\ \A p, q \in Party : UserOf[p] = UserOf[q] /\ DeviceId[p] = DeviceId[q] => p = q
    /\ None \notin Party
    /\ Online \subseteq Party \ {Me}
    /\ OpeningRace \in BOOLEAN
    /\ MaxClosed \in Nat

VARIABLES
    remote,         \* remoteName: the user whose conversation is open
    ciphers,        \* ciphersRef: the cipher object cached for a device id, or 0
    addresses,      \* addressesRef: the address cached for a device id
    objects,        \* the cipher objects made so far: the address of each
    flow,           \* where each call under way stands
    abandoned,      \* history: base keys whose session the page did not live to store
    closings        \* the number of times the page was closed

cacheVars == <<ciphers, addresses, objects>>
pageVars == <<remote, cacheVars, flow, abandoned, closings>>
directVars == <<vars, pageVars>>

User == {UserOf[p] : p \in Party \ {Me}}
Id == {DeviceId[p] : p \in Party \ {Me}}
Devices(u) == {p \in Party \ {Me} : UserOf[p] = u}
Cached == {d \in Id : ciphers[d] # 0}

Bundles == [party : Party, identity : Key, signedPreKey : Key, preKey : OptionalKey]

\* "record" is the session record the call has loaded
Idle == [kind |-> "idle", step |-> "none"]
Establishing ==
    [kind : {"establish"}, step : {"existing", "trust", "load", "save", "store"},
     todo : SUBSET Bundles, bundle : Bundles, address : Party, record : Record]
Encrypting ==
    [kind : {"encrypt"}, step : {"load", "trust", "save", "store", "emit"},
     remote : User, text : Nat, done : SUBSET Id, device : Id, object : Nat,
     record : Record, slices : SUBSET Message]
Decrypting ==
    [kind : {"decrypt"},
     step : {"lookup", "load", "keys", "save", "check", "mark", "remove", "store"},
     message : Message, object : Nat, record : Record]
FlowState == {Idle} \cup Establishing \cup Encrypting \cup Decrypting

DirectTypeOK ==
    /\ TypeOK
    /\ remote \in User \cup {None}
    /\ ciphers \in [Id -> 0 .. Len(objects)]
    /\ addresses \in [Id -> Party \cup {None}]
    /\ objects \in Seq(Party)
    /\ flow \in [Flow -> FlowState]
    /\ \A f \in Flow : flow[f].kind \in {"encrypt", "decrypt"} => flow[f].object <= Len(objects)
    /\ abandoned \subseteq Key
    /\ closings \in Nat

DirectInit ==
    /\ Init
    /\ remote = None
    /\ ciphers = [d \in Id |-> 0]
    /\ addresses = [d \in Id |-> None]
    /\ objects = <<>>
    /\ flow = [f \in Flow |-> Idle]
    /\ abandoned = {}
    /\ closings = 0

-----------------------------------------------------------------------------
(* The cached objects, and how a call moves on                             *)

At(f, kind, step) == flow[f].kind = kind /\ flow[f].step = step
Go(f, step) == flow' = [flow EXCEPT ![f].step = step]
GoWith(f, step, r) == flow' = [flow EXCEPT ![f].step = step, ![f].record = r]

\* the call returns, or throws: the hook keeps nothing of it
Return(f) == flow' = [flow EXCEPT ![f] = Idle]

\* mutant: objects are shared freely
NeverBorrowed(o) == FALSE

\* encrypt(&mut self) and decrypt(&mut self) borrow the object until they return
Borrowed(o) ==
    \E f \in Flow :
        /\ flow[f].kind \in {"encrypt", "decrypt"}
        /\ flow[f].step \notin {"lookup", "emit"}
        /\ flow[f].object = o

CallAddress(f) == objects[flow[f].object]

\* the address cached for the device id is taken, whosever it is
AddressOf(p) == IF addresses[DeviceId[p]] = None THEN p ELSE addresses[DeviceId[p]]
CacheAddress(p) == addresses' = [addresses EXCEPT ![DeviceId[p]] = AddressOf(p)]

NewCipher(d, address) ==
    /\ objects' = Append(objects, address)
    /\ ciphers' = [ciphers EXCEPT ![d] = Len(objects) + 1]

\* mutant: every turn of the loop makes a cipher of its own
ReplaceCipher(d, address) == NewCipher(d, address)

EnsureCipher(d, address) ==
    IF ciphers[d] = 0 THEN NewCipher(d, address) ELSE UNCHANGED <<ciphers, objects>>

\* mutant: the objects are freed, but stay in the cache
FreeOnly == objects' = <<>> /\ UNCHANGED <<ciphers, addresses>>

ClearCaches ==
    /\ objects' = <<>>
    /\ ciphers' = [d \in Id |-> 0]
    /\ addresses' = [d \in Id |-> None]

\* A call that opens a conversation, for want of a cipher or of a record, runs
\* alone unless the constant says otherwise.
Opening(e) ==
    \/ e.kind = "establish" /\ \E b \in e.todo \cup {e.bundle} : records[Me][b.party] = FreshRecord
    \/ e.kind = "decrypt" /\ \/ e.step = "lookup"
                             \/ records[Me][e.message.from] = FreshRecord

Starts(f, e) ==
    /\ flow[f] = Idle
    /\ OpeningRace \/ \A g \in Flow : flow[g] # Idle => ~Opening(e) /\ ~Opening(flow[g])
    /\ flow' = [flow EXCEPT ![f] = e]

-----------------------------------------------------------------------------
(* establishSession                                                        *)

\* the loop over the bundles: e is the call before its next turn
NextBundle(e) ==
    {[e EXCEPT !.step = "existing", !.todo = @ \ {b}, !.bundle = b,
               !.address = AddressOf(b.party)] : b \in e.todo}

\* the server answers with a bundle of each device of the user
StartEstablish(f) ==
    /\ remote # None
    /\ \E preKey \in [Devices(remote) -> UNION {OfferedPreKeys(p) : p \in Devices(remote)}] :
          /\ \A p \in Devices(remote) : preKey[p] \in OfferedPreKeys(p)
          /\ published' = [p \in Party |->
                IF p \in Devices(remote) THEN [published[p] EXCEPT !.preKeys = @ \ {preKey[p]}]
                ELSE published[p]]
          /\ LET bundles == {[party |-> p, identity |-> published[p].identity,
                              signedPreKey |-> published[p].signedPreKey,
                              preKey |-> preKey[p]] : p \in Devices(remote)}
             IN  \E b \in bundles :
                    /\ Starts(f, [kind |-> "establish", step |-> "existing",
                                  todo |-> bundles \ {b}, bundle |-> b,
                                  address |-> AddressOf(b.party), record |-> FreshRecord])
                    /\ CacheAddress(b.party)
    /\ UNCHANGED <<identity, signedPreKey, preKeys, kyberUsed, sessionVars, nextKey,
                   historyVars, boundVars, remote, ciphers, objects, abandoned, closings>>

\* the end of a turn: the cipher is cached if none is, and the next turn begins
EndTurn(f) ==
    LET e == flow[f]
        d == DeviceId[e.bundle.party]
    IN  /\ EnsureCipher(d, e.address)
        /\ IF e.todo = {} THEN Return(f) /\ UNCHANGED addresses
           ELSE \E next \in NextBundle(e) :
                   /\ flow' = [flow EXCEPT ![f] = next]
                   /\ CacheAddress(next.bundle.party)

\* mutant: the bundle is processed in any case
NeverHasSession(p) == FALSE

HasSession(p) == records[Me][p] # FreshRecord

EstablishNeedless(f) ==
    /\ At(f, "establish", "existing")
    /\ HasSession(flow[f].bundle.party)
    /\ EndTurn(f)
    /\ UNCHANGED <<vars, remote, abandoned, closings>>

EstablishNeeded(f) ==
    /\ At(f, "establish", "existing")
    /\ ~HasSession(flow[f].bundle.party)
    /\ Go(f, "trust")
    /\ UNCHANGED <<vars, remote, cacheVars, abandoned, closings>>

\* process_prekey_bundle, of the cached address
EstablishTrust(f) ==
    LET e == flow[f]
    IN  /\ At(f, "establish", "trust")
        /\ IF TrustedForSending(Me, e.address, e.bundle.identity) THEN Go(f, "load")
           ELSE Return(f)
        /\ UNCHANGED <<vars, remote, cacheVars, abandoned, closings>>

EstablishLoad(f) ==
    /\ At(f, "establish", "load")
    /\ GoWith(f, "save", records[Me][flow[f].address])
    /\ UNCHANGED <<vars, remote, cacheVars, abandoned, closings>>

EstablishSave(f) ==
    /\ At(f, "establish", "save")
    /\ SaveIdentity(Me, flow[f].address, flow[f].bundle.identity)
    /\ Go(f, "store")
    /\ UNCHANGED <<keyVars, records, nextKey, historyVars, boundVars,
                   remote, cacheVars, abandoned, closings>>

EstablishStore(f) ==
    LET e == flow[f]
    IN  /\ At(f, "establish", "store")
        /\ LET session == InitializeAlice(identity[Me], e.bundle.identity,
                                          NewKey(Me, 0), NewKey(Me, 1),
                                          e.bundle.signedPreKey, e.bundle.preKey, now)
           IN  StoreSession(Me, e.address, PromoteState(e.record, session))
        /\ nextKey' = [nextKey EXCEPT ![Me] = @ + 2]
        /\ EndTurn(f)
        /\ UNCHANGED <<keyVars, pinned, historyVars, boundVars, remote, abandoned, closings>>

Establish(f) ==
    \/ StartEstablish(f)
    \/ EstablishNeedless(f)
    \/ EstablishNeeded(f)
    \/ EstablishTrust(f)
    \/ EstablishLoad(f)
    \/ EstablishSave(f)
    \/ EstablishStore(f)

-----------------------------------------------------------------------------
(* encryptMessage                                                          *)

\* The loop over the cached ciphers, those added meanwhile included: e is the call
\* before its next turn.  A borrowed cipher throws.
NextCipher(e) ==
    IF Cached \subseteq e.done THEN {[e EXCEPT !.step = "emit"]}
    ELSE {IF Borrowed(ciphers[d]) THEN Idle
          ELSE [e EXCEPT !.step = "load", !.done = @ \cup {d}, !.device = d,
                         !.object = ciphers[d]] : d \in Cached \ e.done}

StartEncrypt(f) ==
    /\ remote # None
    /\ Cached # {}
    /\ texts[Me] < MaxTexts
    /\ texts' = [texts EXCEPT ![Me] = @ + 1]
    /\ \E d \in Cached :
          /\ ~Borrowed(ciphers[d])
          /\ Starts(f, [kind |-> "encrypt", step |-> "load", remote |-> remote,
                        text |-> texts[Me], done |-> {d}, device |-> d, object |-> ciphers[d],
                        record |-> FreshRecord, slices |-> {}])
    /\ UNCHANGED <<keyVars, sessionVars, nextKey, sent, opened, reopened, boundVars,
                   remote, cacheVars, abandoned, closings>>

EncryptLoad(f) ==
    LET r == records[Me][CallAddress(f)]
    IN  /\ At(f, "encrypt", "load")
        /\ IF r.current = NoSession \/ Stale(r.current) THEN Return(f)
           ELSE GoWith(f, "trust", r)
        /\ UNCHANGED <<vars, remote, cacheVars, abandoned, closings>>

EncryptTrust(f) ==
    /\ At(f, "encrypt", "trust")
    /\ IF TrustedForSending(Me, CallAddress(f), flow[f].record.current.remote)
       THEN Go(f, "save") ELSE Return(f)
    /\ UNCHANGED <<vars, remote, cacheVars, abandoned, closings>>

EncryptSave(f) ==
    /\ At(f, "encrypt", "save")
    /\ SaveIdentity(Me, CallAddress(f), flow[f].record.current.remote)
    /\ Go(f, "store")
    /\ UNCHANGED <<keyVars, records, nextKey, historyVars, boundVars,
                   remote, cacheVars, abandoned, closings>>

\* the ciphertext, labelled with the open conversation's user and the device id
Slices(e) ==
    {[Ciphertext(Me, p, e.record.current) EXCEPT !.text = e.text] :
        p \in {q \in Devices(e.remote) : DeviceId[q] = e.device}}

EncryptStore(f) ==
    LET e == flow[f]
        r == [e.record EXCEPT !.current = AdvanceSenderChain(@)]
    IN  /\ At(f, "encrypt", "store")
        /\ StoreSession(Me, CallAddress(f), r)
        /\ \E next \in NextCipher([e EXCEPT !.slices = @ \cup Slices(e)]) :
              flow' = [flow EXCEPT ![f] = next]
        /\ UNCHANGED <<keyVars, pinned, nextKey, historyVars, boundVars,
                       remote, cacheVars, abandoned, closings>>

Emit(f) ==
    /\ At(f, "encrypt", "emit")
    /\ sent' = sent \cup flow[f].slices
    /\ Return(f)
    /\ UNCHANGED <<keyVars, sessionVars, nextKey, opened, reopened, texts, boundVars,
                   remote, cacheVars, abandoned, closings>>

EncryptMessage(f) ==
    \/ StartEncrypt(f)
    \/ EncryptLoad(f)
    \/ EncryptTrust(f)
    \/ EncryptSave(f)
    \/ EncryptStore(f)
    \/ Emit(f)

-----------------------------------------------------------------------------
(* decryptMessage                                                          *)

\* a message of the open conversation, live or from the history
StartDecrypt(f, m) ==
    LET o == ciphers[DeviceId[m.from]]
    IN  /\ m.to = Me
        /\ UserOf[m.from] = remote
        /\ ~Borrowed(o)
        /\ Starts(f, [kind |-> "decrypt", step |-> IF o = 0 THEN "lookup" ELSE "load",
                      message |-> m, object |-> o, record |-> FreshRecord])
        /\ UNCHANGED <<vars, remote, cacheVars, abandoned, closings>>

\* without a cipher, one is made if there is a session or the message starts one;
\* it takes the place of any other call's made since
DecryptLookup(f) ==
    LET m == flow[f].message
    IN  /\ At(f, "decrypt", "lookup")
        /\ IF records[Me][m.from] = FreshRecord /\ m.type # "prekey"
           THEN Return(f) /\ UNCHANGED cacheVars
           ELSE /\ CacheAddress(m.from)
                /\ NewCipher(DeviceId[m.from], AddressOf(m.from))
                /\ flow' = [flow EXCEPT ![f].step = "load", ![f].object = Len(objects) + 1]
        /\ UNCHANGED <<vars, remote, abandoned, closings>>

StartsSession(e) ==
    e.message.type = "prekey" /\ ~HasMatchingSession(e.record, e.message.base)

\* what the call computes from the record it has loaded
Result(e) ==
    LET r == IF e.message.type = "prekey" THEN ProcessPreKey(Me, e.record, e.message)
             ELSE e.record
    IN  DecryptWithRecord(r, e.message, NewKey(Me, 0))

DecryptLoad(f) ==
    LET r == records[Me][CallAddress(f)]
        e == [flow[f] EXCEPT !.record = r]
    IN  /\ At(f, "decrypt", "load")
        /\ IF StartsSession(e) THEN GoWith(f, "keys", r)
           ELSE IF Result(e).verdict = "ok" THEN GoWith(f, "save", r)
           ELSE Return(f)
        /\ UNCHANGED <<vars, remote, cacheVars, abandoned, closings>>

\* the private keys are read, the session is made and opens the message
DecryptKeys(f) ==
    /\ At(f, "decrypt", "keys")
    /\ IF CanInitializeBob(Me, flow[f].message) /\ Result(flow[f]).verdict = "ok"
       THEN Go(f, "save") ELSE Return(f)
    /\ UNCHANGED <<vars, remote, cacheVars, abandoned, closings>>

DecryptSave(f) ==
    LET e == flow[f]
    IN  /\ At(f, "decrypt", "save")
        /\ SaveIdentity(Me, CallAddress(f),
                        IF e.message.type = "prekey" THEN e.message.sender
                        ELSE Result(e).record.current.remote)
        /\ Go(f, IF StartsSession(e) THEN "check" ELSE "store")
        /\ UNCHANGED <<keyVars, records, nextKey, historyVars, boundVars,
                       remote, cacheVars, abandoned, closings>>

\* markKyberPreKeyUsed reads and then writes
DecryptCheck(f) ==
    /\ At(f, "decrypt", "check")
    /\ IF Replayed(Me, flow[f].message) THEN Return(f) ELSE Go(f, "mark")
    /\ UNCHANGED <<vars, remote, cacheVars, abandoned, closings>>

DecryptMark(f) ==
    LET m == flow[f].message
    IN  /\ At(f, "decrypt", "mark")
        /\ kyberUsed' = [kyberUsed EXCEPT ![Me] = @ \cup {m.base}]
        /\ Go(f, IF m.preKey = NoKey THEN "store" ELSE "remove")
        /\ UNCHANGED <<identity, signedPreKey, preKeys, published, sessionVars, nextKey,
                       historyVars, boundVars, remote, cacheVars, abandoned, closings>>

DecryptRemove(f) ==
    /\ At(f, "decrypt", "remove")
    /\ preKeys' = [preKeys EXCEPT ![Me] = @ \ {flow[f].message.preKey}]
    /\ Go(f, "store")
    /\ UNCHANGED <<identity, signedPreKey, kyberUsed, published, sessionVars, nextKey,
                   historyVars, boundVars, remote, cacheVars, abandoned, closings>>

DecryptStore(f) ==
    LET e == flow[f]
        r == Result(e).record
    IN  /\ At(f, "decrypt", "store")
        /\ StoreSession(Me, CallAddress(f), r)
        /\ UseNewKey(Me, e.message.from, r)
        /\ Opens(Me, e.message)
        /\ Return(f)
        /\ UNCHANGED <<keyVars, pinned, sent, texts, boundVars,
                       remote, cacheVars, abandoned, closings>>

DecryptMessage(f) ==
    \/ \E m \in sent : StartDecrypt(f, m)
    \/ DecryptLookup(f)
    \/ DecryptLoad(f)
    \/ DecryptKeys(f)
    \/ DecryptSave(f)
    \/ DecryptCheck(f)
    \/ DecryptMark(f)
    \/ DecryptRemove(f)
    \/ DecryptStore(f)

-----------------------------------------------------------------------------
(* The page and the other devices                                          *)

\* another conversation is chosen, or none of one user: the hook stays, and so do
\* its caches and the calls under way
Switch ==
    /\ remote' \in (User \cup {None}) \ {remote}
    /\ UNCHANGED <<vars, cacheVars, flow, abandoned, closings>>

\* a call that was to store the session of a base key it has marked
Committed(e) == e.kind = "decrypt" /\ e.step \in {"remove", "store"} /\ StartsSession(e)

\* the page is closed or left, and opened again with nothing cached
Close ==
    /\ closings < MaxClosed
    /\ closings' = closings + 1
    /\ abandoned' = abandoned \cup {flow[f].message.base : f \in {g \in Flow : Committed(flow[g])}}
    /\ remote' = None
    /\ ClearCaches
    /\ flow' = [f \in Flow |-> Idle]
    /\ UNCHANGED vars

Others ==
    /\ \E p \in Online :
          \/ EstablishSession(p, Me)
          \/ FetchUnused(p, Me)
          \/ Encrypt(p, Me)
          \/ \E m \in sent : m.to = p /\ Decrypt(p, m)
    /\ UNCHANGED pageVars

DirectNext ==
    \/ \E f \in Flow : Establish(f) \/ EncryptMessage(f) \/ DecryptMessage(f)
    \/ Switch
    \/ Close
    \/ Others

DirectSpec == DirectInit /\ [][DirectNext]_directVars

-----------------------------------------------------------------------------
(* Properties                                                              *)

\* While a conversation is opened by one call at a time, a message the other side
\* sent becomes unreadable in one way only: the page was closed after the call for
\* the first message of a session had marked its base key, and before it stored
\* the session.
LostOnlyIfCutOff ==
    \A m \in sent :
        \/ m.to # Me
        \/ m \in opened[Me]
        \/ Verdict(Me, m) = "ok"
        \/ m.base \in abandoned
        \/ \E f \in Flow : Committed(flow[f]) /\ flow[f].message.base = m.base

\* README.md: messages "can only be decrypted by the intended recipient".  What is
\* sent to a device is encrypted to the identity key of that device.
ForAddressee == \A m \in sent : m.from = Me => m.receiver = identity[m.to]

=============================================================================
