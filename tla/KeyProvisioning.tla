-------------------------- MODULE KeyProvisioning --------------------------
(***************************************************************************)
(* How a browser profile gets the keys it is reached with.  Every page     *)
(* load runs ensureWasmReady: init_identity finds or creates the identity, *)
(* uploadKeysIfNeeded asks the server how many one-time prekeys are left   *)
(* and, unless the server seems in sync, generates a new bundle, saves its *)
(* private keys under the same ids as ever and uploads it.                 *)
(*                                                                         *)
(* All pages (tabs) of the profile share one IndexedDB, each access of     *)
(* which is an await; what is saved is encrypted under a master key that   *)
(* the first page creates and every page caches.  A page can be closed at  *)
(* any await, a request can fail, before or after the server has taken it. *)
(* An error in uploadKeysIfNeeded is logged and forgotten.                 *)
(***************************************************************************)
EXTENDS Integers

CONSTANTS
    Tab,
    NumPreKeys,       \* one-time prekeys of a bundle (initWasm.js: 100)
    Relinking,        \* whether a wiped device may be linked under its old device id
    MaxDevices,       \* bound: device ids the server gives out
    MaxUsed,          \* bound: one-time prekeys handed out to peers
    Disruption,       \* which of "reject", "lose", "crash", "tear", "wipe" may happen
    MaxDisruptions    \* bound: how many of them

ASSUME ProvisioningAssumption ==
    /\ NumPreKeys \in Nat \ {0}
    /\ Relinking \in BOOLEAN
    /\ MaxDevices \in Nat \ {0}
    /\ MaxUsed \in Nat /\ MaxDisruptions \in Nat
    /\ Disruption \subseteq {"reject", "lose", "crash", "tear", "wipe"}

VARIABLES
    deviceId,         \* deviceMeta: 0 if the login brought none
    masterKey,        \* cryptoKeys: the master wrapping key
    identity,         \* identities: own_identity_key
    registrationId,   \* identities: registration_id
    keys,             \* preKeys, then the signed and the Kyber prekey
    tab,              \* what each page is doing
    fresh,            \* the number of keys and ids generated
    devices,          \* the number of device ids the server has given out
    cookie,           \* the device the server takes the profile's requests for
    bundle,           \* the bundle the server has of each device
    unused,           \* its one-time prekeys not handed out yet
    used, disruptions

storeVars == <<deviceId, masterKey, identity, registrationId, keys>>
serverVars == <<devices, cookie, bundle, unused>>
countVars == <<used, disruptions>>
vars == <<storeVars, tab, fresh, serverVars, countVars>>

\* a key encrypted under a master key; 0 stands for a missing one everywhere
Envelope == [under : Nat, key : Nat]
NoEnvelope == [under |-> 0, key |-> 0]

PreKeyId == 1 .. NumPreKeys
Slot == 1 .. NumPreKeys + 2

Bundle == [registrationId : Nat, identity : Nat, generation : Nat]
NoBundle == [registrationId |-> 0, identity |-> 0, generation |-> 0]

\* where ensureWasmReady ends: it returns after an error of uploadKeysIfNeeded as
\* it does without one, but never if init_identity panics
Ended == {"in sync", "uploaded", "skipped", "failed", "stuck"}
Step == {"closed", "identity", "master", "putMaster", "initialize", "register", "device",
         "setDevice", "keys", "registration", "count", "save", "upload"} \cup Ended

Page == [step : Step, found : Envelope, masterKey : Nat, identity : Nat,
         registrationId : Nat, device : 0 .. MaxDevices, generation : Nat, next : Slot]

NewPage(step) == [step |-> step, found |-> NoEnvelope, masterKey |-> 0, identity |-> 0,
                  registrationId |-> 0, device |-> 0, generation |-> 0, next |-> 1]

\* the primary's identity and registration id, sent to a device being linked
LinkedIdentity == 1
LinkedRegistrationId == 2

TypeOK ==
    /\ deviceId \in 0 .. MaxDevices
    /\ masterKey \in Nat
    /\ identity \in Envelope
    /\ registrationId \in Nat
    /\ keys \in [Slot -> Envelope]
    /\ tab \in [Tab -> Page]
    /\ fresh \in Nat
    /\ devices \in 0 .. MaxDevices
    /\ cookie \in 0 .. MaxDevices
    /\ bundle \in [1 .. MaxDevices -> Bundle]
    /\ unused \in [1 .. MaxDevices -> SUBSET PreKeyId]
    /\ used \in Nat /\ disruptions \in Nat

Init ==
    /\ deviceId \in {0, 1}
    /\ masterKey = 0
    /\ identity = NoEnvelope
    /\ registrationId = 0
    /\ keys = [i \in Slot |-> NoEnvelope]
    /\ tab = [t \in Tab |-> NewPage("closed")]
    /\ fresh = 2
    /\ devices = deviceId
    /\ cookie = deviceId
    /\ bundle = [d \in 1 .. MaxDevices |-> NoBundle]
    /\ unused = [d \in 1 .. MaxDevices |-> {}]
    /\ used = 0 /\ disruptions = 0

Disrupts(kind) ==
    /\ kind \in Disruption
    /\ disruptions < MaxDisruptions
    /\ disruptions' = disruptions + 1
    /\ UNCHANGED used

At(t, step) == tab[t].step = step
GoTo(t, step) == tab' = [tab EXCEPT ![t].step = step]

-----------------------------------------------------------------------------
(* ensureWasmReady: init_identity                                          *)

Open(t) ==
    /\ At(t, "closed")
    /\ tab' = [tab EXCEPT ![t] = NewPage("identity")]
    /\ UNCHANGED <<storeVars, fresh, serverVars, countVars>>

\* the settings page of a profile without an identity waits for the primary's
OpenToLink(t) ==
    /\ At(t, "closed")
    /\ deviceId # 0 /\ identity = NoEnvelope
    /\ Relinking \/ bundle[deviceId] = NoBundle
    /\ tab' = [tab EXCEPT ![t] = [NewPage("master") EXCEPT
                   !.identity = LinkedIdentity, !.registrationId = LinkedRegistrationId]]
    /\ UNCHANGED <<storeVars, fresh, serverVars, countVars>>

\* nothing is decrypted, and no master key asked for, if there is no envelope
ReadIdentity(t) ==
    /\ At(t, "identity")
    /\ IF identity = NoEnvelope
       THEN /\ tab' = [tab EXCEPT ![t].step = "master", ![t].identity = fresh + 1,
                                  ![t].registrationId = fresh + 2]
            /\ fresh' = fresh + 2
       ELSE /\ tab' = [tab EXCEPT ![t].step = "master", ![t].found = identity]
            /\ UNCHANGED fresh
    /\ UNCHANGED <<storeVars, serverVars, countVars>>

\* _loadOrCreateMasterKey, at the first encryption or decryption of the page
LoadMasterKey(t) ==
    /\ At(t, "master")
    /\ IF masterKey # 0
       THEN /\ tab' = [tab EXCEPT ![t].step = "initialize", ![t].masterKey = masterKey]
            /\ UNCHANGED fresh
       ELSE /\ tab' = [tab EXCEPT ![t].step = "putMaster", ![t].masterKey = fresh + 1]
            /\ fresh' = fresh + 1
    /\ UNCHANGED <<storeVars, serverVars, countVars>>

PutMasterKey(t) ==
    /\ At(t, "putMaster")
    /\ masterKey' = tab[t].masterKey
    /\ GoTo(t, "initialize")
    /\ UNCHANGED <<deviceId, identity, registrationId, keys, fresh, serverVars, countVars>>

\* a rejected promise is a panic in the imported function, and the promise of
\* init_identity is never settled
UseIdentity(t) ==
    /\ At(t, "initialize")
    /\ tab[t].found # NoEnvelope
    /\ GoTo(t, IF tab[t].found.under = tab[t].masterKey THEN "device" ELSE "stuck")
    /\ UNCHANGED <<storeVars, fresh, serverVars, countVars>>

\* SignalStoreAdapter.initIdentity: the key ...
PutIdentity(t) ==
    /\ At(t, "initialize")
    /\ tab[t].found = NoEnvelope
    /\ identity' = [under |-> tab[t].masterKey, key |-> tab[t].identity]
    /\ GoTo(t, "register")
    /\ UNCHANGED <<deviceId, masterKey, registrationId, keys, fresh, serverVars, countVars>>

\* ... and the registration id.  A page being linked saves the primary's messages
\* next, which throws if there are any: their encryption outlasts the transaction
PutRegistrationId(t) ==
    /\ At(t, "register")
    /\ registrationId' = tab[t].registrationId
    /\ \/ GoTo(t, "device")
       \/ tab[t].registrationId = LinkedRegistrationId /\ GoTo(t, "failed")
    /\ UNCHANGED <<deviceId, masterKey, identity, keys, fresh, serverVars, countVars>>

-----------------------------------------------------------------------------
(* uploadKeysIfNeeded                                                      *)

\* without a device id the server is asked for one, and sets it in its cookie
GetDeviceId(t) ==
    /\ At(t, "device")
    /\ \/ /\ deviceId # 0
          /\ tab' = [tab EXCEPT ![t].step = "keys", ![t].device = deviceId]
          /\ UNCHANGED <<serverVars, countVars>>
       \/ /\ deviceId = 0 /\ devices < MaxDevices
          /\ devices' = devices + 1
          /\ cookie' = devices + 1
          /\ \/ /\ tab' = [tab EXCEPT ![t].step = "setDevice", ![t].device = devices + 1]
                /\ UNCHANGED countVars
             \/ Disrupts("lose") /\ GoTo(t, "failed")
          /\ UNCHANGED <<bundle, unused>>
       \/ /\ deviceId = 0
          /\ Disrupts("reject") /\ GoTo(t, "failed")
          /\ UNCHANGED serverVars
    /\ UNCHANGED <<storeVars, fresh>>

SetDeviceId(t) ==
    /\ At(t, "setDevice")
    /\ deviceId' = tab[t].device
    /\ GoTo(t, "keys")
    /\ UNCHANGED <<masterKey, identity, registrationId, keys, fresh, serverVars, countVars>>

\* the identity another page has saved meanwhile may be under another master key
ReadOwnIdentity(t) ==
    /\ At(t, "keys")
    /\ IF identity.under = tab[t].masterKey
       THEN tab' = [tab EXCEPT ![t].step = "registration", ![t].identity = identity.key]
       ELSE GoTo(t, "failed")
    /\ UNCHANGED <<storeVars, fresh, serverVars, countVars>>

ReadRegistrationId(t) ==
    /\ At(t, "registration")
    /\ IF registrationId = 0 THEN GoTo(t, "skipped")
       ELSE tab' = [tab EXCEPT ![t].step = "count", ![t].registrationId = registrationId]
    /\ UNCHANGED <<storeVars, fresh, serverVars, countVars>>

\* mutant: the registration id is not compared
InSyncByCount(t) == unused[cookie] # {}

\* mutant: the count is not looked at
InSyncById(t) == bundle[cookie].registrationId = tab[t].registrationId

\* count > 0 && serverRegId === localRegId
InSync(t) ==
    /\ unused[cookie] # {}
    /\ bundle[cookie].registrationId = tab[t].registrationId

GetPreKeyCount(t) ==
    /\ At(t, "count")
    /\ \/ /\ InSync(t)
          /\ GoTo(t, "in sync")
          /\ UNCHANGED <<fresh, countVars>>
       \/ /\ ~InSync(t)
          /\ tab' = [tab EXCEPT ![t].step = "save", ![t].generation = fresh + 1]
          /\ fresh' = fresh + 1
          /\ UNCHANGED countVars
       \/ Disrupts("reject") /\ GoTo(t, "failed") /\ UNCHANGED fresh
    /\ UNCHANGED <<storeVars, serverVars>>

\* mutant: one key more
SaveKeyPastLast(t) ==
    /\ At(t, "save")
    /\ keys' = [keys EXCEPT ![tab[t].next] = [under |-> tab[t].masterKey,
                                              key |-> tab[t].generation]]
    /\ IF tab[t].next > NumPreKeys + 2 THEN GoTo(t, "upload")
       ELSE tab' = [tab EXCEPT ![t].next = @ + 1]
    /\ UNCHANGED <<deviceId, masterKey, identity, registrationId, fresh, serverVars, countVars>>

SaveKey(t) ==
    /\ At(t, "save")
    /\ keys' = [keys EXCEPT ![tab[t].next] = [under |-> tab[t].masterKey,
                                              key |-> tab[t].generation]]
    /\ IF tab[t].next = NumPreKeys + 2 THEN GoTo(t, "upload")
       ELSE tab' = [tab EXCEPT ![t].next = @ + 1]
    /\ UNCHANGED <<deviceId, masterKey, identity, registrationId, fresh, serverVars, countVars>>

ServerTakes(t) ==
    /\ bundle' = [bundle EXCEPT ![tab[t].device] =
                     [registrationId |-> tab[t].registrationId,
                      identity |-> tab[t].identity, generation |-> tab[t].generation]]
    /\ unused' = [unused EXCEPT ![tab[t].device] = PreKeyId]
    /\ UNCHANGED <<devices, cookie>>

UploadKeys(t) ==
    /\ At(t, "upload")
    /\ \/ ServerTakes(t) /\ GoTo(t, "uploaded") /\ UNCHANGED countVars
       \/ ServerTakes(t) /\ Disrupts("lose") /\ GoTo(t, "failed")
       \/ Disrupts("reject") /\ GoTo(t, "failed") /\ UNCHANGED serverVars
    /\ UNCHANGED <<storeVars, fresh>>

TabStep(t) ==
    \/ ReadIdentity(t) \/ LoadMasterKey(t) \/ PutMasterKey(t) \/ UseIdentity(t)
    \/ PutIdentity(t) \/ PutRegistrationId(t) \/ GetDeviceId(t) \/ SetDeviceId(t)
    \/ ReadOwnIdentity(t) \/ ReadRegistrationId(t) \/ GetPreKeyCount(t) \/ SaveKey(t)
    \/ UploadKeys(t)

-----------------------------------------------------------------------------
(* What happens around it                                                  *)

Close(t) ==
    /\ tab[t].step \in Ended
    /\ tab' = [tab EXCEPT ![t] = NewPage("closed")]
    /\ UNCHANGED <<storeVars, fresh, serverVars, countVars>>

\* the page is closed, or the browser dies, before ensureWasmReady has ended; "tear"
\* is the one await at which this leaves an identity without a registration id
Crash(t) ==
    /\ tab[t].step \notin Ended \cup {"closed"}
    /\ Disrupts(IF At(t, "register") THEN "tear" ELSE "crash")
    /\ tab' = [tab EXCEPT ![t] = NewPage("closed")]
    /\ UNCHANGED <<storeVars, fresh, serverVars>>

\* site data is cleared; the next login may name the device again
Wipe ==
    /\ \A t \in Tab : At(t, "closed")
    /\ identity # NoEnvelope
    /\ Disrupts("wipe")
    /\ deviceId' \in {0, deviceId}
    /\ masterKey' = 0
    /\ identity' = NoEnvelope
    /\ registrationId' = 0
    /\ keys' = [i \in Slot |-> NoEnvelope]
    /\ UNCHANGED <<tab, fresh, serverVars>>

\* a peer fetches the bundle
HandOut(d) ==
    /\ used < MaxUsed
    /\ \E id \in unused[d] : unused' = [unused EXCEPT ![d] = @ \ {id}]
    /\ used' = used + 1
    /\ UNCHANGED <<storeVars, tab, fresh, devices, cookie, bundle, disruptions>>

-----------------------------------------------------------------------------
Next ==
    \/ \E t \in Tab : Open(t) \/ OpenToLink(t) \/ TabStep(t) \/ Close(t) \/ Crash(t)
    \/ Wipe
    \/ \E d \in 1 .. MaxDevices : HandOut(d)

Spec == Init /\ [][Next]_vars

\* a page goes on to the end, and the user opens one again
FairSpec ==
    Spec /\ \A t \in Tab : WF_vars(TabStep(t)) /\ WF_vars(Open(t)) /\ WF_vars(Close(t))

-----------------------------------------------------------------------------
(* Properties                                                              *)

\* the private half of a key is in the store and the master key opens it
Stored(envelope, key) == envelope = [under |-> masterKey, key |-> key]

\* what the server hands out for this device can be answered
Usable ==
    /\ deviceId # 0
    /\ bundle[deviceId] # NoBundle
    /\ Stored(identity, bundle[deviceId].identity)
    /\ bundle[deviceId].registrationId = registrationId
    /\ \A i \in unused[deviceId] \cup (Slot \ PreKeyId) :
          Stored(keys[i], bundle[deviceId].generation)

\* initWasm.js: "Server is perfectly in sync with this device".  A page that takes
\* the server for in sync, by a count and a registration id, is right: whatever was
\* interrupted before, the keys handed out are those in the store.
InSyncMeansUsable ==
    (\A t \in Tab : tab[t].step \in Ended \cup {"closed"}) =>
        \A t \in Tab : At(t, "in sync") => Usable

\* Interrupted, refused or unanswered, the set-up comes right in the end if the page
\* is opened again and again: uploads that failed after the store was overwritten
\* are made up for, and so are the one-time prekeys that were handed out.
Provisioned == <>[](Usable /\ unused[deviceId] # {})

=============================================================================
