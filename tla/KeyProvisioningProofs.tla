------------------------ MODULE KeyProvisioningProofs ------------------------
(***************************************************************************)
(* Theorems about KeyProvisioning: its type invariant for any number of    *)
(* pages, and, while one page sets up at a time and no device is linked    *)
(* again under its old id, that a page which takes the server for in sync  *)
(* is right, whatever was refused, lost, interrupted or cleared before.    *)
(***************************************************************************)
EXTENDS KeyProvisioning, TLAPS

-----------------------------------------------------------------------------
(* Types                                                                   *)

\* The page t is g from now on.
Turns(t, g) == tab' = [tab EXCEPT ![t] = g]

LEMMA NewPageTyped == ASSUME NEW step \in Step PROVE NewPage(step) \in Page
<1>1. 1 \in Slot /\ 0 \in 0 .. MaxDevices
  BY ProvisioningAssumption DEF Slot
<1> QED
  BY <1>1 DEF NewPage, Page, NoEnvelope, Envelope

LEMMA TurnsTyped ==
    ASSUME TypeOK, NEW t \in Tab, NEW g \in Page, Turns(t, g)
    PROVE  tab' \in [Tab -> Page]
  BY DEF TypeOK, Turns

LEMMA GoToTyped ==
    ASSUME TypeOK, NEW t \in Tab, NEW step \in Step, GoTo(t, step)
    PROVE  tab' \in [Tab -> Page] /\ Turns(t, [tab[t] EXCEPT !.step = step])
  BY DEF TypeOK, GoTo, Turns, Page

LEMMA ChangedTyped ==
    ASSUME NEW p \in Page, NEW step \in Step, NEW i \in Nat, NEW j \in Nat
    PROVE  /\ [p EXCEPT !.identity = i, !.registrationId = j] \in Page
           /\ [p EXCEPT !.step = step, !.identity = i, !.registrationId = j] \in Page
           /\ [p EXCEPT !.step = step, !.identity = i] \in Page
           /\ [p EXCEPT !.step = step, !.registrationId = i] \in Page
           /\ [p EXCEPT !.step = step, !.masterKey = i] \in Page
           /\ i <= MaxDevices => [p EXCEPT !.step = step, !.device = i] \in Page
           /\ [p EXCEPT !.step = step, !.generation = i] \in Page
<1>1. i <= MaxDevices => i \in 0 .. MaxDevices
  BY ProvisioningAssumption
<1> QED
  BY <1>1 DEF Page

LEMMA Steps ==
    {"closed", "identity", "master", "putMaster", "initialize", "register", "device", "setDevice",
     "keys", "registration", "count", "save", "upload", "in sync", "uploaded", "skipped", "failed",
     "stuck"} = Step
  BY DEF Step, Ended

LEMMA OpenType ==
    ASSUME TypeOK, NEW t \in Tab, Open(t) \/ OpenToLink(t) \/ Close(t) \/ Crash(t)
    PROVE  TypeOK'
<1>1. ASSUME Open(t) \/ Close(t) \/ Crash(t) PROVE tab' \in [Tab -> Page]
  <2>1. PICK step \in Step : Turns(t, NewPage(step))
    BY <1>1, Steps DEF Open, Close, Crash, Turns
  <2> QED BY <2>1, NewPageTyped, TurnsTyped
<1>2. ASSUME OpenToLink(t) PROVE tab' \in [Tab -> Page]
  <2>1. PICK p \in Page : p = NewPage("master")
    BY Steps, NewPageTyped
  <2>2. Turns(t, [p EXCEPT !.identity = 1, !.registrationId = 2])
    BY <1>2, <2>1 DEF OpenToLink, Turns, LinkedIdentity, LinkedRegistrationId
  <2>3. [p EXCEPT !.identity = 1, !.registrationId = 2] \in Page
    BY ChangedTyped, Steps
  <2> QED BY <2>2, <2>3, TurnsTyped
<1>3. tab' \in [Tab -> Page]
  BY <1>1, <1>2
<1>4. used' \in Nat /\ disruptions' \in Nat
  BY DEF Open, OpenToLink, Close, Crash, Disrupts, TypeOK, countVars
<1>5. UNCHANGED <<storeVars, fresh, serverVars>>
  BY DEF Open, OpenToLink, Close, Crash
<1> QED
  BY <1>3, <1>4, <1>5 DEF TypeOK, storeVars, serverVars

LEMMA IdentityType ==
    ASSUME TypeOK, NEW t \in Tab,
           \/ ReadIdentity(t) \/ LoadMasterKey(t) \/ PutMasterKey(t) \/ UseIdentity(t)
           \/ PutIdentity(t) \/ PutRegistrationId(t)
    PROVE  TypeOK'
<1>0. tab[t] \in Page /\ fresh \in Nat /\ fresh + 1 \in Nat /\ fresh + 2 \in Nat
  BY DEF TypeOK
<1>1. CASE ReadIdentity(t)
  <2>1. tab' \in [Tab -> Page]
    <3>1. \/ Turns(t, [tab[t] EXCEPT !.step = "master", !.identity = fresh + 1,
                                     !.registrationId = fresh + 2])
          \/ Turns(t, [tab[t] EXCEPT !.step = "master", !.found = identity])
      BY <1>1 DEF ReadIdentity, TypeOK, Turns
    <3>2. [tab[t] EXCEPT !.step = "master", !.found = identity] \in Page
      BY <1>0, Steps DEF TypeOK, Page
    <3> QED BY <1>0, <3>1, <3>2, Steps, ChangedTyped, TurnsTyped
  <2> QED BY <1>0, <1>1, <2>1 DEF ReadIdentity, TypeOK, storeVars, serverVars, countVars
<1>2. CASE LoadMasterKey(t)
  <2>1. tab' \in [Tab -> Page]
    <3>1. \/ Turns(t, [tab[t] EXCEPT !.step = "initialize", !.masterKey = masterKey])
          \/ Turns(t, [tab[t] EXCEPT !.step = "putMaster", !.masterKey = fresh + 1])
      BY <1>2 DEF LoadMasterKey, TypeOK, Turns
    <3>2. masterKey \in Nat
      BY DEF TypeOK
    <3> QED BY <1>0, <3>1, <3>2, Steps, ChangedTyped, TurnsTyped
  <2> QED BY <1>0, <1>2, <2>1 DEF LoadMasterKey, TypeOK, storeVars, serverVars, countVars
<1>3. CASE PutMasterKey(t)
  <2>1. tab' \in [Tab -> Page] /\ masterKey' \in Nat
    BY <1>0, <1>3, Steps, GoToTyped DEF PutMasterKey, Page
  <2> QED BY <1>3, <2>1 DEF PutMasterKey, TypeOK, serverVars, countVars
<1>4. CASE UseIdentity(t)
  <2>1. tab' \in [Tab -> Page]
    BY <1>4, Steps, GoToTyped DEF UseIdentity
  <2> QED BY <1>4, <2>1 DEF UseIdentity, TypeOK, storeVars, serverVars, countVars
<1>5. CASE PutIdentity(t)
  <2>1. tab' \in [Tab -> Page] /\ identity' \in Envelope
    BY <1>0, <1>5, Steps, GoToTyped DEF PutIdentity, Page, Envelope
  <2> QED BY <1>5, <2>1 DEF PutIdentity, TypeOK, serverVars, countVars
<1>6. CASE PutRegistrationId(t)
  <2>1. tab' \in [Tab -> Page] /\ registrationId' \in Nat
    BY <1>0, <1>6, Steps, GoToTyped DEF PutRegistrationId, Page
  <2> QED BY <1>6, <2>1 DEF PutRegistrationId, TypeOK, serverVars, countVars
<1> QED
  BY <1>1, <1>2, <1>3, <1>4, <1>5, <1>6

LEMMA UploadType ==
    ASSUME TypeOK, NEW t \in Tab,
           \/ GetDeviceId(t) \/ SetDeviceId(t) \/ ReadOwnIdentity(t) \/ ReadRegistrationId(t)
           \/ GetPreKeyCount(t) \/ SaveKey(t) \/ UploadKeys(t)
    PROVE  TypeOK'
<1>0. tab[t] \in Page /\ fresh \in Nat /\ fresh + 1 \in Nat /\ disruptions + 1 \in Nat
      /\ identity.key \in Nat /\ devices \in 0 .. MaxDevices /\ deviceId \in Nat
      /\ used \in Nat /\ disruptions \in Nat
  BY DEF TypeOK, Envelope
<1>1. CASE GetDeviceId(t)
  <2>1. tab' \in [Tab -> Page]
    <3>1. \/ GoTo(t, "failed")
          \/ Turns(t, [tab[t] EXCEPT !.step = "keys", !.device = deviceId])
          \/ /\ devices < MaxDevices
             /\ Turns(t, [tab[t] EXCEPT !.step = "setDevice", !.device = devices + 1])
      BY <1>1 DEF GetDeviceId, TypeOK, Turns
    <3>2. /\ deviceId \in Nat /\ devices + 1 \in Nat /\ deviceId <= MaxDevices
          /\ devices < MaxDevices => devices + 1 <= MaxDevices
      BY <1>0, ProvisioningAssumption DEF TypeOK
    <3> QED BY <1>0, <3>1, <3>2, Steps, ChangedTyped, TurnsTyped, GoToTyped
  <2>2. devices' \in 0 .. MaxDevices /\ cookie' \in 0 .. MaxDevices
    <3>1. \/ UNCHANGED <<devices, cookie>>
          \/ devices < MaxDevices /\ devices' = devices + 1 /\ cookie' = devices + 1
      BY <1>1 DEF GetDeviceId, serverVars
    <3>2. devices < MaxDevices => devices + 1 \in 0 .. MaxDevices
      BY <1>0, ProvisioningAssumption
    <3> QED BY <1>0, <3>1, <3>2 DEF TypeOK
  <2>3. UNCHANGED <<bundle, unused>> /\ used' \in Nat /\ disruptions' \in Nat
    BY <1>0, <1>1 DEF GetDeviceId, serverVars, countVars, Disrupts
  <2> QED BY <1>1, <2>1, <2>2, <2>3 DEF GetDeviceId, TypeOK, storeVars
<1>2. CASE SetDeviceId(t)
  <2>1. tab' \in [Tab -> Page]
    BY <1>2, Steps, GoToTyped DEF SetDeviceId
  <2>2. tab[t].device \in 0 .. MaxDevices
    BY <1>0 DEF Page
  <2> QED BY <1>2, <2>1, <2>2 DEF SetDeviceId, TypeOK, serverVars, countVars
<1>3. CASE ReadOwnIdentity(t)
  <2>1. tab' \in [Tab -> Page]
    <3>1. \/ GoTo(t, "failed")
          \/ Turns(t, [tab[t] EXCEPT !.step = "registration", !.identity = identity.key])
      BY <1>3 DEF ReadOwnIdentity, TypeOK, Turns
    <3> QED BY <1>0, <3>1, Steps, ChangedTyped, TurnsTyped, GoToTyped
  <2> QED BY <1>3, <2>1 DEF ReadOwnIdentity, TypeOK, storeVars, serverVars, countVars
<1>4. CASE ReadRegistrationId(t)
  <2>1. tab' \in [Tab -> Page]
    <3>1. \/ GoTo(t, "skipped")
          \/ Turns(t, [tab[t] EXCEPT !.step = "count", !.registrationId = registrationId])
      BY <1>4 DEF ReadRegistrationId, TypeOK, Turns
    <3>2. registrationId \in Nat
      BY DEF TypeOK
    <3> QED BY <1>0, <3>1, <3>2, Steps, ChangedTyped, TurnsTyped, GoToTyped
  <2> QED BY <1>4, <2>1 DEF ReadRegistrationId, TypeOK, storeVars, serverVars, countVars
<1>5. CASE GetPreKeyCount(t)
  <2>1. tab' \in [Tab -> Page]
    <3>1. \/ GoTo(t, "failed") \/ GoTo(t, "in sync")
          \/ Turns(t, [tab[t] EXCEPT !.step = "save", !.generation = fresh + 1])
      BY <1>5 DEF GetPreKeyCount, TypeOK, Turns
    <3> QED BY <1>0, <3>1, Steps, ChangedTyped, TurnsTyped, GoToTyped
  <2>2. fresh' \in Nat /\ used' \in Nat /\ disruptions' \in Nat
    BY <1>0, <1>5 DEF GetPreKeyCount, countVars, Disrupts
  <2> QED BY <1>5, <2>1, <2>2 DEF GetPreKeyCount, TypeOK, storeVars, serverVars
<1>6. CASE SaveKey(t)
  <2>1. tab' \in [Tab -> Page]
    <3>1. tab[t].next \in Slot /\ (tab[t].next # NumPreKeys + 2 => tab[t].next + 1 \in Slot)
      BY <1>0, ProvisioningAssumption DEF Page, Slot
    <3>2. \/ GoTo(t, "upload")
          \/ tab[t].next # NumPreKeys + 2 /\ Turns(t, [tab[t] EXCEPT !.next = @ + 1])
      BY <1>6 DEF SaveKey, TypeOK, Turns
    <3>3. tab[t].next # NumPreKeys + 2 => [tab[t] EXCEPT !.next = @ + 1] \in Page
      BY <1>0, <3>1 DEF Page
    <3> QED BY <3>2, <3>3, Steps, TurnsTyped, GoToTyped
  <2>2. keys' \in [Slot -> Envelope]
    BY <1>0, <1>6 DEF SaveKey, TypeOK, Page, Envelope
  <2> QED BY <1>6, <2>1, <2>2 DEF SaveKey, TypeOK, serverVars, countVars
<1>7. CASE UploadKeys(t)
  <2>1. tab' \in [Tab -> Page] /\ used' \in Nat /\ disruptions' \in Nat
    BY <1>0, <1>7, Steps, GoToTyped DEF UploadKeys, countVars, Disrupts
  <2>2. bundle' \in [1 .. MaxDevices -> Bundle] /\ unused' \in [1 .. MaxDevices -> SUBSET PreKeyId]
        /\ UNCHANGED <<devices, cookie>>
    <3>1. [registrationId |-> tab[t].registrationId, identity |-> tab[t].identity,
           generation |-> tab[t].generation] \in Bundle
      BY <1>0 DEF Page, Bundle
    <3> QED BY <1>7, <3>1 DEF UploadKeys, ServerTakes, serverVars, TypeOK
  <2> QED BY <1>7, <2>1, <2>2 DEF UploadKeys, TypeOK, storeVars
<1> QED
  BY <1>1, <1>2, <1>3, <1>4, <1>5, <1>6, <1>7

LEMMA TypeStep == TypeOK /\ [Next]_vars => TypeOK'
<1> SUFFICES ASSUME TypeOK, [Next]_vars PROVE TypeOK'
  OBVIOUS
<1>1. ASSUME NEW t \in Tab, Open(t) \/ OpenToLink(t) \/ TabStep(t) \/ Close(t) \/ Crash(t)
      PROVE  TypeOK'
  BY <1>1, OpenType, IdentityType, UploadType DEF TabStep
<1>2. CASE Wipe
  <2>1. NoEnvelope \in Envelope /\ deviceId' \in 0 .. MaxDevices
    BY <1>2, ProvisioningAssumption DEF Wipe, NoEnvelope, Envelope, TypeOK
  <2> QED BY <1>2, <2>1 DEF Wipe, TypeOK, serverVars, Disrupts
<1>3. ASSUME NEW d \in 1 .. MaxDevices, HandOut(d) PROVE TypeOK'
  BY <1>3 DEF HandOut, TypeOK, storeVars
<1>4. CASE UNCHANGED vars
  BY <1>4 DEF vars, TypeOK, storeVars, serverVars, countVars
<1> QED
  BY <1>1, <1>2, <1>3, <1>4 DEF Next

LEMMA InitType == Init => TypeOK
<1> SUFFICES ASSUME Init PROVE TypeOK
  OBVIOUS
<1>1. NewPage("closed") \in Page
  BY NewPageTyped, Steps
<1>2. deviceId \in 0 .. MaxDevices
  BY ProvisioningAssumption DEF Init
<1> QED
  BY <1>1, <1>2 DEF Init, TypeOK, NoEnvelope, Envelope, NoBundle, Bundle

\* Every variable keeps its type, for any number of pages that set up at once and any
\* disruptions: in particular a page never saves more keys than a bundle has, and the
\* server gives out no more device ids than it may.
THEOREM ProvisioningTypeCorrect == Spec => []TypeOK
  BY InitType, TypeStep, PTL DEF Spec

-----------------------------------------------------------------------------
(* The server in sync with the store                                       *)

\* One page sets up at a time, and no device is linked again under its old id: the
\* conditions of the run.
OneTab == \A s, t \in Tab : s = t

\* The steps up to the one at which a page has saved or used the identity, those after
\* it, and of these the ones after the device id, the identity and the registration id
\* were read.
Finding == {"master", "putMaster", "initialize"}
Reading == {"keys", "registration", "count", "save", "upload"}
Working == {"register", "device", "setDevice"} \cup Reading
Saving == {"save", "upload"}

\* The server has bundles of devices it gave out, of identities and registration ids
\* generated so far, and one-time prekeys only of a bundle.
BundlesSound ==
    \A d \in 1 .. MaxDevices :
        /\ bundle[d] # NoBundle =>
              /\ d <= devices
              /\ bundle[d].registrationId \in 1 .. fresh /\ bundle[d].identity # 0
        /\ unused[d] # {} => bundle[d] # NoBundle

\* The identity is under the master key, and the server knows the profile by the
\* device id in the store.
StoreSound ==
    /\ identity # NoEnvelope => identity.under = masterKey /\ masterKey # 0 /\ identity.key # 0
    /\ deviceId # 0 => cookie = deviceId /\ deviceId <= devices
    /\ fresh >= 2 /\ registrationId <= fresh

\* The server's bundle is of the registration id in the store.
Matched ==
    /\ deviceId # 0 /\ bundle[deviceId] # NoBundle
    /\ bundle[deviceId].registrationId = registrationId

\* Then it is of the identity in the store, and, as long as it has one-time prekeys,
\* of the keys in the store.
KeysKept ==
    unused[deviceId] # {} =>
        \A i \in unused[deviceId] \cup (Slot \ PreKeyId) :
            Stored(keys[i], bundle[deviceId].generation)
MatchKept == Matched => Stored(identity, bundle[deviceId].identity) /\ KeysKept

\* What a page has generated for a profile without an identity.
Newborn(p) ==
    /\ p.identity # 0 /\ p.registrationId \in 1 .. fresh
    /\ deviceId # 0 /\ bundle[deviceId] # NoBundle
          => bundle[deviceId].registrationId # p.registrationId

PageSound(p) ==
    /\ p.step = "identity" => p.found = NoEnvelope
    /\ p.step \in {"identity"} \cup Finding \cup (Working \ Saving) => p.next = 1
    /\ p.step \in Finding => p.found = identity /\ (p.found = NoEnvelope => Newborn(p))
    /\ p.step = "putMaster" => masterKey = 0 /\ p.masterKey # 0
    /\ p.step \in {"initialize"} \cup Working => p.masterKey = masterKey /\ masterKey # 0
    /\ p.step \in Working => identity # NoEnvelope
    /\ p.step = "register" => Newborn(p) /\ ~Matched
    /\ p.step = "setDevice" =>
          /\ deviceId = 0 /\ p.device # 0 /\ p.device = cookie
          /\ p.device <= devices /\ bundle[p.device] = NoBundle
    /\ p.step \in Reading => p.device = deviceId /\ deviceId # 0
    /\ p.step \in Reading \ {"keys"} => p.identity = identity.key
    /\ p.step \in {"count"} \cup Saving => p.registrationId = registrationId /\ registrationId # 0
    /\ p.step \in Saving => unused[deviceId] = {} \/ ~Matched
    /\ p.step = "save" => \A i \in 1 .. p.next - 1 : Stored(keys[i], p.generation)
    /\ p.step = "upload" => \A i \in Slot : Stored(keys[i], p.generation)
    /\ p.step = "in sync" => Usable

ProvisionInv ==
    BundlesSound /\ StoreSound /\ MatchKept /\ \A t \in Tab : PageSound(tab[t])

\* g is p but for its step.
Same(g, p) ==
    /\ g.found = p.found /\ g.masterKey = p.masterKey /\ g.identity = p.identity
    /\ g.registrationId = p.registrationId /\ g.device = p.device
    /\ g.generation = p.generation /\ g.next = p.next

LEMMA GoToFields ==
    ASSUME TypeOK, NEW t \in Tab, NEW step, GoTo(t, step)
    PROVE  tab'[t].step = step /\ Same(tab'[t], tab[t])
  BY DEF TypeOK, GoTo, Page, Same

LEMMA OnePage ==
    ASSUME OneTab, NEW t \in Tab, PageSound(tab[t])', BundlesSound', StoreSound', MatchKept'
    PROVE  ProvisionInv'
  BY DEF OneTab, ProvisionInv

\* What is known of the store and the page t.
LEMMA Known ==
    ASSUME TypeOK, ProvisionInv, NEW t \in Tab
    PROVE  /\ BundlesSound /\ StoreSound /\ MatchKept /\ PageSound(tab[t])
           /\ tab[t] \in Page /\ tab[t].found \in Envelope /\ tab[t].masterKey \in Nat
           /\ tab[t].identity \in Nat /\ tab[t].registrationId \in Nat
           /\ tab[t].device \in 0 .. MaxDevices /\ tab[t].generation \in Nat /\ tab[t].next \in Slot
           /\ identity \in Envelope /\ fresh \in Nat /\ registrationId \in Nat /\ masterKey \in Nat
           /\ deviceId \in 0 .. MaxDevices /\ devices \in 0 .. MaxDevices /\ MaxDevices \in Nat
           /\ bundle \in [1 .. MaxDevices -> Bundle]
           /\ unused \in [1 .. MaxDevices -> SUBSET PreKeyId]
  BY ProvisioningAssumption DEF TypeOK, ProvisionInv, Page

\* The server and the store stay as they are.
LEMMA Untouched ==
    ASSUME TypeOK, ProvisionInv, UNCHANGED <<storeVars, serverVars>>,
           fresh' \in Nat, fresh' >= fresh
    PROVE  /\ BundlesSound' /\ StoreSound' /\ MatchKept'
           /\ Matched' = Matched /\ Usable' = Usable
<1>1. /\ BundlesSound /\ StoreSound /\ MatchKept /\ fresh \in Nat /\ registrationId \in Nat
      /\ bundle \in [1 .. MaxDevices -> Bundle]
  BY DEF ProvisionInv, TypeOK
<1>2. /\ deviceId' = deviceId /\ masterKey' = masterKey /\ identity' = identity
      /\ registrationId' = registrationId /\ keys' = keys /\ devices' = devices
      /\ cookie' = cookie /\ bundle' = bundle /\ unused' = unused
  BY DEF storeVars, serverVars
<1>3. BundlesSound'
  BY <1>1, <1>2 DEF BundlesSound, Bundle
<1>4. StoreSound'
  BY <1>1, <1>2 DEF StoreSound
<1>5. Matched' = Matched /\ Usable' = Usable /\ MatchKept'
  BY <1>1, <1>2 DEF Matched, Usable, MatchKept, KeysKept, Stored
<1> QED
  BY <1>3, <1>4, <1>5

LEMMA OpenSound ==
    ASSUME TypeOK, ProvisionInv, OneTab, ~Relinking, NEW t \in Tab,
           Open(t) \/ OpenToLink(t) \/ Close(t) \/ Crash(t)
    PROVE  ProvisionInv'
<1>1. UNCHANGED <<storeVars, serverVars>> /\ fresh' = fresh /\ fresh \in Nat /\ fresh >= 2
  BY Known DEF Open, OpenToLink, Close, Crash, StoreSound
<1>2. BundlesSound' /\ StoreSound' /\ MatchKept'
  BY <1>1, Untouched
<1>3. CASE Open(t) \/ Close(t) \/ Crash(t)
  <2>1. \E step \in {"identity", "closed"} : Turns(t, NewPage(step))
    BY <1>3 DEF Open, Close, Crash, Turns
  <2>2. /\ tab'[t].step \in {"identity", "closed"} /\ tab'[t].found = NoEnvelope
        /\ tab'[t].next = 1
    BY <2>1 DEF Turns, TypeOK, NewPage
  <2>3. PageSound(tab[t])'
    BY <2>2 DEF PageSound, Finding, Working, Reading, Saving
  <2> QED BY <1>2, <2>3, OnePage
<1>4. CASE OpenToLink(t)
  <2>1. PICK g : /\ g = [NewPage("master") EXCEPT !.identity = 1, !.registrationId = 2]
                 /\ Turns(t, g)
    BY <1>4 DEF OpenToLink, Turns, LinkedIdentity, LinkedRegistrationId
  <2>2. /\ g.step = "master" /\ g.found = NoEnvelope /\ g.next = 1
        /\ g.identity = 1 /\ g.registrationId = 2
    BY <2>1 DEF NewPage
  <2>3. tab'[t] = g
    BY <2>1 DEF Turns, TypeOK
  <2>4. identity' = NoEnvelope /\ bundle'[deviceId'] = NoBundle /\ 2 \in 1 .. fresh'
    BY <1>1, <1>4 DEF OpenToLink, storeVars, serverVars
  <2>5. Newborn(tab[t])'
    BY <2>2, <2>3, <2>4 DEF Newborn
  <2>6. PageSound(tab[t])'
    BY <2>2, <2>3, <2>4, <2>5 DEF PageSound, Finding, Working, Reading, Saving
  <2> QED BY <1>2, <2>6, OnePage
<1> QED
  BY <1>3, <1>4

LEMMA ReadIdentitySound ==
    ASSUME TypeOK, ProvisionInv, OneTab, NEW t \in Tab, ReadIdentity(t) PROVE ProvisionInv'
<1>1. UNCHANGED <<storeVars, serverVars>> /\ fresh' \in {fresh, fresh + 2} /\ fresh \in Nat
  BY Known DEF ReadIdentity
<1>2. BundlesSound' /\ StoreSound' /\ MatchKept'
  BY <1>1, Untouched
<1>3. /\ tab'[t].step = "master" /\ tab'[t].next = tab[t].next
      /\ \/ tab'[t].found = identity /\ identity # NoEnvelope
         \/ /\ identity = NoEnvelope /\ fresh' = fresh + 2 /\ tab'[t].found = tab[t].found
            /\ tab'[t].identity = fresh + 1 /\ tab'[t].registrationId = fresh + 2
  BY DEF ReadIdentity, TypeOK, Page
<1>4. identity' = identity /\ deviceId' = deviceId /\ bundle' = bundle
  BY <1>1 DEF storeVars, serverVars
<1>5. tab'[t].found = identity' /\ tab'[t].next = 1
  BY <1>3, <1>4, Known DEF PageSound, ReadIdentity, At
<1>6. ASSUME identity = NoEnvelope PROVE Newborn(tab[t])'
  <2>1. tab'[t].identity # 0 /\ tab'[t].registrationId \in 1 .. fresh'
    BY <1>1, <1>3, <1>6
  <2>2. ASSUME deviceId # 0, bundle[deviceId] # NoBundle
        PROVE  bundle[deviceId].registrationId # tab'[t].registrationId
    <3>1. bundle[deviceId].registrationId \in 1 .. fresh
      BY <2>2, Known DEF BundlesSound
    <3> QED BY <1>1, <1>3, <1>6, <3>1
  <2> QED BY <1>4, <2>1, <2>2 DEF Newborn
<1>7. PageSound(tab[t])'
  BY <1>3, <1>4, <1>5, <1>6 DEF PageSound, Finding, Working, Reading, Saving
<1> QED
  BY <1>2, <1>7, OnePage

LEMMA MasterKeySound ==
    ASSUME TypeOK, ProvisionInv, OneTab, NEW t \in Tab, LoadMasterKey(t) PROVE ProvisionInv'
<1>1. UNCHANGED <<storeVars, serverVars>> /\ fresh' \in {fresh, fresh + 1} /\ fresh \in Nat
  BY Known DEF LoadMasterKey
<1>2. BundlesSound' /\ StoreSound' /\ MatchKept'
  BY <1>1, Untouched
<1>3. /\ tab'[t].found = tab[t].found /\ tab'[t].identity = tab[t].identity
      /\ tab'[t].registrationId = tab[t].registrationId /\ tab'[t].next = tab[t].next
      /\ \/ tab'[t].step = "initialize" /\ tab'[t].masterKey = masterKey /\ masterKey # 0
         \/ tab'[t].step = "putMaster" /\ tab'[t].masterKey = fresh + 1 /\ masterKey = 0
  BY DEF LoadMasterKey, TypeOK, Page
<1>4. /\ identity' = identity /\ deviceId' = deviceId /\ bundle' = bundle /\ masterKey' = masterKey
  BY <1>1 DEF storeVars, serverVars
<1>5. tab[t].found = identity /\ (identity = NoEnvelope => Newborn(tab[t])) /\ tab[t].next = 1
  BY Known DEF PageSound, Finding, LoadMasterKey, At
<1>6. identity = NoEnvelope => Newborn(tab[t])'
  BY <1>1, <1>3, <1>4, <1>5 DEF Newborn
<1>7. fresh + 1 # 0
  BY <1>1
<1>8. PageSound(tab[t])'
  BY <1>3, <1>4, <1>5, <1>6, <1>7 DEF PageSound, Finding, Working, Reading, Saving
<1> QED
  BY <1>2, <1>8, OnePage

\* Nothing was encrypted yet under a master key that is made now.
LEMMA PutMasterKeySound ==
    ASSUME TypeOK, ProvisionInv, OneTab, NEW t \in Tab, PutMasterKey(t) PROVE ProvisionInv'
<1>1. /\ tab'[t].step = "initialize" /\ Same(tab'[t], tab[t])
  BY GoToFields DEF PutMasterKey
<1>2. /\ tab[t].found = identity /\ (tab[t].found = NoEnvelope => Newborn(tab[t]))
      /\ masterKey = 0 /\ tab[t].masterKey # 0 /\ tab[t].next = 1
  BY Known DEF PageSound, Finding, PutMasterKey, At
<1>3. identity = NoEnvelope
  BY <1>2, Known DEF StoreSound
<1>4. /\ masterKey' = tab[t].masterKey /\ deviceId' = deviceId /\ identity' = identity
      /\ registrationId' = registrationId /\ keys' = keys /\ fresh' = fresh
      /\ devices' = devices /\ cookie' = cookie /\ bundle' = bundle /\ unused' = unused
  BY DEF PutMasterKey, serverVars
<1>5. ~Matched
  <2>1. ASSUME Matched PROVE bundle[deviceId].identity = 0
    BY <1>3, <2>1, Known DEF MatchKept, Stored, NoEnvelope
  <2> QED BY <2>1, Known DEF Matched, BundlesSound
<1>6. BundlesSound' /\ StoreSound' /\ MatchKept'
  BY <1>3, <1>4, <1>5, Known DEF BundlesSound, StoreSound, MatchKept, Matched
<1>7. Newborn(tab[t])'
  BY <1>1, <1>2, <1>3, <1>4 DEF Newborn, Same
<1>8. PageSound(tab[t])'
  BY <1>1, <1>2, <1>4, <1>7 DEF PageSound, Finding, Working, Reading, Saving, Same
<1> QED
  BY <1>6, <1>8, OnePage

LEMMA UseIdentitySound ==
    ASSUME TypeOK, ProvisionInv, OneTab, NEW t \in Tab, UseIdentity(t) PROVE ProvisionInv'
<1>1. UNCHANGED <<storeVars, serverVars>> /\ fresh' = fresh /\ fresh \in Nat
  BY Known DEF UseIdentity
<1>2. BundlesSound' /\ StoreSound' /\ MatchKept'
  BY <1>1, Untouched
<1>3. tab'[t].step \in {"device", "stuck"} /\ Same(tab'[t], tab[t])
  BY GoToFields DEF UseIdentity
<1>4. /\ tab[t].masterKey = masterKey /\ masterKey # 0 /\ identity # NoEnvelope
      /\ tab[t].next = 1
  BY Known DEF PageSound, Finding, UseIdentity, At
<1>5. identity' = identity /\ masterKey' = masterKey
  BY <1>1 DEF storeVars
<1>6. PageSound(tab[t])'
  BY <1>3, <1>4, <1>5 DEF PageSound, Finding, Working, Reading, Saving, Same
<1> QED
  BY <1>2, <1>6, OnePage

\* Until the registration id is there too, the server's bundle is of another one.
LEMMA PutIdentitySound ==
    ASSUME TypeOK, ProvisionInv, OneTab, NEW t \in Tab, PutIdentity(t) PROVE ProvisionInv'
<1>1. tab'[t].step = "register" /\ Same(tab'[t], tab[t])
  BY GoToFields DEF PutIdentity
<1>2. /\ tab[t].found = identity /\ identity = NoEnvelope /\ Newborn(tab[t])
      /\ tab[t].masterKey = masterKey /\ masterKey # 0 /\ tab[t].next = 1
  BY Known DEF PageSound, Finding, PutIdentity, At
<1>3. /\ identity' = [under |-> masterKey, key |-> tab[t].identity]
      /\ deviceId' = deviceId /\ masterKey' = masterKey
      /\ registrationId' = registrationId /\ keys' = keys /\ fresh' = fresh
      /\ devices' = devices /\ cookie' = cookie /\ bundle' = bundle /\ unused' = unused
  BY <1>2 DEF PutIdentity, serverVars
<1>4. ~Matched
  <2>1. ASSUME Matched PROVE bundle[deviceId].identity = 0
    BY <1>2, <2>1, Known DEF MatchKept, Stored, NoEnvelope
  <2> QED BY <2>1, Known DEF Matched, BundlesSound
<1>5. ~Matched'
  BY <1>3, <1>4 DEF Matched
<1>6. identity'.under = masterKey /\ identity'.key # 0 /\ identity' # NoEnvelope
  BY <1>2, <1>3 DEF Newborn, NoEnvelope
<1>7. BundlesSound' /\ StoreSound' /\ MatchKept'
  BY <1>2, <1>3, <1>5, <1>6, Known DEF BundlesSound, StoreSound, MatchKept
<1>8. Newborn(tab[t])'
  BY <1>1, <1>2, <1>3 DEF Newborn, Same
<1>9. PageSound(tab[t])'
  BY <1>1, <1>2, <1>3, <1>5, <1>6, <1>8 DEF PageSound, Finding, Working, Reading, Saving, Same
<1> QED
  BY <1>7, <1>9, OnePage

LEMMA PutRegistrationIdSound ==
    ASSUME TypeOK, ProvisionInv, OneTab, NEW t \in Tab, PutRegistrationId(t) PROVE ProvisionInv'
<1>1. tab'[t].step \in {"device", "failed"} /\ Same(tab'[t], tab[t])
  BY GoToFields DEF PutRegistrationId
<1>2. /\ Newborn(tab[t]) /\ tab[t].masterKey = masterKey /\ masterKey # 0 /\ identity # NoEnvelope
      /\ tab[t].next = 1
  BY Known DEF PageSound, Working, Saving, PutRegistrationId, At
<1>3. /\ registrationId' = tab[t].registrationId
      /\ identity' = identity /\ deviceId' = deviceId /\ masterKey' = masterKey
      /\ keys' = keys /\ fresh' = fresh
      /\ devices' = devices /\ cookie' = cookie /\ bundle' = bundle /\ unused' = unused
  BY DEF PutRegistrationId, serverVars
<1>4. ~Matched' /\ registrationId' <= fresh
  BY <1>2, <1>3 DEF Matched, Newborn
<1>5. BundlesSound' /\ StoreSound' /\ MatchKept'
  BY <1>3, <1>4, Known DEF BundlesSound, StoreSound, MatchKept
<1>6. PageSound(tab[t])'
  BY <1>1, <1>2, <1>3 DEF PageSound, Finding, Working, Reading, Saving, Same
<1> QED
  BY <1>5, <1>6, OnePage

\* A device id the server has just given out has no bundle.
LEMMA GetDeviceIdSound ==
    ASSUME TypeOK, ProvisionInv, OneTab, NEW t \in Tab, GetDeviceId(t) PROVE ProvisionInv'
<1>1. /\ deviceId' = deviceId /\ masterKey' = masterKey /\ identity' = identity
      /\ registrationId' = registrationId /\ keys' = keys /\ fresh' = fresh
      /\ bundle' = bundle /\ unused' = unused
  BY DEF GetDeviceId, storeVars, serverVars
<1>2. \/ devices' = devices /\ cookie' = cookie
      \/ deviceId = 0 /\ devices < MaxDevices /\ devices' = devices + 1 /\ cookie' = devices + 1
  BY DEF GetDeviceId, serverVars
<1>3. /\ tab[t].masterKey = masterKey /\ masterKey # 0 /\ identity # NoEnvelope
      /\ tab[t].next = 1
  BY Known DEF PageSound, Working, Saving, GetDeviceId, At
<1>4. BundlesSound'
  <2>1. devices' >= devices
    BY <1>2, Known
  <2>2. \A d \in 1 .. MaxDevices : d <= devices => d <= devices'
    <3>1. devices \in Nat /\ devices' \in Nat /\ MaxDevices \in Nat
      BY <1>2, Known
    <3> QED BY ONLY <2>1, <3>1
  <2> QED BY <1>1, <2>2, Known DEF BundlesSound
<1>5. StoreSound' /\ MatchKept'
  BY <1>1, <1>2, Known DEF StoreSound, MatchKept, Matched, KeysKept, Stored
<1>6. CASE GoTo(t, "failed")
  <2>1. tab'[t].step = "failed"
    BY <1>6, GoToFields
  <2>2. PageSound(tab[t])'
    BY <2>1 DEF PageSound, Finding, Working, Reading, Saving
  <2> QED BY <1>4, <1>5, <2>2, OnePage
<1>7. CASE deviceId # 0 /\ tab' = [tab EXCEPT ![t].step = "keys", ![t].device = deviceId]
  <2>1. /\ tab'[t].step = "keys" /\ tab'[t].device = deviceId
        /\ tab'[t].masterKey = tab[t].masterKey /\ tab'[t].next = tab[t].next
    BY <1>7 DEF TypeOK, Page
  <2>2. PageSound(tab[t])'
    BY <1>1, <1>3, <1>7, <2>1 DEF PageSound, Finding, Working, Reading, Saving
  <2> QED BY <1>4, <1>5, <2>2, OnePage
<1>8. CASE /\ deviceId = 0 /\ devices < MaxDevices
           /\ devices' = devices + 1 /\ cookie' = devices + 1
           /\ tab' = [tab EXCEPT ![t].step = "setDevice", ![t].device = devices + 1]
  <2>1. /\ tab'[t].step = "setDevice" /\ tab'[t].device = devices + 1
        /\ tab'[t].masterKey = tab[t].masterKey /\ tab'[t].next = tab[t].next
    BY <1>8 DEF TypeOK, Page
  <2>2. devices + 1 \in 1 .. MaxDevices /\ devices + 1 # 0 /\ ~(devices + 1 <= devices)
    BY <1>8, Known
  <2>3. bundle[devices + 1] = NoBundle
    BY <2>2, Known DEF BundlesSound
  <2>4. devices + 1 <= devices'
    BY <1>8, <2>2
  <2>5. PageSound(tab[t])'
    BY <1>1, <1>3, <1>8, <2>1, <2>2, <2>3, <2>4 DEF PageSound, Finding, Working, Reading, Saving
  <2> QED BY <1>4, <1>5, <2>5, OnePage
<1> QED
  BY <1>6, <1>7, <1>8 DEF GetDeviceId

LEMMA SetDeviceIdSound ==
    ASSUME TypeOK, ProvisionInv, OneTab, NEW t \in Tab, SetDeviceId(t) PROVE ProvisionInv'
<1>1. tab'[t].step = "keys" /\ Same(tab'[t], tab[t])
  BY GoToFields DEF SetDeviceId
<1>2. /\ tab[t].masterKey = masterKey /\ masterKey # 0 /\ identity # NoEnvelope
      /\ tab[t].device # 0 /\ tab[t].device = cookie /\ tab[t].device <= devices /\ bundle[tab[t].device] = NoBundle
      /\ tab[t].next = 1
  BY Known DEF PageSound, Working, Saving, SetDeviceId, At
<1>3. /\ deviceId' = tab[t].device
      /\ identity' = identity /\ masterKey' = masterKey /\ registrationId' = registrationId
      /\ keys' = keys /\ fresh' = fresh
      /\ devices' = devices /\ cookie' = cookie /\ bundle' = bundle /\ unused' = unused
  BY DEF SetDeviceId, serverVars
<1>4. ~Matched'
  BY <1>2, <1>3 DEF Matched
<1>5. BundlesSound' /\ StoreSound' /\ MatchKept'
  BY <1>2, <1>3, <1>4, Known DEF BundlesSound, StoreSound, MatchKept
<1>6. PageSound(tab[t])'
  BY <1>1, <1>2, <1>3 DEF PageSound, Finding, Working, Reading, Saving, Same
<1> QED
  BY <1>5, <1>6, OnePage

LEMMA ReadOwnSound ==
    ASSUME TypeOK, ProvisionInv, OneTab, NEW t \in Tab,
           ReadOwnIdentity(t) \/ ReadRegistrationId(t)
    PROVE  ProvisionInv'
<1>1. UNCHANGED <<storeVars, serverVars>> /\ fresh' = fresh /\ fresh \in Nat
  BY Known DEF ReadOwnIdentity, ReadRegistrationId
<1>2. BundlesSound' /\ StoreSound' /\ MatchKept'
  BY <1>1, Untouched
<1>3. /\ deviceId' = deviceId /\ masterKey' = masterKey /\ identity' = identity
      /\ registrationId' = registrationId
  BY <1>1 DEF storeVars
<1>4. /\ tab[t].masterKey = masterKey /\ masterKey # 0 /\ identity # NoEnvelope
      /\ tab[t].device = deviceId /\ deviceId # 0
      /\ tab[t].step # "keys" => tab[t].identity = identity.key
      /\ tab[t].next = 1
  BY Known DEF PageSound, Working, Reading, Saving, ReadOwnIdentity, ReadRegistrationId, At
<1>5. CASE GoTo(t, "failed") \/ GoTo(t, "skipped")
  <2>1. tab'[t].step \in {"failed", "skipped"}
    BY <1>5, GoToFields
  <2>2. PageSound(tab[t])'
    BY <2>1 DEF PageSound, Finding, Working, Reading, Saving
  <2> QED BY <1>2, <2>2, OnePage
<1>6. CASE tab' = [tab EXCEPT ![t].step = "registration", ![t].identity = identity.key]
  <2>1. /\ tab'[t].step = "registration" /\ tab'[t].identity = identity.key
        /\ tab'[t].device = tab[t].device /\ tab'[t].masterKey = tab[t].masterKey
        /\ tab'[t].next = tab[t].next
    BY <1>6 DEF TypeOK, Page
  <2>2. PageSound(tab[t])'
    BY <1>3, <1>4, <2>1 DEF PageSound, Finding, Working, Reading, Saving
  <2> QED BY <1>2, <2>2, OnePage
<1>7. CASE /\ tab[t].step = "registration" /\ registrationId # 0
           /\ tab' = [tab EXCEPT ![t].step = "count", ![t].registrationId = registrationId]
  <2>1. /\ tab'[t].step = "count" /\ tab'[t].registrationId = registrationId
        /\ tab'[t].device = tab[t].device /\ tab'[t].masterKey = tab[t].masterKey
        /\ tab'[t].identity = tab[t].identity /\ tab'[t].next = tab[t].next
    BY <1>7 DEF TypeOK, Page
  <2>2. PageSound(tab[t])'
    BY <1>3, <1>4, <1>7, <2>1 DEF PageSound, Finding, Working, Reading, Saving
  <2> QED BY <1>2, <2>2, OnePage
<1> QED
  BY <1>5, <1>6, <1>7 DEF ReadOwnIdentity, ReadRegistrationId, At

\* A page that takes the server for in sync is right; one that does not overwrites keys
\* the server no longer hands out one-time prekeys of, or that are not this identity's.
LEMMA CountSound ==
    ASSUME TypeOK, ProvisionInv, OneTab, NEW t \in Tab, GetPreKeyCount(t) PROVE ProvisionInv'
<1>1. UNCHANGED <<storeVars, serverVars>> /\ fresh' \in {fresh, fresh + 1} /\ fresh \in Nat
  BY Known DEF GetPreKeyCount
<1>2. BundlesSound' /\ StoreSound' /\ MatchKept' /\ Matched' = Matched /\ Usable' = Usable
  BY <1>1, Untouched
<1>3. /\ deviceId' = deviceId /\ masterKey' = masterKey /\ identity' = identity /\ keys' = keys
      /\ registrationId' = registrationId /\ bundle' = bundle /\ unused' = unused
  BY <1>1 DEF storeVars, serverVars
<1>4. /\ tab[t].masterKey = masterKey /\ masterKey # 0 /\ identity # NoEnvelope
      /\ tab[t].device = deviceId /\ deviceId # 0 /\ tab[t].identity = identity.key
      /\ tab[t].registrationId = registrationId /\ registrationId # 0 /\ tab[t].next = 1
  BY Known DEF PageSound, Working, Reading, Saving, GetPreKeyCount, At
<1>5. cookie = deviceId /\ deviceId \in 1 .. MaxDevices
  BY <1>4, Known DEF StoreSound
<1>6. CASE GoTo(t, "failed")
  <2>1. tab'[t].step = "failed"
    BY <1>6, GoToFields
  <2>2. PageSound(tab[t])'
    BY <2>1 DEF PageSound, Finding, Working, Reading, Saving
  <2> QED BY <1>2, <2>2, OnePage
<1>7. CASE InSync(t) /\ GoTo(t, "in sync")
  <2>1. tab'[t].step = "in sync"
    BY <1>7, GoToFields
  <2>2. unused[deviceId] # {} /\ bundle[deviceId].registrationId = registrationId
    BY <1>4, <1>5, <1>7 DEF InSync
  <2>3. bundle[deviceId] # NoBundle
    BY <1>5, <2>2, Known DEF BundlesSound
  <2>4. Usable
    BY <1>4, <2>2, <2>3, Known DEF Usable, MatchKept, Matched, KeysKept
  <2>5. PageSound(tab[t])'
    BY <1>2, <2>1, <2>4 DEF PageSound, Finding, Working, Reading, Saving
  <2> QED BY <1>2, <2>5, OnePage
<1>8. CASE ~InSync(t) /\ tab' = [tab EXCEPT ![t].step = "save", ![t].generation = fresh + 1]
  <2>1. /\ tab'[t].step = "save" /\ tab'[t].registrationId = tab[t].registrationId
        /\ tab'[t].device = tab[t].device /\ tab'[t].masterKey = tab[t].masterKey
        /\ tab'[t].identity = tab[t].identity /\ tab'[t].next = tab[t].next
    BY <1>8 DEF TypeOK, Page
  <2>2. unused[deviceId] = {} \/ ~Matched
    BY <1>4, <1>5, <1>8 DEF InSync, Matched
  <2>3. \A i \in 1 .. tab'[t].next - 1 : FALSE
    BY <1>4, <2>1
  <2>4. PageSound(tab[t])'
    BY <1>2, <1>3, <1>4, <2>1, <2>2, <2>3 DEF PageSound, Finding, Working, Reading, Saving
  <2> QED BY <1>2, <2>4, OnePage
<1> QED
  BY <1>6, <1>7, <1>8 DEF GetPreKeyCount

LEMMA SaveKeySound ==
    ASSUME TypeOK, ProvisionInv, OneTab, NEW t \in Tab, SaveKey(t) PROVE ProvisionInv'
<1> DEFINE n == tab[t].next  e == [under |-> tab[t].masterKey, key |-> tab[t].generation]
<1>1. /\ keys' = [keys EXCEPT ![n] = e]
      /\ deviceId' = deviceId /\ masterKey' = masterKey /\ identity' = identity
      /\ registrationId' = registrationId /\ fresh' = fresh
      /\ devices' = devices /\ cookie' = cookie /\ bundle' = bundle /\ unused' = unused
  BY DEF SaveKey, serverVars
<1>2. /\ tab[t].masterKey = masterKey /\ masterKey # 0 /\ identity # NoEnvelope
      /\ tab[t].device = deviceId /\ deviceId # 0 /\ tab[t].identity = identity.key
      /\ tab[t].registrationId = registrationId /\ registrationId # 0
      /\ unused[deviceId] = {} \/ ~Matched
      /\ \A i \in 1 .. n - 1 : Stored(keys[i], tab[t].generation)
  BY Known DEF PageSound, Working, Reading, Saving, SaveKey, At
<1>3. Matched' = Matched
  BY <1>1 DEF Matched
<1>4. BundlesSound' /\ StoreSound' /\ MatchKept'
  BY <1>1, <1>2, <1>3, Known DEF BundlesSound, StoreSound, MatchKept, KeysKept, Stored
<1>5. keys \in [Slot -> Envelope] /\ n \in Slot /\ NumPreKeys \in Nat
  BY Known, ProvisioningAssumption DEF TypeOK
<1>6. ASSUME NEW i \in 1 .. n
      PROVE  keys'[i] = [under |-> masterKey, key |-> tab[t].generation]
  <2>1. CASE i = n
    BY <1>1, <1>2, <1>5, <2>1
  <2>2. CASE i # n
    <3>1. i \in 1 .. n - 1 /\ i \in Slot
      BY <1>5, <2>2 DEF Slot
    <3> QED BY <1>1, <1>2, <1>5, <2>2, <3>1 DEF Stored
  <2> QED BY <2>1, <2>2
<1>7. /\ tab'[t].masterKey = tab[t].masterKey /\ tab'[t].device = tab[t].device
      /\ tab'[t].identity = tab[t].identity /\ tab'[t].registrationId = tab[t].registrationId
      /\ tab'[t].generation = tab[t].generation
      /\ \/ n = NumPreKeys + 2 /\ tab'[t].step = "upload"
         \/ tab'[t].step = "save" /\ tab'[t].next = n + 1
  <2>1. CASE n = NumPreKeys + 2
    <3>1. GoTo(t, "upload")
      BY <2>1 DEF SaveKey
    <3> QED BY <2>1, <3>1, GoToFields DEF Same
  <2>2. CASE n # NumPreKeys + 2
    <3>1. tab[t].step = "save" /\ tab' = [tab EXCEPT ![t].next = @ + 1]
      BY <2>2 DEF SaveKey, At
    <3> QED BY <3>1 DEF TypeOK, Page
  <2> QED BY <2>1, <2>2
<1>8. /\ tab'[t].step = "upload" =>
            \A i \in Slot : keys'[i] = [under |-> masterKey', key |-> tab'[t].generation]
      /\ tab'[t].step = "save" =>
            \A i \in 1 .. tab'[t].next - 1 :
               keys'[i] = [under |-> masterKey', key |-> tab'[t].generation]
  <2>1. n = NumPreKeys + 2 => Slot = 1 .. n
    BY DEF Slot
  <2>2. n \in Int
    BY <1>5 DEF Slot
  <2>3. CASE n = NumPreKeys + 2 /\ tab'[t].step = "upload"
    BY <1>1, <1>6, <1>7, <2>1, <2>3
  <2>4. CASE tab'[t].step = "save" /\ tab'[t].next = n + 1
    <3>1. tab'[t].next - 1 = n
      BY <2>2, <2>4
    <3> QED BY <1>1, <1>6, <1>7, <2>4, <3>1
  <2> QED BY <1>7, <2>3, <2>4
<1>9. PageSound(tab[t])'
  BY <1>1, <1>2, <1>3, <1>7, <1>8 DEF PageSound, Stored, Finding, Working, Reading, Saving
<1> QED
  BY <1>4, <1>9, OnePage

\* The server takes a bundle whose private keys were all saved before it was sent.
LEMMA UploadSound ==
    ASSUME TypeOK, ProvisionInv, OneTab, NEW t \in Tab, UploadKeys(t) PROVE ProvisionInv'
<1> DEFINE b == [registrationId |-> tab[t].registrationId, identity |-> tab[t].identity,
                 generation |-> tab[t].generation]
<1>1. /\ deviceId' = deviceId /\ masterKey' = masterKey /\ identity' = identity /\ keys' = keys
      /\ registrationId' = registrationId /\ fresh' = fresh
      /\ devices' = devices /\ cookie' = cookie
  BY DEF UploadKeys, ServerTakes, storeVars, serverVars
<1>2. /\ tab[t].masterKey = masterKey /\ masterKey # 0 /\ identity # NoEnvelope
      /\ tab[t].device = deviceId /\ deviceId # 0 /\ tab[t].identity = identity.key
      /\ tab[t].registrationId = registrationId /\ registrationId # 0
      /\ \A i \in Slot : Stored(keys[i], tab[t].generation)
  BY Known DEF PageSound, Working, Reading, Saving, UploadKeys, At
<1>3. /\ deviceId \in 1 .. MaxDevices /\ deviceId <= devices /\ identity.key # 0
      /\ registrationId \in 1 .. fresh /\ identity.under = masterKey
      /\ identity = [under |-> identity.under, key |-> identity.key]
  BY <1>2, Known DEF StoreSound, Envelope
<1>4. tab'[t].step \in {"uploaded", "failed"}
  BY GoToFields DEF UploadKeys
<1>5. PageSound(tab[t])'
  BY <1>4 DEF PageSound, Finding, Working, Reading, Saving
<1>6. StoreSound'
  BY <1>1, Known DEF StoreSound
<1>7. CASE bundle' = bundle /\ unused' = unused
  <2>1. BundlesSound' /\ MatchKept'
    BY <1>1, <1>7, Known DEF BundlesSound, MatchKept, Matched, KeysKept, Stored
  <2> QED BY <1>5, <1>6, <2>1, OnePage
<1>8. CASE /\ bundle' = [bundle EXCEPT ![deviceId] = b]
           /\ unused' = [unused EXCEPT ![deviceId] = PreKeyId]
  <2>1. /\ b.registrationId = registrationId /\ b.identity = identity.key
        /\ b.generation = tab[t].generation
    BY <1>2
  <2> HIDE DEF b
  <2>2. b # NoBundle
    BY <1>2, <2>1 DEF NoBundle
  <2>3. \A d \in 1 .. MaxDevices : /\ bundle'[d] = IF d = deviceId THEN b ELSE bundle[d]
                                   /\ unused'[d] = IF d = deviceId THEN PreKeyId ELSE unused[d]
    BY <1>8, Known
  <2>4. BundlesSound'
    BY <1>1, <1>3, <2>1, <2>2, <2>3, Known DEF BundlesSound
  <2>5. PreKeyId \subseteq Slot
    BY ProvisioningAssumption DEF PreKeyId, Slot
  <2>6. MatchKept'
    BY <1>1, <1>2, <1>3, <2>1, <2>3, <2>5 DEF MatchKept, KeysKept, Stored
  <2> QED BY <1>5, <1>6, <2>4, <2>6, OnePage
<1> QED
  BY <1>2, <1>7, <1>8 DEF UploadKeys, ServerTakes, serverVars

LEMMA WipeSound ==
    ASSUME TypeOK, ProvisionInv, Wipe PROVE ProvisionInv'
<1>1. /\ deviceId' \in {0, deviceId} /\ masterKey' = 0 /\ identity' = NoEnvelope /\ registrationId' = 0
      /\ fresh' = fresh /\ tab' = tab
      /\ devices' = devices /\ cookie' = cookie /\ bundle' = bundle /\ unused' = unused
  BY DEF Wipe, serverVars
<1>2. /\ BundlesSound /\ StoreSound /\ fresh \in Nat /\ deviceId \in 0 .. MaxDevices
      /\ MaxDevices \in Nat
  BY ProvisioningAssumption DEF ProvisionInv, TypeOK
<1>3. BundlesSound' /\ StoreSound'
  BY <1>1, <1>2 DEF BundlesSound, StoreSound
<1>4. ~Matched'
  BY <1>1, <1>2 DEF Matched, BundlesSound
<1>5. \A t \in Tab : PageSound(tab[t])'
  BY <1>1 DEF Wipe, At, PageSound, Finding, Working, Reading, Saving
<1> QED
  BY <1>3, <1>4, <1>5 DEF ProvisionInv, MatchKept

LEMMA HandOutSound ==
    ASSUME TypeOK, ProvisionInv, NEW d \in 1 .. MaxDevices, HandOut(d) PROVE ProvisionInv'
<1>1. /\ deviceId' = deviceId /\ masterKey' = masterKey /\ identity' = identity /\ keys' = keys
      /\ registrationId' = registrationId /\ fresh' = fresh /\ tab' = tab
      /\ devices' = devices /\ cookie' = cookie /\ bundle' = bundle
  BY DEF HandOut, storeVars
<1>2. /\ BundlesSound /\ StoreSound /\ MatchKept /\ \A t \in Tab : PageSound(tab[t])
      /\ unused \in [1 .. MaxDevices -> SUBSET PreKeyId] /\ deviceId \in 0 .. MaxDevices
      /\ MaxDevices \in Nat
  BY ProvisioningAssumption DEF ProvisionInv, TypeOK
<1>3. \A e \in 1 .. MaxDevices : unused'[e] \subseteq unused[e]
  BY <1>2 DEF HandOut
<1>4. BundlesSound' /\ StoreSound'
  BY <1>1, <1>2, <1>3 DEF BundlesSound, StoreSound
<1>5. Matched' = Matched
  BY <1>1 DEF Matched
<1>6. deviceId # 0 => deviceId \in 1 .. MaxDevices /\ unused'[deviceId] \subseteq unused[deviceId]
  BY <1>2, <1>3
<1>7. MatchKept'
  BY <1>1, <1>2, <1>5, <1>6 DEF MatchKept, Matched, KeysKept, Stored
<1>8. Usable => Usable'
  BY <1>1, <1>6 DEF Usable, Stored
<1>9. ASSUME NEW t \in Tab PROVE PageSound(tab[t])'
  <2>1. PageSound(tab[t])
    BY <1>2
  <2>2. tab[t].step \in Saving => unused'[deviceId] = {} \/ ~Matched
    BY <1>6, <2>1 DEF PageSound, Saving, Reading
  <2>3. Newborn(tab[t])' = Newborn(tab[t])
    BY <1>1 DEF Newborn
  <2>4. tab'[t] = tab[t] /\ (tab[t].step = "in sync" => Usable)
    BY <1>1, <2>1 DEF PageSound
  <2> QED BY <1>1, <1>5, <1>8, <2>1, <2>2, <2>3, <2>4
          DEF PageSound, Stored, Finding, Working, Reading, Saving
<1> QED
  BY <1>4, <1>7, <1>9 DEF ProvisionInv

LEMMA ProvisionStep ==
    ASSUME OneTab, ~Relinking PROVE TypeOK /\ ProvisionInv /\ [Next]_vars => ProvisionInv'
<1> SUFFICES ASSUME TypeOK, ProvisionInv, [Next]_vars PROVE ProvisionInv'
  OBVIOUS
<1>1. ASSUME NEW t \in Tab, Open(t) \/ OpenToLink(t) \/ Close(t) \/ Crash(t) PROVE ProvisionInv'
  BY <1>1, OpenSound
<1>2. ASSUME NEW t \in Tab, TabStep(t) PROVE ProvisionInv'
  BY <1>2, ReadIdentitySound, MasterKeySound, PutMasterKeySound, UseIdentitySound, PutIdentitySound,
     PutRegistrationIdSound, GetDeviceIdSound, SetDeviceIdSound, ReadOwnSound, CountSound,
     SaveKeySound, UploadSound DEF TabStep
<1>3. CASE UNCHANGED vars
  <2>1. /\ BundlesSound /\ StoreSound /\ MatchKept /\ \A t \in Tab : PageSound(tab[t])
    BY DEF ProvisionInv
  <2>2. /\ deviceId' = deviceId /\ masterKey' = masterKey /\ identity' = identity /\ keys' = keys
        /\ registrationId' = registrationId /\ fresh' = fresh /\ tab' = tab
        /\ devices' = devices /\ cookie' = cookie /\ bundle' = bundle /\ unused' = unused
    BY <1>3 DEF vars, storeVars, serverVars
  <2>3. BundlesSound' /\ StoreSound' /\ Matched' = Matched
    BY <2>1, <2>2 DEF BundlesSound, StoreSound, Matched
  <2>4. MatchKept' /\ Usable' = Usable
    BY <2>1, <2>2, <2>3 DEF MatchKept, KeysKept, Usable, Stored
  <2>5. ASSUME NEW t \in Tab PROVE PageSound(tab[t])'
    <3>1. PageSound(tab[t])
      BY <2>1
    <3>2. Newborn(tab[t])' = Newborn(tab[t])
      BY <2>2 DEF Newborn
    <3>3. tab'[t] = tab[t] /\ (tab[t].step = "in sync" => Usable)
      BY <2>2, <3>1 DEF PageSound
    <3> QED BY <2>2, <2>3, <2>4, <3>1, <3>2, <3>3
            DEF PageSound, Stored, Finding, Working, Reading, Saving
  <2> QED BY <2>3, <2>4, <2>5 DEF ProvisionInv
<1> QED
  BY <1>1, <1>2, <1>3, WipeSound, HandOutSound DEF Next

LEMMA ProvisionInit == Init => ProvisionInv
<1> SUFFICES ASSUME Init PROVE ProvisionInv
  OBVIOUS
<1>1. BundlesSound /\ StoreSound
  BY DEF Init, BundlesSound, StoreSound
<1>2. ~Matched
  BY ProvisioningAssumption DEF Init, Matched
<1>3. \A t \in Tab : PageSound(tab[t])
  BY DEF Init, NewPage, PageSound, Finding, Working, Reading, Saving
<1> QED
  BY <1>1, <1>2, <1>3 DEF ProvisionInv, MatchKept

\* What is in the store and what the server has belong together as far as the server's
\* registration id says so, at every await: the inductive invariant.
THEOREM ProvisioningSound == ASSUME OneTab, ~Relinking PROVE Spec => []ProvisionInv
  BY InitType, TypeStep, ProvisionInit, ProvisionStep, PTL DEF Spec

\* "Server is perfectly in sync with this device" (initWasm.js): a page that concludes
\* so from a count and a registration id is right, whatever bundle, refused or lost
\* request, closed page or cleared store came before.
THEOREM InSyncAlways == ASSUME OneTab, ~Relinking PROVE Spec => []InSyncMeansUsable
<1>1. ProvisionInv => InSyncMeansUsable
  BY DEF ProvisionInv, PageSound, InSyncMeansUsable, At
<1> QED
  BY <1>1, ProvisioningSound, PTL

=============================================================================
