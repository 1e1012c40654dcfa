------------------------------- MODULE Stores -------------------------------
(***************************************************************************)
(* The protocol store: what the traits of storage/traits.rs promise, as    *)
(* the in-memory stores of storage/inmem.rs keep it, and as the store of   *)
(* the browser does, the BridgeStore of the bridge over the object stores  *)
(* of SignalStoreAdapter.js.                                               *)
(*                                                                         *)
(* The two get the same calls.  The one in memory is keyed by what the     *)
(* calls name; the one in the browser by strings it puts together, and a   *)
(* string is here the sequence of its characters, with a letter for a      *)
(* UUID or a base key in hexadecimal.  A record is stored under its value; *)
(* WireFormats has what becomes of its bytes.                              *)
(***************************************************************************)
EXTENDS Integers, Sequences

CONSTANTS
  Letters,            \* what strings have besides digits and separators
  UserNames,          \* the names in addresses
  DeviceNumbers,      \* the devices in addresses
  DistributionIds,    \* the distributions of sender keys
  Ids,                \* the ids of prekeys
  Values,             \* the records and keys that are stored
  BaseKeys,           \* the base keys of handshakes
  Numeral,            \* how a number is written
  MaxStoreOps         \* how many calls change the stores; a bound

Nothing == "nothing"

(* A numeral has digits, and neither of the two separators.                *)
Digits == {"0", "1", "2", "3", "4", "5", "6", "7", "8", "9"}
Characters == Letters \cup Digits \cup {".", ":"}

ASSUME StoreAssumption ==
  /\ UserNames \subseteq Seq(Characters) /\ DistributionIds \cup BaseKeys \subseteq Letters
  /\ Numeral \in [DeviceNumbers \cup Ids -> Seq(Digits)]
  /\ \A n, m \in DOMAIN Numeral : Numeral[n] = Numeral[m] => n = m
  /\ Nothing \notin Values /\ MaxStoreOps \in Nat

Addresses == [name : UserNames, device : DeviceNumbers]

VARIABLES
  memory,     \* the store in memory: tables of what the calls name
  browser,    \* the object stores: tables of strings
  storeOps    \* how many calls there were; a bound only

storeVars == <<memory, browser, storeOps>>

Get(table, key) == IF key \in DOMAIN table THEN table[key] ELSE Nothing
Put(table, key, value) ==
  [k \in DOMAIN table \cup {key} |-> IF k = key THEN value ELSE table[k]]
Without(table, key) == [k \in DOMAIN table \ {key} |-> table[k]]

-----------------------------------------------------------------------------
(* The keys of the browser *)

(* mutant: the device is left out. *)
NameAsKey(address) == address.name

AddrToString(address) == address.name \o <<".">> \o Numeral[address.device]
SenderKeyName(sender, distribution) == AddrToString(sender) \o <<":", distribution>>
ComboKey(kyber, ec, base) == Numeral[kyber] \o <<":">> \o Numeral[ec] \o <<":", base>>
OwnKey == <<"own_identity_key">>

-----------------------------------------------------------------------------
(* Sessions *)

LoadInMemory(address) == Get(memory.sessions, address)
LoadInBrowser(address) == Get(browser.sessions, AddrToString(address))

(* InMemSessionStore::load_existing_sessions, for a message to many: one   *)
(* address without a session and there is no answer.                       *)
NoAnswer == <<>>
LoadExisting(addresses) ==
  IF \E i \in DOMAIN addresses : LoadInMemory(addresses[i]) = Nothing THEN NoAnswer
  ELSE [i \in DOMAIN addresses |-> LoadInMemory(addresses[i])]

Counted == storeOps < MaxStoreOps /\ storeOps' = storeOps + 1

StoreSession(address, v) ==
  /\ Counted
  /\ memory' = [memory EXCEPT !.sessions = Put(@, address, v)]
  /\ browser' = [browser EXCEPT !.sessions = Put(@, AddrToString(address), v)]

-----------------------------------------------------------------------------
(* Identities *)

ChangeOf(existing, identity) ==
  IF existing # Nothing /\ existing # identity THEN "ReplacedExisting" ELSE "NewOrUnchanged"

SaveIdentityInMemory(address, identity) == ChangeOf(Get(memory.identities, address), identity)
SaveIdentityInBrowser(address, identity) ==
  ChangeOf(Get(browser.identities, AddrToString(address)), identity)

SaveIdentity(address, identity) ==
  /\ Counted
  /\ memory' = [memory EXCEPT !.identities =
       IF Get(@, address) = identity THEN @ ELSE Put(@, address, identity)]
  /\ browser' = [browser EXCEPT !.identities = Put(@, AddrToString(address), identity)]

TrustedInMemory(address, identity, direction) ==
  Get(memory.identities, address) \in {Nothing, identity}

(* The browser takes any identity of a sender. *)
TrustedInBrowser(address, identity, direction) ==
  LET existing == Get(browser.identities, AddrToString(address))
  IN  existing = Nothing \/ direction = "Receiving" \/ existing = identity

GetIdentityInMemory(address) == Get(memory.identities, address)
GetIdentityInBrowser(address) == Get(browser.identities, AddrToString(address))

(* The own pair is a field in memory, and an entry of the identities in    *)
(* the browser.                                                            *)
OwnIdentity == Get(browser.identities, OwnKey)

-----------------------------------------------------------------------------
(* Prekeys *)

Save(table, id, v) ==
  /\ Counted
  /\ memory' = [memory EXCEPT ![table] = Put(@, id, v)]
  /\ browser' = [browser EXCEPT ![table] = Put(@, Numeral[id], v)]

SavePreKey(id, v) == Save("prekeys", id, v)
SaveSignedPreKey(id, v) == Save("signed", id, v)
SaveKyberPreKey(id, v) == Save("kyber", id, v)

(* Removing what is not there does nothing. *)
RemovePreKey(id) ==
  /\ Counted
  /\ memory' = [memory EXCEPT !.prekeys = Without(@, id)]
  /\ browser' = [browser EXCEPT !.prekeys = Without(@, Numeral[id])]

GetPreKeyInMemory(table, id) == Get(memory[table], id)
AllPreKeyIds(table) == DOMAIN memory[table]
GetPreKeyInBrowser(table, id) == Get(browser[table], Numeral[id])

(* mark_kyber_pre_key_used refuses a combination it has seen. *)
BaseKeysSeen(kyber, ec) ==
  IF <<kyber, ec>> \in DOMAIN memory.used THEN memory.used[<<kyber, ec>>] ELSE {}

MarkRefusedInMemory(kyber, ec, base) ==
  base \in BaseKeysSeen(kyber, ec)
MarkRefusedInBrowser(kyber, ec, base) == Get(browser.used, ComboKey(kyber, ec, base)) # Nothing

MarkKyberPreKeyUsed(kyber, ec, base) ==
  /\ Counted
  /\ memory' = [memory EXCEPT !.used =
       Put(@, <<kyber, ec>>, BaseKeysSeen(kyber, ec) \union {base})]
  /\ browser' = [browser EXCEPT !.used = Put(@, ComboKey(kyber, ec, base), "used")]

-----------------------------------------------------------------------------
(* Sender keys *)

StoreSenderKey(sender, distribution, v) ==
  /\ Counted
  /\ memory' = [memory EXCEPT !.senderKeys = Put(@, <<sender, distribution>>, v)]
  /\ browser' = [browser EXCEPT !.senderKeys = Put(@, SenderKeyName(sender, distribution), v)]

LoadSenderKeyInMemory(sender, distribution) == Get(memory.senderKeys, <<sender, distribution>>)
LoadSenderKeyInBrowser(sender, distribution) ==
  Get(browser.senderKeys, SenderKeyName(sender, distribution))

-----------------------------------------------------------------------------
NoTable == <<>>

StoreInit ==
  /\ memory = [sessions |-> NoTable, identities |-> NoTable, prekeys |-> NoTable,
               signed |-> NoTable, kyber |-> NoTable, used |-> NoTable, senderKeys |-> NoTable]
  /\ browser = [memory EXCEPT !.identities = Put(NoTable, OwnKey, "own")]
  /\ storeOps = 0

StoreNext ==
  \/ \E a \in Addresses, v \in Values :
       StoreSession(a, v) \/ SaveIdentity(a, v)
       \/ \E d \in DistributionIds : StoreSenderKey(a, d, v)
  \/ \E id \in Ids, v \in Values :
       SavePreKey(id, v) \/ SaveSignedPreKey(id, v) \/ SaveKyberPreKey(id, v)
  \/ \E id \in Ids : RemovePreKey(id)
  \/ \E kyber \in Ids, ec \in Ids, base \in BaseKeys : MarkKyberPreKeyUsed(kyber, ec, base)

-----------------------------------------------------------------------------
(* Properties *)

(* traits.rs: after the same calls the two stores give the same answers,   *)
(* whatever is asked: no two things the library tells apart share a key in *)
(* the browser.  They differ in one: the browser trusts every identity it  *)
(* receives a message from.                                                *)
StoresAgree ==
  /\ OwnIdentity = "own"
  /\ \A a \in Addresses :
       /\ LoadInMemory(a) = LoadInBrowser(a)
       /\ \A b \in Addresses : LET both == <<LoadInBrowser(a), LoadInBrowser(b)>>
                               IN  LoadExisting(<<a, b>>) =
                                     IF Nothing \in {both[1], both[2]} THEN NoAnswer ELSE both
       /\ GetIdentityInMemory(a) = GetIdentityInBrowser(a)
       /\ \A v \in Values :
            /\ SaveIdentityInMemory(a, v) = SaveIdentityInBrowser(a, v)
            /\ TrustedInMemory(a, v, "Sending") = TrustedInBrowser(a, v, "Sending")
            /\ TrustedInBrowser(a, v, "Receiving")
       /\ \A d \in DistributionIds : LoadSenderKeyInMemory(a, d) = LoadSenderKeyInBrowser(a, d)
  /\ \A table \in {"prekeys", "signed", "kyber"}, id \in Ids :
       /\ GetPreKeyInMemory(table, id) = GetPreKeyInBrowser(table, id)
       /\ id \in AllPreKeyIds(table) <=> GetPreKeyInBrowser(table, id) # Nothing
  /\ \A kyber \in Ids, ec \in Ids, base \in BaseKeys :
       MarkRefusedInMemory(kyber, ec, base) = MarkRefusedInBrowser(kyber, ec, base)
=============================================================================
