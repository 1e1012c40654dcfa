----------------------------- MODULE MCLibrary -----------------------------
(***************************************************************************)
(* The parts of the library that share no state, for TLC: a behaviour is   *)
(* one of one part, while the others stay as they are.                     *)
(***************************************************************************)
EXTENDS MCSealedSender, WireFormats, SafetyNumber, IncrementalMac, Stores

VARIABLE part

(* A name that ends like an address, and a device that ends like another.  *)
MCUserNames == {<<"u">>, <<"u", ".", "1">>}
MCNumeral == (1 :> <<"1">>) @@ (11 :> <<"1", "1">>)

SealedIdle ==
  /\ now = 0 /\ gen = [n \in Names |-> 0]
  /\ known = [x \in Peers |-> None] /\ session = [x \in Peers |-> None]
  /\ certs = {} /\ sealed = {} /\ read = {} /\ changes = 0
FpIdle ==
  /\ fpKey = [p \in Parties |-> p]
  /\ fpSeen = [p \in Parties |-> [id |-> Other(p), key |-> Other(p)]]
  /\ fpChosen = [p \in Parties |-> [version |-> 0, iterations |-> 1]]
MacIdle ==
  /\ macFile = <<>> /\ macReader = [inc |-> NewIncremental(1), expected |-> MacsOf(<<>>, 1)]
  /\ macGood = 0 /\ macFailed = FALSE /\ macEnd = "open"

(* The stores start in one state, idle or not. *)
LibraryInit ==
  /\ part \in {"sealed", "wire", "number", "mac", "store"}
  /\ IF part = "sealed" THEN Init ELSE SealedIdle
  /\ WireStart(IF part = "wire" THEN AllKinds ELSE {"Alternate"})
  /\ part # "wire" => wireMade.variant = 1
  /\ IF part = "number" THEN FpInit ELSE FpIdle
  /\ IF part = "mac" THEN MacInit ELSE MacIdle
  /\ StoreInit

LibraryNext ==
  /\ UNCHANGED part
  /\ \/ part = "sealed" /\ Next /\ UNCHANGED <<wireVars, fpVars, macVars, storeVars>>
     \/ part = "wire" /\ WireNext /\ UNCHANGED <<vars, fpVars, macVars, storeVars>>
     \/ part = "number" /\ FpNext /\ UNCHANGED <<vars, wireVars, macVars, storeVars>>
     \/ part = "mac" /\ MacNext /\ UNCHANGED <<vars, wireVars, fpVars, storeVars>>
     \/ part = "store" /\ StoreNext /\ UNCHANGED <<vars, wireVars, fpVars, macVars>>

LibrarySpec == LibraryInit /\ [][LibraryNext]_<<part, vars, wireVars, fpVars, macVars, storeVars>>
=============================================================================
