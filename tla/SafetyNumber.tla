---------------------------- MODULE SafetyNumber ----------------------------
(***************************************************************************)
(* Safety numbers: protocol/src/fingerprint.rs.                            *)
(*                                                                         *)
(* Each of two parties shows a fingerprint of its own identity key and of  *)
(* the key it holds for the other, as digits to read aloud and as a code   *)
(* to scan.  A party can register again with a new key, and a party can be *)
(* told any key, under any id, for the other.  The hash is an injection    *)
(* into the integers, so that a digit string is a number and strings of    *)
(* one length are in the order of their numbers.                           *)
(***************************************************************************)
EXTENDS Integers, FiniteSets

CONSTANTS
  Iterations,         \* how often the parties may choose to hash
  Versions,           \* the versions of their codes
  IdentityKeys        \* how many keys a party can have; a bound

ASSUME FingerprintAssumption ==
  /\ Iterations \subseteq Nat /\ Versions \subseteq Nat /\ IdentityKeys \in Nat \ {0}

Parties == {1, 2}
Other(p) == 3 - p
KeyNumbers == 1..(2 * IdentityKeys)   \* the odd ones are those of party 1
KeysOf(p) == {k \in KeyNumbers : k % 2 = p % 2}
PartyIds == 1..3                      \* 3 is another id of either

VARIABLES
  fpKey,      \* [Parties -> KeyNumbers]  the identity key a party has
  fpSeen,     \* [Parties -> [id, key]]   what it holds for the other
  fpChosen    \* [Parties -> [version, iterations]]

fpVars == <<fpKey, fpSeen, fpChosen>>

-----------------------------------------------------------------------------
(* Fingerprint::get_fingerprint *)

Hash(iterations, id, key) == (iterations * 4 + id) * (2 * IdentityKeys + 1) + key

Hashable(iterations) == iterations > 1 /\ iterations <= 1000000

NotComparable == [ok |-> FALSE, same |-> FALSE]
NoPart == -1

(* Fingerprint::new, for a pair of ids and keys. *)
Fingerprint(chosen, local, remote) ==
  [ok |-> Hashable(chosen.iterations), version |-> chosen.version,
   local |-> Hash(chosen.iterations, local.id, local.key),
   remote |-> Hash(chosen.iterations, remote.id, remote.key)]

(* DisplayableFingerprint::fmt: the smaller half comes first. *)
Display(f) == IF f.local < f.remote THEN <<f.local, f.remote>> ELSE <<f.remote, f.local>>

(* ScannableFingerprint::serialize, of which parts may be missing. *)
Scanned(f, missing) ==
  [version |-> IF "version" \in missing THEN NoPart ELSE f.version,
   local |-> IF "local" \in missing THEN NoPart ELSE f.local,
   remote |-> IF "remote" \in missing THEN NoPart ELSE f.remote]

(* ScannableFingerprint::deserialize takes all three parts. *)
Deserializes(code) == \A part \in DOMAIN code : code[part] # NoPart

(* mutant: each half is compared with the half of the same name. *)
CompareUncrossed(f, code) ==
  IF (IF code.version = NoPart THEN 0 ELSE code.version) # f.version
     \/ code.local = NoPart \/ code.remote = NoPart
  THEN NotComparable
  ELSE [ok |-> TRUE, same |-> code.local = f.local /\ code.remote = f.remote]

(* ScannableFingerprint::compare: no version is version 0. *)
Compare(f, code) ==
  IF (IF code.version = NoPart THEN 0 ELSE code.version) # f.version
     \/ code.local = NoPart \/ code.remote = NoPart
  THEN NotComparable
  ELSE [ok |-> TRUE, same |-> code.local = f.remote /\ code.remote = f.local]

-----------------------------------------------------------------------------
Shown(p) == Fingerprint(fpChosen[p], [id |-> p, key |-> fpKey[p]], fpSeen[p])

FpInit ==
  /\ fpKey = [p \in Parties |-> p]
  /\ fpSeen = [p \in Parties |-> [id |-> Other(p), key |-> Other(p)]]
  /\ fpChosen \in [Parties -> [version : Versions, iterations : Iterations]]

(* A party registers again. *)
Register(p) ==
  /\ \E k \in KeysOf(p) : k > fpKey[p] /\ fpKey' = [fpKey EXCEPT ![p] = k]
  /\ UNCHANGED <<fpSeen, fpChosen>>

(* A party is told a key and an id for the other. *)
Learn(p, id, key) ==
  /\ fpSeen' = [fpSeen EXCEPT ![p] = [id |-> id, key |-> key]]
  /\ UNCHANGED <<fpKey, fpChosen>>

FpNext ==
  \E p \in Parties :
    \/ Register(p)
    \/ \E id \in PartyIds, key \in KeyNumbers : Learn(p, id, key)

-----------------------------------------------------------------------------
(* Properties *)

SeesTheOther(p) == fpSeen[p] = [id |-> Other(p), key |-> fpKey[Other(p)]]
Parts == {"version", "local", "remote"}

(* fingerprint.rs: two parties are told that their safety numbers agree    *)
(* exactly when each holds the id and the key the other has, and they hash *)
(* as often: by the digits, and by the codes if these have one version.    *)
(* A code that lost a part never agrees, but one without a version still   *)
(* is one of version 0.                                                    *)
SafetyNumbers ==
  \A p \in Parties :
    LET mine == Shown(p)
        theirs == Shown(Other(p))
        right == /\ SeesTheOther(1) /\ SeesTheOther(2)
                 /\ fpChosen[1].iterations = fpChosen[2].iterations
        OneVersion(code) == code.version = mine.version \/ (code.version = NoPart /\ mine.version = 0)
    IN  mine.ok /\ theirs.ok =>
          /\ (Display(mine) = Display(theirs)) <=> right
          /\ \A missing \in SUBSET Parts :
               LET code == Scanned(theirs, missing)
                   whole == OneVersion(code) /\ missing \subseteq {"version"}
               IN  /\ Compare(mine, code).ok <=> whole
                   /\ Compare(mine, code).same <=> whole /\ right
                   /\ Deserializes(code) => (Compare(mine, code).ok <=> OneVersion(code))
=============================================================================
