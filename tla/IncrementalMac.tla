--------------------------- MODULE IncrementalMac ---------------------------
(***************************************************************************)
(* The incremental MAC of an attachment: protocol/src/incremental_mac.rs.  *)
(*                                                                         *)
(* The sender takes the MAC of what it has so far after every chunk, and   *)
(* one at the end; the receiver is given those, and bytes in pieces of any *)
(* size, and reports after each piece how many bytes are good.  The MAC of *)
(* bytes is those bytes: nothing else has it.                              *)
(***************************************************************************)
EXTENDS Integers, Sequences, SequencesExt

CONSTANTS
  MacBytes,           \* the values of a byte
  MaxFile,            \* the longest file
  MaxFed,             \* how many bytes are fed to the receiver
  MaxChunk            \* the largest chunk; all four are bounds

ASSUME MacAssumption ==
  /\ MacBytes # {} /\ MaxFile \in Nat /\ MaxFed \in Nat /\ MaxChunk \in Nat \ {0}

-----------------------------------------------------------------------------
(* calculate_chunk_size, for digests of a given size *)

MinimumChunkSize == 64 * 1024
MaximumChunkSize == 2 * 1024 * 1024
TargetTotalDigestSize == 8 * 1024

CeilDiv(a, b) == (a + b - 1) \div b

ChunkSize(dataSize, digestSize) ==
  LET count == TargetTotalDigestSize \div digestSize
  IN  CASE dataSize < count * MinimumChunkSize -> MinimumChunkSize
        [] /\ dataSize >= count * MinimumChunkSize
           /\ dataSize < count * MaximumChunkSize -> CeilDiv(dataSize, count)
        [] OTHER -> MaximumChunkSize

-----------------------------------------------------------------------------
(* Incremental *)

MacOf(bytes) == <<"mac", bytes>>
NewIncremental(chunk) == [seen |-> <<>>, chunk |-> chunk, unused |-> chunk]

(* mutant: what the chunk still lacks. *)
PendingBytesUnused(inc) == inc.unused

PendingBytesSize(inc) == inc.chunk - inc.unused

(* The pieces that update cuts bytes into: up to the end of the chunk that *)
(* is under way, and then by whole chunks.                                 *)
Pieces(inc, bytes) ==
  LET first == IF Len(bytes) < inc.unused THEN Len(bytes) ELSE inc.unused
      more == CeilDiv(Len(bytes) - first, inc.chunk)
      End(i) == IF first + i * inc.chunk < Len(bytes) THEN first + i * inc.chunk ELSE Len(bytes)
  IN  [i \in 1..(more + 1) |->
         IF i = 1 THEN SubSeq(bytes, 1, first) ELSE SubSeq(bytes, End(i - 2) + 1, End(i - 1))]

(* update_chunk: a full chunk gives a MAC of all the bytes so far. *)
UpdateChunk(state, piece) ==
  LET inc == state.inc
      seen == inc.seen \o piece
      full == inc.unused = Len(piece)
  IN  [inc |-> [inc EXCEPT !.seen = seen, !.unused = IF full THEN inc.chunk ELSE @ - Len(piece)],
       macs |-> IF full THEN Append(state.macs, MacOf(seen)) ELSE state.macs]

Update(inc, bytes) ==
  FoldLeft(UpdateChunk, [inc |-> inc, macs |-> <<>>], Pieces(inc, bytes))

(* What the sender passes on with a file: in the order of the chunks. *)
MacsOf(bytes, chunk) ==
  LET done == Update(NewIncremental(chunk), bytes)
  IN  Append(done.macs, MacOf(done.inc.seen))

-----------------------------------------------------------------------------
(* Validating *)

Match(state, mac) ==
  IF state.expected # <<>> /\ Head(state.expected) = mac
  THEN [state EXCEPT !.expected = Tail(@), !.whole = @ + 1]
  ELSE [state EXCEPT !.ok = FALSE]

(* Validating::update goes on after a mismatch, and then gives an error. *)
ValidatingUpdate(inc, expected, bytes) ==
  LET done == Update(inc, bytes)
      found == FoldLeft(Match, [expected |-> expected, whole |-> 0, ok |-> TRUE], done.macs)
  IN  [inc |-> done.inc, expected |-> found.expected, ok |-> found.ok,
       validated |-> IF found.ok THEN found.whole * inc.chunk ELSE 0]

(* Validating::finalize: one MAC is left, and it is that of everything. *)
ValidatingFinalize(inc, expected) ==
  LET ok == expected = <<MacOf(inc.seen)>>
  IN  [ok |-> ok, validated |-> IF ok THEN PendingBytesSize(inc) ELSE 0]

-----------------------------------------------------------------------------
VARIABLES
  macFile,        \* the file, as it was sent
  macReader,      \* [inc, expected]  the receiver's state
  macGood,        \* how many bytes it has been told are good
  macFailed,      \* an update was refused
  macEnd          \* "open", "done" or "refused"

macVars == <<macFile, macReader, macGood, macFailed, macEnd>>

MacInit ==
  /\ macFile \in BoundedSeq(MacBytes, MaxFile)
  /\ \E chunk \in 1..MaxChunk :
       macReader = [inc |-> NewIncremental(chunk), expected |-> MacsOf(macFile, chunk)]
  /\ macGood = 0 /\ macFailed = FALSE /\ macEnd = "open"

Feed(bytes) ==
  /\ macEnd = "open" /\ Len(macReader.inc.seen) + Len(bytes) <= MaxFed
  /\ LET answer == ValidatingUpdate(macReader.inc, macReader.expected, bytes)
     IN  /\ macReader' = [inc |-> answer.inc, expected |-> answer.expected]
         /\ macGood' = macGood + answer.validated
         /\ macFailed' = (macFailed \/ ~answer.ok)
  /\ UNCHANGED <<macFile, macEnd>>

Finish ==
  /\ macEnd = "open"
  /\ LET answer == ValidatingFinalize(macReader.inc, macReader.expected)
     IN  /\ macEnd' = IF answer.ok THEN "done" ELSE "refused"
         /\ macGood' = macGood + answer.validated
  /\ UNCHANGED <<macFile, macReader, macFailed>>

MacNext ==
  \/ \E bytes \in BoundedSeq(MacBytes, MaxFed) : Feed(bytes)
  \/ Finish

-----------------------------------------------------------------------------
(* Properties *)

(* Validating: however the bytes are cut, those that were called good are  *)
(* the first ones of the file, the receiver ends well exactly when it was  *)
(* given the file and nothing else, and then all of it was called good; no *)
(* piece of the file itself is refused, and every whole chunk of it is     *)
(* reported at once.                                                       *)
MacExact ==
  LET fed == macReader.inc.seen
      chunk == macReader.inc.chunk
  IN  /\ macGood <= Len(macFile) /\ macGood <= Len(fed)
      /\ SubSeq(fed, 1, macGood) = SubSeq(macFile, 1, macGood)
      /\ IsPrefix(fed, macFile) =>
           ~macFailed /\ (macEnd = "open" => macGood = (Len(fed) \div chunk) * chunk)
      /\ macEnd = "done" => fed = macFile /\ macGood = Len(macFile)
      /\ macEnd = "refused" => fed # macFile
=============================================================================
