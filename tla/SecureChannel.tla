--------------------------- MODULE SecureChannel ---------------------------
(***************************************************************************)
(* What one-to-one messaging promises its user: a message is read by the   *)
(* device it was written to, at most once, and, if the network keeps       *)
(* delivering, at least once; nothing is promised about order.             *)
(***************************************************************************)


CONSTANTS Party, Text

VARIABLES
    written,   \* the messages handed to the channel, [from, to, text]
    read,      \* the messages that came out of it
    repeated   \* the messages that came out once more

vars == <<written, read, repeated>>

Letter == [from : Party, to : Party, text : Text]

Init == written = {} /\ read = {} /\ repeated = {}

\* every letter of a sender is a new one
Write(m) ==
    /\ m.from # m.to
    /\ \A w \in written : w.from = m.from => w.text # m.text
    /\ written' = written \cup {m}
    /\ UNCHANGED <<read, repeated>>

Read(m) ==
    /\ m \in written \ read
    /\ read' = read \cup {m}
    /\ UNCHANGED <<written, repeated>>

Next == \E m \in Letter : Write(m) \/ Read(m)

Spec == Init /\ [][Next]_vars

\* the network delivers what it holds, sooner or later
FairSpec == Spec /\ WF_vars(\E m \in written : Read(m))

=============================================================================
