-------------------------- MODULE GroupMessaging --------------------------
(***************************************************************************)
(* Group messaging as one sending device and its receivers see it.         *)
(*                                                                         *)
(* To send, the page creates a sender key for the group unless the store   *)
(* has one, encrypts it for every listed device with that device's         *)
(* one-to-one cipher, emits it, notes in distributedRef that it has, and   *)
(* encrypts the message under the sender key.  Every await in this lets    *)
(* other sends of the same page in (a second message, a reaction), or the  *)
(* user go to another conversation; distributedRef is shared by all of     *)
(* them.  A cipher is borrowed for the length of a call: a second call of  *)
(* the same cipher throws, and so does freeing it.                         *)
(*                                                                         *)
(* The receivers load a group's history a page at a time, or are handed    *)
(* an entry as the server stores it.  The one-to-one session that carries  *)
(* a key is DoubleRatchet's: it opens each slice once.                     *)
(***************************************************************************)
EXTENDS SenderKeyRecord

CONSTANTS
    Device,         \* the other devices of the groups' members
    FirstDevices,   \* those linked from the start
    Group,
    Send,           \* bound: the sends that can be under way at once
    PageSize,       \* entries of a history page (useMessages.js: 50)
    Failure,        \* which of "fetch", "drop", "unwrap" may happen
    ReuseIds,       \* whether a random chain id may be one used before; if not,
                    \* ChainId bounds the chains
    MaxTexts,       \* bound: messages sent
    MaxOpens,       \* bound: times a conversation is opened again
    MaxFailures     \* bound: failures

ASSUME GroupAssumption ==
    /\ FirstDevices \subseteq Device
    /\ ChainId # {}
    /\ ReuseIds \in BOOLEAN
    /\ PageSize \in Nat \ {0}
    /\ MaxTexts \in Nat /\ MaxOpens \in Nat /\ MaxFailures \in Nat
    /\ Failure \subseteq {"fetch", "drop", "unwrap"}

VARIABLES
    open,          \* the conversation that is open at the sender
    distributed,   \* distributedRef
    record,        \* the sender's own sender key record for each group
    task,          \* the sends under way
    chains,        \* the number of chains generated
    listed,        \* the devices the server has bundles for
    log,           \* the history of each group at the server
    page,          \* the history page each device is processing
    oldest,        \* the first entry each device has loaded
    handled,       \* the key entries each device has marked processed
    received,      \* each device's record of the sender's keys
    read,          \* the messages each device has decrypted
    reread,        \* the messages each device has decrypted once more
    texts, opens, failures

senderVars == <<open, distributed, record, task, chains>>
receiverVars == <<page, oldest, handled, received, read, reread>>
countVars == <<texts, opens, failures>>
vars == <<senderVars, listed, log, receiverVars, countVars>>

NoKeyMessage == [chain |-> [id |-> CHOOSE id \in ChainId : TRUE, signingKey |-> 0],
                 iteration |-> 0]

Step == {"idle", "create", "store", "fetch", "wrap", "encrypt", "encrypting", "send"}

SendState == [step : Step, group : Group,
              key : KeyMessage,          \* the distribution message, then the message
              loaded : SenderKeyRecord,  \* the record the call in progress has read
              targets : SUBSET Device,   \* bundles not yet served
              borrowed : SUBSET Device,  \* the device whose cipher is in use
              wrapped : SUBSET Device]   \* devices the key is encrypted for

Entry == [type : {"key", "message"}, group : Group, body : KeyMessage, to : SUBSET Device]

IdleSend == [step |-> "idle", group |-> open, key |-> NoKeyMessage,
             loaded |-> <<>>, targets |-> {}, borrowed |-> {}, wrapped |-> {}]

TypeOK ==
    /\ open \in Group
    /\ distributed \in BOOLEAN
    /\ record \in [Group -> SenderKeyRecord]
    /\ task \in [Send -> SendState]
    /\ chains \in Nat
    /\ listed \in SUBSET Device
    /\ log \in [Group -> Seq(Entry)]
    /\ page \in [Device -> [Group -> [next : Nat, last : Nat]]]
    /\ oldest \in [Device -> [Group -> Nat]]
    /\ handled \in [Device -> [Group -> SUBSET Nat]]
    /\ received \in [Device -> [Group -> SenderKeyRecord]]
    /\ read \in [Device -> [Group -> SUBSET Nat]]
    /\ reread \in [Device -> [Group -> SUBSET Nat]]
    /\ texts \in Nat /\ opens \in Nat /\ failures \in Nat

EachGroup(x) == [d \in Device |-> [g \in Group |-> x]]

Init ==
    /\ open \in Group
    /\ distributed = FALSE
    /\ record = [g \in Group |-> <<>>]
    /\ task = [t \in Send |-> IdleSend]
    /\ chains = 0
    /\ listed = FirstDevices
    /\ log = [g \in Group |-> <<>>]
    /\ page = EachGroup([next |-> 1, last |-> 0])
    /\ oldest = EachGroup(1)
    /\ handled = EachGroup({})
    /\ received = EachGroup(<<>>)
    /\ read = EachGroup({})
    /\ reread = EachGroup({})
    /\ texts = 0 /\ opens = 0 /\ failures = 0

-----------------------------------------------------------------------------
(* sendSecureMessage and sendReaction                                      *)

Fails(kind) ==
    /\ kind \in Failure
    /\ failures < MaxFailures
    /\ failures' = failures + 1
    /\ UNCHANGED <<texts, opens>>

\* the error is caught and shown, the send is given up
GiveUp(t) == task' = [task EXCEPT ![t] = IdleSend]

At(t, step) == task[t].step = step
GoTo(t, step) == task' = [task EXCEPT ![t].step = step]

AppendEntry(t, type, to) ==
    log' = [log EXCEPT ![task[t].group] =
        Append(@, [type |-> type, group |-> task[t].group,
                   body |-> task[t].key, to |-> to])]

\* mutant: the distribution is noted before it is made
StartSendNoted(t) ==
    /\ At(t, "idle")
    /\ texts < MaxTexts
    /\ texts' = texts + 1
    /\ distributed' = TRUE
    /\ task' = [task EXCEPT ![t] = [IdleSend EXCEPT
                   !.step = IF distributed THEN "encrypt" ELSE "create"]]
    /\ UNCHANGED <<open, record, chains, listed, log, receiverVars, opens, failures>>

StartSend(t) ==
    /\ At(t, "idle")
    /\ texts < MaxTexts
    /\ texts' = texts + 1
    /\ task' = [task EXCEPT ![t] = [IdleSend EXCEPT
                   !.step = IF distributed THEN "encrypt" ELSE "create"]]
    /\ UNCHANGED <<open, distributed, record, chains, listed, log, receiverVars,
                   opens, failures>>

\* mutant: the whole chain is distributed
DistributionFromStart(own) == [KeyMessageOf(own) EXCEPT !.iteration = 0]

\* the chain from where it stands
DistributionOf(own) == KeyMessageOf(own)

\* create_sender_key_distribution_message loads the record ...
CreateKey(t) ==
    /\ At(t, "create")
    /\ LET own == record[task[t].group]
       IN  IF own # <<>>
           THEN /\ task' = [task EXCEPT ![t].step = "fetch", ![t].key = DistributionOf(own)]
                /\ UNCHANGED chains
           ELSE \E id \in {i \in ChainId : ReuseIds \/ i = chains + 1} :
                /\ task' = [task EXCEPT
                      ![t].step = "store",
                      ![t].key = [chain |-> [id |-> id, signingKey |-> chains + 1],
                                  iteration |-> 0]]
                /\ chains' = chains + 1
    /\ UNCHANGED <<open, distributed, record, listed, log, receiverVars, countVars>>

\* ... and stores the one it generates
StoreKey(t) ==
    /\ At(t, "store")
    /\ record' = [record EXCEPT ![task[t].group] =
                     AddSenderKeyState(<<>>, task[t].key.chain, task[t].key.iteration)]
    /\ GoTo(t, "fetch")
    /\ UNCHANGED <<open, distributed, chains, listed, log, receiverVars, countVars>>

\* getPreKeyBundles
FetchBundles(t) ==
    /\ At(t, "fetch")
    /\ \/ /\ task' = [task EXCEPT ![t].step = "wrap", ![t].targets = listed]
          /\ UNCHANGED countVars
       \/ Fails("fetch") /\ GiveUp(t)
    /\ UNCHANGED <<open, distributed, record, chains, listed, log, receiverVars>>

\* cipher.encrypt throws if another call has the device's cipher
BeginWrap(t) ==
    /\ At(t, "wrap")
    /\ task[t].borrowed = {}
    /\ \E d \in task[t].targets :
          IF \E u \in Send : d \in task[u].borrowed
          THEN GiveUp(t)
          ELSE task' = [task EXCEPT ![t].borrowed = {d}]
    /\ UNCHANGED <<open, distributed, record, chains, listed, log, receiverVars, countVars>>

EndWrap(t) ==
    /\ At(t, "wrap")
    /\ task[t].borrowed # {}
    /\ task' = [task EXCEPT ![t].targets = @ \ task[t].borrowed,
                            ![t].wrapped = @ \cup task[t].borrowed,
                            ![t].borrowed = {}]
    /\ UNCHANGED <<open, distributed, record, chains, listed, log, receiverVars, countVars>>

\* the map is emitted, and nobody looks at the acknowledgement
EmitKey(t) ==
    /\ At(t, "wrap")
    /\ task[t].targets = {}
    /\ \/ AppendEntry(t, "key", task[t].wrapped) /\ UNCHANGED countVars
       \/ Fails("drop") /\ UNCHANGED log
    /\ distributed' = TRUE
    /\ GoTo(t, "encrypt")
    /\ UNCHANGED <<open, record, chains, listed, receiverVars>>

\* mutant: the group cipher can be called while it is in use
GroupCipherShared(t) == FALSE

\* the group cipher of the device's own address is in use
GroupCipherBorrowed(t) ==
    \E u \in Send : At(u, "encrypting") /\ task[u].group = task[t].group

\* group_encrypt loads the record; without one, or with a chain that is too
\* long, it fails ...
BeginEncrypt(t) ==
    LET own == record[task[t].group]
    IN  /\ At(t, "encrypt")
        /\ IF GroupCipherBorrowed(t) \/ ~CanGroupEncrypt(own)
           THEN GiveUp(t)
           ELSE task' = [task EXCEPT ![t].step = "encrypting", ![t].loaded = own,
                                     ![t].key = KeyMessageOf(own)]
        /\ UNCHANGED <<open, distributed, record, chains, listed, log, receiverVars, countVars>>

\* ... and stores it moved on
EndEncrypt(t) ==
    /\ At(t, "encrypting")
    /\ record' = [record EXCEPT ![task[t].group] = GroupEncrypt(task[t].loaded)]
    /\ task' = [task EXCEPT ![t].step = "send", ![t].loaded = <<>>]
    /\ UNCHANGED <<open, distributed, chains, listed, log, receiverVars, countVars>>

EmitMessage(t) ==
    /\ At(t, "send")
    /\ \/ AppendEntry(t, "message", {}) /\ UNCHANGED countVars
       \/ Fails("drop") /\ UNCHANGED log
    /\ GiveUp(t)
    /\ UNCHANGED <<open, distributed, record, chains, listed, receiverVars>>

SendStep(t) ==
    \/ CreateKey(t) \/ StoreKey(t) \/ FetchBundles(t) \/ BeginWrap(t) \/ EndWrap(t)
    \/ EmitKey(t) \/ BeginEncrypt(t) \/ EndEncrypt(t) \/ EmitMessage(t)

\* the user goes to a group, possibly back from elsewhere; the ciphers are freed,
\* which throws while one is in use.  Sends under way go on.
OpenConversation(g) ==
    /\ opens < MaxOpens
    /\ \A t \in Send : task[t].borrowed = {} /\ ~At(t, "encrypting")
    /\ open' = g
    /\ distributed' = FALSE
    /\ opens' = opens + 1
    /\ task' = [t \in Send |-> IF At(t, "idle") THEN [IdleSend EXCEPT !.group = g] ELSE task[t]]
    /\ UNCHANGED <<record, chains, listed, log, receiverVars, texts, failures>>

LinkDevice(d) ==
    /\ d \notin listed
    /\ listed' = listed \cup {d}
    /\ UNCHANGED <<senderVars, log, receiverVars, countVars>>

-----------------------------------------------------------------------------
(* loadMessages, loadOlder and the socket at a receiver                    *)

PageLoaded(d, g) == page[d][g].next > page[d][g].last

LoadLatest(d, g) ==
    /\ PageLoaded(d, g)
    /\ LET first == IF Len(log[g]) <= PageSize THEN 1 ELSE Len(log[g]) - PageSize + 1
       IN  /\ page' = [page EXCEPT ![d][g] = [next |-> first, last |-> Len(log[g])]]
           /\ oldest' = [oldest EXCEPT ![d][g] = first]
    /\ UNCHANGED <<senderVars, listed, log, handled, received, read, reread, countVars>>

LoadOlder(d, g) ==
    /\ PageLoaded(d, g)
    /\ oldest[d][g] > 1
    /\ LET last == oldest[d][g] - 1
           first == IF last <= PageSize THEN 1 ELSE last - PageSize + 1
       IN  /\ page' = [page EXCEPT ![d][g] = [next |-> first, last |-> last]]
           /\ oldest' = [oldest EXCEPT ![d][g] = first]
    /\ UNCHANGED <<senderVars, listed, log, handled, received, read, reread, countVars>>

\* a key entry is marked processed whether or not its key could be taken
ProcessKey(d, g, i) ==
    LET e == log[g][i]
    IN  /\ e.type = "key" /\ i \notin handled[d][g]
        /\ handled' = [handled EXCEPT ![d][g] = @ \cup {i}]
        /\ \/ /\ received' = [received EXCEPT ![d][g] =
                     IF d \in e.to THEN AddSenderKeyState(@, e.body.chain, e.body.iteration)
                     ELSE @]
              /\ UNCHANGED countVars
           \/ d \in e.to /\ Fails("unwrap") /\ UNCHANGED received
        /\ UNCHANGED <<read, reread>>

\* the decrypted message may be in one of the caches; the one in memory does not
\* outlive the page, and nobody waits for the other to be written
MayBeCached(d, g, i) == i \in read[d][g]

ProcessMessage(d, g, i) ==
    LET e == log[g][i]
    IN  /\ e.type = "message"
        /\ GroupVerdict(received[d][g], e.body) = "ok"
        /\ received' = [received EXCEPT ![d][g] = GroupDecrypt(@, e.body)]
        /\ read' = [read EXCEPT ![d][g] = @ \cup {i}]
        /\ reread' = [reread EXCEPT ![d][g] = IF i \in read[d][g] THEN @ \cup {i} ELSE @]
        /\ UNCHANGED <<handled, countVars>>

\* seen before, or an error that leaves the store as it was
PassOver(d, g, i) ==
    LET e == log[g][i]
    IN  /\ IF e.type = "key" THEN i \in handled[d][g]
           ELSE MayBeCached(d, g, i) \/ GroupVerdict(received[d][g], e.body) # "ok"
        /\ UNCHANGED <<handled, received, read, reread, countVars>>

ProcessEntry(d, g, i) ==
    ProcessKey(d, g, i) \/ ProcessMessage(d, g, i) \/ PassOver(d, g, i)

ProcessPage(d, g) ==
    /\ ~PageLoaded(d, g)
    /\ ProcessEntry(d, g, page[d][g].next)
    /\ page' = [page EXCEPT ![d][g].next = @ + 1]
    /\ UNCHANGED <<senderVars, listed, log, oldest>>

\* handleIncomingMessage, as the entry is stored; a page may be in progress
ProcessLive(d, g) ==
    /\ log[g] # <<>>
    /\ ProcessEntry(d, g, Len(log[g]))
    /\ UNCHANGED <<senderVars, listed, log, page, oldest>>

-----------------------------------------------------------------------------
Next ==
    \/ \E t \in Send : StartSend(t) \/ SendStep(t)
    \/ \E g \in Group : OpenConversation(g)
    \/ \E d \in Device : LinkDevice(d)
    \/ \E d \in Device, g \in Group :
          LoadLatest(d, g) \/ LoadOlder(d, g) \/ ProcessPage(d, g) \/ ProcessLive(d, g)

Spec == Init /\ [][Next]_vars

\* a send that has begun goes on, and a user who opens a group again and again
\* sees its pages processed to the end
Fairness ==
    /\ \A t \in Send : WF_vars(SendStep(t))
    /\ \A d \in Device, g \in Group : WF_vars(LoadLatest(d, g)) /\ WF_vars(ProcessPage(d, g))

FairSpec == Spec /\ Fairness

-----------------------------------------------------------------------------
(* Properties                                                              *)

Entries(g, type) == {i \in DOMAIN log[g] : log[g][i].type = type}

\* Within one page no two group messages are encrypted under one sender key
\* iteration, however sends overlap and whichever of two created keys is stored
\* last: the borrowed cipher keeps load and store of group_encrypt together.
SenderKeysUnique ==
    \A g \in Group : \A i, j \in Entries(g, "message") :
        log[g][i].body = log[g][j].body => i = j

\* The stored record never falls back: no state of it could derive the key of a
\* message sent before, also after a slow send has stored its own record last.
\* And a device that has decrypted a message holds nothing to derive its key from,
\* though the chain be distributed again.  (Not more sends may overlap than a
\* receiver keeps states, and no chain id may come twice: a chain that was evicted
\* would be taken again from an older distribution.)
SenderKeysForgotten ==
    /\ \A g \in Group : \A i \in Entries(g, "message") :
          ~CanDeriveSenderKey(record[g], log[g][i].body)
    /\ \A d \in Device, g \in Group : \A i \in read[d][g] :
          ~CanDeriveSenderKey(received[d][g], log[g][i].body)

\* A group message is decrypted at most once by a device, from the history, from
\* the socket, or from both at the same time.
GroupAtMostOnce == \A d \in Device, g \in Group : reread[d][g] = {}

\* The records stay within consts.rs and name each chain id once, so that the
\* state found for a message's chain id is the one its key was made from.
GroupWithinLimits ==
    /\ \A d \in Device, g \in Group :
          SenderKeyRecordWithinLimits(received[d][g]) /\ ChainIdsDistinct(received[d][g])
    /\ \A g \in Group : SenderKeyRecordWithinLimits(record[g])

\* A device reads only what was sent after a key was encrypted for it: one that
\* is linked later, or reads the history later, gets no older message.
NothingOlderThanTheKey ==
    \A d \in Device, g \in Group : \A i \in read[d][g] :
        \E j \in Entries(g, "key") : j < i /\ d \in log[g][j].to

\* With one send at a time, and one conversation, a message never leaves before
\* the key it is encrypted under, though earlier attempts to distribute that key
\* have failed.
KeyBeforeMessage ==
    \A g \in Group : \A i \in Entries(g, "message") :
        \E j \in Entries(g, "key") :
            /\ j < i
            /\ log[g][j].body.chain = log[g][i].body.chain
            /\ log[g][j].body.iteration <= log[g][i].body.iteration

\* the chain was distributed again from a later iteration: if that key comes first,
\* the earlier one is not taken any more
Overtaken(d, g, i) ==
    \E j \in Entries(g, "key") :
        /\ d \in log[g][j].to
        /\ log[g][j].body.chain = log[g][i].body.chain
        /\ log[g][j].body.iteration > log[g][i].body.iteration

\* the device has been sent a key from which the message's key follows
Covered(d, g, i) ==
    /\ i \in Entries(g, "message")
    /\ ~Overtaken(d, g, i)
    /\ \E j \in Entries(g, "key") :
          /\ d \in log[g][j].to
          /\ log[g][j].body.chain = log[g][i].body.chain
          /\ log[g][j].body.iteration <= log[g][i].body.iteration

\* A device that was sent the key reads the message in the end, in whatever order
\* the socket and the history bring the key and the messages, unless the chain is
\* distributed again from a later iteration.
CoveredIsRead ==
    \A d \in Device, g \in Group, i \in 1 .. 2 * MaxTexts :
        Covered(d, g, i) ~> (i \in read[d][g] \/ ~Covered(d, g, i))

\* messageSending.js: "If we haven't distributed our key for this group yet in this
\* session, do it now."  Once no send is under way, every message sent has its key
\* in the history.
NoOrphanMessages ==
    (\A t \in Send : At(t, "idle")) =>
        \A g \in Group : \A i \in Entries(g, "message") : \E j \in Entries(g, "key") :
            log[g][j].body.chain = log[g][i].body.chain

=============================================================================
