---------------------------- MODULE MessageView ----------------------------
(***************************************************************************)
(* What a page shows and keeps of one-to-one conversations: useMessages.js *)
(* with messageProcessing.js, messageSending.js and messageActions.js.     *)
(*                                                                         *)
(* A ciphertext opens once, so the plaintext is copied to a cache of the   *)
(* page and, without waiting, to IndexedDB.  A load of the history and the *)
(* handlers of socket events use and fill both, and the list that is       *)
(* shown; each goes on to its next await in one step, and any other may    *)
(* run in between.  The server, the socket and the ratchet are outside:    *)
(* the server keeps of a message what it was sent last, events come in     *)
(* order while the page is there, and a cipher opens a ciphertext that it  *)
(* has not opened, unless it is lent to another call (DirectSession).      *)
(***************************************************************************)
EXTENDS Integers, Sequences, FiniteSets, Ordering

CONSTANTS
  Theirs, Own,        \* the messages of the others, and of this user
  ConversationOf,     \* message -> its conversation
  History,            \* the messages in the order the server lists them
  Edits, Deletes,     \* those that may be edited, and deleted
  None,               \* no conversation
  Scenarios,          \* the messages there may be in one behaviour: sets of them
  MaxSwitches, MaxFailures   \* bounds

Ids == Theirs \cup Own
Conversations == {ConversationOf[m] : m \in Ids}

ASSUME MessageViewAssumption ==
  /\ Theirs \cap Own = {}
  /\ History \in Seq(Ids) /\ {History[i] : i \in DOMAIN History} = Ids
  /\ Edits \cup Deletes \subseteq Ids /\ None \notin Conversations
  /\ {MaxSwitches, MaxFailures} \subseteq Nat

VARIABLES
  server,       \* message -> "unsent", the text it holds, or "gone"
  events,       \* on the socket, in order: [type, id, text]
  opened,       \* ratchet: the ciphertexts opened, <<message, text>>
  stored,       \* LOCAL_MESSAGES: message -> [text, conv]
  online,       \* is there a page?
  conv, ready,  \* the conversation it has open, and isReady
  view,         \* messages: the entries [id, temp, shows] of the list
  cache,        \* decryptedCacheRef: message -> text
  load,         \* loadMessages: how far it is; loadingRef is that it is not idle
  handlers,     \* handlers of events that wait: [type, id, text, conv, step]
  writes,       \* writes to IndexedDB nobody waits for: [op, id, text, conv]
  own,          \* message of this user -> how far its sending, or editing, is
  shown,        \* history: whose history replaced the list since the last opening
  missed,       \* history: edits this page was not there for, or could not apply
  cut,          \* history: messages with a write or an answer that a close cut off
  known, raced, \* history: deletions handled here, and those with work under way
  crossed,      \* history: calls under way when the conversation changed, <<message, step>>
  unserved,     \* history: did the opening find a load under way, or its load fail?
  switches, failures    \* bounds only

serverVars == <<server, events>>
pageVars == <<online, conv, ready, switches>>
historyVars == <<missed, cut, known, raced, crossed, unserved>>
viewVars == <<serverVars, opened, stored, pageVars, view, cache, load, handlers, writes, own,
              shown, historyVars, failures>>

Texts == {"original", "edited"}
NoText == "nothing"
NotStored == [text |-> NoText, conv |-> None]
NoCache == [m \in Ids |-> NoText]
IdleLoad == [step |-> "idle", conv |-> None, todo |-> <<>>, local |-> NoCache, done |-> {}]

Entry(m, shows) == [id |-> m, temp |-> FALSE, shows |-> shows]
Temp(o, shows) == [id |-> o, temp |-> TRUE, shows |-> shows]
Map(list, m, shows) == {IF e = Entry(m, e.shows) THEN Entry(m, shows) ELSE e : e \in list}
Listed(m) == \E e \in view : e = Entry(m, e.shows)

SaveLocal(m, text, c) == [op |-> "save", id |-> m, text |-> text, conv |-> c]
DeleteLocal(m) == [op |-> "delete", id |-> m, text |-> NoText, conv |-> None]

\* Work that may still bring the text of a message back: a call of this page, its
\* write, or an answer on the way.
Underway(m) ==
  \/ \E h \in handlers : h.id = m
  \/ \E w \in writes : w.op = "save" /\ w.id = m
  \/ \E i \in DOMAIN load.todo : load.todo[i].id = m
  \/ \E e \in load.done : e.id = m
  \/ m \in Own /\ own[m] \in {"emitted", "answered", "re-encrypting"}

\* The cipher of a conversation is lent to a call until it returns.
Busy(c) ==
  \/ \E h \in handlers : h.step = "decrypt" /\ ConversationOf[h.id] = c
  \/ load.step = "decrypt" /\ load.conv = c
  \/ \E o \in Own : own[o] \in {"encrypting", "re-encrypting"} /\ ConversationOf[o] = c

-----------------------------------------------------------------------------
(* The server and the others                                               *)

Announce(type, m, text) ==
  events' = IF online THEN Append(events, [type |-> type, id |-> m, text |-> text]) ELSE events
Miss(m) == missed' = IF online THEN missed ELSE missed \cup {m}

TheyWrite(m) ==
  /\ server[m] = "unsent"
  /\ server' = [server EXCEPT ![m] = "original"]
  /\ Announce("message", m, "original")
  /\ UNCHANGED <<opened, stored, pageVars, view, cache, load, handlers, writes, own, shown,
                 historyVars, failures>>

TheyEdit(m) ==
  /\ m \in Edits /\ server[m] = "original"
  /\ server' = [server EXCEPT ![m] = "edited"]
  /\ Announce("message:edited", m, "edited") /\ Miss(m)
  /\ UNCHANGED <<opened, stored, pageVars, view, cache, load, handlers, writes, own, shown, cut,
                 known, raced, crossed, unserved, failures>>

TheyDelete(m) ==
  /\ m \in Deletes /\ server[m] \in Texts
  /\ server' = [server EXCEPT ![m] = "gone"]
  /\ Announce("message:deleted", m, NoText)
  /\ UNCHANGED <<opened, stored, pageVars, view, cache, load, handlers, writes, own, shown,
                 historyVars, failures>>

\* The server takes a message of this user, or refuses it, and says so.
Answer(o, success) ==
  /\ own[o] \in {"emitted", "orphan"}
  /\ server' = [server EXCEPT ![o] = IF success THEN "original" ELSE "gone"]
  /\ own' = [own EXCEPT ![o] = IF @ = "orphan" THEN "sent" ELSE "answered"]
  /\ events' = IF own[o] = "orphan" THEN events
               ELSE Append(events, [type |-> IF success THEN "ack" ELSE "nack", id |-> o,
                                    text |-> "original"])
  /\ UNCHANGED <<opened, stored, pageVars, view, cache, load, handlers, writes, shown,
                 historyVars, failures>>

-----------------------------------------------------------------------------
(* Loading the history: loadMessages and processMessages                   *)

StartLoad(c) ==
  load' = IF c # None /\ load.step = "idle"
          THEN [IdleLoad EXCEPT !.step = "fetch", !.conv = c] ELSE load

\* getMessages answers with the first page.
Fetch ==
  /\ load.step = "fetch"
  /\ LET Answers(m) == ConversationOf[m] = load.conv /\ server[m] \in Texts
         order == InOrder({i \in DOMAIN History : Answers(History[i])})
     IN  load' = [load EXCEPT !.step = "local", !.todo =
           [k \in DOMAIN order |-> [id |-> History[order[k]], text |-> server[History[order[k]]]]]]
  /\ UNCHANGED <<serverVars, opened, stored, pageVars, view, cache, handlers, writes, own, shown,
                 historyVars, failures>>

FetchFails ==
  /\ load.step = "fetch" /\ failures < MaxFailures
  /\ failures' = failures + 1 /\ load' = IdleLoad /\ unserved' = TRUE
  /\ UNCHANGED <<serverVars, opened, stored, pageVars, view, cache, handlers, writes, own, shown,
                 missed, cut, known, raced, crossed>>

\* getLocalMessages, by the conversation a copy was stored under; an edit still to be
\* written is not among them.
ReadLocal ==
  /\ load.step = "local"
  /\ load' = [load EXCEPT !.step = "next", !.local =
       [m \in Ids |-> IF stored[m].conv = load.conv THEN stored[m].text ELSE NoText]]
  /\ missed' = missed \cup {w.id : w \in {v \in writes : v.text = "edited"}}
  /\ UNCHANGED <<serverVars, opened, stored, pageVars, view, cache, handlers, writes, own, shown,
                 cut, known, raced, crossed, unserved, failures>>

Processed(shows) ==
  load' = [load EXCEPT !.step = "next", !.todo = Tail(@),
                       !.done = @ \cup {Entry(Head(load.todo).id, shows)}]

\* The local copy wins, then the cache.
CopyOf(m) == IF load.local[m] # NoText THEN load.local[m] ELSE cache[m]

\* One message: shown from a copy, or the device number is awaited.
NextMessage ==
  /\ load.step = "next" /\ load.todo # <<>>
  /\ LET m == Head(load.todo).id
     IN  IF CopyOf(m) # NoText THEN Processed(CopyOf(m))
         ELSE load' = [load EXCEPT !.step = "slice"]
  /\ UNCHANGED <<serverVars, opened, stored, pageVars, view, cache, handlers, writes, own, shown,
                 historyVars, failures>>

\* extractDeviceSlice: there is none for the device that sent the message.  A cipher
\* that is lent throws.
LoadSlice ==
  /\ load.step = "slice"
  /\ LET m == Head(load.todo).id
     IN  IF m \in Own THEN Processed("unavailable")
         ELSE IF Busy(load.conv) THEN Processed("error")
         ELSE load' = [load EXCEPT !.step = "decrypt"]
  /\ UNCHANGED <<serverVars, opened, stored, pageVars, view, cache, handlers, writes, own, shown,
                 historyVars, failures>>

\* The plaintext goes to the cache of the moment, and its write is started.
Open(m, text, c) ==
  /\ opened' = opened \cup {<<m, text>>}
  /\ cache' = [cache EXCEPT ![m] = text]
  /\ writes' = writes \cup {SaveLocal(m, text, c)}

LoadDecrypt ==
  /\ load.step = "decrypt"
  /\ LET next == Head(load.todo)
     IN  IF <<next.id, next.text>> \notin opened
         THEN Open(next.id, next.text, load.conv) /\ Processed(next.text)
         ELSE Processed("error") /\ UNCHANGED <<opened, cache, writes>>
  /\ UNCHANGED <<serverVars, stored, pageVars, view, handlers, own, shown, historyVars, failures>>

\* The list is replaced whatever has come into it, and whatever is open by now; the
\* load ends when the server has answered to markRead.
ShowHistory ==
  /\ load.step = "next" /\ load.todo = <<>>
  /\ view' = load.done /\ shown' = load.conv
  /\ load' = [load EXCEPT !.step = "mark", !.done = {}]
  /\ UNCHANGED <<serverVars, opened, stored, pageVars, cache, handlers, writes, own,
                 historyVars, failures>>

EndLoad ==
  /\ load.step = "mark" /\ load' = IdleLoad
  /\ UNCHANGED <<serverVars, opened, stored, pageVars, view, cache, handlers, writes, own, shown,
                 historyVars, failures>>

-----------------------------------------------------------------------------
(* Events                                                                  *)

Handler(event, step) ==
  [type |-> event.type, id |-> event.id, text |-> event.text, conv |-> None, step |-> step]

\* mutant: events of every conversation are taken
ConcernsAll(event) == TRUE

Concerns(event) == ConversationOf[event.id] = conv

\* Both handlers await the device number first.
Receive ==
  /\ events # <<>> /\ Head(events).type \in {"message", "message:edited"}
  /\ events' = Tail(events)
  /\ IF Concerns(Head(events))
     THEN handlers' = handlers \cup {Handler(Head(events), "device")} /\ UNCHANGED missed
     ELSE /\ missed' = IF Head(events).text = "edited" THEN missed \cup {Head(events).id} ELSE missed
          /\ UNCHANGED handlers
  /\ UNCHANGED <<server, opened, stored, pageVars, view, cache, load, writes, own, shown, cut,
                 known, raced, crossed, unserved, failures>>

Steps(h, step) == handlers' = (handlers \ {h}) \cup {[h EXCEPT !.step = step]}
Ends(h) == handlers' = handlers \ {h}
AppendToList(m, shows) == view' = IF Listed(m) THEN view ELSE view \cup {Entry(m, shows)}

\* handleIncomingMessage goes on with the processMessages of the moment, and has no
\* local copies: the cache is asked, and the device number awaited again.
Process(h) ==
  /\ h.type = "message" /\ h.step = "device"
  /\ IF ~ready THEN AppendToList(h.id, "raw") /\ Ends(h)
     ELSE IF cache[h.id] # NoText THEN AppendToList(h.id, cache[h.id]) /\ Ends(h)
     ELSE /\ handlers' = (handlers \ {h}) \cup {[h EXCEPT !.step = "slice", !.conv = conv]}
          /\ UNCHANGED view
  /\ UNCHANGED <<serverVars, opened, stored, pageVars, cache, load, writes, own, shown,
                 historyVars, failures>>

StartDecrypt(h) ==
  /\ h.step = IF h.type = "message" THEN "slice" ELSE "device"
  /\ IF ~Busy(ConversationOf[h.id]) THEN Steps(h, "decrypt") /\ UNCHANGED <<view, missed>>
     ELSE /\ Ends(h)
          /\ IF h.type = "message" THEN AppendToList(h.id, "error") /\ UNCHANGED missed
             ELSE missed' = missed \cup {h.id} /\ UNCHANGED view
  /\ UNCHANGED <<serverVars, opened, stored, pageVars, cache, load, writes, own, shown, cut,
                 known, raced, crossed, unserved, failures>>

DecryptMessage(h) ==
  /\ h.type = "message" /\ h.step = "decrypt" /\ Ends(h)
  /\ IF <<h.id, h.text>> \notin opened
     THEN Open(h.id, h.text, h.conv) /\ AppendToList(h.id, h.text)
     ELSE AppendToList(h.id, "error") /\ UNCHANGED <<opened, cache, writes>>
  /\ UNCHANGED <<serverVars, stored, pageVars, load, own, shown, historyVars, failures>>

ShowEdit(m) == view' = Map(view, m, "edited")

\* An edit is missed if it could not be opened, or if a load, another handler or an
\* earlier write may still put the original in its place.
DecryptEdit(h) ==
  /\ h.type = "message:edited" /\ h.step = "decrypt" /\ Ends(h)
  /\ IF <<h.id, h.text>> \notin opened
     THEN Open(h.id, h.text, ConversationOf[h.id]) /\ ShowEdit(h.id)
     ELSE UNCHANGED <<opened, cache, writes, view>>
  /\ missed' = IF \/ <<h.id, h.text>> \in opened \/ load.step # "idle"
                  \/ \E g \in handlers \ {h} : g.id = h.id
                  \/ \E w \in writes : w.id = h.id
               THEN missed \cup {h.id} ELSE missed
  /\ UNCHANGED <<serverVars, stored, pageVars, load, own, shown, cut, known, raced, crossed,
                 unserved, failures>>

\* mutant: the copy on the disk stays
ForgetCached(m) == cache' = [cache EXCEPT ![m] = NoText] /\ UNCHANGED writes

Forget(m) ==
  /\ cache' = [cache EXCEPT ![m] = NoText]
  /\ writes' = writes \cup {DeleteLocal(m)}

Know(m) ==
  /\ known' = known \cup {m}
  /\ raced' = IF Underway(m) THEN raced \cup {m} ELSE raced

ReceiveDeleted ==
  /\ events # <<>> /\ Head(events).type = "message:deleted"
  /\ events' = Tail(events)
  /\ IF Concerns(Head(events))
     THEN LET m == Head(events).id
          IN  view' = Map(view, m, "deleted") /\ Forget(m) /\ Know(m)
     ELSE UNCHANGED <<view, cache, writes, known, raced>>
  /\ UNCHANGED <<server, opened, stored, pageVars, load, handlers, own, shown, missed, cut,
                 crossed, unserved, failures>>

-----------------------------------------------------------------------------
(* Messages of this user: messageSending.js, messageActions.js             *)

\* The encryption borrows the cipher; one that is lent throws, and nothing is sent.
StartSend(o) ==
  /\ conv = ConversationOf[o] /\ ready /\ own[o] = "unsent" /\ ~Busy(conv)
  /\ server[o] = "unsent"
  /\ own' = [own EXCEPT ![o] = "encrypting"]
  /\ UNCHANGED <<serverVars, opened, stored, pageVars, view, cache, load, handlers, writes, shown,
                 historyVars, failures>>

\* The list of the moment gets a temporary entry; without a socket the message is
\* dropped and the entry stays.
EmitMessage(o, dropped) ==
  /\ own[o] = "encrypting"
  /\ dropped => failures < MaxFailures
  /\ failures' = IF dropped THEN failures + 1 ELSE failures
  /\ own' = [own EXCEPT ![o] = IF dropped THEN "stuck" ELSE "emitted"]
  /\ view' = view \cup {Temp(o, "original")}
  /\ UNCHANGED <<serverVars, opened, stored, pageVars, cache, load, handlers, writes, shown,
                 historyVars>>

\* The temporary entry, if it is still there, becomes the message, deleted or not.
ReceiveAck ==
  /\ events # <<>> /\ Head(events).type = "ack"
  /\ events' = Tail(events)
  /\ LET o == Head(events).id
     IN  /\ view' = {IF e = Temp(o, e.shows) THEN Entry(o, "original") ELSE e : e \in view}
         /\ writes' = writes \cup {SaveLocal(o, "original", ConversationOf[o])}
         /\ own' = [own EXCEPT ![o] = "sent"]
  /\ UNCHANGED <<server, opened, stored, pageVars, cache, load, handlers, shown, historyVars,
                 failures>>

ReceiveNack ==
  /\ events # <<>> /\ Head(events).type = "nack"
  /\ events' = Tail(events)
  /\ view' = {e \in view : e # Temp(Head(events).id, e.shows)}
  /\ own' = [own EXCEPT ![Head(events).id] = "stuck"]
  /\ UNCHANGED <<server, opened, stored, pageVars, cache, load, handlers, writes, shown,
                 historyVars, failures>>

StartEdit(o) ==
  /\ o \in Edits /\ server[o] = "original"    \* bound: one edit of a message
  /\ conv = ConversationOf[o] /\ own[o] = "sent" /\ ~Busy(conv)
  /\ \E e \in view : e = Entry(o, e.shows) /\ e.shows # "deleted"
  /\ own' = [own EXCEPT ![o] = "re-encrypting"]
  /\ UNCHANGED <<serverVars, opened, stored, pageVars, view, cache, load, handlers, writes, shown,
                 historyVars, failures>>

\* What was deleted meanwhile is shown, cached and saved again.
EmitEdit(o) ==
  /\ own[o] = "re-encrypting"
  /\ own' = [own EXCEPT ![o] = "sent"]
  /\ server' = [server EXCEPT ![o] = IF @ = "gone" THEN @ ELSE "edited"]
  /\ view' = Map(view, o, "edited")
  /\ cache' = [cache EXCEPT ![o] = "edited"]
  /\ writes' = writes \cup {SaveLocal(o, "edited", ConversationOf[o])}
  /\ UNCHANGED <<events, opened, stored, pageVars, load, handlers, shown, historyVars, failures>>

\* A temporary entry can be deleted too: the server knows nothing of its id.
DeleteOwn(o) ==
  /\ o \in Deletes /\ conv = ConversationOf[o]
  /\ \E e \in view :
       /\ e.id = o /\ e.shows # "deleted"
       /\ view' = (view \ {e}) \cup {[e EXCEPT !.shows = "deleted"]}
       /\ IF e.temp THEN UNCHANGED <<server, cache, writes, known, raced>>
          ELSE /\ server' = [server EXCEPT ![o] = "gone"]
               /\ Forget(o) /\ Know(o)
  /\ UNCHANGED <<events, opened, stored, pageVars, load, handlers, own, shown, missed, cut,
                 crossed, unserved, failures>>

-----------------------------------------------------------------------------
(* The page                                                                *)

\* A write is done; which one is next depends on the encryptions before them.
Write(w) ==
  /\ writes' = writes \ {w}
  /\ stored' = [stored EXCEPT ![w.id] =
       IF w.op = "save" THEN [text |-> w.text, conv |-> w.conv] ELSE NotStored]
  /\ UNCHANGED <<serverVars, opened, pageVars, view, cache, load, handlers, own, shown,
                 historyVars, failures>>

\* The effects of a change of conversation: the cache is emptied, the list is not, and
\* a load that is under way keeps a new one from starting.
ChooseConversation(c) ==
  /\ online /\ c # conv /\ switches < MaxSwitches
  /\ switches' = switches + 1
  /\ conv' = c /\ cache' = NoCache /\ shown' = None
  /\ IF ready THEN StartLoad(c) ELSE UNCHANGED load
  /\ unserved' = (load.step # "idle")
  /\ crossed' = crossed \cup {<<h.id, h.step>> : h \in handlers}
                        \cup {<<o, own[o]>> : o \in {x \in Own : own[x] = "encrypting"}}
  /\ UNCHANGED <<serverVars, opened, stored, online, ready, view, handlers, writes, own,
                 missed, cut, known, raced, failures>>

BecomeReady ==
  /\ online /\ ~ready /\ ready' = TRUE /\ StartLoad(conv)
  /\ UNCHANGED <<serverVars, opened, stored, online, conv, switches, view, cache, handlers,
                 writes, own, shown, historyVars, failures>>

\* Events on the socket are lost: a connection that is made anew brings none of them.
LoseEvents ==
  /\ events # <<>> /\ failures < MaxFailures
  /\ failures' = failures + 1 /\ events' = <<>>
  /\ LET lost(type) == {events[i].id : i \in {j \in DOMAIN events : events[j].type = type}}
     IN  /\ missed' = missed \cup lost("message:edited")
         /\ cut' = cut \cup lost("ack")
         /\ own' = [o \in Own |-> IF o \in lost("ack") \cup lost("nack") THEN "stuck" ELSE own[o]]
  /\ UNCHANGED <<server, opened, stored, pageVars, view, cache, load, handlers, writes, shown,
                 known, raced, crossed, unserved>>

\* The page goes, and with it all that is not in the database or at the server.
Close ==
  /\ online /\ failures < MaxFailures
  /\ failures' = failures + 1
  /\ online' = FALSE /\ conv' = None /\ ready' = FALSE
  /\ events' = <<>> /\ view' = {} /\ cache' = NoCache /\ load' = IdleLoad
  /\ handlers' = {} /\ writes' = {} /\ shown' = None /\ unserved' = FALSE
  /\ own' = [o \in Own |->
       CASE own[o] = "emitted" -> "orphan"
         [] own[o] \in {"encrypting", "answered"} -> "stuck"
         [] own[o] = "re-encrypting" -> "sent"
         [] OTHER -> own[o]]
  /\ cut' = cut \cup {w.id : w \in writes} \cup {o \in Own : own[o] \in {"emitted", "answered"}}
  /\ missed' = missed
       \cup {events[i].id : i \in {j \in DOMAIN events : events[j].text = "edited"}}
       \cup {h.id : h \in {g \in handlers : g.text = "edited"}}
  /\ UNCHANGED <<server, opened, stored, switches, known, raced, crossed>>

OpenPage ==
  /\ ~online /\ online' = TRUE
  /\ UNCHANGED <<serverVars, opened, stored, conv, ready, switches, view, cache, load,
                 handlers, writes, own, shown, historyVars, failures>>

-----------------------------------------------------------------------------
Init ==
  /\ \E messages \in Scenarios :
       server = [m \in Ids |-> IF m \in messages THEN "unsent" ELSE "gone"]
  /\ events = <<>>
  /\ opened = {} /\ stored = [m \in Ids |-> NotStored]
  /\ online = TRUE /\ conv = None /\ ready = FALSE
  /\ view = {} /\ cache = NoCache /\ load = IdleLoad /\ handlers = {} /\ writes = {}
  /\ own = [o \in Own |-> "unsent"] /\ shown = None
  /\ missed = {} /\ cut = {} /\ known = {} /\ raced = {} /\ crossed = {} /\ unserved = FALSE
  /\ switches = 0 /\ failures = 0

Next ==
  \/ \E m \in Theirs : TheyWrite(m) \/ TheyEdit(m) \/ TheyDelete(m)
  \/ \E o \in Own, success \in BOOLEAN : Answer(o, success)
  \/ Fetch \/ FetchFails \/ ReadLocal \/ NextMessage \/ LoadSlice \/ LoadDecrypt
  \/ ShowHistory \/ EndLoad
  \/ Receive \/ ReceiveDeleted \/ ReceiveAck \/ ReceiveNack
  \/ \E h \in handlers : Process(h) \/ StartDecrypt(h) \/ DecryptMessage(h) \/ DecryptEdit(h)
  \/ \E o \in Own : StartSend(o) \/ StartEdit(o) \/ EmitEdit(o) \/ DeleteOwn(o)
  \/ \E o \in Own, dropped \in BOOLEAN : EmitMessage(o, dropped)
  \/ \E w \in writes : Write(w)
  \/ \E c \in Conversations : ChooseConversation(c)
  \/ BecomeReady \/ LoseEvents \/ Close \/ OpenPage

Spec == Init /\ [][Next]_viewVars

-----------------------------------------------------------------------------
(* Properties *)

Kept(m) ==
  \/ stored[m].conv = ConversationOf[m]
  \/ \E w \in writes : w.op = "save" /\ w.id = m /\ w.conv = ConversationOf[m]

\* messageProcessing.js:218, messageSending.js:129: a text this device has decrypted, or
\* sent and had acknowledged, is in the database under its conversation or about to be,
\* whatever the list shows, so that the next load shows it. It is not if the page was
\* closed, or the answer lost, before it was written; if the message was deleted; or if
\* the conversation changed between the arrival of the message and its decryption.
TextsKept ==
  \A m \in Ids :
    \/ Kept(m)
    \/ m \in cut \cup known \/ <<m, "device">> \in crossed
    \/ IF m \in Own THEN own[m] \notin {"sent", "re-encrypting"}
       ELSE \A text \in Texts : <<m, text>> \notin opened

\* useMessages.js:382, messageActions.js:87: once the page has handled a deletion, no copy
\* of the text is left, or one that is about to go, neither in the cache nor in the
\* database, unless a call, a write or an answer that brings it back was under way then,
\* or the page was closed before the copy was removed.
DeletedIsGone ==
  \A m \in known \ (raced \cup cut) :
    /\ cache[m] = NoText
    /\ stored[m] = NotStored \/ DeleteLocal(m) \in writes
    /\ \A w \in writes : w.id = m => w.op = "delete"

\* useMessages.js:329: the list shows the original of a message that was edited only until
\* the edit is applied, or when the page was not there for the edit, could not open it,
\* applied it while something that carries the original was under way, or read the copies
\* of the database before the edit was among them.
EditsShown ==
  \A e \in view :
    e.id \in Theirs /\ e.shows = "original" /\ server[e.id] = "edited" =>
      \/ e.id \in missed \cup cut
      \/ \E i \in DOMAIN events : events[i].id = e.id /\ events[i].text = "edited"
      \/ \E h \in handlers : h.id = e.id /\ h.text = "edited"

\* useMessages.js:130, :157: a conversation that was opened is shown when nothing is
\* loading, unless it was opened during a load, which then stays the last one, or the
\* server did not answer; and from then on the list shows its messages alone, but for
\* those whose handling had begun when it was opened.
ListBelongs ==
  /\ conv # None /\ ready /\ load.step = "idle" => shown = conv \/ unserved
  /\ shown = conv => \A e \in view :
       ConversationOf[e.id] = conv \/ \E c \in crossed : c[1] = e.id

\* processMessages, sendSecureMessage, the handlers of useMessages.js: the copies of a
\* device hold what it has read or sent, and not what it saw deleted.
CopiesAccountedFor == TextsKept /\ DeletedIsGone

\* loadMessages, the handlers of useMessages.js: the list is of the conversation that is
\* open, with the edits this page was there for.
ListAccountedFor == EditsShown /\ ListBelongs
=============================================================================
