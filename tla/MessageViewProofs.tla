------------------------- MODULE MessageViewProofs -------------------------
(***************************************************************************)
(* Proofs about MessageView: that the copies a device keeps and the list a *)
(* page shows are accounted for, for any messages and conversations, and   *)
(* any number of switches and failures.                                    *)
(***************************************************************************)
EXTENDS MessageView, SequenceLemmas

-----------------------------------------------------------------------------
(* Types                                                                   *)

MaybeConversation == Conversations \cup {None}
Shows == Texts \cup {"raw", "error", "unavailable", "deleted"}
Entries == [id : Ids, temp : {FALSE}, shows : Shows] \cup [id : Own, temp : {TRUE}, shows : Shows]
Cache == [Ids -> Texts \cup {NoText}]
Event ==
    [type : {"message"}, id : Theirs, text : {"original"}]
    \cup [type : {"message:edited"}, id : Theirs, text : {"edited"}]
    \cup [type : {"message:deleted"}, id : Theirs, text : {NoText}]
    \cup [type : {"ack", "nack"}, id : Own, text : {"original"}]
MessageHandler ==
    [type : {"message"}, id : Theirs, text : {"original"}, conv : MaybeConversation,
     step : {"device", "slice", "decrypt"}]
EditHandler ==
    [type : {"message:edited"}, id : Theirs, text : {"edited"}, conv : {None},
     step : {"device", "decrypt"}]
Save == [op : {"save"}, id : Ids, text : Texts, conv : MaybeConversation]
Deletion == [op : {"delete"}, id : Ids, text : {NoText}, conv : {None}]
Load ==
    [step : {"idle", "fetch", "local", "next", "slice", "decrypt", "mark"},
     conv : MaybeConversation, todo : Seq([id : Ids, text : Texts]), local : Cache,
     done : SUBSET Entries]

\* A load is of one conversation, and at the step it is at.
LoadSound ==
    /\ load.step = "idle" => load = IdleLoad
    /\ load.step # "idle" => load.conv \in Conversations
    /\ load.step \in {"slice", "decrypt"} => load.todo # <<>>
    /\ load.step = "decrypt" => Head(load.todo).id \in Theirs
    /\ \A i \in DOMAIN load.todo : ConversationOf[load.todo[i].id] = load.conv
    /\ \A e \in load.done : ConversationOf[e.id] = load.conv /\ e.temp = FALSE

ViewTypeOK ==
    /\ server \in [Ids -> {"unsent", "original", "edited", "gone"}]
    /\ events \in Seq(Event)
    /\ opened \in SUBSET (Theirs \X Texts)
    /\ stored \in [Ids -> {NotStored} \cup [text : Texts, conv : MaybeConversation]]
    /\ online \in BOOLEAN /\ conv \in MaybeConversation /\ ready \in BOOLEAN
    /\ view \in SUBSET Entries
    /\ cache \in Cache
    /\ load \in Load /\ LoadSound
    /\ handlers \in SUBSET (MessageHandler \cup EditHandler)
    /\ writes \in SUBSET (Save \cup Deletion)
    /\ own \in [Own -> {"unsent", "encrypting", "stuck", "emitted", "orphan", "answered", "sent",
                        "re-encrypting"}]

-----------------------------------------------------------------------------
(* In which order things arrive                                            *)

\* Nothing is announced of a message before it is written, the message itself
\* before its edit, and nothing after its deletion.
Unannounced ==
    \A m \in Theirs : server[m] = "unsent" =>
        /\ \A i \in DOMAIN events : events[i].id # m
        /\ \A h \in handlers : h.id # m
MessageFirst ==
    \A j \in DOMAIN events : events[j].type = "message" =>
        /\ \A i \in DOMAIN events : i < j => events[i].id # events[j].id
        /\ \A h \in handlers : h.id = events[j].id => h.text # "edited"
DeletedLast ==
    \A i \in DOMAIN events : events[i].type = "message:deleted" =>
        /\ server[events[i].id] = "gone"
        /\ \A j \in DOMAIN events : i < j => events[j].id # events[i].id

\* A message of this user is answered once.
AnsweredOnce ==
    \A i \in DOMAIN events : events[i].type \in {"ack", "nack"} =>
        /\ own[events[i].id] = "answered"
        /\ \A j \in DOMAIN events : events[j].id = events[i].id => j = i

\* What the server does not have yet has no entry but a temporary one.
OwnInStep ==
    \A o \in Own :
        /\ own[o] \in {"encrypting", "emitted", "orphan"} => server[o] = "unsent"
        /\ own[o] \in {"answered", "sent", "re-encrypting"} => server[o] # "unsent"
        /\ own[o] = "unsent" => server[o] \in {"unsent", "gone"}
Unsent(m) == server[m] = "unsent" \/ (m \in Own /\ own[m] = "unsent")
NoneOfUnsent ==
    \A m \in Ids : Unsent(m) =>
        /\ \A e \in view : e.id = m => e.temp
        /\ \A e \in load.done : e.id # m
        /\ \A i \in DOMAIN load.todo : load.todo[i].id # m
        /\ m \notin known

Arrivals == Unannounced /\ MessageFirst /\ DeletedLast /\ AnsweredOnce /\ OwnInStep /\ NoneOfUnsent

-----------------------------------------------------------------------------
(* The copies                                                              *)

Astray(m) == <<m, "device">> \in crossed

\* A copy is written under the conversation of its message, unless that changed
\* before the handler of the message asked for it.
SavesRight ==
    \A w \in writes : w.op = "save" => w.conv = ConversationOf[w.id] \/ Astray(w.id)
HandlersRight ==
    \A h \in handlers : h.type = "message" =>
        (IF h.step = "device" THEN conv ELSE h.conv) = ConversationOf[h.id] \/ Astray(h.id)
DeletesKnown == \A w \in writes : w.op = "delete" => w.id \in known
OrphansCut == \A o \in Own : own[o] = "orphan" => o \in cut
CopyInv == TextsKept /\ SavesRight /\ HandlersRight /\ DeletesKnown /\ OrphansCut

\* Nothing more comes of a message that was deleted, or of work that had not begun.
KnownGone ==
    \A m \in known :
        /\ m \in Ids /\ server[m] = "gone"
        /\ m \in Theirs => \A i \in DOMAIN events : events[i].id # m
Clear(m) ==
    /\ ~Underway(m)
    /\ cache[m] = NoText
    /\ stored[m] = NotStored \/ DeleteLocal(m) \in writes
DeletedInv == KnownGone /\ \A m \in known \ (raced \cup cut) : Clear(m)

-----------------------------------------------------------------------------
(* The list                                                                *)

\* The edit of a message is still to be applied, or was missed.
Excused(m) ==
    \/ m \in missed \cup cut
    \/ \E i \in DOMAIN events : events[i].id = m /\ events[i].text = "edited"
    \/ \E h \in handlers : h.id = m /\ h.text = "edited"

\* After that no original is left that could take its place again.
NoOriginal(m) ==
    /\ \A e \in view \cup load.done : e.id = m => e.shows # "original"
    /\ \A i \in DOMAIN load.todo : load.todo[i].id = m => load.todo[i].text # "original"
    /\ load.local[m] # "original" /\ cache[m] # "original"
    /\ \A h \in handlers : h.id # m
    /\ \A i \in DOMAIN events : events[i].id = m => events[i].type # "message"
    /\ \A w \in writes : w.id = m => w.text # "original"
    /\ stored[m].text = "original" => \E w \in writes : w.id = m /\ w.text = "edited"
EditInv == \A m \in Theirs : server[m] = "edited" => Excused(m) \/ NoOriginal(m)

\* What is under way belongs to the open conversation, or was when it began.
Belongs(m) == ConversationOf[m] = conv \/ \E c \in crossed : c[1] = m
LoadCurrent ==
    /\ load.step # "idle" => ready /\ (load.conv = conv \/ unserved)
    /\ load.step = "mark" => shown = conv \/ unserved
NothingOpen == conv = None => view = {} /\ handlers = {} /\ load.step = "idle"
CallsBelong ==
    /\ \A h \in handlers : Belongs(h.id)
    /\ \A o \in Own : own[o] = "encrypting" => conv # None /\ Belongs(o)
ListInv == ListBelongs /\ LoadCurrent /\ NothingOpen /\ CallsBelong

ViewInv == ViewTypeOK /\ Arrivals /\ CopyInv /\ DeletedInv /\ EditInv /\ ListInv

-----------------------------------------------------------------------------
(* What the steps do to sequences                                          *)

LEMMA Basics ==
    /\ \A m \in Theirs : m \in Ids /\ m \notin Own
    /\ \A o \in Own : o \in Ids /\ o \notin Theirs
    /\ \A m \in Ids : m \in Theirs \/ m \in Own
    /\ None \notin Conversations
    /\ \A m \in Ids : ConversationOf[m] \in Conversations /\ ConversationOf[m] # None
BY MessageViewAssumption DEF Ids, Conversations

\* The first of a sequence, and those after it.
LEMMA HeadAndTail ==
    ASSUME NEW S, NEW s \in Seq(S), s # <<>>
    PROVE  /\ Head(s) = s[1] /\ s[1] \in S /\ 1 \in DOMAIN s
           /\ Tail(s) \in Seq(S)
           /\ \A i \in DOMAIN Tail(s) : i + 1 \in DOMAIN s /\ Tail(s)[i] = s[i + 1] /\ i + 1 > 1
<1>1. Len(s) \in Nat /\ Len(s) # 0 /\ DOMAIN s = 1 .. Len(s)
  BY EmptySeq
<1>2. Tail(s) \in Seq(S) /\ Len(Tail(s)) = Len(s) - 1 /\ Head(s) = s[1]
      /\ \A i \in 1 .. Len(Tail(s)) : Tail(s)[i] = s[i + 1]
  BY <1>1, HeadTailProperties
<1>3. DOMAIN Tail(s) = 1 .. Len(s) - 1
  BY <1>2
<1> QED BY <1>1, <1>2, <1>3

LEMMA Appended ==
    ASSUME NEW S, NEW s \in Seq(S), NEW x \in S
    PROVE  /\ Append(s, x) \in Seq(S)
           /\ Len(s) \in Nat /\ Len(s) + 1 \in DOMAIN Append(s, x)
           /\ \A i \in DOMAIN s : i \in DOMAIN Append(s, x) /\ i < Len(s) + 1
           /\ \A i \in DOMAIN Append(s, x) :
                Append(s, x)[i] = IF i = Len(s) + 1 THEN x ELSE s[i]
           /\ \A i \in DOMAIN Append(s, x) : i = Len(s) + 1 \/ i \in DOMAIN s
<1>1. DOMAIN s = 1 .. Len(s) /\ Len(s) \in Nat
  OBVIOUS
<1>2. /\ Append(s, x) \in Seq(S) /\ Len(Append(s, x)) = Len(s) + 1
      /\ \A i \in 1 .. Len(s) : Append(s, x)[i] = s[i]
      /\ Append(s, x)[Len(s) + 1] = x
  BY AppendProperties
<1>3. DOMAIN Append(s, x) = 1 .. Len(s) + 1
  BY <1>2
<1> QED BY <1>1, <1>2, <1>3

\* What getMessages answers with.
Page == [id : Ids, text : Texts]
LEMMA FetchEffect ==
    ASSUME ViewTypeOK, Fetch
    PROVE  /\ load' = [load EXCEPT !.step = "local", !.todo = load'.todo]
           /\ load'.todo \in Seq(Page)
           /\ \A k \in DOMAIN load'.todo :
                /\ ConversationOf[load'.todo[k].id] = load.conv
                /\ load'.todo[k].text = server[load'.todo[k].id] /\ load'.todo[k].text \in Texts
<1> DEFINE S == {i \in DOMAIN History : ConversationOf[History[i]] = load.conv
                                         /\ server[History[i]] \in Texts}
           order == InOrder(S)
           todo == [k \in DOMAIN order |-> [id |-> History[order[k]],
                                            text |-> server[History[order[k]]]]]
<1>1. load' = [load EXCEPT !.step = "local", !.todo = todo]
  BY DEF Fetch
<1>2. History \in Seq(Ids) /\ Len(History) \in Nat /\ DOMAIN History = 1 .. Len(History)
  BY MessageViewAssumption
<1>3. S \in SUBSET (1 .. Len(History))
  BY <1>2
<1>4. Cardinality(S) \in Nat /\ order \in [1 .. Cardinality(S) -> S]
  <2> HIDE DEF S
  <2>1. S \in SUBSET Nat /\ IsFiniteSet(S)
    BY <1>2, <1>3, InOrderOfPositions
  <2> QED BY <2>1, InOrderProperties
<1>5. \A i \in S : History[i] \in Ids /\ ConversationOf[History[i]] = load.conv
                   /\ server[History[i]] \in Texts
  BY <1>2
<1> HIDE DEF S
<1>6. DOMAIN order = 1 .. Cardinality(S) /\ \A k \in 1 .. Cardinality(S) : order[k] \in S
  BY <1>4
<1> HIDE DEF order
<1>7. /\ DOMAIN todo = 1 .. Cardinality(S)
      /\ \A k \in DOMAIN todo :
           /\ todo[k] \in Page /\ ConversationOf[todo[k].id] = load.conv
           /\ todo[k].text = server[todo[k].id] /\ todo[k].text \in Texts
  BY <1>5, <1>6 DEF Page
<1>8. todo \in Seq(Page)
  <2>1. todo \in [1 .. Cardinality(S) -> Page]
    BY <1>6, <1>7
  <2> DEFINE n == Cardinality(S)
  <2>2. n \in Nat /\ todo \in [1 .. n -> Page]
    BY <1>4, <2>1
  <2> HIDE DEF n, todo
  <2> QED BY <2>2
<1>9. load'.todo = todo
  BY <1>1 DEF ViewTypeOK, Load
<1> HIDE DEF todo
<1> QED BY <1>1, <1>7, <1>8, <1>9

-----------------------------------------------------------------------------
(* Type correctness                                                        *)

LEMMA Parts ==
    ASSUME ViewTypeOK
    PROVE  /\ load.todo \in Seq(Page) /\ load.local \in Cache /\ load.done \in SUBSET Entries
           /\ load.conv \in MaybeConversation
           /\ \A x \in Ids : cache[x] \in Texts \cup {NoText} /\ load.local[x] \in Texts \cup {NoText}
           /\ IdleLoad \in Load /\ IdleLoad.todo = <<>> /\ IdleLoad.done = {}
           /\ \A h \in handlers : h.id \in Theirs /\ h.text \in Texts
           /\ \A e \in Event : e.id \in Ids
<1>1. load \in Load
  BY DEF ViewTypeOK
<1>2. <<>> \in Seq(Page) /\ NoCache \in Cache
  BY DEF NoCache, Cache
<1>3. IdleLoad \in Load /\ IdleLoad.todo = <<>> /\ IdleLoad.done = {}
  BY <1>2 DEF IdleLoad, Load, Page, MaybeConversation
<1> QED BY <1>1, <1>3, Basics DEF ViewTypeOK, Load, Page, Cache, MessageHandler, EditHandler, Event, Texts

\* An entry that is marked, listed or replaced is still an entry.
LEMMA MapType ==
    ASSUME NEW list \in SUBSET Entries, NEW m \in Ids, NEW x \in Shows
    PROVE  Map(list, m, x) \in SUBSET Entries /\ Entry(m, x) \in Entries
<1>1. Entry(m, x) \in Entries
  BY DEF Entry, Entries
<1> QED BY <1>1 DEF Map

LEMMA AppendType ==
    ASSUME ViewTypeOK, NEW m \in Ids, NEW x \in Shows, AppendToList(m, x)
    PROVE  view' \in SUBSET Entries
<1>1. Entry(m, x) \in Entries
  BY DEF Entry, Entries
<1>2. view \in SUBSET Entries
  BY DEF ViewTypeOK
<1> QED BY <1>1, <1>2 DEF AppendToList

LEMMA ProcessedType ==
    ASSUME ViewTypeOK, load.todo # <<>>, NEW x \in Shows, Processed(x)
    PROVE  load' \in Load /\ LoadSound' /\ load'.step = "next"
<1>1. load \in Load /\ LoadSound
  BY DEF ViewTypeOK
<1>2. /\ Head(load.todo) = load.todo[1] /\ load.todo[1] \in Page /\ 1 \in DOMAIN load.todo
      /\ Tail(load.todo) \in Seq(Page)
      /\ \A i \in DOMAIN Tail(load.todo) :
           i + 1 \in DOMAIN load.todo /\ Tail(load.todo)[i] = load.todo[i + 1]
  BY Parts, HeadAndTail
<1> DEFINE e == Entry(Head(load.todo).id, x)
<1>3. e \in Entries /\ e.id = load.todo[1].id /\ e.temp = FALSE
  BY <1>2, MapType DEF Entry, Page
<1>4. load' = [load EXCEPT !.step = "next", !.todo = Tail(load.todo), !.done = load.done \cup {e}]
  BY DEF Processed
<1> HIDE DEF e
<1>5. load.step # "idle"
  BY <1>1, Parts DEF LoadSound
<1>6. /\ load'.step = "next" /\ load'.todo = Tail(load.todo) /\ load'.done = load.done \cup {e}
      /\ load'.conv = load.conv /\ load' \in Load
  BY <1>1, <1>2, <1>3, <1>4 DEF Load, Page
<1> QED BY <1>1, <1>2, <1>3, <1>5, <1>6 DEF LoadSound

LEMMA StartLoadType ==
    ASSUME ViewTypeOK, NEW c \in MaybeConversation, StartLoad(c)
    PROVE  load' \in Load /\ LoadSound'
<1>1. CASE c # None /\ load.step = "idle"
  <2>1. load' = [IdleLoad EXCEPT !.step = "fetch", !.conv = c]
    BY <1>1 DEF StartLoad
  <2>2. /\ load' \in Load /\ load'.step = "fetch" /\ load'.conv = c
        /\ load'.todo = <<>> /\ load'.done = {}
    BY <2>1, Parts DEF Load, IdleLoad
  <2> QED BY <1>1, <2>2 DEF LoadSound, MaybeConversation
<1>2. CASE ~(c # None /\ load.step = "idle")
  <2>1. load' = load
    BY <1>2 DEF StartLoad
  <2> QED BY <2>1 DEF ViewTypeOK, LoadSound
<1> QED BY <1>1, <1>2

LEMMA OpenType ==
    ASSUME ViewTypeOK, NEW m \in Theirs, NEW text \in Texts, NEW c \in MaybeConversation,
           Open(m, text, c)
    PROVE  /\ opened' \in SUBSET (Theirs \X Texts) /\ cache' \in Cache
           /\ writes' \in SUBSET (Save \cup Deletion)
<1>1. SaveLocal(m, text, c) \in Save
  BY Basics DEF SaveLocal, Save
<1> QED BY <1>1, Basics DEF Open, ViewTypeOK, Cache

LEMMA ForgetType ==
    ASSUME ViewTypeOK, NEW m \in Ids, Forget(m)
    PROVE  cache' \in Cache /\ writes' \in SUBSET (Save \cup Deletion)
<1>1. DeleteLocal(m) \in Deletion
  BY DEF DeleteLocal, Deletion
<1> QED BY <1>1 DEF Forget, ViewTypeOK, Cache

\* The steps of the server, the others and the page.
Outside ==
    \/ \E m \in Theirs : TheyWrite(m) \/ TheyEdit(m) \/ TheyDelete(m)
    \/ \E o \in Own, success \in BOOLEAN : Answer(o, success)
    \/ LoseEvents
LEMMA OutsideType == ViewTypeOK /\ Outside => ViewTypeOK'
<1> SUFFICES ASSUME ViewTypeOK, Outside PROVE ViewTypeOK'
  OBVIOUS
<1> USE DEF serverVars, pageVars, historyVars
<1>1. ASSUME NEW e \in Event
      PROVE  Append(events, e) \in Seq(Event)
  BY DEF ViewTypeOK
<1>2. ASSUME NEW m \in Theirs, TheyWrite(m) PROVE ViewTypeOK'
  <2>1. [type |-> "message", id |-> m, text |-> "original"] \in Event
    BY DEF Event
  <2>2. events' \in Seq(Event)
    BY <1>1, <1>2, <2>1 DEF TheyWrite, Announce, ViewTypeOK
  <2> QED BY <1>2, <2>2 DEF TheyWrite, ViewTypeOK, LoadSound
<1>3. ASSUME NEW m \in Theirs, TheyEdit(m) PROVE ViewTypeOK'
  <2>1. [type |-> "message:edited", id |-> m, text |-> "edited"] \in Event
    BY DEF Event
  <2>2. events' \in Seq(Event)
    BY <1>1, <1>3, <2>1 DEF TheyEdit, Announce, ViewTypeOK
  <2> QED BY <1>3, <2>2 DEF TheyEdit, ViewTypeOK, LoadSound
<1>4. ASSUME NEW m \in Theirs, TheyDelete(m) PROVE ViewTypeOK'
  <2>1. [type |-> "message:deleted", id |-> m, text |-> NoText] \in Event
    BY DEF Event
  <2>2. events' \in Seq(Event)
    BY <1>1, <1>4, <2>1 DEF TheyDelete, Announce, ViewTypeOK
  <2> QED BY <1>4, <2>2 DEF TheyDelete, ViewTypeOK, LoadSound
<1>5. ASSUME NEW o \in Own, NEW success \in BOOLEAN, Answer(o, success) PROVE ViewTypeOK'
  <2> DEFINE e == [type |-> IF success THEN "ack" ELSE "nack", id |-> o, text |-> "original"]
  <2>1. e \in Event
    BY DEF Event
  <2> HIDE DEF e
  <2>2. events' \in Seq(Event)
    BY <1>1, <1>5, <2>1 DEF Answer, ViewTypeOK, e
  <2>3. /\ server' \in [Ids -> {"unsent", "original", "edited", "gone"}]
        /\ own' \in [Own -> {"unsent", "encrypting", "stuck", "emitted", "orphan", "answered",
                             "sent", "re-encrypting"}]
    BY <1>5 DEF Answer, ViewTypeOK
  <2> QED BY <1>5, <2>2, <2>3 DEF Answer, ViewTypeOK, LoadSound
<1>6. ASSUME LoseEvents PROVE ViewTypeOK'
  <2>1. events' = <<>> /\ events' \in Seq(Event)
    BY <1>6 DEF LoseEvents
  <2>2. own' \in [Own -> {"unsent", "encrypting", "stuck", "emitted", "orphan", "answered",
                          "sent", "re-encrypting"}]
    BY <1>6 DEF LoseEvents, ViewTypeOK
  <2> QED BY <1>6, <2>1, <2>2 DEF LoseEvents, ViewTypeOK, LoadSound
<1> QED BY <1>2, <1>3, <1>4, <1>5, <1>6 DEF Outside

Loading == Fetch \/ FetchFails \/ ReadLocal \/ NextMessage \/ LoadSlice \/ LoadDecrypt
           \/ ShowHistory \/ EndLoad
LEMMA LoadingType == ViewTypeOK /\ Loading => ViewTypeOK'
<1> SUFFICES ASSUME ViewTypeOK, Loading PROVE ViewTypeOK'
  OBVIOUS
<1> USE DEF serverVars, pageVars, historyVars
<1>1. load \in Load /\ LoadSound
  BY DEF ViewTypeOK
<1>2. ASSUME load' \in Load, LoadSound',
             UNCHANGED <<serverVars, opened, stored, pageVars, view, cache, handlers, writes, own>>
      PROVE  ViewTypeOK'
  BY <1>2 DEF ViewTypeOK
<1>3. ASSUME load.todo # <<>>
      PROVE  /\ Head(load.todo) = load.todo[1] /\ load.todo[1] \in Page /\ 1 \in DOMAIN load.todo
             /\ Head(load.todo).id \in Ids /\ Head(load.todo).text \in Texts
  <2>1. Head(load.todo) = load.todo[1] /\ load.todo[1] \in Page /\ 1 \in DOMAIN load.todo
    BY <1>3, Parts, HeadAndTail
  <2> QED BY <2>1 DEF Page
<1>4. CASE Fetch
  <2>1. load' = [load EXCEPT !.step = "local", !.todo = load'.todo] /\ load'.todo \in Seq(Page)
        /\ \A k \in DOMAIN load'.todo : ConversationOf[load'.todo[k].id] = load.conv
    BY <1>4, FetchEffect
  <2>2. load.step = "fetch"
    BY <1>4 DEF Fetch
  <2>3. load' \in Load /\ load'.step = "local" /\ load'.conv = load.conv /\ load'.done = load.done
    BY <1>1, <2>1 DEF Load, Page
  <2>4. LoadSound'
    BY <1>1, <2>1, <2>2, <2>3 DEF LoadSound
  <2> QED BY <1>2, <1>4, <2>3, <2>4 DEF Fetch
<1>5. CASE FetchFails
  <2>1. load' = IdleLoad
    BY <1>5 DEF FetchFails
  <2>2. load' \in Load /\ LoadSound'
    BY <2>1, Parts DEF LoadSound, IdleLoad
  <2> QED BY <1>2, <1>5, <2>2 DEF FetchFails
<1>6. CASE ReadLocal
  <2> DEFINE l == [m \in Ids |-> IF stored[m].conv = load.conv THEN stored[m].text ELSE NoText]
  <2>1. load' = [load EXCEPT !.step = "next", !.local = l] /\ load.step = "local"
    BY <1>6 DEF ReadLocal
  <2>2. l \in Cache
    BY DEF Cache, ViewTypeOK, NotStored
  <2> HIDE DEF l
  <2>3. /\ load' \in Load /\ load'.step = "next" /\ load'.conv = load.conv
        /\ load'.done = load.done /\ load'.todo = load.todo
    BY <1>1, <2>1, <2>2 DEF Load
  <2>4. LoadSound'
    BY <1>1, <2>1, <2>3 DEF LoadSound
  <2> QED BY <1>2, <1>6, <2>3, <2>4 DEF ReadLocal
<1>7. CASE NextMessage
  <2>1. CASE CopyOf(Head(load.todo).id) # NoText
    <3>1. load.todo # <<>> /\ Processed(CopyOf(Head(load.todo).id))
      BY <1>7, <2>1 DEF NextMessage
    <3>2. CopyOf(Head(load.todo).id) \in Shows
      BY <1>3, <2>1, <3>1, Parts DEF CopyOf, Shows
    <3>3. load' \in Load /\ LoadSound'
      BY <3>1, <3>2, ProcessedType
    <3> QED BY <1>2, <1>7, <3>3 DEF NextMessage
  <2>2. CASE CopyOf(Head(load.todo).id) = NoText
    <3>1. load.todo # <<>> /\ load' = [load EXCEPT !.step = "slice"] /\ load.step = "next"
      BY <1>7, <2>2 DEF NextMessage
    <3>2. load' \in Load /\ load'.step = "slice" /\ load'.conv = load.conv
          /\ load'.done = load.done /\ load'.todo = load.todo
      BY <1>1, <3>1 DEF Load
    <3>3. LoadSound'
      BY <1>1, <3>1, <3>2 DEF LoadSound
    <3> QED BY <1>2, <1>7, <3>2, <3>3 DEF NextMessage
  <2> QED BY <2>1, <2>2
<1>8. CASE LoadSlice
  <2>1. load.step = "slice" /\ load.todo # <<>>
    BY <1>1, <1>8 DEF LoadSlice, LoadSound
  <2>2. ASSUME NEW x \in Shows, Processed(x) PROVE load' \in Load /\ LoadSound'
    BY <2>1, <2>2, ProcessedType
  <2>3. CASE Head(load.todo).id \in Own \/ Busy(load.conv)
    <3>1. Processed("unavailable") \/ Processed("error")
      BY <1>8, <2>3 DEF LoadSlice
    <3>2. load' \in Load /\ LoadSound'
      BY <2>2, <3>1 DEF Shows
    <3> QED BY <1>2, <1>8, <3>2 DEF LoadSlice
  <2>4. CASE ~(Head(load.todo).id \in Own \/ Busy(load.conv))
    <3>1. load' = [load EXCEPT !.step = "decrypt"]
      BY <1>8, <2>4 DEF LoadSlice
    <3>2. load' \in Load /\ load'.step = "decrypt" /\ load'.conv = load.conv
          /\ load'.done = load.done /\ load'.todo = load.todo
      BY <1>1, <3>1 DEF Load
    <3>3. Head(load.todo).id \in Theirs
      BY <1>3, <2>1, <2>4, Basics
    <3>4. LoadSound'
      BY <1>1, <2>1, <3>2, <3>3 DEF LoadSound
    <3> QED BY <1>2, <1>8, <3>2, <3>4 DEF LoadSlice
  <2> QED BY <2>3, <2>4
<1>9. CASE LoadDecrypt
  <2> DEFINE next == Head(load.todo)
  <2>1. load.todo # <<>> /\ next.id \in Theirs /\ next.text \in Texts
    BY <1>1, <1>3, <1>9 DEF LoadDecrypt, LoadSound
  <2>2. next.text \in Shows /\ "error" \in Shows
    BY <2>1 DEF Shows
  <2>3. CASE <<next.id, next.text>> \notin opened
    <3>1. Open(next.id, next.text, load.conv) /\ Processed(next.text)
      BY <1>9, <2>3 DEF LoadDecrypt
    <3> HIDE DEF next
    <3>2. /\ opened' \in SUBSET (Theirs \X Texts) /\ cache' \in Cache
          /\ writes' \in SUBSET (Save \cup Deletion)
      BY <2>1, <3>1, Parts, OpenType
    <3>3. load' \in Load /\ LoadSound'
      BY <2>1, <2>2, <3>1, ProcessedType
    <3> QED BY <1>9, <3>2, <3>3 DEF LoadDecrypt, ViewTypeOK
  <2>4. CASE <<next.id, next.text>> \in opened
    <3>1. Processed("error") /\ UNCHANGED <<opened, cache, writes>>
      BY <1>9, <2>4 DEF LoadDecrypt
    <3>2. load' \in Load /\ LoadSound'
      BY <2>1, <2>2, <3>1, ProcessedType
    <3> QED BY <1>2, <1>9, <3>1, <3>2 DEF LoadDecrypt
  <2> QED BY <2>3, <2>4
<1>10. CASE ShowHistory
  <2>1. load' = [load EXCEPT !.step = "mark", !.done = {}] /\ load.step = "next"
    BY <1>10 DEF ShowHistory
  <2>2. load' \in Load /\ load'.step = "mark" /\ load'.conv = load.conv
        /\ load'.done = {} /\ load'.todo = load.todo
    BY <1>1, <2>1 DEF Load
  <2>3. LoadSound'
    BY <1>1, <2>1, <2>2 DEF LoadSound
  <2>4. view' \in SUBSET Entries
    BY <1>10, Parts DEF ShowHistory
  <2> QED BY <1>10, <2>2, <2>3, <2>4 DEF ShowHistory, ViewTypeOK
<1>11. CASE EndLoad
  <2>1. load' = IdleLoad
    BY <1>11 DEF EndLoad
  <2>2. load' \in Load /\ LoadSound'
    BY <2>1, Parts DEF LoadSound, IdleLoad
  <2> QED BY <1>2, <1>11, <2>2 DEF EndLoad
<1> QED BY <1>4, <1>5, <1>6, <1>7, <1>8, <1>9, <1>10, <1>11 DEF Loading

\* The event the page takes, and those that stay.
LEMMA Taken ==
    ASSUME ViewTypeOK, events # <<>>
    PROVE  /\ Head(events) = events[1] /\ Head(events) \in Event /\ 1 \in DOMAIN events
           /\ Tail(events) \in Seq(Event)
           /\ \A i \in DOMAIN Tail(events) :
                i + 1 \in DOMAIN events /\ Tail(events)[i] = events[i + 1] /\ i + 1 > 1
BY HeadAndTail DEF ViewTypeOK

Arriving == Receive \/ ReceiveDeleted \/ ReceiveAck \/ ReceiveNack
LEMMA ArrivingType == ViewTypeOK /\ Arriving => ViewTypeOK'
<1> SUFFICES ASSUME ViewTypeOK, Arriving PROVE ViewTypeOK'
  OBVIOUS
<1> USE DEF serverVars, pageVars, historyVars
<1> DEFINE e == Head(events)
<1>1. events # <<>> /\ events' = Tail(events)
  BY DEF Arriving, Receive, ReceiveDeleted, ReceiveAck, ReceiveNack
<1>2. e \in Event /\ events' \in Seq(Event)
  BY <1>1, Taken
<1> HIDE DEF e
<1>3. CASE Receive
  <2>1. e.type \in {"message", "message:edited"}
    BY <1>3 DEF Receive, e
  <2>2. Handler(e, "device") \in MessageHandler \cup EditHandler
    BY <1>2, <2>1 DEF Handler, Event, MessageHandler, EditHandler, MaybeConversation
  <2>3. handlers' \in SUBSET (MessageHandler \cup EditHandler)
    BY <1>3, <2>2 DEF Receive, ViewTypeOK, e
  <2> QED BY <1>2, <1>3, <2>3 DEF Receive, ViewTypeOK, LoadSound
<1>4. CASE ReceiveDeleted
  <2>1. e.id \in Ids
    BY <1>2, Parts
  <2>2. CASE Concerns(e)
    <3>1. view' = Map(view, e.id, "deleted") /\ Forget(e.id)
      BY <1>4, <2>2 DEF ReceiveDeleted, e
    <3>2. view' \in SUBSET Entries
      BY <2>1, <3>1, MapType DEF ViewTypeOK, Shows
    <3>3. cache' \in Cache /\ writes' \in SUBSET (Save \cup Deletion)
      BY <2>1, <3>1, ForgetType
    <3> QED BY <1>2, <1>4, <3>2, <3>3 DEF ReceiveDeleted, ViewTypeOK, LoadSound
  <2>3. CASE ~Concerns(e)
    <3>1. UNCHANGED <<view, cache, writes>>
      BY <1>4, <2>3 DEF ReceiveDeleted, e
    <3> QED BY <1>2, <1>4, <3>1 DEF ReceiveDeleted, ViewTypeOK, LoadSound
  <2> QED BY <2>2, <2>3
<1>5. CASE ReceiveAck
  <2>1. e.id \in Own
    BY <1>2, <1>5 DEF ReceiveAck, Event, e
  <2>2. view' = {IF x = Temp(e.id, x.shows) THEN Entry(e.id, "original") ELSE x : x \in view}
    BY <1>5 DEF ReceiveAck, e
  <2>3. Entry(e.id, "original") \in Entries
    BY <2>1, Basics, MapType DEF Shows, Texts
  <2>4. view' \in SUBSET Entries
    BY <2>2, <2>3 DEF ViewTypeOK
  <2>5. SaveLocal(e.id, "original", ConversationOf[e.id]) \in Save
    BY <2>1, Basics DEF SaveLocal, Save, Texts, MaybeConversation
  <2>6. writes' \in SUBSET (Save \cup Deletion)
    BY <1>5, <2>5 DEF ReceiveAck, ViewTypeOK, e
  <2>7. own' \in [Own -> {"unsent", "encrypting", "stuck", "emitted", "orphan", "answered",
                          "sent", "re-encrypting"}]
    BY <1>5, <2>1 DEF ReceiveAck, ViewTypeOK, e
  <2> QED BY <1>2, <1>5, <2>4, <2>6, <2>7 DEF ReceiveAck, ViewTypeOK, LoadSound
<1>6. CASE ReceiveNack
  <2>1. e.id \in Own
    BY <1>2, <1>6 DEF ReceiveNack, Event, e
  <2>2. view' \in SUBSET Entries
    BY <1>6 DEF ReceiveNack, ViewTypeOK
  <2>3. own' \in [Own -> {"unsent", "encrypting", "stuck", "emitted", "orphan", "answered",
                          "sent", "re-encrypting"}]
    BY <1>6, <2>1 DEF ReceiveNack, ViewTypeOK, e
  <2> QED BY <1>2, <1>6, <2>2, <2>3 DEF ReceiveNack, ViewTypeOK, LoadSound
<1> QED BY <1>3, <1>4, <1>5, <1>6 DEF Arriving

Handling == \E h \in handlers : Process(h) \/ StartDecrypt(h) \/ DecryptMessage(h) \/ DecryptEdit(h)
LEMMA HandlingType == ViewTypeOK /\ Handling => ViewTypeOK'
<1> SUFFICES ASSUME ViewTypeOK, NEW h \in handlers,
                    Process(h) \/ StartDecrypt(h) \/ DecryptMessage(h) \/ DecryptEdit(h)
             PROVE  ViewTypeOK'
  BY DEF Handling
<1> USE DEF serverVars, pageVars, historyVars
<1>1. /\ h \in MessageHandler \cup EditHandler /\ h.id \in Ids /\ h.id \in Theirs
      /\ h.text \in Texts /\ h.text \in Shows /\ "error" \in Shows /\ "raw" \in Shows
  BY Parts, Basics DEF ViewTypeOK, Shows
<1>2. Ends(h) => handlers' \in SUBSET (MessageHandler \cup EditHandler)
  BY DEF Ends, ViewTypeOK
<1>3. ASSUME NEW x \in Shows, AppendToList(h.id, x) PROVE view' \in SUBSET Entries
  BY <1>1, <1>3, AppendType
<1>4. CASE Process(h)
  <2>1. h.type = "message" /\ h \in MessageHandler
    BY <1>1, <1>4 DEF Process, MessageHandler, EditHandler
  <2>2. CASE ~ready
    <3>1. AppendToList(h.id, "raw") /\ Ends(h)
      BY <1>4, <2>2 DEF Process
    <3> QED BY <1>1, <1>2, <1>3, <1>4, <3>1 DEF Process, ViewTypeOK, LoadSound
  <2>3. CASE ready /\ cache[h.id] # NoText
    <3>1. AppendToList(h.id, cache[h.id]) /\ Ends(h)
      BY <1>4, <2>3 DEF Process
    <3>2. cache[h.id] \in Shows
      BY <1>1, <2>3, Parts DEF Shows
    <3> QED BY <1>2, <1>3, <1>4, <3>1, <3>2 DEF Process, ViewTypeOK, LoadSound
  <2>4. CASE ready /\ cache[h.id] = NoText
    <3>1. handlers' = (handlers \ {h}) \cup {[h EXCEPT !.step = "slice", !.conv = conv]}
          /\ UNCHANGED view
      BY <1>4, <2>4 DEF Process
    <3>2. [h EXCEPT !.step = "slice", !.conv = conv] \in MessageHandler
      BY <2>1 DEF MessageHandler, ViewTypeOK
    <3>3. handlers' \in SUBSET (MessageHandler \cup EditHandler)
      BY <3>1, <3>2 DEF ViewTypeOK
    <3> QED BY <1>4, <3>1, <3>3 DEF Process, ViewTypeOK, LoadSound
  <2> QED BY <2>2, <2>3, <2>4
<1>5. CASE StartDecrypt(h)
  <2>1. CASE ~Busy(ConversationOf[h.id])
    <3>1. handlers' = (handlers \ {h}) \cup {[h EXCEPT !.step = "decrypt"]} /\ UNCHANGED view
      BY <1>5, <2>1 DEF StartDecrypt, Steps
    <3>2. [h EXCEPT !.step = "decrypt"] \in MessageHandler \cup EditHandler
      BY <1>1 DEF MessageHandler, EditHandler
    <3>3. handlers' \in SUBSET (MessageHandler \cup EditHandler)
      BY <3>1, <3>2 DEF ViewTypeOK
    <3> QED BY <1>5, <3>1, <3>3 DEF StartDecrypt, ViewTypeOK, LoadSound
  <2>2. CASE Busy(ConversationOf[h.id])
    <3>1. Ends(h) /\ (AppendToList(h.id, "error") \/ UNCHANGED view)
      BY <1>5, <2>2 DEF StartDecrypt
    <3>2. view' \in SUBSET Entries
      BY <1>1, <1>3, <3>1 DEF ViewTypeOK
    <3> QED BY <1>2, <1>5, <3>1, <3>2 DEF StartDecrypt, ViewTypeOK, LoadSound
  <2> QED BY <2>1, <2>2
<1>6. CASE DecryptMessage(h)
  <2>1. h.type = "message" /\ h \in MessageHandler /\ Ends(h)
    BY <1>1, <1>6 DEF DecryptMessage, MessageHandler, EditHandler
  <2>2. h.conv \in MaybeConversation
    BY <2>1 DEF MessageHandler
  <2>3. CASE <<h.id, h.text>> \notin opened
    <3>1. Open(h.id, h.text, h.conv) /\ AppendToList(h.id, h.text)
      BY <1>6, <2>3 DEF DecryptMessage
    <3>2. /\ opened' \in SUBSET (Theirs \X Texts) /\ cache' \in Cache
          /\ writes' \in SUBSET (Save \cup Deletion)
      BY <1>1, <2>2, <3>1, OpenType
    <3> QED BY <1>1, <1>2, <1>3, <1>6, <2>1, <3>1, <3>2 DEF DecryptMessage, ViewTypeOK, LoadSound
  <2>4. CASE <<h.id, h.text>> \in opened
    <3>1. AppendToList(h.id, "error") /\ UNCHANGED <<opened, cache, writes>>
      BY <1>6, <2>4 DEF DecryptMessage
    <3> QED BY <1>1, <1>2, <1>3, <1>6, <2>1, <3>1 DEF DecryptMessage, ViewTypeOK, LoadSound
  <2> QED BY <2>3, <2>4
<1>7. CASE DecryptEdit(h)
  <2>1. Ends(h)
    BY <1>7 DEF DecryptEdit
  <2>2. ConversationOf[h.id] \in MaybeConversation
    BY <1>1, Basics DEF MaybeConversation
  <2>3. CASE <<h.id, h.text>> \notin opened
    <3>1. Open(h.id, h.text, ConversationOf[h.id]) /\ view' = Map(view, h.id, "edited")
      BY <1>7, <2>3 DEF DecryptEdit, ShowEdit
    <3>2. /\ opened' \in SUBSET (Theirs \X Texts) /\ cache' \in Cache
          /\ writes' \in SUBSET (Save \cup Deletion)
      BY <1>1, <2>2, <3>1, OpenType
    <3>3. view' \in SUBSET Entries
      BY <1>1, <3>1, MapType DEF ViewTypeOK, Shows, Texts
    <3> QED BY <1>2, <1>7, <2>1, <3>2, <3>3 DEF DecryptEdit, ViewTypeOK, LoadSound
  <2>4. CASE <<h.id, h.text>> \in opened
    <3>1. UNCHANGED <<opened, cache, writes, view>>
      BY <1>7, <2>4 DEF DecryptEdit
    <3> QED BY <1>2, <1>7, <2>1, <3>1 DEF DecryptEdit, ViewTypeOK, LoadSound
  <2> QED BY <2>3, <2>4
<1> QED BY <1>4, <1>5, <1>6, <1>7

Sending ==
    \/ \E o \in Own : StartSend(o) \/ StartEdit(o) \/ EmitEdit(o) \/ DeleteOwn(o)
    \/ \E o \in Own, dropped \in BOOLEAN : EmitMessage(o, dropped)
LEMMA SendingType == ViewTypeOK /\ Sending => ViewTypeOK'
<1> SUFFICES ASSUME ViewTypeOK, NEW o \in Own,
                    \/ StartSend(o) \/ StartEdit(o) \/ EmitEdit(o) \/ DeleteOwn(o)
                    \/ \E dropped \in BOOLEAN : EmitMessage(o, dropped)
             PROVE  ViewTypeOK'
  BY DEF Sending
<1> USE DEF serverVars, pageVars, historyVars
<1>1. o \in Ids /\ ConversationOf[o] \in MaybeConversation
  BY Basics DEF MaybeConversation
<1>2. CASE StartSend(o)
  BY <1>2 DEF StartSend, ViewTypeOK, LoadSound
<1>3. CASE StartEdit(o)
  BY <1>3 DEF StartEdit, ViewTypeOK, LoadSound
<1>4. CASE EmitEdit(o)
  <2>1. SaveLocal(o, "edited", ConversationOf[o]) \in Save
    BY <1>1 DEF SaveLocal, Save, Texts
  <2>2. writes' \in SUBSET (Save \cup Deletion)
    BY <1>4, <2>1 DEF EmitEdit, ViewTypeOK
  <2>3. view' \in SUBSET Entries
    BY <1>1, <1>4, MapType DEF EmitEdit, ViewTypeOK, Shows, Texts
  <2>4. cache' \in Cache /\ server' \in [Ids -> {"unsent", "original", "edited", "gone"}]
    BY <1>1, <1>4 DEF EmitEdit, ViewTypeOK, Cache, Texts
  <2> QED BY <1>4, <2>2, <2>3, <2>4 DEF EmitEdit, ViewTypeOK, LoadSound
<1>5. CASE DeleteOwn(o)
  <2>1. PICK e \in view :
          /\ e.id = o /\ view' = (view \ {e}) \cup {[e EXCEPT !.shows = "deleted"]}
          /\ IF e.temp THEN UNCHANGED <<server, cache, writes, known, raced>>
             ELSE server' = [server EXCEPT ![o] = "gone"] /\ Forget(o) /\ Know(o)
    BY <1>5 DEF DeleteOwn
  <2>2. e \in Entries
    BY DEF ViewTypeOK
  <2>3. [e EXCEPT !.shows = "deleted"] \in Entries
    BY <2>2 DEF Entries, Shows
  <2>4. view' \in SUBSET Entries
    BY <2>1, <2>3 DEF ViewTypeOK
  <2>5. CASE e.temp
    BY <1>5, <2>1, <2>4, <2>5 DEF DeleteOwn, ViewTypeOK, LoadSound
  <2>6. CASE ~e.temp
    <3>1. server' = [server EXCEPT ![o] = "gone"] /\ Forget(o)
      BY <2>1, <2>6
    <3>2. cache' \in Cache /\ writes' \in SUBSET (Save \cup Deletion)
      BY <1>1, <3>1, ForgetType
    <3> QED BY <1>5, <2>4, <3>1, <3>2 DEF DeleteOwn, ViewTypeOK, LoadSound
  <2> QED BY <2>5, <2>6
<1>6. ASSUME NEW dropped \in BOOLEAN, EmitMessage(o, dropped) PROVE ViewTypeOK'
  <2>1. Temp(o, "original") \in Entries
    BY DEF Temp, Entries, Shows, Texts
  <2>2. view' \in SUBSET Entries
    BY <1>6, <2>1 DEF EmitMessage, ViewTypeOK
  <2> QED BY <1>6, <2>2 DEF EmitMessage, ViewTypeOK, LoadSound
<1> QED BY <1>2, <1>3, <1>4, <1>5, <1>6

Paging ==
    \/ \E w \in writes : Write(w)
    \/ \E c \in Conversations : ChooseConversation(c)
    \/ BecomeReady \/ Close \/ OpenPage
LEMMA PagingType == ViewTypeOK /\ Paging => ViewTypeOK'
<1> SUFFICES ASSUME ViewTypeOK, Paging PROVE ViewTypeOK'
  OBVIOUS
<1> USE DEF serverVars, pageVars, historyVars
<1>1. NoCache \in Cache
  BY DEF NoCache, Cache
<1>2. ASSUME NEW w \in writes, Write(w) PROVE ViewTypeOK'
  <2>1. w \in Save \cup Deletion
    BY DEF ViewTypeOK
  <2>2. (IF w.op = "save" THEN [text |-> w.text, conv |-> w.conv] ELSE NotStored)
          \in {NotStored} \cup [text : Texts, conv : MaybeConversation]
    BY <2>1 DEF Save, Deletion
  <2>3. stored' \in [Ids -> {NotStored} \cup [text : Texts, conv : MaybeConversation]]
    BY <1>2, <2>2 DEF Write, ViewTypeOK
  <2> QED BY <1>2, <2>3 DEF Write, ViewTypeOK, LoadSound
<1>3. ASSUME NEW c \in Conversations, ChooseConversation(c) PROVE ViewTypeOK'
  <2>1. c \in MaybeConversation
    BY DEF MaybeConversation
  <2>2. load' \in Load /\ LoadSound'
    <3>1. CASE ready
      BY <1>3, <2>1, <3>1, StartLoadType DEF ChooseConversation
    <3>2. CASE ~ready
      BY <1>3, <3>2 DEF ChooseConversation, ViewTypeOK, LoadSound
    <3> QED BY <3>1, <3>2 DEF ViewTypeOK
  <2> QED BY <1>1, <1>3, <2>1, <2>2 DEF ChooseConversation, ViewTypeOK
<1>4. CASE BecomeReady
  <2>1. load' \in Load /\ LoadSound'
    BY <1>4, StartLoadType DEF BecomeReady, ViewTypeOK
  <2> QED BY <1>4, <2>1 DEF BecomeReady, ViewTypeOK
<1>5. CASE Close
  <2>1. load' \in Load /\ LoadSound'
    BY <1>5, Parts DEF Close, LoadSound, IdleLoad
  <2>2. own' \in [Own -> {"unsent", "encrypting", "stuck", "emitted", "orphan", "answered",
                          "sent", "re-encrypting"}]
    BY <1>5 DEF Close, ViewTypeOK
  <2>3. events' = <<>> /\ events' \in Seq(Event)
    BY <1>5 DEF Close
  <2> QED BY <1>1, <1>5, <2>1, <2>2, <2>3 DEF Close, ViewTypeOK, MaybeConversation
<1>6. CASE OpenPage
  BY <1>6 DEF OpenPage, ViewTypeOK, LoadSound
<1> QED BY <1>2, <1>3, <1>4, <1>5, <1>6 DEF Paging

LEMMA StepKinds ==
    Next => Outside \/ Loading \/ Arriving \/ Handling \/ Sending \/ Paging
BY DEF Next, Outside, Loading, Arriving, Handling, Sending, Paging

LEMMA TypeStep == ViewTypeOK /\ [Next]_viewVars => ViewTypeOK'
<1>1. CASE UNCHANGED viewVars
  BY <1>1 DEF viewVars, serverVars, pageVars, historyVars, ViewTypeOK, LoadSound
<1> QED BY <1>1, StepKinds, OutsideType, LoadingType, ArrivingType, HandlingType, SendingType, PagingType

-----------------------------------------------------------------------------
(* In which order things arrive: the steps                                 *)

\* What the page does by itself adds no event and no handler, and leaves what the
\* others wrote as it is.
LEMMA Quiet ==
    ASSUME ViewTypeOK, Loading \/ Handling \/ Sending \/ Paging
    PROVE  /\ events' = events \/ events' = <<>>
           /\ \A g \in handlers' : \E h \in handlers :
                g.id = h.id /\ g.text = h.text /\ g.type = h.type
           /\ \A m \in Theirs : server'[m] = server[m]
<1> USE DEF serverVars, pageVars, historyVars
<1>1. CASE Loading
  BY <1>1 DEF Loading, Fetch, FetchFails, ReadLocal, NextMessage, LoadSlice, LoadDecrypt,
              ShowHistory, EndLoad
<1>2. CASE Handling
  <2>1. PICK h \in handlers : Process(h) \/ StartDecrypt(h) \/ DecryptMessage(h) \/ DecryptEdit(h)
    BY <1>2 DEF Handling
  <2>2. UNCHANGED <<server, events>>
    BY <2>1 DEF Process, StartDecrypt, DecryptMessage, DecryptEdit
  <2> DEFINE sliced == [h EXCEPT !.step = "slice", !.conv = conv]
             lent == [h EXCEPT !.step = "decrypt"]
  <2>3. /\ sliced.id = h.id /\ sliced.text = h.text /\ sliced.type = h.type
        /\ lent.id = h.id /\ lent.text = h.text /\ lent.type = h.type
    BY DEF ViewTypeOK, MessageHandler, EditHandler
  <2>4. ASSUME NEW g \in handlers'
        PROVE  g \in handlers \/ (g.id = h.id /\ g.text = h.text /\ g.type = h.type)
    <3>1. CASE Process(h)
      <4>1. handlers' = handlers \ {h} \/ handlers' = (handlers \ {h}) \cup {sliced}
        BY <3>1 DEF Process, Ends
      <4> QED BY <2>3, <2>4, <4>1
    <3>2. CASE StartDecrypt(h)
      <4>1. handlers' = handlers \ {h} \/ handlers' = (handlers \ {h}) \cup {lent}
        BY <3>2 DEF StartDecrypt, Steps, Ends
      <4> QED BY <2>3, <2>4, <4>1
    <3>3. CASE DecryptMessage(h) \/ DecryptEdit(h)
      BY <2>4, <3>3 DEF DecryptMessage, DecryptEdit, Ends
    <3> QED BY <2>1, <3>1, <3>2, <3>3
  <2> QED BY <2>2, <2>4
<1>3. CASE Sending
  <2>1. PICK o \in Own : \/ StartSend(o) \/ StartEdit(o) \/ EmitEdit(o) \/ DeleteOwn(o)
                         \/ \E dropped \in BOOLEAN : EmitMessage(o, dropped)
    BY <1>3 DEF Sending
  <2>2. UNCHANGED <<events, handlers>>
    BY <2>1 DEF StartSend, StartEdit, EmitEdit, DeleteOwn, EmitMessage
  <2>3. \A m \in Theirs : server'[m] = server[m]
    BY <2>1, Basics DEF StartSend, StartEdit, EmitEdit, DeleteOwn, EmitMessage, ViewTypeOK
  <2> QED BY <2>2, <2>3
<1>4. CASE Paging
  BY <1>4 DEF Paging, Write, ChooseConversation, BecomeReady, Close, OpenPage
<1> QED BY <1>1, <1>2, <1>3, <1>4

\* An event added to the others.
LEMMA Announced ==
    ASSUME ViewTypeOK, NEW e \in Event, events' = Append(events, e) \/ events' = events
    PROVE  /\ \A i \in DOMAIN events' :
                \/ i \in DOMAIN events /\ events'[i] = events[i]
                \/ i = Len(events) + 1 /\ events'[i] = e /\ (\A j \in DOMAIN events : j < i)
           /\ \A i \in DOMAIN events : i \in DOMAIN events' /\ events'[i] = events[i]
<1>1. events \in Seq(Event)
  BY DEF ViewTypeOK
<1>2. CASE events' = Append(events, e)
  <2>1. /\ Len(events) \in Nat
        /\ \A i \in DOMAIN events : i \in DOMAIN Append(events, e) /\ i < Len(events) + 1
        /\ \A i \in DOMAIN Append(events, e) :
             Append(events, e)[i] = IF i = Len(events) + 1 THEN e ELSE events[i]
        /\ \A i \in DOMAIN Append(events, e) : i = Len(events) + 1 \/ i \in DOMAIN events
    BY <1>1, Appended
  <2>2. \A i \in DOMAIN events : i \in Nat
    BY <1>1
  <2>3. ASSUME NEW i \in DOMAIN events PROVE i # Len(events) + 1
    BY <2>1, <2>2, <2>3
  <2> HIDE <1>2
  <2>4. events' = Append(events, e)
    BY <1>2
  <2> QED BY <2>1, <2>3, <2>4
<1> QED BY <1>2 DEF ViewTypeOK

LEMMA UnannouncedStep == ViewTypeOK /\ Arrivals /\ Next => Unannounced'
<1> SUFFICES ASSUME ViewTypeOK, Arrivals, Next PROVE Unannounced'
  OBVIOUS
<1> USE DEF serverVars, pageVars, historyVars
<1>1. Unannounced
  BY DEF Arrivals
<1>2. CASE Loading \/ Handling \/ Sending \/ Paging
  BY <1>1, <1>2, Quiet DEF Unannounced
<1>3. CASE Arriving
  <2>1. events # <<>> /\ events' = Tail(events) /\ server' = server
    BY <1>3 DEF Arriving, Receive, ReceiveDeleted, ReceiveAck, ReceiveNack
  <2>2. handlers' \subseteq handlers \cup {Handler(Head(events), "device")}
    BY <1>3 DEF Arriving, Receive, ReceiveDeleted, ReceiveAck, ReceiveNack
  <2>3. \A h \in handlers' : h \in handlers \/ h.id = events[1].id
    BY <2>1, <2>2, Taken DEF Handler
  <2> QED BY <1>1, <2>1, <2>3, Taken DEF Unannounced
<1>4. CASE Outside
  <2>1. ASSUME NEW e \in Event, server[e.id] # "unsent" \/ server'[e.id] # "unsent",
               events' = Append(events, e) \/ events' = events, handlers' = handlers,
               \A x \in Ids : server'[x] = "unsent" => server[x] = "unsent"
        PROVE  Unannounced'
    BY <1>1, <2>1, Announced, Basics DEF Unannounced
  <2>2. ASSUME NEW m \in Theirs, TheyWrite(m) PROVE Unannounced'
    <3>1. [type |-> "message", id |-> m, text |-> "original"] \in Event
      BY DEF Event
    <3> QED BY <2>1, <2>2, <3>1, Basics DEF TheyWrite, Announce, ViewTypeOK
  <2>3. ASSUME NEW m \in Theirs, TheyEdit(m) PROVE Unannounced'
    <3>1. [type |-> "message:edited", id |-> m, text |-> "edited"] \in Event
      BY DEF Event
    <3> QED BY <2>1, <2>3, <3>1, Basics DEF TheyEdit, Announce, ViewTypeOK
  <2>4. ASSUME NEW m \in Theirs, TheyDelete(m) PROVE Unannounced'
    <3>1. [type |-> "message:deleted", id |-> m, text |-> NoText] \in Event
      BY DEF Event
    <3> QED BY <2>1, <2>4, <3>1, Basics DEF TheyDelete, Announce, ViewTypeOK
  <2>5. ASSUME NEW o \in Own, NEW success \in BOOLEAN, Answer(o, success) PROVE Unannounced'
    <3> DEFINE e == [type |-> IF success THEN "ack" ELSE "nack", id |-> o, text |-> "original"]
    <3>1. e \in Event /\ e.id = o
      BY DEF Event
    <3>2. events' = Append(events, e) \/ events' = events
      BY <2>5 DEF Answer
    <3> HIDE DEF e
    <3> QED BY <2>1, <2>5, <3>1, <3>2, Basics DEF Answer, ViewTypeOK
  <2>6. CASE LoseEvents
    BY <1>1, <2>6 DEF LoseEvents, Unannounced
  <2> QED BY <1>4, <2>2, <2>3, <2>4, <2>5, <2>6 DEF Outside
<1> QED BY <1>2, <1>3, <1>4, StepKinds

LEMMA MessageFirstStep == ViewTypeOK /\ Arrivals /\ Next => MessageFirst'
<1> SUFFICES ASSUME ViewTypeOK, Arrivals, Next PROVE MessageFirst'
  OBVIOUS
<1> USE DEF serverVars, pageVars, historyVars
<1>1. MessageFirst /\ Unannounced
  BY DEF Arrivals
<1>2. CASE Loading \/ Handling \/ Sending \/ Paging
  BY <1>1, <1>2, Quiet DEF MessageFirst
<1>3. CASE Arriving
  <2>1. events # <<>> /\ events' = Tail(events)
    BY <1>3 DEF Arriving, Receive, ReceiveDeleted, ReceiveAck, ReceiveNack
  <2>2. handlers' \subseteq handlers \cup {Handler(Head(events), "device")}
    BY <1>3 DEF Arriving, Receive, ReceiveDeleted, ReceiveAck, ReceiveNack
  <2>3. \A h \in handlers' : h \in handlers \/ h.id = events[1].id
    BY <2>1, <2>2, Taken DEF Handler
  <2>4. ASSUME NEW i \in DOMAIN events', NEW j \in DOMAIN events', i < j PROVE i + 1 < j + 1
    BY <2>4, <2>1, Taken DEF ViewTypeOK
  <2> QED BY <1>1, <2>1, <2>3, <2>4, Taken DEF MessageFirst
<1>4. CASE Outside
  <2>1. ASSUME NEW e \in Event, e.type = "message" => server[e.id] = "unsent" /\ e.id \in Theirs,
               events' = Append(events, e) \/ events' = events, handlers' = handlers
        PROVE  MessageFirst'
    <3>1. ASSUME NEW j \in DOMAIN events', events'[j].type = "message"
          PROVE  /\ \A i \in DOMAIN events' : i < j => events'[i].id # events'[j].id
                 /\ \A h \in handlers' : h.id = events'[j].id => h.text # "edited"
      <4>1. CASE j \in DOMAIN events /\ events'[j] = events[j]
        <5>1. \A i \in DOMAIN events' : i < j => i \in DOMAIN events /\ events'[i] = events[i]
          BY <2>1, <4>1, Announced DEF ViewTypeOK
        <5> QED BY <1>1, <2>1, <3>1, <4>1, <5>1 DEF MessageFirst
      <4>2. CASE events'[j] = e /\ j = Len(events) + 1
        <5>1. \A i \in DOMAIN events' : i < j => i \in DOMAIN events /\ events'[i] = events[i]
          BY <2>1, <4>2, Announced DEF ViewTypeOK
        <5> QED BY <1>1, <2>1, <3>1, <4>2, <5>1 DEF Unannounced
      <4> QED BY <2>1, <4>1, <4>2, Announced
    <3> QED BY <3>1 DEF MessageFirst
  <2>2. ASSUME NEW m \in Theirs, TheyWrite(m) PROVE MessageFirst'
    <3>1. [type |-> "message", id |-> m, text |-> "original"] \in Event
      BY DEF Event
    <3> QED BY <2>1, <2>2, <3>1 DEF TheyWrite, Announce
  <2>3. ASSUME NEW m \in Theirs, TheyEdit(m) PROVE MessageFirst'
    <3>1. [type |-> "message:edited", id |-> m, text |-> "edited"] \in Event
      BY DEF Event
    <3> QED BY <2>1, <2>3, <3>1 DEF TheyEdit, Announce
  <2>4. ASSUME NEW m \in Theirs, TheyDelete(m) PROVE MessageFirst'
    <3>1. [type |-> "message:deleted", id |-> m, text |-> NoText] \in Event
      BY DEF Event
    <3> QED BY <2>1, <2>4, <3>1 DEF TheyDelete, Announce
  <2>5. ASSUME NEW o \in Own, NEW success \in BOOLEAN, Answer(o, success) PROVE MessageFirst'
    <3> DEFINE e == [type |-> IF success THEN "ack" ELSE "nack", id |-> o, text |-> "original"]
    <3>1. e \in Event /\ e.id = o /\ e.type # "message"
      BY DEF Event
    <3>2. events' = Append(events, e) \/ events' = events
      BY <2>5 DEF Answer
    <3> HIDE DEF e
    <3> QED BY <2>1, <2>5, <3>1, <3>2 DEF Answer
  <2>6. CASE LoseEvents
    BY <1>1, <2>6 DEF LoseEvents, MessageFirst
  <2> QED BY <1>4, <2>2, <2>3, <2>4, <2>5, <2>6 DEF Outside
<1> QED BY <1>2, <1>3, <1>4, StepKinds

LEMMA DeletedLastStep == ViewTypeOK /\ Arrivals /\ Next => DeletedLast'
<1> SUFFICES ASSUME ViewTypeOK, Arrivals, Next PROVE DeletedLast'
  OBVIOUS
<1> USE DEF serverVars, pageVars, historyVars
<1>1. DeletedLast
  BY DEF Arrivals
<1>2. \A i \in DOMAIN events : events[i] \in Event
  BY DEF ViewTypeOK
<1>3. \A e \in Event : e.type = "message:deleted" => e.id \in Theirs
  BY DEF Event
<1>4. CASE Loading \/ Handling \/ Sending \/ Paging
  BY <1>1, <1>2, <1>3, <1>4, Quiet DEF DeletedLast
<1>5. CASE Arriving
  <2>1. events # <<>> /\ events' = Tail(events) /\ server' = server
    BY <1>5 DEF Arriving, Receive, ReceiveDeleted, ReceiveAck, ReceiveNack
  <2>2. ASSUME NEW i \in DOMAIN events', NEW j \in DOMAIN events', i < j PROVE i + 1 < j + 1
    BY <2>2, <2>1, Taken DEF ViewTypeOK
  <2> QED BY <1>1, <2>1, <2>2, Taken DEF DeletedLast
<1>6. CASE Outside
  <2>1. ASSUME NEW e \in Event, server[e.id] = "gone" => e.id \notin Theirs,
               e.type = "message:deleted" => server'[e.id] = "gone",
               events' = Append(events, e) \/ events' = events,
               \A m \in Theirs : server[m] = "gone" => server'[m] = "gone"
        PROVE  DeletedLast'
    <3>1. ASSUME NEW i \in DOMAIN events', events'[i].type = "message:deleted"
          PROVE  /\ server'[events'[i].id] = "gone"
                 /\ \A j \in DOMAIN events' : i < j => events'[j].id # events'[i].id
      <4>1. CASE i \in DOMAIN events /\ events'[i] = events[i]
        <5>1. events[i].id \in Theirs /\ server[events[i].id] = "gone"
          BY <1>1, <1>2, <1>3, <3>1, <4>1 DEF DeletedLast
        <5> QED BY <1>1, <2>1, <3>1, <4>1, <5>1, Announced DEF DeletedLast
      <4>2. CASE events'[i] = e /\ i = Len(events) + 1
        <5>1. \A j \in DOMAIN events' : ~(i < j)
          BY <2>1, <4>2, Announced DEF ViewTypeOK
        <5> QED BY <2>1, <3>1, <4>2, <5>1
      <4> QED BY <2>1, <4>1, <4>2, Announced
    <3> QED BY <3>1 DEF DeletedLast
  <2>2. ASSUME NEW m \in Theirs, TheyWrite(m) PROVE DeletedLast'
    <3>1. [type |-> "message", id |-> m, text |-> "original"] \in Event
      BY DEF Event
    <3> QED BY <2>1, <2>2, <3>1, Basics DEF TheyWrite, Announce, ViewTypeOK
  <2>3. ASSUME NEW m \in Theirs, TheyEdit(m) PROVE DeletedLast'
    <3>1. [type |-> "message:edited", id |-> m, text |-> "edited"] \in Event
      BY DEF Event
    <3> QED BY <2>1, <2>3, <3>1, Basics DEF TheyEdit, Announce, ViewTypeOK
  <2>4. ASSUME NEW m \in Theirs, TheyDelete(m) PROVE DeletedLast'
    <3>1. [type |-> "message:deleted", id |-> m, text |-> NoText] \in Event
      BY DEF Event
    <3>2. server[m] # "gone" /\ server'[m] = "gone"
      BY <2>4, Basics DEF TheyDelete, Texts, ViewTypeOK
    <3> QED BY <2>1, <2>4, <3>1, <3>2, Basics DEF TheyDelete, Announce, ViewTypeOK
  <2>5. ASSUME NEW o \in Own, NEW success \in BOOLEAN, Answer(o, success) PROVE DeletedLast'
    <3> DEFINE e == [type |-> IF success THEN "ack" ELSE "nack", id |-> o, text |-> "original"]
    <3>1. e \in Event /\ e.id = o /\ e.type # "message:deleted"
      BY DEF Event
    <3>2. events' = Append(events, e) \/ events' = events
      BY <2>5 DEF Answer
    <3> HIDE DEF e
    <3> QED BY <2>1, <2>5, <3>1, <3>2, Basics DEF Answer, ViewTypeOK
  <2>6. CASE LoseEvents
    BY <2>6 DEF LoseEvents, DeletedLast
  <2> QED BY <1>6, <2>2, <2>3, <2>4, <2>5, <2>6 DEF Outside
<1> QED BY <1>4, <1>5, <1>6, StepKinds

\* Sending changes only what is not waiting for an answer's event.
LEMMA AnsweredOnceStep == ViewTypeOK /\ Arrivals /\ Next => AnsweredOnce'
<1> SUFFICES ASSUME ViewTypeOK, Arrivals, Next PROVE AnsweredOnce'
  OBVIOUS
<1> USE DEF serverVars, pageVars, historyVars
<1>1. AnsweredOnce
  BY DEF Arrivals
<1>2. \A i \in DOMAIN events : events[i] \in Event
  BY DEF ViewTypeOK
<1>3. \A e \in Event : (e.type \in {"ack", "nack"} <=> e.id \in Own)
  BY Basics DEF Event
<1>4. ASSUME events' = events \/ events' = <<>>,
             \A o \in Own : own[o] = "answered" => own'[o] = "answered" \/ events' = <<>>
      PROVE  AnsweredOnce'
  BY <1>1, <1>2, <1>3, <1>4 DEF AnsweredOnce
<1>5. CASE Loading
  BY <1>4, <1>5 DEF Loading, Fetch, FetchFails, ReadLocal, NextMessage, LoadSlice, LoadDecrypt,
                    ShowHistory, EndLoad
<1>6. CASE Handling
  BY <1>4, <1>6 DEF Handling, Process, StartDecrypt, DecryptMessage, DecryptEdit
<1>7. CASE Sending
  BY <1>4, <1>7 DEF Sending, StartSend, StartEdit, EmitEdit, DeleteOwn, EmitMessage, ViewTypeOK
<1>8. CASE Paging
  BY <1>4, <1>8 DEF Paging, Write, ChooseConversation, BecomeReady, Close, OpenPage
<1>9. CASE Arriving
  <2>1. events # <<>> /\ events' = Tail(events)
    BY <1>9 DEF Arriving, Receive, ReceiveDeleted, ReceiveAck, ReceiveNack
  <2>2. \A o \in Own : own'[o] = own[o] \/ o = events[1].id
    BY <1>9, <2>1, Taken DEF Arriving, Receive, ReceiveDeleted, ReceiveAck, ReceiveNack, ViewTypeOK
  <2>3. ASSUME NEW i \in DOMAIN events', NEW j \in DOMAIN events', i + 1 = j + 1 PROVE i = j
    BY <2>3, <2>1, Taken DEF ViewTypeOK
  <2>4. ASSUME NEW i \in DOMAIN events', events'[i].type \in {"ack", "nack"}
        PROVE  /\ own'[events'[i].id] = "answered"
               /\ \A j \in DOMAIN events' : events'[j].id = events'[i].id => j = i
    <3>1. /\ i + 1 \in DOMAIN events /\ events'[i] = events[i + 1] /\ i + 1 # 1
          /\ 1 \in DOMAIN events
      BY <2>1, Taken
    <3>2. events[1].id # events[i + 1].id /\ own[events[i + 1].id] = "answered"
      BY <1>1, <2>4, <3>1 DEF AnsweredOnce
    <3>3. events[i + 1].id \in Own
      BY <1>2, <1>3, <2>4, <3>1
    <3>4. own'[events'[i].id] = "answered"
      BY <2>2, <3>1, <3>2, <3>3
    <3>5. ASSUME NEW j \in DOMAIN events', events'[j].id = events'[i].id PROVE j = i
      <4>1. j + 1 \in DOMAIN events /\ events'[j] = events[j + 1]
        BY <2>1, Taken
      <4>2. j + 1 = i + 1
        BY <1>1, <2>4, <3>1, <3>5, <4>1 DEF AnsweredOnce
      <4> QED BY <2>3, <4>2
    <3> QED BY <3>4, <3>5
  <2> QED BY <2>4 DEF AnsweredOnce
<1>10. CASE Outside
  <2>1. ASSUME NEW e \in Event, events' = Append(events, e) \/ events' = events,
               e.id \notin Own, own' = own
        PROVE  AnsweredOnce'
    <3>1. \A i \in DOMAIN events' : events'[i].type \in {"ack", "nack"} =>
            i \in DOMAIN events /\ events'[i] = events[i]
      BY <1>3, <2>1, Announced
    <3>2. \A i \in DOMAIN events' : events'[i].id # e.id => i \in DOMAIN events /\ events'[i] = events[i]
      BY <2>1, Announced
    <3> QED BY <1>1, <1>2, <1>3, <2>1, <3>1, <3>2 DEF AnsweredOnce
  <2>2. ASSUME NEW m \in Theirs, TheyWrite(m) PROVE AnsweredOnce'
    <3>1. [type |-> "message", id |-> m, text |-> "original"] \in Event
      BY DEF Event
    <3> QED BY <2>1, <2>2, <3>1, Basics DEF TheyWrite, Announce
  <2>3. ASSUME NEW m \in Theirs, TheyEdit(m) PROVE AnsweredOnce'
    <3>1. [type |-> "message:edited", id |-> m, text |-> "edited"] \in Event
      BY DEF Event
    <3> QED BY <2>1, <2>3, <3>1, Basics DEF TheyEdit, Announce
  <2>4. ASSUME NEW m \in Theirs, TheyDelete(m) PROVE AnsweredOnce'
    <3>1. [type |-> "message:deleted", id |-> m, text |-> NoText] \in Event
      BY DEF Event
    <3> QED BY <2>1, <2>4, <3>1, Basics DEF TheyDelete, Announce
  <2>5. ASSUME NEW o \in Own, NEW success \in BOOLEAN, Answer(o, success) PROVE AnsweredOnce'
    <3> DEFINE e == [type |-> IF success THEN "ack" ELSE "nack", id |-> o, text |-> "original"]
    <3>1. e \in Event /\ e.id = o
      BY DEF Event
    <3>2. /\ own[o] \in {"emitted", "orphan"}
          /\ own[o] = "orphan" => events' = events
          /\ own[o] = "emitted" => events' = Append(events, e) /\ own'[o] = "answered"
          /\ \A x \in Own : x # o => own'[x] = own[x]
      BY <2>5 DEF Answer, ViewTypeOK
    <3> HIDE DEF e
    <3>3. \A i \in DOMAIN events : events[i].id # o
      BY <1>1, <1>2, <1>3, <3>2 DEF AnsweredOnce
    <3>4. CASE own[o] = "orphan"
      BY <1>4, <3>2, <3>4
    <3>5. CASE own[o] = "emitted"
      <4>1. /\ \A i \in DOMAIN events' :
                 \/ i \in DOMAIN events /\ events'[i] = events[i]
                 \/ i = Len(events) + 1 /\ events'[i] = e
            /\ \A i \in DOMAIN events : i \in DOMAIN events' /\ events'[i] = events[i]
        BY <3>1, <3>2, <3>5, Announced
      <4>2. ASSUME NEW i \in DOMAIN events', events'[i].type \in {"ack", "nack"}
            PROVE  /\ own'[events'[i].id] = "answered"
                   /\ \A j \in DOMAIN events' : events'[j].id = events'[i].id => j = i
        <5>1. CASE i \in DOMAIN events /\ events'[i] = events[i]
          <6>1. events[i].id \in Own /\ own[events[i].id] = "answered"
            BY <1>1, <1>2, <1>3, <4>2, <5>1 DEF AnsweredOnce
          <6>2. own'[events'[i].id] = "answered"
            BY <3>2, <3>3, <5>1, <6>1
          <6> QED BY <1>1, <3>1, <3>3, <4>1, <4>2, <5>1, <6>2 DEF AnsweredOnce
        <5>2. CASE i = Len(events) + 1 /\ events'[i] = e
          BY <3>1, <3>2, <3>3, <3>5, <4>1, <5>2
        <5> QED BY <4>1, <5>1, <5>2
      <4> QED BY <4>2 DEF AnsweredOnce
    <3> QED BY <3>2, <3>4, <3>5
  <2>6. CASE LoseEvents
    BY <2>6 DEF LoseEvents, AnsweredOnce
  <2> QED BY <1>10, <2>2, <2>3, <2>4, <2>5, <2>6 DEF Outside
<1> QED BY <1>5, <1>6, <1>7, <1>8, <1>9, <1>10, StepKinds

LEMMA OwnInStepStep == ViewTypeOK /\ Arrivals /\ Next => OwnInStep'
<1> SUFFICES ASSUME ViewTypeOK, Arrivals, Next PROVE OwnInStep'
  OBVIOUS
<1> USE DEF serverVars, pageVars, historyVars
<1>1. OwnInStep
  BY DEF Arrivals
<1>2. ASSUME UNCHANGED <<server, own>> PROVE OwnInStep'
  BY <1>1, <1>2 DEF OwnInStep
<1>3. CASE Loading
  BY <1>2, <1>3 DEF Loading, Fetch, FetchFails, ReadLocal, NextMessage, LoadSlice, LoadDecrypt,
                    ShowHistory, EndLoad
<1>4. CASE Handling
  BY <1>2, <1>4 DEF Handling, Process, StartDecrypt, DecryptMessage, DecryptEdit
<1>5. CASE Paging
  <2>1. CASE Close
    BY <1>1, <2>1 DEF Close, OwnInStep, ViewTypeOK
  <2> QED BY <1>2, <1>5, <2>1 DEF Paging, Write, ChooseConversation, BecomeReady, OpenPage
<1>6. CASE Sending
  <2>1. PICK o \in Own : \/ StartSend(o) \/ StartEdit(o) \/ EmitEdit(o) \/ DeleteOwn(o)
                         \/ \E dropped \in BOOLEAN : EmitMessage(o, dropped)
    BY <1>6 DEF Sending
  <2>2. CASE StartSend(o)
    BY <1>1, <2>2 DEF StartSend, OwnInStep, ViewTypeOK
  <2>3. CASE StartEdit(o)
    BY <1>1, <2>3 DEF StartEdit, OwnInStep, ViewTypeOK
  <2>4. CASE EmitEdit(o)
    BY <1>1, <2>4, Basics DEF EmitEdit, OwnInStep, ViewTypeOK
  <2>5. CASE DeleteOwn(o)
    <3>1. PICK e \in view : e.id = o /\ (IF e.temp THEN UNCHANGED server
                                         ELSE server' = [server EXCEPT ![o] = "gone"])
      BY <2>5 DEF DeleteOwn
    <3>2. own' = own
      BY <2>5 DEF DeleteOwn
    <3>3. CASE e.temp
      BY <1>2, <3>1, <3>2, <3>3
    <3>4. CASE ~e.temp
      <4>1. server[o] # "unsent"
        BY <3>1, <3>4, Basics DEF Arrivals, NoneOfUnsent, Unsent
      <4> QED BY <1>1, <3>1, <3>2, <3>4, <4>1, Basics DEF OwnInStep, ViewTypeOK
    <3> QED BY <3>3, <3>4
  <2>6. ASSUME NEW dropped \in BOOLEAN, EmitMessage(o, dropped) PROVE OwnInStep'
    BY <1>1, <2>6 DEF EmitMessage, OwnInStep, ViewTypeOK
  <2> QED BY <2>1, <2>2, <2>3, <2>4, <2>5, <2>6
<1>7. CASE Arriving
  <2>1. events # <<>> /\ Head(events) = events[1] /\ 1 \in DOMAIN events /\ events[1] \in Event
    BY <1>7, Taken DEF Arriving, Receive, ReceiveDeleted, ReceiveAck, ReceiveNack
  <2>2. CASE Receive \/ ReceiveDeleted
    BY <1>2, <2>2 DEF Receive, ReceiveDeleted
  <2>3. CASE ReceiveAck \/ ReceiveNack
    <3>1. events[1].type \in {"ack", "nack"}
      BY <2>1, <2>3 DEF ReceiveAck, ReceiveNack
    <3>2. own[events[1].id] = "answered"
      BY <2>1, <3>1 DEF Arrivals, AnsweredOnce
    <3>3. /\ server' = server
          /\ \A o \in Own : \/ own'[o] = own[o]
                            \/ o = events[1].id /\ own'[o] \in {"sent", "stuck"}
      BY <2>1, <2>3 DEF ReceiveAck, ReceiveNack, ViewTypeOK
    <3> QED BY <1>1, <3>2, <3>3 DEF OwnInStep
  <2> QED BY <1>7, <2>2, <2>3 DEF Arriving
<1>8. CASE Outside
  <2>1. ASSUME NEW m \in Theirs, TheyWrite(m) \/ TheyEdit(m) \/ TheyDelete(m) PROVE OwnInStep'
    <3>1. own' = own /\ \A o \in Own : server'[o] = server[o]
      BY <2>1, Basics DEF TheyWrite, TheyEdit, TheyDelete, ViewTypeOK
    <3> QED BY <1>1, <3>1 DEF OwnInStep
  <2>2. ASSUME NEW o \in Own, NEW success \in BOOLEAN, Answer(o, success) PROVE OwnInStep'
    BY <1>1, <2>2, Basics DEF Answer, OwnInStep, ViewTypeOK
  <2>3. CASE LoseEvents
    BY <1>1, <2>3 DEF LoseEvents, OwnInStep, ViewTypeOK
  <2> QED BY <1>8, <2>1, <2>2, <2>3 DEF Outside
<1> QED BY <1>3, <1>4, <1>5, <1>6, <1>7, <1>8, StepKinds

\* What is unsent has been so all along.
LEMMA UnsentBefore ==
    ASSUME ViewTypeOK, Arrivals, Next, NEW m \in Ids, Unsent(m)'
    PROVE  Unsent(m)
<1> USE DEF serverVars, pageVars, historyVars
<1>1. ASSUME UNCHANGED <<server, own>> PROVE Unsent(m)
  BY <1>1 DEF Unsent
<1>2. CASE Loading
  BY <1>1, <1>2 DEF Loading, Fetch, FetchFails, ReadLocal, NextMessage, LoadSlice, LoadDecrypt,
                    ShowHistory, EndLoad
<1>3. CASE Handling
  BY <1>1, <1>3 DEF Handling, Process, StartDecrypt, DecryptMessage, DecryptEdit
<1>4. CASE Paging
  <2>1. CASE Close
    BY <2>1 DEF Close, Unsent, ViewTypeOK
  <2> QED BY <1>1, <1>4, <2>1 DEF Paging, Write, ChooseConversation, BecomeReady, OpenPage
<1>5. CASE Sending
  BY <1>5, Basics DEF Sending, StartSend, StartEdit, EmitEdit, DeleteOwn, EmitMessage, Unsent, ViewTypeOK
<1>6. CASE Arriving
  BY <1>6 DEF Arriving, Receive, ReceiveDeleted, ReceiveAck, ReceiveNack, Unsent, ViewTypeOK
<1>7. CASE Outside
  <2>1. ASSUME NEW x \in Theirs, TheyWrite(x) \/ TheyEdit(x) \/ TheyDelete(x) PROVE Unsent(m)
    BY <2>1, Basics DEF TheyWrite, TheyEdit, TheyDelete, Unsent, ViewTypeOK
  <2>2. ASSUME NEW o \in Own, NEW success \in BOOLEAN, Answer(o, success) PROVE Unsent(m)
    BY <2>2, Basics DEF Answer, Unsent, ViewTypeOK
  <2>3. CASE LoseEvents
    BY <2>3 DEF LoseEvents, Unsent, ViewTypeOK
  <2> QED BY <1>7, <2>1, <2>2, <2>3 DEF Outside
<1> QED BY <1>2, <1>3, <1>4, <1>5, <1>6, <1>7, StepKinds

\* Marking, listing and replacing keep the ids of the entries.
LEMMA MapIds ==
    ASSUME NEW list, NEW m, NEW x, NEW e \in Map(list, m, x)
    PROVE  e \in list \/ (e = Entry(m, x) /\ \E f \in list : f = Entry(m, f.shows))
BY DEF Map

LEMMA NoneOfUnsentStep == ViewTypeOK /\ Arrivals /\ Next => NoneOfUnsent'
<1> SUFFICES ASSUME ViewTypeOK, Arrivals, Next, NEW m \in Ids, Unsent(m)'
             PROVE  /\ \A e \in view' : e.id = m => e.temp
                    /\ \A e \in load'.done : e.id # m
                    /\ \A i \in DOMAIN load'.todo : load'.todo[i].id # m
                    /\ m \notin known'
  BY DEF NoneOfUnsent
<1> USE DEF serverVars, pageVars, historyVars
<1>1. /\ \A e \in view : e.id = m => e.temp
      /\ \A e \in load.done : e.id # m
      /\ \A i \in DOMAIN load.todo : load.todo[i].id # m
      /\ m \notin known
      /\ Unsent(m)
  BY UnsentBefore DEF Arrivals, NoneOfUnsent
<1>2. ASSUME NEW k, NEW x PROVE \A e \in Map(view, k, x) : e.id = m => e.temp
  <2>1. ASSUME NEW e \in Map(view, k, x), e.id = m PROVE e.temp
    <3>1. e \in view \/ (e = Entry(k, x) /\ \E f \in view : f = Entry(k, f.shows))
      BY MapIds
    <3>2. \A y : Entry(k, y).id = k /\ Entry(k, y).temp = FALSE
      BY DEF Entry
    <3> QED BY <1>1, <2>1, <3>1, <3>2
  <2> QED BY <2>1
<1>3. ASSUME UNCHANGED <<load, known>> PROVE
        /\ \A e \in load'.done : e.id # m
        /\ \A i \in DOMAIN load'.todo : load'.todo[i].id # m
        /\ m \notin known'
  BY <1>1, <1>3
<1>4. ASSUME load.todo # <<>>, NEW x, Processed(x)
      PROVE  /\ \A e \in load'.done : e.id # m
             /\ \A i \in DOMAIN load'.todo : load'.todo[i].id # m
  <2>1. /\ Head(load.todo) = load.todo[1] /\ 1 \in DOMAIN load.todo
        /\ \A i \in DOMAIN Tail(load.todo) :
             i + 1 \in DOMAIN load.todo /\ Tail(load.todo)[i] = load.todo[i + 1]
    BY <1>4, Parts, HeadAndTail
  <2>2. load'.todo = Tail(load.todo) /\ load'.done = load.done \cup {Entry(Head(load.todo).id, x)}
    BY <1>4 DEF Processed, ViewTypeOK, Load
  <2>3. Entry(Head(load.todo).id, x).id # m
    BY <1>1, <2>1 DEF Entry
  <2> QED BY <1>1, <2>1, <2>2, <2>3
<1>5. CASE Loading
  <2>1. known' = known
    BY <1>5 DEF Loading, Fetch, FetchFails, ReadLocal, NextMessage, LoadSlice, LoadDecrypt,
                    ShowHistory, EndLoad
  <2>2. CASE Fetch
    <3>1. /\ load'.done = load.done
          /\ \A k \in DOMAIN load'.todo : server[load'.todo[k].id] \in Texts
      BY <2>2, FetchEffect DEF ViewTypeOK, Load
    <3>2. server[m] \notin Texts
      BY <1>1 DEF Arrivals, OwnInStep, Unsent, Texts
    <3> QED BY <1>1, <2>1, <2>2, <3>1, <3>2 DEF Fetch
  <2>3. CASE FetchFails \/ EndLoad
    <3>1. load' = IdleLoad /\ view' = view
      BY <2>3 DEF FetchFails, EndLoad
    <3> QED BY <1>1, <2>1, <3>1, Parts
  <2>4. CASE ReadLocal
    <3>1. load'.todo = load.todo /\ load'.done = load.done /\ view' = view
      BY <2>4 DEF ReadLocal, ViewTypeOK, Load
    <3> QED BY <1>1, <2>1, <3>1
  <2>5. CASE NextMessage \/ LoadSlice \/ LoadDecrypt
    <3>1. view' = view /\ load.todo # <<>>
      BY <2>5 DEF NextMessage, LoadSlice, LoadDecrypt, ViewTypeOK, LoadSound
    <3>2. (\E x : Processed(x)) \/ (load'.todo = load.todo /\ load'.done = load.done)
      BY <2>5 DEF NextMessage, LoadSlice, LoadDecrypt, ViewTypeOK, Load
    <3> QED BY <1>1, <1>4, <2>1, <3>1, <3>2
  <2>6. CASE ShowHistory
    <3>1. load'.todo = load.todo /\ load'.done = {} /\ view' = load.done
      BY <2>6 DEF ShowHistory, ViewTypeOK, Load
    <3> QED BY <1>1, <2>1, <3>1
  <2> QED BY <1>5, <2>2, <2>3, <2>4, <2>5, <2>6 DEF Loading
<1>6. CASE Handling
  <2>1. PICK h \in handlers : Process(h) \/ StartDecrypt(h) \/ DecryptMessage(h) \/ DecryptEdit(h)
    BY <1>6 DEF Handling
  <2>2. UNCHANGED <<load, known>>
    BY <2>1 DEF Process, StartDecrypt, DecryptMessage, DecryptEdit
  <2>3. h.id # m
    <3>1. h.id \in Theirs
      BY Parts
    <3>2. server[h.id] # "unsent"
      BY <3>1 DEF Arrivals, Unannounced
    <3> QED BY <1>1, <3>1, <3>2, Basics DEF Unsent
  <2>4. ASSUME NEW x, AppendToList(h.id, x) PROVE \A e \in view' : e.id = m => e.temp
    BY <1>1, <2>3, <2>4 DEF AppendToList, Entry
  <2>5. (\E x : AppendToList(h.id, x)) \/ view' = view \/ view' = Map(view, h.id, "edited")
    BY <2>1 DEF Process, StartDecrypt, DecryptMessage, DecryptEdit, ShowEdit
  <2> QED BY <1>1, <1>2, <1>3, <2>2, <2>4, <2>5
<1>7. CASE Sending
  <2>1. PICK o \in Own : \/ StartSend(o) \/ StartEdit(o) \/ EmitEdit(o) \/ DeleteOwn(o)
                         \/ \E dropped \in BOOLEAN : EmitMessage(o, dropped)
    BY <1>7 DEF Sending
  <2>2. load' = load
    BY <2>1 DEF StartSend, StartEdit, EmitEdit, DeleteOwn, EmitMessage
  <2>3. CASE StartSend(o) \/ StartEdit(o)
    BY <1>1, <1>3, <2>2, <2>3 DEF StartSend, StartEdit
  <2>4. CASE EmitEdit(o)
    BY <1>2, <1>3, <2>2, <2>4 DEF EmitEdit
  <2>5. CASE \E dropped \in BOOLEAN : EmitMessage(o, dropped)
    <3>1. Temp(o, "original").temp
      BY DEF Temp
    <3> QED BY <1>1, <1>3, <2>2, <2>5, <3>1 DEF EmitMessage
  <2>6. CASE DeleteOwn(o)
    <3>1. PICK e \in view :
            /\ e.id = o /\ view' = (view \ {e}) \cup {[e EXCEPT !.shows = "deleted"]}
            /\ IF e.temp THEN known' = known ELSE known' = known \cup {o}
      BY <2>6 DEF DeleteOwn, Know
    <3>2. [e EXCEPT !.shows = "deleted"].id = o /\ [e EXCEPT !.shows = "deleted"].temp = e.temp
      BY <3>1 DEF ViewTypeOK, Entries
    <3> QED BY <1>1, <2>2, <3>1, <3>2
  <2> QED BY <2>1, <2>3, <2>4, <2>5, <2>6
<1>8. CASE Paging
  <2>1. CASE Close
    BY <1>1, <2>1, Parts DEF Close
  <2>2. ASSUME NEW c \in MaybeConversation, StartLoad(c)
        PROVE  /\ \A e \in load'.done : e.id # m
               /\ \A i \in DOMAIN load'.todo : load'.todo[i].id # m
    <3>1. load' = load \/ (load'.todo = <<>> /\ load'.done = {})
      BY <2>2 DEF StartLoad, IdleLoad
    <3> QED BY <1>1, <3>1
  <2>3. ASSUME NEW c \in Conversations, ChooseConversation(c)
        PROVE  /\ view' = view /\ known' = known /\ (load' = load \/ StartLoad(c))
    BY <2>3 DEF ChooseConversation
  <2>4. CASE BecomeReady
    BY <1>1, <2>2, <2>4 DEF BecomeReady, ViewTypeOK
  <2> QED BY <1>1, <1>8, <2>1, <2>2, <2>3, <2>4 DEF Paging, Write, OpenPage, MaybeConversation
<1>9. CASE Arriving
  <2>1. events # <<>> /\ Head(events) = events[1] /\ 1 \in DOMAIN events /\ events[1] \in Event
    BY <1>9, Taken DEF Arriving, Receive, ReceiveDeleted, ReceiveAck, ReceiveNack
  <2>2. load' = load
    BY <1>9 DEF Arriving, Receive, ReceiveDeleted, ReceiveAck, ReceiveNack
  <2>3. CASE Receive
    BY <1>1, <1>3, <2>3 DEF Receive
  <2>4. CASE ReceiveDeleted
    <3>1. events[1].id \in Theirs
      BY <2>1, <2>4 DEF ReceiveDeleted, Event
    <3>2. events[1].id # m
      BY <1>1, <2>1, <3>1, Basics DEF Arrivals, Unannounced, Unsent
    <3>3. known' = known \/ known' = known \cup {events[1].id}
      BY <2>1, <2>4 DEF ReceiveDeleted, Know
    <3>4. view' = view \/ view' = Map(view, events[1].id, "deleted")
      BY <2>1, <2>4 DEF ReceiveDeleted
    <3> QED BY <1>1, <1>2, <2>2, <3>2, <3>3, <3>4
  <2>5. CASE ReceiveAck
    <3>1. own[events[1].id] = "answered" /\ events[1].id \in Own
      BY <2>1, <2>5 DEF ReceiveAck, Arrivals, AnsweredOnce, Event
    <3>2. server[events[1].id] # "unsent"
      BY <3>1 DEF Arrivals, OwnInStep
    <3>3. events[1].id # m
      BY <1>1, <3>1, <3>2 DEF Unsent
    <3>4. view' = {IF e = Temp(events[1].id, e.shows) THEN Entry(events[1].id, "original") ELSE e
                     : e \in view}
      BY <2>1, <2>5 DEF ReceiveAck
    <3>5. Entry(events[1].id, "original").id = events[1].id
      BY DEF Entry
    <3>6. \A e \in view' : e.id = m => e.temp
      BY <1>1, <3>3, <3>4, <3>5
    <3> QED BY <1>3, <2>2, <2>5, <3>6 DEF ReceiveAck
  <2>6. CASE ReceiveNack
    BY <1>1, <1>3, <2>2, <2>6 DEF ReceiveNack
  <2> QED BY <1>9, <2>3, <2>4, <2>5, <2>6 DEF Arriving
<1>10. CASE Outside
  BY <1>1, <1>10 DEF Outside, TheyWrite, TheyEdit, TheyDelete, Answer, LoseEvents
<1> QED BY <1>5, <1>6, <1>7, <1>8, <1>9, <1>10, StepKinds

LEMMA ArrivalsStep == ViewTypeOK /\ Arrivals /\ [Next]_viewVars => Arrivals'
<1>1. CASE UNCHANGED viewVars
  BY <1>1 DEF viewVars, serverVars, pageVars, historyVars, Arrivals, Unannounced, MessageFirst,
              DeletedLast, AnsweredOnce, OwnInStep, NoneOfUnsent, Unsent
<1> QED BY <1>1, UnannouncedStep, MessageFirstStep, DeletedLastStep, AnsweredOnceStep,
           OwnInStepStep, NoneOfUnsentStep DEF Arrivals

-----------------------------------------------------------------------------
(* The copies: the steps                                                   *)

\* Nothing is struck off what the steps remember.
LEMMA Remembered ==
    ViewTypeOK /\ Next => /\ cut \subseteq cut' /\ known \subseteq known'
                          /\ raced \subseteq raced' /\ crossed \subseteq crossed'
<1> USE DEF serverVars, pageVars, historyVars
<1> SUFFICES ASSUME ViewTypeOK, Next
             PROVE  /\ cut \subseteq cut' /\ known \subseteq known'
                    /\ raced \subseteq raced' /\ crossed \subseteq crossed'
  OBVIOUS
<1>1. CASE Outside
  BY <1>1 DEF Outside, TheyWrite, TheyEdit, TheyDelete, Answer, LoseEvents
<1>2. CASE Loading
  BY <1>2 DEF Loading, Fetch, FetchFails, ReadLocal, NextMessage, LoadSlice, LoadDecrypt,
              ShowHistory, EndLoad
<1>3. CASE Arriving
  BY <1>3 DEF Arriving, Receive, ReceiveDeleted, ReceiveAck, ReceiveNack, Know
<1>4. CASE Handling
  BY <1>4 DEF Handling, Process, StartDecrypt, DecryptMessage, DecryptEdit
<1>5. CASE Sending
  BY <1>5 DEF Sending, StartSend, StartEdit, EmitEdit, DeleteOwn, EmitMessage, Know
<1>6. CASE Paging
  BY <1>6 DEF Paging, Write, ChooseConversation, BecomeReady, Close, OpenPage
<1> QED BY <1>1, <1>2, <1>3, <1>4, <1>5, <1>6, StepKinds

\* A step that starts writes and does none: each is where it belongs, and whatever
\* was opened or acknowledged is written.
WritesStarted ==
    /\ stored' = stored /\ writes \subseteq writes'
    /\ \A w \in writes' : w \in writes
         \/ (w.op = "save" /\ (w.conv = ConversationOf[w.id] \/ Astray(w.id)))
         \/ (w.op = "delete" /\ w.id \in known')
    /\ \A p \in opened' : p \in opened \/ (\E w \in writes' : w.op = "save" /\ w.id = p[1])
    /\ \A o \in Own : own'[o] \in {"sent", "re-encrypting"} =>
         \/ own[o] \in {"sent", "re-encrypting"}
         \/ o \in cut
         \/ \E w \in writes' : w.op = "save" /\ w.id = o

LEMMA CopiesWritten ==
    ASSUME ViewTypeOK, CopyInv, Next, WritesStarted
    PROVE  TextsKept' /\ SavesRight' /\ DeletesKnown'
<1>1. cut \subseteq cut' /\ known \subseteq known' /\ crossed \subseteq crossed'
  BY Remembered
<1>2. SavesRight' /\ DeletesKnown'
  BY <1>1 DEF CopyInv, SavesRight, DeletesKnown, WritesStarted, Astray
<1>3. ASSUME NEW m \in Ids, NEW w \in writes', w.op = "save", w.id = m
      PROVE  Kept(m)' \/ <<m, "device">> \in crossed'
  BY <1>2, <1>3 DEF SavesRight, Astray, Kept
<1>4. ASSUME NEW m \in Ids, Kept(m) PROVE Kept(m)'
  BY <1>4 DEF Kept, WritesStarted
<1>5. ASSUME NEW m \in Ids
      PROVE  \/ Kept(m)'
             \/ m \in cut' \cup known' \/ <<m, "device">> \in crossed'
             \/ IF m \in Own THEN own'[m] \notin {"sent", "re-encrypting"}
                ELSE \A text \in Texts : <<m, text>> \notin opened'
  <2>1. CASE m \in Own
    BY <1>1, <1>3, <1>4, <2>1 DEF CopyInv, TextsKept, WritesStarted
  <2>2. CASE m \notin Own
    <3>1. ASSUME NEW text \in Texts, <<m, text>> \in opened', <<m, text>> \notin opened
          PROVE  \E w \in writes' : w.op = "save" /\ w.id = m
      <4>1. <<m, text>>[1] = m
        OBVIOUS
      <4> QED BY <3>1, <4>1 DEF WritesStarted
    <3> QED BY <1>1, <1>3, <1>4, <2>2, <3>1 DEF CopyInv, TextsKept
  <2> QED BY <2>1, <2>2
<1>6. TextsKept'
  BY <1>5 DEF TextsKept
<1> QED BY <1>2, <1>6

\* What is opened, or forgotten, is written.
LEMMA OpenWrites ==
    ASSUME ViewTypeOK, NEW m \in Theirs, NEW text, NEW c, c = ConversationOf[m] \/ Astray(m),
           Open(m, text, c), stored' = stored, own' = own
    PROVE  WritesStarted
<1>1. SaveLocal(m, text, c).op = "save" /\ SaveLocal(m, text, c).id = m
      /\ SaveLocal(m, text, c).conv = c
  BY DEF SaveLocal
<1>2. <<m, text>>[1] = m
  OBVIOUS
<1> QED BY <1>1, <1>2 DEF Open, WritesStarted

LEMMA ForgetWrites ==
    ASSUME ViewTypeOK, NEW m, Forget(m), Know(m), stored' = stored, own' = own, opened' = opened
    PROVE  WritesStarted
<1>1. DeleteLocal(m).op = "delete" /\ DeleteLocal(m).id = m
  BY DEF DeleteLocal
<1> QED BY <1>1 DEF Forget, Know, WritesStarted

LEMMA SaveWrites ==
    ASSUME ViewTypeOK, NEW o \in Own, NEW text, stored' = stored, opened' = opened,
           writes' = writes \cup {SaveLocal(o, text, ConversationOf[o])},
           \A x \in Own : x # o => own'[x] = own[x]
    PROVE  WritesStarted
<1>1. LET w == SaveLocal(o, text, ConversationOf[o])
      IN  w.op = "save" /\ w.id = o /\ w.conv = ConversationOf[o]
  BY DEF SaveLocal
<1> QED BY <1>1 DEF WritesStarted

LEMMA SameWrites ==
    ASSUME UNCHANGED <<stored, writes, opened>>,
           \A o \in Own : own'[o] \in {"sent", "re-encrypting"} =>
             own[o] \in {"sent", "re-encrypting"} \/ o \in cut
    PROVE  WritesStarted
BY DEF WritesStarted

LEMMA StartsOrDoes ==
    ASSUME ViewTypeOK, CopyInv, Next
    PROVE  WritesStarted \/ (\E w \in writes : Write(w)) \/ Close
<1> USE DEF serverVars, pageVars, historyVars
<1>1. CASE Outside
  <2>1. \A o \in Own : own[o] = "orphan" => o \in cut
    BY DEF CopyInv, OrphansCut
  <2>2. ASSUME NEW o \in Own, NEW success \in BOOLEAN, Answer(o, success) PROVE WritesStarted
    BY <2>1, <2>2, SameWrites DEF Answer, ViewTypeOK
  <2>3. CASE LoseEvents
    BY <2>3, SameWrites DEF LoseEvents
  <2> QED BY <1>1, <2>2, <2>3, SameWrites DEF Outside, TheyWrite, TheyEdit, TheyDelete
<1>2. CASE Loading
  <2>1. CASE LoadDecrypt
    <3>1. /\ load.todo # <<>> /\ Head(load.todo).id \in Theirs
          /\ ConversationOf[load.todo[1].id] = load.conv
          /\ Head(load.todo) = load.todo[1]
      <4>1. load.todo # <<>> /\ Head(load.todo).id \in Theirs
        BY <2>1 DEF LoadDecrypt, ViewTypeOK, LoadSound
      <4>2. Head(load.todo) = load.todo[1] /\ 1 \in DOMAIN load.todo
        BY <4>1, Parts, HeadAndTail
      <4> QED BY <4>1, <4>2 DEF ViewTypeOK, LoadSound
    <3>2. stored' = stored /\ own' = own
      BY <2>1 DEF LoadDecrypt
    <3>3. \/ Open(Head(load.todo).id, Head(load.todo).text, load.conv)
          \/ UNCHANGED <<opened, writes>>
      BY <2>1 DEF LoadDecrypt
    <3> QED BY <3>1, <3>2, <3>3, OpenWrites, SameWrites
  <2> QED BY <1>2, <2>1, SameWrites DEF Loading, Fetch, FetchFails, ReadLocal, NextMessage,
             LoadSlice, ShowHistory, EndLoad
<1>3. CASE Arriving
  <2>1. events # <<>> /\ Head(events) \in Event
    BY <1>3, Taken DEF Arriving, Receive, ReceiveDeleted, ReceiveAck, ReceiveNack
  <2>2. CASE Receive
    BY <2>2, SameWrites DEF Receive
  <2>3. CASE ReceiveDeleted
    BY <2>3, SameWrites, ForgetWrites DEF ReceiveDeleted
  <2>4. CASE ReceiveAck
    <3>1. Head(events).id \in Own
      BY <2>1, <2>4 DEF ReceiveAck, Event
    <3>2. \A x \in Own : x # Head(events).id => own'[x] = own[x]
      BY <2>4 DEF ReceiveAck, ViewTypeOK
    <3> QED BY <2>4, <3>1, <3>2, SaveWrites DEF ReceiveAck
  <2>5. CASE ReceiveNack
    <3>1. \A x \in Own : own'[x] = own[x] \/ own'[x] = "stuck"
      BY <2>5 DEF ReceiveNack, ViewTypeOK
    <3> QED BY <2>5, <3>1, SameWrites DEF ReceiveNack
  <2> QED BY <1>3, <2>2, <2>3, <2>4, <2>5 DEF Arriving
<1>4. CASE Handling
  <2>1. PICK h \in handlers : Process(h) \/ StartDecrypt(h) \/ DecryptMessage(h) \/ DecryptEdit(h)
    BY <1>4 DEF Handling
  <2>2. h.id \in Theirs
    BY Parts
  <2>3. CASE Process(h) \/ StartDecrypt(h)
    BY <2>3, SameWrites DEF Process, StartDecrypt
  <2>4. CASE DecryptMessage(h)
    <3>1. h.type = "message" /\ h.step # "device"
      BY <2>4 DEF DecryptMessage
    <3>2. h.conv = ConversationOf[h.id] \/ Astray(h.id)
      BY <3>1 DEF CopyInv, HandlersRight
    <3> QED BY <2>2, <2>4, <3>2, OpenWrites, SameWrites DEF DecryptMessage
  <2>5. CASE DecryptEdit(h)
    BY <2>2, <2>5, OpenWrites, SameWrites DEF DecryptEdit
  <2> QED BY <2>1, <2>3, <2>4, <2>5
<1>5. CASE Sending
  <2>1. PICK o \in Own : \/ StartSend(o) \/ StartEdit(o) \/ EmitEdit(o) \/ DeleteOwn(o)
                         \/ \E dropped \in BOOLEAN : EmitMessage(o, dropped)
    BY <1>5 DEF Sending
  <2>2. CASE StartSend(o) \/ StartEdit(o) \/ (\E dropped \in BOOLEAN : EmitMessage(o, dropped))
    <3>1. \A x \in Own : own'[x] \in {"sent", "re-encrypting"} => own[x] \in {"sent", "re-encrypting"}
      BY <2>2 DEF StartSend, StartEdit, EmitMessage, ViewTypeOK
    <3> QED BY <2>2, <3>1, SameWrites DEF StartSend, StartEdit, EmitMessage
  <2>3. CASE EmitEdit(o)
    <3>1. \A x \in Own : x # o => own'[x] = own[x]
      BY <2>3 DEF EmitEdit, ViewTypeOK
    <3> QED BY <2>3, <3>1, SaveWrites DEF EmitEdit
  <2>4. CASE DeleteOwn(o)
    BY <2>4, SameWrites, ForgetWrites DEF DeleteOwn
  <2> QED BY <2>1, <2>2, <2>3, <2>4
<1>6. CASE Paging
  BY <1>6, SameWrites DEF Paging, ChooseConversation, BecomeReady, OpenPage
<1> QED BY <1>1, <1>2, <1>3, <1>4, <1>5, <1>6, StepKinds

\* A write that is done leaves a copy, or removes one of a message that was deleted.
LEMMA CopiesDone ==
    ASSUME ViewTypeOK, CopyInv, NEW w \in writes, Write(w)
    PROVE  TextsKept' /\ SavesRight' /\ DeletesKnown'
<1> USE DEF serverVars, pageVars, historyVars
<1>1. /\ UNCHANGED <<cut, known, crossed, own, opened>> /\ writes' = writes \ {w}
      /\ \A m \in Ids : m # w.id => stored'[m] = stored[m]
      /\ w.op = "save" => stored'[w.id].conv = w.conv
      /\ w.id \in Ids /\ w.op \in {"save", "delete"}
  BY DEF Write, ViewTypeOK, Save, Deletion
<1>2. SavesRight' /\ DeletesKnown'
  BY <1>1 DEF CopyInv, SavesRight, DeletesKnown, Astray
<1>3. ASSUME NEW m \in Ids
      PROVE  \/ Kept(m)'
             \/ m \in cut \cup known \/ <<m, "device">> \in crossed
             \/ IF m \in Own THEN own[m] \notin {"sent", "re-encrypting"}
                ELSE \A text \in Texts : <<m, text>> \notin opened
  <2>1. CASE m # w.id
    BY <1>1, <2>1 DEF CopyInv, TextsKept, Kept
  <2>2. CASE m = w.id /\ w.op = "save"
    BY <1>1, <2>2 DEF CopyInv, SavesRight, Astray, Kept
  <2>3. CASE m = w.id /\ w.op = "delete"
    BY <2>3 DEF CopyInv, DeletesKnown
  <2> QED BY <1>1, <2>1, <2>2, <2>3
<1>4. TextsKept'
  BY <1>1, <1>3 DEF TextsKept
<1> QED BY <1>2, <1>4

\* A page that goes leaves its writes among what was cut off.
LEMMA CopiesCut ==
    ASSUME ViewTypeOK, CopyInv, Close
    PROVE  TextsKept' /\ SavesRight' /\ DeletesKnown'
<1>1. /\ UNCHANGED <<known, crossed, opened, stored>> /\ writes' = {}
      /\ cut \subseteq cut' /\ \A w \in writes : w.id \in cut'
      /\ \A o \in Own : own'[o] \in {"sent", "re-encrypting"} => own[o] \in {"sent", "re-encrypting"}
  BY DEF Close, ViewTypeOK
<1>2. SavesRight' /\ DeletesKnown'
  BY <1>1 DEF SavesRight, DeletesKnown
<1>3. ASSUME NEW m \in Ids
      PROVE  \/ Kept(m)'
             \/ m \in cut' \cup known \/ <<m, "device">> \in crossed
             \/ IF m \in Own THEN own'[m] \notin {"sent", "re-encrypting"}
                ELSE \A text \in Texts : <<m, text>> \notin opened
  BY <1>1 DEF CopyInv, TextsKept, Kept
<1>4. TextsKept'
  BY <1>1, <1>3 DEF TextsKept
<1> QED BY <1>2, <1>4

\* A handler keeps the conversation it was given, and one that had not asked for it
\* when the conversation changed is on the record.
LEMMA HandlersStep == ViewTypeOK /\ CopyInv /\ Next => HandlersRight'
<1> SUFFICES ASSUME ViewTypeOK, CopyInv, Next PROVE HandlersRight'
  OBVIOUS
<1> USE DEF serverVars, pageVars, historyVars
<1>1. HandlersRight /\ crossed \subseteq crossed'
  BY Remembered DEF CopyInv
<1>2. ASSUME handlers' \subseteq handlers, conv' = conv PROVE HandlersRight'
  BY <1>1, <1>2 DEF HandlersRight, Astray
<1>3. CASE Outside
  BY <1>2, <1>3 DEF Outside, TheyWrite, TheyEdit, TheyDelete, Answer, LoseEvents
<1>4. CASE Loading
  BY <1>2, <1>4 DEF Loading, Fetch, FetchFails, ReadLocal, NextMessage, LoadSlice, LoadDecrypt,
                    ShowHistory, EndLoad
<1>5. CASE Arriving
  <2>1. CASE Receive
    <3>1. CASE Concerns(Head(events))
      <4>1. handlers' = handlers \cup {Handler(Head(events), "device")} /\ conv' = conv
        BY <2>1, <3>1 DEF Receive
      <4>2. ConversationOf[Handler(Head(events), "device").id] = conv
            /\ Handler(Head(events), "device").step = "device"
        BY <3>1 DEF Concerns, Handler
      <4> QED BY <1>1, <4>1, <4>2 DEF HandlersRight, Astray
    <3>2. CASE ~Concerns(Head(events))
      BY <1>2, <2>1, <3>2 DEF Receive
    <3> QED BY <3>1, <3>2
  <2> QED BY <1>2, <1>5, <2>1 DEF Arriving, ReceiveDeleted, ReceiveAck, ReceiveNack
<1>6. CASE Handling
  <2>1. PICK h \in handlers : Process(h) \/ StartDecrypt(h) \/ DecryptMessage(h) \/ DecryptEdit(h)
    BY <1>6 DEF Handling
  <2>2. h \in MessageHandler \cup EditHandler
    BY DEF ViewTypeOK
  <2>3. conv' = conv
    BY <2>1 DEF Process, StartDecrypt, DecryptMessage, DecryptEdit
  <2> DEFINE sliced == [h EXCEPT !.step = "slice", !.conv = conv]
             lent == [h EXCEPT !.step = "decrypt"]
  <2>4. sliced.id = h.id /\ sliced.step = "slice" /\ sliced.conv = conv
        /\ lent.id = h.id /\ lent.step = "decrypt" /\ lent.conv = h.conv /\ lent.type = h.type
    BY <2>2 DEF MessageHandler, EditHandler
  <2>5. CASE handlers' \subseteq handlers
    BY <1>2, <2>3, <2>5
  <2>6. CASE Process(h) /\ handlers' = (handlers \ {h}) \cup {sliced}
    <3>1. h.type = "message" /\ h.step = "device"
      BY <2>6 DEF Process
    <3> HIDE DEF sliced
    <3> QED BY <1>1, <2>3, <2>4, <2>6, <3>1 DEF HandlersRight, Astray
  <2>7. CASE StartDecrypt(h) /\ handlers' = (handlers \ {h}) \cup {lent}
    <3>1. h.type = "message" => h.step = "slice"
      BY <2>7 DEF StartDecrypt
    <3> HIDE DEF lent
    <3> QED BY <1>1, <2>3, <2>4, <2>7, <3>1 DEF HandlersRight, Astray
  <2>8. \/ handlers' = handlers \ {h}
        \/ Process(h) /\ handlers' = (handlers \ {h}) \cup {sliced}
        \/ StartDecrypt(h) /\ handlers' = (handlers \ {h}) \cup {lent}
    BY <2>1 DEF Process, StartDecrypt, DecryptMessage, DecryptEdit, Ends, Steps
  <2> QED BY <2>5, <2>6, <2>7, <2>8
<1>7. CASE Sending
  BY <1>2, <1>7 DEF Sending, StartSend, StartEdit, EmitEdit, DeleteOwn, EmitMessage
<1>8. CASE Paging
  <2>1. ASSUME NEW c \in Conversations, ChooseConversation(c) PROVE HandlersRight'
    <3>1. handlers' = handlers /\ \A h \in handlers : <<h.id, h.step>> \in crossed'
      BY <2>1 DEF ChooseConversation
    <3> QED BY <1>1, <3>1 DEF HandlersRight, Astray
  <2>2. CASE Close
    BY <2>2 DEF Close, HandlersRight
  <2> QED BY <1>2, <1>8, <2>1, <2>2 DEF Paging, Write, BecomeReady, OpenPage
<1> QED BY <1>3, <1>4, <1>5, <1>6, <1>7, <1>8, StepKinds

LEMMA OrphansStep == ViewTypeOK /\ CopyInv /\ Next => OrphansCut'
<1> SUFFICES ASSUME ViewTypeOK, CopyInv, Next PROVE OrphansCut'
  OBVIOUS
<1> USE DEF serverVars, pageVars, historyVars
<1>1. OrphansCut /\ cut \subseteq cut'
  BY Remembered DEF CopyInv
<1>2. ASSUME \A o \in Own : own'[o] = "orphan" => own[o] = "orphan" PROVE OrphansCut'
  BY <1>1, <1>2 DEF OrphansCut
<1>3. CASE Outside
  BY <1>2, <1>3 DEF Outside, TheyWrite, TheyEdit, TheyDelete, Answer, LoseEvents, ViewTypeOK
<1>4. CASE Loading
  BY <1>2, <1>4 DEF Loading, Fetch, FetchFails, ReadLocal, NextMessage, LoadSlice, LoadDecrypt,
                    ShowHistory, EndLoad
<1>5. CASE Arriving
  BY <1>2, <1>5 DEF Arriving, Receive, ReceiveDeleted, ReceiveAck, ReceiveNack, ViewTypeOK
<1>6. CASE Handling
  BY <1>2, <1>6 DEF Handling, Process, StartDecrypt, DecryptMessage, DecryptEdit
<1>7. CASE Sending
  BY <1>2, <1>7 DEF Sending, StartSend, StartEdit, EmitEdit, DeleteOwn, EmitMessage, ViewTypeOK
<1>8. CASE Paging
  <2>1. CASE Close
    BY <1>1, <2>1 DEF Close, OrphansCut, ViewTypeOK
  <2> QED BY <1>2, <1>8, <2>1 DEF Paging, Write, ChooseConversation, BecomeReady, OpenPage
<1> QED BY <1>3, <1>4, <1>5, <1>6, <1>7, <1>8, StepKinds

LEMMA CopyStep == ViewTypeOK /\ CopyInv /\ [Next]_viewVars => CopyInv'
<1>1. CASE UNCHANGED viewVars
  BY <1>1 DEF viewVars, serverVars, pageVars, historyVars, CopyInv, TextsKept, Kept, SavesRight,
              HandlersRight, DeletesKnown, OrphansCut, Astray
<1> QED BY <1>1, StartsOrDoes, CopiesWritten, CopiesDone, CopiesCut, HandlersStep, OrphansStep
        DEF CopyInv

-----------------------------------------------------------------------------
(* What was deleted: the steps                                             *)

\* A deletion becomes known when its event comes, or it is made here.
LEMMA NewlyKnown ==
    ASSUME ViewTypeOK, Next
    PROVE  \/ known' = known
           \/ /\ ReceiveDeleted /\ events # <<>> /\ Forget(events[1].id) /\ Know(events[1].id)
           \/ \E o \in Own : /\ DeleteOwn(o) /\ Forget(o) /\ Know(o)
                             /\ server' = [server EXCEPT ![o] = "gone"]
<1> USE DEF serverVars, pageVars, historyVars
<1>1. CASE Outside
  BY <1>1 DEF Outside, TheyWrite, TheyEdit, TheyDelete, Answer, LoseEvents
<1>2. CASE Loading
  BY <1>2 DEF Loading, Fetch, FetchFails, ReadLocal, NextMessage, LoadSlice, LoadDecrypt,
              ShowHistory, EndLoad
<1>3. CASE Arriving
  <2>1. events # <<>> /\ Head(events) = events[1]
    BY <1>3, Taken DEF Arriving, Receive, ReceiveDeleted, ReceiveAck, ReceiveNack
  <2> QED BY <1>3, <2>1 DEF Arriving, Receive, ReceiveDeleted, ReceiveAck, ReceiveNack
<1>4. CASE Handling
  BY <1>4 DEF Handling, Process, StartDecrypt, DecryptMessage, DecryptEdit
<1>5. CASE Sending
  BY <1>5 DEF Sending, StartSend, StartEdit, EmitEdit, DeleteOwn, EmitMessage
<1>6. CASE Paging
  BY <1>6 DEF Paging, Write, ChooseConversation, BecomeReady, Close, OpenPage
<1> QED BY <1>1, <1>2, <1>3, <1>4, <1>5, <1>6, StepKinds

LEMMA KnownGoneStep == ViewTypeOK /\ Arrivals /\ KnownGone /\ Next => KnownGone'
<1> SUFFICES ASSUME ViewTypeOK, Arrivals, KnownGone, Next PROVE KnownGone'
  OBVIOUS
<1> USE DEF serverVars, pageVars, historyVars
<1>1. ASSUME NEW m \in Ids, server[m] = "gone", m \in Theirs => \A i \in DOMAIN events : events[i].id # m
      PROVE  /\ server'[m] = "gone"
             /\ m \in Theirs => \A i \in DOMAIN events' : events'[i].id # m
  <2>1. CASE Outside
    <3>1. ASSUME NEW e \in Event, events' = Append(events, e) \/ events' = events, e.id # m \/ m \notin Theirs,
                 server'[m] = "gone"
          PROVE  m \in Theirs => \A i \in DOMAIN events' : events'[i].id # m
      BY <1>1, <3>1, Announced
    <3>2. ASSUME NEW x \in Theirs, TheyWrite(x)
          PROVE  server'[m] = "gone" /\ (m \in Theirs => \A i \in DOMAIN events' : events'[i].id # m)
      <4>1. [type |-> "message", id |-> x, text |-> "original"] \in Event
        BY DEF Event
      <4>2. server'[m] = "gone" /\ m # x
        BY <1>1, <3>2 DEF TheyWrite, ViewTypeOK
      <4> QED BY <3>1, <3>2, <4>1, <4>2 DEF TheyWrite, Announce
    <3>3. ASSUME NEW x \in Theirs, TheyEdit(x)
          PROVE  server'[m] = "gone" /\ (m \in Theirs => \A i \in DOMAIN events' : events'[i].id # m)
      <4>1. [type |-> "message:edited", id |-> x, text |-> "edited"] \in Event
        BY DEF Event
      <4>2. server'[m] = "gone" /\ m # x
        BY <1>1, <3>3 DEF TheyEdit, ViewTypeOK
      <4> QED BY <3>1, <3>3, <4>1, <4>2 DEF TheyEdit, Announce
    <3>4. ASSUME NEW x \in Theirs, TheyDelete(x)
          PROVE  server'[m] = "gone" /\ (m \in Theirs => \A i \in DOMAIN events' : events'[i].id # m)
      <4>1. [type |-> "message:deleted", id |-> x, text |-> NoText] \in Event
        BY DEF Event
      <4>2. server'[m] = "gone" /\ m # x
        BY <1>1, <3>4 DEF TheyDelete, ViewTypeOK, Texts
      <4> QED BY <3>1, <3>4, <4>1, <4>2 DEF TheyDelete, Announce
    <3>5. ASSUME NEW o \in Own, NEW success \in BOOLEAN, Answer(o, success)
          PROVE  server'[m] = "gone" /\ (m \in Theirs => \A i \in DOMAIN events' : events'[i].id # m)
      <4> DEFINE e == [type |-> IF success THEN "ack" ELSE "nack", id |-> o, text |-> "original"]
      <4>1. e \in Event /\ e.id = o
        BY DEF Event
      <4>2. events' = Append(events, e) \/ events' = events
        BY <3>5 DEF Answer
      <4>3. server[o] = "unsent"
        BY <3>5 DEF Answer, Arrivals, OwnInStep
      <4>4. server'[m] = "gone" /\ (m # o \/ m \notin Theirs)
        BY <1>1, <3>5, <4>3, Basics DEF Answer, ViewTypeOK
      <4> HIDE DEF e
      <4> QED BY <3>1, <4>1, <4>2, <4>4
    <3>6. CASE LoseEvents
      BY <1>1, <3>6 DEF LoseEvents
    <3> QED BY <2>1, <3>2, <3>3, <3>4, <3>5, <3>6 DEF Outside
  <2>2. CASE Arriving
    <3>1. events # <<>> /\ events' = Tail(events) /\ server' = server
      BY <2>2 DEF Arriving, Receive, ReceiveDeleted, ReceiveAck, ReceiveNack
    <3> QED BY <1>1, <3>1, Taken
  <2>3. CASE Sending
    BY <1>1, <2>3, Basics DEF Sending, StartSend, StartEdit, EmitEdit, DeleteOwn, EmitMessage, ViewTypeOK
  <2>4. CASE Loading
    BY <1>1, <2>4 DEF Loading, Fetch, FetchFails, ReadLocal, NextMessage, LoadSlice, LoadDecrypt,
                      ShowHistory, EndLoad
  <2>5. CASE Handling
    BY <1>1, <2>5 DEF Handling, Process, StartDecrypt, DecryptMessage, DecryptEdit
  <2>6. CASE Paging
    <3>1. server' = server
      BY <2>6 DEF Paging, Write, ChooseConversation, BecomeReady, Close, OpenPage
    <3>2. events' = events \/ events' = <<>>
      BY <2>6, Quiet
    <3> QED BY <1>1, <3>1, <3>2
  <2> QED BY <2>1, <2>2, <2>3, <2>4, <2>5, <2>6, StepKinds
<1>2. CASE known' = known
  BY <1>1, <1>2 DEF KnownGone
<1>3. CASE ReceiveDeleted /\ events # <<>> /\ Forget(events[1].id) /\ Know(events[1].id)
  <2>1. known' = known \cup {events[1].id} /\ events' = Tail(events) /\ server' = server
    BY <1>3 DEF Know, ReceiveDeleted
  <2>2. /\ events[1].type = "message:deleted" /\ 1 \in DOMAIN events /\ events[1].id \in Ids
        /\ Head(events) = events[1]
    BY <1>3, Taken, Parts DEF ReceiveDeleted
  <2>3. /\ server[events[1].id] = "gone"
        /\ \A j \in DOMAIN events : 1 < j => events[j].id # events[1].id
    BY <2>2 DEF Arrivals, DeletedLast
  <2>4. \A i \in DOMAIN events' : i + 1 \in DOMAIN events /\ events'[i] = events[i + 1] /\ 1 < i + 1
    BY <1>3, <2>1, Taken DEF ViewTypeOK
  <2> QED BY <1>1, <2>1, <2>2, <2>3, <2>4 DEF KnownGone
<1>4. ASSUME NEW o \in Own, DeleteOwn(o), Forget(o), Know(o), server' = [server EXCEPT ![o] = "gone"]
      PROVE  KnownGone'
  <2>1. known' = known \cup {o} /\ server'[o] = "gone" /\ o \in Ids /\ o \notin Theirs
    BY <1>4, Basics DEF Know, ViewTypeOK
  <2> QED BY <1>1, <2>1 DEF KnownGone
<1> QED BY <1>2, <1>3, <1>4, NewlyKnown

\* What was cleared stays so.
LoadClear(m) ==
    /\ \A i \in DOMAIN load.todo : load.todo[i].id # m
    /\ \A e \in load.done : e.id # m

LEMMA ProcessedClear ==
    ASSUME ViewTypeOK, NEW m, LoadClear(m), load.todo # <<>>, NEW x, Processed(x)
    PROVE  LoadClear(m)' /\ Head(load.todo).id # m
<1>1. /\ Head(load.todo) = load.todo[1] /\ 1 \in DOMAIN load.todo
      /\ \A i \in DOMAIN Tail(load.todo) :
           i + 1 \in DOMAIN load.todo /\ Tail(load.todo)[i] = load.todo[i + 1]
  BY Parts, HeadAndTail
<1>2. load'.todo = Tail(load.todo) /\ load'.done = load.done \cup {Entry(Head(load.todo).id, x)}
  BY DEF Processed, ViewTypeOK, Load
<1>3. Head(load.todo).id # m /\ Entry(Head(load.todo).id, x).id # m
  BY <1>1 DEF Entry, LoadClear
<1> QED BY <1>1, <1>2, <1>3 DEF LoadClear

LEMMA StaysClear ==
    ASSUME ViewTypeOK, Arrivals, KnownGone, Next,
           NEW m \in known, Clear(m), m \notin cut'
    PROVE  Clear(m)'
<1> USE DEF serverVars, pageVars, historyVars
<1>1. m \in Ids /\ server[m] = "gone" /\ (m \in Theirs => \A i \in DOMAIN events : events[i].id # m)
  BY DEF KnownGone
<1>2. /\ \A h \in handlers : h.id # m
      /\ \A w \in writes : w.id = m => w.op = "delete"
      /\ LoadClear(m)
      /\ m \in Own => own[m] \notin {"emitted", "answered", "re-encrypting"}
      /\ cache[m] = NoText
      /\ stored[m] = NotStored \/ DeleteLocal(m) \in writes
  <2>1. \A w \in writes : w.op \in {"save", "delete"}
    BY DEF ViewTypeOK, Save, Deletion
  <2> QED BY <2>1 DEF Clear, Underway, LoadClear
<1>3. m \in Own => own[m] \notin {"unsent", "encrypting"}
  BY <1>1 DEF Arrivals, OwnInStep, NoneOfUnsent, Unsent
<1>4. ASSUME \A h \in handlers' : h.id # m,
             \A w \in writes' : w.id = m => w.op = "delete",
             LoadClear(m)',
             m \in Own => own'[m] \notin {"emitted", "answered", "re-encrypting"},
             cache'[m] = NoText,
             stored'[m] = NotStored \/ DeleteLocal(m) \in writes'
      PROVE  Clear(m)'
  <2>1. ~Underway(m)'
    BY <1>4 DEF Underway, LoadClear
  <2> QED BY <1>4, <2>1 DEF Clear
<1>5. load' = load => LoadClear(m)'
  BY <1>2 DEF LoadClear
<1>6. ASSUME NEW x, NEW text, NEW c, x # m, Open(x, text, c)
      PROVE  /\ cache'[m] = NoText /\ \A w \in writes' : w.id = m => w.op = "delete"
             /\ DeleteLocal(m) \in writes => DeleteLocal(m) \in writes'
  BY <1>1, <1>2, <1>6 DEF Open, SaveLocal, ViewTypeOK, Cache
<1>7. ASSUME NEW x, Forget(x)
      PROVE  /\ cache'[m] = NoText /\ \A w \in writes' : w.id = m => w.op = "delete"
             /\ DeleteLocal(m) \in writes => DeleteLocal(m) \in writes'
  BY <1>1, <1>2, <1>7 DEF Forget, DeleteLocal, ViewTypeOK, Cache
<1>8. CASE Outside
  <2>1. UNCHANGED <<handlers, writes, load, cache, stored>>
    BY <1>8 DEF Outside, TheyWrite, TheyEdit, TheyDelete, Answer, LoseEvents
  <2>2. m \in Own => own'[m] = own[m] \/ own'[m] \in {"sent", "stuck"}
    BY <1>2, <1>8 DEF Outside, TheyWrite, TheyEdit, TheyDelete, Answer, LoseEvents, ViewTypeOK
  <2> QED BY <1>2, <1>4, <1>5, <2>1, <2>2
<1>9. CASE Loading
  <2>1. UNCHANGED <<handlers, stored, own>>
    BY <1>9 DEF Loading, Fetch, FetchFails, ReadLocal, NextMessage, LoadSlice, LoadDecrypt,
                    ShowHistory, EndLoad
  <2>2. CASE Fetch
    <3>1. load'.done = load.done /\ \A k \in DOMAIN load'.todo : server[load'.todo[k].id] \in Texts
      BY <2>2, FetchEffect DEF ViewTypeOK, Load
    <3>2. LoadClear(m)'
      BY <1>1, <1>2, <3>1 DEF LoadClear, Texts
    <3> QED BY <1>2, <1>4, <2>1, <2>2, <3>2 DEF Fetch
  <2>3. CASE FetchFails \/ EndLoad
    <3>1. LoadClear(m)'
      BY <2>3, Parts DEF FetchFails, EndLoad, LoadClear
    <3> QED BY <1>2, <1>4, <2>1, <2>3, <3>1 DEF FetchFails, EndLoad
  <2>4. CASE ReadLocal \/ ShowHistory
    <3>1. load'.todo = load.todo /\ (load'.done = load.done \/ load'.done = {})
      BY <2>4 DEF ReadLocal, ShowHistory, ViewTypeOK, Load
    <3>2. LoadClear(m)'
      BY <1>2, <3>1 DEF LoadClear
    <3> QED BY <1>2, <1>4, <2>1, <2>4, <3>2 DEF ReadLocal, ShowHistory
  <2>5. CASE NextMessage \/ LoadSlice
    <3>1. load.todo # <<>>
      BY <2>5 DEF NextMessage, LoadSlice, ViewTypeOK, LoadSound
    <3>2. (\E x : Processed(x)) \/ (load'.todo = load.todo /\ load'.done = load.done)
      BY <2>5 DEF NextMessage, LoadSlice, ViewTypeOK, Load
    <3>3. LoadClear(m)'
      BY <1>2, <3>1, <3>2, ProcessedClear DEF LoadClear
    <3> QED BY <1>2, <1>4, <2>1, <2>5, <3>3 DEF NextMessage, LoadSlice
  <2>6. CASE LoadDecrypt
    <3>1. load.todo # <<>>
      BY <2>6 DEF LoadDecrypt, ViewTypeOK, LoadSound
    <3>2. \E x : Processed(x)
      BY <2>6 DEF LoadDecrypt
    <3>3. LoadClear(m)' /\ Head(load.todo).id # m
      BY <1>2, <3>1, <3>2, ProcessedClear
    <3>4. \/ Open(Head(load.todo).id, Head(load.todo).text, load.conv)
          \/ UNCHANGED <<cache, writes>>
      BY <2>6 DEF LoadDecrypt
    <3> QED BY <1>2, <1>4, <1>6, <2>1, <3>3, <3>4
  <2> QED BY <1>9, <2>2, <2>3, <2>4, <2>5, <2>6 DEF Loading
<1>10. CASE Arriving
  <2>1. /\ events # <<>> /\ Head(events) = events[1] /\ 1 \in DOMAIN events /\ events[1] \in Event
        /\ UNCHANGED <<stored, load>>
    BY <1>10, Taken DEF Arriving, Receive, ReceiveDeleted, ReceiveAck, ReceiveNack
  <2>2. CASE Receive
    <3>1. events[1].id \in Theirs
      BY <2>1, <2>2 DEF Receive, Event
    <3>2. Handler(events[1], "device").id # m
      BY <1>1, <2>1, <3>1 DEF Handler
    <3> QED BY <1>2, <1>4, <1>5, <2>1, <2>2, <3>2 DEF Receive
  <2>3. CASE ReceiveDeleted
    <3>1. UNCHANGED <<handlers, own>> /\ ((\E x : Forget(x)) \/ UNCHANGED <<cache, writes>>)
      BY <2>3 DEF ReceiveDeleted
    <3> QED BY <1>2, <1>4, <1>5, <1>7, <2>1, <3>1
  <2>4. CASE ReceiveAck \/ ReceiveNack
    <3>1. own[events[1].id] = "answered" /\ events[1].id \in Own
      BY <2>1, <2>4 DEF ReceiveAck, ReceiveNack, Arrivals, AnsweredOnce, Event
    <3>2. events[1].id # m
      BY <1>2, <3>1
    <3>3. SaveLocal(events[1].id, "original", ConversationOf[events[1].id]).id # m
      BY <3>2 DEF SaveLocal
    <3>4. UNCHANGED <<handlers, cache>>
          /\ (writes' = writes \/ writes' = writes \cup
                 {SaveLocal(events[1].id, "original", ConversationOf[events[1].id])})
      BY <2>1, <2>4 DEF ReceiveAck, ReceiveNack
    <3>5. m \in Own => own'[m] = own[m]
      BY <2>1, <2>4, <3>2 DEF ReceiveAck, ReceiveNack, ViewTypeOK
    <3> QED BY <1>2, <1>4, <1>5, <2>1, <3>3, <3>4, <3>5
  <2> QED BY <1>10, <2>2, <2>3, <2>4 DEF Arriving
<1>11. CASE Handling
  <2>1. PICK h \in handlers : Process(h) \/ StartDecrypt(h) \/ DecryptMessage(h) \/ DecryptEdit(h)
    BY <1>11 DEF Handling
  <2>2. h.id # m
    BY <1>2
  <2>3. \A g \in handlers' : g.id # m
    BY <1>2, <1>11, Quiet
  <2>4. UNCHANGED <<stored, own, load>>
    BY <2>1 DEF Process, StartDecrypt, DecryptMessage, DecryptEdit
  <2>5. (\E text, c : Open(h.id, text, c)) \/ UNCHANGED <<cache, writes>>
    BY <2>1 DEF Process, StartDecrypt, DecryptMessage, DecryptEdit
  <2> QED BY <1>2, <1>4, <1>5, <1>6, <2>2, <2>3, <2>4, <2>5
<1>12. CASE Sending
  <2>1. PICK o \in Own : \/ StartSend(o) \/ StartEdit(o) \/ EmitEdit(o) \/ DeleteOwn(o)
                         \/ \E dropped \in BOOLEAN : EmitMessage(o, dropped)
    BY <1>12 DEF Sending
  <2>2. UNCHANGED <<handlers, stored, load>>
    BY <2>1 DEF StartSend, StartEdit, EmitEdit, DeleteOwn, EmitMessage
  <2>3. CASE StartSend(o) \/ StartEdit(o) \/ (\E dropped \in BOOLEAN : EmitMessage(o, dropped))
    <3>1. o # m
      BY <1>1, <1>2, <1>3, <2>3 DEF StartSend, StartEdit, EmitMessage
    <3>2. UNCHANGED <<writes, cache>> /\ (m \in Own => own'[m] = own[m])
      BY <2>3, <3>1 DEF StartSend, StartEdit, EmitMessage, ViewTypeOK
    <3> QED BY <1>2, <1>4, <1>5, <2>2, <3>2
  <2>4. CASE EmitEdit(o)
    <3>1. o # m
      BY <1>2, <2>4 DEF EmitEdit
    <3>2. SaveLocal(o, "edited", ConversationOf[o]).id # m
      BY <3>1 DEF SaveLocal
    <3>3. cache'[m] = NoText /\ (m \in Own => own'[m] = own[m])
      BY <1>1, <1>2, <2>4, <3>1 DEF EmitEdit, ViewTypeOK, Cache
    <3> QED BY <1>2, <1>4, <1>5, <2>2, <2>4, <3>2, <3>3 DEF EmitEdit
  <2>5. CASE DeleteOwn(o)
    <3>1. own' = own /\ (Forget(o) \/ UNCHANGED <<cache, writes>>)
      BY <2>5 DEF DeleteOwn
    <3> QED BY <1>2, <1>4, <1>5, <1>7, <2>2, <3>1
  <2> QED BY <2>1, <2>3, <2>4, <2>5
<1>13. CASE Paging
  <2>1. NoCache[m] = NoText
    BY <1>1 DEF NoCache
  <2>2. ASSUME NEW c, StartLoad(c) PROVE LoadClear(m)'
    BY <1>2, <2>2 DEF StartLoad, IdleLoad, LoadClear
  <2>3. ASSUME NEW w \in writes, Write(w) PROVE Clear(m)'
    <3>1. UNCHANGED <<handlers, load, own, cache>> /\ writes' = writes \ {w}
      BY <2>3 DEF Write
    <3>2. CASE w.id = m
      <4>1. stored'[m] = NotStored
        BY <1>1, <1>2, <2>3, <3>2 DEF Write, ViewTypeOK
      <4> QED BY <1>2, <1>4, <1>5, <3>1, <4>1
    <3>3. CASE w.id # m
      <4>1. w # DeleteLocal(m) /\ stored'[m] = stored[m]
        BY <1>1, <2>3, <3>3 DEF Write, DeleteLocal, ViewTypeOK
      <4> QED BY <1>2, <1>4, <1>5, <3>1, <4>1
    <3> QED BY <3>2, <3>3
  <2>4. ASSUME NEW c \in Conversations, ChooseConversation(c) PROVE Clear(m)'
    <3>1. UNCHANGED <<handlers, writes, own, stored>> /\ cache' = NoCache
          /\ (load' = load \/ StartLoad(c))
      BY <2>4 DEF ChooseConversation
    <3> QED BY <1>2, <1>4, <1>5, <2>1, <2>2, <3>1
  <2>5. CASE BecomeReady
    BY <1>2, <1>4, <2>2, <2>5 DEF BecomeReady
  <2>6. CASE Close
    <3>1. handlers' = {} /\ writes' = {} /\ cache' = NoCache /\ load' = IdleLoad /\ stored' = stored
      BY <2>6 DEF Close
    <3>2. LoadClear(m)'
      BY <3>1, Parts DEF LoadClear
    <3>3. m \in Own => own'[m] \notin {"emitted", "answered", "re-encrypting"}
      BY <2>6 DEF Close, ViewTypeOK
    <3>4. DeleteLocal(m) \notin writes
      BY <2>6 DEF Close, DeleteLocal
    <3> QED BY <1>2, <1>4, <2>1, <3>1, <3>2, <3>3, <3>4
  <2>7. CASE OpenPage
    BY <1>2, <1>4, <1>5, <2>7 DEF OpenPage
  <2> QED BY <1>13, <2>3, <2>4, <2>5, <2>6, <2>7 DEF Paging
<1> QED BY <1>8, <1>9, <1>10, <1>11, <1>12, <1>13, StepKinds

\* What is deleted now is cleared, unless work of it is under way.
LEMMA BecomesClear ==
    ASSUME ViewTypeOK, NEW m \in Ids, Forget(m), Know(m), UNCHANGED <<handlers, load, own>>,
           m \notin raced'
    PROVE  Clear(m)'
<1>1. ~Underway(m)
  BY DEF Know
<1>2. DeleteLocal(m).op = "delete" /\ writes' = writes \cup {DeleteLocal(m)}
  BY DEF DeleteLocal, Forget
<1>3. ~Underway(m)'
  BY <1>1, <1>2 DEF Underway
<1>4. cache'[m] = NoText
  BY DEF Forget, ViewTypeOK, Cache
<1> QED BY <1>2, <1>3, <1>4 DEF Clear

LEMMA DeletedStep == ViewTypeOK /\ Arrivals /\ DeletedInv /\ [Next]_viewVars => DeletedInv'
<1> SUFFICES ASSUME ViewTypeOK, Arrivals, DeletedInv, [Next]_viewVars PROVE DeletedInv'
  OBVIOUS
<1>1. CASE UNCHANGED viewVars
  BY <1>1 DEF viewVars, serverVars, pageVars, historyVars, DeletedInv, KnownGone, Clear, Underway
<1>2. CASE Next
  <2>1. KnownGone' /\ KnownGone
    BY <1>2, KnownGoneStep DEF DeletedInv
  <2>2. raced \subseteq raced' /\ cut \subseteq cut'
    BY <1>2, Remembered
  <2>3. ASSUME NEW m \in known', m \notin raced', m \notin cut' PROVE Clear(m)'
    <3>1. CASE m \in known
      BY <1>2, <2>1, <2>2, <2>3, <3>1, StaysClear DEF DeletedInv
    <3>2. CASE m \notin known
      <4>1. m \in Ids
        BY <2>1 DEF KnownGone
      <4>2. Forget(m) /\ Know(m) /\ UNCHANGED <<handlers, load, own>>
        BY <1>2, <3>2, NewlyKnown DEF Know, ReceiveDeleted, DeleteOwn
      <4> QED BY <2>3, <4>1, <4>2, BecomesClear
    <3> QED BY <3>1, <3>2
  <2> QED BY <2>1, <2>3 DEF DeletedInv
<1> QED BY <1>1, <1>2

-----------------------------------------------------------------------------
(* Edits: the steps                                                        *)

LEMMA MissedBefore == ViewTypeOK /\ Next => missed \subseteq missed'
<1> USE DEF serverVars, pageVars, historyVars
<1> SUFFICES ASSUME ViewTypeOK, Next PROVE missed \subseteq missed'
  OBVIOUS
<1>1. CASE Outside
  BY <1>1 DEF Outside, TheyWrite, TheyEdit, TheyDelete, Answer, LoseEvents, Miss
<1>2. CASE Loading
  BY <1>2 DEF Loading, Fetch, FetchFails, ReadLocal, NextMessage, LoadSlice, LoadDecrypt,
              ShowHistory, EndLoad
<1>3. CASE Arriving
  BY <1>3 DEF Arriving, Receive, ReceiveDeleted, ReceiveAck, ReceiveNack
<1>4. CASE Handling
  BY <1>4 DEF Handling, Process, StartDecrypt, DecryptMessage, DecryptEdit
<1>5. CASE Sending
  BY <1>5 DEF Sending, StartSend, StartEdit, EmitEdit, DeleteOwn, EmitMessage
<1>6. CASE Paging
  BY <1>6 DEF Paging, Write, ChooseConversation, BecomeReady, Close, OpenPage
<1> QED BY <1>1, <1>2, <1>3, <1>4, <1>5, <1>6, StepKinds

\* Once the others have edited a message, it is that until they delete it.
LEMMA BecomesEdited ==
    ASSUME ViewTypeOK, Next, NEW m \in Theirs, server'[m] = "edited"
    PROVE  server[m] = "edited" \/ TheyEdit(m)
<1> USE DEF serverVars, pageVars, historyVars
<1>1. CASE Loading \/ Handling \/ Sending \/ Paging
  BY <1>1, Quiet
<1>2. CASE Arriving
  BY <1>2 DEF Arriving, Receive, ReceiveDeleted, ReceiveAck, ReceiveNack
<1>3. CASE Outside
  BY <1>3, Basics DEF Outside, TheyWrite, TheyEdit, TheyDelete, Answer, LoseEvents, ViewTypeOK
<1> QED BY <1>1, <1>2, <1>3, StepKinds

\* No entry of a message of theirs is temporary.
LEMMA TheirEntries ==
    ASSUME NEW e \in Entries, e.id \in Theirs
    PROVE  e = Entry(e.id, e.shows)
<1>1. e \in [id : Ids, temp : {FALSE}, shows : Shows]
  BY Basics DEF Entries
<1>2. e = [id |-> e.id, temp |-> e.temp, shows |-> e.shows] /\ e.temp = FALSE
  BY <1>1
<1> QED BY <1>2 DEF Entry

\* An edit that nothing is under way against takes the place of the original.
LEMMA EditApplied ==
    ASSUME ViewTypeOK, Arrivals, NEW h \in handlers, h.text = "edited", DecryptEdit(h)
    PROVE  h.id \in missed' \/ NoOriginal(h.id)'
<1> USE DEF serverVars, pageVars, historyVars
<1> SUFFICES ASSUME h.id \notin missed' PROVE NoOriginal(h.id)'
  OBVIOUS
<1> DEFINE m == h.id
<1>1. m \in Theirs /\ m \in Ids /\ m \notin Own
  BY Parts, Basics
<1>2. /\ Open(m, "edited", ConversationOf[m]) /\ view' = Map(view, m, "edited")
      /\ load = IdleLoad /\ load' = load /\ handlers' = handlers \ {h}
      /\ \A g \in handlers \ {h} : g.id # m
      /\ \A w \in writes : w.id # m
      /\ events' = events /\ stored' = stored
  BY DEF DecryptEdit, Ends, ShowEdit, ViewTypeOK, LoadSound
<1> HIDE DEF m
<1>3. \A e \in view' : e.id = m => e.shows # "original"
  <2>1. \A e \in view : e.id = m => e = Entry(m, e.shows)
    BY <1>1, TheirEntries DEF ViewTypeOK
  <2>2. Entry(m, "edited").shows = "edited"
    BY DEF Entry
  <2> QED BY <1>2, <2>1, <2>2 DEF Map
<1>4. load'.done = {} /\ load'.todo = <<>> /\ load'.local[m] = NoText
  BY <1>1, <1>2 DEF IdleLoad, NoCache
<1>5. cache'[m] = "edited"
  BY <1>1, <1>2 DEF Open, ViewTypeOK, Cache
<1>6. \A i \in DOMAIN events' : events'[i].id = m => events'[i].type # "message"
  BY <1>2 DEF Arrivals, MessageFirst, m
<1>7. LET s == SaveLocal(m, "edited", ConversationOf[m])
      IN  s.id = m /\ s.text = "edited" /\ writes' = writes \cup {s}
  BY <1>2 DEF Open, SaveLocal
<1>8. \A w \in writes' : w.id = m => w.text = "edited"
  BY <1>2, <1>7
<1>9. \E w \in writes' : w.id = m /\ w.text = "edited"
  BY <1>7
<1>10. NoText # "original"
  BY DEF NoText
<1>11. NoOriginal(m)'
  BY <1>2, <1>3, <1>4, <1>5, <1>6, <1>8, <1>9, <1>10 DEF NoOriginal
<1> QED BY <1>11 DEF m

\* While an edit waits, it stays where it is, goes on, or is missed.
LEMMA StaysExcused ==
    ASSUME ViewTypeOK, Arrivals, Next, NEW m \in Theirs, Excused(m)
    PROVE  Excused(m)' \/ NoOriginal(m)'
<1> USE DEF serverVars, pageVars, historyVars
<1>1. missed \subseteq missed' /\ cut \subseteq cut'
  BY Remembered, MissedBefore
<1>2. CASE m \in missed \cup cut
  BY <1>1, <1>2 DEF Excused
<1>3. ASSUME NEW i \in DOMAIN events, events[i].id = m, events[i].text = "edited"
      PROVE  Excused(m)'
  <2>1. events[i].type = "message:edited" /\ i \in Nat
    BY <1>3 DEF ViewTypeOK, Event, NoText
  <2>2. CASE events' = events
    BY <1>3, <2>2 DEF Excused
  <2>3. CASE Arriving
    <3>1. events # <<>> /\ Head(events) = events[1] /\ events' = Tail(events)
      BY <2>3, Taken DEF Arriving, Receive, ReceiveDeleted, ReceiveAck, ReceiveNack
    <3>2. CASE i = 1
      <4>1. Receive
        BY <2>1, <2>3, <3>1, <3>2 DEF Arriving, Receive, ReceiveDeleted, ReceiveAck, ReceiveNack
      <4>2. Handler(events[1], "device").id = m /\ Handler(events[1], "device").text = "edited"
        BY <1>3, <3>2 DEF Handler
      <4>3. Handler(events[1], "device") \in handlers' \/ m \in missed'
        BY <1>3, <3>1, <3>2, <4>1 DEF Receive
      <4> QED BY <4>2, <4>3 DEF Excused
    <3>3. CASE i # 1
      <4>1. i - 1 \in DOMAIN Tail(events) /\ Tail(events)[i - 1] = events[i]
        <5>1. Len(events) \in Nat /\ Len(events) # 0 /\ DOMAIN events = 1 .. Len(events)
          BY <3>1, EmptySeq DEF ViewTypeOK
        <5>2. Len(Tail(events)) = Len(events) - 1 /\ Tail(events) \in Seq(Event)
              /\ \A k \in 1 .. Len(Tail(events)) : Tail(events)[k] = events[k + 1]
          BY <3>1, HeadTailProperties DEF ViewTypeOK
        <5>3. DOMAIN Tail(events) = 1 .. Len(events) - 1 /\ i - 1 \in 1 .. Len(events) - 1
          BY <3>3, <5>1, <5>2
        <5> QED BY <5>1, <5>2, <5>3
      <4> QED BY <1>3, <3>1, <4>1 DEF Excused
    <3> QED BY <3>2, <3>3
  <2>4. CASE LoseEvents
    <3>1. m \in missed'
      BY <1>3, <2>1, <2>4 DEF LoseEvents
    <3> QED BY <3>1 DEF Excused
  <2>5. CASE Close
    <3>1. m \in missed'
      BY <1>3, <2>5 DEF Close
    <3> QED BY <3>1 DEF Excused
  <2>6. CASE Outside /\ ~LoseEvents
    <3>1. \E e \in Event : events' = Append(events, e) \/ events' = events
      <4>1. ASSUME NEW x \in Theirs
            PROVE  /\ [type |-> "message", id |-> x, text |-> "original"] \in Event
                   /\ [type |-> "message:edited", id |-> x, text |-> "edited"] \in Event
                   /\ [type |-> "message:deleted", id |-> x, text |-> NoText] \in Event
        BY DEF Event
      <4>2. ASSUME NEW o \in Own, NEW success \in BOOLEAN, Answer(o, success)
            PROVE  \E e \in Event : events' = Append(events, e) \/ events' = events
        <5> DEFINE e == [type |-> IF success THEN "ack" ELSE "nack", id |-> o, text |-> "original"]
        <5>1. e \in Event
          BY DEF Event
        <5>2. events' = Append(events, e) \/ events' = events
          BY <4>2 DEF Answer
        <5> HIDE DEF e
        <5> QED BY <5>1, <5>2
      <4> QED BY <2>6, <4>1, <4>2 DEF Outside, TheyWrite, TheyEdit, TheyDelete, Announce
    <3>2. i \in DOMAIN events' /\ events'[i] = events[i]
      BY <3>1, Announced
    <3> QED BY <1>3, <3>2 DEF Excused
  <2>7. Loading \/ Handling \/ Sending \/ (Paging /\ ~Close) => events' = events
    BY DEF Loading, Fetch, FetchFails, ReadLocal, NextMessage, LoadSlice, LoadDecrypt, ShowHistory,
           EndLoad, Handling, Process, StartDecrypt, DecryptMessage, DecryptEdit, Sending, StartSend,
           StartEdit, EmitEdit, DeleteOwn, EmitMessage, Paging, Write, ChooseConversation,
           BecomeReady, OpenPage
  <2> QED BY <2>2, <2>3, <2>4, <2>5, <2>6, <2>7, StepKinds
<1>4. ASSUME NEW h \in handlers, h.id = m, h.text = "edited"
      PROVE  Excused(m)' \/ NoOriginal(m)'
  <2>1. h.type = "message:edited" /\ h \in EditHandler
    BY <1>4 DEF ViewTypeOK, MessageHandler, EditHandler
  <2>2. CASE h \in handlers'
    BY <1>4, <2>2 DEF Excused
  <2>3. CASE Close
    <3>1. m \in missed'
      BY <1>4, <2>3 DEF Close
    <3> QED BY <3>1 DEF Excused
  <2>4. CASE StartDecrypt(h)
    <3> DEFINE lent == [h EXCEPT !.step = "decrypt"]
    <3>1. lent.id = m /\ lent.text = "edited"
      BY <1>4, <2>1 DEF EditHandler
    <3>2. lent \in handlers' \/ m \in missed'
      BY <1>4, <2>1, <2>4 DEF StartDecrypt, Steps
    <3> HIDE DEF lent
    <3> QED BY <3>1, <3>2 DEF Excused
  <2>5. CASE DecryptEdit(h)
    <3>1. h.id \in missed' \/ NoOriginal(h.id)'
      BY <1>4, <2>5, EditApplied
    <3>2. CASE h.id \in missed'
      BY <1>4, <3>2 DEF Excused
    <3>3. CASE NoOriginal(h.id)'
      BY <1>4, <3>3 DEF NoOriginal
    <3> QED BY <3>1, <3>2, <3>3
  <2>6. h \in handlers' \/ Close \/ StartDecrypt(h) \/ DecryptEdit(h)
    <3>1. CASE Handling
      <4>1. PICK g \in handlers : Process(g) \/ StartDecrypt(g) \/ DecryptMessage(g) \/ DecryptEdit(g)
        BY <3>1 DEF Handling
      <4>2. g # h => h \in handlers'
        BY <4>1 DEF Process, StartDecrypt, DecryptMessage, DecryptEdit, Ends, Steps
      <4>3. ~Process(h) /\ ~DecryptMessage(h)
        BY <2>1 DEF Process, DecryptMessage
      <4> QED BY <4>1, <4>2, <4>3
    <3>2. ~Handling => handlers \subseteq handlers' \/ Close
      BY StepKinds DEF Outside, TheyWrite, TheyEdit, TheyDelete, Answer, LoseEvents, Loading, Fetch,
         FetchFails, ReadLocal, NextMessage, LoadSlice, LoadDecrypt, ShowHistory, EndLoad, Arriving,
         Receive, ReceiveDeleted, ReceiveAck, ReceiveNack, Sending, StartSend, StartEdit, EmitEdit,
         DeleteOwn, EmitMessage, Paging, Write, ChooseConversation, BecomeReady, OpenPage
    <3> QED BY <3>1, <3>2
  <2> QED BY <2>2, <2>3, <2>4, <2>5, <2>6
<1> QED BY <1>2, <1>3, <1>4 DEF Excused

\* Where no original is left, none comes back; one read from the database before the
\* edit was written is missed.
LEMMA StaysApplied ==
    ASSUME ViewTypeOK, Arrivals, Next, NEW m \in Theirs, NoOriginal(m),
           server[m] = "edited", server'[m] = "edited"
    PROVE  Excused(m)' \/ NoOriginal(m)'
<1> USE DEF serverVars, pageVars, historyVars
<1>1. m \in Ids /\ m \notin Own /\ NoText # "original"
  BY Basics DEF NoText
<1> DEFINE ListFree == \A e \in view : e.id = m => e.shows # "original"
           LoadFree ==
             /\ \A e \in load.done : e.id = m => e.shows # "original"
             /\ \A i \in DOMAIN load.todo : load.todo[i].id = m => load.todo[i].text # "original"
             /\ load.local[m] # "original"
           HandlersFree == \A h \in handlers : h.id # m
           EventsFree == \A i \in DOMAIN events : events[i].id = m => events[i].type # "message"
           CopiesFree ==
             /\ cache[m] # "original"
             /\ \A w \in writes : w.id = m => w.text # "original"
             /\ stored[m].text = "original" => \E w \in writes : w.id = m /\ w.text = "edited"
<1>2. ListFree /\ LoadFree /\ HandlersFree /\ EventsFree /\ CopiesFree
  BY DEF NoOriginal
<1>3. ListFree' /\ LoadFree' /\ HandlersFree' /\ EventsFree' /\ CopiesFree' => NoOriginal(m)'
  BY DEF NoOriginal
<1>4. /\ UNCHANGED view => ListFree'
      /\ UNCHANGED load => LoadFree'
      /\ handlers' \subseteq handlers => HandlersFree'
      /\ events' = events \/ events' = <<>> => EventsFree'
      /\ UNCHANGED <<cache, writes, stored>> => CopiesFree'
  <2>1. events' = <<>> => EventsFree'
    OBVIOUS
  <2> QED BY <1>2, <2>1
<1>5. ASSUME NEW k, NEW x, x # "original", view' = Map(view, k, x) PROVE ListFree'
  <2>1. \A e \in view' : e \in view \/ e.shows = x
    BY <1>5, MapIds DEF Entry
  <2> QED BY <1>2, <1>5, <2>1
<1>6. ASSUME NEW k, NEW x, k # m, AppendToList(k, x) PROVE ListFree'
  BY <1>2, <1>6 DEF AppendToList, Entry
<1>7. ASSUME load.todo # <<>>, NEW x, Processed(x), Head(load.todo).id = m => x # "original"
      PROVE  LoadFree'
  <2>1. /\ Head(load.todo) = load.todo[1] /\ 1 \in DOMAIN load.todo
        /\ \A i \in DOMAIN Tail(load.todo) :
             i + 1 \in DOMAIN load.todo /\ Tail(load.todo)[i] = load.todo[i + 1]
    BY <1>7, Parts, HeadAndTail
  <2>2. /\ load'.todo = Tail(load.todo) /\ load'.done = load.done \cup {Entry(Head(load.todo).id, x)}
        /\ load'.local = load.local
    BY <1>7 DEF Processed, ViewTypeOK, Load
  <2>3. LET e == Entry(Head(load.todo).id, x) IN e.id = Head(load.todo).id /\ e.shows = x
    BY DEF Entry
  <2> QED BY <1>2, <1>7, <2>1, <2>2, <2>3
<1>8. ASSUME NEW k, NEW text, NEW c, k # m \/ text # "original", Open(k, text, c), stored' = stored
      PROVE  CopiesFree'
  <2>1. LET s == SaveLocal(k, text, c) IN s.id = k /\ s.text = text /\ writes' = writes \cup {s}
    BY <1>8 DEF Open, SaveLocal
  <2>2. cache'[m] # "original"
    BY <1>1, <1>2, <1>8 DEF Open, ViewTypeOK, Cache
  <2> QED BY <1>2, <1>8, <2>1, <2>2
<1>9. ASSUME NEW k, Forget(k), stored' = stored PROVE CopiesFree'
  <2>1. DeleteLocal(k).text = NoText /\ writes' = writes \cup {DeleteLocal(k)}
    BY <1>9 DEF Forget, DeleteLocal
  <2>2. cache'[m] # "original"
    BY <1>1, <1>2, <1>9 DEF Forget, ViewTypeOK, Cache
  <2> QED BY <1>1, <1>2, <1>9, <2>1, <2>2
<1> HIDE DEF ListFree, LoadFree, HandlersFree, EventsFree, CopiesFree
<1>10. CASE Outside
  <2>1. UNCHANGED <<view, load, handlers, cache, writes, stored>>
    BY <1>10 DEF Outside, TheyWrite, TheyEdit, TheyDelete, Answer, LoseEvents
  <2>2. ASSUME NEW e \in Event, e.type # "message" \/ e.id # m,
               events' = Append(events, e) \/ events' = events
        PROVE  EventsFree'
    BY <1>2, <2>2, Announced DEF EventsFree
  <2>3. ASSUME NEW x \in Theirs, TheyWrite(x) PROVE EventsFree'
    <3>1. [type |-> "message", id |-> x, text |-> "original"] \in Event
      BY DEF Event
    <3>2. x # m
      BY <2>3 DEF TheyWrite
    <3> QED BY <2>2, <2>3, <3>1, <3>2 DEF TheyWrite, Announce
  <2>4. ASSUME NEW x \in Theirs, TheyEdit(x) PROVE EventsFree'
    <3>1. [type |-> "message:edited", id |-> x, text |-> "edited"] \in Event
      BY DEF Event
    <3> QED BY <2>2, <2>4, <3>1 DEF TheyEdit, Announce
  <2>5. ASSUME NEW x \in Theirs, TheyDelete(x) PROVE EventsFree'
    <3>1. [type |-> "message:deleted", id |-> x, text |-> NoText] \in Event
      BY DEF Event
    <3> QED BY <2>2, <2>5, <3>1 DEF TheyDelete, Announce
  <2>6. ASSUME NEW o \in Own, NEW success \in BOOLEAN, Answer(o, success) PROVE EventsFree'
    <3> DEFINE e == [type |-> IF success THEN "ack" ELSE "nack", id |-> o, text |-> "original"]
    <3>1. e \in Event /\ e.id = o
      BY DEF Event
    <3>2. events' = Append(events, e) \/ events' = events
      BY <2>6 DEF Answer
    <3> HIDE DEF e
    <3> QED BY <1>1, <2>2, <3>1, <3>2
  <2>7. LoseEvents => EventsFree'
    BY <1>4 DEF LoseEvents
  <2> QED BY <1>3, <1>4, <1>10, <2>1, <2>3, <2>4, <2>5, <2>6, <2>7 DEF Outside
<1>11. CASE Loading
  <2>1. UNCHANGED <<handlers, events, stored>>
    BY <1>11 DEF Loading, Fetch, FetchFails, ReadLocal, NextMessage, LoadSlice, LoadDecrypt,
                    ShowHistory, EndLoad
  <2>2. CASE Fetch
    <3>1. /\ load'.done = load.done /\ load'.local = load.local
          /\ \A k \in DOMAIN load'.todo : load'.todo[k].text = server[load'.todo[k].id]
      BY <2>2, FetchEffect DEF ViewTypeOK, Load
    <3>2. LoadFree'
      BY <1>2, <3>1 DEF LoadFree
    <3> QED BY <1>3, <1>4, <2>1, <2>2, <3>2 DEF Fetch
  <2>3. CASE FetchFails \/ EndLoad
    <3>1. LoadFree'
      BY <1>1, <2>3, Parts DEF FetchFails, EndLoad, LoadFree, IdleLoad, NoCache
    <3> QED BY <1>3, <1>4, <2>1, <2>3, <3>1 DEF FetchFails, EndLoad
  <2>4. CASE ReadLocal
    <3>1. /\ load'.todo = load.todo /\ load'.done = load.done
          /\ load'.local[m] = IF stored[m].conv = load.conv THEN stored[m].text ELSE NoText
      BY <1>1, <2>4 DEF ReadLocal, ViewTypeOK, Load
    <3>2. CASE stored[m].text = "original"
      <4>1. m \in missed'
        BY <1>2, <2>4, <3>2 DEF ReadLocal, CopiesFree
      <4> QED BY <4>1 DEF Excused
    <3>3. CASE stored[m].text # "original"
      <4>1. LoadFree'
        BY <1>1, <1>2, <3>1, <3>3 DEF LoadFree
      <4> QED BY <1>3, <1>4, <2>1, <2>4, <4>1 DEF ReadLocal
    <3> QED BY <3>2, <3>3
  <2>5. CASE NextMessage \/ LoadSlice
    <3>1. load.todo # <<>>
      BY <2>5 DEF NextMessage, LoadSlice, ViewTypeOK, LoadSound
    <3>2. CopyOf(m) # "original"
      BY <1>2 DEF CopyOf, LoadFree, CopiesFree
    <3>3. \/ Processed(CopyOf(Head(load.todo).id)) \/ Processed("unavailable") \/ Processed("error")
          \/ load'.todo = load.todo /\ load'.done = load.done /\ load'.local = load.local
      BY <2>5 DEF NextMessage, LoadSlice, ViewTypeOK, Load
    <3>4. LoadFree'
      <4>1. load'.todo = load.todo /\ load'.done = load.done /\ load'.local = load.local => LoadFree'
        BY <1>2 DEF LoadFree
      <4> QED BY <1>7, <3>1, <3>2, <3>3, <4>1
    <3> QED BY <1>3, <1>4, <2>1, <2>5, <3>4 DEF NextMessage, LoadSlice
  <2>6. CASE LoadDecrypt
    <3>1. load.todo # <<>> /\ Head(load.todo) = load.todo[1] /\ 1 \in DOMAIN load.todo
      <4>1. load.todo # <<>>
        BY <2>6 DEF LoadDecrypt, ViewTypeOK, LoadSound
      <4> QED BY <4>1, Parts, HeadAndTail
    <3>2. Head(load.todo).id # m \/ Head(load.todo).text # "original"
      BY <1>2, <3>1 DEF LoadFree
    <3>3. \/ Processed("error") /\ UNCHANGED <<cache, writes>>
          \/ /\ Processed(Head(load.todo).text)
             /\ Open(Head(load.todo).id, Head(load.todo).text, load.conv)
      BY <2>6 DEF LoadDecrypt
    <3>4. LoadFree' /\ CopiesFree'
      BY <1>4, <1>7, <1>8, <2>1, <3>1, <3>2, <3>3
    <3> QED BY <1>3, <1>4, <2>1, <2>6, <3>4 DEF LoadDecrypt
  <2>7. CASE ShowHistory
    <3>1. load'.todo = load.todo /\ load'.done = {} /\ load'.local = load.local /\ view' = load.done
      BY <2>7 DEF ShowHistory, ViewTypeOK, Load
    <3>2. LoadFree' /\ ListFree'
      BY <1>2, <3>1 DEF LoadFree, ListFree
    <3> QED BY <1>3, <1>4, <2>1, <2>7, <3>2 DEF ShowHistory
  <2> QED BY <1>11, <2>2, <2>3, <2>4, <2>5, <2>6, <2>7 DEF Loading
<1>12. CASE Arriving
  <2>1. /\ events # <<>> /\ Head(events) = events[1] /\ 1 \in DOMAIN events /\ events[1] \in Event
        /\ events' = Tail(events) /\ UNCHANGED <<stored, load>>
    BY <1>12, Taken DEF Arriving, Receive, ReceiveDeleted, ReceiveAck, ReceiveNack
  <2>2. EventsFree'
    BY <1>2, <2>1, Taken DEF EventsFree
  <2>3. CASE Receive
    <3>1. UNCHANGED <<view, cache, writes>>
      BY <2>3 DEF Receive
    <3>2. CASE events[1].id = m
      <4>1. events[1].text = "edited"
        <5>1. events[1].type # "message"
          BY <1>2, <2>1, <3>2 DEF EventsFree
        <5>2. events[1].type = "message:edited"
          BY <2>1, <2>3, <5>1 DEF Receive
        <5> QED BY <2>1, <5>2 DEF Event
      <4>2. Handler(events[1], "device").id = m /\ Handler(events[1], "device").text = "edited"
        BY <3>2, <4>1 DEF Handler
      <4>3. Handler(events[1], "device") \in handlers' \/ m \in missed'
        BY <2>1, <2>3, <3>2, <4>1 DEF Receive
      <4> QED BY <4>2, <4>3 DEF Excused
    <3>3. CASE events[1].id # m
      <4>1. Handler(events[1], "device").id # m
        BY <3>3 DEF Handler
      <4>2. HandlersFree'
        BY <1>2, <2>1, <2>3, <4>1 DEF Receive, HandlersFree
      <4> QED BY <1>3, <1>4, <2>1, <2>2, <3>1, <4>2
    <3> QED BY <3>2, <3>3
  <2>4. CASE ReceiveDeleted
    <3>1. handlers' = handlers
      BY <2>4 DEF ReceiveDeleted
    <3>2. \/ view' = Map(view, events[1].id, "deleted") /\ Forget(events[1].id)
          \/ UNCHANGED <<view, cache, writes>>
      BY <2>1, <2>4 DEF ReceiveDeleted
    <3>3. ListFree' /\ CopiesFree'
      BY <1>4, <1>5, <1>9, <2>1, <3>2
    <3> QED BY <1>3, <1>4, <2>1, <2>2, <3>1, <3>3
  <2>5. CASE ReceiveAck
    <3>1. events[1].id # m
      BY <1>1, <2>1, <2>5 DEF ReceiveAck, Event
    <3>2. view' = {IF e = Temp(events[1].id, e.shows) THEN Entry(events[1].id, "original") ELSE e
                     : e \in view}
      BY <2>1, <2>5 DEF ReceiveAck
    <3>3. Entry(events[1].id, "original").id # m
      BY <3>1 DEF Entry
    <3>4. ListFree'
      BY <1>2, <3>2, <3>3 DEF ListFree
    <3>5. LET s == SaveLocal(events[1].id, "original", ConversationOf[events[1].id])
          IN  s.id # m /\ writes' = writes \cup {s}
      BY <2>1, <2>5, <3>1 DEF ReceiveAck, SaveLocal
    <3>6. UNCHANGED <<handlers, cache>>
      BY <2>5 DEF ReceiveAck
    <3>7. CopiesFree'
      BY <1>2, <2>1, <3>5, <3>6 DEF CopiesFree
    <3> QED BY <1>3, <1>4, <2>1, <2>2, <3>4, <3>6, <3>7
  <2>6. CASE ReceiveNack
    <3>1. UNCHANGED <<handlers, cache, writes>> /\ view' \subseteq view
      BY <2>6 DEF ReceiveNack
    <3>2. ListFree'
      BY <1>2, <3>1 DEF ListFree
    <3> QED BY <1>3, <1>4, <2>1, <2>2, <3>1, <3>2
  <2> QED BY <1>12, <2>3, <2>4, <2>5, <2>6 DEF Arriving
<1>13. CASE Handling
  <2>1. PICK h \in handlers : Process(h) \/ StartDecrypt(h) \/ DecryptMessage(h) \/ DecryptEdit(h)
    BY <1>13 DEF Handling
  <2>2. h.id # m /\ HandlersFree'
    BY <1>2, <1>13, Quiet DEF HandlersFree
  <2>3. UNCHANGED <<stored, load, events>>
    BY <2>1 DEF Process, StartDecrypt, DecryptMessage, DecryptEdit
  <2>4. (\E text, c : Open(h.id, text, c)) \/ UNCHANGED <<cache, writes>>
    BY <2>1 DEF Process, StartDecrypt, DecryptMessage, DecryptEdit
  <2>5. (\E x : AppendToList(h.id, x)) \/ view' = view \/ view' = Map(view, h.id, "edited")
    BY <2>1 DEF Process, StartDecrypt, DecryptMessage, DecryptEdit, ShowEdit
  <2>6. ListFree' /\ CopiesFree'
    BY <1>4, <1>5, <1>6, <1>8, <2>2, <2>3, <2>4, <2>5
  <2> QED BY <1>3, <1>4, <2>2, <2>3, <2>6
<1>14. CASE Sending
  <2>1. PICK o \in Own : \/ StartSend(o) \/ StartEdit(o) \/ EmitEdit(o) \/ DeleteOwn(o)
                         \/ \E dropped \in BOOLEAN : EmitMessage(o, dropped)
    BY <1>14 DEF Sending
  <2>2. UNCHANGED <<handlers, stored, load, events>> /\ o # m
    BY <1>1, <2>1 DEF StartSend, StartEdit, EmitEdit, DeleteOwn, EmitMessage
  <2>3. CASE StartSend(o) \/ StartEdit(o)
    BY <1>3, <1>4, <2>2, <2>3 DEF StartSend, StartEdit
  <2>4. CASE \E dropped \in BOOLEAN : EmitMessage(o, dropped)
    <3>1. view' = view \cup {Temp(o, "original")} /\ Temp(o, "original").id # m
      BY <2>2, <2>4 DEF EmitMessage, Temp
    <3>2. ListFree'
      BY <1>2, <3>1 DEF ListFree
    <3> QED BY <1>3, <1>4, <2>2, <2>4, <3>2 DEF EmitMessage
  <2>5. CASE EmitEdit(o)
    <3>1. ListFree'
      BY <1>5, <2>5 DEF EmitEdit
    <3>2. LET s == SaveLocal(o, "edited", ConversationOf[o])
          IN  s.id # m /\ writes' = writes \cup {s}
      BY <2>2, <2>5 DEF EmitEdit, SaveLocal
    <3>3. cache'[m] = cache[m]
      BY <1>1, <2>2, <2>5 DEF EmitEdit, ViewTypeOK, Cache
    <3>4. CopiesFree'
      BY <1>2, <2>2, <3>2, <3>3 DEF CopiesFree
    <3> QED BY <1>3, <1>4, <2>2, <3>1, <3>4
  <2>6. CASE DeleteOwn(o)
    <3>1. PICK e \in view :
            e.id = o /\ view' = (view \ {e}) \cup {[e EXCEPT !.shows = "deleted"]}
      BY <2>6 DEF DeleteOwn
    <3>2. [e EXCEPT !.shows = "deleted"].id = o
      BY <3>1 DEF ViewTypeOK, Entries
    <3>3. ListFree'
      BY <1>2, <2>2, <3>1, <3>2 DEF ListFree
    <3>4. Forget(o) \/ UNCHANGED <<cache, writes>>
      BY <2>6 DEF DeleteOwn
    <3>5. CopiesFree'
      BY <1>4, <1>9, <2>2, <3>4
    <3> QED BY <1>3, <1>4, <2>2, <3>3, <3>5
  <2> QED BY <2>1, <2>3, <2>4, <2>5, <2>6
<1>15. CASE Paging
  <2>1. NoCache[m] = NoText
    BY <1>1 DEF NoCache
  <2>2. ASSUME NEW c, StartLoad(c) PROVE LoadFree'
    <3>1. load' = load \/ (load'.todo = <<>> /\ load'.done = {} /\ load'.local = NoCache)
      BY <2>2 DEF StartLoad, IdleLoad
    <3> QED BY <1>1, <1>2, <1>4, <2>1, <3>1 DEF LoadFree
  <2>3. ASSUME NEW w \in writes, Write(w) PROVE NoOriginal(m)'
    <3>1. UNCHANGED <<handlers, load, view, cache, events>> /\ writes' = writes \ {w}
      BY <2>3 DEF Write
    <3>2. stored'[m].text = "original" => \E v \in writes' : v.id = m /\ v.text = "edited"
      <4>1. CASE w.id = m
        <5>1. w.text # "original"
          BY <1>2, <4>1 DEF CopiesFree
        <5>2. stored'[m].text = w.text \/ stored'[m].text = NoText
          BY <1>1, <2>3, <4>1 DEF Write, ViewTypeOK, NotStored
        <5> QED BY <1>1, <5>1, <5>2
      <4>2. CASE w.id # m
        <5>1. stored'[m] = stored[m]
          BY <1>1, <2>3, <4>2 DEF Write, ViewTypeOK
        <5> QED BY <1>2, <3>1, <4>2, <5>1 DEF CopiesFree
      <4> QED BY <4>1, <4>2
    <3>3. CopiesFree'
      BY <1>2, <3>1, <3>2 DEF CopiesFree
    <3> QED BY <1>3, <1>4, <3>1, <3>3
  <2>4. ASSUME NEW c \in Conversations, ChooseConversation(c) PROVE NoOriginal(m)'
    <3>1. UNCHANGED <<handlers, view, writes, stored, events>> /\ cache' = NoCache
          /\ (load' = load \/ StartLoad(c))
      BY <2>4 DEF ChooseConversation
    <3>2. CopiesFree'
      BY <1>1, <1>2, <2>1, <3>1 DEF CopiesFree
    <3> QED BY <1>3, <1>4, <2>2, <3>1, <3>2
  <2>5. CASE BecomeReady
    BY <1>3, <1>4, <2>2, <2>5 DEF BecomeReady
  <2>6. CASE Close
    <3>1. /\ handlers' = {} /\ writes' = {} /\ cache' = NoCache /\ load' = IdleLoad /\ view' = {}
          /\ stored' = stored /\ events' = <<>> /\ \A w \in writes : w.id \in cut'
      BY <2>6 DEF Close
    <3>2. CASE stored[m].text = "original"
      <4>1. m \in cut'
        BY <1>2, <3>1, <3>2 DEF CopiesFree
      <4> QED BY <4>1 DEF Excused
    <3>3. CASE stored[m].text # "original"
      <4>1. LoadFree' /\ ListFree' /\ HandlersFree' /\ CopiesFree'
        BY <1>1, <2>1, <3>1, <3>3 DEF LoadFree, ListFree, HandlersFree, CopiesFree, IdleLoad
      <4> QED BY <1>3, <1>4, <3>1, <4>1
    <3> QED BY <3>2, <3>3
  <2>7. CASE OpenPage
    BY <1>3, <1>4, <2>7 DEF OpenPage
  <2> QED BY <1>15, <2>3, <2>4, <2>5, <2>6, <2>7 DEF Paging
<1> QED BY <1>10, <1>11, <1>12, <1>13, <1>14, <1>15, StepKinds

LEMMA EditStep == ViewTypeOK /\ Arrivals /\ EditInv /\ [Next]_viewVars => EditInv'
<1> SUFFICES ASSUME ViewTypeOK, Arrivals, EditInv, [Next]_viewVars PROVE EditInv'
  OBVIOUS
<1>1. CASE UNCHANGED viewVars
  BY <1>1 DEF viewVars, serverVars, pageVars, historyVars, EditInv, Excused, NoOriginal
<1>2. CASE Next
  <2>1. ASSUME NEW m \in Theirs, server'[m] = "edited" PROVE Excused(m)' \/ NoOriginal(m)'
    <3>1. CASE TheyEdit(m)
      <4>1. CASE online
        <5>1. [type |-> "message:edited", id |-> m, text |-> "edited"] \in Event
          BY DEF Event
        <5>2. events' = Append(events, [type |-> "message:edited", id |-> m, text |-> "edited"])
          BY <3>1, <4>1 DEF TheyEdit, Announce
        <5>3. events \in Seq(Event)
          BY DEF ViewTypeOK
        <5>4. /\ Len(events) + 1 \in DOMAIN events'
              /\ events'[Len(events) + 1] = [type |-> "message:edited", id |-> m, text |-> "edited"]
          BY <5>1, <5>2, <5>3, Appended
        <5> QED BY <5>4 DEF Excused
      <4>2. CASE ~online
        BY <3>1, <4>2 DEF TheyEdit, Miss, Excused
      <4> QED BY <4>1, <4>2
    <3>2. CASE server[m] = "edited"
      BY <1>2, <2>1, <3>2, StaysExcused, StaysApplied DEF EditInv
    <3> QED BY <1>2, <2>1, <3>1, <3>2, BecomesEdited
  <2> QED BY <2>1 DEF EditInv
<1> QED BY <1>1, <1>2

-----------------------------------------------------------------------------
(* The list: the steps                                                     *)

\* Unless the conversation changes, what belongs to it does.
Stays == conv' = conv /\ crossed' = crossed
LEMMA StillBelongs ==
    ASSUME Stays, NEW m, Belongs(m)
    PROVE  Belongs(m)'
BY DEF Stays, Belongs

\* The list of a page that neither loads nor changes conversation: whatever comes
\* into it belongs there.
LEMMA ListGrows ==
    ASSUME ViewTypeOK, ListInv, Stays, UNCHANGED <<load, ready, shown, unserved>>,
           \A e \in view' : (\E f \in view : f.id = e.id) \/ (conv # None /\ Belongs(e.id)),
           \A h \in handlers' : (\E g \in handlers : g.id = h.id) \/ (conv # None /\ Belongs(h.id)),
           \A o \in Own : own'[o] = "encrypting" =>
             own[o] = "encrypting" \/ (conv # None /\ Belongs(o))
    PROVE  ListInv'
<1>1. ListBelongs'
  <2>1. shown = conv => \A e \in view : Belongs(e.id)
    BY DEF ListInv, ListBelongs, Belongs
  <2>2. shown = conv => \A e \in view' : Belongs(e.id)
    BY <2>1 DEF Belongs
  <2> QED BY <2>2 DEF ListInv, ListBelongs, Belongs, Stays
<1>2. LoadCurrent'
  BY DEF ListInv, LoadCurrent, Stays
<1>3. NothingOpen'
  BY DEF ListInv, NothingOpen, Stays
<1>4. CallsBelong'
  <2>1. \A h \in handlers' : Belongs(h.id)
    BY DEF ListInv, CallsBelong, Belongs
  <2> QED BY <2>1 DEF ListInv, CallsBelong, Belongs, Stays
<1> QED BY <1>1, <1>2, <1>3, <1>4 DEF ListInv

\* A load goes on for the conversation it was started for.
LEMMA LoadGoesOn ==
    ASSUME ViewTypeOK, ListInv, Stays, UNCHANGED <<view, handlers, own, ready, shown, unserved>>,
           load'.conv = load.conv, load.step # "idle", load'.step \notin {"idle", "mark"}
    PROVE  ListInv'
BY DEF ListInv, ListBelongs, LoadCurrent, NothingOpen, CallsBelong, Belongs, Stays

LEMMA ListLoading == ViewTypeOK /\ ListInv /\ Loading => ListInv'
<1> SUFFICES ASSUME ViewTypeOK, ListInv, Loading PROVE ListInv'
  OBVIOUS
<1> USE DEF serverVars, pageVars, historyVars
<1>1. Stays /\ UNCHANGED <<handlers, own, ready>> /\ load.step # "idle" /\ conv # None
  <2>1. Stays /\ UNCHANGED <<handlers, own, ready>> /\ load.step # "idle"
    BY DEF Loading, Fetch, FetchFails, ReadLocal, NextMessage, LoadSlice, LoadDecrypt,
           ShowHistory, EndLoad, Stays
  <2> QED BY <2>1 DEF ListInv, NothingOpen
<1>2. CASE Fetch \/ ReadLocal \/ NextMessage \/ LoadSlice \/ LoadDecrypt
  <2>1. load'.conv = load.conv /\ load'.step \notin {"idle", "mark"}
    <3>1. Fetch => load' = [load EXCEPT !.step = "local", !.todo = load'.todo]
      BY FetchEffect
    <3>2. load \in Load
      BY DEF ViewTypeOK
    <3>3. (\E x : Processed(x)) => load'.conv = load.conv /\ load'.step = "next"
      BY <3>2 DEF Processed, Load
    <3>4. Fetch \/ ReadLocal => load'.conv = load.conv /\ load'.step \in {"local", "next"}
      BY <3>1, <3>2 DEF ReadLocal, Load
    <3>5. NextMessage \/ LoadSlice \/ LoadDecrypt =>
            \/ \E x : Processed(x)
            \/ load' = [load EXCEPT !.step = "slice"] \/ load' = [load EXCEPT !.step = "decrypt"]
      BY DEF NextMessage, LoadSlice, LoadDecrypt
    <3> QED BY <1>2, <3>2, <3>3, <3>4, <3>5 DEF Load
  <2>2. UNCHANGED <<view, shown, unserved>>
    BY <1>2 DEF Fetch, ReadLocal, NextMessage, LoadSlice, LoadDecrypt
  <2> QED BY <1>1, <2>1, <2>2, LoadGoesOn
<1>3. CASE FetchFails
  <2>1. load'.step = "idle" /\ unserved' /\ UNCHANGED <<view, shown>>
    BY <1>3 DEF FetchFails, IdleLoad
  <2> QED BY <1>1, <2>1 DEF ListInv, ListBelongs, LoadCurrent, NothingOpen, CallsBelong, Belongs, Stays
<1>4. CASE ShowHistory
  <2>1. /\ load'.step = "mark" /\ load'.conv = load.conv /\ shown' = load.conv
        /\ view' = load.done /\ unserved' = unserved
    BY <1>4 DEF ShowHistory, ViewTypeOK, Load
  <2>2. \A e \in view' : ConversationOf[e.id] = load.conv
    BY <2>1 DEF ViewTypeOK, LoadSound
  <2> QED BY <1>1, <2>1, <2>2 DEF ListInv, ListBelongs, LoadCurrent, NothingOpen, CallsBelong,
             Belongs, Stays
<1>5. CASE EndLoad
  <2>1. load'.step = "idle" /\ UNCHANGED <<view, shown, unserved>> /\ load.step = "mark"
    BY <1>5 DEF EndLoad, IdleLoad
  <2> QED BY <1>1, <2>1 DEF ListInv, ListBelongs, LoadCurrent, NothingOpen, CallsBelong, Belongs, Stays
<1> QED BY <1>2, <1>3, <1>4, <1>5 DEF Loading

LEMMA ListQuiet == ViewTypeOK /\ ListInv /\ (Outside \/ Arriving \/ Handling \/ Sending) => ListInv'
<1> SUFFICES ASSUME ViewTypeOK, ListInv, Outside \/ Arriving \/ Handling \/ Sending PROVE ListInv'
  OBVIOUS
<1> USE DEF serverVars, pageVars, historyVars
<1>1. Stays /\ UNCHANGED <<load, ready, shown, unserved>>
  BY DEF Outside, TheyWrite, TheyEdit, TheyDelete, Answer, LoseEvents, Arriving, Receive,
         ReceiveDeleted, ReceiveAck, ReceiveNack, Handling, Process, StartDecrypt, DecryptMessage,
         DecryptEdit, Sending, StartSend, StartEdit, EmitEdit, DeleteOwn, EmitMessage, Stays
<1>2. ASSUME NEW k, NEW x, view' = Map(view, k, x)
      PROVE  \A e \in view' : \E f \in view : f.id = e.id
  <2>1. \A y : Entry(k, y).id = k
    BY DEF Entry
  <2> QED BY <1>2, <2>1, MapIds
<1>3. CASE Outside
  <2>1. view' = view /\ handlers' = handlers
    BY <1>3 DEF Outside, TheyWrite, TheyEdit, TheyDelete, Answer, LoseEvents
  <2>2. \A o \in Own : own'[o] = "encrypting" => own[o] = "encrypting"
    BY <1>3 DEF Outside, TheyWrite, TheyEdit, TheyDelete, Answer, LoseEvents, ViewTypeOK
  <2> QED BY <1>1, <2>1, <2>2, ListGrows
<1>4. CASE Arriving
  <2>1. /\ events # <<>> /\ Head(events) = events[1] /\ events[1] \in Event /\ events[1].id \in Ids
    BY <1>4, Taken, Parts DEF Arriving, Receive, ReceiveDeleted, ReceiveAck, ReceiveNack
  <2>2. \A o \in Own : own'[o] = "encrypting" => own[o] = "encrypting"
    BY <1>4 DEF Arriving, Receive, ReceiveDeleted, ReceiveAck, ReceiveNack, ViewTypeOK
  <2>3. \A h \in handlers' : (\E g \in handlers : g.id = h.id) \/ (conv # None /\ Belongs(h.id))
    <3>1. CASE Receive /\ Concerns(events[1])
      <4>1. handlers' = handlers \cup {Handler(events[1], "device")}
        BY <2>1, <3>1 DEF Receive
      <4>2. Handler(events[1], "device").id = events[1].id /\ ConversationOf[events[1].id] = conv
        BY <3>1 DEF Handler, Concerns
      <4>3. conv # None /\ Belongs(events[1].id)
        BY <2>1, <4>2, Basics DEF Belongs
      <4> QED BY <4>1, <4>2, <4>3
    <3>2. CASE ~(Receive /\ Concerns(events[1]))
      BY <1>4, <2>1, <3>2 DEF Arriving, Receive, ReceiveDeleted, ReceiveAck, ReceiveNack
    <3> QED BY <3>1, <3>2
  <2>4. \A e \in view' : \E f \in view : f.id = e.id
    <3>1. CASE ReceiveAck
      <4>1. view' = {IF e = Temp(events[1].id, e.shows) THEN Entry(events[1].id, "original") ELSE e
                       : e \in view}
        BY <2>1, <3>1 DEF ReceiveAck
      <4>2. \A y : Temp(events[1].id, y).id = events[1].id /\ Entry(events[1].id, y).id = events[1].id
        BY DEF Temp, Entry
      <4> QED BY <4>1, <4>2
    <3>2. view' \subseteq view \/ ReceiveAck \/ view' = Map(view, Head(events).id, "deleted")
      BY <1>4 DEF Arriving, Receive, ReceiveDeleted, ReceiveNack
    <3> QED BY <1>2, <3>1, <3>2
  <2> QED BY <1>1, <2>2, <2>3, <2>4, ListGrows
<1>5. CASE Handling
  <2>1. PICK h \in handlers : Process(h) \/ StartDecrypt(h) \/ DecryptMessage(h) \/ DecryptEdit(h)
    BY <1>5 DEF Handling
  <2>2. own' = own /\ \A g \in handlers' : \E f \in handlers : f.id = g.id
    BY <1>5, <2>1, Quiet DEF Process, StartDecrypt, DecryptMessage, DecryptEdit
  <2>3. conv # None /\ Belongs(h.id)
    BY DEF ListInv, NothingOpen, CallsBelong
  <2>4. (\E x : AppendToList(h.id, x)) \/ view' = view \/ view' = Map(view, h.id, "edited")
    BY <2>1 DEF Process, StartDecrypt, DecryptMessage, DecryptEdit, ShowEdit
  <2>5. ASSUME NEW x, AppendToList(h.id, x)
        PROVE  \A e \in view' : (\E f \in view : f.id = e.id) \/ (conv # None /\ Belongs(e.id))
    <3>1. Entry(h.id, x).id = h.id
      BY DEF Entry
    <3> QED BY <2>3, <2>5, <3>1 DEF AppendToList
  <2>6. \A e \in view' : (\E f \in view : f.id = e.id) \/ (conv # None /\ Belongs(e.id))
    BY <1>2, <2>4, <2>5
  <2> QED BY <1>1, <2>2, <2>6, ListGrows
<1>6. CASE Sending
  <2>1. PICK o \in Own : \/ StartSend(o) \/ StartEdit(o) \/ EmitEdit(o) \/ DeleteOwn(o)
                         \/ \E dropped \in BOOLEAN : EmitMessage(o, dropped)
    BY <1>6 DEF Sending
  <2>2. handlers' = handlers
    BY <2>1 DEF StartSend, StartEdit, EmitEdit, DeleteOwn, EmitMessage
  <2>3. \A x \in Own : own'[x] = "encrypting" => own[x] = "encrypting" \/ (conv # None /\ Belongs(x))
    <3>1. CASE StartSend(o)
      <4>1. conv = ConversationOf[o] /\ conv # None
        BY <3>1, Basics DEF StartSend
      <4> QED BY <3>1, <4>1 DEF StartSend, ViewTypeOK, Belongs
    <3>2. CASE ~StartSend(o)
      BY <2>1, <3>2 DEF StartEdit, EmitEdit, DeleteOwn, EmitMessage, ViewTypeOK
    <3> QED BY <3>1, <3>2
  <2>4. \A e \in view' : (\E f \in view : f.id = e.id) \/ (conv # None /\ Belongs(e.id))
    <3>1. CASE StartSend(o) \/ StartEdit(o)
      BY <3>1 DEF StartSend, StartEdit
    <3>2. CASE EmitEdit(o)
      BY <1>2, <3>2 DEF EmitEdit
    <3>3. CASE DeleteOwn(o)
      <4>1. PICK e \in view :
              e.id = o /\ view' = (view \ {e}) \cup {[e EXCEPT !.shows = "deleted"]}
        BY <3>3 DEF DeleteOwn
      <4>2. [e EXCEPT !.shows = "deleted"].id = o
        BY <4>1 DEF ViewTypeOK, Entries
      <4> QED BY <4>1, <4>2
    <3>4. CASE \E dropped \in BOOLEAN : EmitMessage(o, dropped)
      <4>1. view' = view \cup {Temp(o, "original")} /\ own[o] = "encrypting"
        BY <3>4 DEF EmitMessage
      <4>2. Temp(o, "original").id = o /\ conv # None /\ Belongs(o)
        BY <4>1 DEF Temp, ListInv, CallsBelong
      <4> QED BY <4>1, <4>2
    <3> QED BY <2>1, <3>1, <3>2, <3>3, <3>4
  <2> QED BY <1>1, <2>2, <2>3, <2>4, ListGrows
<1> QED BY <1>3, <1>4, <1>5, <1>6

LEMMA ListPaging == ViewTypeOK /\ ListInv /\ Paging => ListInv'
<1> SUFFICES ASSUME ViewTypeOK, ListInv, Paging PROVE ListInv'
  OBVIOUS
<1> USE DEF serverVars, pageVars, historyVars
<1>1. CASE (\E w \in writes : Write(w)) \/ OpenPage
  <2>1. Stays /\ UNCHANGED <<view, handlers, own, load, ready, shown, unserved>>
    BY <1>1 DEF Write, OpenPage, Stays
  <2> QED BY <2>1, ListGrows
<1>2. ASSUME NEW c \in Conversations, ChooseConversation(c) PROVE ListInv'
  <2>1. /\ conv' = c /\ shown' = None /\ UNCHANGED <<ready, view, handlers, own>>
        /\ unserved' = (load.step # "idle")
        /\ IF ready THEN StartLoad(c) ELSE UNCHANGED load
        /\ \A h \in handlers : <<h.id, h.step>> \in crossed'
        /\ \A o \in Own : own[o] = "encrypting" => <<o, own[o]>> \in crossed'
    BY <1>2 DEF ChooseConversation
  <2>2. c # None
    BY Basics
  <2>3. /\ ready /\ load.step = "idle" => load'.step = "fetch" /\ load'.conv = c
        /\ ~ready => load' = load /\ load.step = "idle"
        /\ load.step # "idle" => load' = load /\ ready
    BY <2>1, <2>2 DEF StartLoad, IdleLoad, ListInv, LoadCurrent
  <2>4. \A m, s : <<m, s>>[1] = m
    OBVIOUS
  <2>5. CallsBelong'
    BY <2>1, <2>2, <2>4 DEF CallsBelong, Belongs
  <2>6. LoadCurrent'
    BY <2>1, <2>3 DEF LoadCurrent
  <2>7. ListBelongs' /\ NothingOpen'
    BY <2>1, <2>2, <2>3 DEF ListBelongs, NothingOpen
  <2> QED BY <2>5, <2>6, <2>7 DEF ListInv
<1>3. CASE BecomeReady
  <2>1. Stays /\ ready' /\ ~ready /\ StartLoad(conv)
        /\ UNCHANGED <<view, handlers, own, shown, unserved>>
    BY <1>3 DEF BecomeReady, Stays
  <2>2. load.step = "idle"
    BY <2>1 DEF ListInv, LoadCurrent
  <2>3. /\ conv # None => load'.step = "fetch" /\ load'.conv = conv
        /\ conv = None => load' = load
    BY <2>1, <2>2 DEF StartLoad, IdleLoad
  <2> QED BY <2>1, <2>2, <2>3 DEF ListInv, ListBelongs, LoadCurrent, NothingOpen, CallsBelong,
             Belongs, Stays
<1>4. CASE Close
  <2>1. /\ conv' = None /\ ready' = FALSE /\ view' = {} /\ handlers' = {} /\ load'.step = "idle"
        /\ \A o \in Own : own'[o] # "encrypting"
    BY <1>4 DEF Close, IdleLoad, ViewTypeOK
  <2> QED BY <2>1 DEF ListInv, ListBelongs, LoadCurrent, NothingOpen, CallsBelong
<1> QED BY <1>1, <1>2, <1>3, <1>4 DEF Paging

LEMMA ListStep == ViewTypeOK /\ ListInv /\ [Next]_viewVars => ListInv'
<1>1. CASE UNCHANGED viewVars
  BY <1>1 DEF viewVars, serverVars, pageVars, historyVars, ListInv, ListBelongs, LoadCurrent,
              NothingOpen, CallsBelong, Belongs
<1> QED BY <1>1, StepKinds, ListLoading, ListQuiet, ListPaging

-----------------------------------------------------------------------------
(* The invariant                                                           *)

LEMMA ViewInit == Init => ViewInv
<1> SUFFICES ASSUME Init PROVE ViewInv
  OBVIOUS
<1>1. /\ events = <<>> /\ opened = {} /\ stored = [m \in Ids |-> NotStored] /\ online = TRUE
      /\ conv = None /\ ready = FALSE /\ view = {} /\ cache = NoCache /\ load = IdleLoad
      /\ handlers = {} /\ writes = {} /\ own = [o \in Own |-> "unsent"] /\ shown = None
      /\ known = {} /\ \A m \in Ids : server[m] \in {"unsent", "gone"}
      /\ server \in [Ids -> {"unsent", "gone"}]
  BY DEF Init
<1>2. /\ NoCache \in Cache /\ IdleLoad \in Load /\ <<>> \in Seq(Event)
      /\ IdleLoad.todo = <<>> /\ IdleLoad.done = {} /\ IdleLoad.step = "idle"
      /\ IdleLoad.conv = None
  <2>1. NoCache \in Cache /\ <<>> \in Seq(Page)
    BY DEF NoCache, Cache
  <2> QED BY <2>1 DEF IdleLoad, Load, Page, MaybeConversation
<1>3. \A o \in Own : o \in Ids
  BY Basics
<1>4. ViewTypeOK
  <2>1. /\ stored \in [Ids -> {NotStored} \cup [text : Texts, conv : MaybeConversation]]
        /\ server \in [Ids -> {"unsent", "original", "edited", "gone"}]
        /\ own \in [Own -> {"unsent", "encrypting", "stuck", "emitted", "orphan", "answered", "sent",
                            "re-encrypting"}]
    BY <1>1
  <2>2. LoadSound /\ load \in Load /\ conv \in MaybeConversation
    BY <1>1, <1>2 DEF LoadSound, MaybeConversation
  <2> QED BY <1>1, <1>2, <2>1, <2>2 DEF ViewTypeOK
<1>5. Arrivals
  BY <1>1, <1>2, <1>3 DEF Arrivals, Unannounced, MessageFirst, DeletedLast, AnsweredOnce,
                          OwnInStep, NoneOfUnsent
<1>6. CopyInv
  BY <1>1 DEF CopyInv, TextsKept, SavesRight, HandlersRight, DeletesKnown, OrphansCut
<1>7. DeletedInv /\ EditInv
  BY <1>1, Basics DEF DeletedInv, KnownGone, EditInv
<1>8. ListInv
  BY <1>1, <1>2 DEF ListInv, ListBelongs, LoadCurrent, NothingOpen, CallsBelong
<1> QED BY <1>4, <1>5, <1>6, <1>7, <1>8 DEF ViewInv

LEMMA ViewStep == ViewInv /\ [Next]_viewVars => ViewInv'
BY TypeStep, ArrivalsStep, CopyStep, DeletedStep, EditStep, ListStep DEF ViewInv

\* The invariant says what the runs check of it.
LEMMA Copies == ViewInv => CopiesAccountedFor
<1> SUFFICES ASSUME ViewInv PROVE CopiesAccountedFor
  OBVIOUS
<1>1. \A w \in writes : w.op \in {"save", "delete"}
  BY DEF ViewInv, ViewTypeOK, Save, Deletion
<1>2. ASSUME NEW m \in known, m \notin raced \cup cut
      PROVE  /\ cache[m] = NoText
             /\ stored[m] = NotStored \/ DeleteLocal(m) \in writes
             /\ \A w \in writes : w.id = m => w.op = "delete"
  BY <1>1, <1>2 DEF ViewInv, DeletedInv, Clear, Underway
<1>3. DeletedIsGone
  BY <1>2 DEF DeletedIsGone
<1> QED BY <1>3 DEF ViewInv, CopyInv, CopiesAccountedFor

LEMMA Lists == ViewInv => ListAccountedFor
BY DEF ViewInv, EditInv, Excused, NoOriginal, EditsShown, ListInv, ListAccountedFor

-----------------------------------------------------------------------------
(* Theorems                                                                *)

\* useMessages.js, messageProcessing.js, messageSending.js: whatever the order of loads,
\* events, writes, changes of conversation and closings, the page is in step with what
\* the server sent it: each message before its edit, nothing after its deletion, one
\* answer to each message of this user, and each call with the conversation it began in.
THEOREM ViewSound == Spec => []ViewInv
BY ViewInit, ViewStep, PTL DEF Spec

\* messageProcessing.js:218, messageSending.js:129, messageActions.js:87: a text that was
\* read or acknowledged keeps a copy under its conversation, and one that was deleted
\* none, but for the losses CopiesAccountedFor names.
THEOREM CopiesTold == Spec => []CopiesAccountedFor
BY ViewSound, Copies, PTL

\* useMessages.js:130, :157, :329: the list shows the conversation that was opened, with
\* the edits the page was there for, but for the exceptions ListAccountedFor names.
THEOREM ListTold == Spec => []ListAccountedFor
BY ViewSound, Lists, PTL
=============================================================================
