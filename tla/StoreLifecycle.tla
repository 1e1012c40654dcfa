--------------------------- MODULE StoreLifecycle ---------------------------
(***************************************************************************)
(* Which user's database the pages of a browser work on.  SignalStore-     *)
(* Adapter has one database per user, and a promise of the database that   *)
(* every access awaits: init opens a user's database and resolves the      *)
(* promise, init for another user and reset put a new promise in its       *)
(* place.  AuthContext calls them while it signs a user in and out.        *)
(*                                                                         *)
(* A page runs one piece of synchronous code at a time and interleaves its *)
(* flows at their awaits.  Pages share the databases, localStorage and the *)
(* session cookie; the server's side of a request is one step.             *)
(***************************************************************************)
EXTENDS Integers, Sequences

CONSTANTS
    User, Page, None,
    SlowOpens,        \* opening a database may take more than 100 ms
    QuietForms,       \* a form is sent only when no write is under way
    SignInTwice,      \* whether a signed-in user may go to the login page
    Overlap,          \* whether a form may be sent while the page is loading
    MaxOpenFailures,  \* bound: opens that fail
    MaxLoads,         \* bound: page loads
    MaxForms          \* bound: forms sent

ASSUME LifecycleAssumption ==
    /\ None \notin User /\ {"pending", "rejected"} \cap User = {}
    /\ {SlowOpens, QuietForms, SignInTwice, Overlap} \subseteq BOOLEAN
    /\ MaxOpenFailures \in Nat /\ MaxLoads \in Nat /\ MaxForms \in Nat

VARIABLES
    deviceMeta, \* the databases: the user whose device id is in each
    active,     \* localStorage: the user whose database a page opens on load
    known,      \* localStorage: whose hashed address leads to a user id
    cookie,     \* the user the server takes the browser's requests for
    account,    \* the accounts of the server
    page,       \* what each page has: its adapter and the state of AuthContext
    flow,       \* what each page is doing
    landed,     \* history: <<u, d>>, a write made for u reached the database of d
    loads, forms, openFailures

localVars == <<active, known>>
serverVars == <<cookie, account>>
countVars == <<loads, forms, openFailures>>
vars == <<deviceMeta, localVars, serverVars, page, flow, landed, countVars>>

-----------------------------------------------------------------------------
(* The state of a page                                                     *)

\* a deferred promise of the adapter: the user whose database it resolved to
Promise == User \cup {"pending", "rejected"}

\* slot is the current promise; a connection is <<database, the promise it resolved>>
NewPage(loaded, u) ==
    [loaded |-> loaded, userId |-> u, slot |-> 1, promise |-> <<"pending">>,
     connections |-> {}, deleting |-> None, user |-> None]

\* The flows of a page: the cold start of the adapter's constructor, checkAuth on
\* load, what the user does, and a write of the code behind the page.
Flow == {"boot", "load", "form", "write"}

InitStage == {"init cached", "init signed in", "init registered", "init checked"}
StoreStage == {"read device", "locks", "check locks", "write device",
              "write first device", "wipe", "put"}
OtherStage == {"idle", "boot", "get me", "log in", "register", "hash", "log out", "delete",
               "encrypt"}

\* at: in synchronous code that calls init, in its race, in its open, or at an await
Idle == [stage |-> "idle", at |-> "await", for |-> None, auto |-> FALSE, device |-> None,
         slot |-> 0]

\* where a flow goes on when its init returns
AfterInit(stage) ==
    CASE stage = "init cached"     -> "read device"
      [] stage = "init signed in"  -> "locks"
      [] stage = "init registered" -> "hash"
      [] stage = "init checked"    -> "check locks"

TypeOK ==
    /\ deviceMeta \in [User -> User \cup {None}]
    /\ active \in User \cup {None} /\ known \subseteq User
    /\ cookie \in User \cup {None} /\ account \in [User -> {"none", "open", "deleted"}]
    /\ page \in [Page -> [loaded : BOOLEAN, userId : User \cup {None}, slot : Nat \ {0},
                          promise : Seq(Promise), connections : SUBSET (User \X Nat),
                          deleting : User \cup {None}, user : User \cup {None}]]
    /\ flow \in [Page -> [Flow -> [stage : InitStage \cup StoreStage \cup OtherStage,
                                   at : {"call", "race", "open", "await"},
                                   for : User \cup {None}, auto : BOOLEAN,
                                   device : User \cup {None}, slot : Nat]]]
    /\ \A p \in Page : page[p].slot = Len(page[p].promise)
    /\ landed \subseteq User \X User
    /\ loads \in 0 .. MaxLoads /\ forms \in 0 .. MaxForms
    /\ openFailures \in 0 .. MaxOpenFailures

Init ==
    /\ deviceMeta = [u \in User |-> None]
    /\ active = None /\ known = {} /\ cookie = None
    /\ account \in [User -> {"none", "open"}]
    /\ page = [p \in Page |-> NewPage(FALSE, None)]
    /\ flow = [p \in Page |-> [k \in Flow |-> Idle]]
    /\ landed = {}
    /\ loads = 0 /\ forms = 0 /\ openFailures = 0

-----------------------------------------------------------------------------
(* Awaits                                                                  *)

\* synchronous code runs to its next await before another flow goes on
AtAwait(p, k, stage) ==
    /\ flow[p][k].stage = stage /\ flow[p][k].at = "await"
    /\ \A j \in Flow : flow[p][j].at # "call"

\* flow k goes on to a stage, of a page that is then pg; a stage that reads the store
\* does so only if the adapter is initialised, and awaits the promise of the moment
Goes(p, k, stage, f, pg) ==
    flow' = [flow EXCEPT ![p][k] =
        IF stage = "idle" THEN Idle
        ELSE [f EXCEPT !.stage = stage,
                       !.at = IF stage \in InitStage THEN "call" ELSE "await",
                       !.slot = IF pg.userId = None /\ stage \notin {"write device", "write first device", "put"}
                                THEN 0 ELSE pg.slot]]

\* the database a flow's promise resolved to, None if it was rejected or closed since
Pending(pg) == {i \in DOMAIN pg.promise : pg.promise[i] = "pending"}
Settled(p, k) == flow[p][k].slot \notin Pending(page[p])
Database(p, slot) ==
    IF slot > 0 /\ \E d \in User : <<d, slot>> \in page[p].connections
    THEN page[p].promise[slot] ELSE None

\* mutant: the promise is not counted
NewPromiseSameSlot(pg) == [pg EXCEPT !.promise = Append(@, "pending")]

NewPromise(pg) == [pg EXCEPT !.slot = @ + 1, !.promise = Append(@, "pending")]
\* mutant: reset forgets to clear the user
ResetKeepsUser(pg) == NewPromise(pg)

Reset(pg) == [NewPromise(pg) EXCEPT !.userId = None]
SignedOut(pg) == [pg EXCEPT !.user = None]

Becomes(p, pg) == page' = [page EXCEPT ![p] = pg]

\* an exception: checkAuth signs the page out, the login reverts its first init if
\* that is done
Fails(p, k, pg) ==
    LET f == flow[p][k] IN
    /\ CASE f.stage = "init checked" -> Becomes(p, SignedOut(pg)) /\ active' = active
         [] f.stage \notin {"init checked", "init cached"} /\ f.auto ->
                Becomes(p, Reset(pg)) /\ active' = None
         [] OTHER -> Becomes(p, pg) /\ active' = active
    /\ flow' = [flow EXCEPT ![p][k] = Idle]

-----------------------------------------------------------------------------
(* init of the adapter                                                     *)

\* the synchronous part: nothing to do, wait for the old database, or open one
CallInit(p, k) ==
    LET f == flow[p][k]  pg == page[p] IN
    /\ f.at = "call"
    /\ \/ /\ pg.userId = f.for
          /\ Goes(p, k, AfterInit(f.stage), f, pg)
          /\ UNCHANGED <<page, active>>
       \/ /\ pg.userId \notin {f.for, None}
          /\ flow' = [flow EXCEPT ![p][k].at = "race", ![p][k].slot = pg.slot]
          /\ UNCHANGED <<page, active>>
       \/ /\ pg.userId = None
          /\ flow' = [flow EXCEPT ![p][k].at = "open"]
          /\ Becomes(p, [pg EXCEPT !.userId = f.for])
          /\ active' = f.for
    /\ UNCHANGED <<deviceMeta, known, serverVars, landed, countVars>>

\* mutant: the old database is closed, its promise stays
RaceKeepsPromise(p, k) ==
    LET f == flow[p][k]  pg == page[p] IN
    /\ f.at = "race" /\ \A j \in Flow : flow[p][j].at # "call"
    /\ f.slot \notin Pending(pg) \/ SlowOpens
    /\ Becomes(p, [pg EXCEPT !.userId = f.for, !.connections = @ \ (User \X {f.slot})])
    /\ active' = f.for
    /\ flow' = [flow EXCEPT ![p][k].at = "open"]
    /\ UNCHANGED <<deviceMeta, known, serverVars, landed, countVars>>

\* the old database is there, and is closed, or 100 ms are over
Race(p, k) ==
    LET f == flow[p][k]  pg == page[p] IN
    /\ f.at = "race" /\ \A j \in Flow : flow[p][j].at # "call"
    /\ f.slot \notin Pending(pg) \/ SlowOpens
    /\ Becomes(p, [NewPromise(pg) EXCEPT !.userId = f.for,
                                         !.connections = @ \ (User \X {f.slot})])
    /\ active' = f.for
    /\ flow' = [flow EXCEPT ![p][k].at = "open"]
    /\ UNCHANGED <<deviceMeta, known, serverVars, landed, countVars>>

\* resolve and reject are those of the promise that is current when the open ends
Opened(p, k) ==
    LET f == flow[p][k]
        first == page[p].promise[page[p].slot] = "pending"
        pg == [page[p] EXCEPT
                  !.promise[page[p].slot] = IF first THEN f.for ELSE @,
                  !.connections = @ \cup {<<f.for, IF first THEN page[p].slot ELSE 0>>}] IN
    /\ f.at = "open" /\ \A j \in Flow : flow[p][j].at # "call"
    /\ \A q \in Page : page[q].deleting # f.for
    /\ Becomes(p, pg)
    /\ Goes(p, k, IF k = "boot" THEN "idle" ELSE AfterInit(f.stage), f, pg)
    /\ UNCHANGED <<deviceMeta, localVars, serverVars, landed, countVars>>

OpenFails(p, k) ==
    /\ flow[p][k].at = "open" /\ \A j \in Flow : flow[p][j].at # "call"
    /\ openFailures < MaxOpenFailures
    /\ openFailures' = openFailures + 1
    /\ Fails(p, k, [page[p] EXCEPT
                       !.promise[page[p].slot] = IF @ = "pending" THEN "rejected" ELSE @])
    /\ UNCHANGED <<deviceMeta, known, serverVars, landed, loads, forms>>

-----------------------------------------------------------------------------
(* checkAuth                                                               *)

\* mutant: the database is not opened
GetMeWithoutInit(p, k) ==
    /\ AtAwait(p, k, "get me")
    /\ \/ /\ cookie # None
          /\ Goes(p, k, "check locks", [flow[p][k] EXCEPT !.for = cookie], page[p])
          /\ page' = page
       \/ /\ Goes(p, k, "idle", Idle, page[p])
          /\ Becomes(p, SignedOut(page[p]))
    /\ UNCHANGED <<deviceMeta, localVars, serverVars, landed, countVars>>

\* the session cookie is looked at when the server answers
GetMe(p, k) ==
    /\ AtAwait(p, k, "get me")
    /\ \/ /\ cookie # None
          /\ Goes(p, k, "init checked", [flow[p][k] EXCEPT !.for = cookie], page[p])
          /\ page' = page
       \/ /\ Goes(p, k, "idle", Idle, page[p])
          /\ Becomes(p, SignedOut(page[p]))
    /\ UNCHANGED <<deviceMeta, localVars, serverVars, landed, countVars>>

\* refreshLockedChats, whose errors are logged, and then the user is signed in
CheckLocks(p, k) ==
    /\ AtAwait(p, k, "check locks") /\ Settled(p, k)
    /\ Becomes(p, [page[p] EXCEPT !.user = flow[p][k].for])
    /\ Goes(p, k, "idle", Idle, page[p])
    /\ UNCHANGED <<deviceMeta, localVars, serverVars, landed, countVars>>

-----------------------------------------------------------------------------
(* handleLogin, handleRegister                                             *)

ReadDevice(p) ==
    /\ AtAwait(p, "form", "read device") /\ Settled(p, "form")
    /\ LET d == Database(p, flow[p]["form"].slot) IN
       Goes(p, "form", "log in",
            [flow[p]["form"] EXCEPT !.device = IF d = None THEN None ELSE deviceMeta[d]],
            page[p])
    /\ UNCHANGED <<deviceMeta, localVars, serverVars, page, landed, countVars>>

\* mutant: the database is not opened before it is written
LogInWithoutInit(p) ==
    LET f == flow[p]["form"] IN
    /\ AtAwait(p, "form", "log in")
    /\ account[f.for] = "open"
    /\ cookie' = f.for
    /\ Goes(p, "form", "locks", [f EXCEPT !.device = f.for], page[p])
    /\ UNCHANGED <<page, localVars, account, deviceMeta, landed, countVars>>

\* the server signs in an account that exists and names its device id
LogIn(p) ==
    LET f == flow[p]["form"] IN
    /\ AtAwait(p, "form", "log in")
    /\ \/ /\ account[f.for] = "open"
          /\ cookie' = f.for
          /\ Goes(p, "form", "init signed in", [f EXCEPT !.device = f.for], page[p])
          /\ UNCHANGED <<page, active>>
       \/ /\ Fails(p, "form", page[p])
          /\ cookie' = cookie
    /\ UNCHANGED <<deviceMeta, known, account, landed, countVars>>

Locks(p) ==
    /\ AtAwait(p, "form", "locks") /\ Settled(p, "form")
    /\ known' = known \cup {flow[p]["form"].for}
    /\ Goes(p, "form", "write device", flow[p]["form"], page[p])
    /\ UNCHANGED <<deviceMeta, active, serverVars, page, landed, countVars>>

Register(p) ==
    LET f == flow[p]["form"] IN
    /\ AtAwait(p, "form", "register")
    /\ \/ /\ account[f.for] = "none"
          /\ account' = [account EXCEPT ![f.for] = "open"]
          /\ Goes(p, "form", "init registered", [f EXCEPT !.device = f.for], page[p])
       \/ /\ Goes(p, "form", "idle", Idle, page[p])
          /\ account' = account
    /\ UNCHANGED <<deviceMeta, localVars, cookie, page, landed, countVars>>

Hash(p) ==
    /\ AtAwait(p, "form", "hash")
    /\ known' = known \cup {flow[p]["form"].for}
    /\ Goes(p, "form", "write first device", flow[p]["form"], page[p])
    /\ UNCHANGED <<deviceMeta, active, serverVars, page, landed, countVars>>

\* setDeviceId, after which a login goes on with checkAuth
WriteDevice(p, stage, next) ==
    LET f == flow[p]["form"]  d == Database(p, f.slot) IN
    /\ AtAwait(p, "form", stage) /\ Settled(p, "form")
    /\ \/ /\ d # None
          /\ deviceMeta' = [deviceMeta EXCEPT ![d] = f.device]
          /\ Goes(p, "form", next, f, page[p])
          /\ UNCHANGED <<page, active>>
       \/ /\ d = None
          /\ Fails(p, "form", page[p])
          /\ UNCHANGED deviceMeta
    /\ UNCHANGED <<known, serverVars, landed, countVars>>

-----------------------------------------------------------------------------
(* handleLogout, nukeAccount                                               *)

\* the request may fail, the page is reset in any case
LogOut(p) ==
    /\ AtAwait(p, "form", "log out")
    /\ cookie' \in {None, cookie}
    /\ Becomes(p, SignedOut(Reset(page[p])))
    /\ active' = None
    /\ Goes(p, "form", "idle", Idle, page[p])
    /\ UNCHANGED <<deviceMeta, known, account, landed, countVars>>

\* deleteAllLocalData takes the name of the database, if any, before it waits
Delete(p) ==
    /\ AtAwait(p, "form", "delete")
    /\ \/ /\ cookie # None
          /\ account' = [account EXCEPT ![cookie] = "deleted"]
          /\ cookie' = None
          /\ Goes(p, "form", "wipe", [flow[p]["form"] EXCEPT !.for = page[p].userId], page[p])
       \/ /\ Goes(p, "form", "idle", Idle, page[p])
          /\ UNCHANGED serverVars
    /\ UNCHANGED <<deviceMeta, localVars, page, landed, countVars>>

Open(d) == \E q \in Page : \E c \in page[q].connections : c[1] = d

\* the deletion waits for the other connections; the page does not wait for it
Wipe(p) ==
    LET f == flow[p]["form"]
        pg == SignedOut(Reset([page[p] EXCEPT !.connections = @ \ (User \X {f.slot})]))
        blocked == \E q \in Page : \E c \in page[q].connections :
                      c[1] = f.for /\ ~(q = p /\ c[2] = f.slot) IN
    /\ AtAwait(p, "form", "wipe") /\ Settled(p, "form")
    /\ \/ /\ f.slot = 0
          /\ Becomes(p, SignedOut(page[p]))
          /\ UNCHANGED deviceMeta
       \/ /\ f.slot # 0 /\ blocked
          /\ Becomes(p, [pg EXCEPT !.deleting = f.for])
          /\ UNCHANGED deviceMeta
       \/ /\ f.slot # 0 /\ ~blocked
          /\ Becomes(p, pg)
          /\ deviceMeta' = [deviceMeta EXCEPT ![f.for] = None]
    /\ active' = None /\ known' = {}
    /\ Goes(p, "form", "idle", Idle, page[p])
    /\ UNCHANGED <<serverVars, landed, countVars>>

DeleteUnblocked(p) ==
    /\ page[p].deleting # None /\ ~Open(page[p].deleting)
    /\ deviceMeta' = [deviceMeta EXCEPT ![page[p].deleting] = None]
    /\ Becomes(p, [page[p] EXCEPT !.deleting = None])
    /\ UNCHANGED <<localVars, serverVars, flow, landed, countVars>>

\* a connection nothing refers to any more is closed by the garbage collector
Collect(p) ==
    /\ \E c \in page[p].connections :
          /\ c[2] # page[p].slot
          /\ \A k \in Flow : flow[p][k].slot # c[2] \/ flow[p][k].slot = 0
          /\ Becomes(p, [page[p] EXCEPT !.connections = @ \ {c}])
    /\ UNCHANGED <<deviceMeta, localVars, serverVars, flow, landed, countVars>>

-----------------------------------------------------------------------------
(* What the user and the rest of the page do                               *)

\* a page is opened, or loaded again whatever it was doing
Load(p) ==
    /\ loads < MaxLoads
    /\ loads' = loads + 1
    /\ Becomes(p, NewPage(TRUE, active))
    /\ flow' = [flow EXCEPT ![p] =
           [k \in Flow |->
               CASE k = "boot" /\ active # None ->
                       [Idle EXCEPT !.stage = "boot", !.at = "open", !.for = active]
                 [] k = "load" -> [Idle EXCEPT !.stage = "get me"]
                 [] OTHER -> Idle]]
    /\ UNCHANGED <<deviceMeta, localVars, serverVars, landed, forms, openFailures>>

\* a form of the login, registration or settings page is sent
SendForm(p) ==
    LET pg == page[p]
        Start(stage, f) == Goes(p, "form", stage, f, pg) IN
    /\ pg.loaded /\ forms < MaxForms
    /\ forms' = forms + 1
    /\ AtAwait(p, "form", "idle")
    /\ Overlap \/ \A k \in {"boot", "load"} : flow[p][k].stage = "idle"
    /\ QuietForms => flow[p]["write"].stage = "idle"
    /\ \/ /\ pg.user = None \/ SignInTwice
          /\ \E u \in User :
                \/ Start(IF u \in known THEN "init cached"
                         ELSE IF pg.userId # None THEN "read device" ELSE "log in",
                         [Idle EXCEPT !.for = u, !.auto = u \in known])
                \/ Start("register", [Idle EXCEPT !.for = u])
       \/ /\ pg.user # None
          /\ \E stage \in {"log out", "delete"} : Start(stage, Idle)
    /\ UNCHANGED <<deviceMeta, localVars, serverVars, page, landed, loads, openFailures>>

\* the encryption code of a signed-in page writes something: it encrypts, and then
\* awaits the promise of the database
StartWrite(p) ==
    /\ page[p].user # None
    /\ AtAwait(p, "write", "idle")
    /\ Goes(p, "write", "encrypt", [Idle EXCEPT !.for = page[p].user], page[p])
    /\ UNCHANGED <<deviceMeta, localVars, serverVars, page, landed, countVars>>

Encrypt(p) ==
    /\ AtAwait(p, "write", "encrypt")
    /\ Goes(p, "write", "put", flow[p]["write"], page[p])
    /\ UNCHANGED <<deviceMeta, localVars, serverVars, page, landed, countVars>>

Put(p) ==
    LET d == Database(p, flow[p]["write"].slot) IN
    /\ AtAwait(p, "write", "put") /\ Settled(p, "write")
    /\ landed' = landed \cup ({<<flow[p]["write"].for, d>>} \cap (User \X User))
    /\ Goes(p, "write", "idle", Idle, page[p])
    /\ UNCHANGED <<deviceMeta, localVars, serverVars, page, countVars>>

\* the session ends at the server
Expire ==
    /\ cookie # None /\ cookie' = None
    /\ UNCHANGED <<deviceMeta, localVars, account, page, flow, landed, countVars>>

-----------------------------------------------------------------------------
InitStep(p) == \E k \in Flow : CallInit(p, k) \/ Race(p, k) \/ Opened(p, k)
CheckStep(p) == \E k \in {"load", "form"} : GetMe(p, k) \/ CheckLocks(p, k)
FormStep(p) ==
    \/ ReadDevice(p) \/ LogIn(p) \/ Locks(p) \/ Register(p) \/ Hash(p)
    \/ WriteDevice(p, "write device", "get me") \/ WriteDevice(p, "write first device", "idle")
    \/ LogOut(p) \/ Delete(p) \/ Wipe(p)
WriteStep(p) == Encrypt(p) \/ Put(p)

Next ==
    \/ \E p \in Page :
          \/ InitStep(p) \/ CheckStep(p) \/ FormStep(p) \/ WriteStep(p)
          \/ \E k \in Flow : OpenFails(p, k)
          \/ DeleteUnblocked(p) \/ Collect(p)
          \/ Load(p) \/ SendForm(p) \/ StartWrite(p)
    \/ Expire

Spec == Init /\ [][Next]_vars

\* the browser and the server answer
FairSpec ==
    /\ Spec
    /\ \A p \in Page : /\ WF_vars(InitStep(p)) /\ WF_vars(CheckStep(p))
                      /\ WF_vars(FormStep(p)) /\ WF_vars(DeleteUnblocked(p))

-----------------------------------------------------------------------------
(* Properties                                                              *)

AtRest(p) == \A k \in {"boot", "load", "form"} : flow[p][k].stage = "idle"

\* "Opens the per-user database": a page at rest that shows a signed-in user works on
\* the database of that user, and it is open unless its opening failed.
OwnStore ==
    \A p \in Page : AtRest(p) /\ page[p].user # None =>
        /\ page[p].userId = page[p].user
        /\ page[p].promise[page[p].slot] # "rejected" =>
              Database(p, page[p].slot) = page[p].user

\* "Init the per-user DB before writing any device meta into it": no database ever
\* holds the device id another account was given.
DeviceOfAccount == \A u \in User : deviceMeta[u] \in {None, u}

\* IndexedDB has "encrypted per-user databases" (README.md): what is written for a
\* user reaches the database of no other.
WritesStayHome == \A w \in landed : w[1] = w[2]

\* Every form that is sent and every page that loads comes to an end: no flow waits
\* for a promise that init or reset has put aside.  Only a blocked deletion, which
\* waits for connections that other pages have or that were never closed, keeps an
\* open waiting.
FlowsEnd ==
    \A p \in Page : []<>(AtRest(p) \/ \E q \in Page : page[q].deleting # None)

=============================================================================
