------------------------ MODULE StoreLifecycleProofs ------------------------
(***************************************************************************)
(* Theorems about StoreLifecycle, for any users, pages, loads and forms:   *)
(* its type invariant; and, under the conditions its run makes, that a     *)
(* page shows the database of its user, that a database holds no device id *)
(* of another account, and that no write reaches another user's database.  *)
(***************************************************************************)
EXTENDS StoreLifecycle, TLAPS

-----------------------------------------------------------------------------
(* Types                                                                   *)

Stage == InitStage \cup StoreStage \cup OtherStage
PageState ==
    [loaded : BOOLEAN, userId : User \cup {None}, slot : Nat \ {0},
     promise : Seq(Promise), connections : SUBSET (User \X Nat),
     deleting : User \cup {None}, user : User \cup {None}]
FlowState ==
    [stage : Stage, at : {"call", "race", "open", "await"}, for : User \cup {None},
     auto : BOOLEAN, device : User \cup {None}, slot : Nat]

\* Which stages a flow passes through, where it is in its init, and in which stages
\* it works for somebody.
ForSomebody ==
    InitStage \cup {"boot", "read device", "log in", "register", "locks", "check locks",
                    "hash", "write device", "write first device", "encrypt", "put"}
FlowFits(k, f) ==
    /\ k = "boot" => f.stage \in {"idle", "boot"}
    /\ k = "load" => f.stage \in {"idle", "get me", "init checked", "check locks"}
    /\ k = "form" => f.stage \notin {"boot", "encrypt", "put"}
    /\ k = "write" => f.stage \in {"idle", "encrypt", "put"}
    /\ f.at = "await" <=> f.stage \notin InitStage \cup {"boot"}
    /\ f.stage = "boot" => f.at = "open" /\ ~f.auto
    /\ f.stage \in ForSomebody => f.for \in User


\* A connection that has resolved a promise is one to the database it resolved to.
Connected(pg) ==
    \A c \in pg.connections :
        c[2] # 0 => c[2] \in DOMAIN pg.promise /\ pg.promise[c[2]] = c[1]
GoodPage(pg) == pg \in PageState /\ pg.slot = Len(pg.promise) /\ Connected(pg)
GoodFlow(k, f) == f \in FlowState /\ FlowFits(k, f)
PagesTyped == page \in [Page -> PageState] /\ \A p \in Page : GoodPage(page[p])
FlowsTyped ==
    flow \in [Page -> [Flow -> FlowState]] /\ \A p \in Page : \A k \in Flow : FlowFits(k, flow[p][k])
RestTyped ==
    /\ deviceMeta \in [User -> User \cup {None}]
    /\ active \in User \cup {None} /\ known \subseteq User
    /\ cookie \in User \cup {None} /\ account \in [User -> {"none", "open", "deleted"}]
    /\ landed \subseteq User \X User
    /\ loads \in 0 .. MaxLoads /\ forms \in 0 .. MaxForms
    /\ openFailures \in 0 .. MaxOpenFailures
TypeInv == PagesTyped /\ FlowsTyped /\ RestTyped

LEMMA TypeInvTypes == TypeInv => TypeOK
  BY DEF TypeInv, PagesTyped, FlowsTyped, RestTyped, TypeOK, GoodPage, PageState, FlowState, Stage

\* Goes puts this in the place of the flow.
Moved(stage, f, pg) ==
    IF stage = "idle" THEN Idle
    ELSE [f EXCEPT !.stage = stage,
                   !.at = IF stage \in InitStage THEN "call" ELSE "await",
                   !.slot = IF pg.userId = None /\ stage \notin {"write device", "write first device", "put"}
                            THEN 0 ELSE pg.slot]

LEMMA PageFields ==
    ASSUME NEW pg, GoodPage(pg)
    PROVE  /\ pg.loaded \in BOOLEAN /\ pg.userId \in User \cup {None}
           /\ pg.slot \in Nat /\ pg.slot >= 1 /\ pg.promise \in Seq(Promise)
           /\ pg.slot = Len(pg.promise) /\ DOMAIN pg.promise = 1 .. pg.slot
           /\ pg.slot \in 1 .. pg.slot
           /\ \A i \in 1 .. pg.slot : pg.promise[i] \in Promise
           /\ pg.connections \in SUBSET (User \X Nat)
           /\ pg.deleting \in User \cup {None} /\ pg.user \in User \cup {None}
<1>1. /\ pg.loaded \in BOOLEAN /\ pg.userId \in User \cup {None}
      /\ pg.slot \in Nat \ {0} /\ pg.promise \in Seq(Promise)
      /\ pg.slot = Len(pg.promise) /\ pg.connections \in SUBSET (User \X Nat)
      /\ pg.deleting \in User \cup {None} /\ pg.user \in User \cup {None}
  BY DEF GoodPage, PageState
<1>2. DOMAIN pg.promise = 1 .. pg.slot /\ \A i \in 1 .. pg.slot : pg.promise[i] \in Promise
  BY <1>1
<1>3. pg.slot >= 1 /\ pg.slot \in 1 .. pg.slot
  BY <1>1
<1> QED
  BY <1>1, <1>2, <1>3

LEMMA FlowFields ==
    ASSUME NEW k, NEW f, GoodFlow(k, f)
    PROVE  /\ f.stage \in Stage /\ f.at \in {"call", "race", "open", "await"}
           /\ f.for \in User \cup {None} /\ f.auto \in BOOLEAN
           /\ f.device \in User \cup {None} /\ f.slot \in Nat
  BY DEF GoodFlow, FlowState

LEMMA PageGood == ASSUME TypeInv, NEW p \in Page PROVE GoodPage(page[p])
  BY DEF TypeInv, PagesTyped

LEMMA FlowGood ==
    ASSUME TypeInv, NEW p \in Page, NEW k \in Flow PROVE GoodFlow(k, flow[p][k])
  BY DEF TypeInv, FlowsTyped, GoodFlow

\* A fresh promise, at the end of those made so far.
LEMMA NewPromiseGood ==
    ASSUME NEW pg, GoodPage(pg)
    PROVE  /\ GoodPage(NewPromise(pg))
           /\ NewPromise(pg).slot = pg.slot + 1
           /\ NewPromise(pg).promise[pg.slot + 1] = "pending"
           /\ \A i \in 1 .. pg.slot : NewPromise(pg).promise[i] = pg.promise[i]
           /\ NewPromise(pg).userId = pg.userId /\ NewPromise(pg).connections = pg.connections
           /\ NewPromise(pg).user = pg.user /\ NewPromise(pg).deleting = pg.deleting
<1> DEFINE x == Append(pg.promise, "pending")
<1>1. /\ x \in Seq(Promise) /\ Len(x) = pg.slot + 1 /\ x[pg.slot + 1] = "pending"
      /\ \A i \in 1 .. pg.slot : x[i] = pg.promise[i]
  BY PageFields DEF Promise
<1>2. NewPromise(pg) = [pg EXCEPT !.slot = @ + 1, !.promise = x]
  BY DEF NewPromise
<1> HIDE DEF x
<1>3. pg \in PageState /\ pg.slot \in Nat /\ pg.slot + 1 \in Nat \ {0}
  BY PageFields DEF GoodPage
<1> DEFINE y == [pg EXCEPT !.slot = @ + 1, !.promise = x]
<1>4. /\ y \in PageState /\ y.slot = pg.slot + 1 /\ y.promise = x
      /\ y.userId = pg.userId /\ y.connections = pg.connections
      /\ y.user = pg.user /\ y.deleting = pg.deleting
  BY <1>1, <1>3 DEF PageState
<1>5. NewPromise(pg) = y
  BY <1>2
<1> HIDE DEF y
<1>6. DOMAIN pg.promise = 1 .. pg.slot /\ DOMAIN x = 1 .. pg.slot + 1 /\ pg.slot \in Nat
  BY <1>1, PageFields
<1>7. Connected(y)
  BY <1>1, <1>4, <1>6 DEF GoodPage, Connected
<1> QED
  BY <1>1, <1>4, <1>5, <1>7 DEF GoodPage

LEMMA ResetGood ==
    ASSUME NEW pg, GoodPage(pg)
    PROVE  /\ GoodPage(Reset(pg)) /\ Reset(pg).userId = None
           /\ Reset(pg).slot = pg.slot + 1
           /\ Reset(pg).promise[pg.slot + 1] = "pending"
           /\ \A i \in 1 .. pg.slot : Reset(pg).promise[i] = pg.promise[i]
           /\ Reset(pg).connections = pg.connections
           /\ Reset(pg).user = pg.user /\ Reset(pg).deleting = pg.deleting
<1> DEFINE x == NewPromise(pg)
<1>1. Reset(pg) = [x EXCEPT !.userId = None]
  BY DEF Reset
<1>2. GoodPage(x)
  BY NewPromiseGood
<1>3. /\ x.slot = pg.slot + 1 /\ x.promise[pg.slot + 1] = "pending"
      /\ \A i \in 1 .. pg.slot : x.promise[i] = pg.promise[i]
      /\ x.connections = pg.connections /\ x.user = pg.user /\ x.deleting = pg.deleting
  BY NewPromiseGood
<1> HIDE DEF x
<1> QED
  BY <1>1, <1>2, <1>3 DEF GoodPage, PageState, Connected

LEMMA SignedOutGood ==
    ASSUME NEW pg, GoodPage(pg)
    PROVE  /\ GoodPage(SignedOut(pg)) /\ SignedOut(pg).user = None
           /\ SignedOut(pg).userId = pg.userId /\ SignedOut(pg).slot = pg.slot
           /\ SignedOut(pg).promise = pg.promise /\ SignedOut(pg).connections = pg.connections
           /\ SignedOut(pg).deleting = pg.deleting
  BY DEF SignedOut, GoodPage, PageState, Connected

LEMMA NewPageGood ==
    ASSUME NEW b \in BOOLEAN, NEW u \in User \cup {None}
    PROVE  GoodPage(NewPage(b, u))
<1> DEFINE x == <<"pending">>
<1>1. x \in Seq(Promise) /\ Len(x) = 1
  BY DEF Promise
<1>2. NewPage(b, u) = [loaded |-> b, userId |-> u, slot |-> 1, promise |-> x,
                       connections |-> {}, deleting |-> None, user |-> None]
  BY DEF NewPage
<1> HIDE DEF x
<1> QED
  BY <1>1, <1>2 DEF GoodPage, PageState, Connected

LEMMA IdleGood == ASSUME NEW k \in Flow PROVE GoodFlow(k, Idle)
  BY DEF GoodFlow, FlowState, FlowFits, Idle, Stage, InitStage, OtherStage, ForSomebody

LEMMA MovedGood ==
    ASSUME NEW k \in Flow, NEW f \in FlowState, NEW pg, GoodPage(pg),
           NEW stage \in Stage, stage # "boot", stage \in ForSomebody => f.for \in User,
           k = "boot" => stage = "idle",
           k = "load" => stage \in {"idle", "get me", "init checked", "check locks"},
           k = "form" => stage \notin {"encrypt", "put"},
           k = "write" => stage \in {"idle", "encrypt", "put"}
    PROVE  GoodFlow(k, Moved(stage, f, pg))
<1>1. CASE stage = "idle"
  BY <1>1, IdleGood DEF Moved
<1>2. CASE stage # "idle"
  <2> DEFINE at == IF stage \in InitStage THEN "call" ELSE "await"
             slot == IF pg.userId = None /\ stage \notin {"write device", "write first device", "put"}
                     THEN 0 ELSE pg.slot
             g == [f EXCEPT !.stage = stage, !.at = at, !.slot = slot]
  <2>1. Moved(stage, f, pg) = g
    BY <1>2 DEF Moved
  <2>2. at \in {"call", "await"} /\ (at = "await" <=> stage \notin InitStage) /\ slot \in Nat
    BY PageFields
  <2> HIDE DEF at, slot
  <2>3. g \in FlowState /\ g.stage = stage /\ g.at = at /\ g.for = f.for
    BY <2>2 DEF FlowState
  <2> HIDE DEF g
  <2>4. FlowFits(k, g)
    BY <1>2, <2>2, <2>3 DEF FlowFits
  <2> QED BY <2>1, <2>3, <2>4 DEF GoodFlow
<1> QED
  BY <1>1, <1>2

LEMMA PageBecomes ==
    ASSUME TypeInv, NEW p \in Page, NEW pg, GoodPage(pg), Becomes(p, pg)
    PROVE  PagesTyped'
  BY DEF TypeInv, PagesTyped, Becomes, GoodPage

LEMMA FlowBecomes ==
    ASSUME TypeInv, NEW p \in Page, NEW k \in Flow, NEW g, GoodFlow(k, g),
           flow' = [flow EXCEPT ![p][k] = g]
    PROVE  FlowsTyped'
<1>1. g \in FlowState /\ FlowFits(k, g)
  BY DEF GoodFlow
<1>2. flow' \in [Page -> [Flow -> FlowState]]
  BY <1>1 DEF TypeInv, FlowsTyped
<1>3. ASSUME NEW q \in Page, NEW j \in Flow
      PROVE  FlowFits(j, flow'[q][j])
  <2>1. flow'[q][j] = IF q = p /\ j = k THEN g ELSE flow[q][j]
    BY DEF TypeInv, FlowsTyped
  <2>2. FlowFits(j, flow[q][j])
    BY DEF TypeInv, FlowsTyped
  <2> QED BY <1>1, <2>1, <2>2
<1> QED
  BY <1>2, <1>3 DEF FlowsTyped

LEMMA GoesMoves ==
    ASSUME NEW p, NEW k, NEW stage, NEW f, NEW pg, Goes(p, k, stage, f, pg)
    PROVE  flow' = [flow EXCEPT ![p][k] = Moved(stage, f, pg)]
  BY DEF Goes, Moved

LEMMA FailsTyped ==
    ASSUME TypeInv, NEW p \in Page, NEW k \in Flow, NEW pg, GoodPage(pg), Fails(p, k, pg)
    PROVE  PagesTyped' /\ FlowsTyped' /\ active' \in User \cup {None}
<1>1. FlowsTyped'
  BY IdleGood, FlowBecomes DEF Fails
<1>2. \/ Becomes(p, SignedOut(pg)) /\ active' = active
      \/ Becomes(p, Reset(pg)) /\ active' = None
      \/ Becomes(p, pg) /\ active' = active
  BY Zenon DEF Fails
<1>3. GoodPage(SignedOut(pg)) /\ GoodPage(Reset(pg))
  BY SignedOutGood, ResetGood
<1>4. PagesTyped'
  BY <1>2, <1>3, PageBecomes
<1>5. active' \in User \cup {None}
  BY <1>2 DEF TypeInv, RestTyped
<1> QED
  BY <1>1, <1>4, <1>5

LEMMA RestStays ==
    ASSUME TypeInv, UNCHANGED <<deviceMeta, known, serverVars, landed, countVars>>,
           active' \in User \cup {None}
    PROVE  RestTyped'
  BY DEF TypeInv, RestTyped, serverVars, countVars

\* Settling the current promise, of which there is no connection while it is pending.
LEMMA SettledGood ==
    ASSUME NEW pg, GoodPage(pg), NEW v \in Promise,
           pg.promise[pg.slot] = "pending" \/ v = pg.promise[pg.slot]
    PROVE  GoodPage([pg EXCEPT !.promise[pg.slot] = v])
<1> DEFINE x == [pg.promise EXCEPT ![pg.slot] = v]
           y == [pg EXCEPT !.promise = x]
<1>1. x \in Seq(Promise) /\ Len(x) = Len(pg.promise) /\ DOMAIN x = DOMAIN pg.promise
  BY PageFields
<1>2. \A i \in DOMAIN pg.promise : x[i] = IF i = pg.slot THEN v ELSE pg.promise[i]
  OBVIOUS
<1>3. [pg EXCEPT !.promise[pg.slot] = v] = y
  OBVIOUS
<1> HIDE DEF x
<1>4. y \in PageState /\ y.slot = pg.slot /\ y.promise = x /\ y.connections = pg.connections
  BY <1>1 DEF GoodPage, PageState
<1> HIDE DEF y
<1>5. ASSUME NEW c \in pg.connections, c[2] # 0
      PROVE  c[2] \in DOMAIN x /\ x[c[2]] = c[1]
  <2>1. c[2] \in DOMAIN pg.promise /\ pg.promise[c[2]] = c[1] /\ c[1] \in User
    BY <1>5, PageFields DEF GoodPage, Connected
  <2>2. c[1] # "pending"
    BY <2>1, LifecycleAssumption
  <2> QED BY <1>1, <1>2, <2>1, <2>2
<1>6. Connected(y)
  BY <1>4, <1>5 DEF Connected
<1> QED
  BY <1>1, <1>3, <1>4, <1>6 DEF GoodPage

LEMMA CallInitType ==
    ASSUME TypeInv, NEW p \in Page, NEW k \in Flow, CallInit(p, k) PROVE TypeInv'
<1> DEFINE f == flow[p][k]  pg == page[p]
<1>0. GoodFlow(k, f) /\ GoodPage(pg)
  BY FlowGood, PageGood
<1>1. f.at = "call" /\ f.stage \in InitStage /\ f.for \in User
  <2>1. f.at = "call"
    BY DEF CallInit
  <2> QED BY <1>0, <2>1 DEF GoodFlow, FlowFits, ForSomebody
<1>2. k \in {"load", "form"} /\ (k = "load" => f.stage = "init checked")
  BY <1>0, <1>1 DEF GoodFlow, FlowFits, Flow, InitStage
<1>3. CASE /\ Goes(p, k, AfterInit(f.stage), f, pg)
           /\ UNCHANGED <<page, active>>
  <2>1. /\ AfterInit(f.stage) \in {"read device", "locks", "hash", "check locks"}
        /\ k = "load" => AfterInit(f.stage) = "check locks"
    BY <1>1, <1>2 DEF AfterInit, InitStage
  <2>2. /\ AfterInit(f.stage) \in Stage /\ AfterInit(f.stage) \in StoreStage \cup OtherStage
        /\ AfterInit(f.stage) \notin {"boot", "idle"}
    BY <2>1 DEF Stage, StoreStage, OtherStage
  <2>3. GoodFlow(k, Moved(AfterInit(f.stage), f, pg))
    BY <1>0, <1>1, <1>2, <2>1, <2>2, MovedGood DEF GoodFlow
  <2>4. FlowsTyped'
    BY <1>3, <2>3, FlowBecomes, GoesMoves
  <2>5. PagesTyped' /\ active' \in User \cup {None}
    BY <1>3 DEF TypeInv, PagesTyped, RestTyped
  <2> QED BY <2>4, <2>5, RestStays DEF CallInit, TypeInv
<1>4. CASE /\ flow' = [flow EXCEPT ![p][k].at = "race", ![p][k].slot = pg.slot]
           /\ UNCHANGED <<page, active>>
  <2> DEFINE g == [f EXCEPT !.at = "race", !.slot = pg.slot]
  <2>1. flow' = [flow EXCEPT ![p][k] = g]
    BY <1>4 DEF TypeInv, FlowsTyped
  <2>2. /\ g \in FlowState /\ g.at = "race" /\ g.stage = f.stage /\ g.for = f.for
    BY <1>0, PageFields DEF GoodFlow, FlowState
  <2> HIDE DEF g
  <2>3. GoodFlow(k, g)
    BY <1>0, <1>1, <2>2 DEF GoodFlow, FlowFits
  <2>4. FlowsTyped'
    BY <2>1, <2>3, FlowBecomes
  <2>5. PagesTyped' /\ active' \in User \cup {None}
    BY <1>4 DEF TypeInv, PagesTyped, RestTyped
  <2> QED BY <2>4, <2>5, RestStays DEF CallInit, TypeInv
<1>5. CASE /\ flow' = [flow EXCEPT ![p][k].at = "open"]
           /\ Becomes(p, [pg EXCEPT !.userId = f.for]) /\ active' = f.for
  <2> DEFINE g == [f EXCEPT !.at = "open"]
  <2>1. flow' = [flow EXCEPT ![p][k] = g]
    BY <1>5 DEF TypeInv, FlowsTyped
  <2>2. /\ g \in FlowState /\ g.at = "open" /\ g.stage = f.stage /\ g.for = f.for
    BY <1>0 DEF GoodFlow, FlowState
  <2> HIDE DEF g
  <2>3. GoodFlow(k, g)
    BY <1>0, <1>1, <2>2 DEF GoodFlow, FlowFits
  <2>4. FlowsTyped'
    BY <2>1, <2>3, FlowBecomes
  <2>5. GoodPage([pg EXCEPT !.userId = f.for])
    BY <1>0, <1>1 DEF GoodPage, PageState, Connected
  <2>6. PagesTyped' /\ active' \in User \cup {None}
    BY <1>1, <1>5, <2>5, PageBecomes
  <2> QED BY <2>4, <2>6, RestStays DEF CallInit, TypeInv
<1> QED
  BY <1>3, <1>4, <1>5 DEF CallInit

LEMMA RaceType ==
    ASSUME TypeInv, NEW p \in Page, NEW k \in Flow, Race(p, k) PROVE TypeInv'
<1> DEFINE f == flow[p][k]  pg == page[p]
           next == [NewPromise(pg) EXCEPT !.userId = f.for,
                                          !.connections = @ \ (User \X {f.slot})]
           g == [f EXCEPT !.at = "open"]
<1>0. GoodFlow(k, f) /\ GoodPage(pg)
  BY FlowGood, PageGood
<1>1. f.at = "race" /\ f.stage \in InitStage /\ f.for \in User
  <2>1. f.at = "race"
    BY DEF Race
  <2> QED BY <1>0, <2>1 DEF GoodFlow, FlowFits, ForSomebody
<1>2. Becomes(p, next) /\ active' = f.for /\ flow' = [flow EXCEPT ![p][k] = g]
  BY DEF Race, TypeInv, FlowsTyped
<1>3. /\ g \in FlowState /\ g.at = "open" /\ g.stage = f.stage /\ g.for = f.for
  BY <1>0 DEF GoodFlow, FlowState
<1>4. GoodPage(next)
  <2>1. GoodPage(NewPromise(pg))
    BY <1>0, NewPromiseGood
  <2> QED BY <1>1, <2>1 DEF GoodPage, PageState, Connected
<1> HIDE DEF g, next
<1>5. GoodFlow(k, g)
  BY <1>0, <1>1, <1>3 DEF GoodFlow, FlowFits
<1>6. FlowsTyped' /\ PagesTyped' /\ active' \in User \cup {None}
  BY <1>1, <1>2, <1>4, <1>5, FlowBecomes, PageBecomes
<1> QED
  BY <1>6, RestStays DEF Race, TypeInv

\* The page after an open that succeeds.
AfterOpen(pg, u) ==
    LET first == pg.promise[pg.slot] = "pending" IN
    [pg EXCEPT !.promise[pg.slot] = IF first THEN u ELSE @,
               !.connections = @ \cup {<<u, IF first THEN pg.slot ELSE 0>>}]

LEMMA AfterOpenGood ==
    ASSUME NEW pg, GoodPage(pg), NEW u \in User
    PROVE  GoodPage(AfterOpen(pg, u))
<1> DEFINE v == IF pg.promise[pg.slot] = "pending" THEN u ELSE pg.promise[pg.slot]
           x == [pg EXCEPT !.promise[pg.slot] = v]
           n == IF pg.promise[pg.slot] = "pending" THEN pg.slot ELSE 0
<1>1. v \in Promise /\ n \in Nat
  BY PageFields DEF Promise
<1>2. GoodPage(x)
  <2>1. pg.promise[pg.slot] = "pending" \/ v = pg.promise[pg.slot]
    OBVIOUS
  <2> HIDE DEF v
  <2> QED BY <1>1, <2>1, SettledGood
<1>3. AfterOpen(pg, u) = [x EXCEPT !.connections = @ \cup {<<u, n>>}]
  BY DEF AfterOpen
<1>6. n # 0 => n \in DOMAIN x.promise /\ x.promise[n] = u
  BY PageFields DEF GoodPage, PageState
<1> HIDE DEF x, n
<1>4. x.connections \cup {<<u, n>>} \in SUBSET (User \X Nat)
  BY <1>1, <1>2, PageFields
<1> DEFINE y == [x EXCEPT !.connections = @ \cup {<<u, n>>}]
<1>5. y \in PageState /\ y.slot = x.slot /\ y.promise = x.promise
  BY ONLY <1>2, <1>4 DEF GoodPage, PageState
<1>7. y.connections = x.connections \cup {<<u, n>>}
  BY ONLY <1>2 DEF GoodPage, PageState
<1> HIDE DEF y
<1>8. Connected(y)
  BY <1>2, <1>5, <1>6, <1>7 DEF GoodPage, Connected
<1> QED
  BY <1>2, <1>3, <1>5, <1>8 DEF GoodPage, y

LEMMA OpenedType ==
    ASSUME TypeInv, NEW p \in Page, NEW k \in Flow, Opened(p, k) PROVE TypeInv'
<1> DEFINE f == flow[p][k]  pg == AfterOpen(page[p], f.for)
           stage == IF k = "boot" THEN "idle" ELSE AfterInit(f.stage)
<1>0. GoodFlow(k, f) /\ GoodPage(page[p])
  BY FlowGood, PageGood
<1>1. f.at = "open" /\ f.for \in User
  <2>1. f.at = "open"
    BY DEF Opened
  <2> QED BY <1>0, <2>1 DEF GoodFlow, FlowFits, ForSomebody
<1>2. Becomes(p, pg) /\ Goes(p, k, stage, f, pg)
  BY DEF Opened, AfterOpen
<1>3. GoodPage(pg)
  BY <1>0, <1>1, AfterOpenGood
<1>4. /\ stage \in {"idle", "read device", "locks", "hash", "check locks"}
      /\ k \in {"boot", "load", "form"} /\ (k = "boot" => stage = "idle")
      /\ k = "load" => stage = "check locks"
  BY <1>0, <1>1 DEF GoodFlow, FlowFits, Flow, AfterInit, InitStage
<1> HIDE DEF pg, stage
<1>5. GoodFlow(k, Moved(stage, f, pg))
  <2>1. stage \in Stage
    BY <1>4 DEF Stage, StoreStage, OtherStage
  <2> QED BY <1>0, <1>1, <1>3, <1>4, <2>1, MovedGood DEF GoodFlow
<1>6. FlowsTyped' /\ PagesTyped'
  BY <1>2, <1>3, <1>5, FlowBecomes, PageBecomes, GoesMoves
<1>7. RestTyped'
  BY DEF Opened, TypeInv, RestTyped, localVars, serverVars, countVars
<1> QED
  BY <1>6, <1>7 DEF TypeInv

LEMMA OpenFailsType ==
    ASSUME TypeInv, NEW p \in Page, NEW k \in Flow, OpenFails(p, k) PROVE TypeInv'
<1> DEFINE v == IF page[p].promise[page[p].slot] = "pending" THEN "rejected"
                ELSE page[p].promise[page[p].slot]
           pg == [page[p] EXCEPT !.promise[page[p].slot] = v]
<1>1. GoodPage(page[p]) /\ v \in Promise
  BY PageGood, PageFields DEF Promise
<1>2. Fails(p, k, pg)
  BY DEF OpenFails
<1>3. GoodPage(pg)
  <2>1. page[p].promise[page[p].slot] = "pending" \/ v = page[p].promise[page[p].slot]
    OBVIOUS
  <2> HIDE DEF v
  <2> QED BY <1>1, <2>1, SettledGood
<1> HIDE DEF pg
<1>4. PagesTyped' /\ FlowsTyped' /\ active' \in User \cup {None}
  BY <1>2, <1>3, FailsTyped
<1>5. openFailures' \in 0 .. MaxOpenFailures
  BY LifecycleAssumption DEF OpenFails, TypeInv, RestTyped
<1>6. RestTyped'
  BY <1>4, <1>5 DEF OpenFails, TypeInv, RestTyped, serverVars
<1> QED
  BY <1>4, <1>6 DEF TypeInv

LEMMA CheckType ==
    ASSUME TypeInv, NEW p \in Page, NEW k \in {"load", "form"},
           GetMe(p, k) \/ CheckLocks(p, k)
    PROVE  TypeInv'
<1> DEFINE f == flow[p][k]  pg == page[p]
<1>0. GoodFlow(k, f) /\ GoodPage(pg) /\ k \in Flow
  BY FlowGood, PageGood DEF Flow
<1>1. CASE GetMe(p, k)
  <2>1. CASE cookie # None /\ Goes(p, k, "init checked", [f EXCEPT !.for = cookie], pg) /\ page' = page
    <3>1. cookie \in User
      BY <2>1 DEF TypeInv, RestTyped
    <3> DEFINE g == [f EXCEPT !.for = cookie]
    <3>2. g \in FlowState /\ g.for = cookie
      BY <1>0, <3>1 DEF GoodFlow, FlowState
    <3>6. Goes(p, k, "init checked", g, pg)
      BY <2>1
    <3> HIDE DEF g
    <3>3. GoodFlow(k, Moved("init checked", g, pg))
      BY <1>0, <3>1, <3>2, MovedGood DEF Stage, InitStage
    <3>4. FlowsTyped'
      <4>1. flow' = [flow EXCEPT ![p][k] = Moved("init checked", g, pg)]
        BY ONLY <3>6 DEF Goes, Moved
      <4> DEFINE h == Moved("init checked", g, pg)
      <4> HIDE DEF h
      <4> QED BY <1>0, <3>3, <4>1, FlowBecomes DEF h
    <3>5. PagesTyped'
      BY <2>1 DEF TypeInv, PagesTyped
    <3> QED BY <1>1, <3>4, <3>5 DEF GetMe, TypeInv, RestTyped, localVars, serverVars, countVars
  <2>2. CASE Goes(p, k, "idle", Idle, pg) /\ Becomes(p, SignedOut(pg))
    <3>1. FlowsTyped'
      <4>1. flow' = [flow EXCEPT ![p][k] = Idle]
        BY <2>2 DEF Goes
      <4> QED BY <1>0, <4>1, IdleGood, FlowBecomes
    <3>2. PagesTyped'
      BY <1>0, <2>2, SignedOutGood, PageBecomes
    <3> QED BY <1>1, <3>1, <3>2 DEF GetMe, TypeInv, RestTyped, localVars, serverVars, countVars
  <2> QED BY <1>1, <2>1, <2>2 DEF GetMe
<1>2. CASE CheckLocks(p, k)
  <2>1. FlowsTyped'
    <3>1. flow' = [flow EXCEPT ![p][k] = Idle]
      BY <1>2 DEF CheckLocks, Goes
    <3> QED BY <1>0, <3>1, IdleGood, FlowBecomes
  <2>2. GoodPage([pg EXCEPT !.user = f.for])
    BY <1>0 DEF GoodFlow, FlowState, GoodPage, PageState, Connected
  <2>3. PagesTyped'
    BY <1>2, <2>2, PageBecomes DEF CheckLocks
  <2> QED BY <1>2, <2>1, <2>3 DEF CheckLocks, TypeInv, RestTyped, localVars, serverVars, countVars
<1> QED
  BY <1>1, <1>2

\* A flow at an await goes on: to a later stage of the form, or of the write.
LEMMA StageType ==
    ASSUME TypeInv, NEW p \in Page, NEW k \in {"form", "write"}, NEW f \in FlowState,
           NEW stage \in Stage, Goes(p, k, stage, f, page[p]),
           stage \in ForSomebody => f.for \in User,
           k = "form" => stage \notin {"boot", "encrypt", "put"},
           k = "write" => stage \in {"idle", "encrypt", "put"}
    PROVE  FlowsTyped'
<1>1. GoodPage(page[p]) /\ k \in Flow /\ stage # "boot"
  BY PageGood DEF Flow
<1>2. GoodFlow(k, Moved(stage, f, page[p]))
  BY <1>1, MovedGood
<1> QED
  BY <1>1, <1>2, FlowBecomes, GoesMoves

LEMMA FormType ==
    ASSUME TypeInv, NEW p \in Page, FormStep(p) PROVE TypeInv'
<1> DEFINE f == flow[p]["form"]  pg == page[p]
<1>0. GoodFlow("form", f) /\ GoodPage(pg) /\ "form" \in Flow
  BY FlowGood, PageGood DEF Flow
<1>1. f \in FlowState /\ (f.stage \in ForSomebody => f.for \in User)
  BY <1>0 DEF GoodFlow, FlowFits
<1>2. {"log in", "init signed in", "locks", "write device", "init registered", "idle",
       "write first device", "get me", "wipe"} \subseteq Stage
  BY DEF Stage, InitStage, StoreStage, OtherStage
<1>3. CASE ReadDevice(p)
  <2> DEFINE d == Database(p, f.slot)
             device == IF d = None THEN None ELSE deviceMeta[d]
             g == [f EXCEPT !.device = device]
  <2>1. Goes(p, "form", "log in", g, pg) /\ f.stage = "read device"
    BY <1>3 DEF ReadDevice, AtAwait
  <2>2. device \in User \cup {None}
    <3>1. CASE d = None
      BY <3>1
    <3>2. CASE d # None
      <4>1. PICK u \in User : <<u, f.slot>> \in pg.connections
        BY <3>2 DEF Database
      <4>2. f.slot \in Nat
        BY <1>1 DEF FlowState
      <4>3. <<u, f.slot>>[1] = u /\ <<u, f.slot>>[2] = f.slot
        OBVIOUS
      <4>4. d = pg.promise[f.slot] /\ f.slot # 0
        BY <3>2, <4>2 DEF Database
      <4>5. d = u
        BY <1>0, <4>1, <4>3, <4>4 DEF GoodPage, Connected
      <4> QED BY <3>2, <4>5 DEF TypeInv, RestTyped
    <3> QED BY <3>1, <3>2
  <2> HIDE DEF device
  <2>3. g \in FlowState /\ g.for = f.for
    BY <1>1, <2>2 DEF FlowState
  <2> HIDE DEF g
  <2>4. FlowsTyped'
    BY <1>1, <1>2, <2>1, <2>3, StageType DEF ForSomebody
  <2> QED BY <1>3, <2>4 DEF ReadDevice, TypeInv, PagesTyped, RestTyped, localVars, serverVars, countVars
<1>4. CASE LogIn(p)
  <2>1. CASE /\ account[f.for] = "open" /\ cookie' = f.for
             /\ Goes(p, "form", "init signed in", [f EXCEPT !.device = f.for], pg)
             /\ UNCHANGED <<page, active>>
    <3> DEFINE g == [f EXCEPT !.device = f.for]
    <3>1. f.for \in User
      BY <1>1, <1>4 DEF LogIn, AtAwait, ForSomebody
    <3>2. g \in FlowState /\ g.for = f.for /\ Goes(p, "form", "init signed in", g, pg)
      BY <1>1, <2>1, <3>1 DEF FlowState
    <3> HIDE DEF g
    <3>3. FlowsTyped'
      BY <1>2, <3>1, <3>2, StageType
    <3> QED BY <1>4, <2>1, <3>1, <3>3 DEF LogIn, TypeInv, PagesTyped, RestTyped, countVars
  <2>2. CASE Fails(p, "form", pg) /\ cookie' = cookie
    <3>1. PagesTyped' /\ FlowsTyped' /\ active' \in User \cup {None}
      BY <1>0, <2>2, FailsTyped
    <3> QED BY <1>4, <2>2, <3>1 DEF LogIn, TypeInv, RestTyped, countVars
  <2> QED BY <1>4, <2>1, <2>2 DEF LogIn
<1>5. CASE Locks(p)
  <2>1. f.for \in User /\ Goes(p, "form", "write device", f, pg)
    BY <1>1, <1>5 DEF Locks, AtAwait, ForSomebody
  <2>2. FlowsTyped'
    BY <1>1, <1>2, <2>1, StageType
  <2> QED BY <1>5, <2>1, <2>2 DEF Locks, TypeInv, PagesTyped, RestTyped, serverVars, countVars
<1>6. CASE Register(p)
  <2>1. f.for \in User
    BY <1>1, <1>6 DEF Register, AtAwait, ForSomebody
  <2>2. FlowsTyped'
    <3>1. CASE Goes(p, "form", "init registered", [f EXCEPT !.device = f.for], pg)
      <4> DEFINE g == [f EXCEPT !.device = f.for]
      <4>1. g \in FlowState /\ g.for = f.for /\ Goes(p, "form", "init registered", g, pg)
        BY <1>1, <3>1, <2>1 DEF FlowState
      <4> HIDE DEF g
      <4> QED BY <1>2, <2>1, <4>1, StageType
    <3>2. CASE Goes(p, "form", "idle", Idle, pg)
      <4>1. flow' = [flow EXCEPT ![p]["form"] = Idle]
        BY <3>2 DEF Goes
      <4> QED BY <1>0, <4>1, IdleGood, FlowBecomes
    <3> QED BY <1>6, <3>1, <3>2 DEF Register
  <2>3. account' \in [User -> {"none", "open", "deleted"}]
    BY <1>6 DEF Register, TypeInv, RestTyped
  <2> QED BY <1>6, <2>2, <2>3 DEF Register, TypeInv, PagesTyped, RestTyped, localVars, countVars
<1>7. CASE Hash(p)
  <2>1. f.for \in User /\ Goes(p, "form", "write first device", f, pg)
    BY <1>1, <1>7 DEF Hash, AtAwait, ForSomebody
  <2>2. FlowsTyped'
    BY <1>1, <1>2, <2>1, StageType
  <2> QED BY <1>7, <2>1, <2>2 DEF Hash, TypeInv, PagesTyped, RestTyped, serverVars, countVars
<1>8. ASSUME NEW stage, NEW next \in {"get me", "idle"}, WriteDevice(p, stage, next)
      PROVE  TypeInv'
  <2> DEFINE d == Database(p, f.slot)
  <2>1. CASE /\ deviceMeta' = [deviceMeta EXCEPT ![d] = f.device]
             /\ Goes(p, "form", next, f, pg) /\ UNCHANGED <<page, active>>
    <3>1. FlowsTyped'
      BY <1>1, <1>2, <2>1, StageType DEF ForSomebody, InitStage
    <3>2. deviceMeta' \in [User -> User \cup {None}]
      BY <1>1, <2>1 DEF FlowState, TypeInv, RestTyped
    <3> QED BY <1>8, <2>1, <3>1, <3>2 DEF WriteDevice, TypeInv, PagesTyped, RestTyped, serverVars, countVars
  <2>2. CASE Fails(p, "form", pg) /\ UNCHANGED deviceMeta
    <3>1. PagesTyped' /\ FlowsTyped' /\ active' \in User \cup {None}
      BY <1>0, <2>2, FailsTyped
    <3> QED BY <1>8, <2>2, <3>1 DEF WriteDevice, TypeInv, RestTyped, serverVars, countVars
  <2> QED BY <1>8, <2>1, <2>2 DEF WriteDevice
<1>9. CASE LogOut(p)
  <2>1. GoodPage(SignedOut(Reset(pg)))
    BY <1>0, ResetGood, SignedOutGood
  <2>2. PagesTyped'
    BY <1>9, <2>1, PageBecomes DEF LogOut
  <2>3. FlowsTyped'
    <3>1. flow' = [flow EXCEPT ![p]["form"] = Idle]
      BY <1>9 DEF LogOut, Goes
    <3> QED BY <1>0, <3>1, IdleGood, FlowBecomes
  <2> QED BY <1>9, <2>2, <2>3 DEF LogOut, TypeInv, RestTyped, countVars
<1>10. CASE Delete(p)
  <2>1. FlowsTyped'
    <3>1. CASE Goes(p, "form", "wipe", [f EXCEPT !.for = pg.userId], pg)
      <4> DEFINE g == [f EXCEPT !.for = pg.userId]
      <4>1. g \in FlowState /\ Goes(p, "form", "wipe", g, pg)
        BY <1>0, <1>1, <3>1, PageFields DEF FlowState
      <4> HIDE DEF g
      <4> QED BY <1>2, <4>1, StageType DEF ForSomebody, InitStage
    <3>2. CASE Goes(p, "form", "idle", Idle, pg)
      <4>1. flow' = [flow EXCEPT ![p]["form"] = Idle]
        BY <3>2 DEF Goes
      <4> QED BY <1>0, <4>1, IdleGood, FlowBecomes
    <3> QED BY <1>10, <3>1, <3>2 DEF Delete
  <2>2. account' \in [User -> {"none", "open", "deleted"}] /\ cookie' \in User \cup {None}
    BY <1>10 DEF Delete, TypeInv, RestTyped, serverVars
  <2> QED BY <1>10, <2>1, <2>2 DEF Delete, TypeInv, PagesTyped, RestTyped, localVars, countVars
<1>11. CASE Wipe(p)
  <2> DEFINE x == [pg EXCEPT !.connections = @ \ (User \X {f.slot})]
             y == SignedOut(Reset(x))
             z == [y EXCEPT !.deleting = f.for]
  <2>1. GoodPage(x)
    BY <1>0 DEF GoodPage, PageState, Connected
  <2>2. GoodPage(y)
    <3> HIDE DEF x
    <3> QED BY <2>1, ResetGood, SignedOutGood
  <2>3. GoodPage(z)
    <3> HIDE DEF y
    <3> QED BY <1>1, <2>2 DEF GoodPage, PageState, Connected, FlowState
  <2>4. \/ Becomes(p, SignedOut(pg)) /\ UNCHANGED deviceMeta
        \/ Becomes(p, z) /\ UNCHANGED deviceMeta
        \/ Becomes(p, y) /\ deviceMeta' = [deviceMeta EXCEPT ![f.for] = None]
    BY <1>11, Zenon DEF Wipe
  <2> HIDE DEF x, y, z
  <2>5. PagesTyped'
    BY <1>0, <2>2, <2>3, <2>4, SignedOutGood, PageBecomes
  <2>6. FlowsTyped'
    <3>1. flow' = [flow EXCEPT ![p]["form"] = Idle]
      BY <1>11 DEF Wipe, Goes
    <3> QED BY <1>0, <3>1, IdleGood, FlowBecomes
  <2>7. deviceMeta' \in [User -> User \cup {None}]
    BY <2>4 DEF TypeInv, RestTyped
  <2> QED BY <1>11, <2>5, <2>6, <2>7 DEF Wipe, TypeInv, RestTyped, serverVars, countVars
<1> QED
  BY <1>3, <1>4, <1>5, <1>6, <1>7, <1>8, <1>9, <1>10, <1>11 DEF FormStep

LEMMA WriteType ==
    ASSUME TypeInv, NEW p \in Page, StartWrite(p) \/ WriteStep(p) PROVE TypeInv'
<1> DEFINE f == flow[p]["write"]  pg == page[p]
<1>0. GoodFlow("write", f) /\ GoodPage(pg) /\ "write" \in Flow
  BY FlowGood, PageGood DEF Flow
<1>1. /\ f \in FlowState /\ (f.stage \in ForSomebody => f.for \in User)
      /\ "encrypt" \in Stage /\ "put" \in Stage
  BY <1>0 DEF GoodFlow, FlowFits, Stage, StoreStage, OtherStage
<1>2. CASE StartWrite(p)
  <2> DEFINE g == [Idle EXCEPT !.for = pg.user]
  <2>1. pg.user \in User
    BY <1>0, <1>2, PageFields DEF StartWrite
  <2>2. g \in FlowState /\ g.for = pg.user /\ Goes(p, "write", "encrypt", g, pg)
    BY <1>2, <2>1 DEF StartWrite, FlowState, Idle, Stage, OtherStage
  <2> HIDE DEF g
  <2>3. FlowsTyped'
    BY <1>1, <2>1, <2>2, StageType
  <2> QED BY <1>2, <2>3 DEF StartWrite, TypeInv, PagesTyped, RestTyped, localVars, serverVars, countVars
<1>3. CASE Encrypt(p)
  <2>1. f.for \in User /\ Goes(p, "write", "put", f, pg)
    BY <1>1, <1>3 DEF Encrypt, AtAwait, ForSomebody
  <2>2. FlowsTyped'
    BY <1>1, <2>1, StageType
  <2> QED BY <1>3, <2>2 DEF Encrypt, TypeInv, PagesTyped, RestTyped, localVars, serverVars, countVars
<1>4. CASE Put(p)
  <2>1. FlowsTyped'
    <3>1. flow' = [flow EXCEPT ![p]["write"] = Idle]
      BY <1>4 DEF Put, Goes
    <3> QED BY <1>0, <3>1, IdleGood, FlowBecomes
  <2>2. landed' \subseteq User \X User
    BY <1>4 DEF Put, TypeInv, RestTyped
  <2> QED BY <1>4, <2>1, <2>2 DEF Put, TypeInv, PagesTyped, RestTyped, localVars, serverVars, countVars
<1> QED
  BY <1>2, <1>3, <1>4 DEF WriteStep

LEMMA PageType ==
    ASSUME TypeInv, NEW p \in Page, DeleteUnblocked(p) \/ Collect(p) PROVE TypeInv'
<1> DEFINE pg == page[p]
<1>0. GoodPage(pg)
  BY PageGood
<1>1. CASE DeleteUnblocked(p)
  <2>1. GoodPage([pg EXCEPT !.deleting = None])
    BY <1>0 DEF GoodPage, PageState, Connected
  <2>2. PagesTyped'
    BY <1>1, <2>1, PageBecomes DEF DeleteUnblocked
  <2>3. deviceMeta' \in [User -> User \cup {None}]
    BY <1>1 DEF DeleteUnblocked, TypeInv, RestTyped
  <2> QED BY <1>1, <2>2, <2>3 DEF DeleteUnblocked, TypeInv, FlowsTyped, RestTyped, localVars, serverVars, countVars
<1>2. CASE Collect(p)
  <2>1. PICK c \in pg.connections : Becomes(p, [pg EXCEPT !.connections = @ \ {c}])
    BY <1>2 DEF Collect
  <2>2. GoodPage([pg EXCEPT !.connections = @ \ {c}])
    BY <1>0 DEF GoodPage, PageState, Connected
  <2>3. PagesTyped'
    BY <2>1, <2>2, PageBecomes
  <2> QED BY <1>2, <2>3 DEF Collect, TypeInv, FlowsTyped, RestTyped, localVars, serverVars, countVars
<1> QED
  BY <1>1, <1>2

\* The flows of a page that is loaded.
LoadedFlow(k, u) ==
    CASE k = "boot" /\ u # None -> [Idle EXCEPT !.stage = "boot", !.at = "open", !.for = u]
      [] k = "load" -> [Idle EXCEPT !.stage = "get me"]
      [] OTHER -> Idle

LEMMA LoadedFlowGood ==
    ASSUME NEW k \in Flow, NEW u \in User \cup {None} PROVE GoodFlow(k, LoadedFlow(k, u))
<1>1. CASE k = "boot" /\ u # None
  <2>1. LoadedFlow(k, u) = [Idle EXCEPT !.stage = "boot", !.at = "open", !.for = u]
    BY <1>1 DEF LoadedFlow
  <2> DEFINE g == [Idle EXCEPT !.stage = "boot", !.at = "open", !.for = u]
  <2>2. /\ g \in FlowState /\ g.stage = "boot" /\ g.at = "open" /\ g.for = u /\ ~g.auto
    BY DEF FlowState, Idle, Stage, OtherStage
  <2> HIDE DEF g
  <2> QED BY <1>1, <2>1, <2>2 DEF GoodFlow, FlowFits, g
<1>2. CASE k = "load"
  <2>1. LoadedFlow(k, u) = [Idle EXCEPT !.stage = "get me"]
    BY <1>2 DEF LoadedFlow
  <2> DEFINE g == [Idle EXCEPT !.stage = "get me"]
  <2>2. /\ g \in FlowState /\ g.stage = "get me" /\ g.at = "await"
    BY DEF FlowState, Idle, Stage, OtherStage
  <2>3. "get me" \notin InitStage \cup {"boot"} /\ "get me" \notin ForSomebody
    BY DEF InitStage, ForSomebody
  <2> HIDE DEF g
  <2> QED BY <1>2, <2>1, <2>2, <2>3 DEF GoodFlow, FlowFits, g
<1>3. CASE ~(k = "boot" /\ u # None) /\ k # "load"
  <2>1. LoadedFlow(k, u) = Idle
    BY <1>3 DEF LoadedFlow
  <2> QED BY <2>1, IdleGood
<1> QED
  BY <1>1, <1>2, <1>3

LEMMA LoadType ==
    ASSUME TypeInv, NEW p \in Page, Load(p) PROVE TypeInv'
<1>1. active \in User \cup {None}
  BY DEF TypeInv, RestTyped
<1>2. PagesTyped'
  BY <1>1, NewPageGood, PageBecomes DEF Load
<1>3. flow' = [flow EXCEPT ![p] = [k \in Flow |-> LoadedFlow(k, active)]]
  BY DEF Load, LoadedFlow
<1>4. \A k \in Flow : LoadedFlow(k, active) \in FlowState /\ FlowFits(k, LoadedFlow(k, active))
  BY <1>1, LoadedFlowGood DEF GoodFlow
<1>5. FlowsTyped'
  BY <1>3, <1>4 DEF TypeInv, FlowsTyped
<1>6. loads' \in 0 .. MaxLoads
  <2>1. loads' = loads + 1 /\ loads < MaxLoads /\ loads \in 0 .. MaxLoads /\ MaxLoads \in Nat
    BY LifecycleAssumption DEF Load, TypeInv, RestTyped
  <2> QED BY ONLY <2>1
<1> QED
  BY <1>2, <1>5, <1>6 DEF Load, TypeInv, RestTyped, localVars, serverVars

LEMMA SendFormType ==
    ASSUME TypeInv, NEW p \in Page, SendForm(p) PROVE TypeInv'
<1> DEFINE pg == page[p]
           First(u) == IF u \in known THEN "init cached"
                       ELSE IF pg.userId # None THEN "read device" ELSE "log in"
<1>0. GoodPage(pg)
  BY PageGood
<1>1. {"init cached", "read device", "log in", "register", "log out", "delete"} \subseteq Stage
  BY DEF Stage, InitStage, StoreStage, OtherStage
<1>2. Idle \in FlowState
  BY DEF FlowState, Idle, Stage, OtherStage
<1>3. ASSUME NEW u \in User, NEW b \in BOOLEAN, NEW stage \in {"init cached", "read device", "log in", "register"},
             Goes(p, "form", stage, [Idle EXCEPT !.for = u, !.auto = b], pg)
      PROVE  FlowsTyped'
  <2> DEFINE g == [Idle EXCEPT !.for = u, !.auto = b]
  <2>1. g \in FlowState /\ g.for = u
    BY <1>2, <1>3 DEF FlowState
  <2>2. Goes(p, "form", stage, g, pg) /\ stage \in Stage
    BY <1>1, <1>3
  <2> HIDE DEF g
  <2> QED BY <1>3, <2>1, <2>2, StageType
<1>4. ASSUME NEW u \in User, Goes(p, "form", First(u), [Idle EXCEPT !.for = u, !.auto = u \in known], pg)
      PROVE  FlowsTyped'
  <2>1. (u \in known) \in BOOLEAN
    OBVIOUS
  <2>2. First(u) \in {"init cached", "read device", "log in"}
    OBVIOUS
  <2> HIDE DEF First
  <2> QED BY <1>3, <1>4, <2>1, <2>2
<1>5. ASSUME NEW u \in User, Goes(p, "form", "register", [Idle EXCEPT !.for = u], pg)
      PROVE  FlowsTyped'
  <2> DEFINE g == [Idle EXCEPT !.for = u]
  <2>1. g \in FlowState /\ g.for = u /\ Goes(p, "form", "register", g, pg)
    BY <1>2, <1>5 DEF FlowState
  <2> HIDE DEF g
  <2> QED BY <1>1, <2>1, StageType
<1>6. ASSUME NEW stage \in {"log out", "delete"}, Goes(p, "form", stage, Idle, pg)
      PROVE  FlowsTyped'
  BY <1>1, <1>2, <1>6, StageType DEF ForSomebody, InitStage
<1>7. FlowsTyped'
  BY <1>4, <1>5, <1>6 DEF SendForm
<1>8. forms' \in 0 .. MaxForms
  <2>1. forms' = forms + 1 /\ forms < MaxForms /\ forms \in 0 .. MaxForms /\ MaxForms \in Nat
    BY LifecycleAssumption DEF SendForm, TypeInv, RestTyped
  <2> QED BY ONLY <2>1
<1> QED
  BY <1>7, <1>8 DEF SendForm, TypeInv, PagesTyped, RestTyped, localVars, serverVars

LEMMA StepType == TypeInv /\ [Next]_vars => TypeInv'
<1> SUFFICES ASSUME TypeInv, [Next]_vars PROVE TypeInv'
  OBVIOUS
<1>1. ASSUME NEW p \in Page, InitStep(p) PROVE TypeInv'
  BY <1>1, CallInitType, RaceType, OpenedType DEF InitStep
<1>2. ASSUME NEW p \in Page, CheckStep(p) PROVE TypeInv'
  BY <1>2, CheckType DEF CheckStep
<1>3. ASSUME NEW p \in Page, FormStep(p) \/ StartWrite(p) \/ WriteStep(p) PROVE TypeInv'
  BY <1>3, FormType, WriteType
<1>4. ASSUME NEW p \in Page, NEW k \in Flow, OpenFails(p, k) PROVE TypeInv'
  BY <1>4, OpenFailsType
<1>5. ASSUME NEW p \in Page, DeleteUnblocked(p) \/ Collect(p) \/ Load(p) \/ SendForm(p) PROVE TypeInv'
  BY <1>5, PageType, LoadType, SendFormType
<1>6. CASE Expire
  BY <1>6 DEF Expire, TypeInv, PagesTyped, FlowsTyped, RestTyped, localVars, countVars
<1>7. CASE UNCHANGED vars
  BY <1>7 DEF vars, TypeInv, PagesTyped, FlowsTyped, RestTyped, localVars, serverVars, countVars
<1> QED
  BY <1>1, <1>2, <1>3, <1>4, <1>5, <1>6, <1>7 DEF Next

LEMMA InitType == Init => TypeInv
<1> SUFFICES ASSUME Init PROVE TypeInv
  OBVIOUS
<1>1. GoodPage(NewPage(FALSE, None))
  BY NewPageGood
<1>2. PagesTyped
  BY <1>1 DEF Init, PagesTyped, GoodPage
<1>3. \A k \in Flow : GoodFlow(k, Idle)
  BY IdleGood
<1>4. FlowsTyped
  BY <1>3 DEF Init, FlowsTyped, GoodFlow
<1>5. RestTyped
  BY LifecycleAssumption DEF Init, RestTyped
<1> QED
  BY <1>2, <1>4, <1>5 DEF TypeInv

\* Every variable keeps its type; a flow awaits only what its stage awaits, and works
\* for somebody when its stage needs it; a connection is to the database its promise
\* resolved to. No condition is needed for this.
THEOREM LifecycleTypeCorrect == Spec => []TypeOK
  BY InitType, StepType, TypeInvTypes, PTL DEF Spec

-----------------------------------------------------------------------------
(* Which database a page works on                                          *)

\* The conditions of the run: databases open within 100 ms, a signed-in user does not
\* use the login page, and forms wait for the page to load.
Conditions == ~SlowOpens /\ ~SignInTwice /\ ~Overlap

Starter == {"boot", "load", "form"}
Resting(fl, k) == fl[k].stage = "idle"
Leaving == {"idle", "log out", "delete", "wipe"}

\* The current promise: pending before an init and while its open lasts, then the
\* user of the adapter, with a connection, or rejected. One flow opens at a time, for
\* the user of the adapter; one that races, races the current promise.
Held(pg) ==
    pg.userId # None /\ pg.promise[pg.slot] = pg.userId
        => <<pg.userId, pg.slot>> \in pg.connections
Promised(pg, fl) ==
    /\ pg.userId = None => pg.promise[pg.slot] = "pending"
    /\ pg.userId # None =>
          \/ pg.promise[pg.slot] \in {pg.userId, "rejected"}
          \/ pg.promise[pg.slot] = "pending" /\ \E k \in Starter : fl[k].at = "open"
Openings(pg, fl) ==
    /\ \A k \in Flow : fl[k].at = "open" =>
          /\ pg.promise[pg.slot] = "pending" /\ pg.userId = fl[k].for
          /\ \A j \in Flow : fl[j].at = "open" => j = k
    /\ \A k \in Flow : fl[k].at = "race" => fl[k].slot = pg.slot /\ pg.userId # None

\* Forms come after the load; a signed-in page is at rest or leaving, and its adapter
\* is its user's.
InTurn(pg, fl) ==
    /\ fl["form"].stage # "idle" => Resting(fl, "boot") /\ Resting(fl, "load")
    /\ pg.user # None =>
          /\ Resting(fl, "boot") /\ Resting(fl, "load") /\ fl["form"].stage \in Leaving
          /\ pg.userId = pg.user
    /\ fl["form"].stage \in Leaving \ {"idle"} => pg.user # None

\* A sign-in carries the device id of the user it is for; once its init is over the
\* adapter is that user's, and what it awaits is the current promise.
SignedIn == {"init signed in", "locks", "write device", "init registered", "hash", "write first device"}
Initialised == {"locks", "write device", "hash", "write first device", "check locks"}
StageSound(pg, f) ==
    /\ f.stage \in SignedIn => f.device = f.for
    /\ f.stage \in Initialised => f.for = pg.userId
    /\ f.stage \in (Initialised \ {"hash"}) \cup {"wipe"} => f.slot = pg.slot
    /\ f.stage = "wipe" => f.for = pg.userId

PageSound(pg, fl) ==
    /\ Held(pg) /\ Promised(pg, fl) /\ Openings(pg, fl) /\ InTurn(pg, fl)
    /\ StageSound(pg, fl["load"]) /\ StageSound(pg, fl["form"])
PagesSound == \A p \in Page : PageSound(page[p], flow[p])

GoodFlows(fl) == \A k \in Flow : GoodFlow(k, fl[k])

\* gl is fl with k at g.
Turned(fl, gl, k, g) == \A j \in Flow : gl[j] = IF j = k THEN g ELSE fl[j]

\* The page a and the page b work on the same database.
Kin(a, b) ==
    a.userId = b.userId /\ a.slot = b.slot /\ a.promise = b.promise /\ a.connections = b.connections

LEMMA FlowNames == Flow = {"boot", "load", "form", "write"} /\ Starter \subseteq Flow
  BY DEF Flow, Starter

LEMMA IdleSound == ASSUME NEW pg PROVE StageSound(pg, Idle)
  BY DEF StageSound, Idle, SignedIn, Initialised

\* A flow goes on from one await, or call, to another.
LEMMA SoundAwait ==
    ASSUME NEW pg, NEW fl, PageSound(pg, fl), NEW q, Kin(pg, q),
           NEW k \in Flow, fl[k].at \in {"await", "call"}, NEW g, g.at \in {"await", "call"},
           NEW gl, Turned(fl, gl, k, g), InTurn(q, gl),
           k \in {"load", "form"} => StageSound(q, g)
    PROVE  PageSound(q, gl)
<1>1. /\ \A j \in Flow : gl[j].at \in {"open", "race"} => j # k /\ gl[j] = fl[j]
      /\ \A j \in Flow : fl[j].at \in {"open", "race"} => gl[j] = fl[j]
  BY DEF Turned
<1>2. Held(q)
  BY DEF PageSound, Held, Kin
<1>3. Promised(q, gl)
  <2>1. \A j \in Starter : fl[j].at = "open" => gl[j].at = "open"
    BY <1>1, FlowNames
  <2> QED BY <2>1 DEF PageSound, Promised, Kin
<1>4. Openings(q, gl)
  BY <1>1 DEF PageSound, Openings, Kin
<1>5. \A j \in {"load", "form"} : StageSound(q, gl[j])
  <2>1. ASSUME NEW j \in {"load", "form"}
        PROVE  StageSound(q, gl[j])
    <3>1. CASE j = k
      BY <3>1 DEF Turned
    <3>2. CASE j # k
      <4>1. gl[j] = fl[j] /\ StageSound(pg, fl[j])
        BY <3>2, FlowNames DEF Turned, PageSound
      <4> QED BY <4>1 DEF StageSound, Kin
    <3> QED BY <3>1, <3>2
  <2> QED BY <2>1
<1> QED
  BY <1>2, <1>3, <1>4, <1>5 DEF PageSound

\* A page whose adapter is reset, or new, with nothing under way.
LEMMA SoundReset ==
    ASSUME NEW q, q.userId = None, q.user = None, q.promise[q.slot] = "pending",
           NEW gl, \A j \in Starter : gl[j].stage = "idle" /\ gl[j].at = "await",
           gl["write"].at = "await"
    PROVE  PageSound(q, gl)
<1>1. \A j \in Flow : gl[j].at = "await"
  BY FlowNames DEF Starter
<1>2. gl["form"].stage = "idle" /\ gl["load"].stage = "idle"
  BY DEF Starter
<1>3. Held(q) /\ Promised(q, gl) /\ Openings(q, gl)
  BY <1>1 DEF Held, Promised, Openings
<1>4. InTurn(q, gl)
  BY <1>2 DEF InTurn
<1>5. StageSound(q, gl["load"]) /\ StageSound(q, gl["form"])
  BY <1>2 DEF StageSound, SignedIn, Initialised
<1> QED
  BY <1>3, <1>4, <1>5 DEF PageSound

\* The page of p and its flows are turned into q and gl, the other pages stay.
LEMMA SoundElsewhere ==
    ASSUME TypeInv, PagesSound, NEW p \in Page,
           \A o \in Page : o # p => page'[o] = page[o] /\ flow'[o] = flow[o],
           PageSound(page'[p], flow'[p])
    PROVE  PagesSound'
  BY DEF PagesSound

\* The flow k of p is g from now on.
Takes(p, k, g) == flow' = [flow EXCEPT ![p][k] = g]

LEMMA OneFlowTurns ==
    ASSUME TypeInv, NEW p \in Page, NEW k \in Flow, NEW g, Takes(p, k, g)
    PROVE  /\ Turned(flow[p], flow'[p], k, g)
           /\ \A o \in Page : o # p => flow'[o] = flow[o]
  BY DEF Turned, Takes, TypeInv, FlowsTyped

LEMMA OnePageBecomes ==
    ASSUME TypeInv, NEW p \in Page, NEW pg, Becomes(p, pg)
    PROVE  page'[p] = pg /\ \A o \in Page : o # p => page'[o] = page[o]
  BY DEF Becomes, TypeInv, PagesTyped

\* A flow of a page that is in its init, or past the rest: nobody else is.
LEMMA AtWork ==
    ASSUME NEW pg, NEW fl, GoodFlows(fl), InTurn(pg, fl), NEW k \in {"load", "form"},
           fl[k].stage \notin Leaving
    PROVE  /\ pg.user = None
           /\ \A j \in {"load", "form"} : j # k => fl[j].stage = "idle"
           /\ k = "form" => fl["boot"].stage = "idle"
  BY DEF InTurn, Resting, Leaving

LEMMA FlowAt ==
    ASSUME NEW fl, GoodFlows(fl), NEW k \in Flow
    PROVE  /\ fl[k].stage = "idle" => fl[k].at = "await"
           /\ fl[k].at = "await" \/ fl[k].at \in {"call", "race", "open"}
           /\ fl["write"].at = "await"
           /\ fl["boot"].at \in {"await", "open"}
           /\ fl[k].at \in {"call", "race"} => k \in {"load", "form"} /\ fl[k].stage \in InitStage
           /\ fl[k].at = "open" => fl[k].for \in User /\ k \in Starter
<1>1. "idle" \notin InitStage \cup {"boot"} /\ "encrypt" \notin InitStage /\ "put" \notin InitStage
      /\ "boot" \notin InitStage
  BY DEF InitStage
<1>2. \A j \in Flow : FlowFits(j, fl[j]) /\ fl[j].at \in {"call", "race", "open", "await"}
  BY DEF GoodFlows, GoodFlow, FlowState
<1>3. InitStage \cup {"boot"} \subseteq ForSomebody
  BY DEF ForSomebody
<1> QED
  BY <1>1, <1>2, <1>3, FlowNames DEF FlowFits, Starter

\* What is known of the page p and its flows.
LEMMA PageFacts ==
    ASSUME TypeInv, PagesSound, NEW p \in Page
    PROVE  /\ GoodPage(page[p]) /\ GoodFlows(flow[p]) /\ PageSound(page[p], flow[p])
           /\ InTurn(page[p], flow[p])
  BY PageGood, FlowGood DEF GoodFlows, PagesSound, PageSound

\* A load or a form at work goes on, or ends, and leaves the adapter alone.
LEMMA WorkStep ==
    ASSUME TypeInv, PagesSound, NEW p \in Page, NEW k \in {"load", "form"},
           flow[p][k].stage \notin Leaving, flow[p][k].at \in {"await", "call"},
           NEW g, g.at \in {"await", "call"}, g.stage \notin Leaving \ {"idle"},
           StageSound(page[p], g), Takes(p, k, g),
           page' = page \/ Becomes(p, SignedOut(page[p]))
    PROVE  PagesSound'
<1> DEFINE fl == flow[p]  gl == flow'[p]  pg == page[p]
<1>1. GoodPage(pg) /\ GoodFlows(fl) /\ PageSound(pg, fl) /\ InTurn(pg, fl) /\ k \in Flow
  BY PageFacts, FlowNames
<1>2. Turned(fl, gl, k, g) /\ \A o \in Page : o # p => flow'[o] = flow[o]
  BY <1>1, OneFlowTurns
<1>3. PICK q : /\ Kin(pg, q) /\ q.user = None
               /\ page'[p] = q /\ \A o \in Page : o # p => page'[o] = page[o]
  <2>1. pg.user = None
    BY <1>1, AtWork
  <2>2. CASE page' = page
    BY <2>1, <2>2 DEF Kin
  <2>3. CASE Becomes(p, SignedOut(pg))
    BY <1>1, <2>3, OnePageBecomes, SignedOutGood DEF Kin
  <2> QED BY <2>2, <2>3
<1>4. InTurn(q, gl)
  <2>1. /\ \A j \in {"load", "form"} : j # k => fl[j].stage = "idle"
        /\ k = "form" => fl["boot"].stage = "idle"
    BY <1>1, AtWork
  <2>2. gl["form"].stage = IF k = "form" THEN g.stage ELSE "idle"
    BY <1>2, <2>1, FlowNames DEF Turned
  <2>3. k = "form" => gl["boot"].stage = "idle" /\ gl["load"].stage = "idle"
    BY <1>2, <2>1, FlowNames DEF Turned
  <2> QED BY <1>3, <2>2, <2>3 DEF InTurn, Resting
<1>5. StageSound(q, g)
  BY <1>3 DEF StageSound, Kin
<1> HIDE DEF fl, gl, pg
<1>6. PageSound(q, gl)
  BY <1>1, <1>2, <1>3, <1>4, <1>5, SoundAwait DEF fl
<1> QED
  BY <1>2, <1>3, <1>6, SoundElsewhere DEF gl

\* What Goes makes of a flow that does not end.
IsMoved(g, stage, f, pg) ==
    /\ g.stage = stage /\ g.for = f.for /\ g.device = f.device
    /\ g.at \in {"await", "call"} /\ (stage \notin InitStage => g.at = "await")
    /\ pg.userId # None \/ stage \in {"write device", "write first device", "put"}
          => g.slot = pg.slot

LEMMA MovedFields ==
    ASSUME NEW stage, stage # "idle", NEW f \in FlowState, NEW pg, GoodPage(pg)
    PROVE  IsMoved(Moved(stage, f, pg), stage, f, pg)
<1> DEFINE at == IF stage \in InitStage THEN "call" ELSE "await"
           slot == IF pg.userId = None /\ stage \notin {"write device", "write first device", "put"}
                   THEN 0 ELSE pg.slot
<1>1. Moved(stage, f, pg) = [f EXCEPT !.stage = stage, !.at = at, !.slot = slot]
  BY DEF Moved
<1>2. at \in {"await", "call"} /\ (stage \notin InitStage => at = "await")
  OBVIOUS
<1>3. pg.userId # None \/ stage \in {"write device", "write first device", "put"} => slot = pg.slot
  OBVIOUS
<1> HIDE DEF at, slot
<1>4. /\ Moved(stage, f, pg).stage = stage /\ Moved(stage, f, pg).at = at
      /\ Moved(stage, f, pg).for = f.for /\ Moved(stage, f, pg).device = f.device
      /\ Moved(stage, f, pg).slot = slot
  BY <1>1 DEF FlowState
<1> QED
  BY <1>2, <1>3, <1>4 DEF IsMoved

\* The same, by Goes to a stage at which nothing, or what is asked for, is claimed.
LEMMA WorkGoes ==
    ASSUME TypeInv, PagesSound, NEW p \in Page, NEW k \in {"load", "form"},
           flow[p][k].stage \notin Leaving, flow[p][k].at \in {"await", "call"},
           NEW stage, stage \notin Leaving, NEW f \in FlowState,
           Goes(p, k, stage, f, page[p]), page' = page,
           stage \in SignedIn => f.device = f.for,
           stage \in Initialised => f.for = page[p].userId /\ f.for \in User
    PROVE  PagesSound'
<1>1. GoodPage(page[p]) /\ stage # "idle" /\ stage # "wipe"
  BY PageFacts DEF Leaving
<1>2. PICK pg : pg = page[p]
  OBVIOUS
<1> DEFINE g == Moved(stage, f, pg)
<1>3. GoodPage(pg)
  BY <1>1, <1>2
<1>4. Takes(p, k, g)
  BY <1>2, GoesMoves DEF Takes
<1>5. IsMoved(g, stage, f, pg)
  BY <1>1, <1>3, MovedFields
<1> HIDE DEF g
<1>6. /\ g.stage = stage /\ g.for = f.for /\ g.device = f.device
      /\ pg.userId # None => g.slot = pg.slot
      /\ g.at \in {"await", "call"}
  BY <1>5 DEF IsMoved
<1>7. g.at \in {"await", "call"} /\ g.stage \notin Leaving \ {"idle"}
  BY <1>6
<1>8. StageSound(page[p], g)
  BY <1>1, <1>2, <1>6, LifecycleAssumption DEF StageSound
<1> QED
  BY <1>4, <1>7, <1>8, WorkStep

\* An init fails before it opens, or a request or a write does.
LEMMA WorkFails ==
    ASSUME TypeInv, PagesSound, NEW p \in Page,
           flow[p]["form"].stage \notin Leaving, flow[p]["form"].at = "await",
           Fails(p, "form", page[p])
    PROVE  PagesSound'
<1> DEFINE fl == flow[p]  gl == flow'[p]  pg == page[p]
<1>1. GoodPage(pg) /\ GoodFlows(fl) /\ PageSound(pg, fl) /\ InTurn(pg, fl)
  BY PageFacts
<1>2. Takes(p, "form", Idle)
  BY DEF Fails, Takes
<1>3. CASE page' = page \/ Becomes(p, SignedOut(pg))
  <2>1. Idle.at = "await" /\ Idle.stage = "idle"
    BY DEF Idle
  <2>2. Idle.at \in {"await", "call"} /\ Idle.stage \notin Leaving \ {"idle"}
    BY <2>1
  <2>3. StageSound(pg, Idle)
    BY IdleSound
  <2> QED BY <1>2, <1>3, <2>2, <2>3, WorkStep
<1>4. CASE Becomes(p, Reset(pg))
  <2>1. Turned(fl, gl, "form", Idle) /\ \A o \in Page : o # p => flow'[o] = flow[o]
    BY <1>2, OneFlowTurns, FlowNames
  <2>2. pg.user = None /\ fl["load"].stage = "idle" /\ fl["boot"].stage = "idle"
    BY <1>1, AtWork
  <2>3. \A j \in Starter : gl[j].stage = "idle" /\ gl[j].at = "await"
    BY <1>1, <2>1, <2>2, FlowNames, FlowAt DEF Turned, Idle, Starter
  <2>4. gl["write"].at = "await"
    BY <1>1, <2>1, FlowNames, FlowAt DEF Turned
  <2>5. /\ page'[p] = Reset(pg) /\ \A o \in Page : o # p => page'[o] = page[o]
    BY <1>4, OnePageBecomes
  <2>6. /\ Reset(pg).userId = None /\ Reset(pg).user = None
        /\ Reset(pg).promise[Reset(pg).slot] = "pending"
    BY <1>1, <2>2, ResetGood
  <2> HIDE DEF fl, gl, pg
  <2>7. PageSound(Reset(pg), gl)
    BY <2>3, <2>4, <2>6, SoundReset
  <2> QED BY <2>1, <2>5, <2>7, SoundElsewhere DEF gl
<1>5. Becomes(p, pg) => page' = page
  BY DEF Becomes, TypeInv, PagesTyped
<1> QED
  BY <1>3, <1>4, <1>5, Zenon DEF Fails

LEMMA EndedSound ==
    ASSUME TypeInv, PagesSound, NEW p \in Page, NEW k \in {"load", "form"},
           flow[p][k].stage \notin Leaving, flow[p][k].at \in {"await", "call"},
           Goes(p, k, "idle", Idle, page[p]),
           page' = page \/ Becomes(p, SignedOut(page[p]))
    PROVE  PagesSound'
<1>1. Takes(p, k, Idle)
  BY DEF Goes, Takes
<1>2. Idle.at = "await" /\ Idle.stage = "idle"
  BY DEF Idle
<1>3. Idle.at \in {"await", "call"} /\ Idle.stage \notin Leaving \ {"idle"}
  BY <1>2
<1>4. StageSound(page[p], Idle)
  BY IdleSound
<1> QED
  BY <1>1, <1>3, <1>4, WorkStep

LEMMA CheckSound ==
    ASSUME TypeInv, PagesSound, NEW p \in Page, NEW k \in {"load", "form"}, GetMe(p, k)
    PROVE  PagesSound'
<1>1. /\ flow[p][k].stage \notin Leaving /\ flow[p][k].at \in {"await", "call"}
      /\ flow[p][k] \in FlowState
  <2>1. k \in Flow
    BY FlowNames
  <2> QED BY <2>1, FlowGood DEF GetMe, AtAwait, Leaving, GoodFlow
<1>2. CASE /\ cookie # None
           /\ Goes(p, k, "init checked", [flow[p][k] EXCEPT !.for = cookie], page[p])
           /\ page' = page
  <2> DEFINE f == [flow[p][k] EXCEPT !.for = cookie]
  <2>1. f \in FlowState
    BY <1>1, <1>2 DEF FlowState, TypeInv, RestTyped
  <2>2. Goes(p, k, "init checked", f, page[p]) /\ page' = page
    BY <1>2
  <2>3. "init checked" \notin Leaving /\ "init checked" \notin SignedIn /\ "init checked" \notin Initialised
    BY DEF Leaving, SignedIn, Initialised
  <2> HIDE DEF f
  <2> QED BY <1>1, <2>1, <2>2, <2>3, WorkGoes
<1>3. CASE Goes(p, k, "idle", Idle, page[p]) /\ Becomes(p, SignedOut(page[p]))
  BY <1>1, <1>3, EndedSound
<1> QED
  BY <1>2, <1>3 DEF GetMe

\* The steps of a form at an await that stay on the page's database.
LEMMA FormSound ==
    ASSUME TypeInv, PagesSound, NEW p \in Page,
           \/ ReadDevice(p) \/ LogIn(p) \/ Locks(p) \/ Register(p) \/ Hash(p)
           \/ WriteDevice(p, "write device", "get me") \/ WriteDevice(p, "write first device", "idle")
    PROVE  PagesSound'
<1> DEFINE f == flow[p]["form"]  pg == page[p]
<1>0. f.stage \in {"read device", "log in", "locks", "register", "hash", "write device", "write first device"}
  BY DEF ReadDevice, LogIn, Locks, Register, Hash, WriteDevice, AtAwait
<1>1. /\ f.stage \notin Leaving /\ f.at = "await" /\ f.at \in {"await", "call"}
      /\ f \in FlowState /\ f.for \in User
  <2>1. f.stage \notin Leaving /\ f.stage \in ForSomebody
    BY <1>0 DEF Leaving, ForSomebody
  <2>2. f.at = "await"
    BY DEF ReadDevice, LogIn, Locks, Register, Hash, WriteDevice, AtAwait
  <2>3. GoodFlow("form", f)
    BY FlowGood, FlowNames
  <2> QED BY <2>1, <2>2, <2>3 DEF GoodFlow, FlowFits
<1>2. StageSound(pg, f)
  BY DEF PagesSound, PageSound
<1>3. CASE Fails(p, "form", pg)
  BY <1>1, <1>3, WorkFails
<1>4. ASSUME Goes(p, "form", "idle", Idle, pg), page' = page
      PROVE  PagesSound'
  BY <1>1, <1>4, EndedSound
<1>5. ASSUME NEW stage, stage \notin Leaving, NEW g \in FlowState,
             Goes(p, "form", stage, g, pg), page' = page,
             stage \in SignedIn => g.device = g.for,
             stage \in Initialised => g.for = pg.userId /\ g.for \in User
      PROVE  PagesSound'
  BY <1>1, <1>5, WorkGoes
<1>6. CASE ReadDevice(p)
  <2> DEFINE d == Database(p, f.slot)
             device == IF d = None THEN None ELSE deviceMeta[d]
             g == [f EXCEPT !.device = device]
  <2>1. Goes(p, "form", "log in", g, pg) /\ page' = page
    BY <1>6 DEF ReadDevice
  <2>2. g \in FlowState
    <3>1. GoodFlow("form", flow'[p]["form"])
      <4>1. TypeInv'
        BY <1>6, FormType DEF FormStep
      <4> QED BY <4>1, FlowNames DEF TypeInv, FlowsTyped, GoodFlow
    <3>2. flow'[p]["form"].device = device
      <4>1. flow'[p]["form"] = Moved("log in", g, pg)
        BY <2>1, FlowNames DEF Goes, Moved, TypeInv, FlowsTyped
      <4> HIDE DEF device
      <4> QED BY <1>1, <4>1 DEF Moved, FlowState
    <3>3. device \in User \cup {None}
      BY <3>1, <3>2, FlowFields
    <3> HIDE DEF device
    <3> QED BY <1>1, <3>3 DEF FlowState
  <2>3. "log in" \notin Leaving /\ "log in" \notin SignedIn /\ "log in" \notin Initialised
    BY DEF Leaving, SignedIn, Initialised
  <2> HIDE DEF g
  <2> QED BY <1>5, <2>1, <2>2, <2>3
<1>7. ASSUME NEW stage \in {"init signed in", "init registered"},
             Goes(p, "form", stage, [f EXCEPT !.device = f.for], pg), page' = page
      PROVE  PagesSound'
  <2> DEFINE g == [f EXCEPT !.device = f.for]
  <2>1. g \in FlowState /\ g.device = g.for
    BY <1>1 DEF FlowState
  <2>2. Goes(p, "form", stage, g, pg) /\ page' = page
    BY <1>7
  <2>3. stage \notin Leaving /\ stage \notin Initialised
    BY DEF Leaving, Initialised
  <2> HIDE DEF g
  <2> QED BY <1>5, <2>1, <2>2, <2>3
<1>8. CASE LogIn(p)
  BY <1>3, <1>7, <1>8 DEF LogIn
<1>9. CASE Register(p)
  BY <1>4, <1>7, <1>9 DEF Register
<1>10. ASSUME NEW stage \in {"write device", "write first device", "get me"},
              f.stage \in {"locks", "hash", "write device"},
              Goes(p, "form", stage, f, pg), page' = page
       PROVE  PagesSound'
  <2>1. f.device = f.for /\ f.for = pg.userId
    BY <1>2, <1>10 DEF StageSound, SignedIn, Initialised
  <2>2. stage \notin Leaving
    BY <1>10 DEF Leaving
  <2> QED BY <1>1, <1>5, <1>10, <2>1, <2>2
<1>11. CASE Locks(p)
  BY <1>10, <1>11 DEF Locks, AtAwait
<1>12. CASE Hash(p)
  BY <1>10, <1>12 DEF Hash, AtAwait
<1>13. CASE WriteDevice(p, "write device", "get me")
  BY <1>3, <1>10, <1>13 DEF WriteDevice, AtAwait
<1>14. CASE WriteDevice(p, "write first device", "idle")
  <2>1. CASE Goes(p, "form", "idle", f, pg) /\ page' = page
    <3>1. Goes(p, "form", "idle", Idle, pg)
      BY <2>1 DEF Goes
    <3> QED BY <1>4, <2>1, <3>1
  <2> QED BY <1>3, <1>14, <2>1 DEF WriteDevice
<1> QED
  BY <1>6, <1>8, <1>9, <1>11, <1>12, <1>13, <1>14

LEMMA CallInitSound ==
    ASSUME TypeInv, PagesSound, NEW p \in Page, NEW k \in Flow, CallInit(p, k)
    PROVE  PagesSound'
<1> DEFINE fl == flow[p]  gl == flow'[p]  pg == page[p]  f == fl[k]
<1>0. GoodPage(pg) /\ GoodFlows(fl) /\ PageSound(pg, fl) /\ InTurn(pg, fl)
  BY PageFacts
<1>1. /\ k \in {"load", "form"} /\ f.stage \in InitStage /\ f.at = "call"
      /\ f.stage \notin Leaving /\ f \in FlowState /\ f.for \in User
  <2>1. k \in {"load", "form"} /\ f.stage \in InitStage /\ f.at = "call"
    BY <1>0, FlowAt DEF CallInit
  <2>2. f.stage \notin Leaving /\ f.stage \in ForSomebody
    BY <2>1 DEF InitStage, Leaving, ForSomebody
  <2> QED BY <1>0, <2>1, <2>2 DEF GoodFlows, GoodFlow, FlowFits
<1>2. /\ \A j \in {"load", "form"} : j # k => fl[j].stage = "idle" /\ fl[j].at = "await"
      /\ k = "form" => fl["boot"].stage = "idle" /\ fl["boot"].at = "await"
      /\ pg.user = None /\ fl["write"].at = "await" /\ fl["boot"].at \in {"await", "open"}
  <2>1. /\ \A j \in {"load", "form"} : j # k => fl[j].stage = "idle"
        /\ k = "form" => fl["boot"].stage = "idle"
        /\ pg.user = None
    BY <1>0, <1>1, AtWork
  <2> QED BY <1>0, <2>1, FlowAt, FlowNames
<1>3. StageSound(pg, f)
  BY <1>0, <1>1 DEF PageSound
<1>4. CASE pg.userId = f.for /\ Goes(p, k, AfterInit(f.stage), f, pg) /\ UNCHANGED <<page, active>>
  <2>1. /\ AfterInit(f.stage) \notin Leaving
        /\ AfterInit(f.stage) \in SignedIn => f.device = f.for
    BY <1>1, <1>3 DEF AfterInit, InitStage, Leaving, StageSound, SignedIn
  <2>2. page' = page
    BY <1>4
  <2> QED BY <1>1, <1>4, <2>1, <2>2, WorkGoes
<1>5. CASE /\ pg.userId \notin {f.for, None}
           /\ flow' = [flow EXCEPT ![p][k].at = "race", ![p][k].slot = pg.slot]
           /\ UNCHANGED <<page, active>>
  <2> DEFINE g == [f EXCEPT !.at = "race", !.slot = pg.slot]
  <2>1. Takes(p, k, g)
    BY <1>5 DEF TypeInv, FlowsTyped, Takes
  <2>2. /\ g.at = "race" /\ g.slot = pg.slot /\ g.stage = f.stage /\ g.for = f.for
        /\ g.device = f.device
    BY <1>1 DEF FlowState
  <2> HIDE DEF g
  <2>3. Turned(fl, gl, k, g) /\ \A o \in Page : o # p => flow'[o] = flow[o]
    BY <2>1, OneFlowTurns
  <2>4. /\ gl[k] = g /\ \A j \in Flow : j # k => gl[j] = fl[j]
        /\ \A j \in Flow : gl[j].at = "open" <=> fl[j].at = "open"
        /\ \A j \in Flow : gl[j].stage = fl[j].stage
    BY <1>1, <2>2, <2>3 DEF Turned
  <2>5. Promised(pg, gl)
    BY <1>0, <2>4, FlowNames DEF PageSound, Promised
  <2>6. Openings(pg, gl)
    BY <1>0, <1>5, <2>2, <2>4 DEF PageSound, Openings
  <2>7. InTurn(pg, gl)
    BY <1>0, <2>4, FlowNames DEF InTurn, Resting
  <2>8. StageSound(pg, gl["load"]) /\ StageSound(pg, gl["form"])
    <3>1. StageSound(pg, g)
      BY <1>1, <1>3, <2>2 DEF StageSound, InitStage, Initialised
    <3> QED BY <1>0, <2>4, <3>1, FlowNames DEF PageSound
  <2>9. PageSound(pg, gl)
    BY <1>0, <2>5, <2>6, <2>7, <2>8 DEF PageSound
  <2> QED BY <1>5, <2>3, <2>9, SoundElsewhere
<1>6. CASE /\ pg.userId = None /\ flow' = [flow EXCEPT ![p][k].at = "open"]
           /\ Becomes(p, [pg EXCEPT !.userId = f.for])
  <2> DEFINE g == [f EXCEPT !.at = "open"]
             q == [pg EXCEPT !.userId = f.for]
  <2>1. Takes(p, k, g)
    BY <1>6 DEF TypeInv, FlowsTyped, Takes
  <2>2. /\ g.at = "open" /\ g.stage = f.stage /\ g.for = f.for
        /\ g.device = f.device
    BY <1>1 DEF FlowState
  <2>3. /\ q.userId = f.for /\ q.user = None /\ q.slot = pg.slot /\ q.promise = pg.promise
    BY <1>0, <1>2 DEF GoodPage, PageState
  <2>4. page'[p] = q /\ \A o \in Page : o # p => page'[o] = page[o]
    BY <1>6, OnePageBecomes
  <2> HIDE DEF g, q
  <2>5. Turned(fl, gl, k, g) /\ \A o \in Page : o # p => flow'[o] = flow[o]
    BY <2>1, OneFlowTurns
  <2>6. pg.promise[pg.slot] = "pending" /\ \A j \in Flow : fl[j].at \notin {"open", "race"}
    <3>1. \A j \in Flow : fl[j].at = "open" => fl[j].for \in User
      BY <1>0, FlowAt
    <3> QED BY <1>0, <1>6, <3>1, LifecycleAssumption DEF PageSound, Promised, Openings
  <2>7. /\ gl[k] = g /\ \A j \in Flow : j # k => gl[j] = fl[j]
        /\ \A j \in Flow : gl[j].at = "open" <=> j = k
        /\ \A j \in Flow : gl[j].at # "race"
        /\ \A j \in Flow : gl[j].stage = fl[j].stage
    BY <1>1, <2>2, <2>5, <2>6 DEF Turned
  <2>8. Held(q) /\ Promised(q, gl) /\ Openings(q, gl)
    <3>1. f.for \notin {"pending", None}
      BY <1>1, LifecycleAssumption
    <3>2. k \in Starter
      BY <1>1 DEF Starter
    <3> QED BY <2>2, <2>3, <2>6, <2>7, <3>1, <3>2 DEF Held, Promised, Openings
  <2>9. InTurn(q, gl)
    BY <1>0, <1>2, <2>3, <2>7, FlowNames DEF InTurn, Resting
  <2>10. StageSound(q, gl["load"]) /\ StageSound(q, gl["form"])
    <3>1. StageSound(q, g)
      BY <1>1, <1>3, <2>2 DEF StageSound, InitStage, Initialised
    <3>2. \A j \in {"load", "form"} : j # k => StageSound(q, gl[j])
      BY <1>2, <2>7, FlowNames DEF StageSound, SignedIn, Initialised
    <3> QED BY <1>1, <2>7, <3>1, <3>2
  <2>11. PageSound(q, gl)
    BY <2>8, <2>9, <2>10 DEF PageSound
  <2> QED BY <2>4, <2>5, <2>11, SoundElsewhere
<1> QED
  BY <1>4, <1>5, <1>6 DEF CallInit

LEMMA RaceSound ==
    ASSUME TypeInv, PagesSound, ~SlowOpens, NEW p \in Page, NEW k \in Flow, Race(p, k)
    PROVE  PagesSound'
<1> DEFINE fl == flow[p]  gl == flow'[p]  pg == page[p]  f == fl[k]
           fresh == NewPromise(pg)
           q == [fresh EXCEPT !.userId = f.for, !.connections = @ \ (User \X {f.slot})]
           g == [f EXCEPT !.at = "open"]
<1>0. GoodPage(pg) /\ GoodFlows(fl) /\ PageSound(pg, fl) /\ InTurn(pg, fl)
  BY PageFacts
<1>1. /\ k \in {"load", "form"} /\ f.stage \in InitStage /\ f.at = "race"
      /\ f.stage \notin Leaving /\ f \in FlowState /\ f.for \in User
  <2>1. k \in {"load", "form"} /\ f.stage \in InitStage /\ f.at = "race"
    BY <1>0, FlowAt DEF Race
  <2>2. f.stage \notin Leaving /\ f.stage \in ForSomebody
    BY <2>1 DEF InitStage, Leaving, ForSomebody
  <2> QED BY <1>0, <2>1, <2>2 DEF GoodFlows, GoodFlow, FlowFits
<1>2. /\ \A j \in {"load", "form"} : j # k => fl[j].stage = "idle" /\ fl[j].at = "await"
      /\ pg.user = None /\ fl["write"].at = "await" /\ fl["boot"].at \in {"await", "open"}
  <2>1. /\ \A j \in {"load", "form"} : j # k => fl[j].stage = "idle"
        /\ pg.user = None
    BY <1>0, <1>1, AtWork
  <2> QED BY <1>0, <2>1, FlowAt, FlowNames
<1>3. StageSound(pg, f)
  BY <1>0, <1>1 DEF PageSound
<1>4. f.slot = pg.slot /\ pg.promise[pg.slot] # "pending"
  <2>1. f.slot = pg.slot
    BY <1>0, <1>1 DEF PageSound, Openings
  <2>2. f.slot \notin Pending(pg)
    BY DEF Race
  <2> QED BY <1>0, <2>1, <2>2, PageFields DEF Pending
<1>5. \A j \in Flow : j # k => fl[j].at = "await"
  <2>1. fl["boot"].at # "open"
    BY <1>0, <1>4, FlowNames DEF PageSound, Openings
  <2> QED BY <1>1, <1>2, <2>1, FlowNames
<1>6. /\ Takes(p, k, g) /\ page'[p] = q
      /\ \A o \in Page : o # p => page'[o] = page[o]
  <2>1. Takes(p, k, g) /\ Becomes(p, q)
    BY DEF Race, TypeInv, FlowsTyped, Takes
  <2> HIDE DEF q
  <2> QED BY <2>1, OnePageBecomes
<1>7. /\ g.at = "open" /\ g.stage = f.stage /\ g.for = f.for /\ g.device = f.device
  BY <1>1 DEF FlowState
<1>8. /\ q.userId = f.for /\ q.user = None /\ q.promise[q.slot] = "pending"
  <2>1. GoodPage(fresh) /\ fresh.user = None /\ fresh.promise[fresh.slot] = "pending"
    BY <1>0, <1>2, NewPromiseGood
  <2> HIDE DEF fresh
  <2> QED BY <2>1 DEF GoodPage, PageState
<1> HIDE DEF g, q
<1>9. Turned(fl, gl, k, g) /\ \A o \in Page : o # p => flow'[o] = flow[o]
  BY <1>6, OneFlowTurns
<1>10. /\ gl[k] = g /\ \A j \in Flow : j # k => gl[j] = fl[j]
       /\ \A j \in Flow : gl[j].at = "open" <=> j = k
       /\ \A j \in Flow : gl[j].at # "race"
       /\ \A j \in Flow : gl[j].stage = fl[j].stage
  BY <1>1, <1>5, <1>7, <1>9 DEF Turned
<1>11. Held(q) /\ Promised(q, gl) /\ Openings(q, gl)
  <2>1. f.for \notin {"pending", None}
    BY <1>1, LifecycleAssumption
  <2>2. k \in Starter
    BY <1>1 DEF Starter
  <2> QED BY <1>7, <1>8, <1>10, <2>1, <2>2 DEF Held, Promised, Openings
<1>12. InTurn(q, gl)
  BY <1>0, <1>2, <1>8, <1>10, FlowNames DEF InTurn, Resting
<1>13. StageSound(q, gl["load"]) /\ StageSound(q, gl["form"])
  <2>1. StageSound(q, g)
    BY <1>1, <1>3, <1>7 DEF StageSound, InitStage, Initialised
  <2>2. \A j \in {"load", "form"} : j # k => StageSound(q, gl[j])
    BY <1>2, <1>10, FlowNames DEF StageSound, SignedIn, Initialised
  <2> QED BY <1>1, <1>10, <2>1, <2>2
<1>14. PageSound(q, gl)
  BY <1>11, <1>12, <1>13 DEF PageSound
<1> QED
  BY <1>6, <1>9, <1>14, SoundElsewhere

LEMMA OpenedSound ==
    ASSUME TypeInv, PagesSound, NEW p \in Page, NEW k \in Flow, Opened(p, k)
    PROVE  PagesSound'
<1> DEFINE fl == flow[p]  gl == flow'[p]  pg == page[p]  f == fl[k]
           x == [pg EXCEPT !.promise[pg.slot] = f.for]
           q == AfterOpen(pg, f.for)
           stage == IF k = "boot" THEN "idle" ELSE AfterInit(f.stage)
           g == Moved(stage, f, q)
<1>0. GoodPage(pg) /\ GoodFlows(fl) /\ PageSound(pg, fl) /\ InTurn(pg, fl)
  BY PageFacts
<1>1. /\ k \in Starter /\ f.at = "open" /\ f \in FlowState /\ f.for \in User
      /\ k # "boot" => f.stage \in InitStage
      /\ f.stage \notin Leaving
  <2>1. k \in Starter /\ f.at = "open" /\ f.for \in User
    BY <1>0, FlowAt DEF Opened
  <2>2. f \in FlowState /\ f.stage \in InitStage \cup {"boot"} /\ (k # "boot" => f.stage # "boot")
    BY <1>0, <2>1 DEF GoodFlows, GoodFlow, FlowFits, Starter
  <2> QED BY <2>1, <2>2 DEF InitStage, Leaving
<1>2. pg.promise[pg.slot] = "pending" /\ pg.userId = f.for
  BY <1>0, <1>1 DEF PageSound, Openings
<1>3. pg.user = None
  <2>1. f.stage # "idle"
    BY <1>1 DEF Leaving
  <2> QED BY <1>0, <1>1, <2>1 DEF InTurn, Resting, Starter
<1>4. /\ q.userId = f.for /\ q.user = None /\ q.slot = pg.slot
      /\ q.promise[q.slot] = f.for /\ <<f.for, q.slot>> \in q.connections
  <2>1. q = [x EXCEPT !.connections = @ \cup {<<f.for, pg.slot>>}]
    BY <1>2 DEF AfterOpen
  <2>2. GoodPage(x)
    <3>1. f.for \in Promise
      BY <1>1 DEF Promise
    <3> QED BY <1>0, <1>2, <3>1, SettledGood
  <2>3. x.userId = f.for /\ x.user = None /\ x.slot = pg.slot /\ x.promise[pg.slot] = f.for
    BY <1>0, <1>2, <1>3, PageFields DEF GoodPage, PageState
  <2> HIDE DEF x, q
  <2> QED BY <2>1, <2>2, <2>3 DEF GoodPage, PageState
<1>5. GoodPage(q)
  BY <1>0, <1>1, AfterOpenGood
<1>6. /\ Takes(p, k, g) /\ page'[p] = q
      /\ \A o \in Page : o # p => page'[o] = page[o]
  <2>1. Becomes(p, q) /\ Goes(p, k, stage, f, q)
    BY DEF Opened, AfterOpen
  <2> HIDE DEF q, stage
  <2> QED BY <2>1, OnePageBecomes, GoesMoves DEF Takes
<1>7. StageSound(q, g) /\ g.at = "await" /\ (k = "boot" => g.stage = "idle")
      /\ g.stage \notin Leaving \ {"idle"}
  <2>1. CASE k = "boot"
    <3>1. g = Idle
      BY <2>1 DEF Moved
    <3>2. Idle.at = "await" /\ Idle.stage = "idle"
      BY DEF Idle
    <3> HIDE DEF q, g
    <3> QED BY <3>1, <3>2, IdleSound
  <2>2. CASE k # "boot"
    <3>1. /\ stage \in {"read device", "locks", "hash", "check locks"}
          /\ stage \notin InitStage /\ stage # "idle" /\ stage \notin Leaving
          /\ stage \in SignedIn => f.stage \in SignedIn
          /\ stage # "wipe"
      BY <1>1, <2>2 DEF AfterInit, InitStage, Leaving, SignedIn
    <3>2. StageSound(pg, f)
      BY <1>0, <1>1, <2>2 DEF PageSound, Starter
    <3> HIDE DEF q, stage
    <3>3. IsMoved(g, stage, f, q)
      BY <1>1, <1>5, <3>1, MovedFields
    <3> HIDE DEF g
    <3>4. /\ g.stage = stage /\ g.for = f.for /\ g.device = f.device /\ g.at = "await"
          /\ g.slot = q.slot
      BY <1>1, <1>4, <3>1, <3>3, LifecycleAssumption DEF IsMoved
    <3>5. StageSound(q, g)
      BY <1>4, <3>1, <3>2, <3>4 DEF StageSound
    <3> QED BY <2>2, <3>1, <3>4, <3>5
  <2> QED BY <2>1, <2>2
<1> HIDE DEF g, q
<1>8. Turned(fl, gl, k, g) /\ \A o \in Page : o # p => flow'[o] = flow[o]
  BY <1>6, OneFlowTurns
<1>9. /\ gl[k] = g /\ \A j \in Flow : j # k => gl[j] = fl[j]
      /\ \A j \in Flow : gl[j].at # "open"
      /\ \A j \in Flow : gl[j].at = "race" => j # k /\ fl[j].at = "race"
  <2>1. \A j \in Flow : fl[j].at = "open" => j = k
    BY <1>0, <1>1 DEF PageSound, Openings
  <2> QED BY <1>7, <1>8, <2>1 DEF Turned
<1>10. Held(q) /\ Promised(q, gl) /\ Openings(q, gl)
  <2>1. f.for # None
    BY <1>1, LifecycleAssumption
  <2>2. Openings(q, gl)
    BY <1>0, <1>4, <1>9, <2>1 DEF PageSound, Openings
  <2> QED BY <1>4, <2>1, <2>2 DEF Held, Promised
<1>11. InTurn(q, gl)
  <2>1. \A j \in {"boot", "load"} : fl["form"].stage # "idle" => gl[j].stage = "idle"
    BY <1>0, <1>1, <1>7, <1>9, FlowNames DEF InTurn, Resting, Leaving, Starter
  <2>2. k = "form" => fl["form"].stage # "idle"
    BY <1>1 DEF Leaving
  <2>3. gl["form"].stage \notin Leaving \ {"idle"}
    <3>1. CASE k = "form"
      BY <1>7, <1>9, <3>1
    <3>2. CASE k # "form"
      BY <1>0, <1>3, <1>9, <3>2, FlowNames DEF InTurn
    <3> QED BY <3>1, <3>2
  <2>4. gl["form"].stage # "idle" => fl["form"].stage # "idle"
    BY <1>9, <2>2, FlowNames
  <2> QED BY <1>4, <2>1, <2>3, <2>4 DEF InTurn, Resting
<1>12. StageSound(q, gl["load"]) /\ StageSound(q, gl["form"])
  <2>1. ASSUME NEW j \in {"load", "form"} PROVE StageSound(q, gl[j])
    <3>1. CASE j = k
      BY <1>7, <1>9, <3>1
    <3>2. CASE j # k
      <4>1. gl[j] = fl[j] /\ StageSound(pg, fl[j])
        BY <1>0, <1>9, <3>2, FlowNames DEF PageSound
      <4> QED BY <1>2, <1>4, <4>1 DEF StageSound
    <3> QED BY <3>1, <3>2
  <2> QED BY <2>1
<1>13. PageSound(q, gl)
  BY <1>10, <1>11, <1>12 DEF PageSound
<1> QED
  BY <1>6, <1>8, <1>13, SoundElsewhere

LEMMA OpenFailsSound ==
    ASSUME TypeInv, PagesSound, NEW p \in Page, NEW k \in Flow, OpenFails(p, k)
    PROVE  PagesSound'
<1> DEFINE fl == flow[p]  gl == flow'[p]  pg == page[p]  f == fl[k]
           v == IF pg.promise[pg.slot] = "pending" THEN "rejected" ELSE pg.promise[pg.slot]
           x == [pg EXCEPT !.promise[pg.slot] = v]
<1>0. GoodPage(pg) /\ GoodFlows(fl) /\ PageSound(pg, fl) /\ InTurn(pg, fl)
  BY PageFacts
<1>1. /\ k \in Starter /\ f.at = "open" /\ f.for \in User
      /\ k = "boot" => f.stage = "boot" /\ ~f.auto
      /\ k = "load" => f.stage = "init checked"
      /\ f.stage \notin Leaving
  <2>1. k \in Starter /\ f.at = "open" /\ f.for \in User
    BY <1>0, FlowAt DEF OpenFails
  <2>2. f.stage \in InitStage \cup {"boot"}
    BY <1>0, <2>1 DEF GoodFlows, GoodFlow, FlowFits, FlowState
  <2>3. /\ k = "boot" => f.stage = "boot" /\ ~f.auto
        /\ k = "load" => f.stage = "init checked"
    BY <1>0, <2>1, <2>2 DEF GoodFlows, GoodFlow, FlowFits, InitStage
  <2> QED BY <2>1, <2>2, <2>3 DEF InitStage, Leaving
<1>2. pg.promise[pg.slot] = "pending" /\ pg.userId = f.for
  BY <1>0, <1>1 DEF PageSound, Openings
<1>3. pg.user = None
  <2>1. f.stage # "idle"
    BY <1>1 DEF Leaving
  <2> QED BY <1>0, <1>1, <2>1 DEF InTurn, Resting, Starter
<1>4. /\ GoodPage(x) /\ x.userId = f.for /\ x.user = None /\ x.slot = pg.slot
      /\ x.promise[x.slot] = "rejected"
  <2>1. v = "rejected" /\ v \in Promise
    BY <1>2 DEF Promise
  <2> HIDE DEF v
  <2>2. GoodPage(x)
    BY <1>0, <1>2, <2>1, SettledGood
  <2> QED BY <1>0, <1>2, <1>3, <2>1, <2>2, PageFields DEF GoodPage, PageState
<1>5. Fails(p, k, x)
  BY DEF OpenFails
<1> HIDE DEF x, v
<1>6. Takes(p, k, Idle)
  BY <1>5 DEF Fails, Takes
<1>7. Turned(fl, gl, k, Idle) /\ \A o \in Page : o # p => flow'[o] = flow[o]
  BY <1>6, OneFlowTurns
<1>8. /\ gl[k] = Idle /\ Idle.at = "await" /\ Idle.stage = "idle"
      /\ \A j \in Flow : j # k => gl[j] = fl[j]
  BY <1>7 DEF Turned, Idle
<1>9. ASSUME NEW q, q.userId = x.userId, q.user = None, q.slot = x.slot,
             q.promise = x.promise, Becomes(p, q)
      PROVE  PagesSound'
  <2>1. /\ \A j \in Flow : gl[j].at # "open"
        /\ \A j \in Flow : gl[j].at = "race" => j # k /\ fl[j].at = "race"
    <3>1. \A j \in Flow : fl[j].at = "open" => j = k
      BY <1>0, <1>1 DEF PageSound, Openings
    <3> QED BY <1>8, <3>1
  <2>2. q.userId = f.for /\ q.slot = pg.slot /\ q.promise[q.slot] = "rejected"
    BY <1>4, <1>9
  <2>3. f.for \notin {"rejected", None}
    BY <1>1, LifecycleAssumption
  <2>4. Held(q) /\ Promised(q, gl) /\ Openings(q, gl)
    <3>1. Openings(q, gl)
      BY <1>0, <1>8, <2>1, <2>2, <2>3 DEF PageSound, Openings
    <3> QED BY <2>2, <2>3, <3>1 DEF Held, Promised
  <2>5. InTurn(q, gl)
    <3>1. \A j \in Flow : fl[j].stage = "idle" => gl[j].stage = "idle"
      BY <1>8
    <3>2. gl["form"].stage # "idle" => fl["form"].stage = gl["form"].stage
      BY <1>8, FlowNames
    <3>3. fl["form"].stage \notin Leaving \ {"idle"}
      BY <1>0, <1>3 DEF InTurn
    <3> QED BY <1>0, <1>9, <3>1, <3>2, <3>3, FlowNames DEF InTurn, Resting
  <2>6. StageSound(q, gl["load"]) /\ StageSound(q, gl["form"])
    <3>1. ASSUME NEW j \in {"load", "form"} PROVE StageSound(q, gl[j])
      <4>1. CASE j = k
        BY <1>8, <4>1, IdleSound
      <4>2. CASE j # k
        <5>1. gl[j] = fl[j] /\ StageSound(pg, fl[j])
          BY <1>0, <1>8, <4>2, FlowNames DEF PageSound
        <5> QED BY <1>2, <2>2, <5>1 DEF StageSound
      <4> QED BY <4>1, <4>2
    <3> QED BY <3>1
  <2>7. page'[p] = q /\ \A o \in Page : o # p => page'[o] = page[o]
    BY <1>9, OnePageBecomes
  <2>8. PageSound(q, gl)
    BY <2>4, <2>5, <2>6 DEF PageSound
  <2> QED BY <1>7, <2>7, <2>8, SoundElsewhere
<1>10. CASE Becomes(p, x) \/ Becomes(p, SignedOut(x))
  <2>1. /\ SignedOut(x).userId = x.userId /\ SignedOut(x).user = None
        /\ SignedOut(x).slot = x.slot /\ SignedOut(x).promise = x.promise
    BY <1>4, SignedOutGood
  <2> QED BY <1>4, <1>9, <1>10, <2>1
<1>11. CASE f.stage \notin {"init checked", "init cached"} /\ f.auto /\ Becomes(p, Reset(x))
  <2>1. k = "form"
    BY <1>1, <1>11 DEF Starter
  <2>2. fl["load"].stage = "idle" /\ fl["boot"].stage = "idle"
    BY <1>0, <1>1, <2>1, AtWork
  <2>3. \A j \in Starter : gl[j].stage = "idle" /\ gl[j].at = "await"
    BY <1>0, <1>8, <2>1, <2>2, FlowNames, FlowAt DEF Starter
  <2>4. gl["write"].at = "await"
    BY <1>0, <1>8, <2>1, FlowNames, FlowAt
  <2>5. /\ page'[p] = Reset(x) /\ \A o \in Page : o # p => page'[o] = page[o]
    BY <1>11, OnePageBecomes
  <2>6. /\ Reset(x).userId = None /\ Reset(x).user = None
        /\ Reset(x).promise[Reset(x).slot] = "pending"
    BY <1>4, ResetGood
  <2>7. PageSound(Reset(x), gl)
    BY <2>3, <2>4, <2>6, SoundReset
  <2> QED BY <1>7, <2>5, <2>7, SoundElsewhere
<1>12. \/ Becomes(p, x) \/ Becomes(p, SignedOut(x))
       \/ f.stage \notin {"init checked", "init cached"} /\ f.auto /\ Becomes(p, Reset(x))
  BY <1>5, Zenon DEF Fails
<1> QED
  BY <1>10, <1>11, <1>12

LEMMA CheckLocksSound ==
    ASSUME TypeInv, PagesSound, NEW p \in Page, NEW k \in {"load", "form"}, CheckLocks(p, k)
    PROVE  PagesSound'
<1> DEFINE fl == flow[p]  gl == flow'[p]  pg == page[p]  f == fl[k]
           q == [pg EXCEPT !.user = f.for]
<1>0. GoodPage(pg) /\ GoodFlows(fl) /\ PageSound(pg, fl) /\ InTurn(pg, fl) /\ k \in Flow
  BY PageFacts, FlowNames
<1>1. /\ f.stage = "check locks" /\ f.at = "await" /\ f.stage \notin Leaving /\ f.for \in User
  <2>1. f.stage = "check locks" /\ f.at = "await"
    BY DEF CheckLocks, AtAwait
  <2> QED BY <1>0, <2>1 DEF GoodFlows, GoodFlow, FlowFits, ForSomebody, Leaving
<1>2. f.for = pg.userId /\ f.slot = pg.slot
  BY <1>0, <1>1 DEF PageSound, StageSound, Initialised
<1>3. pg.promise[pg.slot] # "pending"
  BY <1>0, <1>2, PageFields DEF CheckLocks, Settled, Pending
<1>4. fl["boot"].stage = "idle"
  <2>1. fl["boot"].at # "open"
    BY <1>0, <1>3, FlowNames DEF PageSound, Openings
  <2> QED BY <1>0, <2>1, FlowNames DEF GoodFlows, GoodFlow, FlowFits
<1>5. \A j \in {"load", "form"} : j # k => fl[j].stage = "idle"
  BY <1>0, <1>1, AtWork
<1>6. Takes(p, k, Idle) /\ Becomes(p, q)
  BY DEF CheckLocks, Goes, Takes
<1>7. Kin(pg, q) /\ q.user = f.for /\ q.userId = f.for
  BY <1>0, <1>2 DEF Kin, GoodPage, PageState
<1> HIDE DEF q
<1>8. Turned(fl, gl, k, Idle) /\ \A o \in Page : o # p => flow'[o] = flow[o]
  BY <1>0, <1>6, OneFlowTurns
<1>9. Idle.at = "await" /\ Idle.stage = "idle"
  BY DEF Idle
<1>10. \A j \in Starter : gl[j].stage = "idle"
  BY <1>4, <1>5, <1>8, <1>9, FlowNames DEF Turned, Starter
<1>11. InTurn(q, gl)
  BY <1>7, <1>10 DEF InTurn, Resting, Starter, Leaving
<1>12. StageSound(q, Idle)
  BY IdleSound
<1>13. PageSound(q, gl)
  <2>1. f.at \in {"await", "call"} /\ Idle.at \in {"await", "call"}
    BY <1>1, <1>9
  <2> QED BY <1>0, <1>7, <1>8, <1>11, <1>12, <2>1, SoundAwait
<1>14. page'[p] = q /\ \A o \in Page : o # p => page'[o] = page[o]
  BY <1>6, OnePageBecomes
<1> QED
  BY <1>8, <1>13, <1>14, SoundElsewhere

\* A form that signs the page out for good.
LEMMA LeaveSound ==
    ASSUME TypeInv, PagesSound, NEW p \in Page,
           flow[p]["form"].stage \in {"log out", "wipe"}, Takes(p, "form", Idle),
           NEW q, Becomes(p, q), q.userId = None, q.user = None, q.promise[q.slot] = "pending"
    PROVE  PagesSound'
<1> DEFINE fl == flow[p]  gl == flow'[p]  pg == page[p]
<1>0. GoodPage(pg) /\ GoodFlows(fl) /\ PageSound(pg, fl) /\ InTurn(pg, fl)
  BY PageFacts
<1>1. fl["load"].stage = "idle" /\ fl["boot"].stage = "idle"
  BY <1>0 DEF InTurn, Resting
<1>2. Turned(fl, gl, "form", Idle) /\ \A o \in Page : o # p => flow'[o] = flow[o]
  BY OneFlowTurns, FlowNames
<1>3. Idle.at = "await" /\ Idle.stage = "idle"
  BY DEF Idle
<1>8. /\ gl["form"] = Idle /\ gl["load"] = fl["load"]
      /\ gl["boot"] = fl["boot"] /\ gl["write"] = fl["write"]
  BY ONLY <1>2, FlowNames DEF Turned
<1>9. fl["load"].at = "await" /\ fl["boot"].at = "await" /\ fl["write"].at = "await"
  BY ONLY <1>0, <1>1, FlowNames, FlowAt
<1> HIDE DEF fl, gl
<1>4. \A j \in Starter : gl[j].stage = "idle" /\ gl[j].at = "await"
  BY <1>1, <1>3, <1>8, <1>9 DEF Starter
<1>5. gl["write"].at = "await"
  BY <1>8, <1>9
<1>6. page'[p] = q /\ \A o \in Page : o # p => page'[o] = page[o]
  BY OnePageBecomes
<1>7. PageSound(q, gl)
  BY <1>4, <1>5, SoundReset
<1> QED
  BY <1>2, <1>6, <1>7, SoundElsewhere DEF gl

LEMMA LogOutSound ==
    ASSUME TypeInv, PagesSound, NEW p \in Page, LogOut(p) PROVE PagesSound'
<1> DEFINE x == Reset(page[p])  q == SignedOut(x)
<1>1. /\ GoodPage(x) /\ x.userId = None /\ x.promise[x.slot] = "pending"
  BY PageFacts, ResetGood
<1>2. Takes(p, "form", Idle) /\ Becomes(p, q) /\ flow[p]["form"].stage = "log out"
  BY DEF LogOut, Goes, AtAwait, Takes
<1> HIDE DEF x
<1>3. q.userId = None /\ q.user = None /\ q.promise[q.slot] = "pending"
  BY <1>1, SignedOutGood
<1> HIDE DEF q
<1> QED
  BY <1>2, <1>3, LeaveSound

LEMMA WipeSound ==
    ASSUME TypeInv, PagesSound, NEW p \in Page, Wipe(p) PROVE PagesSound'
<1> DEFINE pg == page[p]  f == flow[p]["form"]
           x == [pg EXCEPT !.connections = @ \ (User \X {f.slot})]
           y == Reset(x)  z == SignedOut(y)  q == [z EXCEPT !.deleting = f.for]
<1>0. GoodPage(pg) /\ PageSound(pg, flow[p]) /\ InTurn(pg, flow[p])
  BY PageFacts
<1>1. f.stage = "wipe" /\ f.slot = pg.slot /\ f.slot # 0
  <2>1. f.stage = "wipe"
    BY DEF Wipe, AtAwait
  <2>2. f.slot = pg.slot
    BY <1>0, <2>1 DEF PageSound, StageSound
  <2> QED BY <1>0, <2>1, <2>2, PageFields
<1>2. Takes(p, "form", Idle)
  BY DEF Wipe, Goes, Takes
<1>3. Becomes(p, z) \/ Becomes(p, q)
  BY <1>1, Zenon DEF Wipe
<1>4. GoodPage(x)
  BY <1>0 DEF GoodPage, PageState, Connected
<1> HIDE DEF x
<1>5. GoodPage(y) /\ y.userId = None /\ y.promise[y.slot] = "pending"
  BY <1>4, ResetGood
<1> HIDE DEF y
<1>6. GoodPage(z) /\ z.userId = None /\ z.user = None /\ z.promise[z.slot] = "pending"
  BY <1>5, SignedOutGood
<1> HIDE DEF z
<1>7. q.userId = None /\ q.user = None /\ q.promise[q.slot] = "pending"
  BY <1>6 DEF GoodPage, PageState
<1> HIDE DEF q
<1>8. CASE Becomes(p, z)
  BY <1>1, <1>2, <1>6, <1>8, LeaveSound
<1>9. CASE Becomes(p, q)
  BY <1>1, <1>2, <1>7, <1>9, LeaveSound
<1> QED
  BY <1>3, <1>8, <1>9

LEMMA LoadSound ==
    ASSUME TypeInv, PagesSound, NEW p \in Page, Load(p) PROVE PagesSound'
<1> DEFINE q == NewPage(TRUE, active)  gl == flow'[p]
<1>1. active \in User \cup {None}
  BY DEF TypeInv, RestTyped
<1>2. /\ \A k \in Flow : gl[k] = LoadedFlow(k, active)
      /\ \A o \in Page : o # p => flow'[o] = flow[o]
  BY DEF Load, LoadedFlow, TypeInv, FlowsTyped
<1>3. page'[p] = q /\ \A o \in Page : o # p => page'[o] = page[o]
  <2>1. Becomes(p, q)
    BY DEF Load
  <2> HIDE DEF q
  <2> QED BY <2>1, OnePageBecomes
<1>4. /\ q.userId = active /\ q.user = None /\ q.promise[q.slot] = "pending"
  BY DEF NewPage
<1> HIDE DEF q
<1>5. /\ gl["load"].stage = "get me" /\ gl["load"].at = "await"
      /\ gl["form"].stage = "idle" /\ gl["form"].at = "await" /\ gl["write"].at = "await"
      /\ active = None => gl["boot"].at = "await"
      /\ active # None => gl["boot"].at = "open" /\ gl["boot"].for = active
  <2>1. /\ gl["load"] = [Idle EXCEPT !.stage = "get me"]
        /\ gl["form"] = Idle /\ gl["write"] = Idle
        /\ active = None => gl["boot"] = Idle
        /\ active # None => gl["boot"] = [Idle EXCEPT !.stage = "boot", !.at = "open", !.for = active]
    BY <1>2, FlowNames DEF LoadedFlow
  <2> HIDE DEF gl
  <2>2. Idle.at = "await" /\ Idle.stage = "idle" /\ [Idle EXCEPT !.stage = "get me"].at = "await"
        /\ [Idle EXCEPT !.stage = "get me"].stage = "get me"
    BY DEF Idle
  <2>3. LET g == [Idle EXCEPT !.stage = "boot", !.at = "open", !.for = active]
        IN  g.at = "open" /\ g.for = active
    BY DEF Idle
  <2> QED BY <2>1, <2>2, <2>3
<1> HIDE DEF gl
<1>6. Held(q) /\ Promised(q, gl) /\ Openings(q, gl)
  <2>1. active # None => active # "pending"
    BY <1>1, LifecycleAssumption
  <2>2. Held(q)
    BY <1>4, <2>1 DEF Held
  <2>3. Promised(q, gl)
    BY <1>4, <1>5 DEF Promised, Starter
  <2>4. Openings(q, gl)
    BY <1>4, <1>5, FlowNames DEF Openings
  <2> QED BY <2>2, <2>3, <2>4
<1>7. InTurn(q, gl)
  BY <1>4, <1>5 DEF InTurn
<1>8. StageSound(q, gl["load"]) /\ StageSound(q, gl["form"])
  BY <1>5 DEF StageSound, SignedIn, Initialised
<1>9. PageSound(q, gl)
  BY <1>6, <1>7, <1>8 DEF PageSound
<1> QED
  BY <1>2, <1>3, <1>9, SoundElsewhere DEF gl

\* A form turns to a stage in which the page may have it, at an await or in a call.
LEMMA FormTurns ==
    ASSUME TypeInv, PagesSound, NEW p \in Page, page' = page,
           flow[p]["form"].at = "await",
           flow[p]["load"].stage = "idle", flow[p]["boot"].stage = "idle",
           NEW g, Takes(p, "form", g), g.at \in {"await", "call"}, StageSound(page[p], g),
           page[p].user # None => g.stage \in Leaving,
           page[p].user = None => g.stage \notin Leaving
    PROVE  PagesSound'
<1> DEFINE fl == flow[p]  gl == flow'[p]  pg == page[p]
<1>1. GoodPage(pg) /\ GoodFlows(fl) /\ PageSound(pg, fl) /\ InTurn(pg, fl)
  BY PageFacts
<1>2. Turned(fl, gl, "form", g) /\ \A o \in Page : o # p => flow'[o] = flow[o]
  BY OneFlowTurns, FlowNames
<1>3. gl["form"] = g /\ gl["load"].stage = "idle" /\ gl["boot"].stage = "idle"
  BY <1>2, FlowNames DEF Turned
<1>4. InTurn(pg, gl)
  BY <1>1, <1>3 DEF InTurn, Resting
<1>5. Kin(pg, pg) /\ fl["form"].at \in {"await", "call"}
  BY DEF Kin
<1> HIDE DEF fl, gl, pg
<1>6. PageSound(pg, gl)
  BY <1>1, <1>2, <1>4, <1>5, SoundAwait, FlowNames DEF pg
<1>7. page'[p] = pg /\ \A o \in Page : o # p => page'[o] = page[o]
  BY DEF pg
<1> QED
  BY <1>2, <1>6, <1>7, SoundElsewhere DEF gl

LEMMA DeleteSound ==
    ASSUME TypeInv, PagesSound, NEW p \in Page, Delete(p) PROVE PagesSound'
<1> DEFINE fl == flow[p]  pg == page[p]  f == [fl["form"] EXCEPT !.for = pg.userId]
<1>1. /\ GoodPage(pg) /\ GoodFlows(fl) /\ PageSound(pg, fl) /\ InTurn(pg, fl)
      /\ fl["form"] \in FlowState
  BY PageFacts, FlowNames DEF GoodFlows, GoodFlow
<1>2. fl["form"].stage = "delete" /\ fl["form"].at = "await" /\ page' = page
  BY DEF Delete, AtAwait
<1>3. /\ fl["load"].stage = "idle" /\ fl["boot"].stage = "idle"
      /\ pg.user # None /\ pg.userId = pg.user
  BY <1>1, <1>2 DEF InTurn, Resting, Leaving
<1>4. CASE Goes(p, "form", "wipe", f, pg)
  <2>1. PICK e : e = f
    OBVIOUS
  <2>2. e \in FlowState /\ e.for = pg.userId
    BY <1>1, <2>1, PageFields DEF FlowState
  <2>3. Goes(p, "form", "wipe", e, pg)
    BY <1>4, <2>1
  <2> DEFINE g == Moved("wipe", e, pg)
  <2> HIDE DEF f, pg
  <2>4. Takes(p, "form", g)
    BY <2>3, GoesMoves DEF Takes
  <2>5. IsMoved(g, "wipe", e, pg)
    BY <1>1, <2>2, MovedFields
  <2> HIDE DEF g
  <2>6. g.stage = "wipe" /\ g.for = pg.userId /\ g.at \in {"await", "call"} /\ g.slot = pg.slot
    BY <1>3, <2>2, <2>5 DEF IsMoved
  <2>7. StageSound(pg, g) /\ g.stage \in Leaving
    BY <2>6 DEF StageSound, SignedIn, Initialised, Leaving
  <2> QED BY <1>2, <1>3, <2>4, <2>6, <2>7, FormTurns DEF pg
<1>5. CASE Goes(p, "form", "idle", Idle, pg)
  <2>1. Takes(p, "form", Idle) /\ Idle.at \in {"await", "call"} /\ Idle.stage \in Leaving
    BY <1>5 DEF Goes, Takes, Idle, Leaving
  <2>2. StageSound(pg, Idle)
    BY IdleSound
  <2> QED BY <1>2, <1>3, <2>1, <2>2, FormTurns
<1> QED
  BY <1>4, <1>5 DEF Delete

LEMMA SendFormSound ==
    ASSUME TypeInv, PagesSound, NEW p \in Page, SendForm(p), ~Overlap, ~SignInTwice
    PROVE  PagesSound'
<1> DEFINE fl == flow[p]  pg == page[p]
<1>1. GoodPage(pg)
  BY PageFacts
<1>2. /\ fl["form"].at = "await" /\ page' = page
      /\ fl["load"].stage = "idle" /\ fl["boot"].stage = "idle"
  BY DEF SendForm, AtAwait
<1>3. Idle \in FlowState
  BY DEF FlowState, Idle, Stage, OtherStage
<1>4. ASSUME NEW stage \in {"init cached", "read device", "log in", "register", "log out", "delete"},
             NEW f \in FlowState, Goes(p, "form", stage, f, pg),
             pg.user # None <=> stage \in {"log out", "delete"}
      PROVE  PagesSound'
  <2> DEFINE g == Moved(stage, f, pg)
  <2>1. Takes(p, "form", g)
    BY <1>4 DEF Goes, Moved, Takes
  <2>2. IsMoved(g, stage, f, pg)
    BY <1>1, MovedFields
  <2> HIDE DEF g
  <2>3. g.stage = stage /\ g.at \in {"await", "call"}
    BY <2>2 DEF IsMoved
  <2>4. StageSound(pg, g) /\ (stage \in Leaving <=> stage \in {"log out", "delete"})
    BY <2>3 DEF StageSound, SignedIn, Initialised, Leaving
  <2> QED BY <1>2, <1>4, <2>1, <2>3, <2>4, FormTurns
<1>5. ASSUME NEW u \in User, NEW b \in BOOLEAN
      PROVE  [Idle EXCEPT !.for = u, !.auto = b] \in FlowState /\ [Idle EXCEPT !.for = u] \in FlowState
  BY <1>3 DEF FlowState
<1>6. ASSUME pg.user = None, NEW u \in User,
             \/ Goes(p, "form", IF u \in known THEN "init cached"
                                ELSE IF pg.userId # None THEN "read device" ELSE "log in",
                     [Idle EXCEPT !.for = u, !.auto = u \in known], pg)
             \/ Goes(p, "form", "register", [Idle EXCEPT !.for = u], pg)
      PROVE  PagesSound'
  <2>1. (u \in known) \in BOOLEAN
    OBVIOUS
  <2>2. PICK b \in BOOLEAN : b = (u \in known)
    BY <2>1
  <2>3. PICK f : f = [Idle EXCEPT !.for = u, !.auto = b]
    OBVIOUS
  <2>4. PICK e : e = [Idle EXCEPT !.for = u]
    OBVIOUS
  <2>5. f \in FlowState /\ e \in FlowState
    BY <1>5, <2>3, <2>4
  <2>6. \/ Goes(p, "form", "init cached", f, pg) \/ Goes(p, "form", "read device", f, pg)
        \/ Goes(p, "form", "log in", f, pg) \/ Goes(p, "form", "register", e, pg)
    BY <1>6, <2>2, <2>3, <2>4
  <2> QED BY <1>4, <1>6, <2>5, <2>6
<1>7. ASSUME pg.user # None, NEW stage \in {"log out", "delete"}, Goes(p, "form", stage, Idle, pg)
      PROVE  PagesSound'
  BY <1>3, <1>4, <1>7
<1> QED
  BY <1>6, <1>7 DEF SendForm

\* What a write does to the flows of its page, while the page stays.
LEMMA WriteSteps ==
    ASSUME TypeInv, NEW p \in Page, StartWrite(p) \/ WriteStep(p)
    PROVE  /\ page' = page /\ \A o \in Page : o # p => flow'[o] = flow[o]
           /\ \A k \in Starter : flow'[p][k] = flow[p][k]
           /\ flow[p]["write"].at = "await" /\ flow'[p]["write"].at = "await"
           /\ flow'[p]["write"].stage # "idle"
                 => /\ flow'[p]["write"].for = IF flow[p]["write"].stage = "idle" THEN page[p].user
                                               ELSE flow[p]["write"].for
                    /\ flow[p]["write"].stage = "idle" => page[p].user # None
           /\ flow'[p]["write"].stage = "put" => flow[p]["write"].stage = "encrypt"
                                                 /\ flow'[p]["write"].slot = page[p].slot
<1> DEFINE fl == flow[p]  gl == flow'[p]  pg == page[p]
<1>1. GoodPage(pg) /\ GoodFlows(fl) /\ fl["write"] \in FlowState
  BY PageGood, FlowGood, FlowNames DEF GoodFlows, GoodFlow
<1>2. /\ page' = page /\ fl["write"].at = "await"
      /\ fl["write"].stage = "idle" => pg.user # None
  BY DEF StartWrite, WriteStep, Encrypt, Put, AtAwait
<1>3. PICK g : /\ Takes(p, "write", g) /\ g.at = "await"
               /\ g.stage # "idle" => g.for = IF fl["write"].stage = "idle" THEN pg.user
                                              ELSE fl["write"].for
               /\ g.stage = "put" => fl["write"].stage = "encrypt" /\ g.slot = pg.slot
  <2>1. CASE StartWrite(p)
    <3> DEFINE f == [Idle EXCEPT !.for = pg.user]  g == Moved("encrypt", f, pg)
    <3>1. f \in FlowState /\ f.for = pg.user
      BY <1>1, PageFields DEF FlowState, Idle, Stage, OtherStage
    <3>2. Goes(p, "write", "encrypt", f, pg) /\ fl["write"].stage = "idle"
      BY <2>1 DEF StartWrite, AtAwait
    <3> HIDE DEF f, fl, pg
    <3>3. Takes(p, "write", g)
      BY <3>2, GoesMoves DEF Takes
    <3>4. IsMoved(g, "encrypt", f, pg) /\ "encrypt" \notin InitStage
      BY <1>1, <3>1, MovedFields DEF InitStage
    <3> HIDE DEF g
    <3>5. g.stage = "encrypt" /\ g.at = "await" /\ g.for = pg.user
      BY <3>1, <3>4 DEF IsMoved
    <3> QED BY <3>2, <3>3, <3>5
  <2>2. CASE Encrypt(p)
    <3> DEFINE f == fl["write"]  g == Moved("put", f, pg)
    <3>1. Goes(p, "write", "put", f, pg) /\ f.stage = "encrypt"
      BY <2>2 DEF Encrypt, AtAwait
    <3> HIDE DEF fl, pg
    <3>2. Takes(p, "write", g)
      BY <3>1, GoesMoves DEF Takes
    <3>3. IsMoved(g, "put", f, pg) /\ "put" \notin InitStage
      BY <1>1, MovedFields DEF InitStage
    <3> HIDE DEF g
    <3>4. g.stage = "put" /\ g.at = "await" /\ g.for = f.for /\ g.slot = pg.slot
      BY <3>3 DEF IsMoved
    <3> QED BY <3>1, <3>2, <3>4
  <2>3. CASE Put(p)
    <3>1. Takes(p, "write", Idle) /\ Idle.stage = "idle" /\ Idle.at = "await"
      BY <2>3 DEF Put, Goes, Takes, Idle
    <3> QED BY <3>1
  <2> QED BY <2>1, <2>2, <2>3 DEF WriteStep
<1>4. Turned(fl, gl, "write", g) /\ \A o \in Page : o # p => flow'[o] = flow[o]
  BY <1>3, OneFlowTurns, FlowNames
<1>5. gl["write"] = g /\ \A k \in Starter : gl[k] = fl[k]
  BY <1>4, FlowNames DEF Turned, Starter
<1> HIDE DEF fl, gl, pg
<1> QED
  BY <1>2, <1>3, <1>4, <1>5 DEF fl, gl, pg

LEMMA WriteFlowSound ==
    ASSUME TypeInv, PagesSound, NEW p \in Page, StartWrite(p) \/ WriteStep(p)
    PROVE  PagesSound'
<1> DEFINE fl == flow[p]  gl == flow'[p]  pg == page[p]
<1>1. GoodPage(pg) /\ GoodFlows(fl) /\ PageSound(pg, fl) /\ InTurn(pg, fl)
  BY PageFacts
<1>2. /\ page' = page /\ \A o \in Page : o # p => flow'[o] = flow[o]
      /\ \A k \in Starter : gl[k] = fl[k]
      /\ fl["write"].at = "await" /\ gl["write"].at = "await"
  BY WriteSteps
<1>3. PageSound(pg, gl)
  <2>1. Held(pg) /\ StageSound(pg, gl["load"]) /\ StageSound(pg, gl["form"])
    BY <1>1, <1>2 DEF PageSound, Starter
  <2>2. Promised(pg, gl)
    BY <1>1, <1>2 DEF PageSound, Promised
  <2>3. Openings(pg, gl)
    <3>1. \A k \in Flow : gl[k].at \in {"open", "race"} => gl[k] = fl[k]
      BY <1>2, FlowNames DEF Starter
    <3> QED BY <1>1, <3>1 DEF PageSound, Openings
  <2>4. InTurn(pg, gl)
    BY <1>1, <1>2 DEF InTurn, Resting, Starter
  <2> QED BY <2>1, <2>2, <2>3, <2>4 DEF PageSound
<1>4. page'[p] = pg /\ \A o \in Page : o # p => page'[o] = page[o]
  BY <1>2
<1> QED
  BY <1>2, <1>3, <1>4, SoundElsewhere DEF gl

\* A deletion that goes on, and a connection that is collected.
LEMMA QuietSound ==
    ASSUME TypeInv, PagesSound, NEW p \in Page, DeleteUnblocked(p) \/ Collect(p)
    PROVE  PagesSound'
<1> DEFINE fl == flow[p]  pg == page[p]
<1>1. GoodPage(pg) /\ PageSound(pg, fl)
  BY PageFacts
<1>2. flow' = flow
  BY DEF DeleteUnblocked, Collect
<1>3. PICK q : /\ Becomes(p, q)
               /\ q.userId = pg.userId /\ q.slot = pg.slot /\ q.promise = pg.promise /\ q.user = pg.user
               /\ \A c \in pg.connections : c[2] = pg.slot => c \in q.connections
  <2>1. CASE DeleteUnblocked(p)
    <3> DEFINE q == [pg EXCEPT !.deleting = None]
    <3>1. Becomes(p, q)
      BY <2>1 DEF DeleteUnblocked
    <3>2. /\ q.userId = pg.userId /\ q.slot = pg.slot /\ q.promise = pg.promise /\ q.user = pg.user
          /\ q.connections = pg.connections
      BY <1>1 DEF GoodPage, PageState
    <3> QED BY <3>1, <3>2
  <2>2. CASE Collect(p)
    <3>1. PICK c \in pg.connections :
              c[2] # pg.slot /\ Becomes(p, [pg EXCEPT !.connections = @ \ {c}])
      BY <2>2 DEF Collect
    <3> DEFINE q == [pg EXCEPT !.connections = @ \ {c}]
    <3>2. /\ q.userId = pg.userId /\ q.slot = pg.slot /\ q.promise = pg.promise /\ q.user = pg.user
          /\ q.connections = pg.connections \ {c}
      BY <1>1 DEF GoodPage, PageState
    <3> QED BY <3>1, <3>2
  <2> QED BY <2>1, <2>2
<1>4. Held(q)
  <2> DEFINE c == <<pg.userId, pg.slot>>
  <2>1. c[2] = pg.slot
    OBVIOUS
  <2> QED BY <1>1, <1>3, <2>1 DEF PageSound, Held
<1>5. PageSound(q, fl)
  BY <1>1, <1>3, <1>4 DEF PageSound, Promised, Openings, InTurn, StageSound
<1>6. page'[p] = q /\ \A o \in Page : o # p => page'[o] = page[o]
  BY <1>3, OnePageBecomes
<1> QED
  BY <1>2, <1>5, <1>6, SoundElsewhere

LEMMA StepSound ==
    ASSUME Conditions PROVE TypeInv /\ PagesSound /\ [Next]_vars => PagesSound'
<1> SUFFICES ASSUME TypeInv, PagesSound, [Next]_vars PROVE PagesSound'
  OBVIOUS
<1>1. ASSUME NEW p \in Page, InitStep(p) PROVE PagesSound'
  BY <1>1, CallInitSound, RaceSound, OpenedSound DEF InitStep, Conditions
<1>2. ASSUME NEW p \in Page, CheckStep(p) PROVE PagesSound'
  BY <1>2, CheckSound, CheckLocksSound DEF CheckStep
<1>3. ASSUME NEW p \in Page, FormStep(p) PROVE PagesSound'
  BY <1>3, FormSound, LogOutSound, DeleteSound, WipeSound DEF FormStep
<1>4. ASSUME NEW p \in Page, StartWrite(p) \/ WriteStep(p) PROVE PagesSound'
  BY <1>4, WriteFlowSound
<1>5. ASSUME NEW p \in Page, NEW k \in Flow, OpenFails(p, k) PROVE PagesSound'
  BY <1>5, OpenFailsSound
<1>6. ASSUME NEW p \in Page, DeleteUnblocked(p) \/ Collect(p) \/ Load(p) \/ SendForm(p) PROVE PagesSound'
  BY <1>6, QuietSound, LoadSound, SendFormSound DEF Conditions
<1>7. CASE Expire \/ UNCHANGED vars
  BY <1>7 DEF Expire, vars, PagesSound
<1> QED
  BY <1>1, <1>2, <1>3, <1>4, <1>5, <1>6, <1>7 DEF Next

LEMMA InitSound == Init => PagesSound
<1> SUFFICES ASSUME Init, NEW p \in Page PROVE PageSound(page[p], flow[p])
  BY DEF PagesSound
<1>1. page[p] = NewPage(FALSE, None) /\ flow[p] = [k \in Flow |-> Idle]
  BY DEF Init
<1>2. /\ page[p].userId = None /\ page[p].user = None
      /\ page[p].promise[page[p].slot] = "pending"
  BY <1>1 DEF NewPage
<1>3. \A k \in Flow : flow[p][k].stage = "idle" /\ flow[p][k].at = "await"
  BY <1>1 DEF Idle
<1> QED
  BY <1>2, <1>3, FlowNames, SoundReset

\* Whatever the users do, and in whatever order the awaits of a page's flows end, a
\* page is typed and sound: the inductive invariant of the theorems below.
THEOREM PagesStaySound == ASSUME Conditions PROVE Spec => [](TypeInv /\ PagesSound)
  BY InitType, InitSound, StepType, StepSound, PTL DEF Spec

LEMMA SoundOwnsStore == TypeInv /\ PagesSound => OwnStore
<1> SUFFICES ASSUME TypeInv, PagesSound, NEW p \in Page, AtRest(p), page[p].user # None
             PROVE  /\ page[p].userId = page[p].user
                    /\ page[p].promise[page[p].slot] # "rejected" =>
                          Database(p, page[p].slot) = page[p].user
  BY DEF OwnStore
<1> DEFINE pg == page[p]  fl == flow[p]
<1>1. GoodPage(pg) /\ GoodFlows(fl) /\ PageSound(pg, fl) /\ InTurn(pg, fl)
  BY PageFacts
<1>2. pg.userId = pg.user
  BY <1>1 DEF InTurn
<1>3. \A k \in Starter : fl[k].at = "await"
  BY <1>1, FlowAt, FlowNames DEF AtRest, Starter
<1>4. pg.promise[pg.slot] \in {pg.userId, "rejected"}
  BY <1>1, <1>2, <1>3 DEF PageSound, Promised
<1>5. ASSUME pg.promise[pg.slot] # "rejected" PROVE Database(p, pg.slot) = pg.user
  <2>1. pg.promise[pg.slot] = pg.userId /\ <<pg.userId, pg.slot>> \in pg.connections
    BY <1>1, <1>2, <1>4, <1>5 DEF PageSound, Held
  <2>2. pg.userId \in User /\ pg.slot > 0
    BY <1>1, <1>2, PageFields
  <2> QED BY <1>2, <2>1, <2>2 DEF Database
<1> QED
  BY <1>2, <1>5

\* A page at rest that shows a signed-in user works on that user's database, and the
\* database is open unless its opening failed: whatever logins, registrations, logouts,
\* deletions and loads went before, in this page and in the others. This is init's
\* "Opens the per-user database", with the resolve that AuthContext's accesses await.
THEOREM OwnStoreAlways == ASSUME Conditions PROVE Spec => []OwnStore
  BY PagesStaySound, SoundOwnsStore, PTL

\* The database a flow works on, when it awaits the page's current promise.
LEMMA CurrentDatabase ==
    ASSUME NEW p, GoodPage(page[p]), PageSound(page[p], flow[p]), page[p].userId \in User
    PROVE  Database(p, page[p].slot) \in {None, page[p].userId}
<1> DEFINE pg == page[p]  s == pg.slot
<1>1. ASSUME NEW d \in User, <<d, s>> \in pg.connections
      PROVE  pg.promise[s] = pg.userId
  <2> DEFINE c == <<d, s>>
  <2>1. c[2] # 0 /\ c \in pg.connections /\ c[1] = d
    BY <1>1, PageFields
  <2> HIDE DEF c
  <2>2. pg.promise[s] \in User
    BY <2>1, <1>1 DEF GoodPage, Connected, c
  <2>3. pg.promise[s] \notin {"pending", "rejected"}
    BY <2>2, LifecycleAssumption
  <2> QED BY <2>3, LifecycleAssumption DEF PageSound, Promised
<1> QED
  BY <1>1 DEF Database

LEMMA DeviceStep ==
    ASSUME TypeInv, PagesSound, DeviceOfAccount, NEW p \in Page, NEW stage, NEW next,
           WriteDevice(p, stage, next), stage \in {"write device", "write first device"}
    PROVE  DeviceOfAccount'
<1> DEFINE f == flow[p]["form"]  d == Database(p, f.slot)
<1>1. GoodPage(page[p]) /\ PageSound(page[p], flow[p]) /\ GoodFlow("form", f)
  BY PageFacts, FlowGood, FlowNames
<1>2. f.stage = stage
  BY DEF WriteDevice, AtAwait
<1>3. f.device = f.for /\ f.for = page[p].userId /\ f.slot = page[p].slot /\ f.for \in User
  BY <1>1, <1>2 DEF PageSound, StageSound, SignedIn, Initialised, GoodFlow, FlowFits, ForSomebody
<1>4. d \in {None, f.for}
  BY <1>1, <1>3, CurrentDatabase
<1>5. \/ d # None /\ deviceMeta' = [deviceMeta EXCEPT ![d] = f.device]
      \/ deviceMeta' = deviceMeta
  BY DEF WriteDevice
<1> HIDE DEF d, f
<1> QED
  BY <1>3, <1>4, <1>5 DEF DeviceOfAccount, TypeInv, RestTyped

LEMMA DeviceSteps ==
    ASSUME Conditions PROVE TypeInv /\ PagesSound /\ DeviceOfAccount /\ [Next]_vars => DeviceOfAccount'
<1> SUFFICES ASSUME TypeInv, PagesSound, DeviceOfAccount, [Next]_vars PROVE DeviceOfAccount'
  OBVIOUS
<1>1. ASSUME NEW u, deviceMeta' = deviceMeta \/ deviceMeta' = [deviceMeta EXCEPT ![u] = None]
      PROVE  DeviceOfAccount'
  BY <1>1 DEF DeviceOfAccount, TypeInv, RestTyped
<1>2. ASSUME NEW p \in Page,
             WriteDevice(p, "write device", "get me") \/ WriteDevice(p, "write first device", "idle")
      PROVE  DeviceOfAccount'
  BY <1>2, DeviceStep
<1>3. ASSUME NEW p \in Page, Wipe(p) PROVE DeviceOfAccount'
  BY <1>1, <1>3 DEF Wipe
<1>4. ASSUME NEW p \in Page, DeleteUnblocked(p) PROVE DeviceOfAccount'
  BY <1>1, <1>4 DEF DeleteUnblocked
<1>5. ASSUME NEW p \in Page,
             \/ InitStep(p) \/ CheckStep(p) \/ WriteStep(p) \/ Collect(p)
             \/ Load(p) \/ SendForm(p) \/ StartWrite(p) \/ \E k \in Flow : OpenFails(p, k)
      PROVE  deviceMeta' = deviceMeta
  BY <1>5 DEF InitStep, CallInit, Race, Opened, CheckStep, GetMe, CheckLocks, WriteStep, Encrypt, Put,
              Collect, Load, SendForm, StartWrite, OpenFails
<1>6. ASSUME NEW p \in Page,
             \/ ReadDevice(p) \/ LogIn(p) \/ Locks(p) \/ Register(p) \/ Hash(p)
             \/ LogOut(p) \/ Delete(p)
      PROVE  deviceMeta' = deviceMeta
  BY <1>6 DEF ReadDevice, LogIn, Locks, Register, Hash, LogOut, Delete
<1>7. CASE Expire \/ UNCHANGED vars
  BY <1>1, <1>7 DEF Expire, vars
<1>8. ASSUME NEW p \in Page, FormStep(p) PROVE DeviceOfAccount'
  BY <1>1, <1>2, <1>3, <1>6, <1>8 DEF FormStep
<1>9. ASSUME NEW p \in Page,
             \/ InitStep(p) \/ CheckStep(p) \/ FormStep(p) \/ WriteStep(p)
             \/ \E k \in Flow : OpenFails(p, k)
             \/ DeleteUnblocked(p) \/ Collect(p)
             \/ Load(p) \/ SendForm(p) \/ StartWrite(p)
      PROVE  DeviceOfAccount'
  BY <1>1, <1>4, <1>5, <1>8, <1>9
<1> QED
  BY <1>7, <1>9 DEF Next

\* No database ever holds the device id another account was given: the init that
\* handleLogin and handleRegister await before setDeviceId leaves the adapter with the
\* database of the account that signs in, however the page's other flows interleave.
THEOREM DeviceOfAccountAlways == ASSUME Conditions PROVE Spec => []DeviceOfAccount
<1>1. Init => DeviceOfAccount
  BY DEF Init, DeviceOfAccount
<1> QED
  BY <1>1, InitType, InitSound, StepType, StepSound, DeviceSteps, PTL DEF Spec

-----------------------------------------------------------------------------
(* Where a write lands                                                     *)

\* A write under way is made for the user the page shows, or the page has been signed
\* out since and nothing goes on in it; the promise it awaits is that user's, was
\* rejected, or is one that nothing will resolve while the write waits.
WriteSound(pg, fl) ==
    LET w == fl["write"] IN
    /\ w.stage # "idle" =>
          \/ pg.user = w.for
          \/ pg.userId = None /\ pg.user = None /\ \A k \in Starter : Resting(fl, k)
    /\ w.stage = "put" => w.slot \in DOMAIN pg.promise
                          /\ pg.promise[w.slot] \in {w.for, "rejected", "pending"}
WritesSound == \A p \in Page : WriteSound(page[p], flow[p])

\* The steps of a page's load, form and cold start leave its write and the other pages.
LEMMA StarterSteps ==
    ASSUME TypeInv, NEW p \in Page,
           \/ InitStep(p) \/ CheckStep(p) \/ FormStep(p) \/ SendForm(p)
           \/ \E k \in Flow : OpenFails(p, k)
    PROVE  /\ flow'[p]["write"] = flow[p]["write"]
           /\ \A o \in Page : o # p => page'[o] = page[o] /\ flow'[o] = flow[o]
<1>1. GoodFlows(flow[p])
  BY FlowGood DEF GoodFlows
<1>2. ASSUME NEW k \in Starter, NEW g, Takes(p, k, g)
      PROVE  /\ flow'[p]["write"] = flow[p]["write"]
             /\ \A o \in Page : o # p => flow'[o] = flow[o]
  BY <1>2 DEF Takes, TypeInv, FlowsTyped, Flow, Starter
<1>3. ASSUME NEW k \in Starter, NEW stage, NEW f, NEW pg, Goes(p, k, stage, f, pg)
      PROVE  \E g : Takes(p, k, g)
  BY <1>3 DEF Goes, Takes
<1>4. ASSUME NEW k \in Starter, NEW pg, Fails(p, k, pg)
      PROVE  (\E g : Takes(p, k, g)) /\ \E q : Becomes(p, q)
  <2>1. \/ Becomes(p, SignedOut(pg)) \/ Becomes(p, Reset(pg)) \/ Becomes(p, pg)
    BY <1>4, Zenon DEF Fails
  <2>2. Takes(p, k, Idle)
    BY <1>4 DEF Fails, Takes
  <2> QED BY <2>1, <2>2
<1>5. ASSUME NEW k \in Flow, CallInit(p, k) \/ Race(p, k) \/ Opened(p, k) \/ OpenFails(p, k)
      PROVE  k \in Starter
  BY <1>1, <1>5, FlowAt, FlowNames DEF CallInit, Race, Opened, OpenFails, Starter
<1> DEFINE Moves == (\E k \in Starter : \E g : Takes(p, k, g)) /\ (page' = page \/ \E q : Becomes(p, q))
<1>6. ASSUME NEW k \in Flow, CallInit(p, k) PROVE Moves
  <2>1. k \in Starter
    BY <1>5, <1>6
  <2>2. page' = page \/ \E q : Becomes(p, q)
    BY <1>6 DEF CallInit
  <2>3. \/ Goes(p, k, AfterInit(flow[p][k].stage), flow[p][k], page[p])
        \/ flow' = [flow EXCEPT ![p][k].at = "race", ![p][k].slot = page[p].slot]
        \/ flow' = [flow EXCEPT ![p][k].at = "open"]
    BY <1>6 DEF CallInit
  <2>4. CASE flow' = [flow EXCEPT ![p][k].at = "race", ![p][k].slot = page[p].slot]
    <3>1. flow' = [flow EXCEPT ![p][k] = [flow[p][k] EXCEPT !.at = "race", !.slot = page[p].slot]]
      BY <2>4 DEF TypeInv, FlowsTyped
    <3> QED BY <2>1, <2>2, <3>1 DEF Takes
  <2>5. CASE flow' = [flow EXCEPT ![p][k].at = "open"]
    <3>1. flow' = [flow EXCEPT ![p][k] = [flow[p][k] EXCEPT !.at = "open"]]
      BY <2>5 DEF TypeInv, FlowsTyped
    <3> QED BY <2>1, <2>2, <3>1 DEF Takes
  <2> QED BY <1>3, <2>1, <2>2, <2>3, <2>4, <2>5
<1>7. ASSUME NEW k \in Flow, Race(p, k) PROVE Moves
  <2>1. k \in Starter /\ flow' = [flow EXCEPT ![p][k].at = "open"]
    BY <1>5, <1>7 DEF Race
  <2>2. \E q : Becomes(p, q)
    BY <1>7 DEF Race
  <2>3. flow' = [flow EXCEPT ![p][k] = [flow[p][k] EXCEPT !.at = "open"]]
    BY <2>1 DEF TypeInv, FlowsTyped
  <2> QED BY <2>1, <2>2, <2>3 DEF Takes
<1>8. ASSUME NEW k \in Flow, Opened(p, k) PROVE Moves
  <2>1. k \in Starter /\ \E q : Becomes(p, q)
    BY <1>5, <1>8 DEF Opened
  <2>2. \E stage, f, pg : Goes(p, k, stage, f, pg)
    BY <1>8, Zenon DEF Opened
  <2> QED BY <1>3, <2>1, <2>2
<1>9. ASSUME NEW k \in Flow, OpenFails(p, k) PROVE Moves
  <2>1. k \in Starter /\ \E q : Fails(p, k, q)
    BY <1>5, <1>9, Zenon DEF OpenFails
  <2> QED BY <1>4, <2>1
<1>10. ASSUME NEW k \in {"load", "form"}, GetMe(p, k) \/ CheckLocks(p, k) PROVE Moves
  <2>1. k \in Starter /\ (page' = page \/ \E q : Becomes(p, q))
    BY <1>10 DEF GetMe, CheckLocks, Starter
  <2>2. \E stage, f, pg : Goes(p, k, stage, f, pg)
    BY <1>10, Zenon DEF GetMe, CheckLocks
  <2> QED BY <1>3, <2>1, <2>2
<1>11. "form" \in Starter
  BY DEF Starter
<1>12. ASSUME \/ ReadDevice(p) \/ Locks(p) \/ Register(p) \/ Hash(p)
              \/ LogOut(p) \/ Delete(p) \/ Wipe(p) \/ SendForm(p)
       PROVE  Moves
  <2>1. page' = page \/ \E q : Becomes(p, q)
    BY <1>12, Zenon DEF ReadDevice, Locks, Register, Hash, LogOut, Delete, Wipe, SendForm
  <2>2. \E stage, f, pg : Goes(p, "form", stage, f, pg)
    BY <1>12, Zenon DEF ReadDevice, Locks, Register, Hash, LogOut, Delete, Wipe, SendForm
  <2> QED BY <1>3, <1>11, <2>1, <2>2
<1>13. ASSUME \/ LogIn(p) \/ WriteDevice(p, "write device", "get me")
              \/ WriteDevice(p, "write first device", "idle")
       PROVE  Moves
  <2>1. \/ Fails(p, "form", page[p])
        \/ page' = page /\ \E stage, f, pg : Goes(p, "form", stage, f, pg)
    BY <1>13, Zenon DEF LogIn, WriteDevice
  <2> QED BY <1>3, <1>4, <1>11, <2>1
<1>14. Moves
  BY <1>6, <1>7, <1>8, <1>9, <1>10, <1>12, <1>13 DEF InitStep, CheckStep, FormStep
<1>15. ASSUME NEW q, Becomes(p, q) PROVE \A o \in Page : o # p => page'[o] = page[o]
  BY <1>15, OnePageBecomes
<1> QED
  BY <1>2, <1>14, <1>15

\* While a write is under way the page's other flows rest, or a form leaves.
LEMMA Undisturbed ==
    ASSUME TypeInv, PagesSound, WritesSound, NEW p \in Page, flow[p]["write"].stage # "idle"
    PROVE  /\ flow[p]["boot"].stage = "idle" /\ flow[p]["load"].stage = "idle"
           /\ flow[p]["form"].stage \in Leaving
           /\ \A k \in Flow : flow[p][k].at = "await"
<1> DEFINE fl == flow[p]  pg == page[p]
<1>1. GoodPage(pg) /\ GoodFlows(fl) /\ PageSound(pg, fl) /\ InTurn(pg, fl)
  BY PageFacts
<1>2. fl["write"].for # None
  <2>1. GoodFlow("write", fl["write"])
    BY <1>1, FlowNames DEF GoodFlows
  <2>2. fl["write"].stage \in {"encrypt", "put"}
    BY <2>1 DEF GoodFlow, FlowFits
  <2> QED BY <2>1, <2>2, LifecycleAssumption DEF GoodFlow, FlowFits, ForSomebody
<1>3. fl["boot"].stage = "idle" /\ fl["load"].stage = "idle" /\ fl["form"].stage \in Leaving
  <2>1. CASE pg.user = fl["write"].for
    BY <1>1, <1>2, <2>1 DEF InTurn, Resting
  <2>2. CASE \A k \in Starter : Resting(fl, k)
    BY <2>2 DEF Resting, Starter, Leaving
  <2>3. pg.user = fl["write"].for \/ \A k \in Starter : Resting(fl, k)
    BY DEF WritesSound, WriteSound
  <2> QED BY <2>1, <2>2, <2>3
<1>4. \A k \in Flow : fl[k].at = "await"
  <2>1. Leaving \cap InitStage = {}
    BY DEF Leaving, InitStage
  <2>2. fl["form"].at \notin {"call", "race"}
    BY <1>1, <1>3, <2>1, FlowAt, FlowNames
  <2>3. fl["form"].at # "open"
    <3>1. FlowFits("form", fl["form"]) /\ "boot" \notin Leaving
      BY <1>1, FlowNames DEF GoodFlows, GoodFlow, Leaving
    <3> QED BY <1>3, <2>1, <3>1 DEF FlowFits
  <2> QED BY <1>1, <1>3, <2>2, <2>3, FlowAt, FlowNames
<1> QED
  BY <1>3, <1>4

\* The page is signed out by a form that leaves, and its promises stay.
LEMMA LeaveKeeps ==
    ASSUME TypeInv, NEW p \in Page, WriteSound(page[p], flow[p]),
           flow[p]["boot"].stage = "idle", flow[p]["load"].stage = "idle",
           Takes(p, "form", Idle), NEW q, Becomes(p, q), q.userId = None, q.user = None,
           NEW x, GoodPage(x), x.promise = page[p].promise, x.slot = page[p].slot,
           q.promise = Reset(x).promise
    PROVE  WriteSound(page'[p], flow'[p])
<1> DEFINE fl == flow[p]  gl == flow'[p]  pg == page[p]
<1>1. page'[p] = q
  BY OnePageBecomes
<1>2. Turned(fl, gl, "form", Idle) /\ Idle.stage = "idle"
  BY OneFlowTurns, FlowNames DEF Idle
<1>3. gl["write"] = fl["write"] /\ \A k \in Starter : Resting(gl, k)
  BY <1>2, FlowNames DEF Turned, Resting, Starter
<1>4. GoodPage(Reset(x)) /\ Reset(x).slot = x.slot + 1
      /\ \A i \in 1 .. x.slot : Reset(x).promise[i] = x.promise[i]
  BY ResetGood
<1>5. DOMAIN x.promise = 1 .. x.slot /\ DOMAIN Reset(x).promise = 1 .. x.slot + 1 /\ x.slot \in Nat
  BY <1>4, PageFields
<1>6. \A i \in DOMAIN pg.promise : i \in DOMAIN q.promise /\ q.promise[i] = pg.promise[i]
  <2>1. ASSUME NEW i \in 1 .. x.slot PROVE i \in 1 .. x.slot + 1
    BY <1>5
  <2> QED BY <1>4, <1>5, <2>1
<1> HIDE DEF fl, gl, pg
<1>7. WriteSound(q, gl)
  BY <1>3, <1>6 DEF WriteSound, fl, pg
<1> QED
  BY <1>1, <1>7 DEF gl

LEMMA LeaveWrites ==
    ASSUME TypeInv, PagesSound, WritesSound, NEW p \in Page, flow[p]["write"].stage # "idle",
           LogOut(p) \/ Wipe(p)
    PROVE  WriteSound(page'[p], flow'[p])
<1> DEFINE pg == page[p]  f == flow[p]["form"]
<1>1. /\ flow[p]["boot"].stage = "idle" /\ flow[p]["load"].stage = "idle"
      /\ WriteSound(page[p], flow[p]) /\ GoodPage(pg)
  BY Undisturbed, PageFacts DEF WritesSound
<1>2. Takes(p, "form", Idle)
  BY DEF LogOut, Wipe, Goes, Takes
<1>3. CASE LogOut(p)
  <2> DEFINE q == SignedOut(Reset(pg))
  <2>1. GoodPage(Reset(pg)) /\ Reset(pg).userId = None
    BY <1>1, ResetGood
  <2>2. q.userId = None /\ q.user = None /\ q.promise = Reset(pg).promise
    BY <2>1, SignedOutGood
  <2>3. Becomes(p, q)
    BY <1>3 DEF LogOut
  <2> HIDE DEF q
  <2> QED BY <1>1, <1>2, <2>2, <2>3, LeaveKeeps
<1>4. CASE Wipe(p)
  <2> DEFINE x == [pg EXCEPT !.connections = @ \ (User \X {f.slot})]
             z == SignedOut(Reset(x))  q == [z EXCEPT !.deleting = f.for]
  <2>1. GoodPage(x) /\ x.promise = pg.promise /\ x.slot = pg.slot
    BY <1>1 DEF GoodPage, PageState, Connected
  <2>2. Becomes(p, z) \/ Becomes(p, q)
    <3>1. f.stage = "wipe"
      BY <1>4 DEF Wipe, AtAwait
    <3>2. f.slot # 0
      BY <1>1, <3>1, PageFacts, PageFields DEF PageSound, StageSound
    <3> QED BY <1>4, <3>2, Zenon DEF Wipe
  <2> HIDE DEF x
  <2>3. GoodPage(Reset(x)) /\ Reset(x).userId = None
    BY <2>1, ResetGood
  <2>4. GoodPage(z) /\ z.userId = None /\ z.user = None /\ z.promise = Reset(x).promise
    BY <2>3, SignedOutGood
  <2> HIDE DEF z
  <2>5. q.userId = None /\ q.user = None /\ q.promise = Reset(x).promise
    BY <2>4 DEF GoodPage, PageState
  <2> HIDE DEF q
  <2>6. CASE Becomes(p, z)
    BY <1>1, <1>2, <2>1, <2>4, <2>6, LeaveKeeps
  <2>7. CASE Becomes(p, q)
    BY <1>1, <1>2, <2>1, <2>5, <2>7, LeaveKeeps
  <2> QED BY <2>2, <2>6, <2>7
<1> QED
  BY <1>3, <1>4

\* The steps of a page's load, form and cold start while its write is under way.
LEMMA StarterWrites ==
    ASSUME TypeInv, PagesSound, WritesSound, NEW p \in Page,
           \/ InitStep(p) \/ CheckStep(p) \/ FormStep(p) \/ \E k \in Flow : OpenFails(p, k),
           flow[p]["write"].stage # "idle"
    PROVE  WriteSound(page'[p], flow'[p])
<1> DEFINE fl == flow[p]
<1>1. /\ fl["boot"].stage = "idle" /\ fl["load"].stage = "idle" /\ fl["form"].stage \in Leaving
      /\ \A k \in Flow : fl[k].at = "await"
  BY Undisturbed
<1>2. ~InitStep(p) /\ \A k \in Flow : ~OpenFails(p, k)
  BY <1>1 DEF InitStep, CallInit, Race, Opened, OpenFails
<1>3. ~CheckStep(p)
  BY <1>1 DEF CheckStep, GetMe, CheckLocks, AtAwait, Leaving
<1>4. LogOut(p) \/ Wipe(p) \/ Delete(p)
  <2>1. FormStep(p)
    BY <1>2, <1>3
  <2>2. \A s \in {"read device", "log in", "locks", "register", "hash", "write device", "write first device"} :
            ~AtAwait(p, "form", s)
    BY <1>1 DEF AtAwait, Leaving
  <2> QED BY <2>1, <2>2 DEF FormStep, ReadDevice, LogIn, Locks, Register, Hash, WriteDevice
<1>5. CASE Delete(p)
  <2> DEFINE gl == flow'[p]
  <2>1. GoodFlows(fl) /\ PageSound(page[p], fl) /\ InTurn(page[p], fl) /\ WriteSound(page[p], fl)
    BY PageFacts DEF WritesSound
  <2>2. page[p].user # None /\ page' = page
    BY <1>5, <2>1 DEF Delete, AtAwait, InTurn, Leaving
  <2>3. gl["write"] = fl["write"]
    BY <1>5, StarterSteps DEF FormStep
  <2> HIDE DEF gl, fl
  <2>4. WriteSound(page[p], gl)
    BY <2>1, <2>2, <2>3 DEF WriteSound
  <2> QED BY <2>2, <2>4 DEF gl
<1> QED
  BY <1>4, <1>5, LeaveWrites

\* A write that starts takes the user's name; one that goes on takes the promise of the
\* moment: the user's own, or, on a page signed out since, one nobody resolves.
LEMMA WriteFlowWrites ==
    ASSUME TypeInv, PagesSound, WritesSound, NEW p \in Page, StartWrite(p) \/ WriteStep(p)
    PROVE  WriteSound(page'[p], flow'[p])
<1> DEFINE fl == flow[p]  gl == flow'[p]  pg == page[p]
<1>1. /\ GoodPage(pg) /\ GoodFlows(fl) /\ PageSound(pg, fl) /\ InTurn(pg, fl)
      /\ WriteSound(pg, fl)
  BY PageFacts DEF WritesSound
<1>2. /\ page' = page /\ \A k \in Starter : gl[k] = fl[k]
      /\ gl["write"].stage # "idle"
           => /\ gl["write"].for = IF fl["write"].stage = "idle" THEN pg.user ELSE fl["write"].for
              /\ fl["write"].stage = "idle" => pg.user # None
      /\ gl["write"].stage = "put" => fl["write"].stage = "encrypt" /\ gl["write"].slot = pg.slot
  BY WriteSteps
<1>3. ASSUME gl["write"].stage # "idle"
      PROVE  \/ pg.user = gl["write"].for
             \/ pg.userId = None /\ pg.user = None /\ \A k \in Starter : Resting(gl, k)
  BY <1>1, <1>2, <1>3 DEF WriteSound, Resting
<1>4. ASSUME gl["write"].stage = "put"
      PROVE  /\ gl["write"].slot \in DOMAIN pg.promise
             /\ pg.promise[gl["write"].slot] \in {gl["write"].for, "rejected", "pending"}
  <2>1. gl["write"].slot = pg.slot /\ pg.slot \in DOMAIN pg.promise
    BY <1>1, <1>2, <1>4, PageFields
  <2>2. CASE pg.user = gl["write"].for /\ pg.user # None
    <3>1. pg.userId = gl["write"].for /\ pg.userId # None
      BY <1>1, <2>2 DEF InTurn
    <3> QED BY <1>1, <2>1, <3>1 DEF PageSound, Promised
  <2>3. CASE pg.userId = None
    BY <1>1, <2>1, <2>3 DEF PageSound, Promised
  <2>4. pg.user = None => pg.userId = None
    <3>1. GoodFlow("write", fl["write"]) /\ fl["write"].stage = "encrypt"
      BY <1>1, <1>2, <1>4, FlowNames DEF GoodFlows
    <3>2. fl["write"].for # None
      BY <3>1, LifecycleAssumption DEF GoodFlow, FlowFits, ForSomebody
    <3> QED BY <1>1, <3>1, <3>2 DEF WriteSound
  <2>5. gl["write"].stage # "idle"
    BY <1>4
  <2> QED BY <1>3, <2>2, <2>3, <2>4, <2>5
<1> HIDE DEF fl, gl, pg
<1>5. WriteSound(pg, gl)
  BY <1>3, <1>4 DEF WriteSound
<1> QED
  BY <1>2, <1>5 DEF pg, gl

LEMMA WritesStep ==
    ASSUME Conditions, QuietForms
    PROVE  TypeInv /\ PagesSound /\ WritesSound /\ [Next]_vars => WritesSound'
<1> SUFFICES ASSUME TypeInv, PagesSound, WritesSound, [Next]_vars PROVE WritesSound'
  OBVIOUS
<1>1. ASSUME NEW p \in Page, WriteSound(page'[p], flow'[p]),
             \A o \in Page : o # p => page'[o] = page[o] /\ flow'[o] = flow[o]
      PROVE  WritesSound'
  BY <1>1 DEF WritesSound
<1>2. ASSUME NEW p \in Page, flow'[p]["write"].stage = "idle",
             \A o \in Page : o # p => page'[o] = page[o] /\ flow'[o] = flow[o]
      PROVE  WritesSound'
  <2>1. WriteSound(page'[p], flow'[p])
    BY <1>2 DEF WriteSound
  <2> QED BY <1>1, <1>2, <2>1
<1>3. ASSUME NEW p \in Page,
             InitStep(p) \/ CheckStep(p) \/ FormStep(p) \/ \E k \in Flow : OpenFails(p, k)
      PROVE  WritesSound'
  <2>1. /\ flow'[p]["write"] = flow[p]["write"]
        /\ \A o \in Page : o # p => page'[o] = page[o] /\ flow'[o] = flow[o]
    BY <1>3, StarterSteps
  <2>2. CASE flow[p]["write"].stage = "idle"
    BY <1>2, <2>1, <2>2
  <2>3. CASE flow[p]["write"].stage # "idle"
    BY <1>1, <1>3, <2>1, <2>3, StarterWrites
  <2> QED BY <2>2, <2>3
<1>4. ASSUME NEW p \in Page, SendForm(p) PROVE WritesSound'
  <2>1. /\ flow'[p]["write"] = flow[p]["write"]
        /\ \A o \in Page : o # p => page'[o] = page[o] /\ flow'[o] = flow[o]
    BY <1>4, StarterSteps
  <2>2. flow[p]["write"].stage = "idle"
    BY <1>4 DEF SendForm
  <2> QED BY <1>2, <2>1, <2>2
<1>5. ASSUME NEW p \in Page, StartWrite(p) \/ WriteStep(p) PROVE WritesSound'
  <2>1. \A o \in Page : o # p => page'[o] = page[o] /\ flow'[o] = flow[o]
    BY <1>5, WriteSteps
  <2> QED BY <1>1, <1>5, <2>1, WriteFlowWrites
<1>6. ASSUME NEW p \in Page, Load(p) PROVE WritesSound'
  <2>1. /\ flow'[p]["write"] = Idle /\ \A o \in Page : o # p => flow'[o] = flow[o]
    BY <1>6, FlowNames DEF Load, TypeInv, FlowsTyped
  <2>2. \A o \in Page : o # p => page'[o] = page[o]
    BY <1>6, OnePageBecomes DEF Load
  <2> QED BY <1>2, <2>1, <2>2 DEF Idle
<1>7. ASSUME NEW p \in Page, DeleteUnblocked(p) \/ Collect(p) PROVE WritesSound'
  <2>1. flow' = flow /\ GoodPage(page[p]) /\ WriteSound(page[p], flow[p])
    BY <1>7, PageGood DEF DeleteUnblocked, Collect, WritesSound
  <2>2. PICK q : /\ Becomes(p, q) /\ q.userId = page[p].userId /\ q.user = page[p].user
                 /\ q.promise = page[p].promise
    <3>1. \/ Becomes(p, [page[p] EXCEPT !.deleting = None])
          \/ \E c : Becomes(p, [page[p] EXCEPT !.connections = @ \ {c}])
      BY <1>7 DEF DeleteUnblocked, Collect
    <3>2. CASE Becomes(p, [page[p] EXCEPT !.deleting = None])
      <4> DEFINE q == [page[p] EXCEPT !.deleting = None]
      <4>1. q.userId = page[p].userId /\ q.user = page[p].user /\ q.promise = page[p].promise
        BY <2>1 DEF GoodPage, PageState
      <4> QED BY <3>2, <4>1
    <3>3. ASSUME NEW c, Becomes(p, [page[p] EXCEPT !.connections = @ \ {c}])
          PROVE  \E q : /\ Becomes(p, q) /\ q.userId = page[p].userId /\ q.user = page[p].user
                        /\ q.promise = page[p].promise
      <4> DEFINE q == [page[p] EXCEPT !.connections = @ \ {c}]
      <4>1. q.userId = page[p].userId /\ q.user = page[p].user /\ q.promise = page[p].promise
        BY <2>1 DEF GoodPage, PageState
      <4> QED BY <3>3, <4>1
    <3> QED BY <3>1, <3>2, <3>3
  <2>3. page'[p] = q /\ \A o \in Page : o # p => page'[o] = page[o]
    BY <2>2, OnePageBecomes
  <2>4. WriteSound(q, flow[p])
    BY <2>1, <2>2 DEF WriteSound
  <2> QED BY <1>1, <2>1, <2>3, <2>4
<1>8. CASE Expire \/ UNCHANGED vars
  BY <1>8 DEF Expire, vars, WritesSound
<1> QED
  BY <1>3, <1>4, <1>5, <1>6, <1>7, <1>8 DEF Next

LEMMA LandedStep ==
    TypeInv /\ PagesSound /\ WritesSound /\ WritesStayHome /\ [Next]_vars => WritesStayHome'
<1> SUFFICES ASSUME TypeInv, WritesSound, WritesStayHome, [Next]_vars PROVE WritesStayHome'
  OBVIOUS
<1>1. ASSUME NEW p \in Page, Put(p) PROVE WritesStayHome'
  <2> DEFINE w == flow[p]["write"]  d == Database(p, w.slot)
  <2>1. w.stage = "put" /\ landed' = landed \cup ({<<w.for, d>>} \cap (User \X User))
    BY <1>1 DEF Put, AtAwait
  <2>2. d \in {None, w.for, "rejected", "pending"}
    BY <2>1 DEF WritesSound, WriteSound, Database
  <2>3. d \in User => d = w.for
    BY <2>2, LifecycleAssumption
  <2> HIDE DEF d, w
  <2> QED BY <2>1, <2>3 DEF WritesStayHome
<1>2. ASSUME NEW p \in Page,
             \/ InitStep(p) \/ CheckStep(p) \/ Encrypt(p) \/ DeleteUnblocked(p) \/ Collect(p)
             \/ Load(p) \/ SendForm(p) \/ StartWrite(p) \/ \E k \in Flow : OpenFails(p, k)
      PROVE  landed' = landed
  BY <1>2 DEF InitStep, CallInit, Race, Opened, CheckStep, GetMe, CheckLocks, Encrypt,
              DeleteUnblocked, Collect, Load, SendForm, StartWrite, OpenFails
<1>3. ASSUME NEW p \in Page, FormStep(p) PROVE landed' = landed
  BY <1>3 DEF FormStep, ReadDevice, LogIn, Locks, Register, Hash, WriteDevice, LogOut, Delete, Wipe
<1>4. landed' = landed => WritesStayHome'
  BY DEF WritesStayHome
<1>5. CASE Expire \/ UNCHANGED vars
  BY <1>4, <1>5 DEF Expire, vars
<1> QED
  BY <1>1, <1>2, <1>3, <1>4, <1>5 DEF Next, WriteStep

\* What is encrypted for a user reaches no other user's database, although the write
\* awaits the adapter's promise only after it has encrypted, and logouts, deletions and
\* loads come between: provided no form is sent while a write is under way.
THEOREM WritesStayHomeAlways ==
    ASSUME Conditions, QuietForms PROVE Spec => []WritesStayHome
<1>1. Init => WritesSound /\ WritesStayHome
  <2> SUFFICES ASSUME Init PROVE WritesSound /\ WritesStayHome
    OBVIOUS
  <2>1. \A p \in Page : flow[p]["write"].stage = "idle"
    BY FlowNames DEF Init, Idle
  <2> QED BY <2>1 DEF Init, WritesSound, WriteSound, WritesStayHome
<1> QED
  BY <1>1, InitType, InitSound, StepType, StepSound, WritesStep, LandedStep, PTL DEF Spec

=============================================================================
