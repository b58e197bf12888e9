-------------------------- MODULE DetailPanel_proofs --------------------------
(***************************************************************************)
(* For any assets, slots and numbers of changes, and any order of answers:  *)
(* a list that is shown is the selected node's and, if nothing overlapped   *)
(* or was lost, the one the server has; one form makes one record; holdings *)
(* are valued at the prices that were fetched for them.                     *)
(***************************************************************************)
EXTENDS DetailPanel, FiniteSetTheorems, TLAPS

----------------------------------------------------------------------------
(* The inductive invariant.                                                *)

ListOps == {"load", "save", "merge", "delete"}

Saves == {"save", "merge"}

TabType == [kind : ListTabIds \union {"none"}, shown : Contents, loading : BOOLEAN,
            error : BOOLEAN, form : FormType, filter : Filters,
            remembered : SUBSET [node : Nodes, filter : Filters]]

SummaryType == [mounted : BOOLEAN, shown : Contents, loading : BOOLEAN, error : BOOLEAN,
                pricing : BOOLEAN, price : Assets \union {None}, priceError : BOOLEAN,
                weight : Assets \union {None}]

HoldingsType == [mounted : BOOLEAN, items : Contents,
                 rows : [Assets -> {"none", "loading", "known", "failed"}],
                 loading : BOOLEAN, error : BOOLEAN]

Typed == TypeOK /\ requests \in [Slots -> RequestType] /\ tab \in TabType

\* The tab that is mounted is the open one, and its list is the selected node's.
TabFits ==
    /\ activeTab \in IF selectedNode = None THEN {"summary"} ELSE TabsOf(selectedNode)
    /\ tab.kind = IF activeTab \in ListTabIds THEN activeTab ELSE "none"
    /\ tab.kind = "none" => tab = NoTab
    /\ tab.shown # None => tab.shown.of = selectedNode
    /\ summary.mounted => activeTab = "summary" /\ selectedNode \in Assets
    /\ holdings.mounted => activeTab = "holdings" /\ selectedNode = Portfolio

\* What is true of a request whatever is shown.
RequestSound(r) ==
    /\ r.op = "free" => ~r.live
    /\ r.op # "free" => r.node \in Nodes
    /\ r.op \in TabWrites \union SummaryOps => r.node \in Assets
    /\ r.op \in {"load", "asset", "weight", "reread", "itemsReread"} => r.live
    /\ r.mine => r.live /\ r.op \in Saves
    /\ r.is = "ok" => r.answer.of = r.node
    /\ r.op = "rows" => r.is = "sent"

\* A request that is waited for was sent by the tab that is mounted.
Owned(r) ==
    \/ r.op \in ListOps /\ tab.kind # "none" /\ r.node = selectedNode
    \/ r.op \in SummaryOps /\ summary.mounted
    \/ r.op \in HoldingsOps /\ holdings.mounted /\ r.node = selectedNode

RequestsFit ==
    \A i \in Slots : RequestSound(requests[i]) /\ (requests[i].live => Owned(requests[i]))

AtMostOne == \A i, j \in UnderWay : i = j

Answered == \E i \in UnderWay : requests[i].is = "ok"

\* As long as nothing has overlapped or been lost, an answer that is on its way is
\* what the server has, and so is the list when none is.
AnswersCurrent ==
    \A i \in UnderWay :
        /\ requests[i].live /\ requests[i].is # "lost"
        /\ requests[i].is = "ok" => requests[i].answer = Content(selectedNode)

ListCurrent ==
    (tab.kind # "none" /\ mishaps \intersect {"overlap", "lost"} = {}) =>
        /\ AtMostOne /\ AnswersCurrent
        /\ (~tab.loading /\ ~tab.error /\ ~Answered) => tab.shown = Content(selectedNode)

\* The open form has at most one save under way, and has landed once it is answered.
OneSave ==
    /\ landed <= 1
    /\ \A i, j \in Live(Saves) : i = j
    /\ \A i \in Live(Saves) :
          /\ Saving /\ requests[i].mine /\ requests[i].is # "lost"
          /\ requests[i].is = "sent" => landed = 0
    /\ Live(Saves) = {} => landed = 0

FormFits ==
    /\ tab.form.open = "none" => landed = 0 /\ \A i \in Slots : ~requests[i].mine
    /\ landed = 0 \/ (selectedNode \in Assets /\ landed <= version[selectedNode])
    /\ (tab.form.open # "none" /\ mishaps \intersect {"lost", "abandoned"} = {}) => OneSave

\* What is known of the rows while request r is under way.
RowsFit(r) ==
    /\ r.op = "rows" =>
          \A a \in Assets : /\ holdings.rows[a] # "none"
                            /\ a \notin r.left => holdings.rows[a] # "loading"
    /\ r.op = "itemsReread" => \A a \in Assets : holdings.rows[a] # "loading"

HoldingsFit ==
    (holdings.mounted /\ mishaps = {}) =>
        /\ AtMostOne /\ AnswersCurrent
        /\ \A i \in UnderWay : RowsFit(requests[i])
        /\ (UnderWay = {} /\ ~holdings.loading /\ ~holdings.error) =>
              /\ holdings.items = Content(selectedNode)
              /\ \A a \in Assets : holdings.rows[a] # "loading"

IInv == Typed /\ TabFits /\ RequestsFit /\ ListCurrent /\ FormFits /\ HoldingsFit

----------------------------------------------------------------------------
(* The requests.                                                           *)

LEMMA NodesApart ==
    /\ None \notin Nodes /\ Portfolio \notin Assets /\ Portfolio \in Nodes /\ Assets \subseteq Nodes
    /\ \A n \in Nodes : n \in Assets \/ n = Portfolio
BY DetailAssumption DEF Nodes

LEMMA ContentTyped ==
    ASSUME Typed, NEW n \in Nodes
    PROVE  Content(n) \in Contents /\ Content(n).of = n
<1>1. version \in [Assets -> 0..MaxChanges]
  BY DEF Typed, TypeOK, SharedTypeOK
<1>2. Under(n) \subseteq Assets
  BY DEF Under
<1>3. Content(n) \in [of : {n}, at : [Under(n) -> 0..MaxChanges]]
  BY <1>1, <1>2 DEF Content
<1> QED BY <1>3 DEF Contents

LEMMA FreeTyped ==
    /\ Free \in RequestType /\ RequestSound(Free)
    /\ Free.op = "free" /\ ~Free.live /\ ~Free.mine
BY DEF Free, RequestType, RequestSound, Contents, TabWrites, SummaryOps

LEMMA RequestFields ==
    ASSUME NEW op \in ListOps \union SummaryOps \union HoldingsOps, NEW n \in Nodes
    PROVE  LET r == Request(op, n)
           IN  /\ r \in RequestType
               /\ r.op = op /\ r.node = n /\ r.live /\ r.is = "sent"
               /\ r.op # "free"
               /\ r.mine <=> op \in Saves
               /\ r.left = IF op = "rows" THEN Assets ELSE {}
               /\ (op \in TabWrites \union SummaryOps => n \in Assets) => RequestSound(r)
<1> DEFINE l == IF op = "rows" THEN Assets ELSE {}
<1> DEFINE m == op \in {"save", "merge"}
<1>1. m \in BOOLEAN /\ (m <=> op \in Saves)
  BY DEF Saves
<1>0. Request(op, n) = [Free EXCEPT !.op = op, !.node = n, !.live = TRUE, !.mine = m, !.left = l]
  BY DEF Request
<1> HIDE DEF m
<1>2. Request(op, n) = [op |-> op, node |-> n, is |-> "sent", answer |-> None,
                        mine |-> m, live |-> TRUE, left |-> l]
  BY <1>0 DEF Free
<1>3. /\ op \in {"free", "load"} \union TabWrites \union SummaryOps \union HoldingsOps
      /\ op # "free" /\ None \in Contents /\ l \subseteq Assets
  BY DEF ListOps, SummaryOps, HoldingsOps, TabWrites, Contents
<1> HIDE DEF l
<1>4. Request(op, n) \in RequestType
  BY <1>1, <1>2, <1>3 DEF RequestType
<1>5. /\ Request(op, n).op = op /\ Request(op, n).node = n /\ Request(op, n).live
      /\ Request(op, n).is = "sent" /\ Request(op, n).left = l
      /\ Request(op, n).mine <=> op \in Saves
  BY <1>1, <1>2
<1>6. (op \in TabWrites \union SummaryOps => n \in Assets) => RequestSound(Request(op, n))
  BY <1>3, <1>5 DEF RequestSound
<1> QED BY <1>3, <1>4, <1>5, <1>6 DEF l

LEMMA WithSlots ==
    ASSUME NEW rs \in [Slots -> RequestType], NEW q \in RequestType
    PROVE  /\ With(rs, q) \in [Slots -> RequestType]
           /\ \E i : \A j \in Slots : With(rs, q)[j] = IF j = i THEN q ELSE rs[j]
BY DEF With

\* With room for it, a new request takes the place of none.
LEMMA WithRoom ==
    ASSUME NEW rs \in [Slots -> RequestType], NEW q \in RequestType, HasRoom(rs, 1)
    PROVE  /\ With(rs, q) \in [Slots -> RequestType]
           /\ \E i \in Slots :
                 /\ rs[i].op = "free"
                 /\ \A j \in Slots : With(rs, q)[j] = IF j = i THEN q ELSE rs[j]
<1> DEFINE S == {i \in Slots : rs[i].op = "free"}
<1>1. IsFiniteSet(S) /\ Cardinality(S) >= 1
  BY DetailAssumption, FS_Subset DEF HasRoom
<1>2. S # {}
  BY <1>1, FS_EmptySet
<1>3. PICK i \in Slots : /\ rs[i].op = "free"
                         /\ i = CHOOSE j \in Slots : rs[j].op = "free"
  BY <1>2
<1> QED BY <1>3 DEF With

LEMMA NoneMineSlots ==
    ASSUME NEW rs \in [Slots -> RequestType]
    PROVE  /\ NoneMine(rs) \in [Slots -> RequestType]
           /\ \A i \in Slots :
                 /\ NoneMine(rs)[i].op = rs[i].op /\ NoneMine(rs)[i].node = rs[i].node
                 /\ NoneMine(rs)[i].is = rs[i].is /\ NoneMine(rs)[i].answer = rs[i].answer
                 /\ NoneMine(rs)[i].live = rs[i].live /\ ~NoneMine(rs)[i].mine
                 /\ RequestSound(rs[i]) => RequestSound(NoneMine(rs)[i])
<1>1. \A i \in Slots : rs[i] \in RequestType /\ NoneMine(rs)[i] = [rs[i] EXCEPT !.mine = FALSE]
  BY DEF NoneMine
<1>2. ASSUME NEW r \in RequestType
      PROVE  LET s == [r EXCEPT !.mine = FALSE]
             IN  /\ s \in RequestType
                 /\ s.op = r.op /\ s.node = r.node /\ s.is = r.is /\ s.answer = r.answer
                 /\ s.live = r.live /\ ~s.mine
  BY DEF RequestType
<1>3. NoneMine(rs) \in [Slots -> RequestType]
  BY <1>1, <1>2 DEF NoneMine
<1>4. ASSUME NEW i \in Slots, RequestSound(rs[i]) PROVE RequestSound(NoneMine(rs)[i])
  <2>1. /\ NoneMine(rs)[i].op = rs[i].op /\ NoneMine(rs)[i].node = rs[i].node
        /\ NoneMine(rs)[i].is = rs[i].is /\ NoneMine(rs)[i].answer = rs[i].answer
        /\ NoneMine(rs)[i].live = rs[i].live /\ ~NoneMine(rs)[i].mine
    BY <1>1, <1>2
  <2> QED BY <1>4, <2>1 DEF RequestSound
<1> QED BY <1>1, <1>2, <1>3, <1>4

\* What is left of an unmounted tab's requests is waited for by nobody.
LEMMA OrphanedSlots ==
    ASSUME Typed, RequestsFit
    PROVE  /\ Orphaned \in [Slots -> RequestType]
           /\ \A i \in Slots : RequestSound(Orphaned[i]) /\ ~Orphaned[i].live /\ ~Orphaned[i].mine
<1>1. ASSUME NEW i \in Slots
      PROVE  /\ Orphaned[i] \in RequestType
             /\ RequestSound(Orphaned[i]) /\ ~Orphaned[i].live /\ ~Orphaned[i].mine
  <2> DEFINE r == requests[i]
             s == [r EXCEPT !.live = FALSE, !.mine = FALSE]
  <2>1. r \in RequestType /\ RequestSound(r)
    BY DEF Typed, RequestsFit
  <2> DEFINE Stays == r.op = "items" \/ (r.op \in TabWrites \union {"price", "rows"} /\ r.is = "sent")
  <2>2. CASE Stays
    <3>1. Orphaned[i] = s
      BY <2>2 DEF Orphaned
    <3>2. /\ s \in RequestType /\ s.op = r.op /\ s.node = r.node /\ s.is = r.is
          /\ s.answer = r.answer /\ ~s.live /\ ~s.mine
      BY <2>1 DEF RequestType
    <3>3. RequestSound(s)
      <4> HIDE DEF s, r
      <4> QED BY <2>1, <2>2, <3>2 DEF RequestSound, TabWrites, SummaryOps
    <3> QED BY <3>1, <3>2, <3>3
  <2>3. CASE ~Stays
    <3>1. Orphaned[i] = Free
      BY <2>3 DEF Orphaned
    <3> QED BY <3>1, FreeTyped
  <2> QED BY <2>2, <2>3
<1>2. Orphaned = [i \in Slots |-> Orphaned[i]]
  BY DEF Orphaned
<1> HIDE DEF Orphaned
<1> QED BY <1>1, <1>2

\* A request goes away.
LEMMA WithoutSlots ==
    ASSUME Typed, NEW i \in Slots
    PROVE  /\ Without(i) \in [Slots -> RequestType]
           /\ \A j \in Slots : Without(i)[j] = IF j = i THEN Free ELSE requests[j]
BY FreeTyped DEF Typed, Without

LEMMA SlotTyped ==
    ASSUME Typed, NEW i \in Slots
    PROVE  /\ requests[i] \in RequestType
           /\ requests[i].op \in {"free"} \union ListOps \union SummaryOps \union HoldingsOps
           /\ requests[i].is \in {"sent", "ok", "lost"} /\ requests[i].answer \in Contents
           /\ requests[i].live \in BOOLEAN /\ requests[i].mine \in BOOLEAN
           /\ requests[i].left \subseteq Assets
BY DEF Typed, RequestType, ListOps, TabWrites

----------------------------------------------------------------------------
(* Steps of a list tab.                                                    *)

\* The rows with their buttons are there only for an asset.
LEMMA ListIsOfAsset ==
    ASSUME IInv
    PROVE  /\ Mounted => tab.kind \in ListTabIds /\ selectedNode \in Nodes
           /\ Mounted => ~summary.mounted /\ ~holdings.mounted
           /\ ListShown => selectedNode \in Assets
<1>1. Mounted => tab.kind \in ListTabIds /\ activeTab = tab.kind
  BY DEF IInv, TabFits, Mounted
<1>2. Mounted => selectedNode # None /\ selectedNode \in Nodes
  BY <1>1 DEF IInv, TabFits, ListTabIds, Typed, TypeOK, SharedTypeOK
<1>3. Mounted => ~summary.mounted /\ ~holdings.mounted
  BY <1>1 DEF IInv, TabFits, ListTabIds
<1>4. ASSUME ListShown, selectedNode \notin Assets PROVE FALSE
  <2>1. tab.kind \in ListTabIds /\ activeTab = tab.kind /\ selectedNode \in View.rowsOf
    BY <1>1, <1>4 DEF ListShown
  <2>2. activeTab \in PortfolioTabs
    BY <1>2, <1>4 DEF ListShown, IInv, TabFits, TabsOf
  <2>3. tab.kind \in {"transactions", "credits"}
    BY <2>1, <2>2 DEF ListTabIds, PortfolioTabs
  <2>4. View.rowsOf = Assets
    BY <2>3 DEF View, ListTabOf, TransactionsTab, CreditsTab
  <2> QED BY <1>4, <2>1, <2>4
<1> QED BY <1>1, <1>2, <1>3, <1>4

\* A step that changes neither the requests nor what the list shows.
LEMMA AsideStep ==
    ASSUME IInv, UNCHANGED <<shared, landed, summaryVars, activeTab>>,
           types' \in {"loading", "loaded", "error"},
           tab' \in TabType, tab'.kind = tab.kind, tab'.shown = tab.shown,
           tab'.loading = tab.loading, tab'.error = tab.error,
           tab'.form.open = tab.form.open, Saving => Saving',
           tab.kind # "none" \/ tab' = tab
    PROVE  IInv'
<1> USE DEF shared, summaryVars, IInv
<1>1. Typed'
  BY DEF Typed, TypeOK, SharedTypeOK, ListTypeOK, SummaryTypeOK, TabType
<1>2. TabFits'
  BY DEF TabFits
<1>3. RequestsFit'
  BY DEF RequestsFit, Owned
<1>4. /\ UnderWay' = UnderWay /\ Live(Saves)' = Live(Saves)
      /\ Content(selectedNode)' = Content(selectedNode)
  BY DEF UnderWay, Live, Content
<1>5. AtMostOne' = AtMostOne /\ AnswersCurrent' = AnswersCurrent /\ Answered' = Answered
  BY <1>4 DEF AtMostOne, AnswersCurrent, Answered
<1>6. ListCurrent'
  BY <1>4, <1>5 DEF ListCurrent
<1>7. FormFits'
  BY <1>4 DEF FormFits, OneSave
<1>8. HoldingsFit'
  BY <1>4, <1>5 DEF HoldingsFit, RowsFit
<1> QED BY <1>1, <1>2, <1>3, <1>6, <1>7, <1>8

\* The form is replaced by another one.
LEMMA FormTyped ==
    ASSUME Typed, NEW f \in FormType
    PROVE  LET t == [tab EXCEPT !.form = f]
           IN  /\ t \in TabType /\ t.kind = tab.kind /\ t.shown = tab.shown
               /\ t.loading = tab.loading /\ t.error = tab.error /\ t.form = f
BY DEF Typed, TabType

\* A form with another status, step or type.
LEMMA FormStep ==
    ASSUME IInv, UNCHANGED <<shared, landed, summaryVars, activeTab, types>>,
           Mounted, ~Saving,
           \/ tab' = [tab EXCEPT !.form.status = "error"]
           \/ \E p \in {"fields", "confirm"} :
                 tab' = [tab EXCEPT !.form.step = p, !.form.status = "idle"]
           \/ \E t \in View.hook.types : tab' = [tab EXCEPT !.form.type = t]
    PROVE  IInv'
<1>1. tab.kind \in ListTabIds
  BY ListIsOfAsset
<1>2. Typed /\ tab \in TabType /\ tab.form \in FormType
  BY DEF IInv, Typed, TabType
<1>3. PICK f \in FormType : f.open = tab.form.open /\ tab' = [tab EXCEPT !.form = f]
  <2>1. CASE tab' = [tab EXCEPT !.form.status = "error"]
    <3>1. tab' = [tab EXCEPT !.form = [tab.form EXCEPT !.status = "error"]]
      BY <1>2, <2>1 DEF TabType
    <3>2. /\ [tab.form EXCEPT !.status = "error"] \in FormType
          /\ [tab.form EXCEPT !.status = "error"].open = tab.form.open
      BY <1>2 DEF FormType
    <3> QED BY <3>1, <3>2
  <2>2. ASSUME NEW p \in {"fields", "confirm"},
               tab' = [tab EXCEPT !.form.step = p, !.form.status = "idle"]
        PROVE  \E f \in FormType : f.open = tab.form.open /\ tab' = [tab EXCEPT !.form = f]
    <3>1. tab' = [tab EXCEPT !.form = [tab.form EXCEPT !.step = p, !.status = "idle"]]
      BY <1>2, <2>2 DEF TabType
    <3>2. /\ [tab.form EXCEPT !.step = p, !.status = "idle"] \in FormType
          /\ [tab.form EXCEPT !.step = p, !.status = "idle"].open = tab.form.open
      BY <1>2 DEF FormType
    <3> QED BY <3>1, <3>2
  <2>3. ASSUME NEW t \in View.hook.types, tab' = [tab EXCEPT !.form.type = t]
        PROVE  \E f \in FormType : f.open = tab.form.open /\ tab' = [tab EXCEPT !.form = f]
    <3>1. tab' = [tab EXCEPT !.form = [tab.form EXCEPT !.type = t]]
      BY <1>2, <2>3 DEF TabType
    <3>2. t \in UNION {ListTabOf[k].hook.types : k \in ListTabIds}
      BY <1>1 DEF View
    <3>3. /\ [tab.form EXCEPT !.type = t] \in FormType
          /\ [tab.form EXCEPT !.type = t].open = tab.form.open
      BY <1>2, <3>2 DEF FormType
    <3> QED BY <3>1, <3>3
  <2> QED BY <2>1, <2>2, <2>3
<1>4. /\ tab' \in TabType /\ tab'.kind = tab.kind /\ tab'.shown = tab.shown
      /\ tab'.loading = tab.loading /\ tab'.error = tab.error
      /\ tab'.form.open = tab.form.open
  BY <1>2, <1>3, FormTyped
<1>5. types' \in {"loading", "loaded", "error"}
  BY DEF IInv, Typed, TypeOK, ListTypeOK
<1> QED BY <1>4, <1>5, AsideStep DEF Mounted

LEMMA AsideSteps ==
    ASSUME IInv, UNCHANGED <<summaryVars, activeTab>>,
           \/ TypesAnswered \/ RetryTypes \/ SetActionType \/ SetFilter
           \/ AdvanceToConfirm \/ BackToFields
           \/ OffersSave /\ ShowFieldErrors
    PROVE  IInv'
<1>0. tab \in TabType
  BY DEF IInv, Typed
<1>1. CASE TypesAnswered \/ RetryTypes
  <2>1. /\ types' \in {"loading", "loaded", "error"} /\ UNCHANGED <<shared, landed, tab>>
    BY <1>1 DEF TypesAnswered, RetryTypes
  <2>2. tab' \in TabType /\ (Saving => Saving')
    BY <1>0, <2>1 DEF Saving
  <2> QED BY <2>1, <2>2, AsideStep
<1>2. CASE SetActionType
  <2>1. Mounted /\ ~Saving /\ UNCHANGED <<shared, landed, types>>
    BY <1>2 DEF SetActionType, FormShown, ListShown
  <2>2. \E t \in View.hook.types : tab' = [tab EXCEPT !.form.type = t]
    BY <1>2 DEF SetActionType
  <2> QED BY <2>1, <2>2, FormStep
<1>3. CASE SetFilter
  <2>1. PICK f \in Filters :
           tab' = [tab EXCEPT !.filter = f, !.remembered = Remembered(tab, selectedNode, f)]
    BY <1>3 DEF SetFilter
  <2>2. Mounted /\ UNCHANGED <<shared, landed, types>>
    BY <1>3 DEF SetFilter
  <2>3. selectedNode \in Nodes
    BY <2>2, ListIsOfAsset
  <2>4. Remembered(tab, selectedNode, f) \in SUBSET [node : Nodes, filter : Filters]
    <3>1. tab.remembered \subseteq [node : Nodes, filter : Filters]
      BY <1>0 DEF TabType
    <3>2. [node |-> selectedNode, filter |-> f] \in [node : Nodes, filter : Filters]
      BY <2>3
    <3> QED BY <3>1, <3>2 DEF Remembered
  <2>5. /\ tab' \in TabType /\ tab'.form = tab.form
        /\ tab'.kind = tab.kind /\ tab'.shown = tab.shown
        /\ tab'.loading = tab.loading /\ tab'.error = tab.error
    <3> HIDE DEF Remembered
    <3> QED BY <1>0, <2>1, <2>4 DEF TabType
  <2>6. types' \in {"loading", "loaded", "error"} /\ (Saving => Saving')
    BY <2>2, <2>5 DEF IInv, Typed, TypeOK, ListTypeOK, Saving
  <2> QED BY <2>2, <2>5, <2>6, AsideStep DEF Mounted
<1>4. CASE AdvanceToConfirm \/ (OffersSave /\ ShowFieldErrors)
  <2>1. Mounted /\ ~Saving
    BY <1>4 DEF AdvanceToConfirm, OffersSave, FormShown, ListShown
  <2>2. /\ UNCHANGED <<shared, landed, types>>
        /\ \/ tab' = [tab EXCEPT !.form.status = "error"]
           \/ tab' = [tab EXCEPT !.form.step = "confirm", !.form.status = "idle"]
    BY <1>4 DEF AdvanceToConfirm, ShowFieldErrors
  <2> QED BY <2>1, <2>2, FormStep
<1>5. CASE BackToFields
  <2>1. Mounted /\ ~Saving
    BY <1>5 DEF BackToFields, FormShown, ListShown
  <2>2. /\ UNCHANGED <<shared, landed, types>>
        /\ tab' = [tab EXCEPT !.form.step = "fields", !.form.status = "idle"]
    BY <1>5 DEF BackToFields
  <2> QED BY <2>1, <2>2, FormStep
<1> QED BY <1>1, <1>2, <1>3, <1>4, <1>5

----------------------------------------------------------------------------
(* A list tab starts to fetch, and sends the changes its form makes.       *)

LEMMA FetchStartedTyped ==
    ASSUME NEW l \in TabType, l.kind \in ListTabIds, NEW n \in Nodes
    PROVE  LET t == FetchStarted(l, n)
           IN  /\ t \in TabType /\ t.kind = l.kind /\ t.shown = None /\ t.loading
               /\ t.form.open = "none"
<1>1. RememberedFilter(l, n) \in Filters
  <2>1. l.remembered \subseteq [node : Nodes, filter : Filters]
    BY DEF TabType
  <2>2. CASE \E m \in l.remembered : m.node = n
    <3>1. PICK m \in l.remembered : /\ m.node = n
                                    /\ m = CHOOSE k \in l.remembered : k.node = n
      BY <2>2
    <3> QED BY <2>1, <2>2, <3>1 DEF RememberedFilter
  <2>3. CASE ~ \E m \in l.remembered : m.node = n
    BY <2>3, FiltersAssumption DEF RememberedFilter
  <2> QED BY <2>2, <2>3
<1>2. NoForm \in FormType /\ NoForm.open = "none"
  BY DEF NoForm, FormType
<1> DEFINE f == RememberedFilter(l, n)
<1>3. FetchStarted(l, n) = [Unloaded EXCEPT !.kind = l.kind, !.loading = TRUE,
                                            !.remembered = l.remembered, !.filter = f]
  BY DEF FetchStarted
<1> HIDE DEF f
<1>4. FetchStarted(l, n) = [kind |-> l.kind, shown |-> None, loading |-> TRUE, error |-> FALSE,
                            form |-> NoForm, filter |-> f, remembered |-> l.remembered]
  BY <1>3 DEF Unloaded
<1>5. f \in Filters
  BY <1>1 DEF f
<1> QED BY <1>2, <1>4, <1>5 DEF TabType, Contents

LEMMA FetchStep ==
    ASSUME IInv, NEW n \in Nodes, NEW rs \in [Slots -> RequestType], NEW l \in TabType,
           l.kind \in ListTabIds, l.kind \in TabsOf(n),
           \A i \in Slots : /\ RequestSound(rs[i])
                            /\ rs[i].live => rs[i].op \in ListOps /\ rs[i].node = n,
           Fetch(l, n, rs),
           types' \in {"loading", "loaded", "error"},
           SummaryTypeOK', ~summary'.mounted, ~holdings'.mounted,
           selectedNode' = n, activeTab' = l.kind, UNCHANGED <<scope, version>>
    PROVE  IInv'
<1> DEFINE q == Request("load", n)
           ms == NoneMine(rs)
<1>1. /\ tab' \in TabType /\ tab'.kind = l.kind /\ tab'.shown = None /\ tab'.loading
      /\ tab'.form.open = "none"
  BY FetchStartedTyped DEF Fetch
<1>2. l.kind # "none"
  BY DEF ListTabIds
<1>3. /\ q \in RequestType /\ RequestSound(q) /\ q.op = "load" /\ q.node = n /\ q.is = "sent"
      /\ q.live /\ ~q.mine
  BY RequestFields DEF ListOps, TabWrites, SummaryOps, Saves
<1>4. /\ ms \in [Slots -> RequestType]
      /\ \A i \in Slots : /\ ms[i].op = rs[i].op /\ ms[i].node = rs[i].node
                          /\ ms[i].live = rs[i].live /\ ~ms[i].mine
                          /\ RequestSound(ms[i])
  BY NoneMineSlots
<1>5. requests' = With(ms, q) /\ landed' = 0 /\ mishaps' = MishapsAtStart(rs)
  BY DEF Fetch
<1> HIDE DEF q, ms
<1>0. /\ With(ms, q) \in [Slots -> RequestType]
      /\ \E i : \A j \in Slots : With(ms, q)[j] = IF j = i THEN q ELSE ms[j]
  BY <1>3, <1>4, WithSlots
<1>6. PICK i : \A j \in Slots : requests'[j] = IF j = i THEN q ELSE ms[j]
  BY <1>5, <1>0
<1>7. requests' \in [Slots -> RequestType]
  BY <1>5, <1>0
<1>8. Typed'
  <2>1. mishaps' \subseteq Mishaps
    BY <1>5 DEF MishapsAtStart, Mishaps
  <2>2. activeTab' \in AssetTabs \union PortfolioTabs
    BY DEF TabsOf
  <2>3. 0 \in 0..MaxChanges
    BY DetailAssumption
  <2> QED BY <1>1, <1>5, <1>7, <2>1, <2>2, <2>3
          DEF IInv, Typed, TypeOK, SharedTypeOK, ListTypeOK, TabType
<1>9. TabFits'
  BY <1>1, <1>2, NodesApart DEF TabFits
<1>10. RequestsFit'
  <2> SUFFICES ASSUME NEW j \in Slots
               PROVE  /\ RequestSound(requests'[j])
                      /\ requests'[j].live => /\ requests'[j].op \in ListOps
                                              /\ tab'.kind # "none" /\ requests'[j].node = n
    BY DEF RequestsFit, Owned, RequestSound
  <2> QED BY <1>1, <1>2, <1>3, <1>4, <1>6 DEF ListOps
<1>11. ListCurrent'
  <2> SUFFICES ASSUME mishaps' \intersect {"overlap", "lost"} = {}
               PROVE  AtMostOne' /\ AnswersCurrent'
    BY <1>1 DEF ListCurrent
  <2>1. \A j \in Slots : rs[j].op = "free"
    BY <1>5 DEF MishapsAtStart
  <2>2. \A j \in UnderWay' : j = i /\ requests'[j] = q
    BY <1>4, <1>6, <2>1 DEF UnderWay
  <2> QED BY <1>3, <2>2 DEF AtMostOne, AnswersCurrent
<1>12. FormFits'
  BY <1>1, <1>3, <1>4, <1>5, <1>6 DEF FormFits
<1>13. HoldingsFit'
  BY DEF HoldingsFit
<1> QED BY <1>8, <1>9, <1>10, <1>11, <1>12, <1>13 DEF IInv

LEMMA RetryStep == ASSUME IInv, Retry, UNCHANGED <<summaryVars, activeTab>> PROVE IInv'
<1>1. /\ tab.kind \in ListTabIds /\ selectedNode \in Nodes
      /\ ~summary.mounted /\ ~holdings.mounted
  BY ListIsOfAsset DEF Retry
<1>2. tab.kind \in TabsOf(selectedNode)
  BY <1>1, NodesApart DEF IInv, TabFits, ListTabIds
<1>3. /\ requests \in [Slots -> RequestType] /\ tab \in TabType
      /\ types \in {"loading", "loaded", "error"}
  BY DEF IInv, Typed, TypeOK, ListTypeOK
<1>4. \A i \in Slots : /\ RequestSound(requests[i])
                       /\ requests[i].live => requests[i].op \in ListOps /\ requests[i].node = selectedNode
  BY <1>1 DEF IInv, RequestsFit, Owned
<1>5. SummaryTypeOK' /\ ~summary'.mounted /\ ~holdings'.mounted
  BY <1>1 DEF summaryVars, IInv, Typed, TypeOK, SummaryTypeOK
<1>6. activeTab' = tab.kind
  BY <1>1 DEF IInv, TabFits, ListTabIds
<1> QED BY <1>1, <1>2, <1>3, <1>4, <1>5, <1>6, FetchStep DEF Retry

LEMMA StatusTyped ==
    ASSUME Typed, NEW s \in {"idle", "saving", "error"}
    PROVE  LET t == [tab EXCEPT !.form.status = s]
           IN  /\ t \in TabType /\ t.kind = tab.kind /\ t.shown = tab.shown
               /\ t.loading = tab.loading /\ t.error = tab.error
               /\ t.form.open = tab.form.open /\ t.form.status = s
<1>1. tab \in TabType /\ tab.form \in FormType
  BY DEF Typed, TabType
<1>2. [tab EXCEPT !.form.status = s] = [tab EXCEPT !.form = [tab.form EXCEPT !.status = s]]
  BY <1>1 DEF TabType
<1>3. /\ [tab.form EXCEPT !.status = s] \in FormType
      /\ [tab.form EXCEPT !.status = s].open = tab.form.open
      /\ [tab.form EXCEPT !.status = s].status = s
  BY <1>1 DEF FormType
<1> QED BY <1>2, <1>3, FormTyped

\* The new request q of the mounted tab is in slot i.
Sends(i, q) ==
    /\ requests[i].op = "free"
    /\ requests' \in [Slots -> RequestType]
    /\ \A j \in Slots : requests'[j] = IF j = i THEN q ELSE requests[j]

LEMMA SendSlots ==
    ASSUME IInv, NEW op \in TabWrites, selectedNode \in Assets, HasRoom(requests, 1),
           requests' = With(requests, Request(op, selectedNode))
    PROVE  LET q == Request(op, selectedNode)
           IN  /\ \E i \in Slots : Sends(i, q)
               /\ q \in RequestType /\ RequestSound(q)
               /\ q.op = op /\ q.node = selectedNode /\ q.is = "sent" /\ q.live
               /\ q.mine <=> op \in Saves
<1> DEFINE q == Request(op, selectedNode)
<1>1. /\ op \in ListOps \union SummaryOps \union HoldingsOps /\ selectedNode \in Nodes
      /\ requests \in [Slots -> RequestType]
  BY NodesApart DEF TabWrites, ListOps, IInv, Typed
<1>2. /\ q \in RequestType /\ RequestSound(q)
      /\ q.op = op /\ q.node = selectedNode /\ q.is = "sent" /\ q.live
      /\ q.mine <=> op \in Saves
  BY <1>1, RequestFields
<1> HIDE DEF q
<1>3. /\ With(requests, q) \in [Slots -> RequestType]
      /\ \E i \in Slots :
            /\ requests[i].op = "free"
            /\ \A j \in Slots : With(requests, q)[j] = IF j = i THEN q ELSE requests[j]
  BY <1>1, <1>2, WithRoom
<1>4. requests' = With(requests, q)
  BY DEF q
<1>5. \E i \in Slots : Sends(i, q)
  BY <1>3, <1>4 DEF Sends
<1> QED BY <1>2, <1>5 DEF q

\* What a new request of the tab leaves true.
LEMMA SentStep ==
    ASSUME IInv, Mounted, NEW i \in Slots, NEW q \in RequestType, Sends(i, q),
           RequestSound(q), q.op \in ListOps, q.node = selectedNode, q.is = "sent", q.live,
           Overlapping(requests), UNCHANGED <<scope, selectedNode, version, types, landed>>,
           UNCHANGED <<summaryVars, activeTab>>,
           tab' \in TabType, tab'.kind = tab.kind, tab'.shown = tab.shown,
           tab'.loading = tab.loading, tab'.error = tab.error,
           tab'.form.open = tab.form.open
    PROVE  /\ Typed' /\ TabFits' /\ RequestsFit' /\ ListCurrent' /\ HoldingsFit'
           /\ mishaps \subseteq mishaps'
<1> USE DEF summaryVars
<1>0. ~summary.mounted /\ ~holdings.mounted /\ tab.kind # "none"
  BY ListIsOfAsset DEF Mounted
<1>1. mishaps \subseteq mishaps' /\ mishaps' \subseteq Mishaps
  BY DEF Overlapping, IInv, Typed, TypeOK, SharedTypeOK, Mishaps
<1>2. Typed'
  BY <1>1 DEF IInv, Typed, TypeOK, SharedTypeOK, ListTypeOK, SummaryTypeOK, TabType, Sends
<1>3. TabFits'
  BY <1>0 DEF IInv, TabFits
<1>4. RequestsFit'
  BY <1>0 DEF IInv, RequestsFit, Owned, Sends
<1>5. ListCurrent'
  <2> SUFFICES ASSUME mishaps' \intersect {"overlap", "lost"} = {}
               PROVE  /\ AtMostOne' /\ AnswersCurrent'
                      /\ (~tab.loading /\ ~tab.error) => tab.shown = Content(selectedNode)
    BY DEF ListCurrent, Content
  <2>1. \A j \in Slots : requests[j].op = "free"
    BY DEF Overlapping
  <2>2. \A j \in UnderWay' : j = i /\ requests'[j] = q
    BY <2>1 DEF UnderWay, Sends
  <2>3. (~tab.loading /\ ~tab.error) => tab.shown = Content(selectedNode)
    BY <1>0, <1>1, <2>1 DEF IInv, ListCurrent, Answered, UnderWay
  <2> QED BY <2>2, <2>3 DEF AtMostOne, AnswersCurrent
<1>6. HoldingsFit'
  BY <1>0 DEF HoldingsFit
<1> QED BY <1>1, <1>2, <1>3, <1>4, <1>5, <1>6

LEMMA SubmitStep ==
    ASSUME IInv, OffersSave, NEW op \in Saves, Submit(op), UNCHANGED <<summaryVars, activeTab>>
    PROVE  IInv'
<1> DEFINE q == Request(op, selectedNode)
<1>1. Mounted /\ selectedNode \in Assets /\ ~Saving /\ tab.form.open # "none"
  BY ListIsOfAsset DEF OffersSave, FormShown, ListShown
<1>2. op \in TabWrites /\ op \in ListOps
  BY DEF Saves, TabWrites, ListOps
<1>3. /\ \E i \in Slots : Sends(i, q)
      /\ q \in RequestType /\ RequestSound(q)
      /\ q.op = op /\ q.node = selectedNode /\ q.is = "sent" /\ q.live /\ q.mine
  BY <1>1, <1>2, SendSlots DEF Submit
<1> HIDE DEF q
<1>4. PICK i \in Slots : Sends(i, q)
  BY <1>3
<1>5. /\ tab' \in TabType /\ tab'.kind = tab.kind /\ tab'.shown = tab.shown
      /\ tab'.loading = tab.loading /\ tab'.error = tab.error
      /\ tab'.form.open = tab.form.open /\ tab'.form.status = "saving"
  BY StatusTyped DEF Submit, IInv
<1>6. /\ Typed' /\ TabFits' /\ RequestsFit' /\ ListCurrent' /\ HoldingsFit'
      /\ mishaps \subseteq mishaps'
  BY <1>1, <1>2, <1>3, <1>4, <1>5, SentStep DEF Submit
<1>7. FormFits'
  <2>1. landed' = landed /\ version' = version /\ selectedNode' = selectedNode
    BY DEF Submit
  <2>2. ASSUME mishaps' \intersect {"lost", "abandoned"} = {} PROVE OneSave'
    <3>1. OneSave
      BY <1>1, <1>6, <2>2 DEF IInv, FormFits
    <3>2. Live(Saves) = {} /\ landed = 0
      BY <1>1, <3>1 DEF OneSave
    <3>3. \A j \in Live(Saves)' : j = i
      BY <1>4, <3>2 DEF Live, UnderWay, Sends
    <3>4. i \in Live(Saves)'
      BY <1>3, <1>4 DEF Live, UnderWay, Sends, Saves
    <3>5. requests'[i] = q
      BY <1>4 DEF Sends
    <3> QED BY <1>3, <1>5, <2>1, <3>2, <3>3, <3>4, <3>5 DEF OneSave, Saving
  <2> QED BY <1>1, <1>5, <2>1, <2>2 DEF IInv, FormFits
<1> QED BY <1>6, <1>7 DEF IInv

LEMMA DeleteRowStep ==
    ASSUME IInv, DeleteRow, UNCHANGED <<summaryVars, activeTab>> PROVE IInv'
<1> DEFINE q == Request("delete", selectedNode)
<1>1. Mounted /\ selectedNode \in Assets
  BY ListIsOfAsset DEF DeleteRow, ListShown
<1>2. "delete" \in TabWrites /\ "delete" \in ListOps /\ "delete" \notin Saves
  BY DEF Saves, TabWrites, ListOps
<1>3. /\ \E i \in Slots : Sends(i, q)
      /\ q \in RequestType /\ RequestSound(q)
      /\ q.op = "delete" /\ q.node = selectedNode /\ q.is = "sent" /\ q.live /\ ~q.mine
  BY <1>1, <1>2, SendSlots DEF DeleteRow
<1> HIDE DEF q
<1>4. PICK i \in Slots : Sends(i, q)
  BY <1>3
<1>5. tab' = tab /\ tab \in TabType /\ landed' = landed
  BY DEF DeleteRow, listVars, IInv, Typed
<1>6. /\ Typed' /\ TabFits' /\ RequestsFit' /\ ListCurrent' /\ HoldingsFit'
      /\ mishaps \subseteq mishaps'
  BY <1>1, <1>2, <1>3, <1>4, <1>5, SentStep DEF DeleteRow, listVars
<1>7. FormFits'
  <2>1. landed' = landed /\ version' = version /\ selectedNode' = selectedNode
    BY DEF DeleteRow, listVars
  <2>2. Live(Saves)' = Live(Saves) /\ \A j \in Live(Saves) : requests'[j] = requests[j]
    <3>1. i \notin Live(Saves) /\ i \notin Live(Saves)'
      BY <1>2, <1>3, <1>4 DEF Live, UnderWay, Sends
    <3>2. \A j \in Slots \ {i} : requests'[j] = requests[j]
      BY <1>4 DEF Sends
    <3> QED BY <3>1, <3>2 DEF Live, UnderWay
  <2>3. \A j \in Slots : requests'[j].mine => requests[j].mine
    BY <1>3, <1>4 DEF Sends
  <2>4. (mishaps' \intersect {"lost", "abandoned"} = {} /\ OneSave) => OneSave'
    BY <1>5, <2>1, <2>2 DEF OneSave, Saving
  <2> QED BY <1>5, <1>6, <2>1, <2>3, <2>4 DEF IInv, FormFits
<1> QED BY <1>6, <1>7 DEF IInv

LEMMA LeaveFormStep ==
    ASSUME IInv, Mounted, NEW f \in FormType, LeaveForm(f), UNCHANGED <<summaryVars, activeTab>>
    PROVE  IInv'
<1> USE DEF summaryVars
<1>0. ~summary.mounted /\ ~holdings.mounted /\ tab.kind # "none"
  BY ListIsOfAsset DEF Mounted
<1>1. /\ tab' \in TabType /\ tab'.kind = tab.kind /\ tab'.shown = tab.shown
      /\ tab'.loading = tab.loading /\ tab'.error = tab.error
  BY FormTyped DEF LeaveForm, IInv
<1>2. /\ UNCHANGED <<scope, selectedNode, version, types>> /\ landed' = 0
      /\ mishaps' = (mishaps \ {"abandoned"}) \union
                      (IF Live(Saves) # {} THEN {"abandoned"} ELSE {})
  BY DEF LeaveForm, Saves
<1>3. /\ requests' \in [Slots -> RequestType]
      /\ \A i \in Slots :
            /\ requests'[i].op = requests[i].op /\ requests'[i].node = requests[i].node
            /\ requests'[i].is = requests[i].is /\ requests'[i].answer = requests[i].answer
            /\ requests'[i].live = requests[i].live /\ ~requests'[i].mine
            /\ RequestSound(requests[i]) => RequestSound(requests'[i])
  BY NoneMineSlots DEF LeaveForm, IInv, Typed
<1>4. Typed'
  <2>1. mishaps' \subseteq Mishaps
    BY <1>2 DEF IInv, Typed, TypeOK, SharedTypeOK, Mishaps
  <2>2. 0 \in 0..MaxChanges
    BY DetailAssumption
  <2> QED BY <1>1, <1>2, <1>3, <2>1, <2>2
          DEF IInv, Typed, TypeOK, SharedTypeOK, ListTypeOK, SummaryTypeOK, TabType
<1>5. TabFits'
  BY <1>0, <1>1, <1>2 DEF IInv, TabFits
<1>6. RequestsFit'
  BY <1>1, <1>2, <1>3 DEF IInv, RequestsFit, Owned
<1>7. UnderWay' = UnderWay /\ Live(Saves)' = Live(Saves)
  BY <1>3 DEF UnderWay, Live
<1>8. ListCurrent'
  <2>1. Content(selectedNode)' = Content(selectedNode)
    BY <1>2 DEF Content
  <2>2. UnderWay \subseteq Slots
    BY DEF UnderWay
  <2>3. AtMostOne' = AtMostOne /\ (AnswersCurrent => AnswersCurrent') /\ (Answered => Answered')
    BY <1>3, <1>7, <2>1, <2>2 DEF AtMostOne, AnswersCurrent, Answered
  <2>4. mishaps' \intersect {"overlap", "lost"} = mishaps \intersect {"overlap", "lost"}
    BY <1>2
  <2> QED BY <1>1, <2>1, <2>3, <2>4 DEF IInv, ListCurrent
<1>9. FormFits'
  <2>1. mishaps' \intersect {"lost", "abandoned"} = {} => Live(Saves) = {}
    BY <1>2
  <2> QED BY <1>2, <1>3, <1>7, <2>1 DEF FormFits, OneSave
<1>10. HoldingsFit'
  BY <1>0 DEF HoldingsFit
<1> QED BY <1>4, <1>5, <1>6, <1>8, <1>9, <1>10 DEF IInv

LEMMA FormSteps ==
    ASSUME IInv, UNCHANGED <<summaryVars, activeTab>>, ShowNewForm \/ ShowEditForm \/ CancelForm
    PROVE  IInv'
<1>1. Mounted
  BY DEF ShowNewForm, ShowEditForm, CancelForm, OffersCancel, FormShown, ListShown
<1>2. tab.kind \in ListTabIds
  BY <1>1, ListIsOfAsset
<1>3. NoForm \in FormType
  BY DEF NoForm, FormType
<1>4. ASSUME NEW t \in View.hook.types, NEW o \in {"new", "edit"}
      PROVE  [NoForm EXCEPT !.open = o, !.type = t] \in FormType
  <2>1. t \in UNION {ListTabOf[k].hook.types : k \in ListTabIds}
    BY <1>2 DEF View
  <2> QED BY <2>1 DEF NoForm, FormType
<1>5. PICK f \in FormType : LeaveForm(f)
  BY <1>3, <1>4 DEF ShowNewForm, ShowEditForm, CancelForm
<1> QED BY <1>1, <1>5, LeaveFormStep

LEMMA SaveSteps ==
    ASSUME IInv, UNCHANGED <<summaryVars, activeTab>>,
           SaveTransaction \/ SaveCredit \/ SavePrice \/ SaveSplit \/ SaveSpinOff \/ SaveMerger
    PROVE  IInv'
<1>1. OffersSave /\ (Submit("save") \/ Submit("merge") \/ ShowFieldErrors)
  BY DEF SaveTransaction, SaveCredit, SavePrice, SaveSplit, SaveSpinOff, SaveMerger
<1> QED BY <1>1, SubmitStep, AsideSteps DEF Saves

----------------------------------------------------------------------------
(* Answers arrive at a list tab.                                           *)

\* Request i is one of the list tab that is mounted.
LEMMA ListAnswer ==
    ASSUME IInv, NEW i \in Slots, requests[i].op \in ListOps, requests[i].live
    PROVE  /\ tab.kind # "none" /\ tab.kind \in ListTabIds
           /\ ~summary.mounted /\ ~holdings.mounted
           /\ requests[i].node = selectedNode /\ i \in UnderWay
           /\ requests[i].is = "ok" =>
                 requests[i].answer \in Contents /\ requests[i].answer.of = selectedNode
<1>1. Owned(requests[i]) /\ RequestSound(requests[i])
  BY DEF IInv, RequestsFit
<1>2. tab.kind # "none" /\ requests[i].node = selectedNode
  BY <1>1 DEF Owned, ListOps, SummaryOps, HoldingsOps
<1>3. i \in UnderWay
  BY DEF UnderWay, ListOps
<1>4. requests[i].answer \in Contents
  BY SlotTyped DEF IInv
<1> QED BY <1>1, <1>2, <1>3, <1>4, ListIsOfAsset DEF RequestSound, Mounted

\* Request i is answered, whatever form the others wait for.
Gone(i) ==
    /\ requests' \in [Slots -> RequestType]
    /\ requests'[i] = Free
    /\ \A j \in Slots \ {i} :
          /\ requests'[j].op = requests[j].op /\ requests'[j].node = requests[j].node
          /\ requests'[j].is = requests[j].is /\ requests'[j].answer = requests[j].answer
          /\ requests'[j].live = requests[j].live /\ requests'[j].left = requests[j].left
          /\ requests'[j].mine => requests[j].mine
          /\ RequestSound(requests[j]) => RequestSound(requests'[j])

LEMMA GoneWithout ==
    ASSUME IInv, NEW i \in Slots, requests' = Without(i)
    PROVE  Gone(i) /\ \A j \in Slots \ {i} : requests'[j] = requests[j]
<1>1. Typed
  BY DEF IInv
<1> QED BY <1>1, WithoutSlots DEF Gone

LEMMA GoneSlots ==
    ASSUME NEW i \in Slots, Gone(i)
    PROVE  /\ UnderWay' = UnderWay \ {i}
           /\ Live(Saves)' = Live(Saves) \ {i}
           /\ \A j \in Slots : requests'[j].mine => requests[j].mine
<1>1. UnderWay' = UnderWay \ {i}
  BY FreeTyped DEF Gone, UnderWay
<1>2. Live(Saves)' = Live(Saves) \ {i}
  BY <1>1, FreeTyped DEF Gone, Live, UnderWay
<1>3. \A j \in Slots : requests'[j].mine => requests[j].mine
  BY FreeTyped DEF Gone
<1> QED BY <1>1, <1>2, <1>3

\* What the answer to a request of the list leaves true: the list is as before, or
\* the one that was answered, or there is an error instead.
LEMMA AnsweredStep ==
    ASSUME IInv, NEW i \in Slots, requests[i].op \in ListOps, requests[i].live, Gone(i),
           UNCHANGED <<scope, selectedNode, version, types>>, landed' \in {0, landed},
           UNCHANGED <<summaryVars, activeTab>>,
           mishaps' \in {mishaps, mishaps \union {"lost"}},
           tab' \in TabType, tab'.kind = tab.kind,
           \/ requests[i].is = "ok" /\ tab'.shown = requests[i].answer
           \/ requests[i].is # "ok" /\ tab'.shown = tab.shown /\ tab'.loading = tab.loading /\ tab'.error = tab.error
           \/ tab'.shown = tab.shown /\ (tab'.error \/ "lost" \in mishaps')
    PROVE  Typed' /\ TabFits' /\ RequestsFit' /\ ListCurrent' /\ HoldingsFit'
<1> USE DEF summaryVars
<1>0. /\ ~summary.mounted /\ ~holdings.mounted /\ tab.kind # "none"
      /\ requests[i].node = selectedNode /\ i \in UnderWay
      /\ requests[i].is = "ok" => requests[i].answer \in Contents /\ requests[i].answer.of = selectedNode
  BY ListAnswer
<1>1. Typed'
  <2>1. mishaps' \subseteq Mishaps /\ landed' \in 0..MaxChanges
    BY DetailAssumption DEF IInv, Typed, TypeOK, SharedTypeOK, ListTypeOK, Mishaps
  <2> QED BY <2>1 DEF IInv, Typed, TypeOK, SharedTypeOK, ListTypeOK, SummaryTypeOK, TabType, Gone
<1>2. TabFits'
  BY <1>0 DEF IInv, TabFits
<1>3. RequestsFit'
  BY <1>0, FreeTyped DEF IInv, RequestsFit, Owned, Gone
<1>4. ListCurrent'
  <2> SUFFICES ASSUME mishaps' \intersect {"overlap", "lost"} = {}
               PROVE  /\ UnderWay' = {}
                      /\ (~tab'.loading /\ ~tab'.error) => tab'.shown = Content(selectedNode)
    BY DEF ListCurrent, AtMostOne, AnswersCurrent, Answered, Content
  <2>1. AtMostOne /\ AnswersCurrent
    BY <1>0 DEF IInv, ListCurrent
  <2>2. UnderWay = {i}
    BY <1>0, <2>1 DEF AtMostOne
  <2>3. UnderWay' = {}
    BY <2>2, GoneSlots
  <2>4. requests[i].is = "ok" => requests[i].answer = Content(selectedNode)
    BY <1>0, <2>1 DEF AnswersCurrent
  <2>5. (requests[i].is # "ok" /\ ~tab.loading /\ ~tab.error) => tab.shown = Content(selectedNode)
    BY <1>0, <2>2 DEF IInv, ListCurrent, Answered
  <2> QED BY <2>3, <2>4, <2>5
<1>5. HoldingsFit'
  BY <1>0 DEF HoldingsFit
<1> QED BY <1>1, <1>2, <1>3, <1>4, <1>5

LEMMA LoadStep ==
    ASSUME IInv, NEW i \in Slots, LoadAnswered(i), UNCHANGED <<summaryVars, activeTab>>
    PROVE  IInv'
<1>1. requests[i].op = "load" /\ requests[i].live
  BY DEF LoadAnswered, IInv, RequestsFit, RequestSound
<1>2. /\ tab.kind # "none" /\ requests[i].node = selectedNode /\ i \in UnderWay
      /\ requests[i].is = "ok" => requests[i].answer \in Contents /\ requests[i].answer.of = selectedNode
  BY <1>1, ListAnswer DEF ListOps
<1>3. Gone(i) /\ \A j \in Slots \ {i} : requests'[j] = requests[j]
  BY GoneWithout DEF LoadAnswered
<1>4. /\ UnderWay' = UnderWay \ {i} /\ Live(Saves)' = Live(Saves) \ {i}
      /\ \A j \in Slots : requests'[j].mine => requests[j].mine
  BY <1>3, GoneSlots
<1>5. tab \in TabType
  BY DEF IInv, Typed
<1>6. /\ tab' \in TabType /\ tab'.kind = tab.kind /\ tab'.form = tab.form
      /\ \/ requests[i].is = "ok" /\ tab'.shown = requests[i].answer
         \/ tab'.shown = tab.shown /\ tab'.error
  BY <1>2, <1>5 DEF LoadAnswered, TabType
<1>7. UNCHANGED <<scope, selectedNode, version, types, landed, mishaps>>
  BY DEF LoadAnswered
<1>8. Typed' /\ TabFits' /\ RequestsFit' /\ ListCurrent' /\ HoldingsFit'
  BY <1>1, <1>3, <1>6, <1>7, AnsweredStep DEF ListOps
<1>9. FormFits'
  <2>1. Live(Saves)' = Live(Saves) /\ \A j \in Live(Saves) : requests'[j] = requests[j]
    <3>1. i \notin Live(Saves)
      BY <1>1 DEF Live, Saves
    <3> QED BY <1>3, <1>4, <3>1 DEF Live, UnderWay
  <2>2. OneSave => OneSave'
    BY <1>6, <1>7, <2>1 DEF OneSave, Saving
  <2> QED BY <1>4, <1>6, <1>7, <2>2 DEF IInv, FormFits
<1> QED BY <1>8, <1>9 DEF IInv

LEMMA DeleteStep ==
    ASSUME IInv, NEW i \in Slots, DeleteAnswered(i), UNCHANGED <<summaryVars, activeTab>>
    PROVE  IInv'
<1>1. requests[i].op = "delete" /\ requests[i].live
  BY DEF DeleteAnswered
<1>2. /\ tab.kind # "none" /\ requests[i].node = selectedNode /\ i \in UnderWay
      /\ requests[i].is = "ok" => requests[i].answer \in Contents /\ requests[i].answer.of = selectedNode
  BY <1>1, ListAnswer DEF ListOps
<1>3. Gone(i) /\ \A j \in Slots \ {i} : requests'[j] = requests[j]
  BY GoneWithout DEF DeleteAnswered
<1>4. /\ UnderWay' = UnderWay \ {i} /\ Live(Saves)' = Live(Saves) \ {i}
      /\ \A j \in Slots : requests'[j].mine => requests[j].mine
  BY <1>3, GoneSlots
<1>5. tab \in TabType
  BY DEF IInv, Typed
<1>6. /\ tab' \in TabType /\ tab'.kind = tab.kind /\ tab'.form = tab.form
      /\ \/ requests[i].is = "ok" /\ tab'.shown = requests[i].answer
         \/ requests[i].is # "ok" /\ tab' = tab
  BY <1>2, <1>5 DEF DeleteAnswered, TabType, Fails
<1>7. UNCHANGED <<scope, selectedNode, version, types, landed, mishaps>>
  BY DEF DeleteAnswered
<1>8. Typed' /\ TabFits' /\ RequestsFit' /\ ListCurrent' /\ HoldingsFit'
  BY <1>1, <1>3, <1>6, <1>7, AnsweredStep DEF ListOps
<1>9. FormFits'
  <2>1. Live(Saves)' = Live(Saves) /\ \A j \in Live(Saves) : requests'[j] = requests[j]
    <3>1. i \notin Live(Saves)
      BY <1>1 DEF Live, Saves
    <3> QED BY <1>3, <1>4, <3>1 DEF Live, UnderWay
  <2>2. OneSave => OneSave'
    BY <1>6, <1>7, <2>1 DEF OneSave, Saving
  <2> QED BY <1>4, <1>6, <1>7, <2>2 DEF IInv, FormFits
<1> QED BY <1>8, <1>9 DEF IInv

LEMMA SaveStep ==
    ASSUME IInv, NEW i \in Slots, SaveAnswered(i), UNCHANGED <<summaryVars, activeTab>>
    PROVE  IInv'
<1> DEFINE r == requests[i]
<1>1. r.op \in Saves /\ r.op \in ListOps /\ r.live
  BY DEF SaveAnswered, Saves, ListOps
<1>2. /\ tab.kind # "none" /\ i \in UnderWay
      /\ r.is = "ok" => r.answer \in Contents /\ r.answer.of = selectedNode
  BY <1>1, ListAnswer
<1>3. /\ tab \in TabType /\ requests \in [Slots -> RequestType]
      /\ UNCHANGED <<scope, selectedNode, version, types>>
  BY DEF IInv, Typed, SaveAnswered
<1>4. i \in Live(Saves)
  BY <1>1, <1>2 DEF Live
<1>5. CASE /\ r.is = "ok"
           /\ tab' = [tab EXCEPT !.form = NoForm, !.shown = r.answer]
           /\ landed' = 0
           /\ requests' = [NoneMine(requests) EXCEPT ![i] = Free]
           /\ UNCHANGED mishaps
  <2>1. NoForm \in FormType /\ NoForm.open = "none"
    BY DEF NoForm, FormType
  <2>2. /\ tab' \in TabType /\ tab'.kind = tab.kind /\ tab'.form.open = "none"
        /\ tab'.shown = r.answer
    BY <1>2, <1>3, <1>5, <2>1 DEF TabType
  <2>3. /\ NoneMine(requests) \in [Slots -> RequestType]
        /\ requests' \in [Slots -> RequestType] /\ requests'[i] = Free
        /\ \A j \in Slots \ {i} : requests'[j] = NoneMine(requests)[j]
    BY <1>3, <1>5, FreeTyped, NoneMineSlots
  <2>4. \A j \in Slots : NoneMine(requests)[j].left = requests[j].left
    BY <1>3 DEF NoneMine, RequestType
  <2>5. Gone(i) /\ \A j \in Slots : ~requests'[j].mine
    BY <1>3, <2>3, <2>4, NoneMineSlots, FreeTyped DEF Gone
  <2>6. Typed' /\ TabFits' /\ RequestsFit' /\ ListCurrent' /\ HoldingsFit'
    BY <1>1, <1>3, <1>5, <2>2, <2>5, AnsweredStep
  <2>7. FormFits'
    BY <1>5, <2>2, <2>5 DEF FormFits
  <2> QED BY <2>6, <2>7 DEF IInv
<1>6. CASE /\ Fails(r) \/ r.op = "merge"
           /\ tab' = [tab EXCEPT !.form.status = "error"]
           /\ requests' = Without(i)
           /\ mishaps' = IF r.is = "ok" THEN mishaps \union {"lost"} ELSE mishaps
           /\ UNCHANGED landed
  <2>1. /\ tab' \in TabType /\ tab'.kind = tab.kind /\ tab'.shown = tab.shown
        /\ tab'.loading = tab.loading /\ tab'.error = tab.error
        /\ tab'.form.open = tab.form.open
    BY <1>6, StatusTyped DEF IInv
  <2>2. Gone(i) /\ \A j \in Slots \ {i} : requests'[j] = requests[j]
    BY <1>6, GoneWithout
  <2>3. /\ UnderWay' = UnderWay \ {i} /\ Live(Saves)' = Live(Saves) \ {i}
        /\ \A j \in Slots : requests'[j].mine => requests[j].mine
    BY <2>2, GoneSlots
  <2>4. mishaps' \in {mishaps, mishaps \union {"lost"}} /\ (r.is = "ok" => "lost" \in mishaps')
    BY <1>6
  <2>5. Typed' /\ TabFits' /\ RequestsFit' /\ ListCurrent' /\ HoldingsFit'
    BY <1>1, <1>3, <1>6, <2>1, <2>2, <2>4, AnsweredStep
  <2>6. ASSUME tab.form.open # "none", mishaps' \intersect {"lost", "abandoned"} = {} PROVE OneSave'
    <3>1. OneSave /\ r.is # "ok"
      BY <1>6, <2>4, <2>6 DEF IInv, FormFits
    <3>2. r.is = "sent"
      BY <1>4, <3>1, SlotTyped DEF OneSave, IInv
    <3>3. Live(Saves) = {i} /\ landed = 0
      BY <1>4, <3>1, <3>2 DEF OneSave
    <3> QED BY <1>6, <2>3, <3>3 DEF OneSave
  <2>7. FormFits'
    BY <1>3, <1>6, <2>1, <2>3, <2>6 DEF IInv, FormFits
  <2> QED BY <2>5, <2>7 DEF IInv
<1> QED BY <1>5, <1>6 DEF SaveAnswered

\* Every step of a list tab.
LEMMA ListTabSteps ==
    ASSUME IInv, ListTabNext, UNCHANGED <<summaryVars, activeTab>> PROVE IInv'
<1>1. ASSUME NEW i \in Slots, LoadAnswered(i) \/ SaveAnswered(i) \/ DeleteAnswered(i) PROVE IInv'
  BY <1>1, LoadStep, SaveStep, DeleteStep
<1>2. CASE Retry \/ DeleteRow
  BY <1>2, RetryStep, DeleteRowStep
<1>3. CASE \/ TypesAnswered \/ RetryTypes \/ SetActionType \/ SetFilter
           \/ AdvanceToConfirm \/ BackToFields
  BY <1>3, AsideSteps
<1>4. CASE ShowNewForm \/ ShowEditForm \/ CancelForm
  BY <1>4, FormSteps
<1>5. CASE SaveTransaction \/ SaveCredit \/ SavePrice \/ SaveSplit \/ SaveSpinOff \/ SaveMerger
  BY <1>5, SaveSteps
<1> QED BY <1>1, <1>2, <1>3, <1>4, <1>5 DEF ListTabNext

----------------------------------------------------------------------------
(* The server.                                                             *)

LEMMA Numbers ==
    ASSUME NEW x \in 0..MaxChanges
    PROVE  x \in Nat /\ x <= MaxChanges /\ (x < MaxChanges => x + 1 \in 0..MaxChanges)
BY DetailAssumption

\* What the server has of node n after the step.
ContentNext(n) == [of |-> n, at |-> [a \in Under(n) |-> version'[a]]]

LEMMA ContentAfter ==
    ASSUME UNCHANGED selectedNode PROVE Content(selectedNode)' = ContentNext(selectedNode)
BY DEF Content, ContentNext, Under

\* The server answers request i with s, which is free when nobody waits for it.
Serves(i, s) ==
    LET r == requests[i]
    IN  /\ r.op # "free" /\ s \in RequestType
        /\ requests' = [requests EXCEPT ![i] = s]
        /\ \/ ~r.live /\ s = Free
           \/ /\ r.live /\ r.op # "rows" /\ r.is = "sent" /\ s.is # "sent"
              /\ s.op = r.op /\ s.node = r.node /\ s.live = r.live /\ s.mine = r.mine /\ s.left = r.left
              /\ s.is = "ok" => s.answer = ContentNext(r.node)
              /\ s.is = "lost" => "lost" \in mishaps'
        /\ \/ UNCHANGED version
           \/ /\ r.node \in Assets /\ version[r.node] < MaxChanges
              /\ version' = [version EXCEPT ![r.node] = @ + 1]
        /\ mishaps' \in {mishaps, mishaps \union {"lost"}}
        /\ UNCHANGED <<scope, selectedNode>>

\* The versions only grow.
Grows ==
    /\ version' \in [Assets -> 0..MaxChanges]
    /\ \A a \in Assets : version[a] <= version'[a]

LEMMA GrowsByOne ==
    ASSUME Typed, NEW a \in Assets, version[a] < MaxChanges,
           version' = [version EXCEPT ![a] = @ + 1]
    PROVE  Grows /\ version'[a] = version[a] + 1 /\ version' # version
<1>1. version \in [Assets -> 0..MaxChanges]
  BY DEF Typed, TypeOK, SharedTypeOK
<1>2. version[a] \in Nat /\ version[a] + 1 \in 0..MaxChanges
  BY <1>1, Numbers
<1>3. \A b \in Assets : version[b] \in 0..MaxChanges /\ version[b] \in Nat
  BY <1>1, Numbers
<1> QED BY <1>1, <1>2, <1>3 DEF Grows

LEMMA GrowsNot == ASSUME Typed, UNCHANGED version PROVE Grows
<1>1. version \in [Assets -> 0..MaxChanges]
  BY DEF Typed, TypeOK, SharedTypeOK
<1>2. \A b \in Assets : version[b] \in Nat
  BY <1>1, Numbers
<1> QED BY <1>1, <1>2 DEF Grows

LEMMA ServedStep ==
    ASSUME IInv, NEW i \in Slots, NEW s, Serves(i, s),
           landed' = landed + (IF i \in SavesOfForm /\ version' # version THEN 1 ELSE 0),
           UNCHANGED <<tab, types, summaryVars, activeTab>>
    PROVE  IInv'
<1> USE DEF summaryVars
<1> DEFINE r == requests[i]
<1>0. /\ RequestSound(r) /\ (r.live => Owned(r)) /\ i \in UnderWay
      /\ requests \in [Slots -> RequestType] /\ landed \in 0..MaxChanges /\ landed \in Nat
  BY Numbers DEF IInv, RequestsFit, UnderWay, Serves, Typed, TypeOK, ListTypeOK
<1>1. /\ requests' \in [Slots -> RequestType] /\ requests'[i] = s
      /\ \A j \in Slots \ {i} : requests'[j] = requests[j]
  BY <1>0 DEF Serves
<1>2. Grows /\ (version' # version => r.node \in Assets /\ version'[r.node] = version[r.node] + 1)
  <2>1. CASE UNCHANGED version
    BY <2>1, GrowsNot DEF IInv
  <2>2. CASE version' # version
    BY <2>2, GrowsByOne DEF IInv, Serves
  <2> QED BY <2>1, <2>2
<1>3. r.mine => r.live /\ r.op \in Saves /\ r.node = selectedNode
  BY <1>0 DEF RequestSound, Owned, Saves, SummaryOps, HoldingsOps
<1>4. i \in SavesOfForm <=> r.mine
  BY <1>0, <1>3 DEF SavesOfForm, Saves
<1>5. \/ landed' = landed
      \/ landed' = landed + 1 /\ r.mine /\ version' # version
  BY <1>0, <1>4
<1>6. landed' = 0 \/ (selectedNode \in Assets /\ landed' <= version'[selectedNode])
  <2>1. CASE landed' = landed
    <3>1. landed = 0 \/ (selectedNode \in Assets /\ landed <= version[selectedNode])
      BY DEF IInv, FormFits
    <3>2. \A a \in Assets : version[a] \in 0..MaxChanges /\ version'[a] \in 0..MaxChanges
      BY <1>2 DEF Grows, IInv, Typed, TypeOK, SharedTypeOK
    <3>3. \A a \in Assets : version[a] \in Nat /\ version'[a] \in Nat /\ version[a] <= version'[a]
      BY <1>2, <3>2, Numbers DEF Grows
    <3> QED BY <1>0, <2>1, <3>1, <3>3
  <2>2. CASE landed' = landed + 1 /\ r.mine /\ version' # version
    <3>1. selectedNode \in Assets /\ version'[selectedNode] = version[selectedNode] + 1
      BY <1>2, <1>3, <2>2
    <3>2. version[selectedNode] \in 0..MaxChanges
      BY <3>1 DEF IInv, Typed, TypeOK, SharedTypeOK
    <3>3. version[selectedNode] \in Nat
      BY <3>2, Numbers
    <3>4. landed <= version[selectedNode]
      BY <3>1, <3>3 DEF IInv, FormFits
    <3> QED BY <1>0, <2>2, <3>1, <3>3, <3>4
  <2> QED BY <1>5, <2>1, <2>2
<1>7. Typed'
  <2>1. mishaps' \subseteq Mishaps
    BY DEF Serves, IInv, Typed, TypeOK, SharedTypeOK, Mishaps
  <2>2. landed' \in 0..MaxChanges
    <3>1. selectedNode \in Assets => version'[selectedNode] \in Nat /\ version'[selectedNode] <= MaxChanges
      BY <1>2, Numbers DEF Grows
    <3>2. landed' \in Nat
      BY <1>0, <1>5
    <3> QED BY <1>6, <3>1, <3>2, DetailAssumption
  <2> QED BY <1>1, <1>2, <2>1, <2>2
          DEF Serves, Grows, IInv, Typed, TypeOK, SharedTypeOK, ListTypeOK, SummaryTypeOK
<1>8. TabFits'
  BY DEF IInv, TabFits, Serves
<1>9. RequestsFit'
  <2>1. RequestSound(s)
    <3>1. CASE s = Free
      BY <3>1, FreeTyped
    <3>2. CASE s # Free
      <4>1. /\ s.op # "rows" /\ s.op = r.op /\ s.node = r.node /\ s.live = r.live /\ s.mine = r.mine
            /\ s.is = "ok" => s.answer.of = r.node
        BY <3>2 DEF Serves, ContentNext
      <4> QED BY <1>0, <4>1 DEF RequestSound
    <3> QED BY <3>1, <3>2
  <2>2. s.live => Owned(s)
    BY <1>0, FreeTyped DEF Serves, Owned
  <2>3. \A j \in Slots : RequestSound(requests'[j]) /\ (requests'[j].live => Owned(requests'[j]))
    BY <1>1, <2>1, <2>2 DEF IInv, RequestsFit
  <2> QED BY <2>3 DEF RequestsFit, Owned, RequestSound, Serves
<1>10. ASSUME AtMostOne, r.live
       PROVE  UnderWay' = {i} /\ AtMostOne'
  <2>1. UnderWay = {i}
    BY <1>0, <1>10 DEF AtMostOne
  <2>2. s.op # "free"
    BY <1>10 DEF Serves
  <2>3. UnderWay' = {i}
    BY <1>1, <2>1, <2>2 DEF UnderWay
  <2> QED BY <2>3 DEF AtMostOne
<1>11. ListCurrent'
  <2> SUFFICES ASSUME tab.kind # "none", mishaps' \intersect {"overlap", "lost"} = {}
               PROVE  AtMostOne' /\ AnswersCurrent' /\ Answered'
    BY DEF ListCurrent
  <2>1. AtMostOne /\ r.live
    BY <1>0 DEF Serves, IInv, ListCurrent, AnswersCurrent
  <2>2. r.node = selectedNode
    <3>1. ~summary.mounted /\ ~holdings.mounted
      BY ListIsOfAsset DEF Mounted
    <3> QED BY <1>0, <2>1, <3>1 DEF Owned
  <2>3. s.is = "ok" /\ s.live /\ s.answer = Content(selectedNode)'
    <3>1. s.is \in {"sent", "ok", "lost"}
      BY DEF Serves, RequestType
    <3> QED BY <2>1, <2>2, <3>1, ContentAfter DEF Serves
  <2> QED BY <1>1, <1>10, <2>1, <2>3 DEF AnswersCurrent, Answered
<1>12. FormFits'
  <2>1. tab'.form.open = "none" => landed' = 0 /\ \A j \in Slots : ~requests'[j].mine
    <3>1. tab.form.open = "none" => landed = 0 /\ \A j \in Slots : ~requests[j].mine
      BY DEF IInv, FormFits
    <3>2. r.mine \/ ~s.mine
      BY FreeTyped DEF Serves
    <3> QED BY <1>1, <1>5, <3>1, <3>2
  <2>2. ASSUME tab.form.open # "none", mishaps' \intersect {"lost", "abandoned"} = {} PROVE OneSave'
    <3>1. OneSave
      BY <2>2 DEF IInv, FormFits, Serves
    <3>2. CASE i \in Live(Saves)
      <4>1. Live(Saves) = {i} /\ Saving /\ r.mine /\ r.live /\ r.op \in Saves /\ r.is = "sent" /\ landed = 0
        BY <3>1, <3>2 DEF OneSave, Live, Serves
      <4>2. s.op = r.op /\ s.live /\ s.mine /\ s.is # "sent" /\ s.is # "lost"
        BY <2>2, <4>1 DEF Serves
      <4>3. Live(Saves)' = {i}
        <5>1. s.op # "free" /\ s.op \in Saves
          BY <4>1, <4>2 DEF Saves
        <5> QED BY <1>1, <4>1, <4>2, <5>1 DEF Live, UnderWay
      <4>4. landed' <= 1
        BY <1>5, <4>1
      <4> QED BY <1>1, <4>1, <4>2, <4>3, <4>4 DEF OneSave, Saving
    <3>3. CASE i \notin Live(Saves)
      <4>1. ~r.mine /\ landed' = landed
        BY <1>0, <1>3, <1>5, <3>3 DEF Live
      <4>2. i \notin Live(Saves)'
        BY <1>0, <1>1, <3>3, FreeTyped DEF Live, UnderWay, Serves, Saves
      <4>3. Live(Saves)' = Live(Saves) /\ \A j \in Live(Saves) : requests'[j] = requests[j]
        BY <1>1, <3>3, <4>2 DEF Live, UnderWay
      <4> QED BY <3>1, <4>1, <4>3 DEF OneSave, Saving
    <3> QED BY <3>2, <3>3
  <2> QED BY <1>6, <2>1, <2>2 DEF FormFits, Serves
<1>13. HoldingsFit'
  <2> SUFFICES ASSUME holdings.mounted, mishaps' = {}
               PROVE  AtMostOne' /\ AnswersCurrent' /\ UnderWay' = {i} /\ RowsFit(s)'
    BY <1>1 DEF HoldingsFit, RowsFit
  <2>1. AtMostOne /\ r.live /\ RowsFit(r)
    BY <1>0 DEF Serves, IInv, HoldingsFit, AnswersCurrent
  <2>2. r.node = selectedNode
    <3>1. ~summary.mounted /\ tab.kind = "none"
      BY DEF IInv, TabFits, ListTabIds
    <3> QED BY <1>0, <2>1, <3>1 DEF Owned
  <2>3. s.is = "ok" /\ s.live /\ s.answer = Content(selectedNode)'
    <3>1. s.is \in {"sent", "ok", "lost"}
      BY DEF Serves, RequestType
    <3> QED BY <2>1, <2>2, <3>1, ContentAfter DEF Serves
  <2>4. RowsFit(s)'
    BY <2>1 DEF Serves, RowsFit
  <2> QED BY <1>1, <1>10, <2>1, <2>3, <2>4 DEF AnswersCurrent
<1> QED BY <1>7, <1>8, <1>9, <1>11, <1>12, <1>13 DEF IInv


\* A request that is answered with content c, or whose answer is lost.
LEMMA OkFields ==
    ASSUME NEW r \in RequestType, NEW c \in Contents
    PROVE  /\ Ok(r, c) \in RequestType /\ Ok(r, c).op = r.op /\ Ok(r, c).node = r.node
           /\ Ok(r, c).live = r.live /\ Ok(r, c).mine = r.mine /\ Ok(r, c).left = r.left
           /\ Ok(r, c).is = "ok" /\ Ok(r, c).answer = c
BY DEF Ok, RequestType

LEMMA LostFields ==
    ASSUME NEW r \in RequestType
    PROVE  LET s == [r EXCEPT !.is = "lost"]
           IN  /\ s \in RequestType /\ s.op = r.op /\ s.node = r.node
               /\ s.live = r.live /\ s.mine = r.mine /\ s.left = r.left /\ s.is = "lost"
BY DEF RequestType

\* Request i is kept as s when somebody waits for it.
LEMMA KeptServes ==
    ASSUME IInv, NEW i \in Slots, NEW s \in RequestType, Kept(i, s), s.live = requests[i].live,
           requests[i].op \notin {"free", "rows"}, requests[i].is = "sent", s.is # "sent",
           s.op = requests[i].op, s.node = requests[i].node, s.mine = requests[i].mine,
           s.left = requests[i].left,
           s.is = "ok" => s.answer = ContentNext(requests[i].node),
           s.is = "lost" /\ s.live => "lost" \in mishaps',
           \/ UNCHANGED version
           \/ /\ requests[i].node \in Assets /\ version[requests[i].node] < MaxChanges
              /\ version' = [version EXCEPT ![requests[i].node] = @ + 1],
           mishaps' \in {mishaps, mishaps \union {"lost"}}, UNCHANGED <<scope, selectedNode>>
    PROVE  \E t : Serves(i, t)
<1>1. CASE s.live
  <2>1. Serves(i, s)
    BY <1>1 DEF Kept, Serves
  <2> QED BY <2>1
<1>2. CASE ~s.live
  <2>1. Serves(i, Free)
    BY <1>2, FreeTyped DEF Kept, Serves
  <2> QED BY <2>1
<1> QED BY <1>1, <1>2

\* A request nobody waits for is carried out.
LEMMA OrphanStep ==
    ASSUME IInv, NEW i \in Slots, requests[i].op # "free", ~requests[i].live,
           NEW s \in RequestType, requests' = [requests EXCEPT ![i] = s],
           RequestSound(s), ~s.live, Grows,
           UNCHANGED <<scope, selectedNode, mishaps, summaryVars, listVars, activeTab>>
    PROVE  IInv'
<1> USE DEF summaryVars, listVars
<1>1. /\ requests' \in [Slots -> RequestType] /\ requests'[i] = s
      /\ \A j \in Slots \ {i} : requests'[j] = requests[j]
  BY DEF IInv, Typed
<1>2. i \in UnderWay /\ ~s.mine /\ ~AnswersCurrent
  BY DEF UnderWay, RequestSound, AnswersCurrent
<1>3. Typed'
  BY <1>1 DEF Grows, IInv, Typed, TypeOK, SharedTypeOK, ListTypeOK, SummaryTypeOK
<1>4. TabFits'
  BY DEF IInv, TabFits
<1>5. RequestsFit'
  BY <1>1 DEF IInv, RequestsFit, Owned, RequestSound
<1>6. ListCurrent'
  BY <1>2 DEF IInv, ListCurrent
<1>7. HoldingsFit'
  BY <1>2 DEF IInv, HoldingsFit
<1>8. FormFits'
  <2>1. Live(Saves)' = Live(Saves) /\ \A j \in Live(Saves) : requests'[j] = requests[j]
    BY <1>1 DEF Live, UnderWay
  <2>2. OneSave => OneSave'
    BY <2>1 DEF OneSave, Saving
  <2>3. landed = 0 \/ (selectedNode \in Assets /\ landed <= version'[selectedNode])
    <3>1. \A b \in Assets : version[b] \in 0..MaxChanges /\ version'[b] \in 0..MaxChanges
      BY DEF Grows, IInv, Typed, TypeOK, SharedTypeOK
    <3>2. \A b \in Assets : version[b] \in Nat /\ version'[b] \in Nat /\ version[b] <= version'[b]
      BY <3>1, Numbers DEF Grows
    <3>3. landed \in Nat
      BY Numbers DEF IInv, Typed, TypeOK, ListTypeOK
    <3> QED BY <3>2, <3>3 DEF IInv, FormFits
  <2>4. tab.form.open = "none" => \A j \in Slots : ~requests'[j].mine
    BY <1>1, <1>2 DEF IInv, FormFits
  <2> QED BY <2>2, <2>3, <2>4 DEF IInv, FormFits
<1> QED BY <1>3, <1>4, <1>5, <1>6, <1>7, <1>8 DEF IInv

LEMMA ServerSteps ==
    ASSUME IInv, NEW i \in Slots, ServerOnList(i), UNCHANGED <<summaryVars, activeTab>>
    PROVE  IInv'
<1> DEFINE r == requests[i]
<1>0. /\ r \in RequestType /\ RequestSound(r)
      /\ version \in [Assets -> 0..MaxChanges] /\ Typed
  BY SlotTyped DEF IInv, RequestsFit, Typed, TypeOK, SharedTypeOK
<1>1. ASSUME r.op \in {"load", "asset", "weight", "reread", "items", "itemsReread", "price"},
             r.is = "sent", UNCHANGED version
      PROVE  /\ Ok(r, Content(r.node)) \in RequestType
             /\ Ok(r, Content(r.node)).answer = ContentNext(r.node)
             /\ Ok(r, Content(r.node)).is = "ok" /\ Ok(r, Content(r.node)).op = r.op
             /\ Ok(r, Content(r.node)).node = r.node /\ Ok(r, Content(r.node)).live = r.live
             /\ Ok(r, Content(r.node)).mine = r.mine /\ Ok(r, Content(r.node)).left = r.left
  <2>1. r.node \in Nodes
    BY <1>0, <1>1 DEF RequestSound
  <2>2. Content(r.node) \in Contents
    BY <1>0, <2>1, ContentTyped
  <2>3. Content(r.node) = ContentNext(r.node)
    BY <1>1 DEF Content, ContentNext
  <2> QED BY <1>0, <2>2, <2>3, OkFields
<1>2. CASE AnswerRead(i)
  <2>1. /\ r.op \in {"load", "asset", "weight", "reread", "items", "itemsReread"}
        /\ r.is = "sent" /\ requests' = [requests EXCEPT ![i] = Ok(r, Content(r.node))]
        /\ UNCHANGED <<scope, selectedNode, version, mishaps>>
    BY <1>2 DEF AnswerRead
  <2>2. CASE r.live
    <3>1. Serves(i, Ok(r, Content(r.node)))
      BY <1>1, <2>1, <2>2 DEF Serves
    <3> QED BY <3>1, ServedStep DEF ServerOnList
  <2>3. CASE ~r.live
    <3>1. landed' = landed
      BY <2>1, Numbers DEF ServerOnList, IInv, Typed, TypeOK, ListTypeOK
    <3>2. UNCHANGED <<summaryVars, listVars, activeTab>>
      BY <3>1 DEF ServerOnList, listVars
    <3> DEFINE s == Ok(r, Content(r.node))
    <3>3. s \in RequestType /\ RequestSound(s) /\ ~s.live
      <4>1. /\ s \in RequestType /\ s.op = r.op /\ s.node = r.node /\ s.live = r.live
            /\ s.mine = r.mine /\ s.answer = ContentNext(r.node)
        BY <1>1, <2>1
      <4>2. s.answer.of = r.node
        BY <4>1 DEF ContentNext
      <4> HIDE DEF s
      <4> QED BY <1>0, <2>1, <2>3, <4>1, <4>2 DEF RequestSound
    <3>4. Grows
      BY <2>1, GrowsNot DEF IInv
    <3> QED BY <2>1, <2>3, <3>2, <3>3, <3>4, OrphanStep
  <2> QED BY <2>2, <2>3
<1>3. CASE AnswerSamePrice(i)
  <2>1. /\ r.op = "price" /\ r.is = "sent" /\ Kept(i, Ok(r, Content(r.node)))
        /\ UNCHANGED <<scope, selectedNode, version, mishaps>>
    BY <1>3 DEF AnswerSamePrice
  <2>2. \E t : Serves(i, t)
    BY <1>1, <2>1, KeptServes
  <2> QED BY <2>2, ServedStep DEF ServerOnList
<1>4. ASSUME Changing(r), r.is = "sent", Change(r.node)
      PROVE  /\ r.op \notin {"free", "rows"} /\ r.node \in Assets /\ version[r.node] < MaxChanges
             /\ version' = [version EXCEPT ![r.node] = @ + 1]
             /\ version' \in [Assets -> 0..MaxChanges]
  <2>1. r.op \notin {"free", "rows"} /\ r.node \in Assets
    BY <1>0, <1>4 DEF Changing, RequestSound, TabWrites, SummaryOps
  <2>2. Grows
    BY <1>0, <1>4, <2>1, GrowsByOne DEF Change
  <2> QED BY <1>4, <2>1, <2>2 DEF Change, Grows
<1>5. CASE AnswerChange(i)
  <2> DEFINE c == [of |-> r.node, at |-> [a \in {r.node} |-> version[a] + 1]]
  <2>1. /\ Changing(r) /\ r.is = "sent" /\ Change(r.node) /\ Kept(i, Ok(r, c))
        /\ UNCHANGED <<scope, selectedNode, mishaps>>
    BY <1>5 DEF AnswerChange
  <2>2. /\ r.op \notin {"free", "rows"} /\ r.node \in Assets /\ version[r.node] < MaxChanges
        /\ version' = [version EXCEPT ![r.node] = @ + 1]
        /\ version' \in [Assets -> 0..MaxChanges]
    BY <1>4, <2>1
  <2>3. c = ContentNext(r.node)
    BY <1>0, <2>2 DEF ContentNext, Under
  <2>4. c \in Contents
    <3>1. c.at \in [Under(r.node) -> 0..MaxChanges]
      BY <2>2, <2>3 DEF ContentNext, Under
    <3>2. c \in [of : {r.node}, at : [Under(r.node) -> 0..MaxChanges]]
      BY <3>1
    <3> QED BY <2>2, <3>2 DEF Contents, Nodes
  <2> HIDE DEF c
  <2>5. /\ Ok(r, c) \in RequestType /\ Ok(r, c).op = r.op /\ Ok(r, c).node = r.node
        /\ Ok(r, c).live = r.live /\ Ok(r, c).mine = r.mine /\ Ok(r, c).left = r.left
        /\ Ok(r, c).is = "ok" /\ Ok(r, c).answer = c
    BY <1>0, <2>4, OkFields
  <2>6. \E t : Serves(i, t)
    BY <2>1, <2>2, <2>3, <2>5, KeptServes
  <2> QED BY <2>6, ServedStep DEF ServerOnList
<1>6. CASE LoseAnswer(i)
  <2> DEFINE s == [r EXCEPT !.is = "lost"]
  <2>1. /\ Changing(r) /\ r.is = "sent" /\ Change(r.node) /\ Kept(i, s)
        /\ mishaps' = IF r.live THEN mishaps \union {"lost"} ELSE mishaps
        /\ UNCHANGED <<scope, selectedNode>>
    BY <1>6 DEF LoseAnswer
  <2>2. /\ r.op \notin {"free", "rows"} /\ r.node \in Assets /\ version[r.node] < MaxChanges
        /\ version' = [version EXCEPT ![r.node] = @ + 1]
    BY <1>4, <2>1
  <2>3. /\ s \in RequestType /\ s.op = r.op /\ s.node = r.node
        /\ s.live = r.live /\ s.mine = r.mine /\ s.left = r.left /\ s.is = "lost"
    BY <1>0, LostFields
  <2> HIDE DEF s
  <2>4. \E t : Serves(i, t)
    BY <2>1, <2>2, <2>3, KeptServes
  <2> QED BY <2>4, ServedStep DEF ServerOnList
<1>7. CASE DropOrphan(i)
  <2>1. Serves(i, Free)
    BY <1>7, FreeTyped DEF DropOrphan, Orphans, UnderWay, Serves, Without
  <2> QED BY <2>1, ServedStep DEF ServerOnList
<1> QED BY <1>2, <1>3, <1>5, <1>6, <1>7 DEF ServerOnList, Server

----------------------------------------------------------------------------
(* The summary of an asset and the holdings of a portfolio.                *)

\* A step after which no list tab is mounted.
LEMMA NoListStep ==
    ASSUME IInv, tab' = NoTab, landed' = 0, types' \in {"loading", "loaded", "error"},
           scope' = scope, selectedNode' \in Nodes \union {None},
           version' \in [Assets -> 0..MaxChanges], mishaps' \subseteq Mishaps,
           requests' \in [Slots -> RequestType], SummaryTypeOK',
           activeTab' \in IF selectedNode' = None THEN {"summary"} ELSE TabsOf(selectedNode'),
           activeTab' \notin ListTabIds,
           summary'.mounted => activeTab' = "summary" /\ selectedNode' \in Assets,
           holdings'.mounted => activeTab' = "holdings" /\ selectedNode' = Portfolio,
           \A j \in Slots :
              /\ RequestSound(requests'[j])
              /\ requests'[j].live =>
                    \/ requests'[j].op \in SummaryOps /\ summary'.mounted
                    \/ /\ requests'[j].op \in HoldingsOps /\ holdings'.mounted
                       /\ requests'[j].node = selectedNode',
           HoldingsFit'
    PROVE  IInv'
<1>1. /\ NoTab \in TabType /\ NoTab.kind = "none" /\ NoTab.shown = None /\ NoTab.form.open = "none"
      /\ NoTab.form \in FormType
  <2>1. NoForm \in FormType /\ NoForm.open = "none"
    BY DEF NoForm, FormType
  <2> QED BY <2>1, FiltersAssumption DEF NoTab, Unloaded, TabType, Contents
<1>2. Typed'
  <2>1. 0 \in 0..MaxChanges
    BY DetailAssumption
  <2>2. activeTab' \in AssetTabs \union PortfolioTabs
    BY DEF TabsOf, AssetTabs, PortfolioTabs
  <2> QED BY <1>1, <2>1, <2>2 DEF IInv, Typed, TypeOK, SharedTypeOK, ListTypeOK, TabType
<1>3. TabFits'
  BY <1>1 DEF TabFits, TabsOf, NoTab, Unloaded
<1>4. RequestsFit'
  BY DEF RequestsFit, Owned, RequestSound
<1>5. ListCurrent'
  BY <1>1 DEF ListCurrent
<1>6. FormFits'
  <2>1. \A j \in Slots : ~requests'[j].mine
    BY DEF RequestSound, Saves, SummaryOps, HoldingsOps
  <2> QED BY <1>1, <2>1 DEF FormFits
<1> QED BY <1>2, <1>3, <1>4, <1>5, <1>6 DEF IInv

LEMMA ShapesTyped ==
    /\ SummaryTypeOK <=> summary \in SummaryType /\ holdings \in HoldingsType
    /\ SummaryTypeOK' <=> summary' \in SummaryType /\ holdings' \in HoldingsType
BY DEF SummaryTypeOK, SummaryType, HoldingsType

LEMMA SummaryShapes ==
    /\ NoSummary \in SummaryType /\ ~NoSummary.mounted
    /\ BlankSummary \in SummaryType
    /\ NoHoldings \in HoldingsType /\ ~NoHoldings.mounted
    /\ BlankHoldings \in HoldingsType
    /\ [BlankHoldings EXCEPT !.loading = TRUE] \in HoldingsType
    /\ [BlankHoldings EXCEPT !.loading = TRUE].loading
    /\ [BlankHoldings EXCEPT !.loading = TRUE].mounted
BY DEF NoSummary, BlankSummary, SummaryType, NoHoldings, BlankHoldings, NoRows, HoldingsType, Contents

LEMMA SummaryChanges ==
    ASSUME NEW s \in SummaryType
    PROVE  /\ AssetFetchStarted(s) \in SummaryType /\ AssetFetchStarted(s).mounted
           /\ PriceFetchStarted(s) \in SummaryType /\ PriceFetchStarted(s).mounted = s.mounted
           /\ PriceFailed(s) \in SummaryType /\ PriceFailed(s).mounted = s.mounted
<1>1. /\ AssetFetchStarted(s) \in SummaryType /\ AssetFetchStarted(s).mounted
  BY DEF AssetFetchStarted, BlankSummary, SummaryType, Contents
<1>2. /\ PriceFetchStarted(s) \in SummaryType /\ PriceFetchStarted(s).mounted = s.mounted
  BY DEF PriceFetchStarted, SummaryType
<1>3. /\ PriceFailed(s) \in SummaryType /\ PriceFailed(s).mounted = s.mounted
  BY DEF PriceFailed, SummaryType
<1> QED BY <1>1, <1>2, <1>3

\* The asset's summary is mounted: no list tab and no holdings are.
LEMMA SummaryState ==
    ASSUME IInv, summary.mounted
    PROVE  /\ tab = NoTab /\ landed = 0 /\ activeTab = "summary" /\ selectedNode \in Assets
           /\ ~holdings.mounted /\ activeTab \notin ListTabIds
           /\ \A j \in Slots : /\ RequestSound(requests[j])
                               /\ requests[j].live => requests[j].op \in SummaryOps
<1>1. activeTab = "summary" /\ selectedNode \in Assets /\ ~holdings.mounted /\ activeTab \notin ListTabIds
  BY DEF IInv, TabFits, ListTabIds
<1>2. tab = NoTab /\ tab.kind = "none"
  BY <1>1 DEF IInv, TabFits
<1>3. landed = 0
  BY <1>2 DEF IInv, FormFits, NoTab, Unloaded, NoForm
<1> QED BY <1>1, <1>2, <1>3 DEF IInv, RequestsFit, Owned

\* A step of the asset's summary.
LEMMA SummaryStep ==
    ASSUME IInv, summary.mounted, summary' \in SummaryType, summary'.mounted,
           mishaps' \subseteq Mishaps, requests' \in [Slots -> RequestType],
           \A j \in Slots : /\ RequestSound(requests'[j])
                            /\ requests'[j].live => requests'[j].op \in SummaryOps,
           UNCHANGED <<scope, selectedNode, version, holdings, listVars, activeTab>>
    PROVE  IInv'
<1>1. /\ tab' = NoTab /\ landed' = 0 /\ activeTab' = "summary" /\ selectedNode' \in Assets
      /\ ~holdings'.mounted /\ activeTab' \notin ListTabIds /\ selectedNode' # None
  BY SummaryState, NodesApart DEF listVars
<1>2. /\ types' \in {"loading", "loaded", "error"} /\ selectedNode' \in Nodes
      /\ version' \in [Assets -> 0..MaxChanges] /\ SummaryTypeOK'
  BY <1>1, ShapesTyped, NodesApart DEF listVars, IInv, Typed, TypeOK, SharedTypeOK, ListTypeOK
<1>3. HoldingsFit'
  BY <1>1 DEF HoldingsFit
<1>4. activeTab' \in TabsOf(selectedNode')
  BY <1>1 DEF TabsOf, AssetTabs
<1> QED BY <1>1, <1>2, <1>3, <1>4, NoListStep

LEMMA FetchAssetSlots ==
    ASSUME NEW rs \in [Slots -> RequestType], NEW s \in SummaryType, NEW n \in Assets,
           \A j \in Slots : /\ RequestSound(rs[j])
                            /\ rs[j].live => rs[j].op \in SummaryOps,
           FetchAsset(s, n, rs)
    PROVE  /\ summary' \in SummaryType /\ summary'.mounted /\ mishaps' \subseteq Mishaps
           /\ requests' \in [Slots -> RequestType]
           /\ \A j \in Slots : /\ RequestSound(requests'[j])
                               /\ requests'[j].live => requests'[j].op \in SummaryOps
<1>1. /\ summary' \in SummaryType /\ summary'.mounted /\ mishaps' \subseteq Mishaps
  <2>1. /\ AssetFetchStarted(s) \in SummaryType /\ AssetFetchStarted(s).mounted
    BY SummaryChanges
  <2>2. /\ PriceFetchStarted(AssetFetchStarted(s)) \in SummaryType
        /\ PriceFetchStarted(AssetFetchStarted(s)).mounted
    BY <2>1, SummaryChanges
  <2> QED BY <2>1, <2>2 DEF FetchAsset, MishapsAtStart, Mishaps
<1>2. ASSUME NEW p \in SummaryOps, NEW q \in SummaryOps,
             requests' = With(With(rs, Request(p, n)), Request(q, n))
      PROVE  /\ requests' \in [Slots -> RequestType]
             /\ \A j \in Slots : /\ RequestSound(requests'[j])
                                 /\ requests'[j].live => requests'[j].op \in SummaryOps
  <2> DEFINE x == Request(p, n)
             y == Request(q, n)
             ws == With(rs, x)
  <2>1. /\ x \in RequestType /\ RequestSound(x) /\ x.op = p
        /\ y \in RequestType /\ RequestSound(y) /\ y.op = q
    BY RequestFields, NodesApart
  <2> HIDE DEF x, y
  <2>2. ws \in [Slots -> RequestType] /\ \E i : \A j \in Slots : ws[j] = IF j = i THEN x ELSE rs[j]
    BY <2>1, WithSlots
  <2> HIDE DEF ws
  <2>3. /\ With(ws, y) \in [Slots -> RequestType]
        /\ \E i : \A j \in Slots : With(ws, y)[j] = IF j = i THEN y ELSE ws[j]
    BY <2>1, <2>2, WithSlots
  <2>4. requests' = With(ws, y)
    BY <1>2 DEF ws, x, y
  <2>5. \A j \in Slots : requests'[j] \in {x, y} \/ requests'[j] = rs[j]
    BY <2>2, <2>3, <2>4
  <2> QED BY <2>1, <2>3, <2>4, <2>5
<1>3. CASE requests' = With(rs, Request("asset", n))
  <2> DEFINE x == Request("asset", n)
  <2>1. x \in RequestType /\ RequestSound(x) /\ x.op \in SummaryOps
    BY RequestFields, NodesApart DEF SummaryOps
  <2> HIDE DEF x
  <2>2. /\ With(rs, x) \in [Slots -> RequestType]
        /\ \E i : \A j \in Slots : With(rs, x)[j] = IF j = i THEN x ELSE rs[j]
    BY <2>1, WithSlots
  <2>3. requests' = With(rs, x)
    BY <1>3 DEF x
  <2>4. \A j \in Slots : requests'[j] \in {x, rs[j]}
    BY <2>2, <2>3
  <2> QED BY <1>1, <2>1, <2>2, <2>3, <2>4
<1>4. \/ \E p, q \in SummaryOps : requests' = With(With(rs, Request(p, n)), Request(q, n))
      \/ requests' = With(rs, Request("asset", n))
  BY DEF FetchAsset, SummaryOps
<1> QED BY <1>1, <1>2, <1>3, <1>4

LEMMA SummarySteps ==
    ASSUME IInv, UNCHANGED <<listVars, activeTab>>,
           \/ \E i \in Slots : \/ AssetAnswered(i) \/ WeightAnswered(i)
                               \/ PriceAnswered(i) \/ RereadAnswered(i)
           \/ Refresh \/ RetryAsset
    PROVE  IInv'
<1>0. /\ requests \in [Slots -> RequestType] /\ summary \in SummaryType /\ Typed
      /\ mishaps \subseteq Mishaps
  BY ShapesTyped DEF IInv, Typed, TypeOK, SharedTypeOK
<1>1. ASSUME NEW i \in Slots,
             AssetAnswered(i) \/ WeightAnswered(i) \/ PriceAnswered(i) \/ RereadAnswered(i)
      PROVE  IInv'
  <2>1. requests[i].op \in SummaryOps /\ RequestSound(requests[i])
    BY <1>1 DEF AssetAnswered, WeightAnswered, PriceAnswered, RereadAnswered, SummaryOps, IInv, RequestsFit
  <2>2. requests[i].live
    BY <1>1, <2>1 DEF AssetAnswered, WeightAnswered, PriceAnswered, RereadAnswered, RequestSound
  <2>3. summary.mounted
    BY <2>1, <2>2 DEF IInv, RequestsFit, Owned, SummaryOps, ListOps, HoldingsOps
  <2>4. /\ requests[i].node \in Assets /\ requests[i].answer \in Contents
    BY <2>1, SlotTyped, <1>0 DEF RequestSound
  <2>5. /\ PriceFailed(summary) \in SummaryType /\ PriceFailed(summary).mounted
    BY <1>0, <2>3, SummaryChanges
  <2>6. summary' \in SummaryType /\ summary'.mounted
    <3>1. \/ summary' = PriceFailed(summary)
          \/ summary' = [summary EXCEPT !.loading = FALSE, !.shown = requests[i].answer]
          \/ summary' = [summary EXCEPT !.loading = FALSE, !.error = TRUE]
          \/ summary' = [summary EXCEPT !.weight = requests[i].node]
          \/ summary' = [summary EXCEPT !.weight = None]
          \/ summary' = [summary EXCEPT !.pricing = FALSE, !.price = requests[i].node]
          \/ summary' = [summary EXCEPT !.shown = requests[i].answer]
      BY <1>1 DEF AssetAnswered, WeightAnswered, PriceAnswered, RereadAnswered
    <3> HIDE DEF PriceFailed
    <3> QED BY <1>0, <2>3, <2>4, <2>5, <3>1 DEF SummaryType
  <2> DEFINE q == Request("reread", requests[i].node)
  <2>7. q \in RequestType /\ RequestSound(q) /\ q.op \in SummaryOps
    BY <2>4, RequestFields, NodesApart DEF SummaryOps
  <2>8. requests' = Without(i) \/ requests' = [requests EXCEPT ![i] = q]
    BY <1>1 DEF AssetAnswered, WeightAnswered, PriceAnswered, RereadAnswered
  <2> HIDE DEF q
  <2>9. /\ requests' \in [Slots -> RequestType]
        /\ \A j \in Slots : requests'[j] \in {Free, q} \/ requests'[j] = requests[j]
    BY <1>0, <2>7, <2>8, FreeTyped DEF Without
  <2>10. \A j \in Slots : /\ RequestSound(requests'[j])
                          /\ requests'[j].live => requests'[j].op \in SummaryOps
    BY <2>3, <2>7, <2>9, FreeTyped, SummaryState
  <2>11. UNCHANGED <<scope, selectedNode, version, mishaps, holdings>>
    BY <1>1 DEF AssetAnswered, WeightAnswered, PriceAnswered, RereadAnswered
  <2> QED BY <1>0, <2>3, <2>6, <2>9, <2>10, <2>11, SummaryStep
<1>2. CASE Refresh
  <2>1. summary.mounted
    BY <1>2 DEF Refresh, AssetSummaryTab
  <2>2. selectedNode \in Assets /\ \A j \in Slots : /\ RequestSound(requests[j])
                                                    /\ requests[j].live => requests[j].op \in SummaryOps
    BY <2>1, SummaryState
  <2> DEFINE q == Request("price", selectedNode)
  <2>3. q \in RequestType /\ RequestSound(q) /\ q.op \in SummaryOps
    BY <2>2, RequestFields, NodesApart DEF SummaryOps
  <2>4. requests' = With(requests, q)
    BY <1>2 DEF Refresh
  <2> HIDE DEF q
  <2>5. /\ requests' \in [Slots -> RequestType]
        /\ \A j \in Slots : /\ RequestSound(requests'[j])
                            /\ requests'[j].live => requests'[j].op \in SummaryOps
    <3>1. /\ With(requests, q) \in [Slots -> RequestType]
          /\ \E i : \A j \in Slots : With(requests, q)[j] = IF j = i THEN q ELSE requests[j]
      BY <1>0, <2>3, WithSlots
    <3> QED BY <2>2, <2>3, <2>4, <3>1
  <2>6. /\ summary' \in SummaryType /\ summary'.mounted /\ mishaps' \subseteq Mishaps
        /\ UNCHANGED <<scope, selectedNode, version, holdings>>
    BY <1>0, <1>2, <2>1, SummaryChanges DEF Refresh, MishapsAtStart, Mishaps
  <2> QED BY <2>1, <2>5, <2>6, SummaryStep
<1>3. CASE RetryAsset
  <2>1. summary.mounted /\ FetchAsset(summary, selectedNode, requests)
        /\ UNCHANGED <<scope, selectedNode, version, holdings>>
    BY <1>3 DEF RetryAsset, AssetSummaryTab
  <2>2. selectedNode \in Assets /\ \A j \in Slots : /\ RequestSound(requests[j])
                                                    /\ requests[j].live => requests[j].op \in SummaryOps
    BY <2>1, SummaryState
  <2>3. /\ summary' \in SummaryType /\ summary'.mounted /\ mishaps' \subseteq Mishaps
        /\ requests' \in [Slots -> RequestType]
        /\ \A j \in Slots : /\ RequestSound(requests'[j])
                            /\ requests'[j].live => requests'[j].op \in SummaryOps
    BY <1>0, <2>1, <2>2, FetchAssetSlots
  <2> QED BY <2>1, <2>3, SummaryStep
<1> QED BY <1>1, <1>2, <1>3

\* The portfolio's holdings are mounted: no list tab and no summary are.
LEMMA HoldingsState ==
    ASSUME IInv, holdings.mounted
    PROVE  /\ tab = NoTab /\ landed = 0 /\ activeTab = "holdings" /\ selectedNode = Portfolio
           /\ ~summary.mounted /\ activeTab \notin ListTabIds
           /\ \A j \in Slots :
                 /\ RequestSound(requests[j])
                 /\ requests[j].live => requests[j].op \in HoldingsOps /\ requests[j].node = Portfolio
<1>1. activeTab = "holdings" /\ selectedNode = Portfolio /\ ~summary.mounted /\ activeTab \notin ListTabIds
  BY DEF IInv, TabFits, ListTabIds
<1>2. tab = NoTab /\ tab.kind = "none"
  BY <1>1 DEF IInv, TabFits
<1>3. landed = 0
  BY <1>2 DEF IInv, FormFits, NoTab, Unloaded, NoForm
<1> QED BY <1>1, <1>2, <1>3 DEF IInv, RequestsFit, Owned

\* A step of the portfolio's holdings.
LEMMA HoldingsStep ==
    ASSUME IInv, holdings.mounted, holdings' \in HoldingsType, holdings'.mounted,
           mishaps' \subseteq Mishaps, requests' \in [Slots -> RequestType],
           version' \in [Assets -> 0..MaxChanges],
           \A j \in Slots :
              /\ RequestSound(requests'[j])
              /\ requests'[j].live => requests'[j].op \in HoldingsOps /\ requests'[j].node = Portfolio,
           UNCHANGED <<scope, selectedNode, summary, listVars, activeTab>>, HoldingsFit'
    PROVE  IInv'
<1>1. /\ tab' = NoTab /\ landed' = 0 /\ activeTab' = "holdings" /\ selectedNode' = Portfolio
      /\ ~summary'.mounted /\ activeTab' \notin ListTabIds /\ selectedNode' # None
  BY HoldingsState, NodesApart DEF listVars
<1>2. /\ types' \in {"loading", "loaded", "error"} /\ selectedNode' \in Nodes /\ SummaryTypeOK'
  BY <1>1, ShapesTyped, NodesApart DEF listVars, IInv, Typed, TypeOK, ListTypeOK
<1>3. activeTab' \in TabsOf(selectedNode')
  BY <1>1, NodesApart DEF TabsOf, PortfolioTabs
<1> QED BY <1>1, <1>2, <1>3, NoListStep

LEMMA FetchItemsSlots ==
    ASSUME NEW rs \in [Slots -> RequestType],
           \A j \in Slots :
              /\ RequestSound(rs[j])
              /\ rs[j].live => rs[j].op \in HoldingsOps /\ rs[j].node = Portfolio,
           FetchItems(Portfolio, rs)
    PROVE  /\ holdings' \in HoldingsType /\ holdings'.mounted /\ mishaps' \subseteq Mishaps
           /\ requests' \in [Slots -> RequestType]
           /\ \A j \in Slots :
                 /\ RequestSound(requests'[j])
                 /\ requests'[j].live => requests'[j].op \in HoldingsOps /\ requests'[j].node = Portfolio
           /\ HoldingsFit'
<1> DEFINE q == Request("items", Portfolio)
<1>1. /\ q \in RequestType /\ RequestSound(q) /\ q.op = "items" /\ q.node = Portfolio
      /\ q.is = "sent" /\ q.live
  BY RequestFields, NodesApart DEF HoldingsOps, TabWrites, SummaryOps
<1>2. requests' = With(rs, q) /\ mishaps' = MishapsAtStart(rs)
  BY DEF FetchItems
<1>3. holdings' \in HoldingsType /\ holdings'.mounted /\ holdings'.loading
  BY SummaryShapes DEF FetchItems
<1> HIDE DEF q
<1>4. /\ With(rs, q) \in [Slots -> RequestType]
      /\ \E i : \A j \in Slots : With(rs, q)[j] = IF j = i THEN q ELSE rs[j]
  BY <1>1, WithSlots
<1>5. PICK i : \A j \in Slots : requests'[j] = IF j = i THEN q ELSE rs[j]
  BY <1>2, <1>4
<1>6. HoldingsFit'
  <2> SUFFICES ASSUME mishaps' = {}
               PROVE  AtMostOne' /\ AnswersCurrent' /\ \A j \in UnderWay' : RowsFit(requests[j])'
    BY <1>3 DEF HoldingsFit
  <2>1. \A j \in Slots : rs[j].op = "free"
    BY <1>2 DEF MishapsAtStart
  <2>2. \A j \in UnderWay' : j = i /\ requests'[j] = q
    BY <1>5, <2>1 DEF UnderWay
  <2> QED BY <1>1, <2>2 DEF AtMostOne, AnswersCurrent, RowsFit
<1> QED BY <1>1, <1>2, <1>3, <1>4, <1>5, <1>6 DEF MishapsAtStart, Mishaps, HoldingsOps

LEMMA RetryHoldingsStep ==
    ASSUME IInv, RetryHoldings, UNCHANGED <<listVars, activeTab>> PROVE IInv'
<1>1. /\ holdings.mounted /\ FetchItems(selectedNode, requests)
      /\ UNCHANGED <<scope, selectedNode, version, summary>>
  BY DEF RetryHoldings, PortfolioHoldingsTab
<1>2. /\ selectedNode = Portfolio
      /\ \A j \in Slots :
            /\ RequestSound(requests[j])
            /\ requests[j].live => requests[j].op \in HoldingsOps /\ requests[j].node = Portfolio
  BY <1>1, HoldingsState
<1>3. requests \in [Slots -> RequestType] /\ version' \in [Assets -> 0..MaxChanges]
  BY <1>1 DEF IInv, Typed, TypeOK, SharedTypeOK
<1>4. /\ holdings' \in HoldingsType /\ holdings'.mounted /\ mishaps' \subseteq Mishaps
      /\ requests' \in [Slots -> RequestType]
      /\ \A j \in Slots :
            /\ RequestSound(requests'[j])
            /\ requests'[j].live => requests'[j].op \in HoldingsOps /\ requests'[j].node = Portfolio
      /\ HoldingsFit'
  BY <1>1, <1>2, <1>3, FetchItemsSlots
<1> QED BY <1>1, <1>3, <1>4, HoldingsStep

\* Request i of the holdings is replaced by s, which is free when there is nothing
\* more to ask for.
LEMMA ItemsStep ==
    ASSUME IInv, NEW i \in Slots, requests[i].op \in HoldingsOps, requests[i].live,
           NEW s \in RequestType, requests' = [requests EXCEPT ![i] = s],
           s = Free \/ (RequestSound(s) /\ s.live /\ s.op \in HoldingsOps /\ s.node = Portfolio /\ s.is = "sent"),
           holdings' \in HoldingsType, holdings'.mounted, mishaps' \subseteq Mishaps,
           mishaps \subseteq mishaps', version' \in [Assets -> 0..MaxChanges],
           UNCHANGED <<scope, selectedNode, summary, listVars, activeTab>>,
           mishaps' = {} => /\ RowsFit(s)'
                            /\ (s = Free /\ ~holdings'.loading /\ ~holdings'.error) =>
                                  /\ holdings'.items = ContentNext(Portfolio)
                                  /\ \A a \in Assets : holdings'.rows[a] # "loading"
    PROVE  IInv'
<1>1. holdings.mounted
  BY DEF IInv, RequestsFit, Owned, SummaryOps, ListOps, HoldingsOps
<1>2. /\ selectedNode = Portfolio
      /\ \A j \in Slots :
            /\ RequestSound(requests[j])
            /\ requests[j].live => requests[j].op \in HoldingsOps /\ requests[j].node = Portfolio
  BY <1>1, HoldingsState
<1>3. /\ requests' \in [Slots -> RequestType] /\ requests'[i] = s
      /\ \A j \in Slots \ {i} : requests'[j] = requests[j]
  BY DEF IInv, Typed
<1>4. \A j \in Slots :
         /\ RequestSound(requests'[j])
         /\ requests'[j].live => requests'[j].op \in HoldingsOps /\ requests'[j].node = Portfolio
  BY <1>2, <1>3, FreeTyped
<1>5. HoldingsFit'
  <2> SUFFICES ASSUME mishaps' = {}
               PROVE  /\ AtMostOne' /\ AnswersCurrent'
                      /\ \A j \in UnderWay' : RowsFit(requests[j])'
                      /\ (UnderWay' = {} /\ ~holdings'.loading /\ ~holdings'.error) =>
                            /\ holdings'.items = Content(selectedNode)'
                            /\ \A a \in Assets : holdings'.rows[a] # "loading"
    BY DEF HoldingsFit
  <2>1. AtMostOne
    BY <1>1 DEF IInv, HoldingsFit
  <2>2. UnderWay = {i}
    BY <2>1 DEF AtMostOne, UnderWay, HoldingsOps
  <2>3. \A j \in UnderWay' : j = i /\ requests'[j] = s /\ s.op # "free"
    BY <1>3, <2>2 DEF UnderWay
  <2>4. AtMostOne' /\ AnswersCurrent'
    BY <2>3, FreeTyped DEF AtMostOne, AnswersCurrent
  <2>5. \A j \in UnderWay' : RowsFit(requests[j])'
    BY <2>3 DEF RowsFit
  <2>6. UnderWay' = {} => s = Free
    BY <1>3 DEF UnderWay, HoldingsOps
  <2>7. Content(selectedNode)' = ContentNext(Portfolio)
    BY <1>2, ContentAfter
  <2> QED BY <2>4, <2>5, <2>6, <2>7
<1> QED BY <1>1, <1>3, <1>4, <1>5, HoldingsStep

LEMMA ItemsSteps ==
    ASSUME IInv, NEW i \in Slots, ItemsAnswered(i) \/ ItemsRereadAnswered(i),
           UNCHANGED <<listVars, activeTab>>
    PROVE  IInv'
<1> DEFINE r == requests[i]
<1>1. /\ r.op \in {"items", "itemsReread"} /\ RequestSound(r)
      /\ UNCHANGED <<scope, selectedNode, version, summary>>
  BY DEF ItemsAnswered, ItemsRereadAnswered, IInv, RequestsFit
<1>0. CASE ~r.live
  <2>1. ItemsAnswered(i) /\ r.op = "items"
    BY <1>0, <1>1 DEF ItemsRereadAnswered, RequestSound
  <2>2. UNCHANGED <<holdings, mishaps>>
    BY <1>0, <2>1 DEF ItemsAnswered
  <2> DEFINE q == [Request("rows", r.node) EXCEPT !.live = r.live]
  <2>3. q \in RequestType /\ RequestSound(q) /\ ~q.live
    <3> DEFINE x == Request("rows", r.node)
    <3>1. /\ x \in RequestType /\ x.op = "rows" /\ x.node = r.node /\ x.is = "sent" /\ ~x.mine
          /\ r.node \in Nodes
      BY <1>1, <2>1, RequestFields DEF HoldingsOps, RequestSound, Saves
    <3> HIDE DEF x
    <3>2. LET y == [x EXCEPT !.live = FALSE]
          IN  /\ y \in RequestType /\ y.op = "rows" /\ y.node = r.node /\ y.is = "sent"
              /\ ~y.mine /\ ~y.live
      BY <3>1 DEF RequestType
    <3>3. r.live = FALSE
      BY <1>0, SlotTyped DEF IInv
    <3>4. q = [x EXCEPT !.live = FALSE]
      BY <3>3 DEF x
    <3> HIDE DEF q
    <3>5. /\ q \in RequestType /\ q.op = "rows" /\ q.node = r.node /\ q.is = "sent"
          /\ ~q.mine /\ ~q.live
      BY <3>2, <3>4
    <3> QED BY <3>1, <3>5 DEF RequestSound, TabWrites, SummaryOps
  <2> HIDE DEF q
  <2>4. \/ requests' = [requests EXCEPT ![i] = q]
        \/ requests' = [requests EXCEPT ![i] = Free]
    BY <2>1 DEF ItemsAnswered, Without, q
  <2>5. Grows
    BY <1>1, GrowsNot DEF IInv
  <2> QED BY <1>0, <1>1, <2>1, <2>2, <2>3, <2>4, <2>5, FreeTyped, OrphanStep DEF summaryVars
<1> SUFFICES ASSUME r.live PROVE IInv'
  BY <1>0
<1>2. r.live /\ r.op \in HoldingsOps
  BY <1>1 DEF HoldingsOps
<1>3. holdings.mounted /\ r.node = Portfolio
  <2>1. holdings.mounted
    BY <1>2 DEF IInv, RequestsFit, Owned, SummaryOps, ListOps, HoldingsOps
  <2> QED BY <1>2, <2>1, HoldingsState
<1>4. /\ holdings \in HoldingsType /\ mishaps \subseteq Mishaps /\ r.answer \in Contents
      /\ version' \in [Assets -> 0..MaxChanges] /\ scope \in {"active", "historic"}
  BY <1>1, ShapesTyped, SlotTyped DEF IInv, Typed, TypeOK, SharedTypeOK
<1>5. mishaps = {} => /\ AnswersCurrent /\ RowsFit(r)
                      /\ r.is # "lost" /\ (r.is = "ok" => r.answer = ContentNext(Portfolio))
  <2> SUFFICES ASSUME mishaps = {}
               PROVE  /\ AnswersCurrent /\ RowsFit(r)
                      /\ r.is # "lost" /\ (r.is = "ok" => r.answer = ContentNext(Portfolio))
    OBVIOUS
  <2>1. AnswersCurrent /\ i \in UnderWay /\ \A j \in UnderWay : RowsFit(requests[j])
    BY <1>2, <1>3 DEF IInv, HoldingsFit, UnderWay, HoldingsOps
  <2>2. Content(selectedNode) = ContentNext(Portfolio)
    BY <1>1, <1>3, HoldingsState DEF Content, ContentNext
  <2> QED BY <2>1, <2>2 DEF AnswersCurrent
<1>6. CASE ItemsAnswered(i) /\ r.is = "ok"
  <2> DEFINE rows == [a \in Assets |-> IF scope = "historic" THEN "failed" ELSE "loading"]
             q == Request("rows", Portfolio)
  <2>1. /\ holdings' = [holdings EXCEPT !.loading = FALSE, !.items = r.answer, !.rows = rows]
        /\ requests' = [requests EXCEPT ![i] = IF scope = "active" THEN q ELSE Free]
        /\ UNCHANGED mishaps
    <3>1. [Request("rows", r.node) EXCEPT !.live = r.live] = q
      <4>1. q \in RequestType /\ q.live
        BY RequestFields, NodesApart DEF HoldingsOps
      <4>2. r.live = TRUE
        BY <1>2, SlotTyped DEF IInv
      <4>3. q.live = TRUE
        BY <4>1 DEF RequestType
      <4>4. [q EXCEPT !.live = TRUE] = q
        <5> HIDE DEF q
        <5> QED BY <4>1, <4>3 DEF RequestType
      <4> QED BY <1>3, <4>2, <4>4
    <3> QED BY <1>2, <1>3, <1>6, <3>1 DEF ItemsAnswered, Fails
  <2>2. rows \in [Assets -> {"none", "loading", "known", "failed"}]
    OBVIOUS
  <2>3. /\ holdings' \in HoldingsType /\ holdings'.mounted
        /\ holdings'.items = r.answer /\ holdings'.rows = rows
    <3> HIDE DEF rows
    <3> QED BY <1>3, <1>4, <2>1, <2>2 DEF HoldingsType
  <2>4. /\ q \in RequestType /\ RequestSound(q) /\ q.op = "rows" /\ q.node = Portfolio
        /\ q.is = "sent" /\ q.live /\ q.left = Assets
    BY RequestFields, NodesApart DEF HoldingsOps, TabWrites, SummaryOps
  <2> HIDE DEF q
  <2>5. PICK s \in RequestType :
           /\ s = IF scope = "active" THEN q ELSE Free
           /\ s = Free \/ (RequestSound(s) /\ s.live /\ s.op \in HoldingsOps /\ s.node = Portfolio /\ s.is = "sent")
    BY <2>4, FreeTyped DEF HoldingsOps
  <2>6. /\ (s.op = "rows" => s.left = Assets /\ \A a \in Assets : rows[a] # "none")
        /\ s.op # "itemsReread"
        /\ s = Free => \A a \in Assets : rows[a] # "loading"
    BY <1>4, <2>4, <2>5, FreeTyped
  <2> HIDE DEF rows
  <2>7. RowsFit(s)'
    BY <2>3, <2>6 DEF RowsFit
  <2> QED BY <1>1, <1>2, <1>4, <1>5, <1>6, <2>1, <2>3, <2>5, <2>6, <2>7, ItemsStep
<1>7. CASE ItemsAnswered(i) /\ r.is # "ok"
  <2>1. /\ holdings' = [holdings EXCEPT !.loading = FALSE, !.error = TRUE]
        /\ requests' = [requests EXCEPT ![i] = Free] /\ UNCHANGED mishaps
    BY <1>2, <1>7 DEF ItemsAnswered, Without
  <2>2. holdings' \in HoldingsType /\ holdings'.mounted /\ holdings'.error
    BY <1>3, <1>4, <2>1 DEF HoldingsType
  <2>3. RowsFit(Free)'
    BY DEF RowsFit, Free
  <2> QED BY <1>1, <1>2, <1>4, <2>1, <2>2, <2>3, FreeTyped, ItemsStep
<1>8. CASE ItemsRereadAnswered(i)
  <2>1. /\ requests' = [requests EXCEPT ![i] = Free] /\ r.op = "itemsReread"
        /\ \/ r.is = "ok" /\ holdings' = [holdings EXCEPT !.items = r.answer] /\ UNCHANGED mishaps
           \/ mishaps' = mishaps \union {"lost"} /\ UNCHANGED holdings
    BY <1>8 DEF ItemsRereadAnswered, Without
  <2>2. /\ holdings' \in HoldingsType /\ holdings'.mounted /\ holdings'.rows = holdings.rows
        /\ holdings'.items = r.answer \/ mishaps' # {}
        /\ mishaps' = {} => r.is = "ok" /\ mishaps = {}
    BY <1>3, <1>4, <2>1 DEF HoldingsType
  <2>3. RowsFit(Free)'
    BY DEF RowsFit, Free
  <2>4. mishaps' \subseteq Mishaps /\ mishaps \subseteq mishaps'
    BY <1>4, <2>1 DEF Mishaps
  <2>5. mishaps' = {} => /\ holdings'.items = ContentNext(Portfolio)
                         /\ \A a \in Assets : holdings'.rows[a] # "loading"
    BY <1>5, <2>1, <2>2 DEF RowsFit
  <2> QED BY <1>1, <1>2, <1>4, <2>1, <2>2, <2>3, <2>4, <2>5, FreeTyped, ItemsStep
<1> QED BY <1>6, <1>7, <1>8

LEMMA RowPriceStep ==
    ASSUME IInv, NEW i \in Slots, NEW a \in Assets, RowPriceAnswered(i, a),
           UNCHANGED <<listVars, activeTab>>
    PROVE  IInv'
<1> DEFINE r == requests[i]
           left == r.left \ {a}
           t == [r EXCEPT !.left = left]
<1>1. /\ r.op = "rows" /\ r.is = "sent" /\ RequestSound(r) /\ r \in RequestType
      /\ UNCHANGED <<scope, selectedNode, mishaps, summary>>
  BY SlotTyped DEF RowPriceAnswered, IInv, RequestsFit, RequestSound
<1>2. Grows
  <2>1. \/ UNCHANGED version
        \/ version[a] < MaxChanges /\ version' = [version EXCEPT ![a] = @ + 1]
    <3>1. version \in [Assets -> 0..MaxChanges]
      BY DEF IInv, Typed, TypeOK, SharedTypeOK
    <3>2. PICK recorded \in BOOLEAN :
             /\ recorded => version[a] < MaxChanges
             /\ version' = [version EXCEPT ![a] = IF recorded THEN @ + 1 ELSE @]
      BY DEF RowPriceAnswered
    <3>3. CASE recorded
      BY <3>2, <3>3
    <3>4. CASE ~recorded
      BY <3>1, <3>2, <3>4
    <3> QED BY <3>3, <3>4
  <2> QED BY <2>1, GrowsByOne, GrowsNot DEF IInv
<1>3. /\ t \in RequestType /\ t.op = "rows" /\ t.node = r.node /\ t.is = "sent"
      /\ t.live = r.live /\ t.left = left /\ RequestSound(t)
  <2>1. /\ t \in RequestType /\ t.op = r.op /\ t.node = r.node /\ t.is = r.is
        /\ t.live = r.live /\ t.left = left /\ t.mine = r.mine
    BY <1>1 DEF RequestType
  <2> HIDE DEF t, left
  <2> QED BY <1>1, <2>1 DEF RequestSound, TabWrites, SummaryOps
<1>4. requests' = [requests EXCEPT ![i] = IF left # {} THEN t
                                          ELSE IF r.live THEN Request("itemsReread", r.node)
                                          ELSE Free]
  BY DEF RowPriceAnswered
<1>5. CASE ~r.live
  <2>1. PICK s \in RequestType :
           requests' = [requests EXCEPT ![i] = s] /\ RequestSound(s) /\ ~s.live
    <3> HIDE DEF t, left
    <3> QED BY <1>3, <1>4, <1>5, FreeTyped
  <2>2. UNCHANGED holdings
    BY <1>5 DEF RowPriceAnswered
  <2> QED BY <1>1, <1>2, <1>5, <2>1, <2>2, OrphanStep DEF summaryVars
<1>6. CASE r.live
  <2> DEFINE q == Request("itemsReread", Portfolio)
  <2>1. holdings.mounted /\ r.node = Portfolio
    <3>1. holdings.mounted
      BY <1>1, <1>6 DEF IInv, RequestsFit, Owned, SummaryOps, ListOps, HoldingsOps
    <3> QED BY <1>6, <3>1, HoldingsState
  <2>2. /\ q \in RequestType /\ RequestSound(q) /\ q.op = "itemsReread" /\ q.node = Portfolio
        /\ q.is = "sent" /\ q.live
    BY RequestFields, NodesApart DEF HoldingsOps, TabWrites, SummaryOps
  <2> HIDE DEF q
  <2>3. PICK s \in RequestType :
           /\ s = IF left # {} THEN t ELSE q
           /\ RequestSound(s) /\ s.live /\ s.op \in HoldingsOps /\ s.node = Portfolio /\ s.is = "sent"
    <3> HIDE DEF t, left
    <3> QED BY <1>3, <1>6, <2>1, <2>2 DEF HoldingsOps
  <2>4. requests' = [requests EXCEPT ![i] = s]
    <3> HIDE DEF t, left
    <3> QED BY <1>4, <1>6, <2>1, <2>3 DEF q
  <2>5. holdings \in HoldingsType /\ mishaps \subseteq Mishaps
    BY ShapesTyped DEF IInv, Typed, TypeOK, SharedTypeOK
  <2>6. PICK row \in {"known", "failed"} :
           holdings' = IF holdings.rows # NoRows THEN [holdings EXCEPT !.rows[a] = row] ELSE holdings
    BY <1>6 DEF RowPriceAnswered
  <2>7. [holdings EXCEPT !.rows[a] = row] = [holdings EXCEPT !.rows = [holdings.rows EXCEPT ![a] = row]]
    BY <2>5 DEF HoldingsType
  <2>8. [holdings.rows EXCEPT ![a] = row] \in [Assets -> {"none", "loading", "known", "failed"}]
    BY <2>5 DEF HoldingsType
  <2>9. /\ holdings' \in HoldingsType /\ holdings'.mounted
        /\ holdings.rows # NoRows => holdings'.rows = [holdings.rows EXCEPT ![a] = row]
    BY <2>1, <2>5, <2>6, <2>7, <2>8 DEF HoldingsType
  <2>10. ASSUME mishaps = {} PROVE RowsFit(s)'
    <3>1. RowsFit(r)
      BY <1>1, <2>1, <2>10 DEF IInv, HoldingsFit, UnderWay
    <3>2. \A b \in Assets : /\ holdings.rows[b] # "none"
                            /\ b \notin r.left => holdings.rows[b] # "loading"
      BY <1>1, <3>1 DEF RowsFit
    <3>3. holdings.rows # NoRows
      BY <3>2 DEF NoRows
    <3>4. \A b \in Assets : holdings'.rows[b] = IF b = a THEN row ELSE holdings.rows[b]
      BY <2>5, <2>9, <3>3 DEF HoldingsType
    <3>5. \A b \in Assets : /\ holdings'.rows[b] # "none"
                            /\ b \notin left => holdings'.rows[b] # "loading"
      BY <3>2, <3>4
    <3>6. s.op = "rows" => s.left = left
      BY <1>3, <2>2, <2>3
    <3>7. s.op = "itemsReread" => left = {}
      <4> HIDE DEF t, left
      <4> QED BY <1>3, <2>3
    <3> HIDE DEF left, t
    <3> QED BY <3>5, <3>6, <3>7 DEF RowsFit
  <2>11. s # Free
    BY <2>3, FreeTyped
  <2>12. version' \in [Assets -> 0..MaxChanges] /\ r.op \in HoldingsOps
    BY <1>1, <1>2 DEF Grows, HoldingsOps
  <2> QED BY <1>1, <1>6, <2>3, <2>4, <2>5, <2>9, <2>10, <2>11, <2>12, ItemsStep
<1> QED BY <1>5, <1>6

\* Every step of the summary and of the holdings.
LEMMA SummaryTabSteps ==
    ASSUME IInv, SummaryTabNext, UNCHANGED <<listVars, activeTab>> PROVE IInv'
BY SummarySteps, ItemsSteps, RowPriceStep, RetryHoldingsStep DEF SummaryTabNext

----------------------------------------------------------------------------
(* A node or a tab is selected.                                            *)

LEMMA NothingShows ==
    ASSUME IInv, NothingMounted, scope' = scope, version' = version,
           selectedNode' \in Nodes \union {None},
           activeTab' \in IF selectedNode' = None THEN {"summary"} ELSE TabsOf(selectedNode'),
           activeTab' \notin ListTabIds, requests' \in [Slots -> RequestType],
           \A j \in Slots : RequestSound(requests'[j]) /\ ~requests'[j].live
    PROVE  IInv'
<1>1. /\ tab' = NoTab /\ landed' = 0 /\ types' \in {"loading", "loaded", "error"}
      /\ mishaps' \subseteq Mishaps /\ version' \in [Assets -> 0..MaxChanges]
  BY DEF NothingMounted, IInv, Typed, TypeOK, SharedTypeOK
<1>2. SummaryTypeOK' /\ ~summary'.mounted /\ ~holdings'.mounted
  BY ShapesTyped, SummaryShapes DEF NothingMounted
<1>3. HoldingsFit'
  BY <1>2 DEF HoldingsFit
<1> QED BY <1>1, <1>2, <1>3, NoListStep

\* The requests rs that somebody waits for are of tab t of node n.
OfTab(rs, t, n) ==
    \A j \in Slots :
        /\ RequestSound(rs[j])
        /\ rs[j].live => \/ t \in ListTabIds /\ rs[j].op \in ListOps /\ rs[j].node = n
                         \/ t = "summary" /\ n \in Assets /\ rs[j].op \in SummaryOps
                         \/ t = "holdings" /\ rs[j].op \in HoldingsOps /\ rs[j].node = n

LEMMA ShowStep ==
    ASSUME IInv, NEW n \in Nodes, NEW t \in TabsOf(n), NEW l \in TabType, NEW s \in SummaryType,
           t \in ListTabIds => l.kind = t,
           NEW rs \in [Slots -> RequestType], OfTab(rs, t, n), ShowTab(t, n, l, s, rs),
           selectedNode' = n, activeTab' = t, UNCHANGED <<scope, version>>
    PROVE  IInv'
<1>0. /\ version' \in [Assets -> 0..MaxChanges] /\ types \in {"loading", "loaded", "error"}
      /\ n # None
  BY NodesApart DEF IInv, Typed, TypeOK, SharedTypeOK, ListTypeOK
<1>1. CASE t \in ListTabIds
  <2>1. /\ Fetch(l, n, rs) /\ types' \in {"loading", "loaded", "error"}
        /\ summary' = NoSummary /\ holdings' = NoHoldings
    BY <1>0, <1>1 DEF ShowTab, ListTabIds
  <2>2. SummaryTypeOK' /\ ~summary'.mounted /\ ~holdings'.mounted
    BY <2>1, ShapesTyped, SummaryShapes
  <2>3. \A j \in Slots : /\ RequestSound(rs[j])
                         /\ rs[j].live => rs[j].op \in ListOps /\ rs[j].node = n
    BY <1>1 DEF OfTab, ListTabIds
  <2> QED BY <1>1, <2>1, <2>2, <2>3, FetchStep
<1>2. CASE t = "summary" /\ n \in Assets
  <2>1. /\ FetchAsset(s, n, rs) /\ holdings' = NoHoldings
        /\ tab' = NoTab /\ types' = "loading" /\ landed' = 0
    BY <1>2 DEF ShowTab, ListTabIds
  <2>2. \A j \in Slots : /\ RequestSound(rs[j])
                         /\ rs[j].live => rs[j].op \in SummaryOps
    BY <1>2 DEF OfTab, ListTabIds
  <2>3. /\ summary' \in SummaryType /\ summary'.mounted /\ mishaps' \subseteq Mishaps
        /\ requests' \in [Slots -> RequestType]
        /\ \A j \in Slots : /\ RequestSound(requests'[j])
                            /\ requests'[j].live => requests'[j].op \in SummaryOps
    BY <1>2, <2>1, <2>2, FetchAssetSlots
  <2>4. SummaryTypeOK' /\ ~holdings'.mounted
    BY <2>1, <2>3, ShapesTyped, SummaryShapes
  <2>5. HoldingsFit' /\ t \notin ListTabIds
    BY <1>2, <2>4 DEF HoldingsFit, ListTabIds
  <2> QED BY <1>0, <1>2, <2>1, <2>3, <2>4, <2>5, NoListStep
<1>3. CASE t = "holdings"
  <2>1. n = Portfolio
    BY <1>3, NodesApart DEF TabsOf, AssetTabs
  <2>2. /\ FetchItems(n, rs) /\ summary' = NoSummary
        /\ tab' = NoTab /\ types' = "loading" /\ landed' = 0
    BY <1>3 DEF ShowTab, ListTabIds
  <2>3. \A j \in Slots : /\ RequestSound(rs[j])
                         /\ rs[j].live => rs[j].op \in HoldingsOps /\ rs[j].node = Portfolio
    BY <1>3, <2>1 DEF OfTab, ListTabIds
  <2>4. /\ holdings' \in HoldingsType /\ holdings'.mounted /\ mishaps' \subseteq Mishaps
        /\ requests' \in [Slots -> RequestType]
        /\ \A j \in Slots :
              /\ RequestSound(requests'[j])
              /\ requests'[j].live => requests'[j].op \in HoldingsOps /\ requests'[j].node = Portfolio
        /\ HoldingsFit'
    BY <2>1, <2>2, <2>3, FetchItemsSlots
  <2>5. SummaryTypeOK' /\ ~summary'.mounted
    BY <2>2, <2>4, ShapesTyped, SummaryShapes
  <2>6. t \notin ListTabIds
    BY <1>3 DEF ListTabIds
  <2> QED BY <1>0, <1>3, <2>1, <2>2, <2>4, <2>5, <2>6, NoListStep
<1>4. CASE t \notin ListTabIds /\ ~(t = "summary" /\ n \in Assets) /\ t # "holdings"
  <2>1. NothingMounted /\ requests' = rs
    BY <1>4 DEF ShowTab
  <2>2. \A j \in Slots : RequestSound(rs[j]) /\ ~rs[j].live
    BY <1>4 DEF OfTab, RequestType
  <2> QED BY <1>0, <1>4, <2>1, <2>2, NothingShows
<1> QED BY <1>1, <1>2, <1>3, <1>4

LEMMA MountStep ==
    ASSUME IInv, NEW n \in Nodes, NEW t \in TabsOf(n), MountTab(t, n),
           selectedNode' = n, activeTab' = t, UNCHANGED <<scope, version>>
    PROVE  IInv'
<1> DEFINE l == [Unloaded EXCEPT !.kind = t]
<1>1. t \in ListTabIds => l \in TabType /\ l.kind = t
  <2>1. NoForm \in FormType
    BY DEF NoForm, FormType
  <2> QED BY <2>1, FiltersAssumption DEF Unloaded, TabType, Contents
<1>2. /\ Orphaned \in [Slots -> RequestType]
      /\ \A j \in Slots : RequestSound(Orphaned[j]) /\ ~Orphaned[j].live
  BY OrphanedSlots DEF IInv
<1>3. OfTab(Orphaned, t, n)
  BY <1>2 DEF OfTab
<1>4. ShowTab(t, n, l, BlankSummary, Orphaned)
  BY DEF MountTab
<1> HIDE DEF l
<1>5. CASE t \in ListTabIds
  BY <1>1, <1>2, <1>3, <1>4, <1>5, SummaryShapes, ShowStep
<1>6. CASE t \notin ListTabIds
  <2>1. ShowTab(t, n, tab, BlankSummary, Orphaned)
    BY <1>4, <1>6 DEF ShowTab
  <2>2. tab \in TabType
    BY DEF IInv, Typed
  <2> QED BY <1>2, <1>3, <1>6, <2>1, <2>2, SummaryShapes, ShowStep
<1> QED BY <1>5, <1>6

LEMMA SelectNodeStep ==
    ASSUME IInv, NEW n \in Nodes, NEW pendingAction \in BOOLEAN, SelectNode(n, pendingAction)
    PROVE  IInv'
<1>1. /\ selectedNode' = n /\ UNCHANGED <<scope, version>>
      /\ pendingAction => n \in Assets
      /\ activeTab' = IF pendingAction THEN "corporateActions" ELSE "summary"
  BY DEF SelectNode
<1>2. CASE summary.mounted /\ n \in Assets /\ ~pendingAction
  <2>1. ShowTab("summary", n, tab, summary, requests) /\ activeTab' = "summary"
    BY <1>1, <1>2 DEF SelectNode
  <2>2. OfTab(requests, "summary", n)
    BY <1>2, SummaryState DEF OfTab
  <2>3. requests \in [Slots -> RequestType] /\ tab \in TabType /\ summary \in SummaryType
    BY ShapesTyped DEF IInv, Typed, TypeOK
  <2>4. "summary" \in TabsOf(n) /\ "summary" \notin ListTabIds
    BY DEF TabsOf, AssetTabs, PortfolioTabs, ListTabIds
  <2> QED BY <1>1, <2>1, <2>2, <2>3, <2>4, ShowStep
<1>3. CASE ~(summary.mounted /\ n \in Assets /\ ~pendingAction)
  <2>1. MountTab(activeTab', n)
    BY <1>3 DEF SelectNode
  <2>2. activeTab' \in TabsOf(n)
    BY <1>1 DEF TabsOf, AssetTabs, PortfolioTabs
  <2> QED BY <1>1, <2>1, <2>2, MountStep
<1> QED BY <1>2, <1>3

LEMMA ClickAgainStep == ASSUME IInv, ClickAgain PROVE IInv'
<1>1. /\ selectedNode \in Nodes /\ activeTab \in TabsOf(selectedNode)
      /\ requests \in [Slots -> RequestType] /\ tab \in TabType /\ summary \in SummaryType
      /\ activeTab \in ListTabIds => tab.kind = activeTab
  BY ShapesTyped DEF ClickAgain, IInv, TabFits, Typed, TypeOK, SharedTypeOK
<1>2. OfTab(requests, activeTab, selectedNode)
  BY DEF OfTab, IInv, RequestsFit, Owned, TabFits
<1> QED BY <1>1, <1>2, ShowStep DEF ClickAgain

LEMMA PanelSteps == ASSUME IInv, PanelNext PROVE IInv'
<1>1. ASSUME NEW t, SelectTab(t) PROVE IInv'
  <2>1. selectedNode \in Nodes /\ t \in TabsOf(selectedNode)
    BY <1>1 DEF SelectTab, IInv, Typed, TypeOK, SharedTypeOK
  <2> QED BY <1>1, <2>1, MountStep DEF SelectTab
<1>2. CASE Deselect
  <2>1. /\ requests' = Orphaned /\ Orphaned \in [Slots -> RequestType]
        /\ \A j \in Slots : RequestSound(Orphaned[j]) /\ ~Orphaned[j].live
    BY <1>2, OrphanedSlots DEF Deselect, IInv
  <2>2. "summary" \notin ListTabIds
    BY DEF ListTabIds
  <2> QED BY <1>2, <2>1, <2>2, NothingShows DEF Deselect
<1> QED BY <1>1, <1>2, SelectNodeStep, ClickAgainStep DEF PanelNext

----------------------------------------------------------------------------
(* The invariant and the theorems.                                         *)

LEMMA InvariantHolds == Spec => []IInv
<1>1. Init => IInv
  <2> SUFFICES ASSUME Init PROVE IInv
    OBVIOUS
  <2>1. /\ NoTab \in TabType /\ NoTab.kind = "none" /\ NoTab.shown = None
        /\ NoTab.form.open = "none" /\ 0 \in 0..MaxChanges
    <3>1. NoForm \in FormType /\ NoForm.open = "none"
      BY DEF NoForm, FormType
    <3> QED BY <3>1, FiltersAssumption, DetailAssumption DEF NoTab, Unloaded, TabType, Contents
  <2>2. SummaryTypeOK /\ ~summary.mounted /\ ~holdings.mounted
    BY ShapesTyped, SummaryShapes DEF Init
  <2>3. Typed
    BY <2>1, <2>2, FreeTyped
       DEF Init, Typed, TypeOK, SharedTypeOK, ListTypeOK, TabType, Mishaps, AssetTabs
  <2>4. TabFits
    BY <2>1, <2>2 DEF Init, TabFits, ListTabIds
  <2>5. RequestsFit /\ FormFits
    BY <2>1, FreeTyped DEF Init, RequestsFit, FormFits
  <2>6. ListCurrent /\ HoldingsFit
    BY <2>1, <2>2 DEF Init, ListCurrent, HoldingsFit
  <2> QED BY <2>3, <2>4, <2>5, <2>6 DEF IInv
<1>2. IInv /\ [Next]_vars => IInv'
  <2> SUFFICES ASSUME IInv, [Next]_vars PROVE IInv'
    OBVIOUS
  <2>1. CASE PanelNext
    BY <2>1, PanelSteps
  <2>2. CASE ListTabNext /\ UNCHANGED <<summaryVars, activeTab>>
    BY <2>2, ListTabSteps
  <2>3. CASE SummaryTabNext /\ UNCHANGED <<listVars, activeTab>>
    BY <2>3, SummaryTabSteps
  <2>4. CASE \E i \in Slots : ServerOnList(i) /\ UNCHANGED <<summaryVars, activeTab>>
    BY <2>4, ServerSteps
  <2>5. CASE UNCHANGED vars
    <3>1. UNCHANGED <<shared, landed, summaryVars, activeTab, tab, types>>
      BY <2>5 DEF vars, listVars
    <3>2. /\ types' \in {"loading", "loaded", "error"} /\ tab' \in TabType
          /\ Saving => Saving'
      BY <3>1 DEF IInv, Typed, TypeOK, ListTypeOK, Saving
    <3> QED BY <3>1, <3>2, AsideStep
  <2> QED BY <2>1, <2>2, <2>3, <2>4, <2>5 DEF Next
<1> QED BY <1>1, <1>2, PTL DEF Spec

\* Every hook's state, every form and every request has its shape.
THEOREM TypeCorrect == Spec => []TypeOK
<1>1. IInv => TypeOK
  BY DEF IInv, Typed
<1> QED BY <1>1, InvariantHolds, PTL

\* A list is never shown for another node than the selected one, although no hook
\* checks which request an answer is to: a tab that stays mounted keeps its node.
THEOREM ListIsOfSelection == Spec => []ShownBelongsToSelection
<1>1. IInv => ShownBelongsToSelection
  BY DEF IInv, TabFits, ShownBelongsToSelection
<1> QED BY <1>1, InvariantHolds, PTL

\* A list that is shown with nothing under way is the server's, unless two requests
\* overlapped or an answer was lost.
THEOREM QuietListIsCurrent == Spec => []ListIsCurrentWhenQuiet
<1>1. IInv => ListIsCurrentWhenQuiet
  <2> SUFFICES ASSUME IInv, Mounted, ~tab.loading, ~tab.error,
                      Live({"load", "save", "merge", "delete"}) = {},
                      mishaps \intersect {"overlap", "lost"} = {}
               PROVE  tab.shown = Content(selectedNode)
    BY DEF ListIsCurrentWhenQuiet
  <2>1. ~summary.mounted /\ ~holdings.mounted /\ tab.kind # "none"
    BY ListIsOfAsset DEF Mounted
  <2>2. AnswersCurrent
    BY <2>1 DEF IInv, ListCurrent
  <2>3. UnderWay = {}
    <3> SUFFICES ASSUME NEW i \in UnderWay PROVE FALSE
      OBVIOUS
    <3>1. requests[i].live /\ i \in Slots
      BY <2>2 DEF AnswersCurrent, UnderWay
    <3>2. requests[i].op \in ListOps
      BY <2>1, <3>1 DEF IInv, RequestsFit, Owned
    <3> QED BY <3>1, <3>2 DEF Live, ListOps
  <2> QED BY <2>1, <2>3 DEF IInv, ListCurrent, Answered
<1> QED BY <1>1, InvariantHolds, PTL

\* However often its button is pressed, a form is recorded once, unless the answer to a
\* save was lost or a form was abandoned while it was being saved.
THEOREM OneFormOneSave == Spec => []OneFormOneRecord
<1>1. IInv => OneFormOneRecord
  BY DEF IInv, FormFits, OneSave, OneFormOneRecord
<1> QED BY <1>1, InvariantHolds, PTL

\* Holdings whose prices were all answered are valued at them, unless two runs
\* overlapped or the second read failed.
THEOREM HoldingsRevalued == Spec => []HoldingsAreRevalued
<1>1. IInv => HoldingsAreRevalued
  <2> SUFFICES ASSUME IInv, PortfolioHoldingsTab = "grid", Live(HoldingsOps) = {}, mishaps = {}
               PROVE  ComputeTotal = "total" /\ holdings.items = Content(selectedNode)
    BY DEF HoldingsAreRevalued
  <2>1. holdings.mounted /\ ~holdings.loading /\ ~holdings.error
    BY DEF PortfolioHoldingsTab
  <2>2. AnswersCurrent
    BY <2>1 DEF IInv, HoldingsFit
  <2>3. UnderWay = {}
    <3> SUFFICES ASSUME NEW i \in UnderWay PROVE FALSE
      OBVIOUS
    <3>1. requests[i].live /\ i \in Slots
      BY <2>2 DEF AnswersCurrent, UnderWay
    <3>2. requests[i].op \in HoldingsOps
      BY <2>1, <3>1, HoldingsState
    <3> QED BY <3>1, <3>2 DEF Live
  <2> QED BY <2>1, <2>3 DEF IInv, HoldingsFit, ComputeTotal
<1> QED BY <1>1, InvariantHolds, PTL
=============================================================================
