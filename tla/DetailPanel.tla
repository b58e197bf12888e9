----------------------------- MODULE DetailPanel -----------------------------
(***************************************************************************)
(* The detail panel of the investment pages: the node that is selected, the *)
(* tab that is open, and with it the one tab component that is mounted. A   *)
(* click on another node goes back to the summary tab, which unmounts every *)
(* other tab; a click on the node that is selected fetches the open tab     *)
(* again. The tabs that load through useAsyncResource (a portfolio's        *)
(* summary, an asset's disposals) are module WebPages.                      *)
(***************************************************************************)
EXTENDS ListTabs, SummaryTabs

VARIABLES activeTab    \* which tab is open

vars == <<shared, listVars, summaryVars, activeTab>>

AssetTabs == {"summary", "transactions", "credits", "priceHistory", "disposals", "corporateActions"}

PortfolioTabs == {"summary", "holdings", "transactions", "credits"}

TabsOf(n) == IF n \in Assets THEN AssetTabs ELSE PortfolioTabs

Init ==
    /\ scope \in {"active", "historic"}
    /\ selectedNode = None
    /\ version = [a \in Assets |-> 0]
    /\ requests = [i \in Slots |-> Free]
    /\ mishaps = {}
    /\ tab = NoTab /\ types = "loading" /\ landed = 0
    /\ summary = NoSummary /\ holdings = NoHoldings
    /\ activeTab = "summary"

----------------------------------------------------------------------------
NothingMounted ==
    /\ tab' = NoTab /\ types' = "loading" /\ landed' = 0 /\ mishaps' = {}
    /\ summary' = NoSummary /\ holdings' = NoHoldings

\* The effects that run when tab t is shown for node n: l and s are the state the
\* tab's hook has by then, rs the requests under way.
ShowTab(t, n, l, s, rs) ==
    CASE t \in ListTabIds ->
            /\ Fetch(l, n, rs)
            /\ types' = IF tab.kind = t THEN types ELSE "loading"
            /\ summary' = NoSummary /\ holdings' = NoHoldings
      [] t = "summary" /\ n \in Assets ->
            /\ FetchAsset(s, n, rs)
            /\ tab' = NoTab /\ types' = "loading" /\ landed' = 0 /\ holdings' = NoHoldings
      [] t = "holdings" ->
            /\ FetchItems(n, rs)
            /\ tab' = NoTab /\ types' = "loading" /\ landed' = 0 /\ summary' = NoSummary
      [] OTHER -> NothingMounted /\ requests' = rs

MountTab(t, n) == ShowTab(t, n, [Unloaded EXCEPT !.kind = t], BlankSummary, Orphaned)

\* A click on the selected node makes a new selection with the same key.
ClickAgain ==
    /\ selectedNode # None
    /\ ShowTab(activeTab, selectedNode, tab, summary, requests)
    /\ UNCHANGED <<scope, selectedNode, version, activeTab>>
\* Mutant: between two assets the open tab stays open.
SelectNodeMutant(n, pendingAction) ==
    /\ n # selectedNode
    /\ pendingAction => n \in Assets
    /\ selectedNode' = n
    /\ IF {n, selectedNode} \subseteq Assets
         THEN /\ UNCHANGED activeTab
              /\ tab' = tab /\ requests' = requests
              /\ UNCHANGED <<mishaps, types, landed, summaryVars>>
         ELSE /\ activeTab' = IF pendingAction THEN "corporateActions" ELSE "summary"
              /\ MountTab(activeTab', n)
    /\ UNCHANGED <<scope, version>>

\* The summary of one asset becomes the summary of another without being unmounted.
SelectNode(n, pendingAction) ==
    /\ n # selectedNode
    /\ pendingAction => n \in Assets
    /\ selectedNode' = n
    /\ activeTab' = IF pendingAction THEN "corporateActions" ELSE "summary"
    /\ IF summary.mounted /\ n \in Assets /\ ~pendingAction
         THEN ShowTab("summary", n, tab, summary, requests)
         ELSE MountTab(activeTab', n)
    /\ UNCHANGED <<scope, version>>

\* The portfolio was deleted, or the asset archived: nothing is selected any more.
Deselect ==
    /\ selectedNode # None
    /\ selectedNode' = None /\ activeTab' = "summary"
    /\ NothingMounted /\ requests' = Orphaned
    /\ UNCHANGED <<scope, version>>

SelectTab(t) ==
    /\ selectedNode # None /\ t \in TabsOf(selectedNode) \ {activeTab}
    /\ activeTab' = t
    /\ MountTab(t, selectedNode)
    /\ UNCHANGED <<scope, selectedNode, version>>

----------------------------------------------------------------------------
PanelNext ==
    \/ \E n \in Nodes, pendingAction \in BOOLEAN : SelectNode(n, pendingAction)
    \/ \E t \in AssetTabs \union PortfolioTabs : SelectTab(t)
    \/ ClickAgain \/ Deselect

Next ==
    \/ PanelNext
    \/ ListTabNext /\ UNCHANGED <<summaryVars, activeTab>>
    \/ SummaryTabNext /\ UNCHANGED <<listVars, activeTab>>
    \/ \E i \in Slots : ServerOnList(i) /\ UNCHANGED <<summaryVars, activeTab>>

Spec == Init /\ [][Next]_vars

----------------------------------------------------------------------------
\* Every hook's state, every form and every request has its shape.
TypeOK ==
    /\ SharedTypeOK /\ ListTypeOK /\ SummaryTypeOK
    /\ activeTab \in AssetTabs \union PortfolioTabs

\* Whatever list is shown is the selected node's, though its hook takes the answer
\* to any request it ever sent: going back to the summary tab unmounts it first.
ShownBelongsToSelection ==
    tab.shown # None => tab.shown.of = selectedNode

\* When nothing is under way, a list shows the records the server has, unless two
\* requests overlapped or an answer was lost.
ListIsCurrentWhenQuiet ==
    (Mounted /\ ~tab.loading /\ ~tab.error
        /\ Live({"load", "save", "merge", "delete"}) = {} /\ mishaps \intersect {"overlap", "lost"} = {})
      => tab.shown = Content(selectedNode)

\* A form makes one record, however often its button is pressed, unless the answer
\* to a save was lost or another form was abandoned while it was being saved.
OneFormOneRecord ==
    landed <= 1 \/ mishaps \intersect {"lost", "abandoned"} # {}

\* The holdings that are shown when everything is answered have a price, or its failure,
\* in every row and are valued at those prices, unless two runs overlapped or the
\* second read failed.
HoldingsAreRevalued ==
    (PortfolioHoldingsTab = "grid" /\ Live(HoldingsOps) = {} /\ mishaps = {})
      => (ComputeTotal = "total" /\ holdings.items = Content(selectedNode))
=============================================================================
