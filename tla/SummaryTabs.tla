----------------------------- MODULE SummaryTabs -----------------------------
(***************************************************************************)
(* The summary of an asset and the holdings of a portfolio. Fetching a      *)
(* price also records it at the server, so both read their figures again    *)
(* once the prices are there. No answer is checked to be to the latest      *)
(* request.                                                                *)
(***************************************************************************)
EXTENDS DetailRequests

VARIABLES
    summary,        \* the asset summary, or NoSummary when it is not mounted
    holdings        \* the holdings grid, or NoHoldings

summaryVars == <<summary, holdings>>

----------------------------------------------------------------------------
(* useAssetSummary.                                                        *)

\* shown: the asset with its valuation; price, weight: of which asset.
BlankSummary == [mounted |-> TRUE, shown |-> None, loading |-> FALSE, error |-> FALSE,
                 pricing |-> FALSE, price |-> None, priceError |-> FALSE, weight |-> None]

NoSummary == [BlankSummary EXCEPT !.mounted = FALSE]

\* ASSET_FETCH_START leaves isLoadingPrice as it is.
AssetFetchStarted(s) == [BlankSummary EXCEPT !.loading = TRUE, !.pricing = s.pricing]

PriceFetchStarted(s) == [s EXCEPT !.pricing = TRUE, !.priceError = FALSE, !.price = None]

PriceFailed(s) == [s EXCEPT !.pricing = FALSE, !.priceError = TRUE, !.price = None]

\* The effect: in the active scope with a price fetch if the node has what that takes
\* (a ticker, and an exchange for most classes), in the historic one with the asset's
\* weight in its portfolio. Which nodes have it, the tree says each time it is read,
\* and is left open.
FetchAsset(s, n, rs) ==
    /\ \/ /\ scope = "active" /\ HasRoom(rs, 2)
          /\ summary' = PriceFetchStarted(AssetFetchStarted(s))
          /\ requests' = With(With(rs, Request("price", n)), Request("asset", n))
       \/ /\ scope = "active" /\ HasRoom(rs, 1)
          /\ summary' = AssetFetchStarted(s)
          /\ requests' = With(rs, Request("asset", n))
       \/ /\ scope = "historic" /\ HasRoom(rs, 2)
          /\ summary' = AssetFetchStarted(s)
          /\ requests' = With(With(rs, Request("asset", n)), Request("weight", n))
    /\ mishaps' = MishapsAtStart(rs)

AssetAnswered(i) ==
    LET r == requests[i]
    IN /\ r.op = "asset"
       /\ \/ r.is = "ok" /\ summary' = [summary EXCEPT !.loading = FALSE, !.shown = r.answer]
          \/ Fails(r) /\ summary' = [summary EXCEPT !.loading = FALSE, !.error = TRUE]
       /\ requests' = Without(i)
       /\ UNCHANGED <<scope, selectedNode, version, mishaps, holdings>>

WeightAnswered(i) ==
    LET r == requests[i]
    IN /\ r.op = "weight"
       /\ \/ r.is = "ok" /\ summary' = [summary EXCEPT !.weight = r.node]
          \/ Fails(r) /\ summary' = [summary EXCEPT !.weight = None]
       /\ requests' = Without(i)
       /\ UNCHANGED <<scope, selectedNode, version, mishaps, holdings>>

\* The price is there: the asset is read again.
PriceAnswered(i) ==
    LET r == requests[i]
    IN /\ r.op = "price" /\ r.live
       /\ \/ /\ r.is = "ok"
             /\ summary' = [summary EXCEPT !.pricing = FALSE, !.price = r.node]
             /\ requests' = [requests EXCEPT ![i] = Request("reread", r.node)]
          \/ /\ Fails(r)
             /\ summary' = PriceFailed(summary)
             /\ requests' = Without(i)
       /\ UNCHANGED <<scope, selectedNode, version, mishaps, holdings>>

\* ASSET_REFRESHED; a read that fails ends in the handler of the price's error.
RereadAnswered(i) ==
    LET r == requests[i]
    IN /\ r.op = "reread"
       /\ \/ r.is = "ok" /\ summary' = [summary EXCEPT !.shown = r.answer]
          \/ Fails(r) /\ summary' = PriceFailed(summary)
       /\ requests' = Without(i)
       /\ UNCHANGED <<scope, selectedNode, version, mishaps, holdings>>

\* What the tab shows.
AssetSummaryTab ==
    IF ~summary.mounted THEN "none"
    ELSE IF summary.loading THEN "loading"
    ELSE IF summary.error THEN "error"
    ELSE IF summary.shown = None THEN "nothing"
    ELSE "asset"

\* The button is in the section of the current price, which needs the asset; it does
\* nothing for a node without what a price fetch takes.
Refresh ==
    /\ AssetSummaryTab = "asset" /\ scope = "active"
    /\ ~summary.pricing /\ HasRoom(requests, 1)
    /\ summary' = PriceFetchStarted(summary)
    /\ requests' = With(requests, Request("price", selectedNode))
    /\ mishaps' = mishaps \union MishapsAtStart(requests)
    /\ UNCHANGED <<scope, selectedNode, version, holdings>>

RetryAsset ==
    /\ AssetSummaryTab = "error"
    /\ FetchAsset(summary, selectedNode, requests)
    /\ UNCHANGED <<scope, selectedNode, version, holdings>>

----------------------------------------------------------------------------
(* usePortfolioAssetSummary.                                               *)

NoRows == [a \in Assets |-> "none"]

BlankHoldings == [mounted |-> TRUE, items |-> None, rows |-> NoRows, loading |-> FALSE,
                  error |-> FALSE]

NoHoldings == [BlankHoldings EXCEPT !.mounted = FALSE]

FetchItems(n, rs) ==
    /\ HasRoom(rs, 1)
    /\ holdings' = [BlankHoldings EXCEPT !.loading = TRUE]
    /\ requests' = With(rs, Request("items", n))
    /\ mishaps' = MishapsAtStart(rs)

\* The rows are there: each of them asks for its price, none of them in the
\* historic scope. They do so too when the grid is gone, for nobody to see.
ItemsAnswered(i) ==
    LET r == requests[i]
        rowPrices == [Request("rows", r.node) EXCEPT !.live = r.live]
        rows == [a \in Assets |-> IF scope = "historic" THEN "failed" ELSE "loading"]
    IN /\ r.op = "items"
       /\ \/ /\ r.is = "ok"
             /\ holdings' = IF r.live
                              THEN [holdings EXCEPT !.loading = FALSE, !.items = r.answer,
                                                    !.rows = rows]
                              ELSE holdings
             /\ requests' =
                   [requests EXCEPT ![i] = IF scope = "active" THEN rowPrices ELSE Free]
          \/ /\ Fails(r)
             /\ holdings' = IF r.live THEN [holdings EXCEPT !.loading = FALSE, !.error = TRUE]
                            ELSE holdings
             /\ requests' = Without(i)
       /\ UNCHANGED <<scope, selectedNode, version, mishaps, summary>>
\* Mutant: the items are not read again.
RowPriceAnsweredMutant(i, a) ==
    LET r == requests[i]
        left == r.left \ {a}
    IN /\ r.op = "rows" /\ a \in r.left
       /\ \E recorded \in BOOLEAN, row \in {"known", "failed"} :
             /\ recorded => version[a] < MaxChanges
             /\ version' = [version EXCEPT ![a] = IF recorded THEN @ + 1 ELSE @]
             /\ holdings' = [holdings EXCEPT !.rows[a] = row]
       /\ requests' = [requests EXCEPT ![i] = IF left # {} THEN [r EXCEPT !.left = left] ELSE Free]
       /\ UNCHANGED <<scope, selectedNode, mishaps, summary>>

\* One row's price is answered, and recorded when it is a new one. A row is found by
\* its place in the grid, whatever grid is shown by now. When the last one has
\* settled the items are read again.
RowPriceAnswered(i, a) ==
    LET r == requests[i]
        left == r.left \ {a}
    IN /\ r.op = "rows" /\ a \in r.left
       /\ \E recorded \in BOOLEAN, row \in {"known", "failed"} :
             /\ recorded => version[a] < MaxChanges
             /\ version' = [version EXCEPT ![a] = IF recorded THEN @ + 1 ELSE @]
             /\ holdings' = IF r.live /\ holdings.rows # NoRows
                              THEN [holdings EXCEPT !.rows[a] = row] ELSE holdings
       /\ requests' =
             [requests EXCEPT ![i] =
                IF left # {} THEN [r EXCEPT !.left = left]
                ELSE IF r.live THEN Request("itemsReread", r.node)
                ELSE Free]
       /\ UNCHANGED <<scope, selectedNode, mishaps, summary>>

\* VALUATION_REFRESHED; a read that fails is ignored.
ItemsRereadAnswered(i) ==
    LET r == requests[i]
    IN /\ r.op = "itemsReread"
       /\ \/ r.is = "ok" /\ holdings' = [holdings EXCEPT !.items = r.answer] /\ UNCHANGED mishaps
          \/ Fails(r) /\ mishaps' = mishaps \union {"lost"} /\ UNCHANGED holdings
       /\ requests' = Without(i)
       /\ UNCHANGED <<scope, selectedNode, version, summary>>

\* What the tab shows; an error also takes the place of a grid.
PortfolioHoldingsTab ==
    IF ~holdings.mounted THEN "none"
    ELSE IF holdings.error THEN "error"
    ELSE IF holdings.loading THEN "loading"
    ELSE IF holdings.items = None THEN "nothing"
    ELSE "grid"

\* The total in the grid's footer, of the rows whose prices are there.
ComputeTotal ==
    IF \A a \in Assets : holdings.rows[a] # "loading" THEN "total"
    ELSE IF \A a \in Assets : holdings.rows[a] = "loading" THEN "calculating"
    ELSE "partial"

RetryHoldings ==
    /\ PortfolioHoldingsTab = "error"
    /\ FetchItems(selectedNode, requests)
    /\ UNCHANGED <<scope, selectedNode, version, summary>>

----------------------------------------------------------------------------
SummaryTabNext ==
    \/ \E i \in Slots :
          \/ AssetAnswered(i) \/ WeightAnswered(i) \/ PriceAnswered(i) \/ RereadAnswered(i)
          \/ ItemsAnswered(i) \/ ItemsRereadAnswered(i)
          \/ \E a \in Assets : RowPriceAnswered(i, a)
    \/ Refresh \/ RetryAsset \/ RetryHoldings

SummaryTypeOK ==
    /\ summary \in [mounted : BOOLEAN, shown : Contents, loading : BOOLEAN, error : BOOLEAN,
                    pricing : BOOLEAN, price : Assets \union {None}, priceError : BOOLEAN,
                    weight : Assets \union {None}]
    /\ holdings \in [mounted : BOOLEAN, items : Contents,
                     rows : [Assets -> {"none", "loading", "known", "failed"}],
                     loading : BOOLEAN, error : BOOLEAN]
=============================================================================
