--------------------------- MODULE DetailRequests ---------------------------
(***************************************************************************)
(* What the tabs of the investment detail panel share: the selected node,   *)
(* the server's record of each asset, and the requests under way. A request *)
(* takes effect at the server and is answered in one step, and the answer   *)
(* reaches the browser in a later one; requests are answered, and answers   *)
(* arrive, in any order. The records of an asset are abstracted to how      *)
(* often they were changed.                                                 *)
(***************************************************************************)
EXTENDS Integers, FiniteSets

CONSTANTS
    Assets,         \* the assets of one portfolio of one broker
    Portfolio,      \* that portfolio, as a node of the tree
    Slots,          \* bound: requests under way at once
    MaxChanges,     \* bound: changes of an asset's records the server accepts
    None            \* no node, no content

ASSUME DetailAssumption ==
    /\ IsFiniteSet(Slots) /\ MaxChanges \in Nat
    /\ Portfolio \notin Assets
    /\ None \notin Assets \union {Portfolio}

Nodes == Assets \union {Portfolio}

VARIABLES
    scope,          \* "active" or "historic": which tree the page shows
    selectedNode,   \* the node clicked last, or None
    version,        \* [Assets -> Nat], changes of each asset's records
    requests,       \* [Slots -> Request], Free where nothing is under way
    mishaps         \* what has gone wrong for the tab that is mounted, see below

shared == <<scope, selectedNode, version, requests, mishaps>>

(* Requests that read, and those that change the asset they name: fetching *)
(* a price records it.                                                     *)
TabWrites == {"save", "merge", "delete"}
SummaryOps == {"asset", "weight", "price", "reread"}
HoldingsOps == {"items", "rows", "itemsReread"}

\* mine: the form that sent the save is still the one that is open.
\* left: of the rows' prices, those that are not answered yet.
Free == [op |-> "free", node |-> None, is |-> "sent", answer |-> None,
         mine |-> FALSE, live |-> FALSE, left |-> {}]

Under(n) == IF n \in Assets THEN {n} ELSE Assets

Contents == {None} \union
    UNION {[of : {n}, at : [Under(n) -> 0..MaxChanges]] : n \in Nodes}

Content(n) == [of |-> n, at |-> [a \in Under(n) |-> version[a]]]

Request(op, n) ==
    [Free EXCEPT !.op = op, !.node = n, !.live = TRUE, !.mine = op \in {"save", "merge"},
                 !.left = IF op = "rows" THEN Assets ELSE {}]

UnderWay == {i \in Slots : requests[i].op # "free"}

Live(ops) == {i \in UnderWay : requests[i].live /\ requests[i].op \in ops}

\* Requests of a tab that is gone and that may still change an asset.
Orphans == {i \in UnderWay : ~requests[i].live}

HasRoom(rs, k) == Cardinality({i \in Slots : rs[i].op = "free"}) >= k

\* The requests rs with the new one in some free slot.
With(rs, request) ==
    LET i == CHOOSE j \in Slots : rs[j].op = "free" IN [rs EXCEPT ![i] = request]

Without(i) == [requests EXCEPT ![i] = Free]

\* What is left of the requests when the tab that sent them is unmounted, which
\* cancels none of them: a change still reaches the server, and the rows of a
\* portfolio, once they are there, still ask for their prices. The answer to any
\* other request would change nothing any more.
Orphaned ==
    [i \in Slots |->
        LET r == requests[i]
        IN IF r.op = "items" \/ (r.op \in TabWrites \union {"price", "rows"} /\ r.is = "sent")
             THEN [r EXCEPT !.live = FALSE, !.mine = FALSE]
             ELSE Free]

----------------------------------------------------------------------------
(* mishaps explain why what a tab shows may differ from what the server     *)
(* has: "overlap", two requests about the same records were under way at    *)
(* once; "lost", a change was made and its answer did not arrive;           *)
(* "abandoned", a form was closed or replaced while it was being saved.     *)

Mishaps == {"overlap", "lost", "abandoned"}

\* The mishaps of a tab that starts to fetch with the requests rs under way.
MishapsAtStart(rs) ==
    IF \E i \in Slots : rs[i].op # "free" THEN {"overlap"} ELSE {}

----------------------------------------------------------------------------
(* The server. A request is carried out and answered, or carried out and the *)
(* answer lost; a price that is fetched may be the recorded one. A request   *)
(* that fails without having been carried out does so where its failure is   *)
(* handled: the order of the two makes no difference.                        *)

Changing(r) == r.op \in TabWrites \union {"price"}

Kept(i, r) == requests' = [requests EXCEPT ![i] = IF r.live THEN r ELSE Free]

Ok(r, content) == [r EXCEPT !.is = "ok", !.answer = content]

Fails(r) == r.is \in {"sent", "lost"}

AnswerRead(i) ==
    LET r == requests[i]
    IN /\ r.is = "sent" /\ r.op \in {"load", "asset", "weight", "reread", "items", "itemsReread"}
       /\ requests' = [requests EXCEPT ![i] = Ok(r, Content(r.node))]
       /\ UNCHANGED <<scope, selectedNode, version, mishaps>>

Change(a) ==
    /\ version[a] < MaxChanges
    /\ version' = [version EXCEPT ![a] = @ + 1]

AnswerChange(i) ==
    LET r == requests[i]
    IN /\ r.is = "sent" /\ Changing(r)
       /\ Change(r.node)
       /\ Kept(i, Ok(r, [of |-> r.node, at |-> [a \in {r.node} |-> version[a] + 1]]))
       /\ UNCHANGED <<scope, selectedNode, mishaps>>

AnswerSamePrice(i) ==
    LET r == requests[i]
    IN /\ r.is = "sent" /\ r.op = "price"
       /\ Kept(i, Ok(r, Content(r.node)))
       /\ UNCHANGED <<scope, selectedNode, version, mishaps>>

LoseAnswer(i) ==
    LET r == requests[i]
    IN /\ r.is = "sent" /\ Changing(r)
       /\ Change(r.node)
       /\ Kept(i, [r EXCEPT !.is = "lost"])
       /\ mishaps' = IF r.live THEN mishaps \union {"lost"} ELSE mishaps
       /\ UNCHANGED <<scope, selectedNode>>

\* A change of a tab that is gone fails, and nobody hears of it.
DropOrphan(i) ==
    /\ i \in Orphans /\ requests[i].is = "sent" /\ Changing(requests[i])
    /\ requests' = Without(i)
    /\ UNCHANGED <<scope, selectedNode, version, mishaps>>

Server(i) ==
    AnswerRead(i) \/ AnswerChange(i) \/ AnswerSamePrice(i) \/ LoseAnswer(i) \/ DropOrphan(i)

RequestType ==
    [op : {"free", "load"} \union TabWrites \union SummaryOps \union HoldingsOps,
     node : Nodes \union {None}, is : {"sent", "ok", "lost"}, answer : Contents,
     mine : BOOLEAN, live : BOOLEAN, left : SUBSET Assets]

SharedTypeOK ==
    /\ scope \in {"active", "historic"}
    /\ selectedNode \in Nodes \union {None}
    /\ version \in [Assets -> 0..MaxChanges]
    /\ \A i \in Slots : requests[i] \in RequestType
    /\ mishaps \subseteq Mishaps
=============================================================================
