---------------------------- MODULE ResourceState ----------------------------
(***************************************************************************)
(* useAsyncResource: what one page keeps of one thing it reads, as a record, *)
(* and what each step of the hook makes of that record. An answer counts     *)
(* only when its request is the latest one; the server's data is abstracted  *)
(* to a version, and an answer has some version from between its request and *)
(* its arrival.                                                             *)
(***************************************************************************)
EXTENDS Integers, FiniteSets

CONSTANTS
    Keys,       \* what a fetcher's dependencies tell apart: nodes, years, currencies
    None        \* no key, no data

ASSUME ResourceAssumption == None \notin Keys /\ None \notin [of : Keys, at : Nat]

\* A request, and whether its number is still the last one that was given out.
Request(v) == [about : Keys, since : 0..v, latest : BOOLEAN]

Content(v) == [of : Keys, at : 0..v]

Resource(v) == [data : Content(v) \union {None}, isLoading : BOOLEAN, error : BOOLEAN,
                pending : SUBSET Request(v)]

Blank == [data |-> None, isLoading |-> FALSE, error |-> FALSE, pending |-> {}]

Superseded(r) == [r EXCEPT !.pending = {[p EXCEPT !.latest = FALSE] : p \in r.pending}]

\* settleLatest: the request gets the next number.
Issued(r, k, v) ==
    [r EXCEPT !.pending = {[p EXCEPT !.latest = FALSE] : p \in r.pending}
                            \union {[about |-> k, since |-> v, latest |-> TRUE]}]

FetchStarted(r, k, v, keepData) ==
    [Issued(r, k, v) EXCEPT !.isLoading = TRUE, !.error = FALSE,
                            !.data = IF keepData THEN r.data ELSE None]

Reset(r) == [Superseded(r) EXCEPT !.data = None, !.isLoading = FALSE, !.error = FALSE]

\* The effect, run for key k: a fetcher that has nothing to fetch resets.
Effect(r, k, v, hook) ==
    IF k \in hook.wants THEN FetchStarted(r, k, v, hook.keepsData) ELSE Reset(r)

\* refresh: no FETCH_START, and the error of an earlier failure stays.
Refreshed(r, k, v, hook) == IF k \in hook.wants THEN Issued(r, k, v) ELSE r

Settled(r, p) == [r EXCEPT !.pending = @ \ {p}]
\* Mutant: any answer counts.
SucceededMutant(r, p, at) ==
    [Settled(r, p) EXCEPT !.isLoading = FALSE, !.data = [of |-> p.about, at |-> at]]

Succeeded(r, p, at) ==
    IF p.latest
      THEN [Settled(r, p) EXCEPT !.isLoading = FALSE, !.data = [of |-> p.about, at |-> at]]
      ELSE Settled(r, p)
\* Mutant: a failure leaves the resource loading.
FailedMutant(r, p) == IF p.latest THEN [Settled(r, p) EXCEPT !.error = TRUE] ELSE Settled(r, p)

Failed(r, p) ==
    IF p.latest THEN [Settled(r, p) EXCEPT !.isLoading = FALSE, !.error = TRUE]
                ELSE Settled(r, p)

\* setData: whatever is under way stays under way.
DataSet(r, k, at) == [r EXCEPT !.data = [of |-> k, at |-> at]]

\* What most pages make of it.
LoadingOrError(r) == IF r.isLoading THEN "loading" ELSE IF r.error THEN "error" ELSE "data"

LoadingErrorOrData(r) ==
    IF LoadingOrError(r) = "data" /\ r.data = None THEN "nothing" ELSE LoadingOrError(r)
=============================================================================
