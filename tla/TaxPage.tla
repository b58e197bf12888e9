------------------------------- MODULE TaxPage -------------------------------
(***************************************************************************)
(* The tax page: a list of jurisdictions with their tax years, and the       *)
(* workbook of the one that is selected. Its hook has a reducer of its own   *)
(* that takes the answer to any request it ever sent.                       *)
(***************************************************************************)
EXTENDS Integers, FiniteSets

CONSTANTS
    TaxYears,       \* the jurisdictions' tax years that can be selected
    NoYear,         \* nothing selected, no workbook
    MaxWorkbooks    \* bound: workbooks under way at once

ASSUME TaxAssumption == NoYear \notin TaxYears /\ MaxWorkbooks \in Nat

VARIABLE tax      \* what the hook keeps, and whether two of its requests overlapped

UseTaxWorkbook ==
    [options |-> "loading", selected |-> NoYear, workbook |-> NoYear, isLoading |-> FALSE,
     error |-> FALSE, asked |-> {}, raced |-> FALSE]

\* The effect of a selection: the workbook that is shown is kept meanwhile.
WorkbookFetchStarted(t, y) ==
    IF y = NoYear
      THEN [t EXCEPT !.selected = y]
      ELSE LET n == CHOOSE m \in 1..MaxWorkbooks : \A q \in t.asked : q.n # m
           IN [t EXCEPT !.selected = y, !.isLoading = TRUE, !.error = FALSE,
                        !.raced = (t.asked # {}),
                        !.asked = @ \union {[n |-> n, of |-> y]}]

CanAsk(t) == Cardinality(t.asked) < MaxWorkbooks

TaxView ==
    IF tax.options # "loaded" THEN tax.options
    ELSE IF tax.selected = NoYear THEN "empty"
    ELSE IF tax.isLoading THEN "loading"
    ELSE IF tax.error THEN "error"
    ELSE IF tax.workbook = NoYear THEN "nothing"
    ELSE "data"

\* The first option is selected, also after a retry; there may be none.
OptionsAnswered ==
    /\ tax.options = "loading"
    /\ \/ /\ CanAsk(tax)
          /\ \E first \in TaxYears \union {NoYear} :
                tax' = [(IF first = tax.selected THEN tax ELSE WorkbookFetchStarted(tax, first))
                          EXCEPT !.options = "loaded"]
       \/ tax' = [tax EXCEPT !.options = "error"]

RetryOptions == tax.options = "error" /\ tax' = [tax EXCEPT !.options = "loading"]
\* Mutant: the heading changes and the workbook is not read.
SelectYearMutant(y) ==
    /\ tax.options = "loaded" /\ tax.selected # NoYear /\ y # tax.selected
    /\ tax' = [tax EXCEPT !.selected = y]

SelectYear(y) ==
    /\ tax.options = "loaded" /\ tax.selected # NoYear /\ y # tax.selected /\ CanAsk(tax)
    /\ tax' = WorkbookFetchStarted(tax, y)

RetryWorkbook ==
    /\ tax.options = "loaded" /\ TaxView = "error" /\ CanAsk(tax)
    /\ tax' = WorkbookFetchStarted(tax, tax.selected)

\* Neither answer is checked to be to the latest request, and a workbook does not
\* clear the error of another request.
WorkbookAnswered(q) ==
    /\ q \in tax.asked
    /\ \/ tax' = [tax EXCEPT !.isLoading = FALSE, !.workbook = q.of, !.asked = @ \ {q}]
       \/ tax' = [tax EXCEPT !.isLoading = FALSE, !.workbook = NoYear, !.error = TRUE,
                             !.asked = @ \ {q}]

TaxNext ==
    \/ OptionsAnswered \/ RetryOptions \/ RetryWorkbook
    \/ \E y \in TaxYears : SelectYear(y)
    \/ \E q \in tax.asked : WorkbookAnswered(q)

TaxTypeOK ==
    tax \in [options : {"loading", "loaded", "error"}, selected : TaxYears \union {NoYear},
             workbook : TaxYears \union {NoYear}, isLoading : BOOLEAN, error : BOOLEAN,
             asked : SUBSET [n : 1..MaxWorkbooks, of : TaxYears], raced : BOOLEAN]

=============================================================================
