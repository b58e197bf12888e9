------------------------------ MODULE WebPages ------------------------------
(***************************************************************************)
(* The pages that only read, each through one or several useAsyncResource    *)
(* hooks, and the two settings pages, which also write and put the answer    *)
(* to the write over what they read. One page is open; the key is what its   *)
(* panels read by: a node, an asset, a year or a currency. Leaving a page    *)
(* unmounts it, and a page that is opened starts anew. The tax page, whose   *)
(* hook has a reducer of its own, is module TaxPage.                        *)
(***************************************************************************)
EXTENDS ResourceState, TaxPage

CONSTANTS
    Brokers, Portfolios, Assets, Years, Currencies,     \* the keys
    Only,           \* the key of what does not depend on one
    Seed,           \* the currency in the reporting currency setting
    MaxPending,     \* bound: requests of one panel under way
    MaxVersion      \* bound: changes of what one panel reads

ASSUME WebPagesAssumption ==
    /\ Keys = Brokers \union Portfolios \union Assets \union Years \union Currencies
                \union {Only}
    /\ Seed \in Currencies
    /\ Only \notin Brokers \union Portfolios \union Assets \union Years \union Currencies
    /\ MaxPending \in Nat /\ MaxVersion \in Nat

VARIABLES
    screen,         \* the page that is open
    key,            \* what its panels read by, or None
    res,            \* [Panels -> resource]
    filtered,       \* a tax year is chosen or a row expanded in the disposals
    version,        \* [Panels -> Nat], changes of what each panel reads
    writes,         \* requests of a settings page that do not go through its resource
    connecting,     \* a consent page was opened in another tab
    saveError,      \* the last write failed
    apart           \* the panels that may show something else than the server has

pageVars == <<screen, key, res, filtered, version, writes, connecting, saveError, apart>>

vars == <<pageVars, tax>>

----------------------------------------------------------------------------
(* The hooks: for which keys they fetch, and whether data is kept while new  *)
(* data is loaded.                                                          *)

UseDashboardSummary == [wants |-> Currencies, keepsData |-> FALSE]
UseAllocationBreakdown == [wants |-> Currencies, keepsData |-> FALSE]
UseDataQualityReport == [wants |-> {Only}, keepsData |-> FALSE]
UseUpcomingIncome == [wants |-> {Only}, keepsData |-> FALSE]
UseReportingCurrency == [wants |-> {Only}, keepsData |-> TRUE]
UseAggregatedSummary == [wants |-> Brokers \union Portfolios, keepsData |-> FALSE]
UseBrokerBreakdown == [wants |-> Brokers, keepsData |-> FALSE]
UseDisposals == [wants |-> Assets, keepsData |-> FALSE]
UseOpenLots == [wants |-> Assets, keepsData |-> TRUE]
UseAssetSearchOptions == [wants |-> Assets, keepsData |-> FALSE]
UseAnnualSummary == [wants |-> Years, keepsData |-> TRUE]
UseCalendarConnection == [wants |-> {Only}, keepsData |-> TRUE]
UseCalendarSyncStatuses == [wants |-> {Only}, keepsData |-> TRUE]

Hook == [kpis |-> UseDashboardSummary, allocation |-> UseAllocationBreakdown,
         warnings |-> UseDataQualityReport, income |-> UseUpcomingIncome,
         currency |-> UseReportingCurrency, aggregated |-> UseAggregatedSummary,
         breakdown |-> UseBrokerBreakdown, disposals |-> UseDisposals, lots |-> UseOpenLots,
         assets |-> UseAssetSearchOptions, figures |-> UseAnnualSummary,
         connection |-> UseCalendarConnection, syncs |-> UseCalendarSyncStatuses]

Panels == DOMAIN Hook

----------------------------------------------------------------------------
(* The pages: their panels, and the keys they can be switched to.           *)

DashboardPanels == {"kpis", "allocation", "warnings", "income"}

PanelsOf == [dashboard |-> DashboardPanels \union {"currency"},
             node |-> {"aggregated", "breakdown"},
             disposals |-> {"disposals"},
             sale |-> {"lots"},
             merger |-> {"assets"},
             annual |-> {"figures"},
             reportingCurrency |-> {"currency"},
             integrations |-> {"connection", "syncs"},
             tax |-> {}]

Screens == DOMAIN PanelsOf

Settings == {"reportingCurrency", "integrations"}

\* A tab of an asset is unmounted before another asset is selected; the lots are
\* read while a sale of specific lots is being entered.
KeysOf(s) ==
    CASE s = "dashboard" -> Currencies
      [] s = "node" -> Brokers \union Portfolios
      [] s \in {"disposals", "merger"} -> IF key = None THEN Assets ELSE {key}
      [] s = "sale" -> Assets \union {None}
      [] s = "annual" -> Years
      [] OTHER -> {}

\* A node that is clicked again is a new selection; the asset picker and the other
\* pages depend on names and numbers.
Reselects == {"node", "disposals"}

KeyOf(p, k) == IF Hook[p].wants = {Only} THEN Only ELSE k

AtOnce(s) == PanelsOf[s] \ {"breakdown"}

HasRoom(ps) == \A p \in ps : Cardinality(res[p].pending) < MaxPending

\* The effects of the panels ps run for the page's key k. While a broker's summary is
\* read, its charts are not there.
RunEffects(ps, k) ==
    [p \in Panels |->
        IF p \in ps THEN Effect(res[p], KeyOf(p, k), version[p], Hook[p])
        ELSE IF p = "breakdown" /\ "aggregated" \in ps THEN Blank
        ELSE res[p]]

FirstKeys(s) ==
    CASE s = "dashboard" -> {None}
      [] s = "annual" -> Years
      [] s = "node" -> Brokers \union Portfolios
      [] s \in {"disposals", "merger"} -> Assets
      [] OTHER -> {None}

Init ==
    /\ screen \in Screens
    /\ key \in FirstKeys(screen)
    /\ version = [p \in Panels |-> 0]
    /\ res = [p \in Panels |->
                IF p \in AtOnce(screen) THEN Effect(Blank, KeyOf(p, key), 0, Hook[p]) ELSE Blank]
    /\ filtered = FALSE
    /\ writes = {} /\ connecting = FALSE /\ saveError = FALSE /\ apart = {}
    /\ tax = UseTaxWorkbook

----------------------------------------------------------------------------
(* Reading.                                                                 *)

\* What the components make of what their hook returns. Tiles without figures are
\* skeletons, whatever the reason.
DashboardKpiTiles(r) ==
    IF r.error THEN "error" ELSE IF r.isLoading \/ r.data = None THEN "loading" ELSE "data"

AllocationBreakdownPanel(r) == LoadingErrorOrData(r)
DataQualityWarningsPanel(r) == LoadingErrorOrData(r)
UpcomingIncomePanel(r) == LoadingErrorOrData(r)
AggregatedSummaryTab(r) == LoadingErrorOrData(r)
BrokerBreakdownCharts(r) == LoadingErrorOrData(r)

\* Those with a value for what is not there yet: no rows, no options, not connected.
DisposalsTab(r) == LoadingOrError(r)
LotAllocationPicker(r) == LoadingOrError(r)
TargetAssetPicker(r) == LoadingOrError(r)
AnnualSummaryPage(r) == LoadingOrError(r)
ReportingCurrencyPage(r) == LoadingOrError(r)
IntegrationsPage(r) == LoadingOrError(r)

View(p) ==
    LET r == res[p]
    IN CASE p = "kpis" -> DashboardKpiTiles(r)
         [] p = "allocation" -> AllocationBreakdownPanel(r)
         [] p = "warnings" -> DataQualityWarningsPanel(r)
         [] p = "income" -> UpcomingIncomePanel(r)
         [] p = "aggregated" -> AggregatedSummaryTab(r)
         [] p = "breakdown" -> BrokerBreakdownCharts(r)
         [] p = "disposals" -> DisposalsTab(r)
         [] p = "lots" -> LotAllocationPicker(r)
         [] p = "assets" -> TargetAssetPicker(r)
         [] p = "figures" -> AnnualSummaryPage(r)
         [] p = "currency" -> ReportingCurrencyPage(r)
         [] p \in {"connection", "syncs"} -> IntegrationsPage(r)

\* Whether the connection's version at says connected: every change makes or ends it.
Connected(at) == at % 2 = 1

Connection == res["connection"].data

\* Of the dashboard's currency nothing is shown; the charts of a broker are part of
\* its summary, the lots of the form of such a sale, and the cards' synchronisations of
\* a connected calendar.
Shows(p) ==
    /\ p = "currency" => screen # "dashboard"
    /\ p = "breakdown" => key \in Brokers /\ View("aggregated") = "data"
    /\ p = "lots" => key # None
    /\ p = "syncs" => (View("connection") = "data" /\ Connection # None /\ Connected(Connection.at))

\* Besides an error, figures that could not be converted offer to be read again.
OffersRetry(p) ==
    View(p) = "error" \/ (p \in {"kpis", "allocation", "aggregated"} /\ View(p) = "data")

EveryPanelFailed == \A p \in DashboardPanels : res[p].error /\ ~res[p].isLoading

Others == <<filtered, writes, connecting, saveError>>

\* What a write of a settings page changes.
Target(kind) ==
    CASE kind \in {"currency", "enabled"} -> "currency"
      [] kind = "resync" -> "syncs"
      [] kind \in {"disconnect", "check"} -> "connection"

Busy(p) == res[p].pending # {} \/ \E w \in writes : Target(w.kind) = p

\* Another node, year or currency is chosen, or the same node again.
ChooseKey(k) ==
    /\ k \in KeysOf(screen) /\ (k # key \/ screen \in Reselects)
    /\ screen = "dashboard" => key # None
    /\ LET ps == {p \in AtOnce(screen) : Hook[p].wants # {Only}}
       IN HasRoom(ps) /\ res' = RunEffects(ps, k)
    /\ key' = k
    /\ filtered' = FALSE
    /\ UNCHANGED <<screen, version, writes, connecting, saveError, apart>>

\* A panel's own retry; the disposals also forget their filter.
Retry(p) ==
    /\ p \in PanelsOf[screen] /\ Shows(p) /\ OffersRetry(p)
    /\ ~(screen = "dashboard" /\ EveryPanelFailed)
    /\ HasRoom({p})
    /\ res' = RunEffects({p}, key)
    /\ filtered' = FALSE
    /\ apart' = IF Busy(p) THEN apart \union {p} ELSE apart \ {p}
    /\ UNCHANGED <<screen, key, version, writes, connecting, saveError>>

\* The one button in the place of all panels, when all of them failed.
RetryAll ==
    /\ screen = "dashboard" /\ EveryPanelFailed /\ HasRoom(DashboardPanels)
    /\ res' = RunEffects(DashboardPanels, key)
    /\ UNCHANGED <<screen, key, version, apart, Others>>

\* An answer arrives. The one to the dashboard's currency seeds the currency its
\* figures are read in; with a broker's summary its charts are mounted.
Answer(p, q) ==
    /\ q \in res[p].pending
    /\ key' = IF screen = "dashboard" /\ p = "currency" THEN Seed ELSE key
    /\ LET mounts == IF key' # key THEN {"kpis", "allocation"}
                     ELSE IF p = "aggregated" /\ q.latest /\ key \in Brokers THEN {"breakdown"}
                     ELSE {}
       IN \E at \in q.since..version[p] :
             res' = [x \in Panels |->
                        IF x = p THEN Succeeded(res[x], q, at)
                        ELSE IF x \in mounts THEN Effect(res[x], key', version[x], Hook[x])
                        ELSE res[x]]
    /\ UNCHANGED <<screen, version, apart, Others>>

Fail(p, q) ==
    /\ q \in res[p].pending
    /\ res' = [res EXCEPT ![p] = Failed(@, q)]
    /\ UNCHANGED <<screen, key, version, apart, Others>>

\* Something else changes the server's data.
OtherChange ==
    /\ screen # "tax" /\ \A p \in Panels : version[p] < MaxVersion
    /\ version' = [p \in Panels |-> version[p] + 1]
    /\ apart' = PanelsOf[screen]
    /\ UNCHANGED <<screen, key, res, Others>>

\* The tax year of the disposals, or the history below one of them.
FilterDisposals ==
    /\ screen = "disposals" /\ View("disposals") = "data" /\ ~filtered
    /\ filtered' = TRUE
    /\ UNCHANGED <<screen, key, res, version, writes, connecting, saveError, apart>>

----------------------------------------------------------------------------
(* Writing. A write is carried out at the server at some point before its    *)
(* answer arrives; nothing keeps the user from sending the next one.        *)

\* at: the version it made, once it is carried out.
Write(kind) == [kind |-> kind, since |-> version[Target(kind)], at |-> 0]

Send(kind) ==
    /\ Cardinality(writes) < MaxPending /\ Write(kind) \notin writes
    /\ writes' = writes \union {Write(kind)}
    /\ apart' = IF Busy(Target(kind)) THEN apart \union {Target(kind)} ELSE apart
    /\ saveError' = (saveError /\ kind = "check")
    /\ UNCHANGED <<screen, key, res, filtered, version>>

Writing(kind) == \E w \in writes : w.kind = kind

\* The currencies are enabled only while conversion is, which is part of the setting.
SetCurrency ==
    /\ screen = "reportingCurrency" /\ View("currency") = "data"
    /\ Send("currency") /\ UNCHANGED connecting

SetEnabled ==
    /\ screen = "reportingCurrency" /\ View("currency") = "data"
    /\ Send("enabled") /\ UNCHANGED connecting

\* Only the row whose synchronisation is being retried has its button disabled.
ResyncCard ==
    /\ screen = "integrations" /\ Shows("syncs") /\ View("syncs") = "data"
    /\ ~Writing("resync")
    /\ Send("resync") /\ UNCHANGED connecting

Disconnect ==
    /\ screen = "integrations" /\ View("connection") = "data" /\ ~Writing("disconnect")
    /\ Connection # None /\ Connected(Connection.at)
    /\ Send("disconnect") /\ UNCHANGED connecting

\* The consent is given in another tab, of which this one learns nothing; whenever it
\* regains the focus it asks for the status, beside its resource.
Connect ==
    /\ screen = "integrations" /\ View("connection") = "data" /\ ~connecting
    /\ Connection = None \/ ~Connected(Connection.at)
    /\ connecting' = TRUE
    /\ UNCHANGED <<screen, key, res, filtered, version, writes, saveError, apart>>

Focus ==
    /\ screen = "integrations" /\ connecting
    /\ Send("check") /\ UNCHANGED connecting

\* There is nothing left to disconnect when somebody else has done it.
CarryOut(w) ==
    LET p == Target(w.kind)
        at == IF w.kind = "disconnect" /\ ~Connected(version[p]) THEN version[p] ELSE version[p] + 1
    IN /\ w.at = 0 /\ w.kind # "check" /\ at <= MaxVersion
       /\ version' = [version EXCEPT ![p] = at]
       /\ writes' = (writes \ {w}) \union {[w EXCEPT !.at = at]}
       /\ UNCHANGED <<screen, key, res, filtered, connecting, saveError, apart>>

\* The answer to a write goes over what is shown, whatever is under way.
SaveAnswered(w) ==
    /\ w.kind \in {"currency", "enabled", "resync"} /\ w.at > 0
    /\ res' = [res EXCEPT ![Target(w.kind)] = DataSet(@, Only, w.at)]
    /\ writes' = writes \ {w}
    /\ UNCHANGED <<screen, key, filtered, version, connecting, saveError, apart>>
\* Mutant: the status is not read again.
DisconnectAnsweredMutant(w) ==
    /\ w.kind = "disconnect" /\ w.at > 0
    /\ writes' = writes \ {w}
    /\ UNCHANGED <<screen, key, res, filtered, version, connecting, saveError, apart>>

\* A disconnection reads the status again.
DisconnectAnswered(w) ==
    /\ w.kind = "disconnect" /\ w.at > 0 /\ HasRoom({"connection"})
    /\ res' = [res EXCEPT !["connection"] =
                  Refreshed(@, Only, version["connection"], UseCalendarConnection)]
    /\ writes' = writes \ {w}
    /\ UNCHANGED <<screen, key, filtered, version, connecting, saveError, apart>>

\* The status the tab asked for when it got the focus; one that says connected, or why
\* it is not any more, ends the connecting.
CheckAnswered(w) ==
    /\ w.kind = "check"
    /\ \E at \in w.since..version["connection"] :
          /\ res' = [res EXCEPT !["connection"] = DataSet(@, Only, at)]
          /\ apart' = IF at < version["connection"] THEN apart \union {"connection"} ELSE apart
          /\ connecting' \in IF Connected(at) THEN {FALSE} ELSE {connecting, FALSE}
    /\ writes' = writes \ {w}
    /\ UNCHANGED <<screen, key, filtered, version, saveError>>

\* A write that was carried out may still be reported as failed.
WriteFailed(w) ==
    /\ writes' = writes \ {w}
    /\ saveError' = (saveError \/ w.kind # "check")
    /\ apart' = IF w.at > 0 THEN apart \union {Target(w.kind)} ELSE apart
    /\ UNCHANGED <<screen, key, res, filtered, version, connecting>>

----------------------------------------------------------------------------
Read ==
    \/ \E k \in Keys \union {None} : ChooseKey(k)
    \/ \E p \in Panels :
          \/ Retry(p)
          \/ \E q \in res[p].pending : Answer(p, q) \/ Fail(p, q)
    \/ RetryAll \/ OtherChange \/ FilterDisposals

SettingsNext ==
    \/ SetCurrency \/ SetEnabled \/ ResyncCard \/ Disconnect \/ Connect \/ Focus
    \/ \E w \in writes :
          CarryOut(w) \/ SaveAnswered(w) \/ DisconnectAnswered(w) \/ CheckAnswered(w) \/ WriteFailed(w)

Next ==
    \/ (Read \/ SettingsNext) /\ UNCHANGED tax
    \/ screen = "tax" /\ TaxNext /\ UNCHANGED pageVars

Spec == Init /\ [][Next]_vars

----------------------------------------------------------------------------
Shown(p) == p \in PanelsOf[screen] /\ Shows(p) /\ View(p) = "data" /\ res[p].data # None

\* Every resource, every request under way and every page has its shape.
TypeOK ==
    /\ screen \in Screens /\ key \in Keys \union {None}
    /\ version \in [Panels -> 0..MaxVersion]
    /\ res \in [Panels -> Resource(MaxVersion)]
    /\ writes \subseteq [kind : {"currency", "enabled", "resync", "disconnect", "check"},
                         since : 0..MaxVersion, at : 0..MaxVersion]
    /\ {filtered, connecting, saveError} \subseteq BOOLEAN /\ apart \subseteq Panels
    /\ TaxTypeOK

\* What a page shows is what was asked for last: an answer to an earlier choice never
\* ends up under the heading of a later one, also where old data is kept meanwhile.
ShownIsAsked == \A p \in Panels : Shown(p) => res[p].data.of = KeyOf(p, key)

\* A panel that only reads never goes back to older data of the same thing.
NeverGoesBack ==
    [][\A p \in Panels :
          (screen \notin Settings /\ res[p].data # None /\ res'[p].data # None
             /\ res'[p].data.of = res[p].data.of)
            => res'[p].data.at >= res[p].data.at]_vars

\* No panel is left loading with nothing under way, unless the dashboard's currency
\* could not be read.
LoadingIsAnswered ==
    \A p \in PanelsOf[screen] :
        (Shows(p) /\ View(p) = "loading")
          => (res[p].pending # {} \/ (screen = "dashboard" /\ key = None))

\* A settings page shows what the server has once everything is answered, unless two
\* of its requests overlapped, an answer was lost or somebody else changed it.
SettingIsCurrent ==
    screen \in Settings =>
        \A p \in PanelsOf[screen] \ apart :
            (View(p) = "data" /\ ~Busy(p)) => res[p].data.at = version[p]

\* The tax page shows the workbook of the year in its heading, unless two of its
\* requests overlapped.
WorkbookIsOfSelectionUnlessRaced ==
    (TaxView = "data" /\ ~tax.raced) => tax.workbook = tax.selected
=============================================================================
