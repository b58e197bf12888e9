--------------------------- MODULE WebPages_proofs ---------------------------
(***************************************************************************)
(* Theorems about WebPages, for every set of nodes, years and currencies and  *)
(* any number of requests and changes: only the answer to the latest request   *)
(* is shown, every panel that is loading has one to wait for, no panel that     *)
(* only reads goes back, and a settings page follows the server.             *)
(***************************************************************************)
EXTENDS WebPages, FiniteSetTheorems, TLAPS

\* At most one request of a resource is the latest one, and while it is loading there is
\* one.
Tidy(r) ==
    /\ \A q, o \in r.pending : q.latest /\ o.latest => q = o
    /\ r.isLoading => \E q \in r.pending : q.latest

\* What the latest request is about, and the data that is shown, is k.
About(r, k) ==
    /\ \A q \in r.pending : q.latest => q.about = k
    /\ r.data # None /\ ~r.isLoading /\ ~r.error => r.data.of = k

\* The data is no newer than the server's, nor than what the latest request will bring.
Ordered(r, v) ==
    r.data # None =>
        /\ r.data.at <= v
        /\ \A q \in r.pending : q.latest => r.data.at <= q.since

HookShape == [wants : SUBSET Keys, keepsData : BOOLEAN]

\* A step from r to s does not go back.
Forward(r, s) == r.data # None /\ s.data # None => s.data.at >= r.data.at

----------------------------------------------------------------------------
(* Lemmas about the steps of one resource.                                  *)

LEMMA NoData == None \notin Content(MaxVersion)
  BY ResourceAssumption, WebPagesAssumption DEF Content

LEMMA SameForward ==
    ASSUME NEW r \in Resource(MaxVersion), NEW s, s.data \in {r.data, None}
    PROVE  Forward(r, s)
<1>1. r.data # None => r.data.at \in 0..MaxVersion
  BY DEF Resource, Content
<1> QED
  BY <1>1, WebPagesAssumption DEF Forward

LEMMA EffectType ==
    ASSUME NEW r \in Resource(MaxVersion), NEW k \in Keys \union {None},
           NEW v \in 0..MaxVersion, NEW hook \in HookShape
    PROVE  Effect(r, k, v, hook) \in Resource(MaxVersion)
<1> DEFINE old == {[p EXCEPT !.latest = FALSE] : p \in r.pending}
<1>1. old \in SUBSET Request(MaxVersion)
  <2>1. \A p \in Request(MaxVersion) : [p EXCEPT !.latest = FALSE] \in Request(MaxVersion)
    BY DEF Request
  <2> QED
    BY <2>1 DEF Resource
<1>2. CASE k \in hook.wants
  <2>1. [about |-> k, since |-> v, latest |-> TRUE] \in Request(MaxVersion)
    BY <1>2 DEF HookShape, Request
  <2>2. old \union {[about |-> k, since |-> v, latest |-> TRUE]} \in SUBSET Request(MaxVersion)
    BY <1>1, <2>1
  <2>3. (IF hook.keepsData THEN r.data ELSE None) \in Content(MaxVersion) \union {None}
    BY DEF Resource
  <2> QED
    BY <1>2, <2>2, <2>3 DEF Effect, FetchStarted, Issued, Resource
<1>3. CASE k \notin hook.wants
  BY <1>1, <1>3 DEF Effect, Reset, Superseded, Resource
<1> QED
  BY <1>2, <1>3

LEMMA EffectSound ==
    ASSUME NEW r \in Resource(MaxVersion), NEW k \in Keys \union {None},
           NEW v \in 0..MaxVersion, NEW hook \in HookShape
    PROVE  LET e == Effect(r, k, v, hook)
           IN Tidy(e) /\ About(e, k) /\ (Ordered(r, v) => Ordered(e, v))
              /\ (k \in hook.wants => e.isLoading)
              /\ Forward(r, e)
<1> DEFINE old == {[p EXCEPT !.latest = FALSE] : p \in r.pending}
           new == [about |-> k, since |-> v, latest |-> TRUE]
           e == Effect(r, k, v, hook)
<1>1. \A q \in old : ~q.latest
  BY DEF Resource, Request
<1>2. CASE k \in hook.wants
  <2>1. e.pending = old \union {new} /\ e.isLoading /\ e.data \in {r.data, None}
    BY <1>2 DEF Effect, FetchStarted, Issued, Resource
  <2>2. \A q \in e.pending : q.latest => q = new
    BY <1>1, <2>1
  <2>3. new.latest /\ new \in e.pending /\ new.about = k /\ new.since = v
    BY <2>1
  <2> HIDE DEF e, new, old
  <2>0. Forward(r, e)
    BY <2>1, SameForward
  <2>4. Tidy(e) /\ About(e, k)
    BY <2>1, <2>2, <2>3 DEF Tidy, About
  <2>5. Ordered(r, v) => Ordered(e, v)
    BY <2>1, <2>2, <2>3 DEF Ordered
  <2> QED
    BY <2>0, <2>1, <2>4, <2>5 DEF e
<1>3. CASE k \notin hook.wants
  <2>1. e.pending = old /\ ~e.isLoading /\ e.data = None
    BY <1>3 DEF Effect, Reset, Superseded, Resource
  <2> HIDE DEF e, old
  <2>2. Forward(r, e)
    BY <2>1, SameForward
  <2> QED
    BY <1>1, <1>3, <2>1, <2>2 DEF Tidy, About, Ordered, e
<1> QED
  BY <1>2, <1>3

LEMMA BlankSound ==
    ASSUME NEW k, NEW v
    PROVE  /\ Blank \in Resource(MaxVersion)
           /\ Tidy(Blank) /\ About(Blank, k) /\ Ordered(Blank, v)
  BY DEF Blank, Resource, Tidy, About, Ordered

LEMMA SucceededType ==
    ASSUME NEW r \in Resource(MaxVersion), NEW q \in r.pending, NEW at \in 0..MaxVersion
    PROVE  Succeeded(r, q, at) \in Resource(MaxVersion)
  BY DEF Succeeded, Settled, Resource, Request, Content

LEMMA SucceededSound ==
    ASSUME NEW r \in Resource(MaxVersion), NEW q \in r.pending, NEW at \in 0..MaxVersion,
           NEW k, NEW v \in 0..MaxVersion, Tidy(r), at <= v, at >= q.since
    PROVE  LET s == Succeeded(r, q, at)
           IN /\ Tidy(s)
              /\ About(r, k) => About(s, k)
              /\ Ordered(r, v) => Ordered(s, v) /\ Forward(r, s)
              /\ (~s.isLoading /\ ~s.error /\ s.data = None)
                   => (~r.isLoading /\ ~r.error /\ r.data = None)
<1> DEFINE s == Succeeded(r, q, at)
<1>0. q \in Request(MaxVersion) /\ q.latest \in BOOLEAN
  BY DEF Resource, Request
<1>1. CASE q.latest
  <2>1. /\ s.pending = r.pending \ {q} /\ s.isLoading = FALSE /\ s.error = r.error
        /\ s.data = [of |-> q.about, at |-> at]
    BY <1>1 DEF Succeeded, Settled, Resource
  <2>2. \A o \in s.pending : ~o.latest
    BY <1>1, <2>1 DEF Tidy
  <2>3. s.data # None
    BY <2>1, NoData, <1>0 DEF Content, Request
  <2>4. s.data.of = q.about /\ s.data.at = at
    BY <2>1
  <2> HIDE DEF s
  <2>5. Tidy(s)
    BY <2>1, <2>2 DEF Tidy
  <2>6. About(r, k) => About(s, k)
    BY <1>1, <2>1, <2>2, <2>4 DEF About
  <2>7. Ordered(s, v)
    BY <2>2, <2>4 DEF Ordered
  <2>8. at >= q.since => (Ordered(r, v) => Forward(r, s))
    BY <1>0, <1>1, <2>4, NoData, WebPagesAssumption DEF Ordered, Forward, Resource, Content, Request
  <2> QED
    BY <2>1, <2>3, <2>5, <2>6, <2>7, <2>8 DEF s
<1>2. CASE ~q.latest
  <2>1. /\ s.pending = r.pending \ {q} /\ s.isLoading = r.isLoading /\ s.error = r.error
        /\ s.data = r.data
    BY <1>2 DEF Succeeded, Settled, Resource
  <2> HIDE DEF s
  <2>2. Forward(r, s)
    BY <2>1, SameForward
  <2> QED
    BY <1>2, <2>1, <2>2 DEF Tidy, About, Ordered, s
<1> QED
  BY <1>0, <1>1, <1>2

LEMMA FailedType ==
    ASSUME NEW r \in Resource(MaxVersion), NEW q \in r.pending
    PROVE  Failed(r, q) \in Resource(MaxVersion)
  BY DEF Failed, Settled, Resource

LEMMA FailedSound ==
    ASSUME NEW r \in Resource(MaxVersion), NEW q \in r.pending, NEW k, NEW v, Tidy(r)
    PROVE  LET s == Failed(r, q)
           IN /\ Tidy(s)
              /\ About(r, k) => About(s, k)
              /\ Ordered(r, v) => Ordered(s, v)
              /\ s.data = r.data
              /\ (~s.isLoading /\ ~s.error) => (~r.isLoading /\ ~r.error)
<1> DEFINE s == Failed(r, q)
<1>0. q \in Request(MaxVersion) /\ q.latest \in BOOLEAN
  BY DEF Resource, Request
<1>1. CASE q.latest
  <2>1. /\ s.pending = r.pending \ {q} /\ s.isLoading = FALSE /\ s.error = TRUE
        /\ s.data = r.data
    BY <1>1 DEF Failed, Settled, Resource
  <2> HIDE DEF s
  <2> QED
    BY <1>1, <2>1 DEF Tidy, About, Ordered, s
<1>2. CASE ~q.latest
  <2>1. /\ s.pending = r.pending \ {q} /\ s.isLoading = r.isLoading /\ s.error = r.error
        /\ s.data = r.data
    BY <1>2 DEF Failed, Settled, Resource
  <2> HIDE DEF s
  <2> QED
    BY <1>2, <2>1 DEF Tidy, About, Ordered, s
<1> QED
  BY <1>0, <1>1, <1>2

LEMMA RefreshedSound ==
    ASSUME NEW r \in Resource(MaxVersion), NEW k \in Keys, NEW v \in 0..MaxVersion,
           NEW hook \in HookShape, Tidy(r)
    PROVE  LET s == Refreshed(r, k, v, hook)
           IN s \in Resource(MaxVersion) /\ Tidy(s) /\ (About(r, k) => About(s, k))
<1> DEFINE old == {[p EXCEPT !.latest = FALSE] : p \in r.pending}
           new == [about |-> k, since |-> v, latest |-> TRUE]
           s == Issued(r, k, v)
<1>1. old \in SUBSET Request(MaxVersion) /\ \A q \in old : ~q.latest
  <2>1. \A p \in Request(MaxVersion) : /\ [p EXCEPT !.latest = FALSE] \in Request(MaxVersion)
                                      /\ ~[p EXCEPT !.latest = FALSE].latest
    BY DEF Request
  <2> QED
    BY <2>1 DEF Resource
<1>2. /\ s.pending = old \union {new} /\ s.isLoading = r.isLoading /\ s.error = r.error
      /\ s.data = r.data
  BY DEF Issued, Resource
<1>3. s \in Resource(MaxVersion)
  <2>1. new \in Request(MaxVersion)
    BY DEF Request
  <2>2. old \union {new} \in SUBSET Request(MaxVersion)
    BY <1>1, <2>1
  <2> QED
    BY <2>2 DEF Issued, Resource
<1>4. \A q \in s.pending : q.latest => q = new
  BY <1>1, <1>2
<1>5. new.latest /\ new \in s.pending /\ new.about = k
  BY <1>2
<1> HIDE DEF s, new, old
<1>6. Tidy(s)
  BY <1>4, <1>5 DEF Tidy
<1>7. About(r, k) => About(s, k)
  BY <1>2, <1>4, <1>5 DEF About
<1>8. Refreshed(r, k, v, hook) \in {s, r}
  BY DEF Refreshed, s
<1> QED
  BY <1>3, <1>6, <1>7, <1>8

LEMMA DataSetSound ==
    ASSUME NEW r \in Resource(MaxVersion), NEW k \in Keys, NEW at \in 0..MaxVersion, Tidy(r)
    PROVE  LET s == DataSet(r, k, at)
           IN s \in Resource(MaxVersion) /\ Tidy(s) /\ (About(r, k) => About(s, k))
<1> DEFINE s == DataSet(r, k, at)
<1>1. s \in Resource(MaxVersion)
  BY DEF DataSet, Resource, Content
<1>2. /\ s.pending = r.pending /\ s.isLoading = r.isLoading /\ s.error = r.error
      /\ s.data = [of |-> k, at |-> at]
  BY DEF DataSet, Resource
<1>3. s.data.of = k
  BY <1>2
<1> HIDE DEF s
<1> QED
  BY <1>1, <1>2, <1>3 DEF Tidy, About, s

----------------------------------------------------------------------------
(* Lemmas about the hooks and the pages.                                    *)

LEMMA Names ==
    /\ Panels = {"kpis", "allocation", "warnings", "income", "currency", "aggregated",
                 "breakdown", "disposals", "lots", "assets", "figures", "connection", "syncs"}
    /\ Screens = {"dashboard", "node", "disposals", "sale", "merger", "annual",
                  "reportingCurrency", "integrations", "tax"}
  BY DEF Panels, Hook, Screens, PanelsOf

LEMMA Wants ==
    /\ \A p \in {"kpis", "allocation"} : Hook[p].wants = Currencies
    /\ \A p \in {"warnings", "income", "currency", "connection", "syncs"} :
          Hook[p].wants = {Only}
    /\ Hook["aggregated"].wants = Brokers \union Portfolios
    /\ Hook["breakdown"].wants = Brokers
    /\ \A p \in {"disposals", "lots", "assets"} : Hook[p].wants = Assets
    /\ Hook["figures"].wants = Years
  BY DEF Hook, UseDashboardSummary, UseAllocationBreakdown, UseDataQualityReport,
         UseUpcomingIncome, UseReportingCurrency, UseAggregatedSummary, UseBrokerBreakdown,
         UseDisposals, UseOpenLots, UseAssetSearchOptions, UseAnnualSummary,
         UseCalendarConnection, UseCalendarSyncStatuses

LEMMA HookType == \A p \in Panels : Hook[p] \in HookShape
<1> DEFINE hooks == {UseDashboardSummary, UseAllocationBreakdown, UseDataQualityReport,
         UseUpcomingIncome, UseReportingCurrency, UseAggregatedSummary, UseBrokerBreakdown,
         UseDisposals, UseOpenLots, UseAssetSearchOptions, UseAnnualSummary,
         UseCalendarConnection, UseCalendarSyncStatuses}
<1>1. \A h \in hooks : h \in HookShape
  <2>1. {Currencies, {Only}, Brokers, Brokers \union Portfolios, Assets, Years}
          \subseteq SUBSET Keys
    BY WebPagesAssumption
  <2>2. \A w \in SUBSET Keys : \A b \in BOOLEAN : [wants |-> w, keepsData |-> b] \in HookShape
    BY DEF HookShape
  <2> QED
    BY <2>1, <2>2 DEF UseDashboardSummary, UseAllocationBreakdown, UseDataQualityReport,
         UseUpcomingIncome, UseReportingCurrency, UseAggregatedSummary, UseBrokerBreakdown,
         UseDisposals, UseOpenLots, UseAssetSearchOptions, UseAnnualSummary,
         UseCalendarConnection, UseCalendarSyncStatuses
<1>2. \A p \in Panels : Hook[p] \in hooks
  BY Names DEF Hook
<1> QED
  BY <1>1, <1>2

LEMMA OnScreen ==
    ASSUME NEW s \in Screens
    PROVE  PanelsOf[s] \subseteq Panels /\ AtOnce(s) \subseteq Panels
  BY Names DEF PanelsOf, AtOnce, DashboardPanels

LEMMA KeyOfType ==
    ASSUME NEW p \in Panels, NEW k \in Keys \union {None}
    PROVE  KeyOf(p, k) \in Keys \union {None}
  BY WebPagesAssumption DEF KeyOf

\* What is shown as data was loaded without an error.
LEMMA DataView ==
    ASSUME NEW p \in Panels, View(p) = "data", res[p].isLoading \in BOOLEAN,
           res[p].error \in BOOLEAN
    PROVE  ~res[p].isLoading /\ ~res[p].error
  BY Names DEF View, DashboardKpiTiles, AllocationBreakdownPanel, DataQualityWarningsPanel,
     UpcomingIncomePanel, AggregatedSummaryTab, BrokerBreakdownCharts, DisposalsTab,
     LotAllocationPicker, TargetAssetPicker, AnnualSummaryPage, ReportingCurrencyPage,
     IntegrationsPage, LoadingErrorOrData, LoadingOrError

\* What is shown as loading is loading, or is a tile that never had an answer.
LEMMA LoadingView ==
    ASSUME NEW p \in Panels, View(p) = "loading", res[p].isLoading \in BOOLEAN,
           res[p].error \in BOOLEAN
    PROVE  res[p].isLoading \/ (p = "kpis" /\ ~res[p].error /\ res[p].data = None)
  BY Names DEF View, DashboardKpiTiles, AllocationBreakdownPanel, DataQualityWarningsPanel,
     UpcomingIncomePanel, AggregatedSummaryTab, BrokerBreakdownCharts, DisposalsTab,
     LotAllocationPicker, TargetAssetPicker, AnnualSummaryPage, ReportingCurrencyPage,
     IntegrationsPage, LoadingErrorOrData, LoadingOrError

----------------------------------------------------------------------------
(* The inductive invariant. The panels of the page are about its key; the      *)
(* order of versions is kept where nothing is written past the resource.       *)

ResourcesKept ==
    \A p \in Panels :
        /\ Tidy(res[p])
        /\ p \in PanelsOf[screen] => About(res[p], KeyOf(p, key))
        /\ screen \notin Settings => Ordered(res[p], version[p])

\* The tiles of the dashboard are read once there is a currency.
TilesRead ==
    screen = "dashboard" =>
        /\ key \in Currencies \union {None}
        /\ key # None => res["kpis"].isLoading \/ res["kpis"].error \/ res["kpis"].data # None

\* The workbooks under way are few, and those that did not overlap of the selected year.
WorkbooksKept ==
    /\ IsFiniteSet(tax.asked)
    /\ tax.options # "loaded" => tax.selected = NoYear
    /\ tax.selected = NoYear => tax.workbook = NoYear /\ tax.asked = {}
    /\ ~tax.raced =>
          /\ \A q \in tax.asked : q.of = tax.selected
          /\ ~tax.isLoading /\ ~tax.error /\ tax.workbook # NoYear => tax.workbook = tax.selected

WritesKept == writes # {} => screen \in Settings

IInv == TypeOK /\ ResourcesKept /\ TilesRead /\ WritesKept /\ WorkbooksKept

LEMMA PanelType ==
    ASSUME TypeOK, NEW p \in Panels
    PROVE  /\ res[p] \in Resource(MaxVersion) /\ version[p] \in 0..MaxVersion
           /\ KeyOf(p, key) \in Keys \union {None}
           /\ res[p].isLoading \in BOOLEAN /\ res[p].error \in BOOLEAN
<1>1. res[p] \in Resource(MaxVersion) /\ version[p] \in 0..MaxVersion /\ key \in Keys \union {None}
  BY DEF TypeOK
<1> QED
  BY <1>1, KeyOfType DEF Resource

\* What the effects of panels make of the resources.
LEMMA EffectsSound ==
    ASSUME TypeOK, ResourcesKept, NEW ps \in SUBSET Panels, NEW k \in Keys \union {None}
    PROVE  /\ RunEffects(ps, k) \in [Panels -> Resource(MaxVersion)]
           /\ \A p \in Panels :
                 LET e == RunEffects(ps, k)[p]
                 IN /\ Tidy(e)
                    /\ p \in ps => About(e, KeyOf(p, k))
                    /\ p \in ps /\ KeyOf(p, k) \in Hook[p].wants => e.isLoading
                    /\ p \notin ps => (e = Blank /\ p = "breakdown") \/ e = res[p]
                    /\ p = "breakdown" /\ "aggregated" \in ps => p \in ps \/ e = Blank
                    /\ screen \notin Settings => Ordered(e, version[p])
                    /\ Forward(res[p], e)
<1> DEFINE e(p) == RunEffects(ps, k)[p]
<1>1. ASSUME NEW p \in Panels, p \in ps
      PROVE  /\ e(p) \in Resource(MaxVersion)
             /\ Tidy(e(p)) /\ About(e(p), KeyOf(p, k))
             /\ KeyOf(p, k) \in Hook[p].wants => e(p).isLoading
             /\ Ordered(res[p], version[p]) => Ordered(e(p), version[p])
             /\ Forward(res[p], e(p))
  <2>1. e(p) = Effect(res[p], KeyOf(p, k), version[p], Hook[p])
    BY <1>1 DEF RunEffects
  <2>2. /\ res[p] \in Resource(MaxVersion) /\ version[p] \in 0..MaxVersion
        /\ KeyOf(p, k) \in Keys \union {None} /\ Hook[p] \in HookShape
    BY PanelType, KeyOfType, HookType
  <2> QED
    BY <2>1, <2>2, EffectType, EffectSound
<1>2. ASSUME NEW p \in Panels, p \notin ps
      PROVE  /\ (p = "breakdown" /\ "aggregated" \in ps) => e(p) = Blank
             /\ (e(p) = Blank /\ p = "breakdown") \/ e(p) = res[p]
  BY <1>2 DEF RunEffects
<1>3. ASSUME NEW p \in Panels, p \notin ps
      PROVE  /\ e(p) \in Resource(MaxVersion) /\ Tidy(e(p))
             /\ screen \notin Settings => Ordered(e(p), version[p])
             /\ Forward(res[p], e(p))
  <2>1. e(p) = Blank \/ e(p) = res[p]
    BY <1>2, <1>3
  <2>2. Blank.data = None
    BY DEF Blank
  <2>3. Forward(res[p], e(p))
    BY <2>1, <2>2, PanelType, SameForward
  <2> QED
    BY <2>1, <2>3, BlankSound, PanelType DEF ResourcesKept
<1>4. RunEffects(ps, k) = [p \in Panels |-> e(p)]
  BY DEF RunEffects
<1> HIDE DEF e
<1>5. RunEffects(ps, k) \in [Panels -> Resource(MaxVersion)]
  BY <1>1, <1>3, <1>4
<1>6. \A p \in Panels : screen \notin Settings => Ordered(e(p), version[p])
  BY <1>1, <1>3 DEF ResourcesKept
<1> QED
  BY <1>1, <1>2, <1>3, <1>5, <1>6 DEF e

\* A step does not go back where nothing is written past the resource.
NoneGoesBack == screen \notin Settings => \A p \in Panels : Forward(res[p], res'[p])

\* What a step that leaves every resource alone keeps.
LEMMA FrameResources ==
    ASSUME IInv, UNCHANGED <<screen, key, res>>, version' \in [Panels -> 0..MaxVersion],
           \A p \in Panels : version'[p] >= version[p]
    PROVE  ResourcesKept' /\ TilesRead' /\ NoneGoesBack
<1>0. NoneGoesBack
  BY PanelType, SameForward DEF IInv, NoneGoesBack
<1>1. TilesRead'
  BY DEF IInv, TilesRead
<1>2. ASSUME NEW p \in Panels, Ordered(res[p], version[p])
      PROVE  Ordered(res'[p], version'[p])
  <2>1. res[p] \in Resource(MaxVersion) /\ version[p] \in 0..MaxVersion
        /\ version'[p] \in 0..MaxVersion /\ version'[p] >= version[p]
    BY PanelType DEF IInv
  <2>2. res[p].data # None => res[p].data.at \in 0..MaxVersion
    BY <2>1 DEF Resource, Content
  <2> QED
    BY <1>2, <2>1, <2>2, WebPagesAssumption DEF Ordered
<1> QED
  BY <1>0, <1>1, <1>2 DEF IInv, ResourcesKept, KeyOf

LEMMA InitIInv == Init => IInv
<1> SUFFICES ASSUME Init PROVE IInv
  OBVIOUS
<1>1. screen \in Screens /\ key \in Keys \union {None}
  BY WebPagesAssumption DEF Init, FirstKeys
<1>2. version \in [Panels -> 0..MaxVersion] /\ \A p \in Panels : version[p] = 0
  BY WebPagesAssumption DEF Init
<1>3. ASSUME NEW p \in Panels
      PROVE  /\ res[p] \in Resource(MaxVersion) /\ Tidy(res[p])
             /\ p \in PanelsOf[screen] => About(res[p], KeyOf(p, key))
             /\ Ordered(res[p], version[p])
             /\ p \in AtOnce(screen) /\ KeyOf(p, key) \in Hook[p].wants => res[p].isLoading
  <2>1. CASE p \in AtOnce(screen)
    <3>1. res[p] = Effect(Blank, KeyOf(p, key), 0, Hook[p])
      BY <2>1 DEF Init
    <3>2. Hook[p] \in HookShape /\ KeyOf(p, key) \in Keys \union {None} /\ 0 \in 0..MaxVersion
      BY <1>1, HookType, KeyOfType, WebPagesAssumption
    <3>3. Blank \in Resource(MaxVersion) /\ Ordered(Blank, 0)
      BY BlankSound
    <3> QED
      BY <1>2, <3>1, <3>2, <3>3, EffectType, EffectSound
  <2>2. CASE p \notin AtOnce(screen)
    <3>1. res[p] = Blank
      BY <2>2 DEF Init
    <3> QED
      BY <2>2, <3>1, BlankSound
  <2> QED
    BY <2>1, <2>2
<1>4. res \in [Panels -> Resource(MaxVersion)]
  BY <1>3 DEF Init
<1>5. TaxTypeOK /\ WorkbooksKept
  BY FS_EmptySet DEF Init, UseTaxWorkbook, TaxTypeOK, WorkbooksKept
<1>6. TilesRead
  BY DEF Init, TilesRead, FirstKeys
<1>7. TypeOK
  BY <1>1, <1>2, <1>4, <1>5 DEF Init, TypeOK
<1>8. ResourcesKept
  BY <1>3 DEF ResourcesKept
<1> QED
  BY <1>5, <1>6, <1>7, <1>8 DEF IInv, Init, WritesKept

----------------------------------------------------------------------------
(* The steps that read.                                                    *)

\* Panels read again for the key they have.
LEMMA EffectsStep ==
    ASSUME IInv, NEW ps \in SUBSET Panels, res' = RunEffects(ps, key),
           UNCHANGED <<screen, key, version>>
    PROVE  /\ res' \in [Panels -> Resource(MaxVersion)]
           /\ ResourcesKept' /\ TilesRead' /\ NoneGoesBack
<1>1. key \in Keys \union {None}
  BY DEF IInv, TypeOK
<1>2. /\ res' \in [Panels -> Resource(MaxVersion)]
      /\ \A p \in Panels :
            /\ Tidy(res'[p]) /\ Forward(res[p], res'[p])
            /\ p \in ps => About(res'[p], KeyOf(p, key))
            /\ p \in ps /\ KeyOf(p, key) \in Hook[p].wants => res'[p].isLoading
            /\ p \notin ps => (res'[p] = Blank /\ p = "breakdown") \/ res'[p] = res[p]
            /\ screen \notin Settings => Ordered(res'[p], version[p])
  BY <1>1, EffectsSound DEF IInv
<1>3. ResourcesKept'
  <2>1. ASSUME NEW p \in Panels, p \in PanelsOf[screen]
        PROVE  About(res'[p], KeyOf(p, key))
    BY <1>2, <2>1, BlankSound DEF IInv, ResourcesKept
  <2> QED
    BY <1>2, <2>1 DEF ResourcesKept, KeyOf
<1>4. TilesRead'
  <2> SUFFICES ASSUME screen = "dashboard"
               PROVE  /\ key \in Currencies \union {None}
                      /\ key # None => res'["kpis"].isLoading \/ res'["kpis"].error
                                        \/ res'["kpis"].data # None
    BY DEF TilesRead
  <2>1. /\ key \in Currencies \union {None}
        /\ key # None => res["kpis"].isLoading \/ res["kpis"].error \/ res["kpis"].data # None
    BY DEF IInv, TilesRead
  <2>2. KeyOf("kpis", key) = key /\ Hook["kpis"].wants = Currencies
    BY Wants, WebPagesAssumption DEF KeyOf
  <2>3. "kpis" \in Panels
    BY Names
  <2> QED
    BY <1>2, <2>1, <2>2, <2>3
<1>5. NoneGoesBack
  BY <1>2 DEF NoneGoesBack
<1> QED
  BY <1>2, <1>3, <1>4, <1>5

LEMMA ChooseKeyStep ==
    ASSUME IInv, NEW k \in Keys \union {None}, ChooseKey(k)
    PROVE  res' \in [Panels -> Resource(MaxVersion)] /\ ResourcesKept' /\ TilesRead' /\ NoneGoesBack
<1> DEFINE ps == {p \in AtOnce(screen) : Hook[p].wants # {Only}}
<1>0. screen \in Screens /\ UNCHANGED <<screen, version>> /\ key' = k /\ res' = RunEffects(ps, k)
  BY DEF ChooseKey, IInv, TypeOK
<1>1. ps \in SUBSET Panels
  BY <1>0, OnScreen
<1>2. /\ res' \in [Panels -> Resource(MaxVersion)]
      /\ \A p \in Panels :
            /\ Tidy(res'[p]) /\ Forward(res[p], res'[p])
            /\ p \in ps => About(res'[p], KeyOf(p, k))
            /\ p \in ps /\ KeyOf(p, k) \in Hook[p].wants => res'[p].isLoading
            /\ p \notin ps => (res'[p] = Blank /\ p = "breakdown") \/ res'[p] = res[p]
            /\ p = "breakdown" /\ "aggregated" \in ps => p \in ps \/ res'[p] = Blank
            /\ screen \notin Settings => Ordered(res'[p], version[p])
  <2> HIDE DEF ps
  <2> QED
    BY <1>0, <1>1, EffectsSound DEF IInv
<1>3. ASSUME NEW p \in Panels, p \in PanelsOf[screen]
      PROVE  About(res'[p], KeyOf(p, k))
  <2>1. CASE p \in ps
    BY <1>2, <2>1
  <2>2. CASE p = "breakdown" /\ p \notin ps
    <3>1. screen = "node"
      BY <1>0, <1>3, <2>2, Names DEF PanelsOf, DashboardPanels
    <3>2. "aggregated" \in ps
      BY <3>1, Wants, WebPagesAssumption DEF AtOnce, PanelsOf
    <3> QED
      BY <1>2, <2>2, <3>2, BlankSound
  <2>3. CASE p # "breakdown" /\ p \notin ps
    <3>1. Hook[p].wants = {Only}
      BY <1>3, <2>3 DEF AtOnce
    <3>2. res'[p] = res[p]
      BY <1>2, <2>3
    <3> QED
      BY <1>3, <3>1, <3>2 DEF KeyOf, IInv, ResourcesKept
  <2> QED
    BY <2>1, <2>2, <2>3
<1>4. ResourcesKept'
  <2> HIDE DEF ps
  <2> QED
    BY <1>0, <1>2, <1>3 DEF ResourcesKept, KeyOf
<1>5. TilesRead'
  <2> SUFFICES ASSUME screen = "dashboard"
               PROVE  k \in Currencies \union {None} /\ (k # None => res'["kpis"].isLoading)
    BY <1>0 DEF TilesRead
  <2>1. k \in Currencies
    BY DEF ChooseKey, KeysOf
  <2>2. "kpis" \in ps /\ KeyOf("kpis", k) = k /\ Hook["kpis"].wants = Currencies
    BY Wants, WebPagesAssumption DEF AtOnce, PanelsOf, DashboardPanels, KeyOf
  <2> QED
    BY <1>1, <1>2, <2>1, <2>2
<1> QED
  BY <1>2, <1>4, <1>5 DEF NoneGoesBack

LEMMA AnswerStep ==
    ASSUME IInv, NEW p \in Panels, NEW q \in res[p].pending, Answer(p, q)
    PROVE  /\ res' \in [Panels -> Resource(MaxVersion)] /\ key' \in Keys \union {None}
           /\ ResourcesKept' /\ TilesRead' /\ NoneGoesBack
<1> DEFINE mounts == IF key' # key THEN {"kpis", "allocation"}
                     ELSE IF p = "aggregated" /\ q.latest /\ key \in Brokers THEN {"breakdown"}
                     ELSE {}
<1>1. PICK at \in q.since..version[p] :
         res' = [x \in Panels |->
                    IF x = p THEN Succeeded(res[x], q, at)
                    ELSE IF x \in mounts THEN Effect(res[x], key', version[x], Hook[x])
                    ELSE res[x]]
  BY Zenon DEF Answer
<1>2. /\ UNCHANGED <<screen, version>>
      /\ key' = IF screen = "dashboard" /\ p = "currency" THEN Seed ELSE key
      /\ key \in Keys \union {None} /\ key' \in Keys \union {None}
  BY WebPagesAssumption DEF Answer, IInv, TypeOK
<1>3. /\ at \in 0..MaxVersion /\ at <= version[p] /\ at >= q.since
      /\ res[p] \in Resource(MaxVersion) /\ version[p] \in 0..MaxVersion
  <2>1. res[p] \in Resource(MaxVersion) /\ version[p] \in 0..MaxVersion
    BY PanelType DEF IInv
  <2>2. q.since \in 0..MaxVersion
    BY <2>1 DEF Resource, Request
  <2> QED
    BY <2>1, <2>2, WebPagesAssumption
<1>4. mounts \subseteq {"kpis", "allocation", "breakdown"} /\ mounts \subseteq Panels
      /\ (key' # key => screen = "dashboard" /\ p = "currency" /\ key' = Seed)
  BY <1>2, Names
\* The resource that is answered, those that are mounted, and the others.
<1>5. LET s == res'[p]
      IN /\ s \in Resource(MaxVersion) /\ Tidy(s)
         /\ About(res[p], KeyOf(p, key')) => About(s, KeyOf(p, key'))
         /\ Ordered(res[p], version[p]) => Ordered(s, version[p]) /\ Forward(res[p], s)
         /\ (~s.isLoading /\ ~s.error /\ s.data = None)
              => (~res[p].isLoading /\ ~res[p].error /\ res[p].data = None)
  <2>1. res'[p] = Succeeded(res[p], q, at)
    BY <1>1
  <2>2. Tidy(res[p])
    BY DEF IInv, ResourcesKept
  <2> QED
    BY <1>3, <2>1, <2>2, SucceededType, SucceededSound
<1>6. ASSUME NEW x \in mounts, x # p
      PROVE  /\ res'[x] \in Resource(MaxVersion) /\ Tidy(res'[x])
             /\ About(res'[x], KeyOf(x, key')) /\ Forward(res[x], res'[x])
             /\ Ordered(res[x], version[x]) => Ordered(res'[x], version[x])
             /\ key' \in Hook[x].wants => res'[x].isLoading
  <2>1. res'[x] = Effect(res[x], key', version[x], Hook[x])
    BY <1>1, <1>4, <1>6
  <2>2. KeyOf(x, key') = key'
    BY <1>4, <1>6, Wants, WebPagesAssumption DEF KeyOf
  <2>3. res[x] \in Resource(MaxVersion) /\ version[x] \in 0..MaxVersion /\ Hook[x] \in HookShape
    BY <1>4, <1>6, PanelType, HookType DEF IInv
  <2> QED
    BY <1>2, <2>1, <2>2, <2>3, EffectType, EffectSound
<1>7. ASSUME NEW x \in Panels, x # p, x \notin mounts
      PROVE  res'[x] = res[x] /\ Forward(res[x], res'[x])
  <2>1. res'[x] = res[x]
    BY <1>1, <1>7
  <2> QED
    BY <2>1, PanelType, SameForward DEF IInv
<1>8. res' \in [Panels -> Resource(MaxVersion)]
  <2>1. \A x \in Panels : res'[x] \in Resource(MaxVersion)
    BY <1>5, <1>6, <1>7, PanelType DEF IInv
  <2>2. res' = [x \in Panels |-> res'[x]]
    BY <1>1
  <2> QED
    BY <2>1, <2>2
<1> HIDE DEF mounts
<1>9. ASSUME NEW x \in Panels, x \in PanelsOf[screen]
      PROVE  About(res'[x], KeyOf(x, key'))
  <2>1. CASE x \in mounts /\ x # p
    BY <1>6, <2>1
  <2>2. CASE x \notin mounts \/ x = p
    <3>1. About(res[x], KeyOf(x, key))
      BY <1>9 DEF IInv, ResourcesKept
    <3>2. KeyOf(x, key') = KeyOf(x, key)
      <4>1. CASE key' = key
        BY <4>1
      <4>2. CASE key' # key
        <5>1. x \in {"warnings", "income", "currency"}
          BY <1>4, <1>9, <2>2, <4>2 DEF mounts, PanelsOf, DashboardPanels
        <5> QED
          BY <5>1, Wants DEF KeyOf
      <4> QED
        BY <4>1, <4>2
    <3> QED
      BY <1>5, <1>7, <2>2, <3>1, <3>2
  <2> QED
    BY <2>1, <2>2
<1>10. ASSUME NEW x \in Panels
       PROVE  /\ Tidy(res'[x])
              /\ screen \notin Settings => Ordered(res'[x], version[x]) /\ Forward(res[x], res'[x])
  BY <1>5, <1>6, <1>7 DEF IInv, ResourcesKept
<1>11. ResourcesKept'
  BY <1>2, <1>9, <1>10 DEF ResourcesKept, KeyOf
<1>12. TilesRead'
  <2> SUFFICES ASSUME screen = "dashboard"
               PROVE  /\ key' \in Currencies \union {None}
                      /\ key' # None => res'["kpis"].isLoading \/ res'["kpis"].error
                                         \/ res'["kpis"].data # None
    BY <1>2 DEF TilesRead
  <2>1. key' \in Currencies \union {None}
    BY <1>2, WebPagesAssumption DEF IInv, TilesRead
  <2>2. CASE key' # key
    <3>1. "kpis" \in mounts /\ "kpis" # p /\ key' = Seed
      BY <1>4, <2>2 DEF mounts
    <3> QED
      BY <1>6, <2>1, <3>1, Wants, WebPagesAssumption
  <2>3. CASE key' = key /\ key # None
    <3>1. res["kpis"].isLoading \/ res["kpis"].error \/ res["kpis"].data # None
      BY <2>3 DEF IInv, TilesRead
    <3>2. "kpis" \notin mounts /\ "kpis" \in Panels
      BY <2>3, Names DEF mounts
    <3> QED
      BY <1>5, <1>7, <2>1, <3>1, <3>2
  <2> QED
    BY <2>1, <2>2, <2>3
<1>13. NoneGoesBack
  BY <1>10 DEF NoneGoesBack
<1> QED
  BY <1>2, <1>8, <1>11, <1>12, <1>13

LEMMA FailStep ==
    ASSUME IInv, NEW p \in Panels, NEW q \in res[p].pending, Fail(p, q)
    PROVE  /\ res' \in [Panels -> Resource(MaxVersion)]
           /\ ResourcesKept' /\ TilesRead' /\ NoneGoesBack
<1>1. res' = [res EXCEPT ![p] = Failed(@, q)] /\ UNCHANGED <<screen, key, version>>
  BY DEF Fail
<1>2. res \in [Panels -> Resource(MaxVersion)] /\ Tidy(res[p])
  BY DEF IInv, TypeOK, ResourcesKept
<1>3. LET s == res'[p]
      IN /\ s \in Resource(MaxVersion) /\ Tidy(s) /\ s.data = res[p].data
         /\ About(res[p], KeyOf(p, key)) => About(s, KeyOf(p, key))
         /\ Ordered(res[p], version[p]) => Ordered(s, version[p])
         /\ (~s.isLoading /\ ~s.error) => (~res[p].isLoading /\ ~res[p].error)
  BY <1>1, <1>2, FailedType, FailedSound
<1>4. \A x \in Panels : x # p => res'[x] = res[x]
  BY <1>1, <1>2
<1>5. res' \in [Panels -> Resource(MaxVersion)]
  BY <1>1, <1>2, <1>3, FailedType
<1>6. ResourcesKept'
  BY <1>1, <1>3, <1>4 DEF IInv, ResourcesKept, KeyOf
<1>7. TilesRead'
  BY <1>1, <1>3, <1>4, Names DEF IInv, TilesRead
<1>8. NoneGoesBack
  <2>1. \A x \in Panels : res'[x].data = res[x].data
    BY <1>3, <1>4
  <2> QED
    BY <1>2, <2>1, SameForward DEF NoneGoesBack
<1> QED
  BY <1>5, <1>6, <1>7, <1>8

----------------------------------------------------------------------------
(* The steps of the settings pages.                                         *)

\* One resource of a settings page, set past its requests or asked for again.
LEMMA SettingStep ==
    ASSUME IInv, screen \in Settings, NEW p \in Panels, Hook[p].wants = {Only},
           NEW s \in Resource(MaxVersion), res' = [res EXCEPT ![p] = s],
           Tidy(s), About(res[p], Only) => About(s, Only),
           UNCHANGED <<screen, key, version>>
    PROVE  /\ res' \in [Panels -> Resource(MaxVersion)]
           /\ ResourcesKept' /\ TilesRead' /\ NoneGoesBack
<1>1. res \in [Panels -> Resource(MaxVersion)] /\ KeyOf(p, key) = Only
  BY DEF IInv, TypeOK, KeyOf
<1>2. res'[p] = s /\ \A x \in Panels : x # p => res'[x] = res[x]
  BY <1>1
<1>3. ResourcesKept'
  BY <1>1, <1>2 DEF IInv, ResourcesKept, KeyOf
<1>4. TilesRead' /\ NoneGoesBack
  BY DEF TilesRead, NoneGoesBack, Settings
<1> QED
  BY <1>1, <1>3, <1>4

LEMMA SaveAnsweredStep ==
    ASSUME IInv, NEW w \in writes, SaveAnswered(w)
    PROVE  /\ res' \in [Panels -> Resource(MaxVersion)]
           /\ ResourcesKept' /\ TilesRead' /\ NoneGoesBack
<1> DEFINE p == Target(w.kind)
<1>1. screen \in Settings /\ w.at \in 0..MaxVersion /\ Only \in Keys
  BY WebPagesAssumption DEF IInv, TypeOK, WritesKept
<1>2. p \in Panels /\ Hook[p].wants = {Only}
  BY Names, Wants DEF SaveAnswered, Target
<1>3. res' = [res EXCEPT ![p] = DataSet(res[p], Only, w.at)] /\ UNCHANGED <<screen, key, version>>
  BY DEF SaveAnswered
<1> HIDE DEF p
<1>4. res[p] \in Resource(MaxVersion) /\ Tidy(res[p])
  BY <1>2 DEF IInv, TypeOK, ResourcesKept
<1>5. LET s == DataSet(res[p], Only, w.at)
      IN s \in Resource(MaxVersion) /\ Tidy(s) /\ (About(res[p], Only) => About(s, Only))
  BY <1>1, <1>4, DataSetSound
<1> QED
  BY <1>1, <1>2, <1>3, <1>5, SettingStep

LEMMA CheckAnsweredStep ==
    ASSUME IInv, NEW w \in writes, CheckAnswered(w)
    PROVE  /\ res' \in [Panels -> Resource(MaxVersion)]
           /\ ResourcesKept' /\ TilesRead' /\ NoneGoesBack
<1> DEFINE p == "connection"
<1>1. screen \in Settings /\ w.since \in 0..MaxVersion /\ Only \in Keys
  BY WebPagesAssumption DEF IInv, TypeOK, WritesKept
<1>2. p \in Panels /\ Hook[p].wants = {Only}
  BY Names, Wants
<1>3. /\ res[p] \in Resource(MaxVersion) /\ version[p] \in 0..MaxVersion
      /\ Tidy(res[p])
  BY <1>2 DEF IInv, TypeOK, ResourcesKept
<1>4. PICK at \in w.since..version[p] : res' = [res EXCEPT ![p] = DataSet(@, Only, at)]
  BY DEF CheckAnswered
<1>5. /\ at \in 0..MaxVersion
      /\ res' = [res EXCEPT ![p] = DataSet(res[p], Only, at)]
      /\ UNCHANGED <<screen, key, version>>
  <2>1. at \in 0..MaxVersion
    BY <1>1, <1>3, WebPagesAssumption
  <2>2. UNCHANGED <<screen, key, version>>
    BY DEF CheckAnswered
  <2> QED
    BY <1>4, <2>1, <2>2
<1> HIDE DEF p
<1>6. LET s == DataSet(res[p], Only, at)
      IN s \in Resource(MaxVersion) /\ Tidy(s) /\ (About(res[p], Only) => About(s, Only))
  BY <1>1, <1>3, <1>5, DataSetSound
<1> QED
  BY <1>1, <1>2, <1>5, <1>6, SettingStep

LEMMA DisconnectAnsweredStep ==
    ASSUME IInv, NEW w \in writes, DisconnectAnswered(w)
    PROVE  /\ res' \in [Panels -> Resource(MaxVersion)]
           /\ ResourcesKept' /\ TilesRead' /\ NoneGoesBack
<1> DEFINE p == "connection"
           s == Refreshed(res[p], Only, version[p], UseCalendarConnection)
<1>1. screen \in Settings /\ Only \in Keys
  BY WebPagesAssumption DEF IInv, WritesKept
<1>2. p \in Panels /\ Hook[p].wants = {Only}
  BY Names, Wants
<1>3. /\ res[p] \in Resource(MaxVersion) /\ version[p] \in 0..MaxVersion
      /\ Tidy(res[p])
  BY <1>2 DEF IInv, TypeOK, ResourcesKept
<1>4. UseCalendarConnection \in HookShape
  <2>1. Hook[p] = UseCalendarConnection
    BY DEF Hook
  <2> QED
    BY <1>2, <2>1, HookType
<1>5. res' = [res EXCEPT ![p] = s] /\ UNCHANGED <<screen, key, version>>
  BY DEF DisconnectAnswered
<1>6. s \in Resource(MaxVersion) /\ Tidy(s) /\ (About(res[p], Only) => About(s, Only))
  BY <1>1, <1>3, <1>4, RefreshedSound
<1> HIDE DEF p, s
<1> QED
  BY <1>1, <1>2, <1>5, <1>6, SettingStep

\* The steps that send or carry out a write, and those of the page, change no resource.
LEMMA OtherStep ==
    ASSUME IInv,
           \/ OtherChange \/ FilterDisposals \/ SetCurrency \/ SetEnabled \/ ResyncCard
           \/ Disconnect \/ Connect \/ Focus \/ \E w \in writes : CarryOut(w) \/ WriteFailed(w)
    PROVE  /\ res' \in [Panels -> Resource(MaxVersion)] /\ version' \in [Panels -> 0..MaxVersion]
           /\ ResourcesKept' /\ TilesRead' /\ NoneGoesBack
<1>1. /\ res \in [Panels -> Resource(MaxVersion)] /\ version \in [Panels -> 0..MaxVersion]
      /\ \A p \in Panels : version[p] \in 0..MaxVersion
  BY DEF IInv, TypeOK
<1>2. UNCHANGED <<screen, key, res>>
  BY DEF OtherChange, FilterDisposals, SetCurrency, SetEnabled, ResyncCard, Disconnect,
         Connect, Focus, CarryOut, WriteFailed, Others, Send
<1>3. version' \in [Panels -> 0..MaxVersion] /\ \A p \in Panels : version'[p] >= version[p]
  <2>1. CASE OtherChange
    BY <1>1, <2>1, WebPagesAssumption DEF OtherChange
  <2>2. ASSUME NEW w \in writes, CarryOut(w)
        PROVE  version' \in [Panels -> 0..MaxVersion] /\ \A p \in Panels : version'[p] >= version[p]
    <3> DEFINE p == Target(w.kind)
               at == IF w.kind = "disconnect" /\ ~Connected(version[p]) THEN version[p]
                     ELSE version[p] + 1
    <3>1. p \in Panels
      BY Names DEF IInv, TypeOK, Target
    <3>2. at <= MaxVersion /\ version' = [version EXCEPT ![p] = at]
      BY <2>2 DEF CarryOut
    <3>3. at \in 0..MaxVersion /\ at >= version[p]
      BY <1>1, <3>1, <3>2, WebPagesAssumption
    <3> HIDE DEF p, at
    <3> QED
      BY <1>1, <3>1, <3>2, <3>3, WebPagesAssumption
  <2>3. CASE UNCHANGED version
    BY <1>1, <2>3, WebPagesAssumption
  <2> QED
    BY <2>1, <2>2, <2>3 DEF FilterDisposals, SetCurrency, SetEnabled, ResyncCard, Disconnect,
         Connect, Focus, WriteFailed, Send
<1> QED
  BY <1>1, <1>2, <1>3, FrameResources

----------------------------------------------------------------------------
(* The rest of the pages' state.                                            *)

WriteShape == [kind : {"currency", "enabled", "resync", "disconnect", "check"},
               since : 0..MaxVersion, at : 0..MaxVersion]

\* What TypeOK says of the page beside its resources.
RestTypeOK ==
    /\ screen \in Screens /\ key \in Keys \union {None}
    /\ version \in [Panels -> 0..MaxVersion]
    /\ writes \subseteq WriteShape
    /\ {filtered, connecting, saveError} \subseteq BOOLEAN /\ apart \subseteq Panels

LEMMA RestType == TypeOK <=> RestTypeOK /\ res \in [Panels -> Resource(MaxVersion)] /\ TaxTypeOK
  BY DEF TypeOK, RestTypeOK, WriteShape

\* What a step does to the resources and to what the invariant says of them.
ResourcesStep ==
    res' \in [Panels -> Resource(MaxVersion)] /\ ResourcesKept' /\ TilesRead' /\ NoneGoesBack

LEMMA ReadStep ==
    ASSUME IInv, Read
    PROVE  ResourcesStep /\ RestTypeOK' /\ WritesKept'
<1>0. RestTypeOK /\ WritesKept
  BY RestType DEF IInv
<1>1. ASSUME NEW k \in Keys \union {None}, ChooseKey(k)
      PROVE  ResourcesStep /\ RestTypeOK' /\ WritesKept'
  <2>1. ResourcesStep
    BY <1>1, ChooseKeyStep DEF ResourcesStep
  <2> QED
    BY <1>0, <1>1, <2>1 DEF ChooseKey, RestTypeOK, WritesKept
<1>2. ASSUME NEW p \in Panels, Retry(p)
      PROVE  ResourcesStep /\ RestTypeOK' /\ WritesKept'
  <2>1. {p} \in SUBSET Panels /\ res' = RunEffects({p}, key) /\ UNCHANGED <<screen, key, version>>
    BY <1>2 DEF Retry
  <2>2. ResourcesStep
    BY <2>1, EffectsStep DEF ResourcesStep
  <2> QED
    BY <1>0, <1>2, <2>2 DEF Retry, RestTypeOK, WritesKept
<1>3. ASSUME NEW p \in Panels, NEW q \in res[p].pending, Answer(p, q)
      PROVE  ResourcesStep /\ RestTypeOK' /\ WritesKept'
  <2>1. ResourcesStep /\ key' \in Keys \union {None}
    BY <1>3, AnswerStep DEF ResourcesStep
  <2> QED
    BY <1>0, <1>3, <2>1 DEF Answer, Others, RestTypeOK, WritesKept
<1>4. ASSUME NEW p \in Panels, NEW q \in res[p].pending, Fail(p, q)
      PROVE  ResourcesStep /\ RestTypeOK' /\ WritesKept'
  <2>1. ResourcesStep
    BY <1>4, FailStep DEF ResourcesStep
  <2> QED
    BY <1>0, <1>4, <2>1 DEF Fail, Others, RestTypeOK, WritesKept
<1>5. CASE RetryAll
  <2>1. DashboardPanels \in SUBSET Panels
    BY Names DEF DashboardPanels
  <2>2. res' = RunEffects(DashboardPanels, key) /\ UNCHANGED <<screen, key, version>>
    BY <1>5 DEF RetryAll
  <2>3. ResourcesStep
    BY <2>1, <2>2, EffectsStep DEF ResourcesStep
  <2> QED
    BY <1>0, <1>5, <2>3 DEF RetryAll, Others, RestTypeOK, WritesKept
<1>6. CASE OtherChange \/ FilterDisposals
  <2>1. ResourcesStep /\ version' \in [Panels -> 0..MaxVersion]
    BY <1>6, OtherStep DEF ResourcesStep
  <2>2. PanelsOf[screen] \subseteq Panels
    BY <1>0, OnScreen DEF RestTypeOK
  <2> QED
    BY <1>0, <1>6, <2>1, <2>2 DEF OtherChange, FilterDisposals, Others, RestTypeOK, WritesKept
<1> QED
  BY <1>1, <1>2, <1>3, <1>4, <1>5, <1>6 DEF Read

LEMMA SendStep ==
    ASSUME RestTypeOK, NEW kind \in {"currency", "enabled", "resync", "disconnect", "check"},
           screen \in Settings, Send(kind), UNCHANGED connecting
    PROVE  RestTypeOK' /\ WritesKept'
<1>1. Target(kind) \in Panels
  BY Names DEF Target
<1>2. Write(kind) \in WriteShape
  BY <1>1, WebPagesAssumption DEF Write, WriteShape, RestTypeOK
<1>3. writes' \subseteq WriteShape
  BY <1>2 DEF Send, RestTypeOK
<1>4. apart' \subseteq Panels /\ saveError' \in BOOLEAN
  BY <1>1 DEF Send, RestTypeOK
<1> QED
  BY <1>3, <1>4 DEF Send, RestTypeOK, WritesKept

LEMMA SettingsNextStep ==
    ASSUME IInv, SettingsNext
    PROVE  ResourcesStep /\ RestTypeOK' /\ WritesKept'
<1>0. RestTypeOK /\ WritesKept
  BY RestType DEF IInv
<1>1. CASE SetCurrency \/ SetEnabled \/ ResyncCard \/ Disconnect \/ Focus
  <2>1. ResourcesStep
    BY <1>1, OtherStep DEF ResourcesStep
  <2>2. screen \in Settings /\ UNCHANGED connecting
    BY <1>1 DEF SetCurrency, SetEnabled, ResyncCard, Disconnect, Focus, Settings
  <2>3. \E kind \in {"currency", "enabled", "resync", "disconnect", "check"} : Send(kind)
    BY <1>1 DEF SetCurrency, SetEnabled, ResyncCard, Disconnect, Focus
  <2> QED
    BY <1>0, <2>1, <2>2, <2>3, SendStep
<1>2. CASE Connect
  <2>1. ResourcesStep
    BY <1>2, OtherStep DEF ResourcesStep
  <2> QED
    BY <1>0, <1>2, <2>1 DEF Connect, RestTypeOK, WritesKept
<1>3. ASSUME NEW w \in writes
      PROVE  /\ w \in WriteShape /\ Target(w.kind) \in Panels /\ screen \in Settings
             /\ writes \ {w} \subseteq WriteShape
  BY <1>0, Names DEF RestTypeOK, WritesKept, WriteShape, Target
<1>4. ASSUME NEW w \in writes, CarryOut(w)
      PROVE  ResourcesStep /\ RestTypeOK' /\ WritesKept'
  <2>1. ResourcesStep /\ version' \in [Panels -> 0..MaxVersion]
    BY <1>4, OtherStep DEF ResourcesStep
  <2>2. PICK at : writes' = (writes \ {w}) \union {[w EXCEPT !.at = at]} /\ at <= MaxVersion
                    /\ version' = [version EXCEPT ![Target(w.kind)] = at]
    BY <1>4 DEF CarryOut
  <2>3. at \in 0..MaxVersion
    BY <1>0, <1>3, <2>1, <2>2 DEF RestTypeOK
  <2>4. writes' \subseteq WriteShape
    <3>1. [w EXCEPT !.at = at] \in WriteShape
      BY <1>3, <2>3 DEF WriteShape
    <3> QED
      BY <1>3, <2>2, <3>1
  <2>5. UNCHANGED <<screen, key, res, filtered, connecting, saveError, apart>>
    BY <1>4 DEF CarryOut
  <2> QED
    BY <1>0, <1>3, <2>1, <2>4, <2>5 DEF RestTypeOK, WritesKept
<1>5. ASSUME NEW w \in writes, SaveAnswered(w) \/ DisconnectAnswered(w)
      PROVE  ResourcesStep /\ RestTypeOK' /\ WritesKept'
  <2>1. ResourcesStep
    BY <1>5, SaveAnsweredStep, DisconnectAnsweredStep DEF ResourcesStep
  <2>2. /\ writes' = writes \ {w}
        /\ UNCHANGED <<screen, key, filtered, version, connecting, saveError, apart>>
    BY <1>5 DEF SaveAnswered, DisconnectAnswered
  <2> QED
    BY <1>0, <1>3, <2>1, <2>2 DEF RestTypeOK, WritesKept
<1>6. ASSUME NEW w \in writes, CheckAnswered(w)
      PROVE  ResourcesStep /\ RestTypeOK' /\ WritesKept'
  <2>1. ResourcesStep
    BY <1>6, CheckAnsweredStep DEF ResourcesStep
  <2>2. /\ writes' = writes \ {w} /\ UNCHANGED <<screen, key, filtered, version, saveError>>
        /\ apart' \subseteq apart \union {"connection"} /\ connecting' \in {connecting, FALSE}
    BY <1>6 DEF CheckAnswered
  <2> QED
    BY <1>0, <1>3, <2>1, <2>2, Names DEF RestTypeOK, WritesKept
<1>7. ASSUME NEW w \in writes, WriteFailed(w)
      PROVE  ResourcesStep /\ RestTypeOK' /\ WritesKept'
  <2>1. ResourcesStep
    BY <1>7, OtherStep DEF ResourcesStep
  <2>2. /\ writes' = writes \ {w} /\ UNCHANGED <<screen, key, res, filtered, version, connecting>>
        /\ apart' \subseteq apart \union {Target(w.kind)} /\ saveError' \in BOOLEAN
    BY <1>7 DEF WriteFailed
  <2> QED
    BY <1>0, <1>3, <2>1, <2>2 DEF RestTypeOK, WritesKept
<1> QED
  BY <1>1, <1>2, <1>4, <1>5, <1>6, <1>7 DEF SettingsNext

----------------------------------------------------------------------------
(* The tax page.                                                           *)

\* A request can have a number no other one has, when there are fewer than the numbers.
LEMMA FreeNumber ==
    ASSUME NEW N \in Nat, NEW asked, IsFiniteSet(asked), Cardinality(asked) < N
    PROVE  \E m \in 1..N : \A q \in asked : q.n # m
<1> SUFFICES ASSUME \A m \in 1..N : \E q \in asked : q.n = m
             PROVE  FALSE
  OBVIOUS
<1> DEFINE f == [m \in 1..N |-> CHOOSE q \in asked : q.n = m]
<1>1. \A m \in 1..N : f[m] \in asked /\ f[m].n = m
  OBVIOUS
<1>2. f \in [1..N -> asked]
  BY <1>1
<1>3. IsFiniteSet(1..N) /\ Cardinality(asked) < Cardinality(1..N)
  BY FS_Interval
<1> HIDE DEF f
<1>4. \E x, y \in 1..N : x # y /\ f[x] = f[y]
  BY <1>2, <1>3, FS_PigeonHole
<1> QED
  BY <1>1, <1>4

\* The effect of the selection of a tax year, or of none where none was selected.
LEMMA FetchStep ==
    ASSUME TaxTypeOK, WorkbooksKept, CanAsk(tax), NEW y \in TaxYears \union {NoYear},
           y = NoYear => tax.selected = NoYear,
           tax' = [WorkbookFetchStarted(tax, y) EXCEPT !.options = "loaded"]
    PROVE  TaxTypeOK' /\ WorkbooksKept'
<1>1. CASE y = NoYear
  <2>1. tax' = [tax EXCEPT !.selected = NoYear, !.options = "loaded"]
    BY <1>1 DEF WorkbookFetchStarted, TaxTypeOK
  <2> QED
    BY <1>1, <2>1 DEF TaxTypeOK, WorkbooksKept
<1>2. CASE y # NoYear
  <2> DEFINE n == CHOOSE m \in 1..MaxWorkbooks : \A q \in tax.asked : q.n # m
             new == [n |-> n, of |-> y]
  <2>1. n \in 1..MaxWorkbooks
    <3>1. \E m \in 1..MaxWorkbooks : \A q \in tax.asked : q.n # m
      BY FreeNumber, TaxAssumption DEF CanAsk, WorkbooksKept
    <3> QED
      BY <3>1
  <2>2. tax' = [tax EXCEPT !.selected = y, !.isLoading = TRUE, !.error = FALSE,
                           !.raced = (tax.asked # {}), !.asked = tax.asked \union {new},
                           !.options = "loaded"]
    BY <1>2 DEF WorkbookFetchStarted, TaxTypeOK
  <2> HIDE DEF n
  <2>3. new \in [n : 1..MaxWorkbooks, of : TaxYears] /\ y \in TaxYears /\ new.of = y
    BY <1>2, <2>1
  <2> HIDE DEF new
  <2>4. TaxTypeOK'
    <3> DEFINE all == tax.asked \union {new}
               raced == tax.asked # {}
    <3>1. all \in SUBSET [n : 1..MaxWorkbooks, of : TaxYears] /\ raced \in BOOLEAN
      BY <2>3 DEF TaxTypeOK
    <3>2. tax' = [tax EXCEPT !.selected = y, !.isLoading = TRUE, !.error = FALSE,
                             !.raced = raced, !.asked = all, !.options = "loaded"]
      BY <2>2
    <3> HIDE DEF all, raced
    <3> QED
      BY <3>1, <3>2 DEF TaxTypeOK
  <2>5. /\ tax'.selected = y /\ tax'.isLoading /\ tax'.asked = tax.asked \union {new}
        /\ tax'.raced = (tax.asked # {}) /\ tax'.options = "loaded"
    BY <2>2 DEF TaxTypeOK
  <2>6. IsFiniteSet(tax.asked \union {new})
    BY FS_AddElement DEF WorkbooksKept
  <2> QED
    BY <1>2, <2>3, <2>4, <2>5, <2>6 DEF WorkbooksKept
<1> QED
  BY <1>1, <1>2

LEMMA TaxStep ==
    ASSUME TaxTypeOK, WorkbooksKept, TaxNext
    PROVE  TaxTypeOK' /\ WorkbooksKept'
<1>1. CASE OptionsAnswered
  <2>1. CASE tax' = [tax EXCEPT !.options = "error"]
    BY <1>1, <2>1 DEF OptionsAnswered, TaxTypeOK, WorkbooksKept
  <2>2. ASSUME CanAsk(tax), NEW first \in TaxYears \union {NoYear},
               tax' = [(IF first = tax.selected THEN tax ELSE WorkbookFetchStarted(tax, first))
                         EXCEPT !.options = "loaded"]
        PROVE  TaxTypeOK' /\ WorkbooksKept'
    <3>0. tax.selected = NoYear
      BY <1>1 DEF OptionsAnswered, WorkbooksKept
    <3>1. CASE first = tax.selected
      BY <2>2, <3>1 DEF TaxTypeOK, WorkbooksKept
    <3>2. CASE first # tax.selected
      <4>1. tax' = [WorkbookFetchStarted(tax, first) EXCEPT !.options = "loaded"]
        BY <2>2, <3>2
      <4> QED
        BY <2>2, <3>0, <4>1, FetchStep
    <3> QED
      BY <3>1, <3>2
  <2> QED
    BY <1>1, <2>1, <2>2 DEF OptionsAnswered
<1>2. CASE RetryOptions
  BY <1>2 DEF RetryOptions, TaxTypeOK, WorkbooksKept
<1>3. ASSUME NEW y \in TaxYears, tax.options = "loaded", CanAsk(tax),
             tax' = WorkbookFetchStarted(tax, y)
      PROVE  TaxTypeOK' /\ WorkbooksKept'
  <2>1. WorkbookFetchStarted(tax, y) = [WorkbookFetchStarted(tax, y) EXCEPT !.options = "loaded"]
    BY <1>3 DEF WorkbookFetchStarted, TaxTypeOK
  <2> QED
    BY <1>3, <2>1, TaxAssumption, FetchStep
<1>4. CASE RetryWorkbook
  <2>1. tax.options = "loaded" /\ tax.selected \in TaxYears
    <3>1. tax.options = "loaded" /\ TaxView = "error"
      BY <1>4 DEF RetryWorkbook
    <3>2. tax.selected # NoYear
      BY <3>1 DEF TaxView
    <3> QED
      BY <3>1, <3>2 DEF TaxTypeOK
  <2> QED
    BY <1>3, <1>4, <2>1 DEF RetryWorkbook
<1>5. ASSUME NEW y \in TaxYears, SelectYear(y)
      PROVE  TaxTypeOK' /\ WorkbooksKept'
  BY <1>3, <1>5 DEF SelectYear
<1>6. ASSUME NEW q \in tax.asked, WorkbookAnswered(q)
      PROVE  TaxTypeOK' /\ WorkbooksKept'
  <2>1. q.of \in TaxYears /\ IsFiniteSet(tax.asked \ {q})
    BY FS_RemoveElement DEF TaxTypeOK, WorkbooksKept
  <2>2. /\ tax'.selected = tax.selected /\ tax'.options = tax.options
        /\ tax'.asked = tax.asked \ {q} /\ tax'.raced = tax.raced
        /\ tax'.workbook = q.of \/ (tax'.workbook = NoYear /\ tax'.error)
    BY <1>6 DEF WorkbookAnswered, TaxTypeOK
  <2>3. TaxTypeOK'
    <3> DEFINE rest == tax.asked \ {q}
    <3>1. rest \in SUBSET [n : 1..MaxWorkbooks, of : TaxYears]
      BY DEF TaxTypeOK
    <3>2. \/ tax' = [tax EXCEPT !.isLoading = FALSE, !.workbook = q.of, !.asked = rest]
          \/ tax' = [tax EXCEPT !.isLoading = FALSE, !.workbook = NoYear, !.error = TRUE,
                                !.asked = rest]
      BY <1>6 DEF WorkbookAnswered, TaxTypeOK
    <3> HIDE DEF rest
    <3> QED
      BY <2>1, <3>1, <3>2 DEF TaxTypeOK
  <2> QED
    BY <2>1, <2>2, <2>3 DEF WorkbooksKept
<1> QED
  BY <1>1, <1>2, <1>4, <1>5, <1>6 DEF TaxNext

----------------------------------------------------------------------------
(* The theorems.                                                           *)

LEMMA IInvStep == IInv /\ [Next]_vars => IInv' /\ NoneGoesBack
<1> SUFFICES ASSUME IInv, [Next]_vars PROVE IInv' /\ NoneGoesBack
  OBVIOUS
<1>0. RestTypeOK /\ res \in [Panels -> Resource(MaxVersion)] /\ TaxTypeOK /\ WritesKept
  BY RestType DEF IInv
<1>1. CASE (Read \/ SettingsNext) /\ UNCHANGED tax
  <2>1. ResourcesStep /\ RestTypeOK' /\ WritesKept'
    BY <1>1, ReadStep, SettingsNextStep
  <2>2. TaxTypeOK' /\ WorkbooksKept'
    BY <1>0, <1>1 DEF IInv, TaxTypeOK, WorkbooksKept
  <2>3. TypeOK'
    BY <2>1, <2>2 DEF ResourcesStep, TypeOK, RestTypeOK, WriteShape
  <2> QED
    BY <2>1, <2>2, <2>3 DEF IInv, ResourcesStep
<1>2. CASE UNCHANGED pageVars /\ (TaxNext \/ UNCHANGED tax)
  <2>1. TaxTypeOK' /\ WorkbooksKept'
    <3>1. CASE TaxNext
      BY <1>0, <3>1, TaxStep DEF IInv
    <3>2. CASE UNCHANGED tax
      BY <1>0, <3>2 DEF IInv, TaxTypeOK, WorkbooksKept
    <3> QED
      BY <1>2, <3>1, <3>2
  <2>2. ResourcesKept' /\ TilesRead' /\ NoneGoesBack
    <3>1. UNCHANGED <<screen, key, res>> /\ version' = version
      BY <1>2 DEF pageVars
    <3>2. version' \in [Panels -> 0..MaxVersion] /\ \A p \in Panels : version'[p] >= version[p]
      BY <1>0, <3>1, WebPagesAssumption DEF RestTypeOK
    <3> QED
      BY <3>1, <3>2, FrameResources
  <2>3. TypeOK' /\ WritesKept'
    BY <1>0, <1>2, <2>1 DEF pageVars, RestTypeOK, WriteShape, TypeOK, WritesKept
  <2> QED
    BY <2>1, <2>2, <2>3 DEF IInv
<1> QED
  BY <1>1, <1>2 DEF Next, vars

LEMMA Invariance == Spec => []IInv
  BY InitIInv, IInvStep, PTL DEF Spec

\* Every resource, every request under way and every page keeps its shape.
THEOREM TypeCorrect == Spec => []TypeOK
<1>1. IInv => TypeOK
  BY DEF IInv
<1> QED
  BY <1>1, Invariance, PTL

\* What a panel shows is what its page asked for last, whichever of its answers came
\* first.
THEOREM OnlyTheLatestIsShown == Spec => []ShownIsAsked
<1>1. IInv => ShownIsAsked
  <2> SUFFICES ASSUME IInv, NEW p \in Panels, Shown(p)
               PROVE  res[p].data.of = KeyOf(p, key)
    BY DEF ShownIsAsked
  <2>1. ~res[p].isLoading /\ ~res[p].error
    BY PanelType, DataView DEF IInv, Shown
  <2> QED
    BY <2>1 DEF IInv, ResourcesKept, About, Shown
<1> QED
  BY <1>1, Invariance, PTL

\* A panel that is loading has an answer to wait for, also when its page's key changed
\* or its requests were superseded.
THEOREM PanelsAreAnswered == Spec => []LoadingIsAnswered
<1>1. IInv => LoadingIsAnswered
  <2> SUFFICES ASSUME IInv, NEW p \in PanelsOf[screen], View(p) = "loading",
                      ~(screen = "dashboard" /\ key = None)
               PROVE  res[p].pending # {}
    BY DEF LoadingIsAnswered
  <2>1. p \in Panels
    BY OnScreen DEF IInv, TypeOK
  <2>2. CASE res[p].isLoading
    BY <2>1, <2>2 DEF IInv, ResourcesKept, Tidy
  <2>3. CASE ~res[p].isLoading
    <3>1. p = "kpis" /\ ~res[p].error /\ res[p].data = None
      BY <2>1, <2>3, PanelType, LoadingView DEF IInv
    <3>2. screen = "dashboard"
      BY <3>1, Names DEF PanelsOf, DashboardPanels, IInv, TypeOK
    <3> QED
      BY <2>3, <3>1, <3>2 DEF IInv, TilesRead
  <2> QED
    BY <2>2, <2>3
<1> QED
  BY <1>1, Invariance, PTL

\* The workbook that is shown is of the tax year that is selected, unless two of the
\* page's requests overlapped.
THEOREM WorkbookIsOfSelection == Spec => []WorkbookIsOfSelectionUnlessRaced
<1>1. IInv => WorkbookIsOfSelectionUnlessRaced
  BY DEF IInv, WorkbooksKept, WorkbookIsOfSelectionUnlessRaced, TaxView, TypeOK, TaxTypeOK
<1> QED
  BY <1>1, Invariance, PTL

\* A panel that only reads never shows older data after newer.
THEOREM VersionsOnlyGrow == Spec => NeverGoesBack
<1>1. NoneGoesBack =>
         \A p \in Panels :
            (screen \notin Settings /\ res[p].data # None /\ res'[p].data # None
               /\ res'[p].data.of = res[p].data.of)
              => res'[p].data.at >= res[p].data.at
  BY DEF NoneGoesBack, Forward
<1> QED
  BY <1>1, InitIInv, IInvStep, PTL DEF Spec, NeverGoesBack
----------------------------------------------------------------------------
(* What a settings page has, which is written past its resources.            *)

WritesTo(p) == {w \in writes : Target(w.kind) = p}

\* As long as a panel's requests do not overlap, one of them at most is under way, and it
\* will bring, or has made, the server's version.
OneUnderWay(p) ==
    /\ \A q \in res[p].pending : q.latest /\ q.since = version[p] /\ WritesTo(p) = {}
    /\ \A w \in WritesTo(p) : WritesTo(p) = {w}
    /\ \A w \in WritesTo(p) :
          /\ w.at > 0 => w.at = version[p]
          /\ w.kind = "check" => w.at = 0 /\ w.since = version[p]

\* With nothing under way that brings another version, or has made one, the panel has
\* the server's.
UpToDate(p) ==
    (/\ res[p].pending = {} /\ ~res[p].isLoading /\ ~res[p].error
     /\ \A w \in WritesTo(p) : w.at = 0)
      => res[p].data.at = version[p]

SettingKept(p) ==
    /\ ~res[p].isLoading /\ ~res[p].error => res[p].data # None
    /\ p \notin apart => OneUnderWay(p) /\ UpToDate(p)

SettingsKept == screen \in Settings => \A p \in PanelsOf[screen] : SettingKept(p)

LEMMA SettingPanels ==
    ASSUME screen \in Settings, NEW p \in PanelsOf[screen]
    PROVE  /\ p \in Panels /\ p \in {"currency", "connection", "syncs"} /\ p # "breakdown"
           /\ Hook[p].wants = {Only} /\ Hook[p].keepsData /\ \A k : KeyOf(p, k) = Only
<1>1. p \in {"currency", "connection", "syncs"}
  BY DEF Settings, PanelsOf
<1>2. p \in Panels /\ Hook[p].wants = {Only}
  BY <1>1, Names, Wants
<1>3. Hook[p].keepsData
  BY <1>1 DEF Hook, UseReportingCurrency, UseCalendarConnection, UseCalendarSyncStatuses
<1> QED
  BY <1>1, <1>2, <1>3 DEF KeyOf

\* A step that leaves the other panels alone.
LEMMA OnePanel ==
    ASSUME SettingsKept, UNCHANGED screen, NEW t,
           \A p \in Panels \ {t} :
              /\ res'[p] = res[p] /\ version'[p] = version[p]
              /\ WritesTo(p)' = WritesTo(p) /\ (p \in apart => p \in apart'),
           screen \in Settings /\ t \in PanelsOf[screen] => SettingKept(t)'
    PROVE  SettingsKept'
<1> SUFFICES ASSUME screen \in Settings, NEW p \in PanelsOf[screen], p # t
             PROVE  SettingKept(p)'
  BY DEF SettingsKept
<1>1. /\ SettingKept(p)
      /\ res'[p] = res[p] /\ version'[p] = version[p]
      /\ WritesTo(p)' = WritesTo(p) /\ (p \in apart => p \in apart')
  BY SettingPanels DEF SettingsKept
<1>2. OneUnderWay(p) => OneUnderWay(p)'
  BY <1>1 DEF OneUnderWay
<1>3. UpToDate(p) => UpToDate(p)'
  BY <1>1 DEF UpToDate
<1> QED
  BY <1>1, <1>2, <1>3 DEF SettingKept

LEMMA InitSettings == Init => SettingsKept
<1> SUFFICES ASSUME Init, screen \in Settings, NEW p \in PanelsOf[screen]
             PROVE  SettingKept(p)
  BY DEF SettingsKept
<1> DEFINE new == [about |-> Only, since |-> 0, latest |-> TRUE]
<1>1. res[p] = Effect(Blank, Only, 0, Hook[p]) /\ version[p] = 0
  BY SettingPanels DEF Init, AtOnce
<1>2. res[p].pending = {new} /\ res[p].isLoading = TRUE
  BY <1>1, SettingPanels DEF Effect, FetchStarted, Issued, Blank
<1>3. WritesTo(p) = {}
  BY DEF Init, WritesTo
<1>4. new.latest /\ new.since = 0
  OBVIOUS
<1> HIDE DEF new
<1> QED
  BY <1>1, <1>2, <1>3, <1>4 DEF SettingKept, OneUnderWay, UpToDate

\* Without an overlap a request is under way alone.
LEMMA RequestAlone ==
    ASSUME IInv, NEW p \in Panels, OneUnderWay(p), NEW q \in res[p].pending
    PROVE  /\ res[p].pending = {q} /\ q.latest /\ q.since = version[p] /\ WritesTo(p) = {}
  BY DEF OneUnderWay, IInv, ResourcesKept, Tidy

LEMMA WriteAlone ==
    ASSUME NEW p, OneUnderWay(p), NEW w \in WritesTo(p)
    PROVE  /\ res[p].pending = {} /\ WritesTo(p) = {w}
           /\ w.at > 0 => w.at = version[p]
           /\ w.kind = "check" => w.at = 0 /\ w.since = version[p]
  BY DEF OneUnderWay

LEMMA RetrySettings ==
    ASSUME IInv, SettingsKept, NEW t \in Panels, Retry(t)
    PROVE  SettingsKept'
<1>1. /\ UNCHANGED <<screen, key, version, writes>> /\ res' = RunEffects({t}, key)
      /\ t \in PanelsOf[screen]
      /\ apart' = IF Busy(t) THEN apart \union {t} ELSE apart \ {t}
  BY DEF Retry
<1>2. \A p \in Panels : WritesTo(p)' = WritesTo(p)
  BY <1>1 DEF WritesTo
<1> SUFFICES ASSUME screen \in Settings PROVE SettingsKept'
  BY <1>1 DEF SettingsKept
<1>3. \A p \in Panels \ {t} : p # "breakdown" => res'[p] = res[p]
  BY <1>1 DEF RunEffects
<1>4. "aggregated" # t /\ t # "breakdown" /\ KeyOf(t, key) = Only
  BY <1>1, SettingPanels
<1>5. \A p \in Panels \ {t} : res'[p] = res[p]
  BY <1>1, <1>4 DEF RunEffects
<1> DEFINE new == [about |-> Only, since |-> version[t], latest |-> TRUE]
<1>6. res[t] \in Resource(MaxVersion)
  BY PanelType DEF IInv
<1>7. /\ res'[t].isLoading = TRUE
      /\ res'[t].pending = {[o EXCEPT !.latest = FALSE] : o \in res[t].pending} \union {new}
  <2>1. res'[t] = Effect(res[t], Only, version[t], Hook[t])
    BY <1>1, <1>4 DEF RunEffects
  <2> QED
    BY <1>1, <1>6, <2>1, SettingPanels DEF Effect, FetchStarted, Issued, Resource
<1>8. ASSUME ~Busy(t)
      PROVE  OneUnderWay(t)'
  <2>1. res'[t].pending = {new} /\ WritesTo(t)' = {}
    BY <1>2, <1>7, <1>8 DEF Busy, WritesTo
  <2>2. new.latest /\ new.since = version'[t]
    BY <1>1
  <2> HIDE DEF new
  <2> QED
    BY <2>1, <2>2 DEF OneUnderWay
<1>9. SettingKept(t)'
  BY <1>1, <1>7, <1>8 DEF SettingKept, UpToDate
<1> QED
  BY <1>1, <1>2, <1>5, <1>9, OnePanel

LEMMA AnswerSettings ==
    ASSUME IInv, SettingsKept, NEW t \in Panels, NEW q \in res[t].pending, Answer(t, q)
    PROVE  SettingsKept'
<1>1. UNCHANGED <<screen, version, apart, writes>>
  BY DEF Answer, Others
<1>2. \A p \in Panels : WritesTo(p)' = WritesTo(p)
  BY <1>1 DEF WritesTo
<1> SUFFICES ASSUME screen \in Settings, NEW p \in PanelsOf[screen] PROVE SettingKept(p)'
  BY <1>1 DEF SettingsKept
<1> DEFINE mounts == IF key' # key THEN {"kpis", "allocation"}
                     ELSE IF t = "aggregated" /\ q.latest /\ key \in Brokers THEN {"breakdown"}
                     ELSE {}
<1>3. PICK at \in q.since..version[t] :
         res' = [x \in Panels |->
                    IF x = t THEN Succeeded(res[x], q, at)
                    ELSE IF x \in mounts THEN Effect(res[x], key', version[x], Hook[x])
                    ELSE res[x]]
  BY Zenon DEF Answer
<1>4. p \in Panels /\ p \notin mounts /\ SettingKept(p)
  BY SettingPanels DEF SettingsKept
<1>5. /\ res[t] \in Resource(MaxVersion) /\ version[t] \in 0..MaxVersion
      /\ q \in Request(MaxVersion) /\ q.since \in 0..MaxVersion /\ at \in 0..MaxVersion
  <2>1. res[t] \in Resource(MaxVersion) /\ version[t] \in 0..MaxVersion
    BY PanelType DEF IInv
  <2>2. q \in Request(MaxVersion) /\ q.since \in 0..MaxVersion
    BY <2>1 DEF Resource, Request
  <2> QED
    BY <2>1, <2>2, WebPagesAssumption
<1>6. CASE p # t
  <2>1. res'[p] = res[p]
    BY <1>3, <1>4, <1>6
  <2>2. OneUnderWay(p) => OneUnderWay(p)'
    BY <1>1, <1>2, <1>4, <2>1 DEF OneUnderWay
  <2>3. UpToDate(p) => UpToDate(p)'
    BY <1>1, <1>2, <1>4, <2>1 DEF UpToDate
  <2> QED
    BY <1>1, <1>4, <2>1, <2>2, <2>3 DEF SettingKept
<1>7. CASE p = t
  <2>1. res'[t] = Succeeded(res[t], q, at)
    BY <1>3
  <2>2. /\ res'[t].pending = res[t].pending \ {q}
        /\ q.latest => res'[t].data.at = at /\ res'[t].data # None
        /\ ~q.latest => /\ res'[t].data = res[t].data /\ res'[t].isLoading = res[t].isLoading
                        /\ res'[t].error = res[t].error
    <3>1. [of |-> q.about, at |-> at] # None /\ [of |-> q.about, at |-> at].at = at
      BY <1>5, NoData DEF Content, Request
    <3> QED
      BY <1>5, <2>1, <3>1 DEF Succeeded, Settled, Resource
  <2>3. ASSUME p \notin apart'
        PROVE  OneUnderWay(p)' /\ UpToDate(p)'
    <3>1. OneUnderWay(p)
      BY <1>1, <1>4, <2>3 DEF SettingKept
    <3>2. res[p].pending = {q} /\ q.latest /\ q.since = version[p] /\ WritesTo(p) = {}
      BY <1>4, <1>7, <3>1, RequestAlone
    <3>3. res'[p].pending = {} /\ WritesTo(p)' = {} /\ res'[p].data.at = version'[p]
      BY <1>1, <1>2, <1>3, <1>4, <1>5, <1>7, <2>2, <3>2
    <3> QED
      BY <3>3 DEF OneUnderWay, UpToDate
  <2>4. ~res'[p].isLoading /\ ~res'[p].error => res'[p].data # None
    BY <1>4, <1>7, <2>2 DEF SettingKept
  <2> QED
    BY <2>3, <2>4 DEF SettingKept
<1> QED
  BY <1>6, <1>7

LEMMA FailSettings ==
    ASSUME IInv, SettingsKept, NEW t \in Panels, NEW q \in res[t].pending, Fail(t, q)
    PROVE  SettingsKept'
<1>1. res' = [res EXCEPT ![t] = Failed(@, q)] /\ UNCHANGED <<screen, version, apart, writes>>
  BY DEF Fail, Others
<1>2. \A p \in Panels : WritesTo(p)' = WritesTo(p)
  BY <1>1 DEF WritesTo
<1>3. res \in [Panels -> Resource(MaxVersion)] /\ res[t] \in Resource(MaxVersion)
  BY DEF IInv, TypeOK
<1>4. res'[t] = Failed(res[t], q) /\ \A p \in Panels \ {t} : res'[p] = res[p]
  BY <1>1, <1>3
<1>5. /\ res'[t].pending = res[t].pending \ {q} /\ res'[t].data = res[t].data
      /\ q.latest => res'[t].error = TRUE
      /\ ~q.latest => res'[t].isLoading = res[t].isLoading /\ res'[t].error = res[t].error
  BY <1>3, <1>4 DEF Failed, Settled, Resource
<1>6. ASSUME screen \in Settings, t \in PanelsOf[screen]
      PROVE  SettingKept(t)'
  <2>0. SettingKept(t)
    BY <1>6 DEF SettingsKept
  <2>1. ASSUME t \notin apart'
        PROVE  OneUnderWay(t)' /\ UpToDate(t)'
    <3>1. OneUnderWay(t)
      BY <1>1, <2>0, <2>1 DEF SettingKept
    <3>2. res[t].pending = {q} /\ q.latest /\ WritesTo(t) = {}
      BY <3>1, RequestAlone
    <3>3. res'[t].pending = {} /\ WritesTo(t)' = {} /\ res'[t].error
      BY <1>2, <1>5, <3>2
    <3> QED
      BY <3>3 DEF OneUnderWay, UpToDate
  <2>2. ~res'[t].isLoading /\ ~res'[t].error => res'[t].data # None
    BY <1>5, <2>0 DEF SettingKept
  <2> QED
    BY <2>1, <2>2 DEF SettingKept
<1> QED
  BY <1>1, <1>2, <1>4, <1>6, OnePanel

LEMMA SendSettings ==
    ASSUME IInv, SettingsKept, NEW kind \in {"currency", "enabled", "resync", "disconnect", "check"},
           Send(kind)
    PROVE  SettingsKept'
<1> DEFINE t == Target(kind)
           w == Write(kind)
<1>1. /\ UNCHANGED <<screen, res, version>> /\ writes' = writes \union {w}
      /\ apart' = IF Busy(t) THEN apart \union {t} ELSE apart
  BY DEF Send
<1>2. w.kind = kind /\ w.since = version[t] /\ w.at = 0
  BY DEF Write
<1> HIDE DEF w
<1>3. \A p : WritesTo(p)' = IF p = t THEN WritesTo(p) \union {w} ELSE WritesTo(p)
  BY <1>1, <1>2 DEF WritesTo
<1> HIDE DEF t
<1>4. ASSUME screen \in Settings, t \in PanelsOf[screen]
      PROVE  SettingKept(t)'
  <2>0. SettingKept(t)
    BY <1>4 DEF SettingsKept
  <2>1. ASSUME t \notin apart'
        PROVE  OneUnderWay(t)' /\ UpToDate(t)'
    <3>1. t \notin apart /\ res[t].pending = {} /\ WritesTo(t) = {} /\ UpToDate(t)
      BY <1>1, <2>0, <2>1 DEF SettingKept, Busy, WritesTo
    <3>2. WritesTo(t)' = {w} /\ res'[t] = res[t] /\ version'[t] = version[t]
      BY <1>1, <1>3, <3>1
    <3> QED
      BY <1>2, <3>1, <3>2 DEF OneUnderWay, UpToDate
  <2> QED
    BY <1>1, <2>0, <2>1 DEF SettingKept
<1> QED
  BY <1>1, <1>3, <1>4, OnePanel

LEMMA CarryOutSettings ==
    ASSUME IInv, SettingsKept, NEW w \in writes, CarryOut(w)
    PROVE  SettingsKept'
<1> DEFINE t == Target(w.kind)
           at == IF w.kind = "disconnect" /\ ~Connected(version[t]) THEN version[t]
                 ELSE version[t] + 1
           done == [w EXCEPT !.at = at]
<1>1. /\ UNCHANGED <<screen, res, apart>> /\ w.at = 0 /\ w.kind # "check"
      /\ version' = [version EXCEPT ![t] = at] /\ writes' = (writes \ {w}) \union {done}
  BY DEF CarryOut
<1>2. w \in WriteShape /\ version \in [Panels -> 0..MaxVersion] /\ t \in Panels
  BY Names DEF IInv, TypeOK, WriteShape, Target
<1>3. done.kind = w.kind /\ done.at = at
  BY <1>2 DEF WriteShape
<1>4. at \in {version[t], version[t] + 1} /\ version[t] \in Nat
  BY <1>2, WebPagesAssumption
<1> HIDE DEF done, at
<1>5. version'[t] = at /\ \A p \in Panels \ {t} : version'[p] = version[p]
  BY <1>1, <1>2
<1>6. \A p : WritesTo(p)' = IF p = t THEN (WritesTo(p) \ {w}) \union {done} ELSE WritesTo(p)
  BY <1>1, <1>3 DEF WritesTo
<1>7. w \in WritesTo(t)
  BY DEF WritesTo
<1> HIDE DEF t
<1>8. ASSUME screen \in Settings, t \in PanelsOf[screen]
      PROVE  SettingKept(t)'
  <2>0. SettingKept(t)
    BY <1>8 DEF SettingsKept
  <2>1. ASSUME t \notin apart'
        PROVE  OneUnderWay(t)' /\ UpToDate(t)'
    <3>1. OneUnderWay(t) /\ UpToDate(t)
      BY <1>1, <2>0, <2>1 DEF SettingKept
    <3>2. res[t].pending = {} /\ WritesTo(t) = {w}
      BY <1>7, <3>1, WriteAlone
    <3>3. WritesTo(t)' = {done} /\ res'[t] = res[t]
      BY <1>1, <1>6, <3>2
    <3>4. OneUnderWay(t)'
      BY <1>1, <1>3, <1>5, <3>2, <3>3 DEF OneUnderWay
    <3>5. done.at = 0 => version'[t] = version[t]
      BY <1>3, <1>4, <1>5
    <3> QED
      BY <1>1, <3>1, <3>2, <3>3, <3>4, <3>5 DEF UpToDate
  <2> QED
    BY <1>1, <2>0, <2>1 DEF SettingKept
<1> QED
  BY <1>1, <1>5, <1>6, <1>8, OnePanel

\* A write that is over.
LEMMA WriteLeaves ==
    ASSUME NEW w \in writes, writes' = writes \ {w}
    PROVE  /\ w \in WritesTo(Target(w.kind))
           /\ \A p : WritesTo(p)' = WritesTo(p) \ {w}
           /\ \A p : p # Target(w.kind) => WritesTo(p)' = WritesTo(p)
  BY DEF WritesTo

LEMMA SaveAnsweredSettings ==
    ASSUME IInv, SettingsKept, NEW w \in writes, SaveAnswered(w)
    PROVE  SettingsKept'
<1> DEFINE t == Target(w.kind)
<1>1. /\ UNCHANGED <<screen, version, apart>> /\ writes' = writes \ {w} /\ w.at > 0
      /\ res' = [res EXCEPT ![t] = DataSet(res[t], Only, w.at)]
  BY DEF SaveAnswered
<1>2. /\ w \in WritesTo(t) /\ \A p : WritesTo(p)' = WritesTo(p) \ {w}
      /\ \A p : p # t => WritesTo(p)' = WritesTo(p)
  BY <1>1, WriteLeaves
<1>3. /\ t \in Panels /\ res \in [Panels -> Resource(MaxVersion)] /\ res[t] \in Resource(MaxVersion)
      /\ w.at \in 0..MaxVersion
  BY Names DEF IInv, TypeOK, Target
<1> HIDE DEF t
<1>4. res'[t] = DataSet(res[t], Only, w.at) /\ \A p \in Panels \ {t} : res'[p] = res[p]
  BY <1>1, <1>3
<1>5. res'[t].pending = res[t].pending /\ res'[t].data.at = w.at /\ res'[t].data # None
  <2>1. [of |-> Only, at |-> w.at] # None
    BY <1>3, NoData, WebPagesAssumption DEF Content
  <2> QED
    BY <1>3, <1>4, <2>1 DEF DataSet, Resource
<1>6. ASSUME t \notin apart, SettingKept(t)
      PROVE  OneUnderWay(t)' /\ UpToDate(t)'
  <2>1. res[t].pending = {} /\ WritesTo(t) = {w} /\ w.at = version[t]
    BY <1>1, <1>2, <1>6, WriteAlone DEF SettingKept
  <2>2. res'[t].pending = {} /\ WritesTo(t)' = {} /\ res'[t].data.at = version'[t]
    BY <1>1, <1>2, <1>5, <2>1
  <2> QED
    BY <2>2 DEF OneUnderWay, UpToDate
<1>7. screen \in Settings /\ t \in PanelsOf[screen] => SettingKept(t)'
  BY <1>1, <1>5, <1>6 DEF SettingsKept, SettingKept
<1> QED
  BY <1>1, <1>2, <1>4, <1>7, OnePanel

LEMMA DisconnectAnsweredSettings ==
    ASSUME IInv, SettingsKept, NEW w \in writes, DisconnectAnswered(w)
    PROVE  SettingsKept'
<1> DEFINE t == "connection"
           new == [about |-> Only, since |-> version[t], latest |-> TRUE]
<1>1. /\ UNCHANGED <<screen, version, apart>> /\ writes' = writes \ {w} /\ Target(w.kind) = t
      /\ res' = [res EXCEPT ![t] = Refreshed(res[t], Only, version[t], UseCalendarConnection)]
  BY DEF DisconnectAnswered, Target
<1>2. /\ w \in WritesTo(t) /\ \A p : WritesTo(p)' = WritesTo(p) \ {w}
      /\ \A p : p # t => WritesTo(p)' = WritesTo(p)
  BY <1>1, WriteLeaves
<1>3. t \in Panels /\ res \in [Panels -> Resource(MaxVersion)] /\ res[t] \in Resource(MaxVersion)
  BY Names DEF IInv, TypeOK
<1> HIDE DEF t
<1>4. /\ res'[t] = Issued(res[t], Only, version[t]) /\ \A p \in Panels \ {t} : res'[p] = res[p]
  BY <1>1, <1>3 DEF Refreshed, UseCalendarConnection
<1>5. /\ res'[t].pending = {[o EXCEPT !.latest = FALSE] : o \in res[t].pending} \union {new}
      /\ res'[t].isLoading = res[t].isLoading /\ res'[t].error = res[t].error
      /\ res'[t].data = res[t].data
  BY <1>3, <1>4 DEF Issued, Resource
<1>6. ASSUME t \notin apart, SettingKept(t)
      PROVE  OneUnderWay(t)' /\ UpToDate(t)'
  <2>1. res[t].pending = {} /\ WritesTo(t) = {w}
    BY <1>2, <1>6, WriteAlone DEF SettingKept
  <2>2. res'[t].pending = {new} /\ WritesTo(t)' = {}
    BY <1>2, <1>5, <2>1
  <2>3. new.latest /\ new.since = version'[t]
    BY <1>1
  <2> HIDE DEF new
  <2> QED
    BY <2>2, <2>3 DEF OneUnderWay, UpToDate
<1>7. screen \in Settings /\ t \in PanelsOf[screen] => SettingKept(t)'
  BY <1>1, <1>5, <1>6 DEF SettingsKept, SettingKept
<1> QED
  BY <1>1, <1>2, <1>4, <1>7, OnePanel

LEMMA CheckAnsweredSettings ==
    ASSUME IInv, SettingsKept, NEW w \in writes, CheckAnswered(w)
    PROVE  SettingsKept'
<1> DEFINE t == "connection"
<1>1. /\ UNCHANGED <<screen, version>> /\ writes' = writes \ {w} /\ Target(w.kind) = t
      /\ w.kind = "check"
  BY DEF CheckAnswered, Target
<1>2. PICK at \in w.since..version[t] :
         /\ res' = [res EXCEPT ![t] = DataSet(res[t], Only, at)]
         /\ apart' = IF at < version[t] THEN apart \union {t} ELSE apart
  BY DEF CheckAnswered
<1>3. /\ w \in WritesTo(t) /\ \A p : WritesTo(p)' = WritesTo(p) \ {w}
      /\ \A p : p # t => WritesTo(p)' = WritesTo(p)
  BY <1>1, WriteLeaves
<1>4. /\ t \in Panels /\ res \in [Panels -> Resource(MaxVersion)] /\ res[t] \in Resource(MaxVersion)
      /\ version[t] \in 0..MaxVersion /\ w.since \in 0..MaxVersion
  BY Names DEF IInv, TypeOK
<1>5. at \in 0..MaxVersion /\ at <= version[t] /\ at >= w.since
  BY <1>2, <1>4, WebPagesAssumption
<1> HIDE DEF t
<1>6. res'[t] = DataSet(res[t], Only, at) /\ \A p \in Panels \ {t} : res'[p] = res[p]
  BY <1>2, <1>4
<1>7. res'[t].pending = res[t].pending /\ res'[t].data.at = at /\ res'[t].data # None
  <2>1. [of |-> Only, at |-> at] # None
    BY <1>5, NoData, WebPagesAssumption DEF Content
  <2> QED
    BY <1>4, <1>6, <2>1 DEF DataSet, Resource
<1>8. ASSUME t \notin apart', SettingKept(t)
      PROVE  OneUnderWay(t)' /\ UpToDate(t)'
  <2>1. t \notin apart /\ at = version[t]
    BY <1>2, <1>4, <1>5, <1>8
  <2>2. res[t].pending = {} /\ WritesTo(t) = {w}
    BY <1>3, <1>8, <2>1, WriteAlone DEF SettingKept
  <2>3. res'[t].pending = {} /\ WritesTo(t)' = {} /\ res'[t].data.at = version'[t]
    BY <1>1, <1>3, <1>7, <2>1, <2>2
  <2> QED
    BY <2>3 DEF OneUnderWay, UpToDate
<1>9. screen \in Settings /\ t \in PanelsOf[screen] => SettingKept(t)'
  BY <1>1, <1>7, <1>8 DEF SettingsKept, SettingKept
<1>10. \A p \in Panels : p \in apart => p \in apart'
  BY <1>2
<1> QED
  BY <1>1, <1>3, <1>6, <1>9, <1>10, OnePanel

LEMMA WriteFailedSettings ==
    ASSUME IInv, SettingsKept, NEW w \in writes, WriteFailed(w)
    PROVE  SettingsKept'
<1> DEFINE t == Target(w.kind)
<1>1. /\ UNCHANGED <<screen, res, version>> /\ writes' = writes \ {w}
      /\ apart' = IF w.at > 0 THEN apart \union {t} ELSE apart
  BY DEF WriteFailed
<1>2. /\ w \in WritesTo(t) /\ \A p : WritesTo(p)' = WritesTo(p) \ {w}
      /\ \A p : p # t => WritesTo(p)' = WritesTo(p)
  BY <1>1, WriteLeaves
<1>3. w.at \in Nat
  BY WebPagesAssumption DEF IInv, TypeOK
<1> HIDE DEF t
<1>4. ASSUME t \notin apart', SettingKept(t)
      PROVE  OneUnderWay(t)' /\ UpToDate(t)'
  <2>1. t \notin apart /\ w.at = 0
    BY <1>1, <1>3, <1>4
  <2>2. res[t].pending = {} /\ WritesTo(t) = {w} /\ UpToDate(t)
    BY <1>2, <1>4, <2>1, WriteAlone DEF SettingKept
  <2>3. WritesTo(t)' = {}
    BY <1>2, <2>2
  <2> QED
    BY <1>1, <2>1, <2>2, <2>3 DEF OneUnderWay, UpToDate
<1>5. screen \in Settings /\ t \in PanelsOf[screen] => SettingKept(t)'
  BY <1>1, <1>4 DEF SettingsKept, SettingKept
<1> QED
  BY <1>1, <1>2, <1>5, OnePanel

\* Nothing that a setting depends on.
LEMMA FrameSettings ==
    ASSUME SettingsKept, UNCHANGED <<screen, res, version, writes, apart>>
    PROVE  SettingsKept'
  BY DEF SettingsKept, SettingKept, OneUnderWay, UpToDate, WritesTo

LEMMA ReadSettings ==
    ASSUME IInv, SettingsKept, Read
    PROVE  SettingsKept'
<1>1. ASSUME NEW k, ChooseKey(k)
      PROVE  SettingsKept'
  <2>1. screen \notin Settings /\ UNCHANGED screen
    BY <1>1 DEF ChooseKey, KeysOf, Settings
  <2> QED
    BY <2>1 DEF SettingsKept
<1>2. CASE RetryAll
  <2>1. screen \notin Settings /\ UNCHANGED screen
    BY <1>2 DEF RetryAll, Settings
  <2> QED
    BY <2>1 DEF SettingsKept
<1>3. CASE OtherChange
  <2> SUFFICES ASSUME screen \in Settings, NEW p \in PanelsOf[screen]
               PROVE  SettingKept(p)'
    BY <1>3 DEF SettingsKept, OtherChange
  <2>1. p \in apart' /\ UNCHANGED <<screen, res>> /\ SettingKept(p)
    BY <1>3 DEF OtherChange, SettingsKept
  <2> QED
    BY <2>1 DEF SettingKept
<1>4. CASE FilterDisposals
  BY <1>4, FrameSettings DEF FilterDisposals
<1> QED
  BY <1>1, <1>2, <1>3, <1>4, RetrySettings, AnswerSettings, FailSettings DEF Read

LEMMA WriteSettings ==
    ASSUME IInv, SettingsKept, SettingsNext
    PROVE  SettingsKept'
<1>1. ASSUME SetCurrency \/ SetEnabled \/ ResyncCard \/ Disconnect \/ Focus
      PROVE  SettingsKept'
  <2>1. \E kind \in {"currency", "enabled", "resync", "disconnect", "check"} : Send(kind)
    BY <1>1 DEF SetCurrency, SetEnabled, ResyncCard, Disconnect, Focus
  <2> QED
    BY <2>1, SendSettings
<1>2. CASE Connect
  BY <1>2, FrameSettings DEF Connect
<1>3. ASSUME NEW w \in writes,
             CarryOut(w) \/ SaveAnswered(w) \/ DisconnectAnswered(w) \/ CheckAnswered(w)
               \/ WriteFailed(w)
      PROVE  SettingsKept'
  BY <1>3, CarryOutSettings, SaveAnsweredSettings, DisconnectAnsweredSettings,
     CheckAnsweredSettings, WriteFailedSettings
<1> QED
  BY <1>1, <1>2, <1>3 DEF SettingsNext

LEMMA SettingsStep == IInv /\ SettingsKept /\ [Next]_vars => SettingsKept'
<1> SUFFICES ASSUME IInv, SettingsKept, [Next]_vars PROVE SettingsKept'
  OBVIOUS
<1>1. CASE Read \/ SettingsNext
  BY <1>1, ReadSettings, WriteSettings
<1>2. CASE UNCHANGED pageVars
  BY <1>2, FrameSettings DEF pageVars
<1> QED
  BY <1>1, <1>2 DEF Next, vars

\* A settings page shows what the server has once everything is answered, whichever of
\* its writes and reads came before, unless two of a panel's requests overlapped, the
\* answer to a write was lost or somebody else changed the setting.
THEOREM SettingsFollowServer == Spec => []SettingIsCurrent
<1>1. IInv /\ SettingsKept => SettingIsCurrent
  <2> SUFFICES ASSUME IInv, SettingsKept, screen \in Settings,
                      NEW p \in PanelsOf[screen] \ apart, View(p) = "data", ~Busy(p)
               PROVE  res[p].data.at = version[p]
    BY DEF SettingIsCurrent
  <2>1. p \in Panels
    BY SettingPanels
  <2>2. ~res[p].isLoading /\ ~res[p].error
    BY <2>1, PanelType, DataView DEF IInv
  <2>3. res[p].pending = {} /\ WritesTo(p) = {}
    BY DEF Busy, WritesTo
  <2>4. UpToDate(p)
    BY DEF SettingsKept, SettingKept
  <2> QED
    BY <2>2, <2>3, <2>4 DEF UpToDate
<1> QED
  BY <1>1, InitIInv, IInvStep, InitSettings, SettingsStep, PTL DEF Spec
=============================================================================
