------------------------- MODULE AdminPages_proofs -------------------------
(***************************************************************************)
(* Theorems about AdminPages, for every set of records and slots and any      *)
(* number of changes: no dialog waits for an answer that will not come; what  *)
(* is saved goes to the record its dialog was filled from, and builds on the  *)
(* last version of it; a list that is quiet is the server's.                  *)
(***************************************************************************)
EXTENDS AdminPages, TLAPS

Saves == {"create", "update", "setCostBasisMethod"}

\* A dialog waits for one save at most, and for one while it is saving.
Awaited ==
    /\ \A i \in Slots : requests[i].mine =>
          /\ requests[i].op \in Saves /\ form.status = "saving"
          /\ \A j \in Slots : requests[j].mine => j = i
    /\ form.status = "saving" => \E i \in Slots : requests[i].mine

\* The question is busy exactly while an account is being deactivated, one at a time and
\* with no form open beside it.
Deactivating ==
    /\ question.status = "busy" => \E i \in Slots : requests[i].op = "deactivate"
    /\ \A i \in Slots : requests[i].op = "deactivate" =>
          /\ question.status = "busy" /\ Offers("deactivate")
          /\ \A j \in Slots : requests[j].op = "deactivate" => j = i
    /\ Offers("deactivate") => form.status = "closed" \/ question.status = "closed"

\* The only save under way is the one of the form that is open.
OfTheForm ==
    /\ \A i \in Slots : requests[i].op \in Saves =>
          /\ form.status = "saving"
          /\ requests[i].row = form.row /\ requests[i].filledFor = form.row
          /\ \A j \in Slots : requests[j].op \in Saves => j = i
    /\ form.filledFor = form.row

Targeted ==
    /\ "dismissed" \notin mishaps => OfTheForm
    /\ \A i \in Slots : requests[i].op \notin Saves => requests[i].filledFor = requests[i].row

IInv == TypeOK /\ Awaited /\ Deactivating /\ Targeted

----------------------------------------------------------------------------
(* Lemmas about the pages and the slots.                                   *)

\* No page both deactivates its records and saves them in two requests.
LEMMA NotBoth ==
    ASSUME page \in Pages
    PROVE  ~(Offers("deactivate") /\ Offers("setCostBasisMethod"))
<1>1. /\ "deactivate" \notin Crud
      /\ "deactivate" \notin Crud \union {"setCostBasisMethod"}
      /\ "setCostBasisMethod" \notin Crud \union {"deactivate"}
  BY DEF Crud
<1>2. page \in {CategoriesPage, BanksPage, RecurringBillsPage, TaxRulesPage, IncomeSourcesPage,
               InvestmentAccountsPage, PortfoliosPage, AssetsPage, CreditCardsPage}
        => page.hook.writes = Crud
  <2>1. page = CategoriesPage => page.hook.writes = Crud
    BY DEF CategoriesPage, UseCategories
  <2>2. page = BanksPage => page.hook.writes = Crud
    BY DEF BanksPage, UseBanks
  <2>3. page = RecurringBillsPage => page.hook.writes = Crud
    BY DEF RecurringBillsPage, UseRecurringBills
  <2>4. page = TaxRulesPage => page.hook.writes = Crud
    BY DEF TaxRulesPage, UseTaxRules
  <2>5. page = IncomeSourcesPage => page.hook.writes = Crud
    BY DEF IncomeSourcesPage, UseIncomeSources
  <2>6. page = InvestmentAccountsPage => page.hook.writes = Crud
    BY DEF InvestmentAccountsPage, UseInvestmentAccounts
  <2>7. page = PortfoliosPage => page.hook.writes = Crud
    BY DEF PortfoliosPage, UsePortfolios
  <2>8. page = AssetsPage => page.hook.writes = Crud
    BY DEF AssetsPage, UseAssets
  <2>9. page = CreditCardsPage => page.hook.writes = Crud
    BY DEF CreditCardsPage, UseCreditCards
  <2> QED BY <2>1, <2>2, <2>3, <2>4, <2>5, <2>6, <2>7, <2>8, <2>9
<1>3. page = BrokersPage => page.hook.writes = Crud \union {"setCostBasisMethod"}
  BY DEF BrokersPage, UseBrokers
<1>4. page = AdminAccountsPage => page.hook.writes = Crud \union {"deactivate"}
  BY DEF AdminAccountsPage, UseAdminAccounts
<1>5. page = AccountsPage => page.hook.writes = {}
  BY DEF AccountsPage, UseAccounts
<1> QED BY <1>1, <1>2, <1>3, <1>4, <1>5, PagesAssumption DEF Offers

\* A request that finds room takes a slot in which nothing is under way.
LEMMA FreeSlotIsFree ==
    ASSUME HasRoom
    PROVE  FreeSlot \in Slots /\ requests[FreeSlot].op = "free"
  BY DEF HasRoom, UnderWay, FreeSlot

LEMMA FreeType == Free \in RequestRecord /\ Fetch \in RequestRecord
  BY DEF Free, Fetch, RequestRecord, Targets, Versions

LEMMA FetchFields ==
    /\ Free.op = "free" /\ Free.row = None /\ Free.filledFor = None /\ Free.mine = FALSE
    /\ Fetch.op = "fetch" /\ Fetch.row = None /\ Fetch.filledFor = None /\ Fetch.mine = FALSE
  BY DEF Free, Fetch

LEMMA NoFormFields ==
    /\ NoForm \in FormRecord /\ NoQuestion \in QuestionRecord
    /\ NoForm.status = "closed" /\ NoForm.row = None /\ NoForm.filledFor = None
    /\ NoQuestion.status = "closed"
  BY DEF NoForm, NoQuestion, FormRecord, QuestionRecord, Targets, Versions

LEMMA MishapsType ==
    ASSUME TypeOK, NEW rs
    PROVE  /\ MishapsAtFetch(rs) \subseteq {"overlap", "lost", "dismissed"}
           /\ Overlapped(rs) \subseteq {"overlap", "lost", "dismissed"}
           /\ "dismissed" \in MishapsAtFetch(rs) <=> "dismissed" \in mishaps
           /\ "dismissed" \in Overlapped(rs) <=> "dismissed" \in mishaps
  BY DEF TypeOK, MishapsAtFetch, Overlapped

LEMMA NoneMineType ==
    ASSUME NEW rs \in [Slots -> RequestRecord]
    PROVE  /\ NoneMine(rs) \in [Slots -> RequestRecord]
           /\ \A i \in Slots :
                 /\ NoneMine(rs)[i].mine = FALSE /\ NoneMine(rs)[i].op = rs[i].op
                 /\ NoneMine(rs)[i].row = rs[i].row /\ NoneMine(rs)[i].filledFor = rs[i].filledFor
  BY DEF NoneMine, RequestRecord

LEMMA IInvInit == Init => IInv
<1> SUFFICES ASSUME Init PROVE IInv
  OBVIOUS
<1>1. PICK i \in Slots : requests = [j \in Slots |-> IF j = i THEN Fetch ELSE Free]
  BY DEF Init
<1>2. TypeOK
  <2>1. requests \in [Slots -> RequestRecord]
    BY <1>1, FreeType
  <2>2. /\ server \in [Rows -> Versions] /\ listed \in [Rows -> Versions]
        /\ changes \in 0..MaxChanges
    BY AdminAssumption DEF Init, Versions, Absent
  <2> QED BY <2>1, <2>2, NoFormFields DEF Init, TypeOK
<1>3. Awaited
  BY <1>1, FetchFields, NoFormFields DEF Init, Awaited
<1>4. Deactivating
  BY <1>1, FetchFields, NoFormFields DEF Init, Deactivating
<1>5. Targeted
  BY <1>1, FetchFields, NoFormFields DEF Init, Targeted, OfTheForm, Saves
<1> QED BY <1>2, <1>3, <1>4, <1>5 DEF IInv

LEMMA SentType ==
    ASSUME requests \in [Slots -> RequestRecord], HasRoom, NEW q \in RequestRecord
    PROVE  /\ Sent(q) \in [Slots -> RequestRecord]
           /\ Sent(q)[FreeSlot] = q
           /\ \A i \in Slots \ {FreeSlot} : Sent(q)[i] = requests[i]
  BY FreeSlotIsFree DEF Sent

LEMMA ReplacedType ==
    ASSUME requests \in [Slots -> RequestRecord], NEW i \in Slots, NEW q \in RequestRecord,
           requests' = [requests EXCEPT ![i] = q]
    PROVE  /\ requests' \in [Slots -> RequestRecord]
           /\ requests'[i] = q
           /\ \A j \in Slots \ {i} : requests'[j] = requests[j]
  OBVIOUS

\* What a request is for does not change while it is under way.
SameRequest(q, r) ==
    q.op = r.op /\ q.row = r.row /\ q.filledFor = r.filledFor /\ q.mine = r.mine

\* Requests no dialog waits for: they may end, or be followed by a fetch.
Passive == {"free", "fetch", "delete"}

Follows(q, r) ==
    \/ SameRequest(q, r)
    \/ r.op \in Passive /\ (SameRequest(q, Free) \/ SameRequest(q, Fetch))

LEMMA OneFollows ==
    ASSUME NEW i \in Slots, Follows(requests'[i], requests[i]),
           \A j \in Slots \ {i} : requests'[j] = requests[j]
    PROVE  \A j \in Slots : Follows(requests'[j], requests[j])
<1>1. \A j \in Slots \ {i} : Follows(requests'[j], requests[j])
  BY DEF Follows, SameRequest
<1> QED BY <1>1

LEMMA PassiveKeeps ==
    ASSUME IInv, UNCHANGED <<page, form, question>>,
           "dismissed" \in mishaps => "dismissed" \in mishaps',
           \A i \in Slots : Follows(requests'[i], requests[i])
    PROVE  Awaited' /\ Deactivating' /\ Targeted'
<1>1. \A i \in Slots : requests[i].op \in Saves \/ requests'[i].op \in Saves => SameRequest(requests'[i], requests[i])
  BY FetchFields DEF SameRequest, Follows, Passive, Saves
<1>2. \A i \in Slots : requests[i].op = "deactivate" \/ requests'[i].op = "deactivate" => SameRequest(requests'[i], requests[i])
  BY FetchFields DEF SameRequest, Follows, Passive
<1>3. \A i \in Slots : requests[i].mine \/ requests'[i].mine => SameRequest(requests'[i], requests[i])
  BY FetchFields DEF SameRequest, Follows, Passive, IInv, Awaited, Saves
<1>4. Awaited'
  BY <1>1, <1>3 DEF IInv, Awaited, SameRequest
<1>5. Deactivating'
  BY <1>2 DEF IInv, Deactivating, SameRequest, Offers
<1>6. Targeted'
  <2>1. "dismissed" \notin mishaps' => OfTheForm'
    BY <1>1 DEF IInv, Targeted, OfTheForm, SameRequest
  <2>2. \A i \in Slots : requests'[i].op \notin Saves => requests'[i].filledFor = requests'[i].row
    BY FetchFields DEF IInv, Targeted, SameRequest, Follows, Passive, Saves
  <2> QED BY <2>1, <2>2 DEF Targeted
<1> QED BY <1>4, <1>5, <1>6

----------------------------------------------------------------------------
(* Reading, carrying out and deleting: no form is concerned.               *)

LEMMA ListType ==
    ASSUME TypeOK, NEW i \in Slots, ListAnswered(requests[i])
    PROVE  isLoading' \in BOOLEAN /\ error' \in BOOLEAN /\ listed' \in [Rows -> Versions]
<1>1. requests[i].content \in [Rows -> Versions] \union {None}
  BY DEF TypeOK, RequestRecord
<1> QED BY <1>1 DEF TypeOK, ListAnswered

LEMMA IInvRead ==
    ASSUME IInv, Retry \/ \E i \in Slots : AnswerRead(i) \/ FetchAnswered(i)
    PROVE  IInv'
<1>1. CASE Retry
  <2>1. TypeOK'
    BY <1>1, SentType, FreeType, MishapsType DEF IInv, TypeOK, Retry
  <2>2. \A i \in Slots : Follows(requests'[i], requests[i])
    <3>1. /\ requests'[FreeSlot] = Fetch
          /\ \A i \in Slots \ {FreeSlot} : requests'[i] = requests[i]
      BY <1>1, SentType, FreeType DEF IInv, TypeOK, Retry
    <3>2. requests[FreeSlot].op = "free"
      BY <1>1, FreeSlotIsFree DEF Retry
    <3>3. Follows(requests'[FreeSlot], requests[FreeSlot])
      BY <3>1, <3>2 DEF Follows, SameRequest, Passive
    <3> QED BY <1>1, <3>1, <3>3, FreeSlotIsFree, OneFollows DEF Retry
  <2>3. "dismissed" \in mishaps => "dismissed" \in mishaps'
    BY <1>1, MishapsType DEF IInv, Retry
  <2> QED BY <1>1, <2>1, <2>2, <2>3, PassiveKeeps DEF IInv, Retry
<1>2. ASSUME NEW i \in Slots, AnswerRead(i) PROVE IInv'
  <2>1. TypeOK'
    BY <1>2 DEF IInv, TypeOK, AnswerRead, RequestRecord, listVars
  <2>2. \A j \in Slots : Follows(requests'[j], requests[j])
    BY <1>2 DEF IInv, TypeOK, AnswerRead, Follows, SameRequest, RequestRecord
  <2> QED BY <1>2, <2>1, <2>2, PassiveKeeps DEF IInv, AnswerRead
<1>3. ASSUME NEW i \in Slots, FetchAnswered(i) PROVE IInv'
  <2>1. /\ requests' \in [Slots -> RequestRecord] /\ requests'[i] = Free
        /\ \A j \in Slots \ {i} : requests'[j] = requests[j]
    BY <1>3, FreeType, ReplacedType DEF IInv, TypeOK, FetchAnswered
  <2>2. isLoading' \in BOOLEAN /\ error' \in BOOLEAN /\ listed' \in [Rows -> Versions]
    BY <1>3, ListType DEF IInv, FetchAnswered
  <2>3. TypeOK'
    BY <1>3, <2>1, <2>2 DEF IInv, TypeOK, FetchAnswered
  <2>4. \A j \in Slots : Follows(requests'[j], requests[j])
    <3>1. Follows(requests'[i], requests[i])
      BY <1>3, <2>1 DEF FetchAnswered, Follows, SameRequest, Passive
    <3> QED BY <2>1, <3>1, OneFollows
  <2> QED BY <1>3, <2>3, <2>4, PassiveKeeps DEF IInv, FetchAnswered
<1> QED BY <1>1, <1>2, <1>3

LEMMA IInvCarryOut ==
    ASSUME IInv, NEW i \in Slots, NEW answered \in BOOLEAN, CarryOut(i, answered)
    PROVE  IInv'
<1>1. changes + 1 \in 0..MaxChanges /\ changes' = changes + 1
  BY AdminAssumption DEF IInv, TypeOK, CarryOut
<1>2. server' \in [Rows -> Versions]
  BY <1>1 DEF IInv, TypeOK, CarryOut, Versions
<1> DEFINE r == requests[i]
           is == IF answered THEN "done" ELSE "lost"
           seen == IF r.op = "create" THEN Absent ELSE changes + 1
           q == [r EXCEPT !.is = is, !.seen = seen]
<1>7. r \in RequestRecord /\ q \in RequestRecord /\ SameRequest(q, r)
  <2>1. r \in RequestRecord
    BY DEF IInv, TypeOK
  <2>2. seen \in Versions /\ is \in {"done", "lost"}
    BY <1>1 DEF Versions
  <2> QED BY <2>1, <2>2 DEF RequestRecord, SameRequest
<1>8. requests' = [requests EXCEPT ![i] = q]
  BY DEF CarryOut
<1>3. /\ requests' \in [Slots -> RequestRecord] /\ requests'[i] = q
      /\ \A j \in Slots \ {i} : requests'[j] = requests[j]
  BY <1>7, <1>8, ReplacedType DEF IInv, TypeOK
<1>4. TypeOK'
  BY <1>1, <1>2, <1>3 DEF IInv, TypeOK, CarryOut, listVars
<1>5. \A j \in Slots : Follows(requests'[j], requests[j])
  <2>1. Follows(requests'[i], requests[i])
    BY <1>7, <1>3 DEF Follows
  <2> QED BY <1>3, <2>1, OneFollows
<1>6. "dismissed" \in mishaps => "dismissed" \in mishaps'
  BY DEF CarryOut
<1> QED BY <1>4, <1>5, <1>6, PassiveKeeps DEF IInv, CarryOut

----------------------------------------------------------------------------
(* The dialog.                                                             *)

\* The requests stay, the form that opens is for the record it is filled from.
LEMMA IInvOpen ==
    ASSUME IInv, ~Dialog, NEW row \in Rows \union {NewRow}, NEW seen \in Versions,
           OpenForm(row, seen)
    PROVE  IInv'
<1>1. /\ form' \in FormRecord /\ form'.status = "idle"
      /\ form'.row = row /\ form'.filledFor = row
  <2>1. (UnderWay # {}) \in BOOLEAN /\ (row # NewRow \/ page.dialog.required = {}) \in BOOLEAN
    OBVIOUS
  <2> QED BY <2>1 DEF OpenForm, FormRecord, Targets
<1>2. TypeOK'
  BY <1>1 DEF IInv, TypeOK, OpenForm, listVars
<1>3. /\ form.status = "closed" /\ question.status = "closed"
      /\ UNCHANGED <<question, requests, page>>
      /\ \A i \in Slots : requests[i].op # "deactivate"
  BY DEF Dialog, OpenForm, IInv, Deactivating
<1>4. Awaited'
  BY <1>1, <1>3 DEF IInv, Awaited
<1>5. Deactivating'
  BY <1>1, <1>3 DEF IInv, Deactivating, Offers
<1>6. Targeted'
  <2>1. CASE \E i \in Slots : requests[i].op \in Saves
    <3>1. mishaps' = mishaps
      BY <2>1 DEF OpenForm, Saves, Writes
    <3>2. "dismissed" \in mishaps
      BY <2>1 DEF Dialog, IInv, Targeted, OfTheForm
    <3>3. requests' = requests
      BY <1>3
    <3> QED BY <3>1, <3>2, <3>3 DEF IInv, Targeted
  <2>2. CASE \A i \in Slots : requests[i].op \notin Saves
    BY <1>1, <1>3, <2>2 DEF IInv, Targeted, OfTheForm
  <2> QED BY <2>1, <2>2
<1> QED BY <1>2, <1>4, <1>5, <1>6 DEF IInv

\* Only the fields or the status of an open form change, not its record.
LEMMA IInvEdit == ASSUME IInv, EditFields \/ ShowErrors PROVE IInv'
<1>1. /\ form' \in FormRecord /\ form'.status \in {"idle", "error"}
      /\ form'.row = form.row /\ form'.filledFor = form.filledFor
      /\ form.status \in {"idle", "error"}
      /\ UNCHANGED <<page, listVars, question, pendingId, server, changes, requests, mishaps>>
  <2>1. CASE EditFields
    <3>1. (~form.valid) \in BOOLEAN
      OBVIOUS
    <3> QED BY <2>1, <3>1 DEF EditFields, IInv, TypeOK, FormRecord
  <2>2. CASE ShowErrors
    BY <2>2 DEF ShowErrors, IInv, TypeOK, FormRecord
  <2> QED BY <2>1, <2>2
<1>2. TypeOK'
  BY <1>1 DEF IInv, TypeOK, listVars
<1>3. Awaited'
  BY <1>1 DEF IInv, Awaited
<1>4. Deactivating'
  BY <1>1 DEF IInv, Deactivating, Offers
<1>5. Targeted'
  BY <1>1 DEF IInv, Targeted, OfTheForm
<1> QED BY <1>2, <1>3, <1>4, <1>5 DEF IInv

LEMMA IInvDismiss == ASSUME IInv, Dismiss PROVE IInv'
<1>1. /\ requests' \in [Slots -> RequestRecord]
      /\ \A i \in Slots :
            /\ requests'[i].mine = FALSE /\ requests'[i].op = requests[i].op
            /\ requests'[i].row = requests[i].row
            /\ requests'[i].filledFor = requests[i].filledFor
  BY NoneMineType DEF IInv, TypeOK, Dismiss
<1>2. TypeOK'
  BY <1>1, NoFormFields DEF IInv, TypeOK, Dismiss, listVars
<1>3. Awaited'
  BY <1>1, NoFormFields DEF Dismiss, Awaited
<1>4. Deactivating'
  BY <1>1, NoFormFields DEF IInv, Dismiss, Deactivating, Offers
<1>5. Targeted'
  <2>1. "dismissed" \notin mishaps' => \A i \in Slots : requests[i].op \notin Saves
    BY DEF IInv, Dismiss, Targeted, OfTheForm
  <2> QED BY <1>1, <2>1, NoFormFields DEF IInv, Dismiss, Targeted, OfTheForm
<1> QED BY <1>2, <1>3, <1>4, <1>5 DEF IInv

LEMMA IInvSubmit == ASSUME IInv, Submit PROVE IInv'
<1> DEFINE q == [Free EXCEPT !.op = IF form.row = NewRow THEN "create" ELSE "update",
                             !.row = form.row, !.filledFor = form.filledFor,
                             !.seen = form.seen, !.early = form.early, !.mine = TRUE]
<1>1. /\ q \in RequestRecord /\ q.op \in {"create", "update"} /\ q.mine = TRUE
      /\ q.row = form.row /\ q.filledFor = form.filledFor
  BY DEF IInv, TypeOK, FormRecord, RequestRecord, Free, Targets, Versions, Writes
<1>2. requests[FreeSlot].op = "free" /\ FreeSlot \in Slots
  BY FreeSlotIsFree DEF Submit
<1>3. /\ requests' \in [Slots -> RequestRecord] /\ requests'[FreeSlot] = q
      /\ \A i \in Slots \ {FreeSlot} : requests'[i] = requests[i]
  BY <1>1, SentType DEF IInv, TypeOK, Submit
<1>4. /\ form' \in FormRecord /\ form'.status = "saving" /\ form.status \in {"idle", "error"}
      /\ form'.row = form.row /\ form'.filledFor = form.filledFor
  BY DEF IInv, TypeOK, Submit, FormRecord
<1>5. TypeOK'
  BY <1>3, <1>4, MishapsType DEF IInv, TypeOK, Submit, listVars
<1> HIDE DEF q
<1>6. Awaited'
  BY <1>1, <1>2, <1>3, <1>4 DEF IInv, Awaited, Saves
<1>7. Deactivating'
  BY <1>1, <1>2, <1>3, <1>4 DEF IInv, Submit, Deactivating, Offers
<1>8. Targeted'
  <2>1. "dismissed" \notin mishaps' => \A i \in Slots : requests[i].op \notin Saves
    BY <1>4, MishapsType DEF IInv, Submit, Targeted, OfTheForm
  <2> QED BY <1>1, <1>2, <1>3, <1>4, <2>1, MishapsType
        DEF IInv, Submit, Targeted, OfTheForm, Saves
<1> QED BY <1>5, <1>6, <1>7, <1>8 DEF IInv

----------------------------------------------------------------------------
(* The answers to saves.                                                    *)

LEMMA IInvSaved == ASSUME IInv, NEW i \in Slots, SaveAnswered(i) PROVE IInv'
<1> DEFINE rs == [requests EXCEPT ![i] = Fetch]
<1>1. rs \in [Slots -> RequestRecord]
  BY FreeType DEF IInv, TypeOK
<1>2. /\ requests' \in [Slots -> RequestRecord]
      /\ \A j \in Slots : requests'[j].mine = FALSE
      /\ requests'[i].op = "fetch" /\ requests'[i].filledFor = requests'[i].row
      /\ \A j \in Slots \ {i} :
            /\ requests'[j].op = requests[j].op /\ requests'[j].row = requests[j].row
            /\ requests'[j].filledFor = requests[j].filledFor
  <2>1. /\ rs[i] = Fetch
        /\ \A j \in Slots \ {i} : rs[j] = requests[j]
    BY DEF IInv, TypeOK
  <2>2. requests' = NoneMine(rs)
    BY DEF SaveAnswered
  <2> HIDE DEF rs
  <2>3. /\ requests' \in [Slots -> RequestRecord]
        /\ \A j \in Slots :
              /\ requests'[j].mine = FALSE /\ requests'[j].op = rs[j].op
              /\ requests'[j].row = rs[j].row /\ requests'[j].filledFor = rs[j].filledFor
    BY <1>1, <2>2, NoneMineType
  <2>4. Fetch.op = "fetch" /\ Fetch.filledFor = Fetch.row
    BY FetchFields
  <2> QED BY <2>1, <2>3, <2>4
<1>3. TypeOK'
  BY <1>2, NoFormFields, MishapsType DEF IInv, TypeOK, SaveAnswered, Reload
<1>4. Awaited'
  BY <1>2, NoFormFields DEF SaveAnswered, Awaited
<1>5. Deactivating'
  <2>1. \A j \in Slots : requests'[j].op = "deactivate" <=> requests[j].op = "deactivate"
    BY <1>2 DEF SaveAnswered
  <2>2. form'.status = "closed" /\ UNCHANGED <<page, question>>
    BY NoFormFields DEF SaveAnswered
  <2> QED BY <2>1, <2>2 DEF IInv, Deactivating, Offers
<1>6. Targeted'
  <2>1. requests[i].op \in Saves
    BY DEF SaveAnswered, Saves
  <2>2. "dismissed" \notin mishaps' => \A j \in Slots \ {i} : requests[j].op \notin Saves
    BY <2>1, MishapsType DEF IInv, SaveAnswered, Reload, Targeted, OfTheForm
  <2> QED BY <1>2, <2>2, NoFormFields DEF IInv, SaveAnswered, Targeted, OfTheForm, Saves
<1> QED BY <1>3, <1>4, <1>5, <1>6 DEF IInv

LEMMA IInvReread == ASSUME IInv, NEW i \in Slots, SaveReread(i) PROVE IInv'
<1> DEFINE q == [requests[i] EXCEPT !.is = "rereading"]
<1>1. q \in RequestRecord /\ SameRequest(q, requests[i])
  <2>1. requests[i] \in RequestRecord
    BY DEF IInv, TypeOK
  <2> QED BY <2>1 DEF RequestRecord, SameRequest
<1>2. requests' = [requests EXCEPT ![i] = q]
  BY DEF SaveReread
<1>3. /\ requests' \in [Slots -> RequestRecord] /\ requests'[i] = q
      /\ \A j \in Slots \ {i} : requests'[j] = requests[j]
  BY <1>1, <1>2, ReplacedType DEF IInv, TypeOK
<1>4. TypeOK'
  BY <1>3, MishapsType DEF IInv, TypeOK, SaveReread, listVars
<1>5. \A j \in Slots : Follows(requests'[j], requests[j])
  <2>1. Follows(requests'[i], requests[i])
    BY <1>1, <1>3 DEF Follows
  <2> QED BY <1>3, <2>1, OneFollows
<1>6. "dismissed" \in mishaps => "dismissed" \in mishaps'
  BY MishapsType DEF IInv, SaveReread
<1> QED BY <1>4, <1>5, <1>6, PassiveKeeps DEF IInv, SaveReread

LEMMA IInvMethod == ASSUME IInv, NEW i \in Slots, MethodFollows(i) PROVE IInv'
<1> DEFINE r == requests[i]
           q == [Free EXCEPT !.op = "setCostBasisMethod", !.row = r.row,
                             !.filledFor = r.filledFor, !.seen = r.seen,
                             !.early = r.early, !.mine = r.mine]
<1>1. /\ r \in RequestRecord /\ r.op = "update"
      /\ Offers("setCostBasisMethod") /\ ~Offers("deactivate")
  BY NotBoth DEF IInv, TypeOK, MethodFollows
<1>2. /\ q \in RequestRecord /\ q.op = "setCostBasisMethod" /\ q.mine = r.mine
      /\ q.row = r.row /\ q.filledFor = r.filledFor
  BY <1>1 DEF RequestRecord, Free, Targets, Versions, Writes
<1>3. FreeSlot \in Slots /\ requests[FreeSlot].op = "free" /\ FreeSlot # i
  BY <1>1, FreeSlotIsFree DEF MethodFollows
<1>4. /\ requests' \in [Slots -> RequestRecord]
      /\ requests'[FreeSlot] = q /\ requests'[i] = Fetch
      /\ \A j \in Slots \ {FreeSlot, i} : requests'[j] = requests[j]
  <2>1. /\ Sent(q) \in [Slots -> RequestRecord] /\ Sent(q)[FreeSlot] = q
        /\ \A j \in Slots \ {FreeSlot} : Sent(q)[j] = requests[j]
    BY <1>2, SentType DEF IInv, TypeOK, MethodFollows
  <2>2. requests' = [Sent(q) EXCEPT ![i] = Fetch]
    BY DEF MethodFollows
  <2> QED BY <1>3, <2>1, <2>2, FreeType
<1> HIDE DEF q
<1>5. /\ form' \in FormRecord /\ form'.row = r.row
      /\ form.status # "closed" => form'.filledFor = form.filledFor /\ form'.status = form.status
      /\ form.status = "closed" => form'.filledFor = r.row /\ form'.status = "idle"
  <2>1. (form.early \/ ~r.mine) \in BOOLEAN
    OBVIOUS
  <2> QED BY <1>1, <2>1 DEF IInv, TypeOK, MethodFollows, FormRecord, RequestRecord
<1>6. TypeOK'
  BY <1>4, <1>5 DEF IInv, TypeOK, MethodFollows
<1>7. Awaited'
  BY <1>1, <1>2, <1>3, <1>4, <1>5, FetchFields DEF IInv, Awaited, Saves
<1>8. Deactivating'
  BY <1>1, <1>2, <1>3, <1>4, FetchFields DEF IInv, MethodFollows, Deactivating, Offers
<1>9. Targeted'
  <2>1. \A j \in Slots : requests'[j].op \notin Saves => requests'[j].filledFor = requests'[j].row
    BY <1>2, <1>4, FetchFields DEF IInv, Targeted, Saves
  <2>2. ASSUME "dismissed" \notin mishaps' PROVE OfTheForm'
    <3>1. OfTheForm /\ r.op \in Saves
      BY <1>1, <2>2 DEF IInv, Targeted, MethodFollows, Saves
    <3>2. /\ form.status = "saving" /\ r.row = form.row /\ r.filledFor = form.row
          /\ \A j \in Slots \ {i} : requests[j].op \notin Saves
      BY <3>1 DEF OfTheForm
    <3>3. \A j \in Slots : requests'[j].op \in Saves => j = FreeSlot
      BY <1>4, <3>2, FetchFields DEF Saves
    <3> QED BY <1>2, <1>4, <1>5, <3>1, <3>2, <3>3 DEF OfTheForm
  <2> QED BY <2>1, <2>2 DEF Targeted
<1> QED BY <1>6, <1>7, <1>8, <1>9 DEF IInv

LEMMA IInvRereadAnswered == ASSUME IInv, NEW i \in Slots, RereadAnswered(i) PROVE IInv'
<1>1. /\ requests' \in [Slots -> RequestRecord]
      /\ \A j \in Slots : requests'[j].mine = FALSE
      /\ requests'[i].op = "free" /\ requests'[i].filledFor = requests'[i].row
      /\ \A j \in Slots \ {i} :
            /\ requests'[j].op = requests[j].op /\ requests'[j].row = requests[j].row
            /\ requests'[j].filledFor = requests[j].filledFor
  <2>1. requests' = [NoneMine(requests) EXCEPT ![i] = Free]
    BY DEF RereadAnswered
  <2> QED BY <2>1, NoneMineType, FreeType, FetchFields DEF IInv, TypeOK
<1>2. isLoading' \in BOOLEAN /\ error' \in BOOLEAN /\ listed' \in [Rows -> Versions]
  BY ListType DEF IInv, RereadAnswered
<1>3. UNCHANGED <<page, pendingId, server, changes, mishaps>>
  BY DEF RereadAnswered
<1>4. CASE requests[i].op = "deactivate"
  <2>1. /\ question' = NoQuestion /\ UNCHANGED form
        /\ question.status = "busy" /\ form.status = "closed"
        /\ \A j \in Slots \ {i} : requests[j].op # "deactivate"
    BY <1>4 DEF RereadAnswered, IInv, Deactivating
  <2>2. TypeOK'
    BY <1>1, <1>2, <1>3, <2>1, NoFormFields DEF IInv, TypeOK
  <2>3. Awaited'
    BY <1>1, <2>1 DEF Awaited
  <2>4. Deactivating'
    BY <1>1, <2>1, NoFormFields DEF Deactivating
  <2>5. Targeted'
    BY <1>1, <1>3, <1>4, <2>1 DEF IInv, Targeted, OfTheForm, Saves
  <2> QED BY <2>2, <2>3, <2>4, <2>5 DEF IInv
<1>5. CASE requests[i].op # "deactivate"
  <2>1. form' = NoForm /\ UNCHANGED question
    BY <1>5 DEF RereadAnswered
  <2>2. TypeOK'
    BY <1>1, <1>2, <1>3, <2>1, NoFormFields DEF IInv, TypeOK
  <2>3. Awaited'
    BY <1>1, <2>1, NoFormFields DEF Awaited
  <2>4. Deactivating'
    <3>1. \A j \in Slots : requests'[j].op = "deactivate" <=> requests[j].op = "deactivate"
      BY <1>1, <1>5
    <3> QED BY <1>3, <2>1, <3>1, NoFormFields DEF IInv, Deactivating, Offers
  <2>5. Targeted'
    <3>1. requests[i].op \in Saves
      BY <1>5 DEF RereadAnswered, Writes, Saves
    <3>2. "dismissed" \notin mishaps => \A j \in Slots \ {i} : requests[j].op \notin Saves
      BY <3>1 DEF IInv, Targeted, OfTheForm
    <3> QED BY <1>1, <1>3, <2>1, <3>2, NoFormFields DEF IInv, Targeted, OfTheForm, Saves
  <2> QED BY <2>2, <2>3, <2>4, <2>5 DEF IInv
<1> QED BY <1>4, <1>5

LEMMA IInvFailed == ASSUME IInv, NEW i \in Slots, SaveFailed(i) PROVE IInv'
<1>1. /\ requests' \in [Slots -> RequestRecord] /\ requests'[i] = Free
      /\ \A j \in Slots \ {i} : requests'[j] = requests[j]
  BY FreeType, ReplacedType DEF IInv, TypeOK, SaveFailed
<1>2. requests[i].op \in Saves
  BY DEF SaveFailed, Saves
<1>3. /\ UNCHANGED <<page, listVars, question, pendingId, server, changes, mishaps>>
      /\ form'.row = form.row /\ form'.filledFor = form.filledFor /\ form' \in FormRecord
      /\ requests[i].mine => form'.status = "error"
      /\ ~requests[i].mine => form' = form
  BY DEF IInv, TypeOK, SaveFailed, FormRecord
<1>4. TypeOK'
  BY <1>1, <1>3 DEF IInv, TypeOK, listVars
<1>5. Awaited'
  BY <1>1, <1>3, FetchFields DEF IInv, Awaited
<1>6. Deactivating'
  <2>1. \A j \in Slots : requests'[j].op = "deactivate" <=> requests[j].op = "deactivate"
    BY <1>1, <1>2, FetchFields DEF Saves
  <2>2. form.status = "closed" => form'.status = "closed"
    BY <1>3 DEF IInv, Awaited
  <2> QED BY <1>3, <2>1, <2>2 DEF IInv, Deactivating, Offers
<1>7. Targeted'
  <2>1. "dismissed" \notin mishaps => \A j \in Slots \ {i} : requests[j].op \notin Saves
    BY <1>2 DEF IInv, Targeted, OfTheForm
  <2> QED BY <1>1, <1>3, <2>1, FetchFields DEF IInv, Targeted, OfTheForm, Saves
<1> QED BY <1>4, <1>5, <1>6, <1>7 DEF IInv

----------------------------------------------------------------------------
(* The question.                                                           *)

\* The requests stay, and the question is not and was not busy.
LEMMA IInvAsk == ASSUME IInv, RequestDelete \/ CancelDelete PROVE IInv'
<1>1. /\ UNCHANGED <<page, listVars, form, pendingId, server, changes, requests, mishaps>>
      /\ question' \in QuestionRecord
      /\ question.status # "busy" /\ question'.status # "busy"
      /\ question'.status = "closed" \/ form.status = "closed"
  <2>1. CASE RequestDelete
    <3>1. PICK r \in Rows \ {pendingId} :
              question' = [row |-> r, seen |-> listed[r], early |-> UnderWay # {}, status |-> "idle"]
      BY <2>1 DEF RequestDelete
    <3>2. listed[r] \in Versions /\ (UnderWay # {}) \in BOOLEAN
      BY DEF IInv, TypeOK
    <3>3. question.status = "closed" /\ form.status = "closed"
      BY <2>1 DEF RequestDelete, RowsShown, Dialog
    <3> QED BY <2>1, <3>1, <3>2, <3>3 DEF RequestDelete, QuestionRecord
  <2>2. CASE CancelDelete
    BY <2>2, NoFormFields DEF CancelDelete
  <2> QED BY <2>1, <2>2
<1>2. TypeOK'
  BY <1>1 DEF IInv, TypeOK, listVars
<1>3. Awaited'
  BY <1>1 DEF IInv, Awaited
<1>4. Deactivating'
  BY <1>1 DEF IInv, Deactivating, Offers
<1>5. Targeted'
  BY <1>1 DEF IInv, Targeted, OfTheForm
<1> QED BY <1>2, <1>3, <1>4, <1>5 DEF IInv

LEMMA IInvConfirm == ASSUME IInv, ConfirmDelete PROVE IInv'
<1> DEFINE q == [Free EXCEPT !.op = "delete", !.row = question.row,
                             !.filledFor = question.row, !.seen = question.seen]
<1>1. /\ q \in RequestRecord /\ q.op = "delete" /\ q.mine = FALSE /\ q.filledFor = q.row
  BY DEF IInv, TypeOK, QuestionRecord, RequestRecord, Free, Targets, Versions, Writes
<1>2. requests[FreeSlot].op = "free" /\ FreeSlot \in Slots
  BY FreeSlotIsFree DEF ConfirmDelete
<1>3. /\ requests' \in [Slots -> RequestRecord] /\ requests'[FreeSlot] = q
      /\ \A i \in Slots \ {FreeSlot} : requests'[i] = requests[i]
  BY <1>1, SentType DEF IInv, TypeOK, ConfirmDelete
<1>4. pendingId' \in Rows \union {None}
  BY DEF IInv, TypeOK, ConfirmDelete, QuestionRecord
<1>5. TypeOK'
  BY <1>3, <1>4, MishapsType, NoFormFields DEF IInv, TypeOK, ConfirmDelete, listVars
<1> HIDE DEF q
<1>6. Awaited'
  BY <1>1, <1>2, <1>3 DEF IInv, Awaited, ConfirmDelete, Saves
<1>7. Deactivating'
  BY <1>1, <1>2, <1>3, NoFormFields DEF IInv, ConfirmDelete, Deactivating, Offers
<1>8. Targeted'
  BY <1>1, <1>2, <1>3, MishapsType DEF IInv, ConfirmDelete, Targeted, OfTheForm, Saves
<1> QED BY <1>5, <1>6, <1>7, <1>8 DEF IInv

LEMMA IInvDeleted ==
    ASSUME IInv, NEW i \in Slots, DeleteAnswered(i) \/ DeleteFailed(i)
    PROVE  IInv'
<1>1. /\ requests' \in [Slots -> RequestRecord] /\ requests'[i] \in {Fetch, Free}
      /\ \A j \in Slots \ {i} : requests'[j] = requests[j]
  BY FreeType, ReplacedType DEF IInv, TypeOK, DeleteAnswered, DeleteFailed
<1>2. /\ requests[i].op = "delete" /\ UNCHANGED <<page, form, question, server, changes>>
      /\ pendingId' = None
  BY DEF DeleteAnswered, DeleteFailed
<1>3. /\ isLoading' \in BOOLEAN /\ error' \in BOOLEAN /\ listed' = listed
      /\ mishaps' \subseteq {"overlap", "lost", "dismissed"}
      /\ "dismissed" \in mishaps => "dismissed" \in mishaps'
  <2>1. CASE DeleteAnswered(i)
    BY <2>1, MishapsType DEF IInv, TypeOK, DeleteAnswered, Reload, listVars
  <2>2. CASE DeleteFailed(i)
    BY <2>2 DEF IInv, TypeOK, DeleteFailed, listVars
  <2> QED BY <2>1, <2>2
<1>4. TypeOK'
  BY <1>1, <1>2, <1>3 DEF IInv, TypeOK
<1>5. \A j \in Slots : Follows(requests'[j], requests[j])
  <2>1. Follows(requests'[i], requests[i])
    BY <1>1, <1>2 DEF Follows, SameRequest, Passive
  <2> QED BY <1>1, <2>1, OneFollows
<1> QED BY <1>2, <1>3, <1>4, <1>5, PassiveKeeps DEF IInv

LEMMA IInvDeactivate == ASSUME IInv, Deactivate PROVE IInv'
<1> DEFINE q == [Free EXCEPT !.op = "deactivate", !.row = question.row,
                             !.filledFor = question.row, !.seen = question.seen,
                             !.early = question.early]
<1>1. /\ q \in RequestRecord /\ q.op = "deactivate" /\ q.mine = FALSE /\ q.filledFor = q.row
  BY DEF IInv, TypeOK, QuestionRecord, RequestRecord, Free, Targets, Versions, Writes
<1>2. requests[FreeSlot].op = "free" /\ FreeSlot \in Slots
  BY FreeSlotIsFree DEF Deactivate
<1>3. /\ requests' \in [Slots -> RequestRecord] /\ requests'[FreeSlot] = q
      /\ \A i \in Slots \ {FreeSlot} : requests'[i] = requests[i]
  BY <1>1, SentType DEF IInv, TypeOK, Deactivate
<1>4. /\ question' \in QuestionRecord /\ question'.status = "busy"
      /\ question.status \in {"idle", "error"} /\ Offers("deactivate")
      /\ UNCHANGED <<page, listVars, form, pendingId, server, changes>>
  BY DEF IInv, TypeOK, Deactivate, QuestionRecord
<1>5. TypeOK'
  BY <1>3, <1>4, MishapsType DEF IInv, TypeOK, Deactivate, listVars
<1> HIDE DEF q
<1>6. Awaited'
  BY <1>1, <1>2, <1>3, <1>4 DEF IInv, Awaited, Saves
<1>7. Deactivating'
  <2>1. form.status = "closed" /\ \A i \in Slots : requests[i].op # "deactivate"
    BY <1>4 DEF IInv, Deactivating
  <2>2. \A i \in Slots : requests'[i].op = "deactivate" <=> i = FreeSlot
    BY <1>1, <1>2, <1>3, <2>1
  <2> QED BY <1>2, <1>4, <2>1, <2>2 DEF Deactivating, Offers
<1>8. Targeted'
  BY <1>1, <1>2, <1>3, <1>4, MishapsType DEF IInv, Deactivate, Targeted, OfTheForm, Saves
<1> QED BY <1>5, <1>6, <1>7, <1>8 DEF IInv

LEMMA IInvNotDeactivated == ASSUME IInv, NEW i \in Slots, DeactivateFailed(i) PROVE IInv'
<1>1. /\ requests' \in [Slots -> RequestRecord] /\ requests'[i] = Free
      /\ \A j \in Slots \ {i} : requests'[j] = requests[j]
  BY FreeType, ReplacedType DEF IInv, TypeOK, DeactivateFailed
<1>2. /\ question' \in QuestionRecord /\ question'.status = "error"
      /\ requests[i].op = "deactivate"
      /\ UNCHANGED <<page, listVars, form, pendingId, server, changes, mishaps>>
  BY DEF IInv, TypeOK, DeactivateFailed, QuestionRecord
<1>3. TypeOK'
  BY <1>1, <1>2 DEF IInv, TypeOK, listVars
<1>4. Awaited'
  BY <1>1, <1>2, FetchFields DEF IInv, Awaited, Saves
<1>5. Deactivating'
  BY <1>1, <1>2, FetchFields DEF IInv, Deactivating, Offers
<1>6. Targeted'
  BY <1>1, <1>2, FetchFields DEF IInv, Targeted, OfTheForm, Saves
<1> QED BY <1>3, <1>4, <1>5, <1>6 DEF IInv

----------------------------------------------------------------------------
(* The theorems.                                                           *)

LEMMA IInvStep == IInv /\ [Next]_vars => IInv'
<1> SUFFICES ASSUME IInv, [Next]_vars PROVE IInv'
  OBVIOUS
<1>1. CASE Retry \/ \E i \in Slots : AnswerRead(i) \/ FetchAnswered(i)
  BY <1>1, IInvRead
<1>2. CASE ShowCreate \/ ShowEdit
  <2>1. ~Dialog
    BY <1>2 DEF ShowCreate, ShowEdit, RowsShown
  <2>2. \E row \in Rows \union {NewRow}, seen \in Versions : OpenForm(row, seen)
    BY <1>2 DEF ShowCreate, ShowEdit, IInv, TypeOK, Versions
  <2> QED BY <2>1, <2>2, IInvOpen
<1>3. CASE EditFields \/ ShowErrors \/ Dismiss \/ Submit
  BY <1>3, IInvEdit, IInvDismiss, IInvSubmit
<1>4. CASE RequestDelete \/ CancelDelete \/ ConfirmDelete \/ Deactivate
  BY <1>4, IInvAsk, IInvConfirm, IInvDeactivate
<1>5. CASE \E i \in Slots, answered \in BOOLEAN : CarryOut(i, answered)
  BY <1>5, IInvCarryOut
<1>6. ASSUME NEW i \in Slots,
             SaveAnswered(i) \/ MethodFollows(i) \/ SaveReread(i) \/ RereadAnswered(i) \/ SaveFailed(i)
      PROVE  IInv'
  BY <1>6, IInvSaved, IInvMethod, IInvReread, IInvRereadAnswered, IInvFailed
<1>7. ASSUME NEW i \in Slots, DeleteAnswered(i) \/ DeleteFailed(i) \/ DeactivateFailed(i)
      PROVE  IInv'
  BY <1>7, IInvDeleted, IInvNotDeactivated
<1>8. CASE UNCHANGED vars
  <2>1. TypeOK'
    BY <1>8 DEF IInv, TypeOK, vars, listVars
  <2>2. Awaited' /\ Deactivating' /\ Targeted'
    BY <1>8 DEF IInv, vars, Awaited, Deactivating, Targeted, OfTheForm, Offers
  <2> QED BY <2>1, <2>2 DEF IInv
<1> QED BY <1>1, <1>2, <1>3, <1>4, <1>5, <1>6, <1>7, <1>8 DEF Next

LEMMA Invariance == Spec => []IInv
  BY IInvInit, IInvStep, PTL DEF Spec

\* The list, the dialogs and the requests keep their shape.
THEOREM TypeCorrect == Spec => []TypeOK
<1>1. IInv => TypeOK
  BY DEF IInv
<1> QED BY <1>1, Invariance, PTL

\* A dialog whose buttons are disabled waits for a request that is under way, though
\* every answer closes or changes whatever dialog is open.
THEOREM DialogsAreAnswered == Spec => []SavingIsAnswered
<1>1. IInv => SavingIsAnswered
  BY DEF IInv, Awaited, Deactivating, SavingIsAnswered, UnderWay, Saves
<1> QED BY <1>1, Invariance, PTL

\* Unless a dialog is dismissed while it is saving, whatever is saved goes to the record
\* its fields were filled from: also the second request of a broker's save.
THEOREM SavesKeepToTheirRecord == Spec => []SaveKeepsToItsRecord
<1>1. IInv => SaveKeepsToItsRecord
  BY DEF IInv, Targeted, OfTheForm, SaveKeepsToItsRecord
<1> QED BY <1>1, Invariance, PTL

----------------------------------------------------------------------------
(* What is listed and what a dialog shows, compared with the server's list.  *)

Edits == {"update", "setCostBasisMethod", "deactivate"}

Calm == mishaps \intersect {"overlap", "lost"} = {}

\* Without a mishap one request at most is under way, and it will be answered.
Alone == Calm => \A i \in UnderWay : requests[i].is # "lost" /\ \A j \in UnderWay : j = i

\* What a request has read is what the server has.
Blank ==
    \A i \in Slots :
        /\ requests[i].op = "free" => requests[i].is = "sent"
        /\ requests[i].is \in {"sent", "done", "lost", "rereading"} => requests[i].content = None

Fresh == Calm => \A i \in UnderWay : requests[i].content # None => requests[i].content = server

\* Nothing under way has changed the server's list or will bring it.
OnlySent == \A i \in UnderWay : requests[i].op \in Writes /\ requests[i].is = "sent"

Shown == Calm /\ OnlySent /\ ~isLoading /\ ~error => listed = server

OfRows ==
    /\ form.status # "closed" => form.row \in Rows \union {NewRow}
    /\ question.status # "closed" => question.row \in Rows
    /\ \A i \in Slots : requests[i].op \in Writes \ {"create"} => requests[i].row \in Rows

\* What is open beside something else was opened while a request was under way.
Beside ==
    /\ form.status # "closed" /\ question.status # "closed" => form.early /\ question.early
    /\ form.status # "closed" /\ (\E i \in Slots : requests[i].op = "delete") => form.early
    /\ question.status # "closed" /\ (\E i \in Slots : requests[i].op \in Saves \union {"delete"})
         => question.early

\* No save was carried out whose answer will close what is open.
NothingWritten ==
    \A i \in Slots : requests[i].op \in Saves \union {"deactivate"}
                       => requests[i].is \notin {"done", "rereading", "reread"}

Filled ==
    Calm /\ NothingWritten =>
      /\ form.status # "closed" /\ ~form.early /\ form.row \in Rows => form.seen = server[form.row]
      /\ question.status # "closed" /\ ~question.early => question.seen = server[question.row]

Current == Alone /\ Blank /\ Fresh /\ Shown /\ OfRows /\ Beside /\ Filled /\ EditsBuildOnLatest

\* The request is where it was, whether a dialog waits for it or not.
Same(q, r) ==
    /\ q.op = r.op /\ q.row = r.row /\ q.seen = r.seen /\ q.early = r.early
    /\ q.is = r.is /\ q.content = r.content

LEMMA FetchIsSent ==
    /\ Free.op = "free" /\ Free.is = "sent" /\ Free.content = None
    /\ Fetch.op = "fetch" /\ Fetch.is = "sent" /\ Fetch.content = None
  BY DEF Free, Fetch

LEMMA NoneMineSame ==
    ASSUME NEW rs \in [Slots -> RequestRecord]
    PROVE  \A i \in Slots : Same(NoneMine(rs)[i], rs[i])
  BY DEF NoneMine, RequestRecord, Same

\* A fetch restores the calm only when it has the page to itself, and nothing that is sent
\* keeps it otherwise.
LEMMA CalmAtFetch ==
    ASSUME NEW rs, mishaps' = MishapsAtFetch(rs), Calm'
    PROVE  \A i \in Slots : rs[i].op = "free"
  BY DEF MishapsAtFetch, Calm

LEMMA CalmWhenSent ==
    ASSUME mishaps' = Overlapped(requests), Calm'
    PROVE  Calm /\ \A i \in Slots : requests[i].op = "free"
  BY DEF Overlapped, Calm

LEMMA CalmIsAlone ==
    ASSUME Alone, Calm, NEW i \in Slots, requests[i].op # "free"
    PROVE  requests[i].is # "lost" /\ \A j \in Slots \ {i} : requests[j].op = "free"
  BY DEF Alone, UnderWay

\* The one request that may be under way says what the calm does.
LEMMA OneLeft ==
    ASSUME NEW k \in Slots,
           Calm' => /\ \A j \in Slots \ {k} : requests'[j].op = "free"
                    /\ requests'[k].op # "free" =>
                          /\ requests'[k].is # "lost"
                          /\ requests'[k].content # None => requests'[k].content = server'
                    /\ /\ requests'[k].op # "free" => requests'[k].op \in Writes /\ requests'[k].is = "sent"
                       /\ ~isLoading' /\ ~error'
                       => listed' = server'
                    /\ requests'[k].op \in Edits /\ requests'[k].is = "sent" /\ ~requests'[k].early
                       => requests'[k].seen = server'[requests'[k].row]
    PROVE  Alone' /\ Fresh' /\ Shown' /\ EditsBuildOnLatest'
<1> SUFFICES ASSUME Calm' PROVE Alone' /\ Fresh' /\ Shown' /\ EditsBuildOnLatest'
  BY DEF Alone, Fresh, Shown, EditsBuildOnLatest, Calm
<1>1. \A j \in UnderWay' : j = k /\ requests'[k].op # "free"
  BY DEF UnderWay
<1>2. Alone' /\ Fresh'
  BY <1>1 DEF Alone, Fresh
<1>3. Shown'
  <2> SUFFICES ASSUME OnlySent', ~isLoading', ~error' PROVE listed' = server'
    BY DEF Shown
  <2>1. requests'[k].op # "free" => requests'[k].op \in Writes /\ requests'[k].is = "sent"
    BY DEF OnlySent, UnderWay
  <2> QED BY <2>1
<1>4. EditsBuildOnLatest'
  BY DEF EditsBuildOnLatest, Edits
<1> QED BY <1>2, <1>3, <1>4

\* What is open was open, or was opened beside a request, or the calm is over.
LEMMA FilledKeeps ==
    ASSUME Filled, server' = server,
           Calm' /\ NothingWritten' =>
             /\ \/ form'.status = "closed" \/ form'.early
                \/ /\ Calm /\ NothingWritten /\ form.status # "closed" /\ ~form.early
                   /\ form'.row = form.row /\ form'.seen = form.seen
             /\ \/ question'.status = "closed" \/ question'.early
                \/ /\ Calm /\ NothingWritten /\ question.status # "closed" /\ ~question.early
                   /\ question'.row = question.row /\ question'.seen = question.seen
    PROVE  Filled'
  BY DEF Filled

\* Where no request changes, only what is open is left to prove about.
LEMMA RequestsStay ==
    ASSUME Current, \A i \in Slots : Same(requests'[i], requests[i]),
           UNCHANGED <<listVars, server>>, Calm' => Calm
    PROVE  /\ Alone' /\ Blank' /\ Fresh' /\ Shown' /\ EditsBuildOnLatest'
           /\ NothingWritten' => NothingWritten
<1>1. UnderWay' = UnderWay
  BY DEF UnderWay, Same
<1>2. Alone' /\ Blank' /\ Fresh'
  BY <1>1 DEF Current, Alone, Blank, Fresh, Same, UnderWay
<1>3. OnlySent' => OnlySent
  BY <1>1 DEF OnlySent, Same, UnderWay
<1>4. Shown'
  BY <1>3 DEF Current, Shown, listVars
<1>5. EditsBuildOnLatest'
  <2> SUFFICES ASSUME NEW i \in Slots, Calm', requests'[i].op \in Edits, requests'[i].is = "sent",
                      ~requests'[i].early
               PROVE  requests'[i].seen = server'[requests'[i].row]
    BY DEF EditsBuildOnLatest, Edits, Calm
  <2>1. Same(requests'[i], requests[i])
    OBVIOUS
  <2>2. requests[i].op \in Edits /\ requests[i].is = "sent" /\ ~requests[i].early
    BY <2>1 DEF Same
  <2>3. requests[i].seen = server[requests[i].row]
    BY <2>2 DEF Current, EditsBuildOnLatest, Edits, Calm
  <2> QED BY <2>1, <2>3 DEF Same
<1>6. NothingWritten' => NothingWritten
  BY DEF NothingWritten, Same
<1> QED BY <1>2, <1>4, <1>5, <1>6

LEMMA CurrentInit == Init => Current
<1> SUFFICES ASSUME Init PROVE Current
  OBVIOUS
<1>1. PICK i \in Slots : requests = [j \in Slots |-> IF j = i THEN Fetch ELSE Free]
  BY DEF Init
<1>2. /\ requests[i] = Fetch
      /\ \A j \in Slots \ {i} : requests[j] = Free
  BY <1>1
<1>3. UnderWay = {i}
  BY <1>2, FetchIsSent DEF UnderWay
<1>4. Alone /\ Blank /\ Fresh
  BY <1>2, <1>3, FetchIsSent DEF Alone, Blank, Fresh
<1>5. Shown
  BY <1>2, <1>3, FetchIsSent DEF Shown, OnlySent, Writes
<1>6. OfRows /\ Beside /\ Filled
  BY <1>2, FetchIsSent, NoFormFields DEF Init, OfRows, Beside, Filled, Writes
<1>7. EditsBuildOnLatest
  BY <1>2, FetchIsSent DEF EditsBuildOnLatest
<1> QED BY <1>4, <1>5, <1>6, <1>7 DEF Current

----------------------------------------------------------------------------
(* The dialogs open and close; the requests stay.                           *)

\* A form is filled from the list; when nothing is under way that is the server's.
LEMMA OpenCurrent ==
    ASSUME Current, ~Dialog, NEW row \in Rows \union {NewRow}, NEW seen,
           row \in Rows => ~isLoading /\ ~error /\ seen = listed[row],
           OpenForm(row, seen)
    PROVE  Current'
<1>1. /\ form'.row = row /\ form'.seen = seen
      /\ UNCHANGED <<listVars, server, requests, question>>
      /\ question.status = "closed"
      /\ Calm' => Calm
  BY DEF OpenForm, Dialog, Calm
<1>2. ~form'.early => UnderWay = {}
  BY DEF OpenForm
<1>3. \A i \in Slots : Same(requests'[i], requests[i])
  BY <1>1 DEF Same
<1>4. Alone' /\ Blank' /\ Fresh' /\ Shown' /\ EditsBuildOnLatest'
  BY <1>1, <1>3, RequestsStay
<1>5. OfRows'
  BY <1>1 DEF Current, OfRows
<1>6. Beside'
  <2>1. \A i \in Slots : requests'[i].op = "delete" => UnderWay # {}
    BY <1>1 DEF UnderWay
  <2> QED BY <1>1, <1>2, <2>1 DEF Beside
<1>7. Filled'
  <2> SUFFICES ASSUME Calm', ~form'.early, row \in Rows PROVE seen = server[row]
    BY <1>1 DEF Filled
  <2>1. Calm /\ OnlySent
    BY <1>1, <1>2 DEF OnlySent
  <2>2. listed = server
    BY <2>1 DEF Current, Shown
  <2> QED BY <2>2
<1> QED BY <1>4, <1>5, <1>6, <1>7 DEF Current

LEMMA EditCurrent == ASSUME IInv, Current, EditFields \/ ShowErrors \/ Dismiss PROVE Current'
<1>1. /\ form.status # "closed"
      /\ \/ form'.status = "closed"
         \/ form'.row = form.row /\ form'.seen = form.seen /\ form'.early = form.early
      /\ UNCHANGED <<listVars, server, question>>
      /\ Calm' => Calm
  <2>1. CASE EditFields
    BY <2>1 DEF EditFields, IInv, TypeOK, FormRecord, Calm
  <2>2. CASE ShowErrors
    BY <2>2 DEF ShowErrors, IInv, TypeOK, FormRecord, Calm
  <2>3. CASE Dismiss
    BY <2>3, NoFormFields DEF Dismiss, Calm
  <2> QED BY <2>1, <2>2, <2>3
<1>2. \A i \in Slots : Same(requests'[i], requests[i])
  <2>1. requests' = requests \/ requests' = NoneMine(requests)
    BY DEF EditFields, ShowErrors, Dismiss
  <2> QED BY <2>1, NoneMineSame DEF IInv, TypeOK, Same
<1>3. /\ Alone' /\ Blank' /\ Fresh' /\ Shown' /\ EditsBuildOnLatest'
      /\ NothingWritten' => NothingWritten
  BY <1>1, <1>2, RequestsStay
<1>4. OfRows'
  BY <1>1, <1>2 DEF Current, OfRows, Same
<1>5. Beside'
  BY <1>1, <1>2 DEF Current, Beside, Same
<1>6. Filled'
  BY <1>1, <1>3, FilledKeeps DEF Current
<1> QED BY <1>3, <1>4, <1>5, <1>6 DEF Current

\* So is the question.
LEMMA AskCurrent == ASSUME IInv, Current, RequestDelete \/ CancelDelete PROVE Current'
<1>1. CASE CancelDelete
  <2>1. /\ question'.status = "closed" /\ UNCHANGED <<listVars, server, form, requests>>
        /\ Calm' => Calm
    BY <1>1, NoFormFields DEF CancelDelete, Calm
  <2>2. \A i \in Slots : Same(requests'[i], requests[i])
    BY <2>1 DEF Same
  <2>3. /\ Alone' /\ Blank' /\ Fresh' /\ Shown' /\ EditsBuildOnLatest'
        /\ NothingWritten' => NothingWritten
    BY <2>1, <2>2, RequestsStay
  <2>4. OfRows' /\ Beside'
    BY <2>1 DEF Current, OfRows, Beside
  <2>5. Filled'
    BY <2>1, <2>3, FilledKeeps DEF Current
  <2> QED BY <2>3, <2>4, <2>5 DEF Current
<1>2. CASE RequestDelete
  <2>1. PICK r \in Rows \ {pendingId} :
            question' = [row |-> r, seen |-> listed[r], early |-> UnderWay # {}, status |-> "idle"]
    BY <1>2 DEF RequestDelete
  <2>2. /\ question'.row = r /\ question'.seen = listed[r]
        /\ ~question'.early => UnderWay = {}
    BY <2>1
  <2>3. /\ UNCHANGED <<listVars, server, form, requests>> /\ form.status = "closed"
        /\ ~isLoading /\ ~error
        /\ Calm' => Calm
    BY <1>2 DEF RequestDelete, RowsShown, Dialog, Calm
  <2>4. \A i \in Slots : Same(requests'[i], requests[i])
    BY <2>3 DEF Same
  <2>5. Alone' /\ Blank' /\ Fresh' /\ Shown' /\ EditsBuildOnLatest'
    BY <2>3, <2>4, RequestsStay
  <2>6. OfRows'
    BY <2>2, <2>3 DEF Current, OfRows
  <2>7. Beside'
    <3>1. \A i \in Slots : requests'[i].op \in Saves \union {"delete"} => UnderWay # {}
      BY <2>3 DEF UnderWay, Saves
    <3> QED BY <2>2, <2>3, <3>1 DEF Beside
  <2>8. Filled'
    <3> SUFFICES ASSUME Calm', ~question'.early PROVE listed[r] = server[r]
      BY <2>2, <2>3 DEF Filled
    <3>1. Calm /\ OnlySent
      BY <2>2, <2>3 DEF OnlySent
    <3>2. listed = server
      BY <2>3, <3>1 DEF Current, Shown
    <3> QED BY <3>2
  <2> QED BY <2>5, <2>6, <2>7, <2>8 DEF Current
<1> QED BY <1>1, <1>2

----------------------------------------------------------------------------
(* A request is sent: with the page to itself, or the calm is over.          *)

LEMMA SentCurrent ==
    ASSUME IInv, Current, HasRoom, NEW q \in RequestRecord, requests' = Sent(q),
           q.op \in Writes \union {"fetch"}, q.is = "sent", q.content = None,
           q.op \in Writes => UNCHANGED listVars, server' = server,
           Calm' => /\ \A i \in Slots : requests[i].op = "free"
                    /\ q.op \in Writes => Calm
                    /\ q.op \in Edits /\ ~q.early => q.seen = server[q.row]
    PROVE  /\ Alone' /\ Blank' /\ Fresh' /\ Shown' /\ EditsBuildOnLatest'
           /\ FreeSlot \in Slots /\ requests[FreeSlot].op = "free" /\ requests'[FreeSlot] = q
           /\ \A i \in Slots \ {FreeSlot} : requests'[i] = requests[i]
<1>1. FreeSlot \in Slots /\ requests[FreeSlot].op = "free"
  BY FreeSlotIsFree
<1>2. /\ requests'[FreeSlot] = q
      /\ \A i \in Slots \ {FreeSlot} : requests'[i] = requests[i]
  BY SentType DEF IInv, TypeOK
<1>3. Blank'
  BY <1>1, <1>2 DEF Current, Blank
<1>4. "fetch" \notin Writes
  BY DEF Writes
<1>5. /\ q.op \in Writes /\ ~isLoading' /\ ~error' /\ Calm' => listed' = server'
  <2> SUFFICES ASSUME q.op \in Writes, ~isLoading', ~error', Calm' PROVE listed' = server'
    OBVIOUS
  <2>1. Calm /\ OnlySent
    BY DEF OnlySent, UnderWay
  <2> QED BY <2>1 DEF Current, Shown, listVars
<1>6. Alone' /\ Fresh' /\ Shown' /\ EditsBuildOnLatest'
  BY <1>1, <1>2, <1>4, <1>5, OneLeft
<1> QED BY <1>1, <1>2, <1>3, <1>6

LEMMA RetryCurrent == ASSUME IInv, Current, Retry PROVE Current'
<1>1. Calm' => \A i \in Slots : requests[i].op = "free"
  BY CalmAtFetch DEF Retry
<1>2. /\ Alone' /\ Blank' /\ Fresh' /\ Shown' /\ EditsBuildOnLatest'
      /\ FreeSlot \in Slots /\ requests[FreeSlot].op = "free" /\ requests'[FreeSlot] = Fetch
      /\ \A i \in Slots \ {FreeSlot} : requests'[i] = requests[i]
  <2>1. /\ HasRoom /\ requests' = Sent(Fetch) /\ server' = server
        /\ Fetch.op \notin Writes /\ Fetch.op \notin Edits
    BY FetchIsSent DEF Retry, Writes, Edits
  <2> QED BY <1>1, <2>1, FetchIsSent, FreeType, SentCurrent
<1>3. form'.status = "closed" /\ question'.status = "closed"
  BY DEF Retry, Dialog
<1>4. OfRows'
  BY <1>2, <1>3, FetchIsSent DEF Current, OfRows, Writes
<1>5. Beside' /\ Filled'
  BY <1>3 DEF Beside, Filled
<1> QED BY <1>2, <1>4, <1>5 DEF Current

LEMMA SubmitCurrent == ASSUME IInv, Current, Submit PROVE Current'
<1> DEFINE q == [Free EXCEPT !.op = IF form.row = NewRow THEN "create" ELSE "update",
                             !.row = form.row, !.filledFor = form.filledFor,
                             !.seen = form.seen, !.early = form.early, !.mine = TRUE]
<1>1. /\ q \in RequestRecord /\ q.row = form.row /\ q.seen = form.seen /\ q.early = form.early
      /\ q.is = "sent" /\ q.content = None
      /\ form.row = NewRow => q.op = "create"
      /\ form.row # NewRow => q.op = "update"
  BY DEF IInv, TypeOK, FormRecord, RequestRecord, Free, Targets, Versions, Writes
<1>2. HasRoom /\ requests' = Sent(q) /\ UNCHANGED <<listVars, server, question>>
  BY DEF Submit
<1>3. /\ form.status # "closed" /\ form'.status # "closed"
      /\ form'.row = form.row /\ form'.seen = form.seen /\ form'.early = form.early
  BY DEF IInv, TypeOK, Submit, FormRecord
<1>4. Calm' => Calm /\ \A i \in Slots : requests[i].op = "free"
  BY CalmWhenSent DEF Submit
<1> HIDE DEF q
<1>5. q.op \in Writes /\ (q.op \in Edits => form.row \in Rows)
  BY <1>1, <1>3 DEF Writes, Edits, Current, OfRows
<1>6. Calm' /\ q.op \in Edits /\ ~q.early => q.seen = server[q.row]
  <2> SUFFICES ASSUME Calm', q.op \in Edits, ~q.early PROVE q.seen = server[q.row]
    OBVIOUS
  <2>1. Calm /\ NothingWritten
    BY <1>4 DEF NothingWritten, Saves
  <2> QED BY <1>1, <1>3, <1>5, <2>1 DEF Current, Filled
<1>7. /\ Alone' /\ Blank' /\ Fresh' /\ Shown' /\ EditsBuildOnLatest'
      /\ FreeSlot \in Slots /\ requests[FreeSlot].op = "free" /\ requests'[FreeSlot] = q
      /\ \A i \in Slots \ {FreeSlot} : requests'[i] = requests[i]
  BY <1>1, <1>2, <1>4, <1>5, <1>6, SentCurrent
<1>8. OfRows'
  BY <1>1, <1>2, <1>3, <1>5, <1>7 DEF Current, OfRows, Writes, Edits
<1>9. Beside'
  <2>1. q.op # "delete"
    BY <1>1
  <2> QED BY <1>2, <1>3, <1>7, <2>1 DEF Current, Beside
<1>10. Filled'
  <2>1. NothingWritten' => NothingWritten
    BY <1>7 DEF NothingWritten, Saves
  <2> QED BY <1>2, <1>3, <1>4, <2>1, FilledKeeps DEF Current
<1> QED BY <1>7, <1>8, <1>9, <1>10 DEF Current

LEMMA ConfirmCurrent == ASSUME IInv, Current, ConfirmDelete PROVE Current'
<1> DEFINE q == [Free EXCEPT !.op = "delete", !.row = question.row,
                             !.filledFor = question.row, !.seen = question.seen]
<1>1. /\ q \in RequestRecord /\ q.op = "delete" /\ q.row = question.row
      /\ q.is = "sent" /\ q.content = None
  BY DEF IInv, TypeOK, QuestionRecord, RequestRecord, Free, Targets, Versions, Writes
<1>2. HasRoom /\ requests' = Sent(q) /\ UNCHANGED <<listVars, server, form>>
  BY DEF ConfirmDelete
<1>3. question.status # "closed" /\ question'.status = "closed"
  BY NoFormFields DEF ConfirmDelete
<1>4. Calm' => Calm /\ \A i \in Slots : requests[i].op = "free"
  BY CalmWhenSent DEF ConfirmDelete
<1> HIDE DEF q
<1>5. q.op \in Writes /\ q.op \notin Edits /\ q.op \notin Saves
  BY <1>1 DEF Writes, Edits, Saves
<1>6. /\ Alone' /\ Blank' /\ Fresh' /\ Shown' /\ EditsBuildOnLatest'
      /\ FreeSlot \in Slots /\ requests[FreeSlot].op = "free" /\ requests'[FreeSlot] = q
      /\ \A i \in Slots \ {FreeSlot} : requests'[i] = requests[i]
  BY <1>1, <1>2, <1>4, <1>5, SentCurrent
<1>7. OfRows'
  BY <1>1, <1>2, <1>3, <1>6 DEF Current, OfRows
<1>8. Beside'
  BY <1>2, <1>3 DEF Current, Beside
<1>9. Filled'
  <2>1. NothingWritten' => NothingWritten
    BY <1>6 DEF NothingWritten, Saves
  <2> QED BY <1>2, <1>3, <1>4, <2>1, FilledKeeps DEF Current, Filled
<1> QED BY <1>6, <1>7, <1>8, <1>9 DEF Current

LEMMA DeactivateCurrent == ASSUME IInv, Current, Deactivate PROVE Current'
<1> DEFINE q == [Free EXCEPT !.op = "deactivate", !.row = question.row,
                             !.filledFor = question.row, !.seen = question.seen,
                             !.early = question.early]
<1>1. /\ q \in RequestRecord /\ q.op = "deactivate" /\ q.row = question.row
      /\ q.seen = question.seen /\ q.early = question.early
      /\ q.is = "sent" /\ q.content = None
  BY DEF IInv, TypeOK, QuestionRecord, RequestRecord, Free, Targets, Versions, Writes
<1>2. HasRoom /\ requests' = Sent(q) /\ UNCHANGED <<listVars, server, form>>
  BY DEF Deactivate
<1>3. /\ question.status # "closed" /\ question'.status # "closed"
      /\ question'.row = question.row /\ question'.seen = question.seen
      /\ question'.early = question.early
  BY DEF IInv, TypeOK, Deactivate, QuestionRecord
<1>4. Calm' => Calm /\ \A i \in Slots : requests[i].op = "free"
  BY CalmWhenSent DEF Deactivate
<1> HIDE DEF q
<1>5. q.op \in Writes /\ q.op \notin Saves \union {"delete"}
  BY <1>1 DEF Writes, Saves
<1>6. Calm' /\ ~q.early => q.seen = server[q.row]
  <2>1. Calm' => Calm /\ NothingWritten
    BY <1>4 DEF NothingWritten, Saves
  <2> QED BY <1>1, <1>3, <2>1 DEF Current, Filled
<1>7. /\ Alone' /\ Blank' /\ Fresh' /\ Shown' /\ EditsBuildOnLatest'
      /\ FreeSlot \in Slots /\ requests[FreeSlot].op = "free" /\ requests'[FreeSlot] = q
      /\ \A i \in Slots \ {FreeSlot} : requests'[i] = requests[i]
  BY <1>1, <1>2, <1>4, <1>5, <1>6, SentCurrent
<1>8. OfRows'
  BY <1>1, <1>2, <1>3, <1>7 DEF Current, OfRows
<1>9. Beside'
  BY <1>1, <1>2, <1>3, <1>5, <1>7 DEF Current, Beside
<1>10. Filled'
  <2>1. NothingWritten' => NothingWritten
    BY <1>7 DEF NothingWritten, Saves
  <2> QED BY <1>2, <1>3, <1>4, <2>1, FilledKeeps DEF Current
<1> QED BY <1>7, <1>8, <1>9, <1>10 DEF Current

----------------------------------------------------------------------------
(* A request is carried out and answered.                                   *)

\* The requests but one stay.
LEMMA Replaced ==
    ASSUME IInv, NEW i \in Slots, NEW q \in RequestRecord, requests' = [requests EXCEPT ![i] = q]
    PROVE  requests'[i] = q /\ \A j \in Slots \ {i} : requests'[j] = requests[j]
  BY ReplacedType DEF IInv, TypeOK

LEMMA ReadCurrent == ASSUME IInv, Current, NEW i \in Slots, AnswerRead(i) PROVE Current'
<1> DEFINE r == requests[i]
           q == [r EXCEPT !.content = server, !.is = IF r.op = "fetch" THEN "read" ELSE "reread"]
<1>1. r \in RequestRecord /\ server \in [Rows -> Versions]
  BY DEF IInv, TypeOK
<1>2. /\ q \in RequestRecord /\ q.op = r.op /\ q.row = r.row /\ q.content = server
      /\ q.is = IF r.op = "fetch" THEN "read" ELSE "reread"
  BY <1>1 DEF RequestRecord
<1>3. requests' = [requests EXCEPT ![i] = q]
  BY DEF AnswerRead
<1>4. requests'[i] = q /\ \A j \in Slots \ {i} : requests'[j] = requests[j]
  BY <1>2, <1>3, Replaced
<1> HIDE DEF q
<1>5. r.op # "free" /\ (r.op = "fetch" \/ r.is = "rereading")
  BY DEF AnswerRead, Current, Blank
<1>6. UNCHANGED <<listVars, form, question, server, mishaps>>
  BY DEF AnswerRead
<1>7. Calm' => Calm /\ \A j \in Slots \ {i} : requests[j].op = "free"
  BY <1>5, <1>6, CalmIsAlone DEF Current, Calm
<1>8. Alone' /\ Fresh' /\ Shown' /\ EditsBuildOnLatest'
  BY <1>2, <1>4, <1>5, <1>6, <1>7, OneLeft
<1>9. Blank'
  BY <1>2, <1>4, <1>5 DEF Current, Blank
<1>10. OfRows' /\ Beside'
  BY <1>2, <1>4, <1>6 DEF Current, OfRows, Beside
<1>11. Filled'
  <2>1. NothingWritten' => NothingWritten
    BY <1>2, <1>4, <1>5 DEF NothingWritten, Saves
  <2> QED BY <1>6, <1>7, <2>1, FilledKeeps DEF Current
<1> QED BY <1>8, <1>9, <1>10, <1>11 DEF Current

LEMMA FetchCurrent == ASSUME IInv, Current, NEW i \in Slots, FetchAnswered(i) PROVE Current'
<1>1. requests'[i] = Free /\ \A j \in Slots \ {i} : requests'[j] = requests[j]
  BY FreeType, Replaced DEF FetchAnswered
<1>2. /\ UNCHANGED <<form, question, server, mishaps>>
      /\ requests[i].op = "fetch" /\ ListAnswered(requests[i])
  BY DEF FetchAnswered
<1>3. Calm' => Calm /\ \A j \in Slots \ {i} : requests[j].op = "free"
  BY <1>2, CalmIsAlone DEF Current, Calm
<1>4. Calm' /\ ~error' => listed' = server'
  BY <1>2, <1>3 DEF ListAnswered, Current, Fresh, UnderWay
<1>5. Alone' /\ Fresh' /\ Shown' /\ EditsBuildOnLatest'
  <2>1. Free.op \notin Edits
    BY FetchIsSent DEF Edits
  <2> QED BY <1>1, <1>3, <1>4, <2>1, FetchIsSent, OneLeft
<1>6. Blank'
  BY <1>1, FetchIsSent DEF Current, Blank
<1>7. OfRows' /\ Beside'
  BY <1>1, <1>2, FetchIsSent DEF Current, OfRows, Beside, Writes, Saves
<1>8. Filled'
  <2>1. NothingWritten' => NothingWritten
    BY <1>1, <1>2 DEF NothingWritten, Saves
  <2> QED BY <1>2, <1>3, <2>1, FilledKeeps DEF Current
<1> QED BY <1>5, <1>6, <1>7, <1>8 DEF Current

LEMMA CarryOutCurrent ==
    ASSUME IInv, Current, NEW i \in Slots, NEW answered \in BOOLEAN, CarryOut(i, answered)
    PROVE  Current'
<1> DEFINE r == requests[i]
           is == IF answered THEN "done" ELSE "lost"
           seen == IF r.op = "create" THEN Absent ELSE changes + 1
           q == [r EXCEPT !.is = is, !.seen = seen]
<1>1. r \in RequestRecord /\ seen \in Versions
  BY AdminAssumption DEF IInv, TypeOK, CarryOut, Versions
<1>2. /\ q \in RequestRecord /\ q.op = r.op /\ q.row = r.row /\ q.content = r.content
      /\ q.is = is
  BY <1>1 DEF RequestRecord
<1>3. requests' = [requests EXCEPT ![i] = q]
  BY DEF CarryOut
<1>4. requests'[i] = q /\ \A j \in Slots \ {i} : requests'[j] = requests[j]
  BY <1>2, <1>3, Replaced
<1> HIDE DEF q, seen
<1>5. r.op \in Writes /\ r.op # "free" /\ r.content = None
  BY DEF CarryOut, Writes, Current, Blank
<1>6. UNCHANGED <<listVars, form, question>> /\ (Calm' => Calm /\ is = "done")
  BY DEF CarryOut, Calm
<1>7. Calm' => \A j \in Slots \ {i} : requests[j].op = "free"
  BY <1>5, <1>6, CalmIsAlone DEF Current
<1>8. Alone' /\ Fresh' /\ Shown' /\ EditsBuildOnLatest'
  BY <1>2, <1>4, <1>5, <1>6, <1>7, OneLeft
<1>9. Blank'
  BY <1>2, <1>4, <1>5 DEF Current, Blank
<1>10. OfRows' /\ Beside'
  BY <1>2, <1>4, <1>6 DEF Current, OfRows, Beside
<1>11. Filled'
  <2>1. CASE r.op = "delete"
    <3>1. (form'.status = "closed" \/ form'.early) /\ (question'.status = "closed" \/ question'.early)
      BY <1>6, <2>1 DEF Current, Beside
    <3> QED BY <3>1 DEF Filled
  <2>2. CASE r.op # "delete"
    <3>1. Calm' => ~NothingWritten'
      BY <1>2, <1>4, <1>5, <1>6, <2>2 DEF NothingWritten, Writes, Saves
    <3> QED BY <3>1 DEF Filled
  <2> QED BY <2>1, <2>2
<1> QED BY <1>8, <1>9, <1>10, <1>11 DEF Current

\* The list is read again by a request of its own.
LEMMA SavedCurrent == ASSUME IInv, Current, NEW i \in Slots, SaveAnswered(i) PROVE Current'
<1> DEFINE rs == [requests EXCEPT ![i] = Fetch]
           gone == [requests EXCEPT ![i] = Free]
<1>1. /\ rs \in [Slots -> RequestRecord] /\ rs[i] = Fetch
      /\ \A j \in Slots \ {i} : rs[j] = requests[j] /\ gone[j] = requests[j]
  BY FreeType DEF IInv, TypeOK
<1>2. requests' = NoneMine(rs) /\ mishaps' = MishapsAtFetch(gone)
  BY DEF SaveAnswered, Reload
<1>3. Calm' => \A j \in Slots \ {i} : requests[j].op = "free"
  BY <1>1, <1>2, CalmAtFetch
<1> HIDE DEF rs, gone
<1>4. Same(requests'[i], Fetch) /\ \A j \in Slots \ {i} : Same(requests'[j], requests[j])
  BY <1>1, <1>2, NoneMineSame
<1>5. /\ form'.status = "closed" /\ requests[i].op \in Saves
      /\ UNCHANGED <<server, question>>
  BY NoFormFields DEF SaveAnswered, Saves
<1>6. Fetch.op \notin Writes \union Saves \union {"delete"} \union Edits
  BY FetchIsSent DEF Writes, Saves, Edits
<1>7. /\ requests'[i].op = "fetch" /\ requests'[i].is = "sent" /\ requests'[i].content = None
      /\ \A j \in Slots \ {i} : /\ requests'[j].op = requests[j].op
                                /\ requests'[j].row = requests[j].row
                                /\ requests'[j].is = requests[j].is
                                /\ requests'[j].content = requests[j].content
  BY <1>4, FetchIsSent DEF Same
<1>8. Alone' /\ Fresh' /\ Shown' /\ EditsBuildOnLatest'
  <2>1. "fetch" \notin Writes \union Edits
    BY <1>6, FetchIsSent
  <2> QED BY <1>3, <1>7, <2>1, OneLeft
<1>9. Blank'
  BY <1>7 DEF Current, Blank
<1>10. OfRows' /\ Beside'
  BY <1>5, <1>6, <1>7, FetchIsSent DEF Current, OfRows, Beside
<1>11. Filled'
  BY <1>5 DEF Current, Beside, Filled
<1> QED BY <1>8, <1>9, <1>10, <1>11 DEF Current

\* The method of a broker follows its other fields: the calm is over.
LEMMA MethodCurrent == ASSUME IInv, Current, NEW i \in Slots, MethodFollows(i) PROVE Current'
<1> DEFINE r == requests[i]
           q == [Free EXCEPT !.op = "setCostBasisMethod", !.row = r.row,
                             !.filledFor = r.filledFor, !.seen = r.seen,
                             !.early = r.early, !.mine = r.mine]
<1>1. r \in RequestRecord /\ r.op = "update" /\ r.row \in Rows
  BY DEF IInv, TypeOK, MethodFollows, Current, OfRows, Writes
<1>2. /\ q \in RequestRecord /\ q.op = "setCostBasisMethod" /\ q.row = r.row
      /\ q.is = "sent" /\ q.content = None
  BY <1>1 DEF RequestRecord, Free, Targets, Versions, Writes
<1>3. FreeSlot \in Slots /\ requests[FreeSlot].op = "free" /\ FreeSlot # i
  BY <1>1, FreeSlotIsFree DEF MethodFollows
<1>4. /\ requests'[FreeSlot] = q /\ requests'[i] = Fetch
      /\ \A j \in Slots \ {FreeSlot, i} : requests'[j] = requests[j]
  <2>1. /\ Sent(q) \in [Slots -> RequestRecord] /\ Sent(q)[FreeSlot] = q
        /\ \A j \in Slots \ {FreeSlot} : Sent(q)[j] = requests[j]
    BY <1>2, SentType DEF IInv, TypeOK, MethodFollows
  <2>2. requests' = [Sent(q) EXCEPT ![i] = Fetch]
    BY DEF MethodFollows
  <2> QED BY <1>3, <2>1, <2>2, FreeType
<1> HIDE DEF q
<1>5. ~Calm' /\ UNCHANGED question
  BY DEF MethodFollows, Calm
<1>6. Alone' /\ Fresh' /\ Shown' /\ Filled' /\ EditsBuildOnLatest'
  BY <1>5 DEF Alone, Fresh, Shown, Filled, EditsBuildOnLatest, Calm
<1>7. Blank'
  BY <1>2, <1>3, <1>4, FetchIsSent DEF Current, Blank
<1>8. /\ form'.row = r.row
      /\ form.early \/ ~r.mine => form'.early
  BY DEF IInv, TypeOK, MethodFollows, FormRecord
<1>9. OfRows'
  BY <1>1, <1>2, <1>3, <1>4, <1>5, <1>8, FetchIsSent DEF Current, OfRows, Writes
<1>10. Beside'
  <2>1. form.status = "closed" => form'.early
    BY <1>8 DEF IInv, Awaited
  <2>2. question.status # "closed" => question.early /\ form'.early
    BY <1>1, <1>8, <2>1 DEF Current, Beside, Saves
  <2>3. (\E j \in Slots : requests'[j].op = "delete") => form'.early
    <3>1. \A j \in Slots : requests'[j].op = "delete" => requests[j].op = "delete"
      BY <1>2, <1>3, <1>4, FetchIsSent
    <3> QED BY <1>8, <2>1, <3>1 DEF Current, Beside
  <2> QED BY <1>5, <2>2, <2>3 DEF Beside
<1> QED BY <1>6, <1>7, <1>9, <1>10 DEF Current

LEMMA RereadCurrent == ASSUME IInv, Current, NEW i \in Slots, SaveReread(i) PROVE Current'
<1> DEFINE r == requests[i]
           q == [r EXCEPT !.is = "rereading"]
           gone == [requests EXCEPT ![i] = Free]
<1>1. r \in RequestRecord
  BY DEF IInv, TypeOK
<1>2. /\ q \in RequestRecord /\ q.op = r.op /\ q.row = r.row /\ q.content = r.content
      /\ q.is = "rereading"
  BY <1>1 DEF RequestRecord
<1>3. requests' = [requests EXCEPT ![i] = q] /\ mishaps' = MishapsAtFetch(gone)
  BY DEF SaveReread
<1>4. requests'[i] = q /\ \A j \in Slots \ {i} : requests'[j] = requests[j]
  BY <1>2, <1>3, Replaced
<1>5. Calm' => \A j \in Slots \ {i} : requests[j].op = "free"
  <2>1. requests \in [Slots -> RequestRecord]
    BY DEF IInv, TypeOK
  <2>2. \A j \in Slots \ {i} : gone[j] = requests[j]
    BY <2>1
  <2>3. mishaps' = MishapsAtFetch(gone)
    BY <1>3
  <2> HIDE DEF gone
  <2> QED BY <2>2, <2>3, CalmAtFetch
<1> HIDE DEF q, gone
<1>6. /\ r.op \in Saves \union {"deactivate"} /\ r.op # "free" /\ r.content = None
      /\ UNCHANGED <<form, question, server>>
  BY DEF SaveReread, Writes, Saves, Current, Blank
<1>7. Alone' /\ Fresh' /\ Shown' /\ EditsBuildOnLatest'
  BY <1>2, <1>4, <1>5, <1>6, OneLeft
<1>8. Blank'
  BY <1>2, <1>4, <1>6 DEF Current, Blank
<1>9. OfRows' /\ Beside'
  BY <1>2, <1>4, <1>6 DEF Current, OfRows, Beside
<1>10. Filled'
  <2>1. ~NothingWritten'
    BY <1>2, <1>4, <1>6 DEF NothingWritten
  <2> QED BY <2>1 DEF Filled
<1> QED BY <1>7, <1>8, <1>9, <1>10 DEF Current

LEMMA RereadAnsweredCurrent ==
    ASSUME IInv, Current, NEW i \in Slots, RereadAnswered(i)
    PROVE  Current'
<1> DEFINE rs == NoneMine(requests)
<1>1. /\ rs \in [Slots -> RequestRecord]
      /\ \A j \in Slots : Same(rs[j], requests[j])
  BY NoneMineType, NoneMineSame DEF IInv, TypeOK
<1>2. requests' = [rs EXCEPT ![i] = Free]
  BY DEF RereadAnswered
<1> HIDE DEF rs
<1>3. requests'[i] = Free /\ \A j \in Slots \ {i} : requests'[j] = rs[j]
  BY <1>1, <1>2
<1>4. \A j \in Slots \ {i} : /\ requests'[j].op = requests[j].op
                             /\ requests'[j].row = requests[j].row
                             /\ requests'[j].is = requests[j].is
                             /\ requests'[j].content = requests[j].content
  BY <1>1, <1>3 DEF Same
<1>5. /\ UNCHANGED <<server, mishaps, page>> /\ ListAnswered(requests[i])
      /\ requests[i].op \in Saves \union {"deactivate"} /\ requests[i].op # "free"
  BY DEF RereadAnswered, Writes, Saves
<1>6. Calm' => Calm /\ \A j \in Slots \ {i} : requests[j].op = "free"
  BY <1>5, CalmIsAlone DEF Current, Calm
<1>7. Calm' /\ ~error' => listed' = server'
  BY <1>5, <1>6 DEF ListAnswered, Current, Fresh, UnderWay
<1>8. Alone' /\ Fresh' /\ Shown' /\ EditsBuildOnLatest'
  <2>1. Free.op \notin Edits
    BY FetchIsSent DEF Edits
  <2> QED BY <1>3, <1>4, <1>6, <1>7, <2>1, FetchIsSent, OneLeft
<1>9. Blank'
  BY <1>3, <1>4, FetchIsSent DEF Current, Blank
<1>10. /\ form'.status = "closed"
       /\ question'.status = "closed" \/ (UNCHANGED question /\ question.early)
  <2>1. CASE requests[i].op = "deactivate"
    <3>1. question'.status = "closed" /\ UNCHANGED form
      BY <2>1, NoFormFields DEF RereadAnswered
    <3>2. form.status = "closed"
      BY <2>1 DEF IInv, Deactivating
    <3> QED BY <3>1, <3>2
  <2>2. CASE requests[i].op # "deactivate"
    <3>1. form'.status = "closed" /\ UNCHANGED question
      BY <2>2, NoFormFields DEF RereadAnswered
    <3>2. question.status # "closed" => question.early
      BY <1>5, <2>2 DEF Current, Beside
    <3> QED BY <3>1, <3>2
  <2> QED BY <2>1, <2>2
<1>11. OfRows'
  BY <1>3, <1>4, <1>10, FetchIsSent DEF Current, OfRows, Writes
<1>12. Beside' /\ Filled'
  BY <1>10 DEF Beside, Filled
<1> QED BY <1>8, <1>9, <1>11, <1>12 DEF Current

\* A write that failed, and was not carried out unless its answer was lost.
LEMMA FailedCurrent ==
    ASSUME IInv, Current, NEW i \in Slots, Fails(requests[i]), requests[i].op \in Writes,
           requests' = [requests EXCEPT ![i] = Free], UNCHANGED <<listVars, server, mishaps>>
    PROVE  /\ Alone' /\ Blank' /\ Fresh' /\ Shown' /\ EditsBuildOnLatest'
           /\ NothingWritten' => NothingWritten
           /\ \A j \in Slots : \/ requests'[j].op = requests[j].op /\ requests'[j].row = requests[j].row
                               \/ requests'[j].op = "free"
<1>1. requests'[i] = Free /\ \A j \in Slots \ {i} : requests'[j] = requests[j]
  BY FreeType, Replaced
<1>2. Calm' => /\ Calm /\ requests[i].is = "sent"
               /\ \A j \in Slots \ {i} : requests[j].op = "free"
  BY CalmIsAlone DEF Current, Calm, Fails, Writes
<1>3. Calm' /\ ~isLoading' /\ ~error' => listed' = server'
  <2>1. Calm' => OnlySent
    BY <1>2 DEF OnlySent, UnderWay
  <2> QED BY <1>2, <2>1 DEF Current, Shown, listVars
<1>4. Alone' /\ Fresh' /\ Shown' /\ EditsBuildOnLatest'
  <2>1. Free.op \notin Edits
    BY FetchIsSent DEF Edits
  <2> QED BY <1>1, <1>2, <1>3, <2>1, FetchIsSent, OneLeft
<1>5. Blank'
  BY <1>1, FetchIsSent DEF Current, Blank
<1>6. NothingWritten' => NothingWritten
  BY <1>1 DEF NothingWritten, Fails
<1> QED BY <1>1, <1>4, <1>5, <1>6, FetchIsSent

LEMMA NotSavedCurrent == ASSUME IInv, Current, NEW i \in Slots, SaveFailed(i) PROVE Current'
<1>1. /\ requests' = [requests EXCEPT ![i] = Free] /\ Fails(requests[i])
      /\ requests[i].op \in Writes
      /\ UNCHANGED <<listVars, server, mishaps, question>>
  BY DEF SaveFailed, Writes
<1>2. /\ Alone' /\ Blank' /\ Fresh' /\ Shown' /\ EditsBuildOnLatest'
      /\ NothingWritten' => NothingWritten
      /\ \A j \in Slots : \/ requests'[j].op = requests[j].op /\ requests'[j].row = requests[j].row
                          \/ requests'[j].op = "free"
  BY <1>1, FailedCurrent
<1>3. /\ form'.row = form.row /\ form'.seen = form.seen /\ form'.early = form.early
      /\ form.status = "closed" => form'.status = "closed"
  BY DEF SaveFailed, IInv, TypeOK, Awaited, FormRecord
<1>4. OfRows'
  BY <1>1, <1>2, <1>3 DEF Current, OfRows, Writes
<1>5. Beside'
  BY <1>1, <1>2, <1>3 DEF Current, Beside, Saves
<1>6. Filled'
  BY <1>1, <1>2, <1>3, FilledKeeps DEF Current, Calm
<1> QED BY <1>2, <1>4, <1>5, <1>6 DEF Current

LEMMA DeletedCurrent == ASSUME IInv, Current, NEW i \in Slots, DeleteAnswered(i) PROVE Current'
<1> DEFINE gone == [requests EXCEPT ![i] = Free]
<1>1. requests'[i] = Fetch /\ \A j \in Slots \ {i} : requests'[j] = requests[j]
  BY FreeType, Replaced DEF DeleteAnswered
<1>2. /\ mishaps' = MishapsAtFetch(gone) /\ UNCHANGED <<form, question, server>>
      /\ requests[i].op = "delete"
  BY DEF DeleteAnswered, Reload
<1>3. Calm' => \A j \in Slots \ {i} : requests[j].op = "free"
  <2>1. requests \in [Slots -> RequestRecord]
    BY DEF IInv, TypeOK
  <2>2. \A j \in Slots \ {i} : gone[j] = requests[j]
    BY <2>1
  <2>3. mishaps' = MishapsAtFetch(gone)
    BY <1>2
  <2> HIDE DEF gone
  <2> QED BY <2>2, <2>3, CalmAtFetch
<1> HIDE DEF gone
<1>4. Alone' /\ Fresh' /\ Shown' /\ EditsBuildOnLatest'
  <2>1. Fetch.op \notin Writes \union Edits
    BY FetchIsSent DEF Writes, Edits
  <2> QED BY <1>1, <1>3, <2>1, FetchIsSent, OneLeft
<1>5. Blank'
  BY <1>1, FetchIsSent DEF Current, Blank
<1>6. OfRows'
  BY <1>1, <1>2, FetchIsSent DEF Current, OfRows, Writes
<1>7. (form'.status = "closed" \/ form'.early) /\ (question'.status = "closed" \/ question'.early)
  BY <1>2 DEF Current, Beside
<1>8. Beside' /\ Filled'
  BY <1>7 DEF Beside, Filled
<1> QED BY <1>4, <1>5, <1>6, <1>8 DEF Current

LEMMA NotDeletedCurrent ==
    ASSUME IInv, Current, NEW i \in Slots, DeleteFailed(i) \/ DeactivateFailed(i)
    PROVE  Current'
<1>1. /\ requests' = [requests EXCEPT ![i] = Free] /\ Fails(requests[i])
      /\ requests[i].op \in Writes
      /\ UNCHANGED <<listVars, server, mishaps, form>>
  BY DEF DeleteFailed, DeactivateFailed, Writes
<1>2. /\ Alone' /\ Blank' /\ Fresh' /\ Shown' /\ EditsBuildOnLatest'
      /\ NothingWritten' => NothingWritten
      /\ \A j \in Slots : \/ requests'[j].op = requests[j].op /\ requests'[j].row = requests[j].row
                          \/ requests'[j].op = "free"
  BY <1>1, FailedCurrent
<1>3. /\ question'.row = question.row /\ question'.seen = question.seen
      /\ question'.early = question.early
      /\ question.status = "closed" => question'.status = "closed"
  BY DEF DeleteFailed, DeactivateFailed, IInv, TypeOK, Deactivating, QuestionRecord
<1>4. OfRows'
  BY <1>1, <1>2, <1>3 DEF Current, OfRows, Writes
<1>5. Beside'
  BY <1>1, <1>2, <1>3 DEF Current, Beside, Saves
<1>6. Filled'
  BY <1>1, <1>2, <1>3, FilledKeeps DEF Current, Calm
<1> QED BY <1>2, <1>4, <1>5, <1>6 DEF Current

LEMMA CurrentStep == IInv /\ Current /\ [Next]_vars => Current'
<1> SUFFICES ASSUME IInv, Current, [Next]_vars PROVE Current'
  OBVIOUS
<1>1. CASE ShowCreate
  <2>1. ~Dialog /\ OpenForm(NewRow, Absent) /\ NewRow \notin Rows
    BY <1>1, AdminAssumption DEF ShowCreate
  <2> QED BY <2>1, OpenCurrent
<1>2. CASE ShowEdit
  <2>1. PICK r \in Rows : OpenForm(r, listed[r])
    BY <1>2 DEF ShowEdit
  <2>2. ~Dialog /\ ~isLoading /\ ~error
    BY <1>2 DEF ShowEdit, RowsShown
  <2> QED BY <2>1, <2>2, OpenCurrent
<1>3. CASE EditFields \/ ShowErrors \/ Dismiss \/ RequestDelete \/ CancelDelete
  BY <1>3, EditCurrent, AskCurrent
<1>4. CASE Retry \/ Submit \/ ConfirmDelete \/ Deactivate
  BY <1>4, RetryCurrent, SubmitCurrent, ConfirmCurrent, DeactivateCurrent
<1>5. ASSUME NEW i \in Slots, AnswerRead(i) \/ FetchAnswered(i) PROVE Current'
  BY <1>5, ReadCurrent, FetchCurrent
<1>6. CASE \E i \in Slots, answered \in BOOLEAN : CarryOut(i, answered)
  BY <1>6, CarryOutCurrent
<1>7. ASSUME NEW i \in Slots,
             SaveAnswered(i) \/ MethodFollows(i) \/ SaveReread(i) \/ RereadAnswered(i) \/ SaveFailed(i)
      PROVE  Current'
  BY <1>7, SavedCurrent, MethodCurrent, RereadCurrent, RereadAnsweredCurrent, NotSavedCurrent
<1>8. ASSUME NEW i \in Slots, DeleteAnswered(i) \/ DeleteFailed(i) \/ DeactivateFailed(i)
      PROVE  Current'
  BY <1>8, DeletedCurrent, NotDeletedCurrent
<1>9. CASE UNCHANGED vars
  <2>1. UNCHANGED <<listVars, form, question, server, requests, mishaps>>
    BY <1>9 DEF vars
  <2>2. (\A i \in Slots : Same(requests'[i], requests[i])) /\ (Calm' => Calm)
    BY <2>1 DEF Same, Calm
  <2>3. /\ Alone' /\ Blank' /\ Fresh' /\ Shown' /\ EditsBuildOnLatest'
        /\ NothingWritten' => NothingWritten
    BY <2>1, <2>2, RequestsStay
  <2>4. OfRows' /\ Beside'
    BY <2>1 DEF Current, OfRows, Beside
  <2>5. Filled'
    BY <2>1, <2>2, <2>3, FilledKeeps DEF Current, Filled
  <2> QED BY <2>3, <2>4, <2>5 DEF Current
<1> QED BY <1>1, <1>2, <1>3, <1>4, <1>5, <1>6, <1>7, <1>8, <1>9 DEF Next

LEMMA CurrentAlways == Spec => []Current
  BY CurrentInit, CurrentStep, Invariance, PTL DEF Spec

\* useCrudResource reads the list again after every change that was answered: once
\* nothing is under way it is the server's, unless two requests overlapped or an answer
\* was lost.
THEOREM ListFollowsServer == Spec => []ListIsCurrentWhenQuiet
<1>1. Current => ListIsCurrentWhenQuiet
  BY DEF Current, Shown, OnlySent, ListIsCurrentWhenQuiet, Calm
<1> QED BY <1>1, CurrentAlways, PTL

\* A save that was not opened beside another request sends the latest version of its
\* record, so that it takes back nothing; the same holds of a deactivation, which sends
\* the listed copy.
THEOREM SavesTakeNothingBack == Spec => []EditsBuildOnLatest
<1>1. Current => EditsBuildOnLatest
  BY DEF Current
<1> QED BY <1>1, CurrentAlways, PTL
=============================================================================
