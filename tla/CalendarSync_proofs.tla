------------------------- MODULE CalendarSync_proofs -------------------------
(***************************************************************************)
(* For any number of cards, requests, connections and calendars: the state *)
(* keeps its shape, no calendar ever holds two events of one card, and a card *)
(* that reads "Synced" has the event that is recorded for it, which shows the *)
(* amount of now, as long as nobody saves a stale connection.               *)
(***************************************************************************)
EXTENDS CalendarSync, TLAPS

----------------------------------------------------------------------------
(* The inductive invariant.                                                *)

\* What holds of the sync inside the lock: where it has a connection in hand it is one,
\* where it has an amount to show there is one, the loop it is in has cards left, and
\* it creates an event only where the card has none.
SyncOk(s) ==
    s # Nobody =>
        /\ s.at \notin {"next", "planning"} => s.copy \in Connection
        /\ s.at \in {"finding", "updating", "creating"} => s.shows \in Amounts
        /\ s.at = "next" => s.todo # <<>>
        /\ s.at = "creating" => EventOf(s.card, s.copy.calendar) = {}

Spent == [requests : Nat, connects : Nat, calendars : Nat, events : Nat]

IInv ==
    /\ TypeOK /\ OneEventPerCard
    /\ spent \in Spent
    /\ SyncOk(sync)
    /\ joining # Nobody /\ joining.at # "finding" => joining.copy \in Connection

LEMMA IInvInit == ASSUME Init PROVE IInv
<1>1. TypeOK
  <2>1. waiting \in [Cards -> [told : Nat, asked : Nat]]
    BY DEF Init, NoRequests
  <2>2. status \in [Cards -> {"none", "pending", "synced", "error"}]
    BY DEF Init
  <2>3. /\ calendars \subseteq 1..MaxCalendars
        /\ events \subseteq [id : 1..MaxEvents, calendar : 1..MaxCalendars, card : Cards,
                             shows : Amounts]
        /\ unread \subseteq Cards /\ unhealed \subseteq Cards
    BY DEF Init
  <2>4. now \in 0..MaxExpiries
    BY ConstantsAssumption DEF Init
  <2>5. QED
    BY <2>1, <2>2, <2>3, <2>4 DEF Init, TypeOK
<1>2. QED
  BY <1>1 DEF Init, IInv, OneEventPerCard, Spent, SyncOk

----------------------------------------------------------------------------
(* The operators.                                                          *)

LEMMA ConnectionChanges ==
    ASSUME NEW copy \in Connection, now \in 0..MaxExpiries
    PROVE  /\ Refreshed(copy) \in Connection
           /\ Tombstone(copy) \in Connection
           /\ \A c \in Cards, e \in 0..MaxEvents :
                 [copy EXCEPT !.events[c] = e] \in Connection
           /\ \A k \in 1..MaxCalendars :
                 [copy EXCEPT !.calendar = k, !.events = NoEvents] \in Connection
<1>1. Refreshed(copy) \in Connection /\ Tombstone(copy) \in Connection
  BY DEF Refreshed, Tombstone, Connection
<1>2. ASSUME NEW c \in Cards, NEW e \in 0..MaxEvents
      PROVE  [copy EXCEPT !.events[c] = e] \in Connection
  BY DEF Connection
<1>3. NoEvents \in [Cards -> 0..MaxEvents]
  BY ConstantsAssumption DEF NoEvents
<1>4. ASSUME NEW k \in 1..MaxCalendars
      PROVE  [copy EXCEPT !.calendar = k, !.events = NoEvents] \in Connection
  BY <1>3 DEF Connection
<1>5. QED
  BY <1>1, <1>2, <1>4

\* Where a call may leave the sync, or begin it: not about to create an event.
Between(s) ==
    /\ s \in SyncRecord \union {Nobody}
    /\ s # Nobody =>
          /\ s.at \in {"next", "refreshing", "planning"}
          /\ s.at = "refreshing" => s.copy \in Connection
          /\ s.at = "next" => s.todo # <<>>

LEMMA ReturnedBetween == ASSUME NEW s \in SyncRecord PROVE Between(Returned(s))
<1>1. NewSync(s.origin, s.kind) \in SyncRecord
  BY ConstantsAssumption DEF NewSync, SyncRecord
<1>2. CASE s.todo = <<>>
  BY <1>2 DEF Returned, Between
<1>3. CASE s.todo # <<>>
  <2> DEFINE t == [NewSync(s.origin, s.kind) EXCEPT !.card = s.card, !.todo = s.todo]
  <2>1. t \in SyncRecord /\ t.at = "next" /\ t.todo = s.todo
    BY <1>1 DEF NewSync, SyncRecord
  <2>2. Returned(s) = t
    BY <1>3 DEF Returned
  <2>3. QED
    BY <1>3, <2>1, <2>2 DEF Between
<1>4. QED
  BY <1>2, <1>3

LEMMA LoadedBetween ==
    ASSUME NEW s \in SyncRecord, store \in Connection \union {NoConnection}
    PROVE  Between(Loaded(s))
<1>1. CASE ~Live(store)
  BY <1>1, ReturnedBetween DEF Loaded
<1>2. CASE Live(store) /\ Expired(store)
  <2> DEFINE t == [s EXCEPT !.at = "refreshing", !.copy = store]
  <2>1. t \in SyncRecord /\ t.at = "refreshing" /\ t.copy = store /\ store \in Connection
    BY <1>2 DEF Live, SyncRecord
  <2>2. QED
    BY <1>2, <2>1 DEF Loaded, Between
<1>3. CASE Live(store) /\ ~Expired(store)
  <2> DEFINE t == [s EXCEPT !.at = "planning"]
  <2>1. t \in SyncRecord /\ t.at = "planning"
    BY DEF SyncRecord
  <2>2. QED
    BY <1>3, <2>1 DEF Loaded, Between
<1>4. QED
  BY <1>1, <1>2, <1>3

LEMMA BetweenOk == ASSUME Between(sync)' PROVE (sync \in SyncRecord \union {Nobody})' /\ SyncOk(sync)'
BY DEF Between, SyncOk

\* A call about an event is chosen, or answered, with events that there are or fewer.
LEMMA SyncOkKept ==
    ASSUME SyncOk(sync), sync' = sync, events' \subseteq events
    PROVE  SyncOk(sync)'
BY DEF SyncOk, EventOf

LEMMA OneEventKept ==
    ASSUME OneEventPerCard, events' \subseteq events
    PROVE  OneEventPerCard'
BY DEF OneEventPerCard

\* Answer and Returned: the status of the card, and where the sync goes on.
LEMMA AnswerOk ==
    ASSUME TypeOK, sync # Nobody, NEW outcome \in {"synced", "error"}, Answer(outcome)
    PROVE  /\ status' \in [Cards -> {"none", "pending", "synced", "error"}]
           /\ (sync \in SyncRecord \union {Nobody})' /\ SyncOk(sync)'
<1>1. sync \in SyncRecord
  BY DEF TypeOK
<1>2. Between(sync)'
  BY <1>1, ReturnedBetween DEF Answer, Between
<1>3. status' \in [Cards -> {"none", "pending", "synced", "error"}]
  BY <1>1 DEF Answer, TypeOK, SyncRecord
<1>4. QED
  BY <1>2, <1>3, BetweenOk

----------------------------------------------------------------------------
(* The steps.                                                              *)

\* The cards.
LEMMA IInvCard ==
    ASSUME IInv, NEW c \in Cards, ChangeCard(c) \/ PayCard(c) \/ Resync(c)
    PROVE  IInv'
<1> USE DEF requestVars, providerVars, historyVars
<1>1. TypeOK /\ spent \in Spent
  BY DEF IInv
<1>2. /\ UNCHANGED <<store, sync, requestVars, providerVars, now, clobbered, unhealed>>
      /\ Spend
  BY DEF ChangeCard, PayCard, Resync
<1>3. spent' \in Spent
  BY <1>1, <1>2 DEF Spend, Spent
<1>4. waiting' \in [Cards -> [told : Nat, asked : Nat]]
  BY <1>1 DEF TypeOK, ChangeCard, PayCard, Resync, TriggerSync
<1>5. /\ status' \in [Cards -> {"none", "pending", "synced", "error"}]
      /\ unread' \subseteq Cards
  BY <1>1 DEF TypeOK, ChangeCard, PayCard, Resync, TriggerSync
<1>6. amount' \in [Cards -> Amounts \union {NothingDue}]
  BY <1>1 DEF TypeOK, ChangeCard, PayCard, Resync
<1>7. TypeOK'
  BY <1>1, <1>2, <1>4, <1>5, <1>6 DEF TypeOK
<1>8. SyncOk(sync)' /\ OneEventPerCard'
  BY <1>2, SyncOkKept, OneEventKept DEF IInv
<1>9. QED
  BY <1>2, <1>3, <1>7, <1>8 DEF IInv

\* A sync gets the lock, or the loop goes on to its next card.
LEMMA IInvBegin ==
    ASSUME IInv, NEW c \in Cards,
           (\E kind \in {"told", "asked"} : StartSync(c, kind)) \/ NextCard(c)
    PROVE  IInv'
<1> USE DEF requestVars, providerVars, historyVars
<1>1. TypeOK
  BY DEF IInv
<1>2. /\ UNCHANGED <<amount, store, status, requestVars, providerVars, now, spent,
                     historyVars>>
  BY DEF StartSync, NextCard
<1>3. waiting' \in [Cards -> [told : Nat, asked : Nat]] /\ Between(sync)'
  <2>1. CASE NextCard(c)
    <3>1. sync \in SyncRecord /\ sync.todo # <<>> /\ sync.todo \in Seq(SUBSET Cards)
      BY <1>1, <2>1 DEF NextCard, At, IInv, SyncOk, TypeOK, SyncRecord
    <3> DEFINE rest == Head(sync.todo) \ {c}
               todo == IF rest = {} THEN Tail(sync.todo) ELSE <<rest>> \o Tail(sync.todo)
               s == [sync EXCEPT !.card = c, !.todo = todo]
    <3>2. Head(sync.todo) \in SUBSET Cards /\ Tail(sync.todo) \in Seq(SUBSET Cards)
      BY <3>1
    <3>3. todo \in Seq(SUBSET Cards)
      <4>1. rest \in SUBSET Cards
        BY <3>2
      <4> HIDE DEF rest
      <4>2. <<rest>> \in Seq(SUBSET Cards)
        BY <4>1
      <4>3. <<rest>> \o Tail(sync.todo) \in Seq(SUBSET Cards)
        BY <3>2, <4>2
      <4>4. QED
        BY <3>2, <4>3
    <3>4. s \in SyncRecord
      BY <3>1, <3>3 DEF SyncRecord
    <3>5. Between(Loaded(s))
      BY <1>1, <3>4, LoadedBetween DEF TypeOK
    <3>6. sync' = Loaded(s) /\ waiting' = waiting
      BY <2>1 DEF NextCard
    <3>7. QED
      BY <1>1, <3>5, <3>6 DEF Between, TypeOK
  <2>2. ASSUME NEW kind \in {"told", "asked"}, StartSync(c, kind)
        PROVE  waiting' \in [Cards -> [told : Nat, asked : Nat]] /\ Between(sync)'
    <3>1. NewSync(c, kind) \in SyncRecord
      BY ConstantsAssumption DEF NewSync, SyncRecord
    <3>2. Between(Loaded(NewSync(c, kind)))
      BY <1>1, <3>1, LoadedBetween DEF TypeOK
    <3>3. Between(sync)'
      BY <2>2, <3>2 DEF StartSync, Between
    <3>4. waiting[c] \in [told : Nat, asked : Nat] /\ waiting[c][kind] \in Nat \ {0}
      BY <1>1, <2>2 DEF TypeOK, StartSync
    <3>5. [waiting[c] EXCEPT ![kind] = waiting[c][kind] - 1] \in [told : Nat, asked : Nat]
      BY <3>4
    <3>6. waiting' = [waiting EXCEPT ![c] = [waiting[c] EXCEPT ![kind] = waiting[c][kind] - 1]]
      BY <1>1, <2>2 DEF StartSync, TypeOK
    <3>7. QED
      BY <1>1, <3>3, <3>5, <3>6 DEF TypeOK
  <2>3. QED
    BY <2>1, <2>2
<1>4. SyncOk(sync)' /\ (sync \in SyncRecord \union {Nobody})'
  BY <1>3, BetweenOk
<1>5. TypeOK'
  BY <1>1, <1>2, <1>3, <1>4 DEF TypeOK
<1>6. OneEventPerCard'
  BY <1>2, OneEventKept DEF IInv
<1>7. QED
  BY <1>2, <1>4, <1>5, <1>6 DEF IInv

\* The sync's token is refreshed, revoked, or the refresh throws.
LEMMA IInvRefresh == ASSUME IInv, SyncRefresh PROVE IInv'
<1> USE DEF requestVars, providerVars
<1>1. TypeOK /\ now \in 0..MaxExpiries
  BY DEF IInv, TypeOK
<1>2. UNCHANGED <<amount, requestVars, providerVars, now, spent, unhealed>>
  BY DEF SyncRefresh
<1>3. sync \in SyncRecord /\ sync.copy \in Connection
  BY <1>1 DEF SyncRefresh, At, IInv, SyncOk, TypeOK
<1>4. Refreshed(sync.copy) \in Connection /\ Tombstone(sync.copy) \in Connection
  BY <1>1, <1>3, ConnectionChanges
<1>5. /\ store' \in Connection \union {NoConnection} /\ clobbered' \in BOOLEAN
      /\ status' \in [Cards -> {"none", "pending", "synced", "error"}]
      /\ waiting' \in [Cards -> [told : Nat, asked : Nat]]
      /\ unread' \subseteq Cards
      /\ Between(sync)'
  <2>1. CASE /\ Save(sync.copy, Refreshed(sync.copy))
             /\ sync' = [sync EXCEPT !.at = "planning", !.copy = NoConnection]
             /\ UNCHANGED <<status, waiting, unread>>
    <3>1. [sync EXCEPT !.at = "planning", !.copy = NoConnection] \in SyncRecord
      BY <1>3 DEF SyncRecord
    <3>2. Between(sync)'
      BY <1>3, <2>1, <3>1 DEF Between, SyncRecord
    <3>3. QED
      BY <1>1, <1>4, <2>1, <3>2 DEF Save, TypeOK
  <2>2. CASE /\ Save(sync.copy, Tombstone(sync.copy))
             /\ sync' = Returned(sync)
             /\ UNCHANGED <<status, waiting, unread>>
    <3>1. Between(sync)'
      BY <1>3, <2>2, ReturnedBetween DEF Between
    <3>2. QED
      BY <1>1, <1>4, <2>2, <3>1 DEF Save, TypeOK
  <2>3. CASE Throw
    <3>1. Between(sync)' /\ UNCHANGED <<store, clobbered>>
      BY <2>3 DEF Throw, Between
    <3>2. sync.card \in Cards /\ UNION ToSet(sync.todo) \subseteq Cards
      <4>1. sync.card \in Cards /\ sync.todo \in Seq(SUBSET Cards)
        BY <1>3 DEF SyncRecord
      <4>2. \A cs \in ToSet(sync.todo) : cs \in SUBSET Cards
        BY <4>1 DEF ToSet
      <4>3. QED
        BY <4>1, <4>2
    <3>3. unread' \subseteq Cards
      BY <1>1, <2>3, <3>2 DEF Throw, TypeOK
    <3>4. status' \in [Cards -> {"none", "pending", "synced", "error"}]
      BY <1>1, <2>3 DEF Throw, TypeOK
    <3>5. waiting' \in [Cards -> [told : Nat, asked : Nat]]
      BY <1>1, <2>3 DEF Throw, TypeOK
    <3>6. QED
      BY <1>1, <3>1, <3>3, <3>4, <3>5 DEF TypeOK
  <2>4. QED
    BY <2>1, <2>2, <2>3 DEF SyncRefresh
<1>6. SyncOk(sync)' /\ (sync \in SyncRecord \union {Nobody})'
  BY <1>5, BetweenOk
<1>7. TypeOK'
  BY <1>1, <1>2, <1>5, <1>6 DEF TypeOK
<1>8. OneEventPerCard'
  BY <1>2, OneEventKept DEF IInv
<1>9. QED
  BY <1>2, <1>6, <1>7, <1>8 DEF IInv

\* The sync chooses its call.
LEMMA IInvPlan == ASSUME IInv, Plan PROVE IInv'
<1> USE DEF requestVars, providerVars
<1>1. TypeOK
  BY DEF IInv
<1>2. UNCHANGED <<amount, store, waiting, requestVars, providerVars, now, spent, clobbered,
                  unhealed>>
  BY DEF Plan
<1>3. sync \in SyncRecord /\ sync # Nobody /\ sync.card \in Cards
  BY <1>1 DEF Plan, At, TypeOK, SyncRecord
<1>4. unread' \subseteq Cards
  BY <1>1 DEF Plan, TypeOK
<1>5. /\ status' \in [Cards -> {"none", "pending", "synced", "error"}]
      /\ (sync \in SyncRecord \union {Nobody})' /\ SyncOk(sync)'
  <2>1. CASE ~Live(store)
    <3>1. sync' = Returned(sync) /\ status' = status
      BY <2>1 DEF Plan
    <3>2. Between(sync)'
      BY <1>3, <3>1, ReturnedBetween DEF Between
    <3>3. QED
      BY <1>1, <3>1, <3>2, BetweenOk DEF TypeOK
  <2>2. CASE Live(store) /\ Answer("synced")
    BY <1>1, <1>3, <2>2, AnswerOk
  <2>3. CASE Live(store) /\ ~(amount[sync.card] = NothingDue /\ store.events[sync.card] = 0)
    <3> DEFINE place == IF amount[sync.card] = NothingDue THEN "deleting"
                        ELSE IF store.events[sync.card] = 0 THEN "finding" ELSE "updating"
               call == [sync EXCEPT !.at = place, !.copy = store,
                                    !.event = store.events[sync.card],
                                    !.shows = amount[sync.card]]
    <3>1. sync' = call /\ status' = status
      BY <2>3 DEF Plan
    <3>2. /\ store \in Connection /\ store.events[sync.card] \in 0..MaxEvents
          /\ amount[sync.card] \in Amounts \union {NothingDue}
      BY <1>1, <1>3, <2>3 DEF Live, TypeOK, Connection
    <3>3. call \in SyncRecord /\ call.at = place /\ call.copy = store
          /\ call.shows = amount[sync.card]
      BY <1>3, <3>2 DEF SyncRecord, Calls
    <3>4. SyncOk(call)
      BY <3>2, <3>3 DEF SyncOk
    <3>5. QED
      BY <1>1, <3>1, <3>2, <3>3 DEF SyncOk, TypeOK
  <2>4. QED
    BY <2>1, <2>2, <2>3 DEF Plan
<1>6. TypeOK'
  BY <1>1, <1>2, <1>4, <1>5 DEF TypeOK
<1>7. OneEventPerCard'
  BY <1>2, OneEventKept DEF IInv
<1>8. QED
  BY <1>2, <1>5, <1>6, <1>7 DEF IInv

\* The sync looks for an event: it creates one only if there is none.
LEMMA IInvFind == ASSUME IInv, FindEvent PROVE IInv'
<1> USE DEF requestVars, providerVars, historyVars
<1>1. TypeOK
  BY DEF IInv
<1>2. UNCHANGED <<amount, store, status, waiting, requestVars, providerVars, now, spent,
                  historyVars>>
  BY DEF FindEvent
<1>3. /\ sync \in SyncRecord /\ sync.copy \in Connection /\ sync.shows \in Amounts
  BY <1>1 DEF FindEvent, At, IInv, SyncOk, TypeOK
<1> DEFINE found == EventOf(sync.card, sync.copy.calendar)
<1>4. (sync \in SyncRecord \union {Nobody})' /\ SyncOk(sync)'
  <2>1. CASE found = {}
    <3>1. sync' = [sync EXCEPT !.at = "creating"]
      BY <2>1 DEF FindEvent
    <3>2. /\ sync' \in SyncRecord /\ sync'.at = "creating" /\ sync'.copy = sync.copy
          /\ sync'.shows = sync.shows /\ sync'.card = sync.card
      BY <1>3, <3>1 DEF SyncRecord, Calls
    <3>3. QED
      BY <1>2, <1>3, <2>1, <3>2 DEF SyncOk, EventOf
  <2>2. CASE found # {}
    <3>1. PICK e \in found : sync' = [sync EXCEPT !.at = "updating", !.event = e.id]
      BY <2>2 DEF FindEvent
    <3>2. e.id \in 0..MaxEvents
      BY <1>1, <3>1 DEF EventOf, TypeOK
    <3>3. /\ sync' \in SyncRecord /\ sync'.at = "updating" /\ sync'.copy = sync.copy
          /\ sync'.shows = sync.shows
      BY <1>3, <3>1, <3>2 DEF SyncRecord, Calls
    <3>4. QED
      BY <1>3, <3>3 DEF SyncOk
  <2>3. QED
    BY <2>1, <2>2
<1>5. TypeOK'
  BY <1>1, <1>2, <1>4 DEF TypeOK
<1>6. OneEventPerCard'
  BY <1>2, OneEventKept DEF IInv
<1>7. QED
  BY <1>2, <1>4, <1>5, <1>6 DEF IInv

\* The answer of a call that took effect.
LEMMA AnsweredOk ==
    ASSUME IInv, sync \in SyncRecord, sync # Nobody, sync.copy \in Connection,
           NEW event \in 0..MaxEvents, Answered(event)
    PROVE  /\ store' \in Connection \union {NoConnection} /\ clobbered' \in BOOLEAN
           /\ status' \in [Cards -> {"none", "pending", "synced", "error"}]
           /\ (sync \in SyncRecord \union {Nobody})' /\ SyncOk(sync)'
<1>1. TypeOK /\ now \in 0..MaxExpiries /\ sync.card \in Cards
  BY DEF IInv, TypeOK, SyncRecord
<1>2. [sync.copy EXCEPT !.events[sync.card] = event] \in Connection
  BY <1>1, ConnectionChanges
<1>3. store' \in Connection \union {NoConnection} /\ clobbered' \in BOOLEAN
  BY <1>1, <1>2 DEF Answered, SetEventMapping, Save, TypeOK
<1>4. QED
  BY <1>1, <1>3, AnswerOk DEF Answered

\* The sync updates, creates or deletes an event.
LEMMA IInvEvent == ASSUME IInv, UpdateEvent \/ CreateEvent \/ DeleteEvent PROVE IInv'
<1> USE DEF requestVars
<1>1. TypeOK /\ OneEventPerCard /\ spent \in Spent
  BY DEF IInv
<1>2. UNCHANGED <<amount, waiting, requestVars, calendars, now, unread, unhealed>>
  BY DEF UpdateEvent, CreateEvent, DeleteEvent
<1>3. /\ sync \in SyncRecord /\ sync # Nobody /\ sync.copy \in Connection
  BY <1>1 DEF UpdateEvent, CreateEvent, DeleteEvent, At, IInv, SyncOk, TypeOK
<1>4. sync.event \in 0..MaxEvents /\ sync.card \in Cards /\ sync.copy.calendar \in 1..MaxCalendars
  BY <1>3 DEF SyncRecord, Connection
<1> DEFINE EventType == [id : 1..MaxEvents, calendar : 1..MaxCalendars, card : Cards,
                         shows : Amounts]
<1>5. events \subseteq EventType
  BY <1>1 DEF TypeOK
<1>6. /\ events' \subseteq EventType /\ OneEventPerCard' /\ spent' \in Spent
      /\ \E event \in 0..MaxEvents : Answered(event)
  <2>1. CASE UpdateEvent
    <3> DEFINE showing(e) == [e EXCEPT !.shows = sync.shows]
    <3>1. sync.shows \in Amounts
      BY <2>1 DEF UpdateEvent, At, IInv, SyncOk
    <3>2. \A e \in EventType : /\ showing(e) \in EventType
                               /\ showing(e).card = e.card /\ showing(e).calendar = e.calendar
      BY <3>1
    <3>3. events' = (events \ TheEvent) \union {showing(e) : e \in TheEvent}
      BY <2>1 DEF UpdateEvent
    <3>4. TheEvent \subseteq events
      BY DEF TheEvent
    <3>5. \A f \in events' : \E e \in events :
              /\ f = IF e \in TheEvent THEN showing(e) ELSE e
              /\ f.card = e.card /\ f.calendar = e.calendar
      BY <1>5, <3>2, <3>3, <3>4
    <3>6. OneEventPerCard'
      BY <1>1, <3>5 DEF OneEventPerCard
    <3>7. events' \subseteq EventType
      BY <1>5, <3>2, <3>3, <3>4
    <3>8. QED
      BY <1>1, <1>4, <2>1, <3>6, <3>7 DEF UpdateEvent
  <2>2. CASE CreateEvent
    <3> DEFINE new == [id |-> spent.events + 1, calendar |-> sync.copy.calendar,
                       card |-> sync.card, shows |-> sync.shows]
    <3>1. /\ sync.shows \in Amounts /\ EventOf(sync.card, sync.copy.calendar) = {}
          /\ spent.events < MaxEvents /\ spent.events \in Nat
      BY <1>1, <2>2 DEF CreateEvent, At, IInv, SyncOk, Spent
    <3>2. spent.events + 1 \in 1..MaxEvents
      BY <3>1, ConstantsAssumption
    <3>3. events' = events \union {new} /\ new \in EventType
      BY <1>4, <2>2, <3>1, <3>2 DEF CreateEvent
    <3>4. \A e \in events : ~(e.card = new.card /\ e.calendar = new.calendar)
      BY <3>1 DEF EventOf
    <3>5. OneEventPerCard'
      BY <1>1, <3>3, <3>4 DEF OneEventPerCard
    <3>6. spent' \in Spent
      BY <1>1, <2>2, <3>1 DEF CreateEvent, Spent
    <3>7. QED
      BY <1>5, <2>2, <3>2, <3>3, <3>5, <3>6 DEF CreateEvent
  <2>3. CASE DeleteEvent
    BY <1>1, <1>5, <2>3, OneEventKept, ConstantsAssumption DEF DeleteEvent
  <2>4. QED
    BY <2>1, <2>2, <2>3
<1>7. PICK event \in 0..MaxEvents : Answered(event)
  BY <1>6
<1>8. /\ store' \in Connection \union {NoConnection} /\ clobbered' \in BOOLEAN
      /\ status' \in [Cards -> {"none", "pending", "synced", "error"}]
      /\ (sync \in SyncRecord \union {Nobody})' /\ SyncOk(sync)'
  BY <1>3, <1>7, AnsweredOk
<1>9. TypeOK'
  BY <1>1, <1>2, <1>6, <1>8 DEF TypeOK
<1>10. QED
  BY <1>2, <1>6, <1>8, <1>9 DEF IInv

\* A call fails, or its calendar or event is not found.
LEMMA IInvFail == ASSUME IInv, CallFails \/ NotFound PROVE IInv'
<1> USE DEF requestVars, providerVars, historyVars
<1>1. TypeOK
  BY DEF IInv
<1>2. UNCHANGED <<amount, store, waiting, requestVars, providerVars, now, spent, historyVars>>
  BY DEF CallFails, NotFound
<1>3. sync \in SyncRecord /\ sync # Nobody
  BY <1>1 DEF CallFails, NotFound, TypeOK
<1>4. /\ status' \in [Cards -> {"none", "pending", "synced", "error"}]
      /\ (sync \in SyncRecord \union {Nobody})' /\ SyncOk(sync)'
  <2>1. CASE CallFails
    BY <1>1, <1>3, <2>1, AnswerOk DEF CallFails
  <2>2. CASE NotFound /\ ~Live(store)
    <3>1. sync' = Returned(sync) /\ status' = status
      BY <2>2 DEF NotFound
    <3>2. Between(Returned(sync))
      BY <1>3, ReturnedBetween
    <3>3. Between(sync)'
      BY <3>1, <3>2 DEF Between
    <3>4. QED
      BY <1>1, <3>1, <3>3, BetweenOk DEF TypeOK
  <2>3. CASE NotFound /\ Live(store)
    <3> DEFINE call == [sync EXCEPT !.at = "recreating", !.copy = store,
                                    !.event = 0, !.shows = NothingDue]
    <3>1. sync' = call /\ status' = status /\ store \in Connection
      BY <1>1, <2>3 DEF NotFound, Live, TypeOK
    <3>2. call \in SyncRecord /\ call.at = "recreating" /\ call.copy = store
      <4>1. 0 \in 0..MaxEvents
        BY ConstantsAssumption
      <4>2. QED
        BY <1>3, <3>1, <4>1 DEF SyncRecord
    <3>3. QED
      BY <1>1, <3>1, <3>2 DEF SyncOk, TypeOK
  <2>4. QED
    BY <2>1, <2>2, <2>3
<1>5. TypeOK'
  BY <1>1, <1>2, <1>4 DEF TypeOK
<1>6. OneEventPerCard'
  BY <1>2, OneEventKept DEF IInv
<1>7. QED
  BY <1>2, <1>4, <1>5, <1>6 DEF IInv

\* The calendar is created again, or cannot be.
LEMMA IInvRecreate == ASSUME IInv, RecreateCalendar PROVE IInv'
<1> USE DEF requestVars, providerVars
<1>1. TypeOK /\ now \in 0..MaxExpiries /\ spent \in Spent
  BY DEF IInv, TypeOK
<1>2. UNCHANGED <<amount, status, waiting, requestVars, now, unread>> /\ events' = events
  BY DEF RecreateCalendar
<1>3. sync \in SyncRecord /\ sync # Nobody /\ sync.copy \in Connection /\ sync.card \in Cards
  BY <1>1 DEF RecreateCalendar, At, IInv, SyncOk, TypeOK, SyncRecord
<1> DEFINE Recreated ==
      /\ store' \in Connection \union {NoConnection} /\ clobbered' \in BOOLEAN
      /\ calendars' \subseteq 1..MaxCalendars /\ unhealed' \subseteq Cards
      /\ spent' \in Spent /\ Between(sync)'
<1>4. Recreated
  <2>1. ASSUME NEW k \in 1..MaxCalendars, NEW cs \in Qualifying,
               CreateCalendar(k),
               Save(sync.copy, [sync.copy EXCEPT !.calendar = k, !.events = NoEvents]),
               sync' = Returned([sync EXCEPT !.todo = IF cs = {} THEN sync.todo
                                                      ELSE <<cs>> \o sync.todo]),
               unhealed' = IF sync.card \in cs THEN unhealed ELSE unhealed \union {sync.card}
        PROVE  Recreated
    <3> DEFINE todo == IF cs = {} THEN sync.todo ELSE <<cs>> \o sync.todo
               s == [sync EXCEPT !.todo = todo]
    <3>1. cs \in SUBSET Cards /\ sync.todo \in Seq(SUBSET Cards)
      BY <1>3 DEF Qualifying, SyncRecord
    <3>2. todo \in Seq(SUBSET Cards)
      <4>1. <<cs>> \in Seq(SUBSET Cards)
        BY <3>1
      <4>2. <<cs>> \o sync.todo \in Seq(SUBSET Cards)
        BY <3>1, <4>1
      <4>3. QED
        BY <3>1, <4>2
    <3>3. s \in SyncRecord
      BY <1>3, <3>2 DEF SyncRecord
    <3>4. Between(Returned(s)) /\ sync' = Returned(s)
      BY <2>1, <3>3, ReturnedBetween
    <3>5. Between(sync)'
      BY <3>4 DEF Between
    <3>6. [sync.copy EXCEPT !.calendar = k, !.events = NoEvents] \in Connection
      BY <1>1, <1>3, ConnectionChanges
    <3>7. store' \in Connection \union {NoConnection} /\ clobbered' \in BOOLEAN
      BY <1>1, <2>1, <3>6 DEF Save, TypeOK
    <3>8. calendars' \subseteq 1..MaxCalendars /\ spent' \in Spent
      <4>1. k \in Nat
        OBVIOUS
      <4>2. spent' \in Spent
        BY <1>1, <2>1, <4>1 DEF CreateCalendar, Spent
      <4>3. QED
        BY <1>1, <2>1, <4>2 DEF CreateCalendar, TypeOK
    <3>9. unhealed' \subseteq Cards
      BY <1>1, <1>3, <2>1 DEF TypeOK
    <3>10. QED
      BY <3>5, <3>7, <3>8, <3>9
  <2>2. CASE /\ sync' = Returned(sync)
             /\ unhealed' = unhealed \union {sync.card}
             /\ UNCHANGED <<store, clobbered, providerVars, spent>>
    <3>1. Between(Returned(sync))
      BY <1>3, ReturnedBetween
    <3>2. Between(sync)'
      BY <2>2, <3>1 DEF Between
    <3>3. QED
      BY <1>1, <1>3, <2>2, <3>2 DEF TypeOK
  <2>3. QED
    <3> HIDE DEF Recreated
    <3>1. QED
      BY <2>1, <2>2 DEF RecreateCalendar
<1>5. SyncOk(sync)' /\ (sync \in SyncRecord \union {Nobody})'
  BY <1>4, BetweenOk
<1>6. TypeOK'
  BY <1>1, <1>2, <1>4, <1>5 DEF TypeOK
<1>7. OneEventPerCard'
  BY <1>2, OneEventKept DEF IInv
<1>8. QED
  BY <1>2, <1>4, <1>5, <1>6, <1>7 DEF IInv

\* A status request.
LEMMA IInvPoll == ASSUME IInv, PollLoads \/ PollRefreshes PROVE IInv'
<1> USE DEF requestVars, providerVars, historyVars
<1>1. TypeOK /\ now \in 0..MaxExpiries
  BY DEF IInv, TypeOK
<1>2. UNCHANGED <<amount, status, waiting, sync, leaving, joining, providerVars, now, spent,
                  unread, unhealed>>
  BY DEF PollLoads, PollRefreshes
<1>3. /\ store' \in Connection \union {NoConnection} /\ clobbered' \in BOOLEAN
      /\ poll' \in Connection \union {Nobody}
  <2>1. CASE PollLoads
    BY <1>1, <2>1 DEF PollLoads, Live, TypeOK
  <2>2. CASE PollRefreshes
    <3>1. poll \in Connection
      BY <1>1, <2>2 DEF PollRefreshes, TypeOK
    <3>2. Refreshed(poll) \in Connection /\ Tombstone(poll) \in Connection
      BY <1>1, <3>1, ConnectionChanges
    <3>3. QED
      BY <1>1, <2>2, <3>2 DEF PollRefreshes, Save, TypeOK
  <2>3. QED
    BY <2>1, <2>2
<1>4. TypeOK'
  BY <1>1, <1>2, <1>3 DEF TypeOK
<1>5. SyncOk(sync)' /\ OneEventPerCard'
  BY <1>2, SyncOkKept, OneEventKept DEF IInv
<1>6. QED
  BY <1>2, <1>4, <1>5 DEF IInv

\* A disconnect request.
LEMMA IInvDisconnect ==
    ASSUME IInv, DisconnectLoads \/ DisconnectRefreshes \/ DisconnectDeletes PROVE IInv'
<1> USE DEF requestVars, providerVars, historyVars
<1>1. TypeOK /\ now \in 0..MaxExpiries
  BY DEF IInv, TypeOK
<1>2. UNCHANGED <<amount, status, waiting, sync, poll, joining, providerVars, now, spent,
                  unread, unhealed>>
  BY DEF DisconnectLoads, DisconnectRefreshes, DisconnectDeletes
<1> DEFINE Leaving == [copy : Connection, at : {"refreshing", "deleting"}]
<1>3. /\ store' \in Connection \union {NoConnection} /\ clobbered' \in BOOLEAN
      /\ leaving' \in Leaving \union {Nobody}
  <2>1. CASE DisconnectLoads
    BY <1>1, <2>1 DEF DisconnectLoads, TypeOK
  <2>2. CASE DisconnectRefreshes
    <3>1. leaving \in Leaving /\ leaving.copy \in Connection
      BY <1>1, <2>2 DEF DisconnectRefreshes, TypeOK
    <3>2. Refreshed(leaving.copy) \in Connection /\ Tombstone(leaving.copy) \in Connection
      BY <1>1, <3>1, ConnectionChanges
    <3>3. [leaving EXCEPT !.at = "deleting"] \in Leaving
      BY <3>1
    <3>4. store' \in Connection \union {NoConnection} /\ clobbered' \in BOOLEAN
      BY <1>1, <2>2, <3>2 DEF DisconnectRefreshes, Save, TypeOK
    <3>5. leaving' \in {[leaving EXCEPT !.at = "deleting"], Nobody}
      BY <2>2 DEF DisconnectRefreshes
    <3>6. QED
      BY <3>3, <3>4, <3>5
  <2>3. CASE DisconnectDeletes
    BY <1>1, <2>3 DEF DisconnectDeletes, TypeOK
  <2>4. QED
    BY <2>1, <2>2, <2>3
<1>4. TypeOK'
  BY <1>1, <1>2, <1>3 DEF TypeOK
<1>5. SyncOk(sync)' /\ OneEventPerCard'
  BY <1>2, SyncOkKept, OneEventKept DEF IInv
<1>6. QED
  BY <1>2, <1>4, <1>5 DEF IInv

\* A connect request.
LEMMA IInvConnect ==
    ASSUME IInv, ConnectLoads \/ ConnectRefreshes \/ ConnectReplaces \/ ConnectFinishes
    PROVE  IInv'
<1> USE DEF requestVars, providerVars, historyVars
<1>1. TypeOK /\ now \in 0..MaxExpiries /\ spent \in Spent
  BY DEF IInv, TypeOK
<1>2. /\ UNCHANGED <<amount, status, sync, poll, leaving, now, unread, unhealed>>
      /\ events' \subseteq events
  BY DEF ConnectLoads, ConnectRefreshes, ConnectReplaces, ConnectFinishes, RemoveCalendar
<1> DEFINE Joining == [copy : Connection \union {NoConnection},
                       at : {"refreshing", "replacing", "finding"}]
           JoiningOk == joining # Nobody /\ joining.at # "finding" => joining.copy \in Connection
           Joined ==
      /\ store' \in Connection \union {NoConnection} /\ clobbered' \in BOOLEAN
      /\ joining' \in Joining \union {Nobody} /\ JoiningOk'
      /\ calendars' \subseteq 1..MaxCalendars
      /\ waiting' \in [Cards -> [told : Nat, asked : Nat]]
      /\ spent' \in Spent
<1>3. JoiningOk
  BY DEF IInv
<1>4. Joined
  <2>1. CASE ConnectLoads
    <3>1. store \in Connection \union {NoConnection} /\ (Live(store) => store \in Connection)
      BY <1>1 DEF TypeOK, Live
    <3>2. joining' \in Joining \union {Nobody} /\ JoiningOk'
      BY <2>1, <3>1 DEF ConnectLoads
    <3>3. spent' \in Spent
      BY <1>1, <2>1 DEF ConnectLoads, Spent
    <3>4. QED
      BY <1>1, <2>1, <3>2, <3>3 DEF ConnectLoads, TypeOK
  <2>2. CASE ConnectRefreshes
    <3>1. joining.copy \in Connection
      BY <1>3, <2>2 DEF ConnectRefreshes
    <3>2. Refreshed(joining.copy) \in Connection /\ Tombstone(joining.copy) \in Connection
      BY <1>1, <3>1, ConnectionChanges
    <3>3. UNCHANGED <<calendars, waiting, spent>>
      BY <2>2 DEF ConnectRefreshes
    <3>4. ASSUME NEW copy \in {Refreshed(joining.copy), Tombstone(joining.copy)},
                 Save(joining.copy, copy),
                 joining' = [copy |-> copy, at |-> IF Live(copy) THEN "replacing" ELSE "finding"]
          PROVE  Joined
      <4>1. copy \in Connection
        BY <3>2
      <4>2. joining' \in Joining /\ JoiningOk'
        BY <3>4, <4>1
      <4>3. store' \in Connection \union {NoConnection} /\ clobbered' \in BOOLEAN
        BY <1>1, <3>4, <4>1 DEF Save, TypeOK
      <4>4. QED
        BY <1>1, <3>3, <4>2, <4>3 DEF TypeOK
    <3>5. CASE joining' = Nobody /\ UNCHANGED <<store, clobbered>>
      BY <1>1, <3>3, <3>5 DEF TypeOK
    <3> HIDE DEF Joined
    <3>6. QED
      BY <2>2, <3>4, <3>5 DEF ConnectRefreshes
  <2>3. CASE ConnectReplaces
    <3>1. joining \in Joining
      BY <1>1, <2>3 DEF ConnectReplaces, TypeOK
    <3>2. joining' \in Joining /\ joining'.at = "finding"
      BY <2>3, <3>1 DEF ConnectReplaces
    <3>3. calendars' \subseteq calendars /\ UNCHANGED <<store, clobbered, waiting, spent>>
      BY <2>3 DEF ConnectReplaces, RemoveCalendar
    <3>4. QED
      BY <1>1, <3>2, <3>3 DEF TypeOK
  <2>4. CASE ConnectFinishes
    <3>1. joining' = Nobody
      BY <2>4 DEF ConnectFinishes
    <3>2. ASSUME NEW k \in 1..MaxCalendars, NEW cs \in Qualifying,
                 (k \in calendars /\ UNCHANGED <<calendars, spent>>) \/ CreateCalendar(k),
                 Save(joining.copy, [calendar |-> k, token |-> now, revoked |-> FALSE,
                                     events |-> NoEvents]),
                 waiting' = [c \in Cards |->
                     IF c \in cs THEN [waiting[c] EXCEPT !.asked = waiting[c].asked + 1]
                                 ELSE waiting[c]]
          PROVE  Joined
      <4>1. NoEvents \in [Cards -> 0..MaxEvents]
        BY ConstantsAssumption DEF NoEvents
      <4>2. [calendar |-> k, token |-> now, revoked |-> FALSE, events |-> NoEvents]
               \in Connection
        BY <1>1, <4>1 DEF Connection
      <4>3. store' \in Connection \union {NoConnection} /\ clobbered' \in BOOLEAN
        BY <1>1, <3>2, <4>2 DEF Save, TypeOK
      <4>4. waiting' \in [Cards -> [told : Nat, asked : Nat]]
        <5>1. \A c \in Cards : /\ waiting[c] \in [told : Nat, asked : Nat]
                               /\ [waiting[c] EXCEPT !.asked = waiting[c].asked + 1]
                                     \in [told : Nat, asked : Nat]
          BY <1>1 DEF TypeOK
        <5>2. QED
          BY <3>2, <5>1
      <4>5. calendars' \subseteq 1..MaxCalendars /\ spent' \in Spent
        <5>1. k \in Nat
          OBVIOUS
        <5>2. spent' \in Spent
          BY <1>1, <3>2, <5>1 DEF CreateCalendar, Spent
        <5>3. QED
          BY <1>1, <3>2, <5>2 DEF CreateCalendar, TypeOK
      <4>6. QED
        BY <3>1, <4>3, <4>4, <4>5
    <3>3. CASE UNCHANGED <<store, clobbered, calendars, spent, waiting>>
      BY <1>1, <3>1, <3>3 DEF TypeOK
    <3> HIDE DEF Joined
    <3>4. QED
      BY <2>4, <3>2, <3>3 DEF ConnectFinishes
  <2>5. QED
    BY <2>1, <2>2, <2>3, <2>4
<1>5. events' \subseteq [id : 1..MaxEvents, calendar : 1..MaxCalendars, card : Cards,
                        shows : Amounts]
  BY <1>1, <1>2 DEF TypeOK
<1>6. TypeOK'
  BY <1>1, <1>2, <1>4, <1>5 DEF TypeOK
<1>7. SyncOk(sync)' /\ OneEventPerCard'
  BY <1>2, SyncOkKept, OneEventKept DEF IInv
<1>8. QED
  BY <1>4, <1>6, <1>7 DEF IInv

\* The user's own hand, and time.
LEMMA IInvOutside ==
    ASSUME IInv, (\E k \in 1..MaxCalendars : UserDeletesCalendar(k)) \/ TokenExpires
    PROVE  IInv'
<1> USE DEF requestVars, providerVars, historyVars
<1>1. TypeOK
  BY DEF IInv
<1>2. /\ UNCHANGED <<amount, store, status, waiting, sync, requestVars, spent, historyVars>>
      /\ calendars' \subseteq calendars /\ events' \subseteq events
  BY DEF UserDeletesCalendar, RemoveCalendar, TokenExpires
<1>3. now' \in 0..MaxExpiries
  BY <1>1, ConstantsAssumption DEF UserDeletesCalendar, TokenExpires, TypeOK
<1>4. TypeOK'
  BY <1>1, <1>2, <1>3 DEF TypeOK
<1>5. SyncOk(sync)' /\ OneEventPerCard'
  BY <1>2, SyncOkKept, OneEventKept DEF IInv
<1>6. QED
  BY <1>2, <1>4, <1>5 DEF IInv

----------------------------------------------------------------------------
(* The theorems.                                                           *)

\* Every step preserves the invariant.
LEMMA IInvStep == ASSUME IInv, [Next]_vars PROVE IInv'
<1>1. CASE UNCHANGED vars
  <2> USE DEF vars, requestVars, providerVars, historyVars
  <2>1. TypeOK'
    BY <1>1 DEF IInv, TypeOK
  <2>2. SyncOk(sync)' /\ OneEventPerCard'
    BY <1>1, SyncOkKept, OneEventKept DEF IInv
  <2>3. QED
    BY <1>1, <2>1, <2>2 DEF IInv
<1>2. CASE \E c \in Cards : ChangeCard(c) \/ PayCard(c) \/ Resync(c)
  BY <1>2, IInvCard
<1>3. CASE SyncStep
  <2>1. CASE \E c \in Cards : NextCard(c) \/ StartSync(c, "told") \/ StartSync(c, "asked")
    BY <2>1, IInvBegin
  <2>2. QED
    BY <1>3, <2>1, IInvRefresh, IInvPlan, IInvFind, IInvEvent, IInvFail, IInvRecreate
       DEF SyncStep
<1>4. QED
  BY <1>1, <1>2, <1>3, IInvPoll, IInvDisconnect, IInvConnect, IInvOutside DEF Next

\* The connection file, the statuses, the syncs and the requests under way keep their
\* shape, for any number of cards, requests, connections and calendars.
THEOREM TypeCorrect == Spec => []TypeOK
<1>1. IInv => TypeOK
  BY DEF IInv
<1>2. QED
  BY <1>1, IInvInit, IInvStep, PTL DEF Spec

\* No calendar ever holds two events of one card: an event is created only inside the
\* lock, in a calendar found without an event of the card, and nobody else creates any.
THEOREM EventsAreSingle == Spec => []OneEventPerCard
<1>1. IInv => OneEventPerCard
  BY DEF IInv
<1>2. QED
  BY <1>1, IInvInit, IInvStep, PTL DEF Spec
----------------------------------------------------------------------------
(* The events. The inductive invariant of what a card that reads "Synced" has. *)

\* Events are known by their ids.
Ids ==
    /\ \A e \in events : e.id <= spent.events
    /\ \A e, f \in events : e.id = f.id => e = f

\* An id that is recorded for a card is of no other card's event, and of no event to come.
Mapped ==
    Live(store) => \A c \in Cards :
        /\ store.events[c] <= spent.events
        /\ \A e \in events : e.id = store.events[c] => e.card = c

\* The event of a card that reads "Synced" is gone only with its calendar.
Kept ==
    Live(store) /\ store.calendar \in calendars => \A c \in Cards :
        status[c] = "synced" /\ store.events[c] # 0 =>
            \E e \in events : e.id = store.events[c] /\ e.calendar = store.calendar

\* A call is about the sync's own card, and about the amount of now unless the card is to
\* be read again.
CallOk ==
    sync # Nobody /\ sync.at \in Calls =>
        /\ sync.at \in {"updating", "deleting"} =>
              \A e \in events : e.id = sync.event => e.card = sync.card
        /\ sync.at = "deleting" => sync.shows = NothingDue
        /\ \/ sync.shows = amount[sync.card]
           \/ sync.card \in unread
           \/ waiting[sync.card] # NoRequests

\* What RecordedEventIsCurrent asks of a card.
Current(c) ==
    \/ amount[c] = NothingDue /\ store.events[c] = 0
    \/ store.calendar \notin calendars
    \/ [id |-> store.events[c], calendar |-> store.calendar, card |-> c,
        shows |-> amount[c]] \in events

ToVisit(c) == sync # Nobody /\ \E i \in 1..Len(sync.todo) : c \in sync.todo[i]

\* The card is to be read, or known not to be current.
Excused(c) ==
    \/ ~Live(store) \/ status[c] # "synced" \/ c \in unread
    \/ waiting[c] # NoRequests
    \/ ToVisit(c)

\* The sync's call is to the calendar of now, which lacks the event only if the card does
\* not read "Synced".
Linked ==
    /\ store.calendar = sync.copy.calendar
    /\ sync.at \in {"updating", "deleting"} /\ status[sync.card] = "synced"
          /\ sync.copy.calendar \in calendars => TheEvent # {}

AtHand(c) ==
    /\ sync # Nobody /\ sync.card = c
    /\ sync.at \in {"refreshing", "planning"} \/ (sync.at \in Calls /\ Linked)

Accounted == \A c \in Cards : Excused(c) \/ AtHand(c) \/ Current(c)

Tracked == ~clobbered => Mapped /\ Kept /\ CallOk /\ Accounted

JInv == IInv /\ Ids /\ Tracked

LEMMA JInvInit == ASSUME Init PROVE JInv
<1>1. Ids /\ Mapped /\ Kept /\ CallOk
  BY DEF Init, Ids, Mapped, Kept, CallOk, Live
<1>2. Accounted
  BY DEF Init, Accounted, Excused
<1> QED BY <1>1, <1>2, IInvInit DEF JInv, Tracked

----------------------------------------------------------------------------
(* The operators.                                                          *)

\* A copy that nobody has overtaken is what the store holds.
LEMMA Saved ==
    ASSUME IInv, NEW copy \in Connection, NEW connection, Save(copy, connection), ~clobbered'
    PROVE  store = copy /\ ~clobbered /\ store' = connection /\ store # NoConnection
  BY NothingAssumption DEF Save

LEMMA ClobberStays ==
    ASSUME NEW copy, NEW connection, Save(copy, connection)
    PROVE  clobbered => clobbered'
  BY DEF Save

\* A refreshed token changes nothing else, and a revoked connection is not live.
LEMMA TokenSaved ==
    ASSUME IInv, NEW copy \in Connection,
           Save(copy, Refreshed(copy)) \/ Save(copy, Tombstone(copy)), ~clobbered', Live(store)'
    PROVE  /\ ~clobbered /\ Live(store)
           /\ store'.calendar = store.calendar /\ store'.events = store.events
<1>1. ~Live(Tombstone(copy))
  BY DEF Live, Tombstone, Connection
<1>2. Live(store') <=> Live(store)'
  BY DEF Live
<1>3. Save(copy, Refreshed(copy)) /\ store' = Refreshed(copy)
  BY <1>1, <1>2 DEF Save, Live
<1>4. store = copy /\ ~clobbered /\ store # NoConnection
  BY <1>3, Saved
<1>5. /\ store'.revoked = copy.revoked
      /\ store'.calendar = copy.calendar /\ store'.events = copy.events
  BY <1>3 DEF Refreshed, Connection
<1> QED BY <1>2, <1>4, <1>5 DEF Live

\* The loop goes on with the cards that are left.
LEMMA ReturnedVisits ==
    ASSUME NEW s \in SyncRecord
    PROVE  /\ Returned(s) # Nobody => Returned(s).at = "next" /\ Returned(s).todo = s.todo
           /\ \A c, i \in 1..Len(s.todo) : Returned(s) # Nobody
<1>1. NewSync(s.origin, s.kind) \in SyncRecord
  BY ConstantsAssumption DEF NewSync, SyncRecord
<1>2. CASE s.todo = <<>>
  BY <1>2 DEF Returned
<1>3. CASE s.todo # <<>>
  <2> DEFINE t == [NewSync(s.origin, s.kind) EXCEPT !.card = s.card, !.todo = s.todo]
  <2>1. t \in SyncRecord /\ t.at = "next" /\ t.todo = s.todo
    BY <1>1 DEF NewSync, SyncRecord
  <2>2. Returned(s) = t
    BY <1>3 DEF Returned
  <2> QED BY <2>1, <2>2, NothingAssumption
<1> QED BY <1>2, <1>3

LEMMA LoadedVisits ==
    ASSUME NEW s \in SyncRecord, store \in Connection \union {NoConnection}, Live(store)
    PROVE  /\ Loaded(s) # Nobody /\ Loaded(s).card = s.card /\ Loaded(s).todo = s.todo
           /\ Loaded(s).at \in {"refreshing", "planning"}
<1>1. CASE Expired(store)
  <2> DEFINE t == [s EXCEPT !.at = "refreshing", !.copy = store]
  <2>1. Loaded(s) = t /\ t.card = s.card /\ t.todo = s.todo /\ t.at = "refreshing"
    BY <1>1 DEF Loaded, SyncRecord
  <2>2. t \in SyncRecord
    BY DEF SyncRecord
  <2> QED BY <2>1, <2>2, NothingAssumption
<1>2. CASE ~Expired(store)
  <2> DEFINE t == [s EXCEPT !.at = "planning"]
  <2>1. Loaded(s) = t /\ t.card = s.card /\ t.todo = s.todo /\ t.at = "planning"
    BY <1>2 DEF Loaded, SyncRecord
  <2>2. t \in SyncRecord
    BY DEF SyncRecord
  <2> QED BY <2>1, <2>2, NothingAssumption
<1> QED BY <1>1, <1>2

----------------------------------------------------------------------------
(* The steps of everybody else.                                            *)

\* Requests that do not take the lock change no card, event or mapping, unless a
\* connection is lost or a calendar goes with its events.
LEMMA ElsewhereTracked ==
    ASSUME IInv, Ids, Tracked,
           UNCHANGED <<amount, status, waiting, sync, unread>>, spent'.events = spent.events,
           calendars' \subseteq calendars, events' \subseteq events,
           \A e \in events : e.calendar \in calendars' => e \in events',
           clobbered => clobbered',
           ~clobbered' /\ Live(store)' =>
              /\ Live(store)
              /\ store'.calendar = store.calendar /\ store'.events = store.events
    PROVE  Ids' /\ Tracked'
<1>1. Ids'
  BY DEF Ids
<1> SUFFICES ASSUME ~clobbered' PROVE (Mapped /\ Kept /\ CallOk /\ Accounted)'
  BY <1>1 DEF Tracked
<1>2. Mapped /\ Kept /\ CallOk /\ Accounted
  BY DEF Tracked
<1>3. Mapped'
  BY <1>2 DEF Mapped
<1>4. Kept'
  BY <1>2 DEF Kept
<1>5. CallOk'
  BY <1>2 DEF CallOk
<1>6. Accounted'
  <2> SUFFICES ASSUME NEW c \in Cards, Live(store)', ~Excused(c)'
               PROVE  Current(c)' \/ AtHand(c)'
    BY DEF Accounted, Excused
  <2>1. ~Excused(c)
    BY DEF Excused, ToVisit
  <2>2. CASE Current(c)
    BY <2>2 DEF Current
  <2>3. CASE AtHand(c)
    <3>1. Linked => Linked'
      BY DEF Linked, TheEvent
    <3> QED BY <2>3, <3>1 DEF AtHand
  <2> QED BY <1>2, <2>1, <2>2, <2>3 DEF Accounted
<1> QED BY <1>3, <1>4, <1>5, <1>6

\* A status request, and a disconnect request.
LEMMA RequestsTracked ==
    ASSUME JInv, \/ PollLoads \/ PollRefreshes
                 \/ DisconnectLoads \/ DisconnectRefreshes \/ DisconnectDeletes
    PROVE  Ids' /\ Tracked'
<1>1. IInv /\ TypeOK /\ Ids /\ Tracked
  BY DEF JInv, IInv
<1>2. /\ UNCHANGED <<amount, status, waiting, sync, unread, spent, calendars, events>>
      /\ clobbered => clobbered'
  <2>1. UNCHANGED <<amount, status, waiting, sync, unread, spent, calendars, events>>
    BY DEF PollLoads, PollRefreshes, DisconnectLoads, DisconnectRefreshes, DisconnectDeletes,
       providerVars, historyVars
  <2>2. clobbered => clobbered'
    BY ClobberStays DEF PollLoads, PollRefreshes, DisconnectLoads, DisconnectRefreshes,
       DisconnectDeletes, historyVars
  <2> QED BY <2>1, <2>2
<1>3. ASSUME ~clobbered', Live(store)'
      PROVE  /\ Live(store)
             /\ store'.calendar = store.calendar /\ store'.events = store.events
  <2>1. CASE UNCHANGED store
    BY <1>3, <2>1 DEF Live
  <2>2. CASE PollRefreshes /\ ~UNCHANGED store
    <3>1. poll \in Connection
      BY <1>1, <2>2 DEF PollRefreshes, TypeOK
    <3> QED BY <1>1, <1>3, <2>2, <3>1, TokenSaved DEF PollRefreshes
  <2>3. CASE DisconnectRefreshes /\ ~UNCHANGED store
    <3>1. leaving.copy \in Connection
      BY <1>1, <2>3 DEF DisconnectRefreshes, TypeOK
    <3> QED BY <1>1, <1>3, <2>3, <3>1, TokenSaved DEF DisconnectRefreshes
  <2>4. CASE DisconnectDeletes
    BY <1>3, <2>4 DEF DisconnectDeletes, Live
  <2> QED BY <2>1, <2>2, <2>3, <2>4 DEF PollLoads, DisconnectLoads
<1> QED BY <1>1, <1>2, <1>3, ElsewhereTracked

\* A connect request before its end, the user's own hand, and time.
LEMMA OutsideTracked ==
    ASSUME JInv, \/ ConnectLoads \/ ConnectRefreshes \/ ConnectReplaces
                 \/ \E k \in 1..MaxCalendars : UserDeletesCalendar(k)
                 \/ TokenExpires \/ UNCHANGED vars
    PROVE  Ids' /\ Tracked'
<1>1. IInv /\ TypeOK /\ Ids /\ Tracked
  BY DEF JInv, IInv
<1>2. /\ UNCHANGED <<amount, status, waiting, sync, unread>>
      /\ clobbered => clobbered'
  <2>1. UNCHANGED <<amount, status, waiting, sync, unread>>
    BY DEF ConnectLoads, ConnectRefreshes, ConnectReplaces, UserDeletesCalendar, TokenExpires,
       vars, historyVars
  <2>2. clobbered => clobbered'
    BY ClobberStays DEF ConnectLoads, ConnectRefreshes, ConnectReplaces, UserDeletesCalendar,
       TokenExpires, vars, historyVars
  <2> QED BY <2>1, <2>2
<1>3. spent'.events = spent.events
  BY <1>1 DEF ConnectLoads, ConnectRefreshes, ConnectReplaces, UserDeletesCalendar, TokenExpires,
     vars, IInv, Spent
<1>4. /\ calendars' \subseteq calendars /\ events' \subseteq events
      /\ \A e \in events : e.calendar \in calendars' => e \in events'
  BY DEF ConnectLoads, ConnectRefreshes, ConnectReplaces, UserDeletesCalendar, RemoveCalendar,
     TokenExpires, vars, providerVars
<1>5. ASSUME ~clobbered', Live(store)'
      PROVE  /\ Live(store)
             /\ store'.calendar = store.calendar /\ store'.events = store.events
  <2>1. CASE UNCHANGED store
    BY <1>5, <2>1 DEF Live
  <2>2. CASE ConnectRefreshes /\ ~UNCHANGED store
    <3>1. joining.copy \in Connection
      BY <1>1, <2>2 DEF ConnectRefreshes, IInv
    <3> QED BY <1>1, <1>5, <2>2, <3>1, TokenSaved DEF ConnectRefreshes
  <2> QED BY <2>1, <2>2 DEF ConnectLoads, ConnectReplaces, UserDeletesCalendar, TokenExpires,
             vars
<1> QED BY <1>1, <1>2, <1>3, <1>4, <1>5, ElsewhereTracked

\* A new connection knows no event; every card with something due is to be read.
LEMMA ConnectedTracked == ASSUME JInv, ConnectFinishes PROVE Ids' /\ Tracked'
<1>1. IInv /\ TypeOK /\ Ids /\ Tracked /\ spent \in Spent
  BY DEF JInv, IInv
<1>2. /\ UNCHANGED <<amount, status, sync, unread, events>>
      /\ clobbered => clobbered'
  <2>1. UNCHANGED <<amount, status, sync, unread, events>>
    BY DEF ConnectFinishes
  <2>2. clobbered => clobbered'
    BY ClobberStays, Zenon DEF ConnectFinishes
  <2> QED BY <2>1, <2>2
<1>3. spent'.events = spent.events
  BY <1>1 DEF ConnectFinishes, CreateCalendar, Spent
<1>4. CASE UNCHANGED <<store, clobbered, calendars, spent, waiting>>
  BY <1>1, <1>2, <1>4, ElsewhereTracked DEF Live
<1>5. ASSUME NEW k \in 1..MaxCalendars, NEW cs \in Qualifying,
             store' = [calendar |-> k, token |-> now, revoked |-> FALSE, events |-> NoEvents],
             waiting' = [c \in Cards |->
                 IF c \in cs THEN [waiting[c] EXCEPT !.asked = waiting[c].asked + 1]
                             ELSE waiting[c]]
      PROVE  Ids' /\ Tracked'
  <2>1. Ids'
    BY <1>1, <1>2, <1>3 DEF Ids
  <2>2. \A c \in Cards : store'.events[c] = 0 /\ spent.events \in Nat
    BY <1>1, <1>5 DEF NoEvents, Spent
  <2>3. \A c \in Cards : waiting[c] \in [told : Nat, asked : Nat]
    BY <1>1 DEF TypeOK
  <2>4. \A c \in Cards : c \in cs => waiting'[c] # NoRequests
    BY <1>5, <2>3 DEF NoRequests
  <2>5. \A c \in Cards : c \notin cs => amount[c] = NothingDue /\ waiting'[c] = waiting[c]
    BY <1>5 DEF Qualifying
  <2> SUFFICES ASSUME ~clobbered' PROVE (Mapped /\ Kept /\ CallOk /\ Accounted)'
    BY <2>1 DEF Tracked
  <2>6. Mapped'
    <3>1. \A e \in events : e.id # 0
      BY <1>1 DEF TypeOK
    <3> QED BY <1>2, <1>3, <2>2, <3>1 DEF Mapped
  <2>7. Kept'
    BY <2>2 DEF Kept
  <2>8. CallOk'
    <3>1. CallOk
      BY <1>1, <1>2 DEF Tracked
    <3>2. sync # Nobody => sync.card \in Cards
      BY <1>1 DEF TypeOK, SyncRecord
    <3> QED BY <1>2, <2>4, <2>5, <3>1, <3>2 DEF CallOk
  <2>9. Accounted'
    BY <1>2, <2>2, <2>4, <2>5 DEF Accounted, Excused, Current
  <2> QED BY <2>6, <2>7, <2>8, <2>9
<1> QED BY <1>4, <1>5 DEF ConnectFinishes, Save

----------------------------------------------------------------------------
(* The cards.                                                              *)

\* A card that is changed is to be read.
LEMMA CardTracked ==
    ASSUME JInv, NEW c \in Cards, ChangeCard(c) \/ PayCard(c) \/ Resync(c)
    PROVE  Ids' /\ Tracked'
<1>1. IInv /\ TypeOK /\ Ids /\ Tracked /\ spent \in Spent
  BY DEF JInv, IInv
<1>2. UNCHANGED <<store, sync, calendars, events, clobbered>>
  BY DEF ChangeCard, PayCard, Resync, TriggerSync, providerVars, historyVars
<1>3. spent'.events = spent.events
  BY <1>1 DEF ChangeCard, PayCard, Resync, Spend, Spent
<1>4. waiting[c] \in [told : Nat, asked : Nat]
  BY <1>1 DEF TypeOK
<1>5. c \in unread' \/ waiting'[c] # NoRequests
  <2>1. CASE ChangeCard(c)
    <3>1. CASE Live(store)
      <4>1. waiting' = [waiting EXCEPT ![c].told = waiting[c].told + 1]
        BY <2>1, <3>1 DEF ChangeCard, TriggerSync
      <4>2. waiting'[c].told = waiting[c].told + 1
        BY <1>1, <1>4, <4>1 DEF TypeOK
      <4> QED BY <1>4, <4>2 DEF NoRequests
    <3>2. CASE ~Live(store)
      BY <2>1, <3>2 DEF ChangeCard, TriggerSync
    <3> QED BY <3>1, <3>2
  <2>2. CASE PayCard(c)
    BY <2>2 DEF PayCard
  <2>3. CASE Resync(c)
    <3>1. waiting'[c].asked = waiting[c].asked + 1
      BY <1>1, <1>4, <2>3 DEF Resync, TypeOK
    <3> QED BY <1>4, <3>1 DEF NoRequests
  <2> QED BY <2>1, <2>2, <2>3
<1>6. \A d \in Cards \ {c} :
          /\ amount'[d] = amount[d] /\ waiting'[d] = waiting[d] /\ status'[d] = status[d]
          /\ d \in unread => d \in unread'
  BY <1>1 DEF ChangeCard, PayCard, Resync, TriggerSync, TypeOK, historyVars
<1>7. status'[c] = "synced" => status[c] = "synced"
  BY <1>1 DEF ChangeCard, PayCard, Resync, TriggerSync, TypeOK
<1>8. Ids'
  BY <1>1, <1>2, <1>3 DEF Ids
<1> SUFFICES ASSUME ~clobbered' PROVE (Mapped /\ Kept /\ CallOk /\ Accounted)'
  BY <1>8 DEF Tracked
<1>9. Mapped /\ Kept /\ CallOk /\ Accounted
  BY <1>1, <1>2 DEF Tracked
<1>10. Mapped'
  BY <1>2, <1>3, <1>9 DEF Mapped, Live
<1>11. Kept'
  BY <1>2, <1>6, <1>7, <1>9 DEF Kept, Live
<1>12. CallOk'
  <2>1. sync # Nobody => sync.card \in Cards
    BY <1>1 DEF TypeOK, SyncRecord
  <2> QED BY <1>2, <1>5, <1>6, <1>9, <2>1 DEF CallOk
<1>13. Accounted'
  <2> SUFFICES ASSUME NEW d \in Cards \ {c} PROVE (Excused(d) \/ AtHand(d) \/ Current(d))'
    BY <1>5 DEF Accounted, Excused
  <2>1. Excused(d) => Excused(d)'
    BY <1>2, <1>6 DEF Excused, ToVisit, Live
  <2>2. AtHand(d) => AtHand(d)'
    BY <1>2, <1>6 DEF AtHand, Linked, TheEvent
  <2>3. Current(d) => Current(d)'
    BY <1>2, <1>6 DEF Current
  <2> QED BY <1>9, <2>1, <2>2, <2>3 DEF Accounted
<1> QED BY <1>10, <1>11, <1>12, <1>13

----------------------------------------------------------------------------
(* The sync.                                                               *)

\* What the sync does not change, as long as nothing but the sync and its card's status
\* moves.
LEMMA MappedStays ==
    ASSUME Mapped, UNCHANGED <<store, events>>, spent'.events = spent.events
    PROVE  Mapped'
  BY DEF Mapped, Live

\* A sync gets the lock, or goes on to its next card: that card is at hand.
LEMMA BeginTracked ==
    ASSUME JInv, NEW c \in Cards,
           (\E kind \in {"told", "asked"} : StartSync(c, kind)) \/ NextCard(c)
    PROVE  Ids' /\ Tracked'
<1>1. IInv /\ TypeOK /\ Ids /\ Tracked
  BY DEF JInv, IInv
<1>2. UNCHANGED <<amount, store, status, calendars, events, spent, unread, clobbered>>
  BY DEF StartSync, NextCard, providerVars, historyVars
<1>3. Ids'
  BY <1>1, <1>2 DEF Ids
<1> SUFFICES ASSUME ~clobbered' PROVE (Mapped /\ Kept /\ CallOk /\ Accounted)'
  BY <1>3 DEF Tracked
<1>4. Mapped /\ Kept /\ Accounted
  BY <1>1, <1>2 DEF Tracked
<1>5. Mapped' /\ Kept'
  BY <1>2, <1>4, MappedStays DEF Kept, Live
<1>6. PICK s \in SyncRecord :
         /\ sync' = Loaded(s) /\ s.card = c
         /\ \A d \in Cards \ {c} : ToVisit(d) => \E i \in 1..Len(s.todo) : d \in s.todo[i]
  <2>1. CASE NextCard(c)
    <3>1. sync \in SyncRecord /\ sync.todo \in Seq(SUBSET Cards) /\ sync.todo # <<>>
      BY <1>1, <2>1 DEF NextCard, At, TypeOK, IInv, SyncOk, SyncRecord
    <3> DEFINE todo == sync.todo
               rest == Head(todo) \ {c}
               left == IF rest = {} THEN Tail(todo) ELSE <<rest>> \o Tail(todo)
               s == [sync EXCEPT !.card = c, !.todo = left]
    <3> HIDE DEF todo
    <3>2. todo \in Seq(SUBSET Cards) /\ todo # <<>>
      BY <3>1 DEF todo
    <3>3. Head(todo) \in SUBSET Cards /\ Tail(todo) \in Seq(SUBSET Cards)
      BY <3>2
    <3>4. rest \in SUBSET Cards
      BY <3>3
    <3>5. left \in Seq(SUBSET Cards)
      <4> HIDE DEF rest
      <4>1. <<rest>> \in Seq(SUBSET Cards)
        BY <3>4
      <4>2. <<rest>> \o Tail(todo) \in Seq(SUBSET Cards)
        BY <3>3, <4>1
      <4> QED BY <3>3, <4>2
    <3>6. ASSUME NEW d \in Cards \ {c}, NEW i \in 1..Len(todo), d \in todo[i]
          PROVE  \E j \in 1..Len(left) : d \in left[j]
      <4>1. CASE i = 1
        <5>1. d \in rest
          BY <3>2, <3>6, <4>1
        <5> HIDE DEF rest
        <5>2. /\ 1 \in 1..Len(<<rest>> \o Tail(todo))
              /\ (<<rest>> \o Tail(todo))[1] = rest
          BY <3>3, <3>4
        <5> QED BY <5>1, <5>2
      <4>2. CASE i # 1
        <5>1. i - 1 \in 1..Len(Tail(todo)) /\ Tail(todo)[i - 1] = todo[i]
          BY <3>2, <4>2
        <5> HIDE DEF rest
        <5>2. /\ i \in 1..Len(<<rest>> \o Tail(todo))
              /\ (<<rest>> \o Tail(todo))[i] = Tail(todo)[i - 1]
          BY <3>3, <3>4, <4>2, <5>1
        <5> QED BY <3>6, <5>1, <5>2
      <4> QED BY <4>1, <4>2
    <3> HIDE DEF left
    <3>7. s \in SyncRecord /\ s.card = c /\ s.todo = left
      BY <3>1, <3>5 DEF SyncRecord
    <3>8. sync' = Loaded(s)
      BY <2>1 DEF NextCard, left, rest, todo
    <3>9. \A d \in Cards \ {c} : ToVisit(d) => \E i \in 1..Len(s.todo) : d \in s.todo[i]
      BY <3>6, <3>7 DEF ToVisit, todo
    <3> QED BY <3>7, <3>8, <3>9
  <2>2. ASSUME NEW kind \in {"told", "asked"}, StartSync(c, kind)
        PROVE  \E s \in SyncRecord :
                  /\ sync' = Loaded(s) /\ s.card = c
                  /\ \A d \in Cards \ {c} : ToVisit(d) =>
                        \E i \in 1..Len(s.todo) : d \in s.todo[i]
    <3>1. NewSync(c, kind) \in SyncRecord /\ NewSync(c, kind).card = c
      BY ConstantsAssumption DEF NewSync, SyncRecord
    <3>2. \A d : ~ToVisit(d)
      BY <2>2 DEF StartSync, ToVisit
    <3> QED BY <2>2, <3>1, <3>2 DEF StartSync
  <2> QED BY <2>1, <2>2
<1>7. Between(sync)'
  <2>1. Between(Loaded(s))
    BY <1>1, <1>6, LoadedBetween DEF TypeOK
  <2> QED BY <1>6, <2>1 DEF Between
<1>8. CallOk'
  BY <1>7 DEF CallOk, Between, Calls
<1>9. Accounted'
  <2> SUFFICES ASSUME NEW d \in Cards, Live(store)' PROVE (Excused(d) \/ AtHand(d) \/ Current(d))'
    BY DEF Accounted, Excused
  <2>1. Live(store)
    BY <1>2 DEF Live
  <2>2. /\ sync' # Nobody /\ sync'.card = c /\ sync'.at \in {"refreshing", "planning"}
        /\ sync'.todo = s.todo
    BY <1>1, <1>6, <2>1, LoadedVisits DEF TypeOK
  <2>3. CASE d = c
    BY <2>2, <2>3 DEF AtHand
  <2>4. CASE d # c
    <3>1. waiting'[d] = waiting[d]
      BY <1>1, <2>4 DEF StartSync, NextCard, TypeOK
    <3>2. ToVisit(d) => ToVisit(d)'
      BY <1>6, <2>2, <2>4 DEF ToVisit
    <3>3. ~AtHand(d)
      BY DEF AtHand, StartSync, NextCard, At, Calls
    <3>4. Excused(d) => Excused(d)'
      BY <1>2, <3>1, <3>2, <2>1 DEF Excused
    <3>5. Current(d) => Current(d)'
      BY <1>2 DEF Current
    <3> QED BY <1>4, <3>3, <3>4, <3>5 DEF Accounted
  <2> QED BY <2>3, <2>4
<1> QED BY <1>5, <1>8, <1>9

\* Between two cards, or about to plan, the sync has no call to account for.
LEMMA NotCalling == ASSUME Between(sync)' PROVE CallOk'
  BY DEF Between, CallOk, Calls

LEMMA ToVisitStays ==
    ASSUME sync \in SyncRecord, sync' = Returned(sync), NEW c, ToVisit(c)
    PROVE  ToVisit(c)'
<1>1. PICK i \in 1..Len(sync.todo) : c \in sync.todo[i]
  BY DEF ToVisit
<1>2. Returned(sync) # Nobody /\ Returned(sync).todo = sync.todo
  BY <1>1, ReturnedVisits
<1> QED BY <1>1, <1>2 DEF ToVisit

\* Where the connection is lost, nothing is asked.
LEMMA NotLiveTracked ==
    ASSUME JInv, ~Live(store)', Between(sync)', UNCHANGED <<events, spent>>
    PROVE  Ids' /\ Tracked'
<1>1. Ids'
  BY DEF JInv, Ids
<1>2. Mapped' /\ Kept' /\ Accounted'
  BY DEF Mapped, Kept, Accounted, Excused
<1> QED BY <1>1, <1>2, NotCalling DEF Tracked

\* The sync's token is refreshed; or the connection is lost; or the sync is given up, and
\* with it every card that it was to visit and every sync that was asked for.
LEMMA RefreshTracked == ASSUME JInv, SyncRefresh PROVE Ids' /\ Tracked'
<1>1. IInv /\ TypeOK /\ Ids /\ Tracked
  BY DEF JInv, IInv
<1>2. UNCHANGED <<amount, calendars, events, spent>>
  BY DEF SyncRefresh, providerVars
<1>3. sync \in SyncRecord /\ sync # Nobody /\ sync.copy \in Connection /\ sync.card \in Cards
      /\ sync.at = "refreshing"
  BY <1>1 DEF SyncRefresh, At, IInv, SyncOk, TypeOK, SyncRecord
<1>4. Ids'
  BY <1>1, <1>2 DEF Ids
<1>5. CASE /\ Save(sync.copy, Refreshed(sync.copy))
           /\ sync' = [sync EXCEPT !.at = "planning", !.copy = NoConnection]
           /\ UNCHANGED <<status, waiting, unread>>
  <2>1. /\ sync' \in SyncRecord /\ sync'.at = "planning"
        /\ sync'.card = sync.card /\ sync'.todo = sync.todo
    BY <1>3, <1>5 DEF SyncRecord
  <2>2. sync' # Nobody
    BY <2>1, NothingAssumption
  <2>3. CallOk'
    BY <2>1 DEF CallOk, Calls
  <2> SUFFICES ASSUME ~clobbered', Live(store)' PROVE (Mapped /\ Kept /\ Accounted)'
    BY <1>4, <2>3 DEF Tracked, Mapped, Kept, Accounted, Excused
  <2>4. /\ Mapped /\ Kept /\ Accounted /\ Live(store)
        /\ store'.calendar = store.calendar /\ store'.events = store.events
    BY <1>1, <1>3, <1>5, TokenSaved DEF Tracked
  <2>5. Mapped' /\ Kept'
    BY <1>2, <1>5, <2>4 DEF Mapped, Kept
  <2>6. ASSUME NEW c \in Cards PROVE (Excused(c) \/ AtHand(c) \/ Current(c))'
    <3>1. Excused(c) => Excused(c)'
      BY <1>5, <2>1, <2>2, <2>4 DEF Excused, ToVisit
    <3>2. AtHand(c) => AtHand(c)'
      BY <2>1, <2>2 DEF AtHand
    <3>3. Current(c) => Current(c)'
      BY <1>2, <2>4 DEF Current
    <3> QED BY <2>4, <3>1, <3>2, <3>3 DEF Accounted
  <2> QED BY <2>5, <2>6 DEF Accounted
<1>6. CASE /\ Save(sync.copy, Tombstone(sync.copy))
           /\ sync' = Returned(sync)
           /\ UNCHANGED <<status, waiting, unread>>
  <2>1. ~Live(store)'
    BY <1>3, <1>6 DEF Save, Live, Tombstone, Connection
  <2>2. Between(sync)'
    BY <1>3, <1>6, ReturnedBetween DEF Between
  <2> QED BY <1>2, <2>1, <2>2, NotLiveTracked
<1>7. CASE Throw
  <2>1. sync' = Nobody /\ UNCHANGED <<store, clobbered>>
    BY <1>7 DEF Throw
  <2> SUFFICES ASSUME ~clobbered' PROVE (Mapped /\ Kept /\ CallOk /\ Accounted)'
    BY <1>4 DEF Tracked
  <2>2. Mapped /\ Kept /\ Accounted
    BY <1>1, <2>1 DEF Tracked
  <2>3. \A c \in Cards : status'[c] = "synced" => status[c] = "synced"
    BY <1>1, <1>7 DEF Throw, TypeOK
  <2>4. Mapped' /\ Kept' /\ CallOk'
    BY <1>2, <2>1, <2>2, <2>3, MappedStays DEF Kept, CallOk, Live
  <2>5. /\ sync.card \in unread'
        /\ \A c \in Cards : c \in unread \/ ToVisit(c) => c \in unread'
    <3> DEFINE skipped == {sync.card} \union UNION ToSet(sync.todo)
    <3>1. \A c \in Cards : ToVisit(c) => c \in UNION ToSet(sync.todo)
      <4>1. sync.todo \in Seq(SUBSET Cards)
        BY <1>3 DEF SyncRecord
      <4> QED BY <4>1 DEF ToVisit, ToSet
    <3>2. unread \union skipped \subseteq unread'
      BY <1>7 DEF Throw
    <3> QED BY <3>1, <3>2
  <2>6. \A c \in Cards : waiting[c] # NoRequests => waiting'[c] # NoRequests \/ c \in unread'
    <3>1. CASE UNCHANGED waiting
      BY <3>1
    <3>2. CASE /\ waiting' = [c \in Cards |-> [waiting[c] EXCEPT !.asked = 0]]
               /\ unread' = unread \union ({sync.card} \union UNION ToSet(sync.todo))
                                   \union {c \in Cards : waiting[c].asked > 0}
      <4> SUFFICES ASSUME NEW c \in Cards, waiting[c] # NoRequests, ~(waiting[c].asked > 0)
                   PROVE  waiting'[c] # NoRequests
        BY <3>2
      <4>1. waiting[c] \in [told : Nat, asked : Nat]
        BY <1>1 DEF TypeOK
      <4>2. waiting[c].asked = 0 /\ waiting[c].told # 0
        BY <4>1 DEF NoRequests
      <4>3. waiting'[c].told = waiting[c].told
        BY <3>2, <4>1
      <4> QED BY <4>2, <4>3 DEF NoRequests
    <3> QED BY <1>7, <3>1, <3>2 DEF Throw
  <2>7. ASSUME NEW c \in Cards PROVE (Excused(c) \/ AtHand(c) \/ Current(c))'
    <3>1. Excused(c) => Excused(c)'
      BY <2>1, <2>3, <2>5, <2>6 DEF Excused, Live
    <3>2. AtHand(c) => Excused(c)'
      BY <2>5 DEF AtHand, Excused
    <3>3. Current(c) => Current(c)'
      BY <1>2, <2>1 DEF Current
    <3> QED BY <2>2, <3>1, <3>2, <3>3 DEF Accounted
  <2> QED BY <2>4, <2>7 DEF Accounted
<1> QED BY <1>5, <1>6, <1>7 DEF SyncRefresh

\* The card is read: it needs no event and has none, or a call is made about it.
LEMMA PlanTracked == ASSUME JInv, Plan PROVE Ids' /\ Tracked'
<1>1. IInv /\ TypeOK /\ Ids /\ Tracked
  BY DEF JInv, IInv
<1>2. UNCHANGED <<amount, store, waiting, calendars, events, spent, clobbered>>
  BY DEF Plan, providerVars
<1> DEFINE c == sync.card
<1>3. sync \in SyncRecord /\ sync # Nobody /\ c \in Cards /\ sync.at = "planning"
  BY <1>1 DEF Plan, At, TypeOK, SyncRecord
<1>4. Ids'
  BY <1>1, <1>2 DEF Ids
<1>5. CASE ~Live(store)
  <2>1. ~Live(store)' /\ sync' = Returned(sync)
    BY <1>2, <1>5 DEF Plan, Live
  <2>2. Between(sync)'
    BY <1>3, <2>1, ReturnedBetween DEF Between
  <2> QED BY <1>2, <2>1, <2>2, NotLiveTracked
<1>6. CASE Live(store)
  <2> SUFFICES ASSUME ~clobbered' PROVE (Mapped /\ Kept /\ CallOk /\ Accounted)'
    BY <1>4 DEF Tracked
  <2>1. Mapped /\ Kept /\ Accounted /\ unread' = unread \ {c}
    BY <1>1, <1>2, <1>6 DEF Tracked, Plan
  <2>2. Mapped'
    BY <1>2, <2>1, MappedStays
  <2>3. CASE amount[c] = NothingDue /\ store.events[c] = 0
    <3>1. sync' = Returned(sync) /\ status' = [status EXCEPT ![c] = "synced"]
      BY <1>6, <2>3 DEF Plan, Answer
    <3>2. Between(sync)'
      BY <1>3, <3>1, ReturnedBetween DEF Between
    <3>3. \A d \in Cards \ {c} : status'[d] = status[d]
      BY <1>1, <3>1 DEF TypeOK
    <3>4. Kept'
      BY <1>2, <2>1, <2>3, <3>3 DEF Kept, Live
    <3>5. ASSUME NEW d \in Cards PROVE (Excused(d) \/ AtHand(d) \/ Current(d))'
      <4>1. Current(d) => Current(d)'
        BY <1>2 DEF Current
      <4>2. CASE d = c
        BY <2>3, <4>1, <4>2 DEF Current
      <4>3. CASE d # c
        <5>1. ToVisit(d) => ToVisit(d)'
          BY <1>3, <3>1, ToVisitStays
        <5>2. Excused(d) => Excused(d)'
          BY <1>2, <2>1, <3>3, <4>3, <5>1 DEF Excused, Live
        <5> QED BY <2>1, <4>1, <4>3, <5>2 DEF Accounted, AtHand
      <4> QED BY <4>2, <4>3
    <3> QED BY <2>2, <3>2, <3>4, <3>5, NotCalling DEF Accounted
  <2>4. CASE ~(amount[c] = NothingDue /\ store.events[c] = 0)
    <3> DEFINE place == IF amount[c] = NothingDue THEN "deleting"
                        ELSE IF store.events[c] = 0 THEN "finding" ELSE "updating"
               call == [sync EXCEPT !.at = place, !.copy = store,
                                    !.event = store.events[c], !.shows = amount[c]]
    <3>1. sync' = call /\ status' = status
      BY <1>6, <2>4 DEF Plan
    <3>2. /\ store \in Connection /\ store.events[c] \in 0..MaxEvents
          /\ amount[c] \in Amounts \union {NothingDue}
      BY <1>1, <1>3, <1>6 DEF Live, TypeOK, Connection
    <3>3. /\ call \in SyncRecord /\ call.at = place /\ call.copy = store /\ call.card = c
          /\ call.event = store.events[c] /\ call.shows = amount[c] /\ call.todo = sync.todo
      BY <1>3, <3>2 DEF SyncRecord, Calls
    <3>4. call # Nobody /\ place \in Calls /\ (place = "deleting" => amount[c] = NothingDue)
      BY <3>3, NothingAssumption DEF Calls
    <3>5. place \in {"updating", "deleting"} => store.events[c] # 0
      BY <2>4
    <3> HIDE DEF call, place
    <3>6. Kept'
      BY <1>2, <2>1, <3>1 DEF Kept, Live
    <3>7. CallOk'
      BY <1>2, <1>3, <1>6, <2>1, <3>1, <3>3, <3>4 DEF CallOk, Mapped
    <3>8. Linked'
      <4>1. place \in {"updating", "deleting"} /\ status[c] = "synced"
               /\ store.calendar \in calendars =>
                  \E e \in events : e.id = store.events[c] /\ e.calendar = store.calendar
        BY <1>3, <1>6, <2>1, <3>5 DEF Kept
      <4> QED BY <1>2, <3>1, <3>3, <4>1 DEF Linked, TheEvent
    <3>9. ASSUME NEW d \in Cards PROVE (Excused(d) \/ AtHand(d) \/ Current(d))'
      <4>1. CASE d = c
        BY <3>1, <3>3, <3>4, <3>8, <4>1 DEF AtHand
      <4>2. CASE d # c
        <5>1. ToVisit(d) => ToVisit(d)'
          BY <3>1, <3>3, <3>4 DEF ToVisit
        <5>2. Excused(d) => Excused(d)'
          BY <1>2, <2>1, <3>1, <4>2, <5>1 DEF Excused, Live
        <5>3. Current(d) => Current(d)'
          BY <1>2 DEF Current
        <5> QED BY <2>1, <4>2, <5>2, <5>3 DEF Accounted, AtHand
      <4> QED BY <4>1, <4>2
    <3> QED BY <2>2, <3>6, <3>7, <3>9 DEF Accounted
  <2> QED BY <2>3, <2>4
<1> QED BY <1>5, <1>6

\* The card's event is looked for.
LEMMA FindTracked == ASSUME JInv, FindEvent PROVE Ids' /\ Tracked'
<1>1. IInv /\ TypeOK /\ Ids /\ Tracked
  BY DEF JInv, IInv
<1>2. UNCHANGED <<amount, store, status, waiting, calendars, events, spent, unread, clobbered>>
  BY DEF FindEvent, providerVars, historyVars
<1>3. sync \in SyncRecord /\ sync # Nobody /\ sync.at = "finding" /\ sync.at \in Calls
  BY <1>1 DEF FindEvent, At, TypeOK, Calls
<1>4. Ids'
  BY <1>1, <1>2 DEF Ids
<1> DEFINE found == EventOf(sync.card, sync.copy.calendar)
<1>5. /\ sync' \in SyncRecord /\ sync' # Nobody
      /\ sync'.card = sync.card /\ sync'.copy = sync.copy /\ sync'.shows = sync.shows
      /\ sync'.todo = sync.todo
      /\ \/ sync'.at = "creating"
         \/ sync'.at = "updating" /\ \E e \in found : sync'.event = e.id
  <2>1. CASE found = {}
    <3>1. sync' = [sync EXCEPT !.at = "creating"]
      BY <2>1 DEF FindEvent
    <3>2. sync' \in SyncRecord
      BY <1>3, <3>1 DEF SyncRecord, Calls
    <3> QED BY <1>3, <3>1, <3>2, NothingAssumption DEF SyncRecord
  <2>2. CASE found # {}
    <3>1. PICK e \in found : sync' = [sync EXCEPT !.at = "updating", !.event = e.id]
      BY <2>2 DEF FindEvent
    <3>2. e.id \in 0..MaxEvents
      BY <1>1, <3>1 DEF EventOf, TypeOK
    <3>3. sync' \in SyncRecord
      BY <1>3, <3>1, <3>2 DEF SyncRecord, Calls
    <3> QED BY <1>3, <3>1, <3>3, NothingAssumption DEF SyncRecord
  <2> QED BY <2>1, <2>2
<1> SUFFICES ASSUME ~clobbered' PROVE (Mapped /\ Kept /\ CallOk /\ Accounted)'
  BY <1>4 DEF Tracked
<1>6. Mapped /\ Kept /\ CallOk /\ Accounted
  BY <1>1, <1>2 DEF Tracked
<1>7. Mapped' /\ Kept'
  BY <1>2, <1>6, MappedStays DEF Kept, Live
<1>8. CallOk'
  <2>1. \A e \in found, f \in events : f.id = e.id => f.card = sync.card
    BY <1>1 DEF EventOf, Ids
  <2> QED BY <1>2, <1>3, <1>5, <1>6, <2>1 DEF CallOk, Calls
<1>9. ASSUME NEW c \in Cards PROVE (Excused(c) \/ AtHand(c) \/ Current(c))'
  <2>1. Excused(c) => Excused(c)'
    BY <1>2, <1>3, <1>5 DEF Excused, ToVisit, Live
  <2>2. AtHand(c) => AtHand(c)'
    <3>1. (\E e \in found : sync'.event = e.id) => TheEvent' # {}
      BY <1>2, <1>5 DEF EventOf, TheEvent
    <3>2. Linked => Linked'
      BY <1>2, <1>5, <3>1 DEF Linked
    <3> QED BY <1>3, <1>5, <3>2 DEF AtHand, Calls
  <2>3. Current(c) => Current(c)'
    BY <1>2 DEF Current
  <2> QED BY <1>6, <2>1, <2>2, <2>3 DEF Accounted
<1> QED BY <1>7, <1>8, <1>9 DEF Accounted

\* What an event call that took effect does to the events: it touches the card's own one
\* only, and where its answer is recorded with the id given, that is the event of now.
EventsOf(c, id) ==
    /\ id \in Nat /\ id <= spent'.events /\ spent.events <= spent'.events
    /\ \A e \in events : e.card # c => e \in events'
    /\ \A f \in events' :
          \/ f \in events
          \/ /\ f.card = c
             /\ f.id > spent.events \/ \E e \in events : e.id = f.id /\ e.card = c
    /\ \A f \in events' : f.id = id => f.card = c
    /\ \/ sync.shows = NothingDue /\ id = 0
       \/ [id |-> id, calendar |-> sync.copy.calendar, card |-> c, shows |-> sync.shows]
             \in events'

LEMMA EventsTouched ==
    ASSUME JInv, UpdateEvent \/ CreateEvent \/ DeleteEvent
    PROVE  /\ Ids'
           /\ ~clobbered => \E id \in 0..MaxEvents : Answered(id) /\ EventsOf(sync.card, id)
<1>1. IInv /\ TypeOK /\ Ids /\ Tracked /\ spent \in Spent /\ spent.events \in Nat
  BY DEF JInv, IInv, Spent
<1>2. /\ sync \in SyncRecord /\ sync # Nobody /\ sync.event \in 0..MaxEvents
      /\ sync.card \in Cards
  BY <1>1 DEF UpdateEvent, CreateEvent, DeleteEvent, At, TypeOK, SyncRecord
<1> DEFINE EventType == [id : 1..MaxEvents, calendar : 1..MaxCalendars, card : Cards,
                         shows : Amounts]
<1>3. events \subseteq EventType
  BY <1>1 DEF TypeOK
<1>4. ~clobbered /\ sync.at \in {"updating", "deleting"} =>
         \A e \in events : e.id = sync.event => e.card = sync.card
  BY <1>1, <1>2 DEF Tracked, CallOk, Calls
<1>5. CASE UpdateEvent
  <2>1. sync.at = "updating" /\ sync.shows \in Amounts /\ TheEvent # {} /\ spent' = spent
    BY <1>1, <1>5 DEF UpdateEvent, At, IInv, SyncOk
  <2>2. PICK e \in events : TheEvent = {e} /\ e.id = sync.event /\ e.calendar = sync.copy.calendar
    BY <1>1, <2>1 DEF TheEvent, Ids
  <2> DEFINE new == [e EXCEPT !.shows = sync.shows]
  <2>3. /\ new.id = e.id /\ new.card = e.card /\ new.calendar = e.calendar
        /\ new = [id |-> e.id, calendar |-> e.calendar, card |-> e.card, shows |-> sync.shows]
    BY <1>3
  <2>4. events' = (events \ {e}) \union {new}
    BY <1>5, <2>2 DEF UpdateEvent
  <2> HIDE DEF new
  <2>5. Ids'
    BY <1>1, <2>1, <2>3, <2>4 DEF Ids
  <2>6. Answered(sync.event)
    BY <1>5 DEF UpdateEvent
  <2>7. ASSUME ~clobbered PROVE EventsOf(sync.card, sync.event)
    <3>1. e.card = sync.card
      BY <1>4, <2>1, <2>2, <2>7
    <3>2. sync.event \in Nat /\ sync.event <= spent.events /\ spent.events <= spent'.events
      BY <1>1, <1>2, <2>1, <2>2 DEF Ids
    <3>3. \A f \in events' : f.id = sync.event => f.card = sync.card
      BY <1>1, <2>2, <2>3, <2>4, <3>1 DEF Ids
    <3> QED BY <2>1, <2>2, <2>3, <2>4, <3>1, <3>2, <3>3 DEF EventsOf
  <2> QED BY <1>2, <2>5, <2>6, <2>7
<1>6. CASE CreateEvent
  <2> DEFINE new == [id |-> spent.events + 1, calendar |-> sync.copy.calendar,
                     card |-> sync.card, shows |-> sync.shows]
  <2>1. /\ events' = events \union {new} /\ spent'.events = spent.events + 1
        /\ spent.events + 1 \in 0..MaxEvents /\ Answered(spent.events + 1)
    BY <1>1, <1>6, ConstantsAssumption DEF CreateEvent, Spent
  <2>2. \A f \in events : f.id \in Nat /\ f.id <= spent.events
    BY <1>1, <1>3 DEF Ids
  <2>3. new.id = spent.events + 1 /\ new.card = sync.card
    OBVIOUS
  <2>4. Ids'
    <3> HIDE DEF new
    <3> QED BY <1>1, <2>1, <2>2, <2>3 DEF Ids
  <2>5. EventsOf(sync.card, spent.events + 1)
    BY <1>1, <2>1, <2>2, <2>3 DEF EventsOf
  <2> QED BY <2>1, <2>4, <2>5
<1>7. CASE DeleteEvent
  <2>1. /\ sync.at = "deleting" /\ events' = events \ TheEvent /\ spent' = spent /\ Answered(0)
    BY <1>7 DEF DeleteEvent, At
  <2>2. Ids'
    BY <1>1, <2>1 DEF Ids
  <2>3. ASSUME ~clobbered PROVE EventsOf(sync.card, 0)
    <3>1. \A e \in TheEvent : e.card = sync.card
      BY <1>4, <2>1, <2>3 DEF TheEvent
    <3>2. sync.shows = NothingDue
      BY <1>1, <1>2, <2>1, <2>3 DEF Tracked, CallOk, Calls
    <3>3. \A f \in events' : f.id # 0
      BY <1>3, <2>1
    <3> QED BY <1>1, <2>1, <3>1, <3>2, <3>3 DEF EventsOf
  <2> QED BY <2>1, <2>2, <2>3, ConstantsAssumption
<1> QED BY <1>5, <1>6, <1>7

\* The answer is recorded in the connection that the call was made with, or is lost.
LEMMA EventTracked ==
    ASSUME JInv, UpdateEvent \/ CreateEvent \/ DeleteEvent PROVE Ids' /\ Tracked'
<1>1. IInv /\ TypeOK /\ Ids /\ Tracked /\ Ids'
  BY EventsTouched DEF JInv, IInv
<1> DEFINE c == sync.card
<1>2. /\ sync \in SyncRecord /\ sync # Nobody /\ c \in Cards /\ sync.copy \in Connection
      /\ sync.at \in Calls
  BY <1>1 DEF UpdateEvent, CreateEvent, DeleteEvent, At, IInv, SyncOk, TypeOK, SyncRecord, Calls
<1>3. UNCHANGED <<amount, waiting, calendars, unread>>
  BY DEF UpdateEvent, CreateEvent, DeleteEvent
<1>4. clobbered => clobbered'
  BY ClobberStays, Zenon
     DEF UpdateEvent, CreateEvent, DeleteEvent, Answered, SetEventMapping
<1> SUFFICES ASSUME ~clobbered' PROVE (Mapped /\ Kept /\ CallOk /\ Accounted)'
  BY <1>1 DEF Tracked
<1>5. Mapped /\ Kept /\ CallOk /\ Accounted
  BY <1>1, <1>4 DEF Tracked
<1>6. PICK id \in 0..MaxEvents : Answered(id) /\ EventsOf(c, id)
  BY <1>4, EventsTouched
<1>7. /\ sync' = Returned(sync) /\ status'[c] \in {"synced", "error"}
      /\ \A d \in Cards \ {c} : status'[d] = status[d]
  BY <1>1, <1>2, <1>6 DEF Answered, Answer, TypeOK
<1>8. CallOk'
  <2>1. Between(sync)'
    BY <1>2, <1>7, ReturnedBetween DEF Between
  <2> QED BY <2>1, NotCalling
\* The connection of now, as it was but for the card's mapping.
<1>9. Live(store)' => Live(store) /\ store'.calendar = store.calendar
                      /\ \A d \in Cards \ {c} : store'.events[d] = store.events[d]
  <2>1. CASE SetEventMapping(id) /\ Answer("synced")
    <3>1. store = sync.copy /\ store' = [sync.copy EXCEPT !.events[c] = id]
          /\ store # NoConnection
      BY <1>1, <1>2, <2>1, Saved DEF SetEventMapping
    <3> QED BY <1>2, <3>1 DEF Connection, Live
  <2>2. CASE UNCHANGED <<store, clobbered>>
    BY <2>2 DEF Live
  <2> QED BY <1>6, <2>1, <2>2 DEF Answered
<1>10. /\ status'[c] = "synced" => store.calendar = sync.copy.calendar
                                   /\ (Live(store)' => store'.events[c] = id)
       /\ status'[c] # "synced" => store' = store
  <2>1. CASE SetEventMapping(id) /\ Answer("synced")
    <3>1. store = sync.copy /\ store' = [sync.copy EXCEPT !.events[c] = id]
      BY <1>2, <1>1, <2>1, Saved DEF SetEventMapping
    <3>2. status'[c] = "synced"
      BY <1>1, <1>2, <2>1 DEF Answer, TypeOK
    <3> QED BY <1>2, <3>1, <3>2 DEF Connection
  <2>2. CASE Answer("error") /\ UNCHANGED <<store, clobbered>>
    BY <1>1, <1>2, <2>2 DEF Answer, TypeOK
  <2> QED BY <1>6, <2>1, <2>2 DEF Answered
<1> HIDE DEF c
<1>11. Mapped'
  <2> SUFFICES ASSUME Live(store)', NEW d \in Cards
               PROVE  /\ store'.events[d] <= spent'.events
                      /\ \A f \in events' : f.id = store'.events[d] => f.card = d
    BY DEF Mapped
  <2>1. CASE d = c /\ status'[c] = "synced"
    BY <1>6, <1>10, <2>1 DEF EventsOf
  <2>2. CASE d # c \/ status'[c] # "synced"
    <3>1. store'.events[d] = store.events[d] /\ Live(store)
      BY <1>9, <1>10, <2>2
    <3>2. store.events[d] \in Nat /\ spent.events \in Nat /\ spent'.events \in Nat
      <4>1. store.events[d] \in 0..MaxEvents
        BY <1>1, <3>1 DEF TypeOK, Live, Connection
      <4>2. spent'.events \in Nat
        BY IInvEvent, <1>1 DEF IInv, Spent
      <4> QED BY <1>1, <4>1, <4>2 DEF IInv, Spent
    <3>3. /\ store.events[d] <= spent.events
          /\ \A e \in events : e.id = store.events[d] => e.card = d
      BY <1>5, <3>1 DEF Mapped
    <3>4. store'.events[d] <= spent'.events
      BY <1>6, <3>1, <3>2, <3>3 DEF EventsOf
    <3>5. ASSUME NEW f \in events', f.id = store.events[d] PROVE f.card = d
      <4>1. ~(f.id > spent.events)
        BY <3>2, <3>3, <3>5
      <4> QED BY <1>6, <3>3, <3>5, <4>1 DEF EventsOf
    <3> QED BY <3>1, <3>4, <3>5
  <2> QED BY <2>1, <2>2
<1>12. Kept'
  <2> SUFFICES ASSUME Live(store)', store'.calendar \in calendars, NEW d \in Cards,
                      status'[d] = "synced", store'.events[d] # 0
               PROVE  \E e \in events' : e.id = store'.events[d] /\ e.calendar = store'.calendar
    BY <1>3 DEF Kept
  <2>1. CASE d = c
    BY <1>6, <1>9, <1>10, <2>1 DEF EventsOf
  <2>2. CASE d # c
    <3>1. Live(store) /\ store.calendar \in calendars /\ status[d] = "synced"
          /\ store.events[d] = store'.events[d] /\ store.events[d] # 0
      BY <1>7, <1>9, <2>2
    <3>2. PICK e \in events : e.id = store.events[d] /\ e.calendar = store.calendar
      BY <1>5, <3>1 DEF Kept
    <3>3. e.card = d
      BY <1>5, <3>1, <3>2 DEF Mapped
    <3>4. e \in events'
      BY <1>6, <2>2, <3>3 DEF EventsOf
    <3> QED BY <1>9, <3>1, <3>2, <3>4
  <2> QED BY <2>1, <2>2
<1>13. ASSUME NEW d \in Cards, Live(store)' PROVE (Excused(d) \/ AtHand(d) \/ Current(d))'
  <2>1. CASE d = c
    <3>1. CASE status'[c] # "synced"
      BY <2>1, <3>1 DEF Excused
    <3>2. CASE status'[c] = "synced"
      <4>1. c \in unread' \/ waiting'[c] # NoRequests \/ sync.shows = amount'[c]
        BY <1>2, <1>3, <1>5 DEF CallOk, c
      <4>2. CASE sync.shows = amount'[c]
        <5>1. store'.events[d] = id /\ store'.calendar = sync.copy.calendar
          BY <1>9, <1>10, <1>13, <2>1, <3>2
        <5>2. \/ amount'[d] = NothingDue /\ id = 0
              \/ [id |-> id, calendar |-> sync.copy.calendar, card |-> d,
                  shows |-> amount'[d]] \in events'
          BY <1>6, <2>1, <4>2 DEF EventsOf
        <5> QED BY <5>1, <5>2 DEF Current
      <4> QED BY <2>1, <4>1, <4>2 DEF Excused
    <3> QED BY <3>1, <3>2
  <2>2. CASE d # c
    <3>1. ToVisit(d) => ToVisit(d)'
      BY <1>2, <1>7, ToVisitStays
    <3>2. Excused(d) => Excused(d)'
      BY <1>3, <1>7, <1>9, <1>13, <2>2, <3>1 DEF Excused
    <3>3. Current(d) => Current(d)'
      BY <1>3, <1>6, <1>9, <1>13, <2>2 DEF Current, EventsOf
    <3>4. ~AtHand(d)
      BY <2>2 DEF AtHand, c
    <3> QED BY <1>5, <3>2, <3>3, <3>4 DEF Accounted
  <2> QED BY <2>1, <2>2
<1> QED BY <1>8, <1>11, <1>12, <1>13 DEF Accounted, Excused

\* A call fails, or finds its calendar or its event gone: then the card reads as it did
\* only if the calendar of now is the one that is gone.
LEMMA FailTracked == ASSUME JInv, CallFails \/ NotFound PROVE Ids' /\ Tracked'
<1>1. IInv /\ TypeOK /\ Ids /\ Tracked
  BY DEF JInv, IInv
<1>2. UNCHANGED <<amount, store, waiting, calendars, events, spent, unread, clobbered>>
  BY DEF CallFails, NotFound, providerVars, historyVars
<1> DEFINE c == sync.card
<1>3. sync \in SyncRecord /\ sync # Nobody /\ c \in Cards /\ sync.at \in Calls
  BY <1>1 DEF CallFails, NotFound, TypeOK, SyncRecord
<1>4. Ids'
  BY <1>1, <1>2 DEF Ids
<1>5. CASE NotFound /\ ~Live(store)
  <2>1. ~Live(store)' /\ sync' = Returned(sync)
    BY <1>2, <1>5 DEF NotFound, Live
  <2>2. Between(sync)'
    BY <1>3, <2>1, ReturnedBetween DEF Between
  <2> QED BY <1>2, <2>1, <2>2, NotLiveTracked
<1> SUFFICES ASSUME ~clobbered' PROVE (Mapped /\ Kept /\ CallOk /\ Accounted)'
  BY <1>4 DEF Tracked
<1>6. Mapped /\ Kept /\ CallOk /\ Accounted /\ Mapped'
  BY <1>1, <1>2, MappedStays DEF Tracked
<1>7. \A d : Current(d) => Current(d)'
  BY <1>2 DEF Current
<1>8. CASE CallFails
  <2>1. sync' = Returned(sync) /\ status' = [status EXCEPT ![c] = "error"]
    BY <1>8 DEF CallFails, Answer
  <2>2. status'[c] = "error" /\ \A d \in Cards \ {c} : status'[d] = status[d]
    BY <1>1, <1>3, <2>1 DEF TypeOK
  <2>3. Between(sync)'
    BY <1>3, <2>1, ReturnedBetween DEF Between
  <2>4. Kept'
    BY <1>2, <1>6, <2>2 DEF Kept, Live
  <2>5. ASSUME NEW d \in Cards \ {c} PROVE (Excused(d) \/ AtHand(d) \/ Current(d))'
    <3>1. ToVisit(d) => ToVisit(d)'
      BY <1>3, <2>1, ToVisitStays
    <3>2. Excused(d) => Excused(d)'
      BY <1>2, <2>2, <3>1 DEF Excused, Live
    <3> QED BY <1>6, <1>7, <3>2 DEF Accounted, AtHand
  <2>6. ASSUME NEW d \in Cards, d = c PROVE Excused(d)'
    BY <2>2, <2>6 DEF Excused
  <2> QED BY <1>6, <2>3, <2>4, <2>5, <2>6, NotCalling DEF Accounted
<1>9. CASE NotFound /\ Live(store)
  <2> DEFINE call == [sync EXCEPT !.at = "recreating", !.copy = store,
                                  !.event = 0, !.shows = NothingDue]
  <2>1. sync' = call /\ status' = status /\ store \in Connection
    BY <1>1, <1>9 DEF NotFound, Live, TypeOK
  <2>2. call \in SyncRecord /\ call.at = "recreating" /\ call.todo = sync.todo
    <3>1. 0 \in 0..MaxEvents
      BY ConstantsAssumption
    <3> QED BY <1>3, <2>1, <3>1 DEF SyncRecord
  <2>3. call # Nobody
    BY <2>2, NothingAssumption
  <2> HIDE DEF call
  <2>4. Kept' /\ CallOk'
    BY <1>2, <1>6, <2>1, <2>2 DEF Kept, CallOk, Live, Calls
  <2>5. ASSUME NEW d \in Cards PROVE (Excused(d) \/ AtHand(d) \/ Current(d))'
    <3>1. ToVisit(d) => ToVisit(d)'
      BY <2>1, <2>2, <2>3 DEF ToVisit
    <3>2. Excused(d) => Excused(d)'
      BY <1>2, <2>1, <3>1 DEF Excused, Live
    <3>3. AtHand(d) => Current(d) \/ Excused(d)
      <4> SUFFICES ASSUME sync.card = d, Linked, status[d] = "synced", store.calendar \in calendars
                   PROVE  FALSE
        BY <1>3 DEF AtHand, Current, Excused, Calls
      <4>1. CalendarExists
        BY DEF Linked, CalendarExists
      <4> QED BY <1>9, <4>1 DEF NotFound, Linked, CalendarExists
    <3> QED BY <1>6, <1>7, <3>2, <3>3 DEF Accounted
  <2> QED BY <1>6, <2>4, <2>5 DEF Accounted
<1> QED BY <1>5, <1>8, <1>9 DEF Tracked

\* The calendar is created again: every card with something due is to be visited.
LEMMA RecreateTracked == ASSUME JInv, RecreateCalendar PROVE Ids' /\ Tracked'
<1>1. IInv /\ TypeOK /\ Ids /\ Tracked /\ spent \in Spent
  BY DEF JInv, IInv
<1>2. UNCHANGED <<amount, status, waiting, unread, events>>
  BY DEF RecreateCalendar, providerVars
<1>3. sync \in SyncRecord /\ sync # Nobody /\ sync.copy \in Connection /\ sync.at = "recreating"
  BY <1>1 DEF RecreateCalendar, At, IInv, SyncOk, TypeOK
<1>4. CASE /\ sync' = Returned(sync)
           /\ UNCHANGED <<store, clobbered, providerVars, spent>>
  <2>1. Ids'
    BY <1>1, <1>2, <1>4 DEF Ids
  <2> SUFFICES ASSUME ~clobbered' PROVE (Mapped /\ Kept /\ CallOk /\ Accounted)'
    BY <2>1 DEF Tracked
  <2>2. Mapped /\ Kept /\ Accounted
    BY <1>1, <1>4 DEF Tracked
  <2>3. Mapped' /\ Kept'
    BY <1>2, <1>4, <2>2, MappedStays DEF Kept, Live, providerVars
  <2>4. Between(sync)'
    BY <1>3, <1>4, ReturnedBetween DEF Between
  <2>5. ASSUME NEW d \in Cards PROVE (Excused(d) \/ AtHand(d) \/ Current(d))'
    <3>1. ToVisit(d) => ToVisit(d)'
      BY <1>3, <1>4, ToVisitStays
    <3>2. Excused(d) => Excused(d)'
      BY <1>2, <1>4, <3>1 DEF Excused, Live
    <3>3. Current(d) => Current(d)'
      BY <1>2, <1>4 DEF Current, providerVars
    <3> QED BY <1>3, <2>2, <3>2, <3>3 DEF Accounted, AtHand, Calls
  <2> QED BY <2>3, <2>4, <2>5, NotCalling DEF Accounted
<1>5. ASSUME NEW k \in 1..MaxCalendars, NEW cs \in Qualifying, CreateCalendar(k),
             Save(sync.copy, [sync.copy EXCEPT !.calendar = k, !.events = NoEvents]),
             sync' = Returned([sync EXCEPT !.todo = IF cs = {} THEN sync.todo
                                                    ELSE <<cs>> \o sync.todo])
      PROVE  Ids' /\ Tracked'
  <2> DEFINE todo == IF cs = {} THEN sync.todo ELSE <<cs>> \o sync.todo
             s == [sync EXCEPT !.todo = todo]
  <2>1. spent'.events = spent.events /\ spent.events \in Nat
    BY <1>1, <1>5 DEF CreateCalendar, Spent
  <2>2. Ids'
    BY <1>1, <1>2, <2>1 DEF Ids
  <2>3. cs \in SUBSET Cards /\ sync.todo \in Seq(SUBSET Cards)
    BY <1>3 DEF Qualifying, SyncRecord
  <2>4. todo \in Seq(SUBSET Cards)
    <3>1. <<cs>> \in Seq(SUBSET Cards)
      BY <2>3
    <3>2. <<cs>> \o sync.todo \in Seq(SUBSET Cards)
      BY <2>3, <3>1
    <3> QED BY <2>3, <3>2
  <2>5. cs # {} => 1 \in 1..Len(todo) /\ todo[1] = cs
    BY <2>3
  <2> HIDE DEF todo
  <2>6. s \in SyncRecord /\ s.todo = todo
    BY <1>3, <2>4 DEF SyncRecord
  <2>7. sync' = Returned(s)
    BY <1>5 DEF todo
  <2> HIDE DEF s
  <2>8. Between(sync)'
    BY <2>6, <2>7, ReturnedBetween DEF Between
  <2>9. \A c \in cs : ToVisit(c)'
    BY <2>5, <2>6, <2>7, ReturnedVisits DEF ToVisit
  <2>10. \A c \in Cards : store'.events[c] = 0
    BY <1>3, <1>5 DEF Save, NoEvents, Connection
  <2>11. \A e \in events : e.id # 0
    BY <1>1 DEF TypeOK
  <2>12. Mapped' /\ Kept'
    BY <1>2, <2>1, <2>10, <2>11 DEF Mapped, Kept
  <2>13. Accounted'
    BY <1>2, <2>9, <2>10 DEF Accounted, Excused, Current, Qualifying
  <2> QED BY <2>2, <2>8, <2>12, <2>13, NotCalling DEF Tracked
<1> QED BY <1>4, <1>5 DEF RecreateCalendar

----------------------------------------------------------------------------
(* The theorem.                                                            *)

LEMMA JInvStep == ASSUME JInv, [Next]_vars PROVE JInv'
<1>1. IInv'
  BY IInvStep DEF JInv
<1>2. CASE SyncStep
  <2>1. CASE \E c \in Cards : NextCard(c) \/ StartSync(c, "told") \/ StartSync(c, "asked")
    BY <1>1, <2>1, BeginTracked DEF JInv
  <2> QED BY <1>1, <1>2, <2>1, RefreshTracked, PlanTracked, FindTracked, EventTracked,
             FailTracked, RecreateTracked DEF SyncStep, JInv
<1>3. CASE \E c \in Cards : ChangeCard(c) \/ PayCard(c) \/ Resync(c)
  BY <1>1, <1>3, CardTracked DEF JInv
<1> QED BY <1>1, <1>2, <1>3, RequestsTracked, OutsideTracked, ConnectedTracked DEF Next, JInv

\* A card that reads "Synced" has the event the connection records for it, showing the
\* amount of now, once its syncs are over: for any number of cards, syncs and requests,
\* whatever calls fail or take effect without an answer, unless somebody saved a stale
\* copy of the connection or the card was changed without a sync.
THEOREM SyncedIsCurrent == Spec => []RecordedEventIsCurrent
<1>1. JInv => RecordedEventIsCurrent
  BY DEF JInv, Tracked, Accounted, Excused, AtHand, ToVisit, Current, Quiet,
     RecordedEventIsCurrent
<1> QED BY <1>1, JInvInit, JInvStep, PTL DEF Spec
=============================================================================
