---------------------------- MODULE CalendarSync ----------------------------
(***************************************************************************)
(* The events with which the user's calendar shows what each credit card   *)
(* has to pay. Saves of cards and charges trigger background syncs, which  *)
(* a lock serializes; connecting, disconnecting and status requests do not *)
(* take that lock. All of them load the one stored connection, call the    *)
(* calendar provider, and save the copy they loaded with their change in   *)
(* it. One action runs from one of these calls to the next.                *)
(*                                                                         *)
(* A call's effect and the save that follows it are one step: the store is *)
(* not read in between, so whatever others do there they could as well     *)
(* have done before the call.                                              *)
(***************************************************************************)
EXTENDS Naturals, FiniteSets, Sequences, SequencesExt

CONSTANTS
    Cards,
    Amounts,        \* the amounts a card's event may show
    NothingDue,     \* no event: nothing due, no due date, inactive or deleted
    NoConnection,   \* the credentials file does not exist
    Nobody,         \* no request of the kind is under way
    MaxRequests,    \* bound: changes of cards and resyncs asked for
    MaxConnects,    \* bound: connections begun
    MaxExpiries,    \* bound: times the access token expires
    MaxOutside,     \* bound: requests under way at once that do not take the lock
    MaxCalendars,   \* bound: calendars ever created
    MaxEvents       \* bound: events ever created

ASSUME ConstantsAssumption ==
    /\ NothingDue \notin Amounts
    /\ MaxRequests \in Nat /\ MaxConnects \in Nat /\ MaxExpiries \in Nat
    /\ MaxOutside \in Nat
    /\ MaxCalendars \in Nat /\ MaxEvents \in Nat

VARIABLES
    amount,      \* what each card's event should show, by the repository
    store,       \* the credentials file
    status,      \* CreditCardCalendarSyncStatusStore
    waiting,     \* syncs of each card that wait for _syncLock, by kind
    sync,        \* the sync that holds _syncLock, or Nobody
    poll,        \* the connection a status request is refreshing, or Nobody
    leaving,     \* the disconnect request under way, or Nobody
    joining,     \* the connect request under way, or Nobody
    calendars,   \* the dedicated calendars in the user's account
    events,      \* the events in them
    now,         \* tokens issued before it have expired
    spent,       \* how many requests, connects, calendars and events there were
    unread,      \* cards changed, or moved to a new calendar, that no sync has read since
    clobbered,   \* somebody saved a copy of a connection that had been changed
    unhealed     \* cards whose sync ended in creating the calendar, or failing to, again

requestVars == <<poll, leaving, joining>>
providerVars == <<calendars, events>>
historyVars == <<unread, clobbered, unhealed>>
vars == <<amount, store, status, waiting, sync, requestVars, providerVars, now, spent,
          historyVars>>

----------------------------------------------------------------------------
Connection == [calendar : 1..MaxCalendars, token : 0..MaxExpiries,
               revoked : BOOLEAN, events : [Cards -> 0..MaxEvents]]

NoEvents == [c \in Cards |-> 0]

Live(connection) == connection # NoConnection /\ ~connection.revoked

Expired(connection) == connection.token < now

Refreshed(connection) == [connection EXCEPT !.token = now]

Tombstone(connection) == [connection EXCEPT !.revoked = TRUE]

\* Save what was made of the copy loaded before.
Save(copy, connection) ==
    /\ store' = connection
    /\ clobbered' = (clobbered \/ store # copy)

EventOf(c, k) == {e \in events : e.card = c /\ e.calendar = k}

\* The cards a bulk resync visits: those with a due date, whether or not anything
\* is due.
Qualifying == {cs \in SUBSET Cards : \A c \in Cards : amount[c] # NothingDue => c \in cs}

\* CalendarDefaults: every calendar the app makes has the same name.
CreateCalendar(k) ==
    /\ spent.calendars < MaxCalendars
    /\ k = spent.calendars + 1
    /\ calendars' = calendars \union {k}
    /\ spent' = [spent EXCEPT !.calendars = k]

NoRequests == [told |-> 0, asked |-> 0]

Init ==
    /\ amount \in [Cards -> Amounts \union {NothingDue}]
    /\ store = NoConnection
    /\ status = [c \in Cards |-> "none"]
    /\ waiting = [c \in Cards |-> NoRequests]
    /\ sync = Nobody /\ poll = Nobody /\ leaving = Nobody /\ joining = Nobody
    /\ calendars = {} /\ events = {}
    /\ now = 0
    /\ spent = [requests |-> 0, connects |-> 0, calendars |-> 0, events |-> 0]
    /\ unread = {} /\ clobbered = FALSE /\ unhealed = {}

----------------------------------------------------------------------------
(* The cards.                                                              *)

Spend == /\ spent.requests < MaxRequests
         /\ spent' = [spent EXCEPT !.requests = spent.requests + 1]

\* Mutant: a sync that is under way for the card is taken to be enough.
TriggerSyncMutant(c) ==
    IF Live(store)
      THEN /\ status' = [status EXCEPT ![c] = "pending"]
           /\ waiting' = IF sync # Nobody /\ sync.card = c THEN waiting
                         ELSE [waiting EXCEPT ![c].told = waiting[c].told + 1]
           /\ UNCHANGED unread
      ELSE /\ unread' = unread \union {c}
           /\ UNCHANGED <<status, waiting>>

TriggerSync(c) ==
    IF Live(store)
      THEN /\ status' = [status EXCEPT ![c] = "pending"]
           /\ waiting' = [waiting EXCEPT ![c].told = waiting[c].told + 1]
           /\ UNCHANGED unread
      ELSE /\ unread' = unread \union {c}
           /\ UNCHANGED <<status, waiting>>

\* A card, or a charge of it, is saved; then its sync is triggered. (One step: the steps
\* of a save are JsonRepository's, and a sync in between would read the same.)
ChangeCard(c) ==
    /\ Spend
    /\ \E a \in Amounts \union {NothingDue} : amount' = [amount EXCEPT ![c] = a]
    /\ TriggerSync(c)
    /\ UNCHANGED <<store, sync, requestVars, providerVars, now, clobbered, unhealed>>

\* Its statement is paid or unmarked: no sync is triggered.
PayCard(c) ==
    /\ Spend
    /\ amount[c] # NothingDue
    /\ \E a \in Amounts \union {NothingDue} : amount' = [amount EXCEPT ![c] = a]
    /\ unread' = unread \union {c}
    /\ UNCHANGED <<store, status, waiting, sync, requestVars, providerVars, now, clobbered,
                   unhealed>>

\* The user asks for a card's sync.
Resync(c) ==
    /\ Spend
    /\ waiting' = [waiting EXCEPT ![c].asked = waiting[c].asked + 1]
    /\ UNCHANGED <<amount, store, status, sync, requestVars, providerVars, now, historyVars>>

----------------------------------------------------------------------------
(* A sync, inside the lock. It is for one card, unless it has to create the *)
(* calendar again: then it goes on with every qualifying card, inside the  *)
(* same call.                                                              *)
(*   refreshing  RefreshAccessTokenAsync                                   *)
(*   planning    has a token, is to load the connection again              *)
(*   finding, updating, creating, deleting     a call about the event      *)
(*   recreating  CreateCalendarAsync                                       *)
(*   next        back in the loop over the qualifying cards                *)

Calls == {"finding", "updating", "creating", "deleting"}

NewSync(c, kind) ==
    [origin |-> c, kind |-> kind, card |-> c, at |-> "next",
     copy |-> NoConnection, shows |-> NothingDue, event |-> 0, todo |-> <<>>]

\* SyncLockedAsync returns: to the loop that called it, or to SyncCoreAsync, which
\* releases the lock.
Returned(s) ==
    IF s.todo = <<>> THEN Nobody
    ELSE [NewSync(s.origin, s.kind) EXCEPT !.card = s.card, !.todo = s.todo]

\* SyncLockedAsync begins: load the connection, see whether its token is valid.
Loaded(s) ==
    IF ~Live(store) THEN Returned(s)
    ELSE IF Expired(store) THEN [s EXCEPT !.at = "refreshing", !.copy = store]
    ELSE [s EXCEPT !.at = "planning"]

At(place) == sync # Nobody /\ sync.at = place

StartSync(c, kind) ==
    /\ sync = Nobody
    /\ waiting[c][kind] > 0
    /\ waiting' = [waiting EXCEPT ![c][kind] = waiting[c][kind] - 1]
    /\ sync' = Loaded(NewSync(c, kind))
    /\ UNCHANGED <<amount, store, status, requestVars, providerVars, now, spent, historyVars>>

NextCard(c) ==
    /\ At("next")
    /\ c \in Head(sync.todo)
    /\ LET rest == Head(sync.todo) \ {c}
       IN sync' = Loaded([sync EXCEPT !.card = c,
                             !.todo = IF rest = {} THEN Tail(sync.todo)
                                      ELSE <<rest>> \o Tail(sync.todo)])
    /\ UNCHANGED <<amount, store, status, waiting, requestVars, providerVars, now, spent,
                   historyVars>>

\* An exception of the refresh leaves SyncLockedAsync, through all its loops. A
\* triggered sync records it; a bulk resync gives up its other cards.
Throw ==
    /\ sync' = Nobody
    /\ UNCHANGED <<store, clobbered>>
    /\ LET skipped == {sync.card} \union UNION ToSet(sync.todo)
           dropped == {c \in Cards : waiting[c].asked > 0}
       IN \/ /\ sync.kind = "told"
             /\ status' = [status EXCEPT ![sync.origin] = "error"]
             /\ unread' = unread \union skipped
             /\ UNCHANGED waiting
          \/ /\ sync.kind = "asked"
             /\ unread' = unread \union skipped
             /\ UNCHANGED <<waiting, status>>
          \/ /\ sync.kind = "asked"
             /\ waiting' = [c \in Cards |-> [waiting[c] EXCEPT !.asked = 0]]
             /\ unread' = unread \union skipped \union dropped
             /\ UNCHANGED status

\* GetValidAccessTokenAsync: refreshed, revoked or failed.
SyncRefresh ==
    /\ At("refreshing")
    /\ \/ /\ Save(sync.copy, Refreshed(sync.copy))
          /\ sync' = [sync EXCEPT !.at = "planning", !.copy = NoConnection]
          /\ UNCHANGED <<status, waiting, unread>>
       \/ /\ Save(sync.copy, Tombstone(sync.copy))
          /\ sync' = Returned(sync)
          /\ UNCHANGED <<status, waiting, unread>>
       \/ Throw
    /\ UNCHANGED <<amount, requestVars, providerVars, now, spent, unhealed>>

Answer(outcome) ==
    /\ status' = [status EXCEPT ![sync.card] = outcome]
    /\ sync' = Returned(sync)

\* The connection is loaded again, the card and its amount are read, and the call is
\* chosen.
Plan ==
    /\ At("planning")
    /\ IF ~Live(store)
         THEN sync' = Returned(sync) /\ UNCHANGED <<status, unread>>
         ELSE LET event == store.events[sync.card]
                  call(place) == [sync EXCEPT !.at = place, !.copy = store, !.event = event,
                                              !.shows = amount[sync.card]]
              IN /\ unread' = unread \ {sync.card}
                 /\ IF amount[sync.card] = NothingDue /\ event = 0 THEN Answer("synced")
                    ELSE /\ sync' = call(IF amount[sync.card] = NothingDue THEN "deleting"
                                         ELSE IF event = 0 THEN "finding" ELSE "updating")
                         /\ UNCHANGED status
    /\ UNCHANGED <<amount, store, waiting, requestVars, providerVars, now, spent, clobbered,
                   unhealed>>

CalendarExists == sync.copy.calendar \in calendars

\* Mutant: an event is created without looking for one.
FindEventMutant ==
    /\ At("finding") /\ CalendarExists
    /\ sync' = [sync EXCEPT !.at = "creating"]
    /\ UNCHANGED <<amount, store, status, waiting, requestVars, providerVars, now, spent,
                   historyVars>>

\* FindEventIdByTitlePrefixAsync. (Cards keep their names.)
FindEvent ==
    /\ At("finding") /\ CalendarExists
    /\ LET found == EventOf(sync.card, sync.copy.calendar)
       IN IF found = {} THEN sync' = [sync EXCEPT !.at = "creating"]
          ELSE \E e \in found : sync' = [sync EXCEPT !.at = "updating", !.event = e.id]
    /\ UNCHANGED <<amount, store, status, waiting, requestVars, providerVars, now, spent,
                   historyVars>>

\* SetEventMapping, RemoveEventMapping (with event 0)
SetEventMapping(event) == Save(sync.copy, [sync.copy EXCEPT !.events[sync.card] = event])

\* The call is answered, or its exception is recorded though it took effect.
Answered(event) ==
    \/ SetEventMapping(event) /\ Answer("synced")
    \/ Answer("error") /\ UNCHANGED <<store, clobbered>>

TheEvent == {e \in events : e.id = sync.event /\ e.calendar = sync.copy.calendar}

UpdateEvent ==
    /\ At("updating") /\ CalendarExists /\ TheEvent # {}
    /\ events' = (events \ TheEvent) \union {[e EXCEPT !.shows = sync.shows] : e \in TheEvent}
    /\ Answered(sync.event)
    /\ UNCHANGED <<amount, waiting, requestVars, calendars, now, spent, unread, unhealed>>

CreateEvent ==
    /\ At("creating") /\ CalendarExists
    /\ spent.events < MaxEvents
    /\ spent' = [spent EXCEPT !.events = spent.events + 1]
    /\ events' = events \union {[id |-> spent.events + 1, calendar |-> sync.copy.calendar,
                                 card |-> sync.card, shows |-> sync.shows]}
    /\ Answered(spent.events + 1)
    /\ UNCHANGED <<amount, waiting, requestVars, calendars, now, unread, unhealed>>

DeleteEvent ==
    /\ At("deleting") /\ CalendarExists /\ TheEvent # {}
    /\ events' = events \ TheEvent
    /\ Answered(0)
    /\ UNCHANGED <<amount, waiting, requestVars, calendars, now, spent, unread, unhealed>>

\* The call fails and changes nothing.
CallFails ==
    /\ sync # Nobody /\ sync.at \in Calls
    /\ Answer("error")
    /\ UNCHANGED <<amount, store, waiting, requestVars, providerVars, now, spent, historyVars>>

\* The provider answers not found: for the calendar, or for the event alone. The
\* connection is loaded again, to be given a new calendar.
NotFound ==
    /\ sync # Nobody /\ sync.at \in Calls
    /\ ~CalendarExists \/ (sync.at \in {"updating", "deleting"} /\ TheEvent = {})
    /\ sync' = IF Live(store)
                 THEN [sync EXCEPT !.at = "recreating", !.copy = store,
                                   !.event = 0, !.shows = NothingDue]
                 ELSE Returned(sync)
    /\ UNCHANGED <<amount, store, status, waiting, requestVars, providerVars, now, spent,
                   historyVars>>

\* Mutant: the cards are synced through SyncCoreAsync, which waits for the lock.
RecreateCalendarMutant ==
    /\ At("recreating")
    /\ \E k \in 1..MaxCalendars :
          /\ CreateCalendar(k)
          /\ Save(sync.copy, [sync.copy EXCEPT !.calendar = k, !.events = NoEvents])
          /\ sync' = [sync EXCEPT !.at = "next", !.todo = <<{}>>]
    /\ UNCHANGED <<amount, status, waiting, requestVars, events, now, unread, unhealed>>

RecreateCalendar ==
    /\ At("recreating")
    /\ \/ /\ \E k \in 1..MaxCalendars, cs \in Qualifying :
                /\ CreateCalendar(k)
                /\ Save(sync.copy, [sync.copy EXCEPT !.calendar = k, !.events = NoEvents])
                /\ sync' = Returned([sync EXCEPT !.todo = IF cs = {} THEN sync.todo
                                                          ELSE <<cs>> \o sync.todo])
                /\ unhealed' = IF sync.card \in cs THEN unhealed
                               ELSE unhealed \union {sync.card}
          /\ UNCHANGED events
       \/ /\ sync' = Returned(sync)
          /\ unhealed' = unhealed \union {sync.card}
          /\ UNCHANGED <<store, clobbered, providerVars, spent>>
    /\ UNCHANGED <<amount, status, waiting, requestVars, now, unread>>

SyncStep ==
    \/ \E c \in Cards : NextCard(c) \/ StartSync(c, "told") \/ StartSync(c, "asked")
    \/ SyncRefresh \/ Plan
    \/ FindEvent \/ UpdateEvent \/ CreateEvent \/ DeleteEvent
    \/ CallFails \/ NotFound \/ RecreateCalendar

----------------------------------------------------------------------------
(* The requests that do not take the lock.                                 *)

MayBegin ==
    Cardinality({kind \in 1..3 : <<poll, leaving, joining>>[kind] # Nobody}) < MaxOutside

\* GetStatusAsync, when the token has expired; otherwise it changes nothing.
PollLoads ==
    /\ poll = Nobody /\ MayBegin
    /\ Live(store) /\ Expired(store)
    /\ poll' = store
    /\ UNCHANGED <<amount, store, status, waiting, sync, leaving, joining, providerVars, now,
                   spent, historyVars>>

PollRefreshes ==
    /\ poll # Nobody
    /\ poll' = Nobody
    /\ \/ Save(poll, Refreshed(poll))
       \/ Save(poll, Tombstone(poll))
       \/ UNCHANGED <<store, clobbered>>
    /\ UNCHANGED <<amount, status, waiting, sync, leaving, joining, providerVars, now, spent,
                   unread, unhealed>>

\* DisconnectAsync. The connection is loaded; an expired token is refreshed in order
\* to revoke it, and a failure of that is not caught. Revoking may fail or not.
DisconnectLoads ==
    /\ leaving = Nobody /\ MayBegin
    /\ store # NoConnection
    /\ leaving' = [copy |-> store, at |-> IF Live(store) /\ Expired(store) THEN "refreshing"
                                                                            ELSE "deleting"]
    /\ UNCHANGED <<amount, store, status, waiting, sync, poll, joining, providerVars, now,
                   spent, historyVars>>

DisconnectRefreshes ==
    /\ leaving # Nobody /\ leaving.at = "refreshing"
    /\ \/ /\ \/ Save(leaving.copy, Refreshed(leaving.copy))
             \/ Save(leaving.copy, Tombstone(leaving.copy))
          /\ leaving' = [leaving EXCEPT !.at = "deleting"]
       \/ /\ leaving' = Nobody
          /\ UNCHANGED <<store, clobbered>>
    /\ UNCHANGED <<amount, status, waiting, sync, poll, joining, providerVars, now, spent,
                   unread, unhealed>>

DisconnectDeletes ==
    /\ leaving # Nobody /\ leaving.at = "deleting"
    /\ store' = NoConnection
    /\ leaving' = Nobody
    /\ UNCHANGED <<amount, status, waiting, sync, poll, joining, providerVars, now, spent,
                   historyVars>>

\* CompleteConnectionAsync, once the code has been exchanged. A connection that is
\* replaced loses its calendar.
ConnectLoads ==
    /\ joining = Nobody /\ MayBegin
    /\ spent.connects < MaxConnects
    /\ spent' = [spent EXCEPT !.connects = spent.connects + 1]
    /\ joining' = [copy |-> store, at |-> IF ~Live(store) THEN "finding"
                                          ELSE IF Expired(store) THEN "refreshing"
                                          ELSE "replacing"]
    /\ UNCHANGED <<amount, store, status, waiting, sync, poll, leaving, providerVars, now,
                   historyVars>>

ConnectRefreshes ==
    /\ joining # Nobody /\ joining.at = "refreshing"
    /\ \/ \E copy \in {Refreshed(joining.copy), Tombstone(joining.copy)} :
             /\ Save(joining.copy, copy)
             /\ joining' = [copy |-> copy, at |-> IF Live(copy) THEN "replacing" ELSE "finding"]
       \/ /\ joining' = Nobody
          /\ UNCHANGED <<store, clobbered>>
    /\ UNCHANGED <<amount, status, waiting, sync, poll, leaving, providerVars, now, spent,
                   unread, unhealed>>

RemoveCalendar(k) ==
    /\ calendars' = calendars \ {k}
    /\ events' = {e \in events : e.calendar # k}

ConnectReplaces ==
    /\ joining # Nobody /\ joining.at = "replacing"
    /\ joining' = [joining EXCEPT !.at = "finding"]
    /\ RemoveCalendar(joining.copy.calendar) \/ UNCHANGED providerVars
    /\ UNCHANGED <<amount, store, status, waiting, sync, poll, leaving, now, spent, historyVars>>

\* A calendar of the right name is taken, or one is created (in another account, say);
\* the controller then asks for the sync of every qualifying card. Or a call fails.
ConnectFinishes ==
    /\ joining # Nobody /\ joining.at = "finding"
    /\ joining' = Nobody
    /\ \/ /\ \E k \in 1..MaxCalendars, cs \in Qualifying :
                /\ \/ k \in calendars /\ UNCHANGED <<calendars, spent>>
                   \/ CreateCalendar(k)
                /\ Save(joining.copy, [calendar |-> k, token |-> now, revoked |-> FALSE,
                                       events |-> NoEvents])
                /\ waiting' = [c \in Cards |->
                      IF c \in cs THEN [waiting[c] EXCEPT !.asked = waiting[c].asked + 1]
                                  ELSE waiting[c]]
       \/ UNCHANGED <<store, clobbered, calendars, spent, waiting>>
    /\ UNCHANGED <<amount, status, sync, poll, leaving, events, now, unread, unhealed>>

\* The user deletes a calendar by hand.
UserDeletesCalendar(k) ==
    /\ k \in calendars
    /\ RemoveCalendar(k)
    /\ UNCHANGED <<amount, store, status, waiting, sync, requestVars, now, spent, historyVars>>

TokenExpires ==
    /\ now < MaxExpiries
    /\ now' = now + 1
    /\ UNCHANGED <<amount, store, status, waiting, sync, requestVars, providerVars, spent,
                   historyVars>>

Next ==
    \/ \E c \in Cards : ChangeCard(c) \/ PayCard(c) \/ Resync(c)
    \/ SyncStep
    \/ PollLoads \/ PollRefreshes
    \/ DisconnectLoads \/ DisconnectRefreshes \/ DisconnectDeletes
    \/ ConnectLoads \/ ConnectRefreshes \/ ConnectReplaces \/ ConnectFinishes
    \/ \E k \in 1..MaxCalendars : UserDeletesCalendar(k)
    \/ TokenExpires

Spec == Init /\ [][Next]_vars

\* Background tasks run, and every call to the provider is answered.
FairSpec == Spec /\ WF_vars(SyncStep)

----------------------------------------------------------------------------
(* Properties.                                                             *)

SyncRecord ==
    [origin : Cards, kind : {"told", "asked"}, card : Cards,
     at : {"next", "refreshing", "planning", "recreating"} \union Calls,
     copy : Connection \union {NoConnection}, shows : Amounts \union {NothingDue},
     event : 0..MaxEvents, todo : Seq(SUBSET Cards)]

\* What stands for no connection and for no sync is neither.
ASSUME NothingAssumption == NoConnection \notin Connection /\ Nobody \notin SyncRecord

\* Every field, file and request has its shape.
TypeOK ==
    /\ amount \in [Cards -> Amounts \union {NothingDue}]
    /\ store \in Connection \union {NoConnection}
    /\ status \in [Cards -> {"none", "pending", "synced", "error"}]
    /\ waiting \in [Cards -> [told : Nat, asked : Nat]]
    /\ sync \in SyncRecord \union {Nobody}
    /\ poll \in Connection \union {Nobody}
    /\ leaving \in [copy : Connection, at : {"refreshing", "deleting"}] \union {Nobody}
    /\ joining \in [copy : Connection \union {NoConnection},
                    at : {"refreshing", "replacing", "finding"}] \union {Nobody}
    /\ calendars \subseteq 1..MaxCalendars
    /\ events \subseteq [id : 1..MaxEvents, calendar : 1..MaxCalendars, card : Cards,
                         shows : Amounts]
    /\ now \in 0..MaxExpiries
    /\ unread \subseteq Cards /\ unhealed \subseteq Cards /\ clobbered \in BOOLEAN

\* No calendar ever holds two events of one card: not after a lost answer, a lost
\* mapping, a calendar that was used again or one that was created again.
OneEventPerCard ==
    \A e, f \in events : e.card = f.card /\ e.calendar = f.calendar => e = f

\* No sync of the card is under way or to come.
Quiet(c) ==
    /\ sync = Nobody
    /\ waiting[c] = NoRequests

\* A card whose status reads "Synced" has the event the connection records for it, and
\* the event shows the amount of now, once its syncs are over - unless it was changed
\* without a sync, or somebody saved a stale copy of the connection.
RecordedEventIsCurrent ==
    \A c \in Cards :
        Live(store) /\ status[c] = "synced" /\ Quiet(c) /\ c \notin unread /\ ~clobbered =>
            \/ amount[c] = NothingDue /\ store.events[c] = 0
            \/ store.calendar \notin calendars
            \/ [id |-> store.events[c], calendar |-> store.calendar, card |-> c,
                shows |-> amount[c]] \in events

\* A save of the card triggered a sync that is still to come, or under way.
Triggered(c) ==
    \/ waiting[c].told > 0
    \/ sync # Nobody /\ sync.kind = "told" /\ sync.origin = c

\* A card's sync that is asked for is run to its end: nothing keeps the lock, not the
\* loop that creates the calendar again and syncs every card, not an exception in it.
\* And a card that reads "Syncing" gets its answer from the sync that was triggered,
\* unless the connection is lost or a stale copy of it saved, or the calendar had to be
\* created again and that did not come to this card.
EverySyncAnswers ==
    \A c \in Cards :
        /\ ~Quiet(c) ~> Quiet(c)
        /\ status[c] = "pending" /\ Triggered(c)
              ~> status[c] # "pending" \/ ~Live(store) \/ clobbered \/ c \in unhealed
=============================================================================
