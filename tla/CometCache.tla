------------------------------ MODULE CometCache ------------------------------
(***************************************************************************)
(* A cached list of the web UI and how it follows the server: the query    *)
(* that fills it (api/query.js), the subscription and the comet loop that  *)
(* bring changes (api/comet.js), the user's own edits (api/data.js), and   *)
(* what happens when the list is no longer shown or the user logs out.     *)
(*                                                                         *)
(* The code does not order a query, a notification and an edit that cross  *)
(* each other.  The history variable raced records the crossings after     *)
(* which the cache may differ from the server for good.                    *)
(***************************************************************************)
EXTENDS Naturals, Sequences, SequencesExt, FiniteSets

CONSTANTS Keypaths,    \* sequence: the list entries there can be, in order
          Values,      \* of the selected leaf
          Absent,      \* no such entry
          Initial,     \* bound: values, or Absent, to begin with
          Edits,       \* requests of the user
          MaxChanges,  \* bound: changes others make
          MaxVisits    \* bound: times the list is shown

Keys == Range(Keypaths)

ASSUME CometCacheAssumption ==
  /\ Keypaths \in Seq(Keys) /\ Keypaths # <<>> /\ Absent \notin Values
  /\ \A i, j \in DOMAIN Keypaths : Keypaths[i] = Keypaths[j] => i = j
  /\ Initial \subseteq Values \cup {Absent}
  /\ MaxChanges \in Nat /\ MaxVisits \in Nat \ {0}

VARIABLES
  stored,       \* server: the value of each entry
  changes,      \* server: changes made by others
  queue,        \* server: notifications not delivered
  handle,       \* server: the subscription
  data,         \* browser: the cached items
  entry,        \* ... absent, or loaded (data), with or without a subscriber
  fetch,        \* the query in flight and its answer
  subscription, \* the cached result of subscribe
  comet,        \* the comet request in flight and its answer
  unsubscribes, \* unsubscribe requests in flight
  edits,        \* the user's requests
  shown, visits,
  logout,       \* how far a logout is
  raced         \* history: crossings that the code does not order

srv  == <<stored, changes, queue, handle>>
ui   == <<shown, visits, logout>>
vars == <<srv, data, entry, fetch, subscription, comet, unsubscribes, edits, ui, raced>>

Item   == [keypath: Keys, value: Values]
Change == [op: {"value_set", "created", "deleted"}, keypath: Keys, value: Values \cup {Absent}]
Idle   == [state |-> "none", items |-> <<>>]
Races  == {"early", "fetching", "recreated", "crossing", "again", "revisited"}

NoEdit == [state |-> "none", op |-> "set", keypath |-> Keypaths[1], value |-> Absent]

\* Every variable has its type, and the cache holds an item at most once.
TypeOK ==
  /\ stored \in [Keys -> Values \cup {Absent}]
  /\ changes \in 0..MaxChanges
  /\ queue \in Seq(Change)
  /\ handle \in {"none", "created", "started"}
  /\ data \in Seq(Item) /\ Cardinality({data[i].keypath : i \in DOMAIN data}) = Len(data)
  /\ entry \in {"absent", "empty", "loaded"}
  /\ fetch \in [state: {"none", "asked", "answered"}, items: Seq(Item)]
  /\ subscription \in {"none", "asked", "answered", "known"}
  /\ comet \in [state: {"none", "asked", "answered", "ended"}, batch: Seq(Change)]
  /\ unsubscribes \in 0..(2 * MaxVisits)
  /\ edits \in [Edits -> [state: {"none", "sent", "answered", "done"},
                          op: {"set", "create", "delete"}, keypath: Keys,
                          value: Values \cup {Absent}]]
  /\ shown \in BOOLEAN /\ visits \in 0..MaxVisits
  /\ logout \in {"no", "unsubscribing", "out"}
  /\ raced \subseteq Races

------------------------------------------------------------------------------
(* The query and updateQueryData.                                            *)

\* An item for each entry that is there, in their order.
Answer ==
  LET upTo[n \in 0..Len(Keypaths)] ==
        IF n = 0 THEN <<>>
        ELSE IF stored[Keypaths[n]] = Absent THEN upTo[n - 1]
        ELSE Append(upTo[n - 1], [keypath |-> Keypaths[n], value |-> stored[Keypaths[n]]])
  IN upTo[Len(Keypaths)]

Has(items, k) == \E i \in DOMAIN items : items[i].keypath = k

IndexOf(items, k) == CHOOSE i \in DOMAIN items : items[i].keypath = k

\* args is an object: a new item, unless there is one.
Created(items, k, v) ==
  IF Has(items, k) THEN items ELSE Append(items, [keypath |-> k, value |-> v])

\* Mutant: the value goes to the first item.
Assigned_First(items, k, v) == IF items = <<>> THEN items ELSE [items EXCEPT ![1].value = v]

\* args is a string: the new value, if the item is there.
Assigned(items, k, v) ==
  IF Has(items, k) THEN [items EXCEPT ![IndexOf(items, k)].value = v] ELSE items

\* Mutant: the item before it goes instead.
Removed_Before(items, k) ==
  IF ~Has(items, k) THEN items
  ELSE IF IndexOf(items, k) = 1 THEN RemoveAt(items, Len(items))
  ELSE RemoveAt(items, IndexOf(items, k) - 1)

\* No args: splice at the index findIndex returns, which is -1, and then the
\* last item, if there is no such item.
Removed(items, k) ==
  IF Has(items, k) THEN RemoveAt(items, IndexOf(items, k))
  ELSE IF items = <<>> THEN items ELSE Front(items)

\* The query is asked (again), unless it is in flight.
Asked == IF fetch.state = "none" THEN [state |-> "asked", items |-> <<>>] ELSE fetch

\* Its tag is invalidated: it is asked again if the list is shown, or else
\* forgotten.
Invalidate ==
  /\ fetch' = IF shown THEN Asked ELSE fetch
  /\ entry' = IF shown THEN entry ELSE "absent"

InFlight(e) == edits[e].state \in {"sent", "answered"}

\* Nothing is on its way.
AtRest ==
  /\ fetch.state = "none" /\ queue = <<>> /\ comet.state # "answered"
  /\ \A e \in Edits : ~InFlight(e)

Raced(S) == raced' = raced \cup S

\* Bound: after a crossing, or a logout, nothing else is changed.
Bound == raced = {} /\ logout = "no"

\* The list is shown: useQueryQuery subscribes to the cached result.
Show ==
  /\ ~shown /\ visits < MaxVisits /\ logout = "no"
  /\ shown' = TRUE /\ visits' = visits + 1
  /\ IF entry = "absent"
     THEN entry' = "empty" /\ fetch' = Asked /\ data' = <<>>
     ELSE UNCHANGED <<entry, fetch, data>>
  /\ Raced(IF entry = "absent" /\ subscription # "none" THEN {"revisited"} ELSE {})
  /\ UNCHANGED <<srv, subscription, comet, unsubscribes, edits, logout>>

Hide ==
  /\ shown /\ entry = "loaded" /\ logout = "no"
  /\ shown' = FALSE
  /\ UNCHANGED <<srv, data, entry, fetch, subscription, comet, unsubscribes, edits, visits,
                 logout, raced>>

ServeQuery ==
  /\ fetch.state = "asked"
  /\ fetch' = [state |-> "answered", items |-> Answer]
  /\ UNCHANGED <<srv, data, entry, subscription, comet, unsubscribes, edits, ui, raced>>

\* The result replaces the cached one.  The first time cacheDataLoaded
\* resolves, and the handler of the entry subscribes; the result of subscribe
\* may still be cached.
ReceiveQuery ==
  /\ fetch.state = "answered"
  /\ fetch' = Idle
  /\ IF entry = "absent" THEN UNCHANGED <<data, entry, subscription, comet>>
     ELSE /\ data' = fetch.items
          /\ entry' = "loaded"
          /\ subscription' = IF subscription = "none" THEN "asked" ELSE subscription
          /\ comet' = IF comet.state = "none" THEN [comet EXCEPT !.state = "asked"] ELSE comet
  /\ UNCHANGED <<srv, unsubscribes, edits, ui, raced>>

\* The entry is removed 300 seconds after the list was last shown; its
\* handler, when it has the result of subscribe, unsubscribes.  No request
\* takes as long.
Expire ==
  /\ ~shown /\ entry = "loaded" /\ logout = "no"
  /\ AtRest /\ subscription \notin {"asked", "answered"}
  /\ entry' = "absent" /\ data' = <<>>
  /\ unsubscribes' = unsubscribes + 1
  /\ UNCHANGED <<srv, fetch, subscription, comet, edits, ui, raced>>

------------------------------------------------------------------------------
(* Subscriptions and the comet loop.                                         *)

ServeSubscribe ==
  /\ subscription = "asked"
  /\ subscription' = "answered"
  /\ handle' = "created"
  /\ UNCHANGED <<stored, changes, queue, data, entry, fetch, comet, unsubscribes, edits, ui,
                 raced>>

\* The answer of subscribe: the subscription is started at the server.
ReceiveSubscribe ==
  /\ subscription = "answered"
  /\ subscription' = "known"
  /\ handle' = IF handle = "created" THEN "started" ELSE handle
  /\ UNCHANGED <<stored, changes, queue, data, entry, fetch, comet, unsubscribes, edits, ui,
                 raced>>

\* Mutant: a handler whose entry is gone does not unsubscribe.
CanUnsubscribe_Shown == unsubscribes > 0 /\ subscription = "known" /\ entry # "absent"

\* unsubscribe is sent when the result of subscribe is there.
CanUnsubscribe == unsubscribes > 0 /\ subscription = "known"

ServeUnsubscribe ==
  /\ CanUnsubscribe
  /\ unsubscribes' = unsubscribes - 1
  /\ handle' = "none" /\ queue' = <<>>
  /\ UNCHANGED <<stored, changes, data, entry, fetch, subscription, comet, edits, ui, raced>>

\* The result of subscribe, unused, is dropped another 300 seconds later.
Forget ==
  /\ entry = "absent" /\ unsubscribes = 0 /\ subscription = "known" /\ logout = "no"
  /\ AtRest
  /\ subscription' = "none"
  /\ UNCHANGED <<srv, data, entry, fetch, comet, unsubscribes, edits, ui, raced>>

ServeComet ==
  /\ comet.state = "asked" /\ queue # <<>>
  /\ comet' = [state |-> "answered", batch |-> queue]
  /\ queue' = <<>>
  /\ UNCHANGED <<stored, changes, handle, data, entry, fetch, subscription, unsubscribes, edits,
                 ui, raced>>

\* One change of a batch.  Entries are looked up in the items before the batch.
ProcessChange(snapshot, items, c) ==
  IF ~Has(snapshot, c.keypath) \/ c.op = "created" THEN items
  ELSE IF c.op = "deleted" THEN Removed(items, c.keypath)
  ELSE Assigned(items, c.keypath, c.value)

processCometUpdates(batch, snapshot) ==
  LET after[n \in 0..Len(batch)] ==
        IF n = 0 THEN snapshot ELSE ProcessChange(snapshot, after[n - 1], batch[n])
  IN after[Len(batch)]

\* The tag is invalidated by an entry that was not there, but for its removal.
invalidateTags(batch, snapshot) ==
  \E i \in DOMAIN batch : batch[i].op # "deleted" /\ ~Has(snapshot, batch[i].keypath)

NextComet == [state |-> "asked", batch |-> <<>>]

\* Batches with an entry deleted and created are not applied as they should.
Recreated(batch) ==
  \E i, j \in DOMAIN batch :
    i < j /\ batch[i].keypath = batch[j].keypath
          /\ batch[i].op = "deleted" /\ batch[j].op = "created"

\* An answer of comet: comet is asked again, then the changes are processed.
\* Without a cached query there is nothing to do; while it has no data yet
\* the lookup throws.
ReceiveComet ==
  LET invalid == invalidateTags(comet.batch, data)
  IN /\ comet.state = "answered"
     /\ comet' = NextComet
     /\ IF entry # "loaded" THEN UNCHANGED <<data, entry, fetch>>
        ELSE /\ data' = IF ~shown /\ invalid THEN <<>>
                        ELSE processCometUpdates(comet.batch, data)
             /\ IF invalid THEN Invalidate ELSE UNCHANGED <<entry, fetch>>
     /\ unsubscribes' = IF entry = "loaded" /\ invalid /\ ~shown
                        THEN unsubscribes + 1 ELSE unsubscribes
     /\ Raced(IF Recreated(comet.batch) THEN {"recreated"} ELSE {})
     /\ UNCHANGED <<srv, subscription, edits, ui>>

\* Another client, or the network, changes an entry.  Subscriptions that are
\* started are notified: of a new entry and of the value of its leaf.
Notify(cs) == queue' = IF handle = "started" THEN queue \o cs ELSE queue

ChangeOf(op, k, v) == [op |-> op, keypath |-> k, value |-> v]

OtherChange(k) ==
  /\ changes < MaxChanges /\ Bound
  /\ changes' = changes + 1
  /\ \/ \E v \in Values \ {stored[k]} :
          /\ stored' = [stored EXCEPT ![k] = v]
          /\ Notify(IF stored[k] = Absent
                    THEN <<ChangeOf("created", k, Absent), ChangeOf("value_set", k, v)>>
                    ELSE <<ChangeOf("value_set", k, v)>>)
     \/ /\ stored[k] # Absent
        /\ stored' = [stored EXCEPT ![k] = Absent]
        /\ Notify(<<ChangeOf("deleted", k, Absent)>>)
  /\ Raced((IF handle # "started" /\ (entry = "loaded" \/ fetch.state = "answered")
            THEN {"early"} ELSE {})
           \cup (IF fetch.state = "answered" THEN {"fetching"} ELSE {})
           \cup (IF \E e \in Edits : InFlight(e) THEN {"crossing"} ELSE {}))
  /\ UNCHANGED <<handle, data, entry, fetch, subscription, comet, unsubscribes, edits, ui>>

------------------------------------------------------------------------------
(* The user's edits: setValue, create and deletePath.                        *)

\* On an item that is shown, or a new one.
BeginEdit(e, op, k, v) ==
  /\ edits[e].state = "none" /\ shown /\ entry = "loaded" /\ Bound
  /\ (op = "create") = ~Has(data, k)
  /\ (op = "delete") = (v = Absent)
  /\ edits' = [edits EXCEPT ![e] = [state |-> "sent", op |-> op, keypath |-> k, value |-> v]]
  /\ Raced((IF queue # <<>> \/ comet.state = "answered" THEN {"crossing"} ELSE {})
           \cup (IF fetch.state # "none" THEN {"fetching"} ELSE {})
           \cup (IF \E f \in Edits : InFlight(f) /\ edits[f].keypath = k THEN {"again"} ELSE {}))
  /\ UNCHANGED <<srv, data, entry, fetch, subscription, comet, unsubscribes, ui>>

\* What is deleted is not notified: it is part of a transaction until the
\* commit.  Deleting an entry that is not there is no error.
ServeEdit(e) ==
  /\ edits[e].state = "sent"
  /\ edits' = [edits EXCEPT ![e].state = "answered"]
  /\ stored' = [stored EXCEPT ![edits[e].keypath] = edits[e].value]
  /\ Raced(IF fetch.state = "answered" THEN {"fetching"} ELSE {})
  /\ UNCHANGED <<changes, queue, handle, data, entry, fetch, subscription, comet, unsubscribes,
                 ui>>

\* onQueryStarted of the mutation updates the cached list; the value of an
\* item that is not in it invalidates its tag.
ReceiveEdit(e) ==
  LET k == edits[e].keypath
      v == edits[e].value
  IN /\ edits[e].state = "answered"
     /\ edits' = [edits EXCEPT ![e] = [NoEdit EXCEPT !.state = "done"]]
     /\ IF entry # "loaded" THEN UNCHANGED <<data, entry, fetch, unsubscribes>>
        ELSE /\ data' = CASE edits[e].op = "set"    -> Assigned(data, k, v)
                          [] edits[e].op = "create" -> Created(data, k, v)
                          [] edits[e].op = "delete" -> Removed(data, k)
             /\ IF edits[e].op = "set" /\ ~Has(data, k)
                THEN Invalidate ELSE UNCHANGED <<entry, fetch>>
             /\ unsubscribes' = IF edits[e].op = "set" /\ ~Has(data, k) /\ ~shown
                                THEN unsubscribes + 1 ELSE unsubscribes
     /\ UNCHANGED <<srv, subscription, comet, ui, raced>>

------------------------------------------------------------------------------
(* Logging out.                                                              *)

\* unsubscribeAll finds the subscriptions whose result is cached.
SubscriptionKnown == subscription = "known"

\* UserMenu.logout: unsubscribeAll, then the end of the session.
Logout ==
  /\ logout = "no"
  /\ IF SubscriptionKnown
     THEN logout' = "unsubscribing" /\ unsubscribes' = unsubscribes + 1
     ELSE logout' = "out" /\ UNCHANGED unsubscribes
  /\ UNCHANGED <<srv, data, entry, fetch, subscription, comet, edits, shown, visits, raced>>

LoggedOut ==
  /\ logout = "unsubscribing" /\ unsubscribes = 0
  /\ logout' = "out"
  /\ UNCHANGED <<srv, data, entry, fetch, subscription, comet, unsubscribes, edits, shown,
                 visits, raced>>

Init ==
  /\ stored \in [Keys -> Initial]
  /\ changes = 0 /\ queue = <<>> /\ handle = "none"
  /\ data = <<>> /\ entry = "absent" /\ fetch = Idle
  /\ subscription = "none" /\ comet = [state |-> "none", batch |-> <<>>]
  /\ unsubscribes = 0
  /\ edits = [e \in Edits |-> NoEdit]
  /\ shown = FALSE /\ visits = 0 /\ logout = "no" /\ raced = {}

\* After the logout the page is gone.
Serve   == ServeQuery \/ ServeSubscribe \/ ServeUnsubscribe \/ ServeComet
Receive == ReceiveQuery \/ ReceiveSubscribe \/ ReceiveComet

Next ==
  \/ logout # "out" /\ (Serve \/ Receive \/ \E e \in Edits : ServeEdit(e) \/ ReceiveEdit(e))
  \/ Show \/ Hide \/ Expire \/ Forget \/ Logout \/ LoggedOut
  \/ \E k \in Keys : OtherChange(k)
  \/ \E e \in Edits, k \in Keys, v \in Values \cup {Absent} :
       \E op \in {"set", "create", "delete"} : BeginEdit(e, op, k, v)

\* The server answers, and the browser comes to every answer.
Fairness ==
  /\ WF_vars(ServeQuery) /\ WF_vars(ReceiveQuery)
  /\ WF_vars(ServeSubscribe) /\ WF_vars(ReceiveSubscribe) /\ WF_vars(ServeUnsubscribe)
  /\ WF_vars(ServeComet) /\ WF_vars(ReceiveComet)
  /\ WF_vars(LoggedOut)

Spec == Init /\ [][Next]_vars /\ Fairness

------------------------------------------------------------------------------
(* Properties.                                                               *)

\* When nothing is on its way the cached list holds what the server has,
\* unless a query, a notification and an edit have crossed or the user logs out.
CacheFollows ==
  AtRest /\ entry = "loaded" /\ logout = "no" /\ raced = {} =>
    {data[i] : i \in DOMAIN data} = {Answer[i] : i \in DOMAIN Answer}

\* An item that goes from a list being shown, other than by the answer of a
\* query, is one that the server has removed or that is being created there.
NoForeignDeletion ==
  [][raced' = {} /\ shown /\ logout = "no" /\ fetch.state # "answered" =>
       \A k \in Keys : Has(data, k) /\ ~Has(data', k) => 
         \/ stored[k] = Absent
         \/ \E i \in DOMAIN queue : queue[i].keypath = k /\ queue[i].op = "created"]_vars

\* A list that is forgotten leaves no subscription behind at the server.
SubscriptionsReleased ==
  entry = "absent" /\ handle # "none" ~> (handle = "none" \/ entry # "absent" \/ logout = "out")
==============================================================================
