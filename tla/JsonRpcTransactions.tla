------------------------- MODULE JsonRpcTransactions -------------------------
(***************************************************************************)
(* How the web UI finds a server transaction for each of its JSON-RPC      *)
(* requests (api/index.js), and the parts of the UI that edit, commit,     *)
(* revert and leave the page (api/data.js, features/nso, NewItem,          *)
(* CreatableService, libvirtAction and the drag and drop handlers).        *)
(*                                                                         *)
(* The browser runs one continuation at a time, to its next await: the     *)
(* steps that follow at once (Internal) go before any event from outside.  *)
(* Requests reach the server, and answers the browser, in any order.  What *)
(* a query reads is left out: it ends when it has its transaction.         *)
(***************************************************************************)
EXTENDS Naturals, FiniteSets

CONSTANTS Edits,          \* creations, deletions and values set by the user
          ActionEdits,    \* those that fill in the form of an action
          Invalid,        \* edits that fail validation
          Refused,        \* requests the server may answer with an error
          Gestures,       \* what the user may do, as records
          Scenarios,      \* sets of gestures: what the user does in one session
          EditDuring,     \* operations in flight during which the user edits
          Mixing,         \* reads and edits may await a transaction together
          MaxTh,          \* bound: transactions the server opens
          MaxVisits       \* bound: times the page is loaded

Operations == {"revert", "apply"}
Requests   == Edits \cup Operations \cup {"query", "changes"}
Th         == 1..MaxTh
NoTh       == 0
Modes      == {"read", "read_write"}
Leaves     == {"never", "after", "at once"}

ASSUME JsonRpcTransactionsAssumption ==
  /\ ActionEdits \subseteq Edits /\ Invalid \subseteq Edits
  /\ Refused \subseteq Requests
  /\ Edits \cap {"revert", "apply", "query", "changes"} = {}
  /\ Gestures \subseteq [first: SUBSET Edits, then: SUBSET Edits, leaves: Leaves]
  /\ Scenarios \subseteq SUBSET Gestures
  /\ EditDuring \subseteq Operations
  /\ Mixing \in BOOLEAN
  /\ MaxTh \in Nat \ {0} /\ MaxVisits \in Nat \ {0}

VARIABLES
  open,       \* server: mode, action path and edits of each open transaction
  opened,     \* server: how many it has opened
  fate,       \* what has become of each edit
  trans,      \* browser: the cached result of getTrans, a set of transactions
  cached,     \* ... if there is one
  subscribed, \* the base query holds a subscription to getTrans
  fetch,      \* a get_trans in flight
  pendingTrans,  \* the new_trans in flight, shared by who needs one
  req,        \* the state of every request
  hasWriteTransaction, commitInProgress,   \* nsoSlice
  gesture,    \* where each gesture is
  page,       \* here, leaving, away
  visits,     \* how often it was loaded
  covered     \* history: edits the operation in progress has yet to act on

server  == <<open, opened, fate>>
cache   == <<trans, cached, subscribed, fetch>>
flags   == <<hasWriteTransaction, commitInProgress>>
user    == <<gesture, page, visits>>
vars    == <<server, cache, pendingTrans, req, flags, user, covered>>

NoRequest == [pc |-> "idle", method |-> "none", th |-> NoTh, answer |-> "none"]
NoFetch   == [state |-> "none", list |-> {}]
NoPending == [state |-> "none", mode |-> "read", path |-> FALSE, th |-> NoTh]

Methods == {"none", "query", "get_trans_changes", "set_value",
            "validate_commit", "commit", "delete_trans"}
Known   == [th: Th, mode: Modes, path: BOOLEAN]

InFlight(r) == req[r].pc \in {"trans", "new", "sent", "answered"}

\* Every variable has its type, and a request that is sent has a transaction.
TypeOK ==
  /\ DOMAIN open \subseteq Th
  /\ \A t \in DOMAIN open :
       open[t] \in [mode: Modes, path: BOOLEAN, edits: SUBSET Edits]
  /\ opened \in 0..MaxTh
  /\ fate \in [Edits -> {"new", "open", "running", "dropped", "refused"}]
  /\ trans \subseteq Known
  /\ cached \in BOOLEAN /\ subscribed \in BOOLEAN
  /\ fetch \in [state: {"none", "asked", "answered"}, list: SUBSET Known]
  /\ pendingTrans \in [state: {"none", "asked", "answered"}, mode: Modes,
                       path: BOOLEAN, th: Th \cup {NoTh}]
  /\ req \in [Requests ->
       [pc: {"idle", "trans", "new", "sent", "answered", "done", "rejected"},
        method: Methods, th: Th \cup {NoTh},
        answer: {"none", "ok", "invalid", "error"}]]
  /\ \A r \in Requests : req[r].pc = "sent" => req[r].th # NoTh
  /\ hasWriteTransaction \in BOOLEAN /\ commitInProgress \in BOOLEAN
  /\ gesture \in [Gestures -> {"ready", "first", "then", "done"}]
  /\ page \in {"here", "leaving", "away"}
  /\ visits \in 0..MaxVisits
  /\ covered \subseteq Edits

------------------------------------------------------------------------------
(* getTransType, findWriteTransaction and the start of a request.            *)

getTransType(method) == IF method = "query" THEN "read" ELSE "read_write"

allowNew(method) == method = "set_value"

MethodOf(r) ==
  CASE r \in Edits     -> "set_value"
    [] r = "query"     -> "query"
    [] r = "changes"   -> "get_trans_changes"
    [] r = "apply"     -> "validate_commit"
    [] r = "revert"    -> "delete_trans"

actionPath(r) == r \in ActionEdits

\* find returns the first match: transactions are listed as they were opened.
First(S) == {t \in S : \A u \in S : t.th <= u.th}

findWriteTransaction(path) ==
  First({t \in trans : t.mode = "read_write" /\ t.path = path})

\* The requests R start, in rq the others: the base query subscribes to
\* getTrans, which asks the server unless its result is cached.
Start(R, rq, isCached, isSubscribed, fetching) ==
  /\ req' = [r \in Requests |->
               IF r \in R
               THEN [NoRequest EXCEPT !.pc = "trans", !.method = MethodOf(r)]
               ELSE rq[r]]
  /\ subscribed' = (isSubscribed \/ R # {})
  /\ fetch' = IF R # {} /\ ~isCached /\ fetching.state = "none"
              THEN [NoFetch EXCEPT !.state = "asked"]
              ELSE fetching

\* The queries among R that an invalidated tag asks again: with
\* invalidationBehavior "immediately" one that is in flight is left alone.
Refetched(R) == {r \in R : ~InFlight(r)}

\* A request that needs a new transaction awaits the pending one, whatever
\* that one is for.
Joins == pendingTrans.state # "none"

\* Mutant: the subscription is not awaited.
CanGetTransaction_NoAwait(r) == req[r].pc = "trans"

\* The await of the subscription is over and the request goes on at once.
CanGetTransaction(r) == req[r].pc = "trans" /\ (cached \/ fetch.state = "none")

\* Request r is sent on transaction t.
SentOn(r, t) ==
  IF r = "query" THEN NoRequest
  ELSE [req[r] EXCEPT !.pc = "sent", !.th = t]

\* commit and delete_trans first take their transaction out of the cache.
Sent(r, t) ==
  /\ req' = [req EXCEPT ![r] = SentOn(r, t)]
  /\ trans' = IF req[r].method \in {"commit", "delete_trans"}
              THEN {u \in trans : u.th # t} ELSE trans

\* getTransaction after its first await.
GetTransaction(r) ==
  LET m     == req[r].method
      type  == getTransType(m)
      write == findWriteTransaction(actionPath(r))
      read  == IF type = "read" THEN First({t \in trans : ~t.path}) ELSE {}
  IN /\ CanGetTransaction(r)
     /\ \/ \E t \in write :
             /\ Sent(r, t.th)
             /\ hasWriteTransaction' = TRUE
             /\ UNCHANGED pendingTrans
        \/ /\ write = {}
           /\ type = "read_write" /\ ~allowNew(m)
           /\ req' = [req EXCEPT ![r].pc = "answered"]
           /\ UNCHANGED <<trans, hasWriteTransaction, pendingTrans>>
        \/ /\ write = {}
           /\ \E t \in read : Sent(r, t.th)
           /\ UNCHANGED <<hasWriteTransaction, pendingTrans>>
        \/ /\ write = {} /\ read = {}
           /\ type = "read" \/ allowNew(m)
           /\ req' = [req EXCEPT ![r].pc = "new"]
           /\ pendingTrans' = IF Joins THEN pendingTrans
                              ELSE [state |-> "asked", mode |-> type,
                                    path |-> actionPath(r), th |-> NoTh]
           /\ UNCHANGED <<trans, hasWriteTransaction>>
     /\ UNCHANGED <<server, cached, subscribed, fetch, commitInProgress, user, covered>>

\* The answer of get_trans fills the cache.
ReceiveTrans ==
  /\ fetch.state = "answered"
  /\ fetch' = NoFetch
  /\ trans' = fetch.list
  /\ cached' = TRUE
  /\ UNCHANGED <<server, subscribed, pendingTrans, req, flags, user, covered>>

\* Mutant: the cached list is left as it is.
Added_Not(t) == trans

\* newTrans adds its transaction to the cached list, if there is one.
Added(t) == IF cached THEN trans \cup {t} ELSE trans

\* The answer of new_trans: its transaction is added to the cached list, and
\* all who await it go on with it.
ReceiveNewTrans ==
  LET waiting == {r \in Requests : req[r].pc = "new"}
  IN /\ pendingTrans.state = "answered"
     /\ pendingTrans' = NoPending
     /\ trans' = Added([th |-> pendingTrans.th, mode |-> pendingTrans.mode,
                        path |-> pendingTrans.path])
     /\ req' = [r \in Requests |->
                  IF r \in waiting
                  THEN SentOn(r, pendingTrans.th) ELSE req[r]]
     /\ hasWriteTransaction' =
          (hasWriteTransaction \/ \E r \in waiting : getTransType(req[r].method) = "read_write")
     /\ UNCHANGED <<server, cached, subscribed, fetch, commitInProgress, user, covered>>

------------------------------------------------------------------------------
(* The server.                                                               *)

Listed == {[th |-> t, mode |-> open[t].mode, path |-> open[t].path] : t \in DOMAIN open}

Answers(r, answer) == [req EXCEPT ![r].pc = "answered", ![r].answer = answer]

Moved(S, f) == [e \in Edits |-> IF e \in S THEN f ELSE fate[e]]

Without(t) == [u \in DOMAIN open \ {t} |-> open[u]]

ServeTrans ==
  /\ fetch.state = "asked"
  /\ fetch' = [state |-> "answered", list |-> Listed]
  /\ UNCHANGED <<server, trans, cached, subscribed, pendingTrans, req, flags,
                 user, covered>>

ServeNewTrans ==
  /\ pendingTrans.state = "asked"
  /\ opened < MaxTh
  /\ opened' = opened + 1
  /\ open' = [t \in DOMAIN open \cup {opened'} |->
                IF t = opened'
                THEN [mode |-> pendingTrans.mode, path |-> pendingTrans.path, edits |-> {}]
                ELSE open[t]]
  /\ pendingTrans' = [pendingTrans EXCEPT !.state = "answered", !.th = opened']
  /\ UNCHANGED <<fate, cache, req, flags, user, covered>>

\* get_trans_changes is refused if its transaction is closed.
ServeChanges ==
  /\ req["changes"].pc = "sent"
  /\ req' = Answers("changes", IF req["changes"].th \in DOMAIN open THEN "ok" ELSE "error")
  /\ UNCHANGED <<server, cache, pendingTrans, flags, user, covered>>

\* An edit is taken in an open write transaction with its action path.
Accepts(e) ==
  LET t == req[e].th
  IN t \in DOMAIN open /\ open[t].mode = "read_write" /\ open[t].path = actionPath(e)

ServeEdit(e) ==
  /\ req[e].pc = "sent"
  /\ \/ /\ Accepts(e)
        /\ open' = [open EXCEPT ![req[e].th].edits = @ \cup {e}]
        /\ fate' = Moved({e}, "open")
        /\ req' = Answers(e, "ok")
     \/ /\ ~Accepts(e) \/ e \in Refused
        /\ fate' = Moved({e}, "refused")
        /\ req' = Answers(e, "error")
        /\ UNCHANGED open
  /\ UNCHANGED <<opened, cache, pendingTrans, flags, user, covered>>

\* Why the server would not commit or delete transaction t.
Fault(r, t) ==
  IF t \notin DOMAIN open THEN "error"
  ELSE IF r = "apply" /\ open[t].edits \cap Invalid # {} THEN "invalid"
  ELSE "none"

ServeValidate ==
  LET fault == Fault("apply", req["apply"].th)
  IN /\ req["apply"].pc = "sent" /\ req["apply"].method = "validate_commit"
     /\ req' = Answers("apply", IF fault = "none" THEN "ok" ELSE fault)
     /\ UNCHANGED <<server, cache, pendingTrans, flags, user, covered>>

\* commit and delete_trans close their transaction, unless refused.
ServeEnd(r) ==
  LET t     == req[r].th
      fault == Fault(r, t)
  IN /\ r \in Operations /\ req[r].pc = "sent"
     /\ req[r].method \in {"commit", "delete_trans"}
     /\ \/ /\ fault = "none"
           /\ open' = Without(t)
           /\ fate' = Moved(open[t].edits, IF r = "apply" THEN "running" ELSE "dropped")
           /\ covered' = covered \ open[t].edits
           /\ req' = Answers(r, "ok")
        \/ /\ fault # "none" \/ r \in Refused
           /\ req' = Answers(r, IF fault = "none" THEN "error" ELSE fault)
           /\ UNCHANGED <<open, fate, covered>>
     /\ UNCHANGED <<opened, cache, pendingTrans, flags, user>>

------------------------------------------------------------------------------
(* Answers in the browser.                                                   *)

\* Only of the edits and the operations does it matter how they ended.
Ended(r) ==
  [req EXCEPT ![r] =
     [NoRequest EXCEPT !.pc = IF req[r].answer = "error" THEN "rejected"
                              ELSE IF r = "changes" THEN "idle" ELSE "done"]]

Answered(r, m) == req[r].pc = "answered" /\ req[r].method = m

\* An edit that succeeds invalidates the tag "changes"; an error is thrown and
\* invalidates nothing.
ReceiveEdit(e) ==
  /\ Answered(e, "set_value")
  /\ Start(IF req[e].answer = "error" THEN {} ELSE Refetched({"changes"}),
           Ended(e), cached, subscribed, fetch)
  /\ UNCHANGED <<server, trans, cached, pendingTrans, flags, user, covered>>

ReceiveChanges ==
  /\ Answered("changes", "get_trans_changes")
  /\ req' = Ended("changes")
  /\ UNCHANGED <<server, cache, pendingTrans, flags, user, covered>>

\* queryFn of apply goes on to commit also if validation failed; an error of
\* another kind is thrown, and commitInProgress stays set.
ReceiveValidate ==
  /\ Answered("apply", "validate_commit")
  /\ page' = IF req["apply"].answer = "invalid" THEN "leaving" ELSE page
  /\ req' = IF req["apply"].answer = "error" THEN Ended("apply")
            ELSE [req EXCEPT !["apply"].pc = "trans", !["apply"].method = "commit",
                             !["apply"].th = NoTh, !["apply"].answer = "none"]
  /\ UNCHANGED <<server, cache, pendingTrans, flags, gesture, visits, covered>>

\* The tags revert and apply invalidate: queries of the data, the changes.
Invalidated(r) == IF r = "apply" THEN {"changes"} ELSE {"query"}

\* Mutant: the end of an operation does not take the write transaction back.
Fulfilled_Kept(r) ==
  /\ UNCHANGED hasWriteTransaction
  /\ commitInProgress' = IF r = "apply" THEN FALSE ELSE commitInProgress

\* Mutant: only a revert resets the flags.
Fulfilled_Busy(r) ==
  /\ hasWriteTransaction' = FALSE
  /\ UNCHANGED commitInProgress

\* What onQueryStarted of revert and apply does when they are fulfilled.
Fulfilled(r) ==
  /\ hasWriteTransaction' = FALSE
  /\ commitInProgress' = IF r = "apply" THEN FALSE ELSE commitInProgress

\* The end of commit or delete_trans.  The base query drops its subscription
\* to getTrans, so that invalidating "trans" removes the cached result and the
\* answer of a get_trans in flight is ignored; it
\* throws if another one has dropped it already.  Without a transaction it has
\* kept it, and getTrans is asked again.
ReceiveEnd(r) ==
  LET none == req[r].answer = "none"
  IN /\ Answered(r, "commit") \/ Answered(r, "delete_trans")
     /\ covered' = {}
     /\ \/ /\ req[r].answer = "error" \/ (~none /\ ~subscribed)
           /\ req' = [req EXCEPT ![r] = [NoRequest EXCEPT !.pc = "rejected"]]
           /\ UNCHANGED <<cache, hasWriteTransaction, commitInProgress>>
        \/ /\ ~none /\ req[r].answer # "error" /\ subscribed
           /\ Start(Refetched(Invalidated(r)), Ended(r), FALSE, FALSE, NoFetch)
           /\ trans' = {} /\ cached' = FALSE
           /\ Fulfilled(r)
        \/ /\ none
           /\ Start(Refetched(Invalidated(r)), Ended(r), cached, subscribed,
                    IF fetch.state = "none" THEN [NoFetch EXCEPT !.state = "asked"]
                    ELSE fetch)
           /\ Fulfilled(r)
           /\ UNCHANGED <<trans, cached>>
     /\ page' = IF req[r].answer = "invalid" THEN "leaving" ELSE page
     /\ UNCHANGED <<server, pendingTrans, gesture, visits>>

------------------------------------------------------------------------------
(* The user.                                                                 *)

\* Steps the browser takes before it takes anything from outside.
Internal ==
  \/ \E r \in Requests : CanGetTransaction(r)
  \/ \E r \in Requests : req[r].pc = "answered" /\ req[r].answer = "none"
  \/ \E g \in Gestures :
       \/ gesture[g] = "first" /\ \A e \in g.first : ~InFlight(e)
       \/ gesture[g] = "then" /\ \A e \in g.then : ~InFlight(e)

Quiet == page = "here" /\ ~Internal

\* Requests that will take, or share, the transaction opened next.
Awaiting(R) == \E r \in R : req[r].pc \in {"trans", "new"}

\* A gesture: an icon dropped (two values), a link moved to another device
\* (delete and create), a button that deletes, a form submitted.
BeginGesture(g) ==
  /\ Quiet /\ {r \in Operations : InFlight(r)} \subseteq EditDuring
  /\ Mixing \/ ~Awaiting({"query"} \cup {e \in Edits : g.first \cap ActionEdits # {}})
  /\ gesture[g] = "ready"
  /\ gesture' = [gesture EXCEPT ![g] = "first"]
  /\ Start(g.first, req, cached, subscribed, fetch)
  /\ page' = IF g.leaves = "at once" THEN "leaving" ELSE page
  /\ UNCHANGED <<server, trans, cached, pendingTrans, flags, visits, covered>>

\* NewItem.create: the defaults are set once the item is created.
Defaults(g) ==
  /\ gesture[g] = "first" /\ \A e \in g.first : ~InFlight(e)
  /\ gesture' = [gesture EXCEPT ![g] = "then"]
  /\ Start(g.then, req, cached, subscribed, fetch)
  /\ UNCHANGED <<server, trans, cached, pendingTrans, flags, page, visits, covered>>

\* Mutant: the page is left without awaiting the last values.
EndGesture_Early(g) ==
  /\ gesture[g] = "then"
  /\ gesture' = [gesture EXCEPT ![g] = "done"]
  /\ page' = IF g.leaves = "after" THEN "leaving" ELSE page
  /\ UNCHANGED <<server, cache, pendingTrans, req, flags, visits, covered>>

\* NewItem.create and libvirtAction go to another page at the end.
EndGesture(g) ==
  /\ gesture[g] = "then" /\ \A e \in g.then : ~InFlight(e)
  /\ gesture' = [gesture EXCEPT ![g] = "done"]
  /\ page' = IF g.leaves = "after" THEN "leaving" ELSE page
  /\ UNCHANGED <<server, cache, pendingTrans, req, flags, visits, covered>>

\* Revert and Commit are enabled while there is a write transaction and no
\* commit is in progress.  The user presses neither while the other works, and
\* unless r is in EditDuring, neither while a form has values left to set.
Press(r) ==
  /\ Quiet /\ hasWriteTransaction /\ ~commitInProgress
  /\ \A o \in Operations : ~InFlight(o)
  /\ r \in EditDuring \/ \A g \in Gestures : gesture[g] = "first" => g.then = {}
  /\ Start({r}, req, cached, subscribed, fetch)
  /\ covered' = {e \in Edits : fate[e] = "open" /\ ~actionPath(e)}
  /\ commitInProgress' = (r = "apply")
  /\ UNCHANGED <<server, trans, cached, pendingTrans, hasWriteTransaction, user>>

\* A notification makes the UI ask for data again, in a transaction it knows
\* or in a new one.
Refresh ==
  /\ Quiet /\ ~InFlight("query")
  /\ Mixing \/ ~Awaiting(Edits)
  /\ IF \E t \in trans : ~t.path
     THEN /\ hasWriteTransaction' = (hasWriteTransaction \/ findWriteTransaction(FALSE) # {})
          /\ UNCHANGED <<req, subscribed, fetch>>
     ELSE /\ Start({"query"}, req, cached, subscribed, fetch)
          /\ UNCHANGED hasWriteTransaction
  /\ UNCHANGED <<server, trans, cached, pendingTrans, commitInProgress, user, covered>>

\* The page goes away with its state.  Of what it has sent, the server has
\* still taken some edits, and then perhaps the operation in progress.
Unload ==
  \E A \in SUBSET {e \in Edits : /\ req[e].pc = "sent" /\ req[e].th \in DOMAIN open
                                 /\ open[req[e].th].mode = "read_write"
                                 /\ open[req[e].th].path = actionPath(e)} :
  \E O \in SUBSET {r \in Operations : /\ req[r].pc = "sent"
                                      /\ req[r].method # "validate_commit"
                                      /\ req[r].th \in DOMAIN open} :
    LET taken == [t \in DOMAIN open |->
                    [open[t] EXCEPT !.edits = @ \cup {e \in A : req[e].th = t}]]
        ends(r) == {t \in DOMAIN open :
                      /\ r \in O /\ req[r].th = t
                      /\ r = "apply" => taken[t].edits \cap Invalid = {}}
    IN /\ page = "leaving" /\ ~Internal
       /\ page' = "away"
       /\ open' = [t \in DOMAIN open \ (ends("apply") \cup ends("revert")) |-> taken[t]]
       /\ fate' = [e \in Edits |->
            IF \E t \in ends("revert") : e \in taken[t].edits THEN "dropped"
            ELSE IF \E t \in ends("apply") : e \in taken[t].edits THEN "running"
            ELSE IF e \in A THEN "open" ELSE fate[e]]
       /\ trans' = {} /\ cached' = FALSE /\ subscribed' = FALSE
       /\ fetch' = NoFetch /\ pendingTrans' = NoPending
       /\ req' = [r \in Requests |-> NoRequest]
       /\ hasWriteTransaction' = FALSE /\ commitInProgress' = FALSE
       /\ covered' = {}
       /\ gesture' = [g \in Gestures |->
                        IF gesture[g] = "ready" THEN "ready" ELSE "done"]
       /\ UNCHANGED <<opened, visits>>

\* The page is loaded, in the first place or after another one: components
\* query the data, and the header the number of changes.
Load ==
  /\ page = "away" /\ visits < MaxVisits
  /\ page' = "here" /\ visits' = visits + 1
  /\ Start({"query", "changes"}, req, cached, subscribed, fetch)
  /\ UNCHANGED <<server, trans, cached, pendingTrans, flags, gesture, covered>>

\* The page that was open before may have left a write transaction.
Init ==
  /\ open \in {<<>>, [t \in {1} |-> [mode |-> "read_write", path |-> FALSE, edits |-> {}]]}
  /\ opened = Cardinality(DOMAIN open)
  /\ fate = [e \in Edits |-> "new"]
  /\ trans = {} /\ cached = FALSE /\ subscribed = FALSE
  /\ fetch = NoFetch /\ pendingTrans = NoPending
  /\ req = [r \in Requests |-> NoRequest]
  /\ hasWriteTransaction = FALSE /\ commitInProgress = FALSE
  /\ covered = {}
  /\ \E S \in Scenarios :
       gesture = [g \in Gestures |-> IF g \in S THEN "ready" ELSE "done"]
  /\ page = "away" /\ visits = 0

\* The answer of request r, whatever it is.
ReceiveAnswer(r) ==
  \/ r \in Edits /\ ReceiveEdit(r)
  \/ r = "changes" /\ ReceiveChanges
  \/ r = "apply" /\ ReceiveValidate
  \/ r \in Operations /\ ReceiveEnd(r)

\* What the browser does by itself, and when an answer arrives.
Continue(r) == GetTransaction(r) \/ (req[r].answer = "none" /\ ReceiveAnswer(r))

Receive(r) == page # "away" /\ ~Internal /\ ReceiveAnswer(r)

\* The server is slower than a continuation of the browser.
Serve(r) ==
  /\ ~Internal
  /\ \/ r \in Edits /\ ServeEdit(r)
     \/ r = "changes" /\ ServeChanges
     \/ r = "apply" /\ ServeValidate
     \/ r \in Operations /\ ServeEnd(r)

ReceiveTransaction == page # "away" /\ ~Internal /\ (ReceiveTrans \/ ReceiveNewTrans)

ServeTransaction == ~Internal /\ (ServeTrans \/ ServeNewTrans)

Next ==
  \/ \E r \in Requests : Continue(r) \/ Receive(r) \/ Serve(r)
  \/ ReceiveTransaction \/ ServeTransaction
  \/ \E g \in Gestures : BeginGesture(g) \/ Defaults(g) \/ EndGesture(g)
  \/ \E r \in Operations : Press(r)
  \/ Refresh \/ Unload \/ Load

\* The server answers every request, and the browser's event loop comes to
\* every answer.  Nothing obliges the user, or a page to be left.
Fairness ==
  /\ \A r \in Requests :
       WF_vars(Continue(r)) /\ WF_vars(Receive(r)) /\ WF_vars(Serve(r))
  /\ \A g \in Gestures : WF_vars(Defaults(g)) /\ WF_vars(EndGesture(g))
  /\ WF_vars(ReceiveTransaction) /\ WF_vars(ServeTransaction)

Spec == Init /\ [][Next]_vars /\ Fairness

------------------------------------------------------------------------------
(* Properties.                                                               *)

\* Nothing is in flight on the page.
AtRest ==
  /\ Quiet /\ fetch.state = "none" /\ pendingTrans.state = "none"
  /\ \A r \in Requests : ~InFlight(r)

\* When nothing is in flight there is at most one transaction that can take
\* edits of the configuration, and the browser knows it if it knows any.
TransactionsKnown ==
  LET writable(S) == {t \in S : t.mode = "read_write" /\ ~t.path}
  IN AtRest =>
       /\ cached => writable(trans) = writable(Listed)
       /\ Cardinality(writable(Listed)) <= 1

\* When nothing is in flight, Revert and Commit are enabled if and only if
\* there is a write transaction, also if it was opened by a page left before
\* or survived a failed validation.
ButtonsTruthful ==
  AtRest =>
    (hasWriteTransaction /\ ~commitInProgress <=>
       \E t \in DOMAIN open : open[t].mode = "read_write" /\ ~open[t].path)

\* A commit in progress ends, and the buttons are enabled again.
CommitEnds == commitInProgress ~> ~commitInProgress

\* The forms that go to another page do so when every value they set has
\* been taken or refused by the server.
FormsComplete ==
  [][\A g \in Gestures :
       gesture[g] = "then" /\ gesture'[g] = "done" /\ page # "away" /\ page' # "away"
         => \A e \in g.first \cup g.then : fate[e] # "new"]_vars

\* Commit and Revert act, once, on every edit accepted before they were
\* pressed: the requests, transactions and caches implement EditSession.
Operation ==
  LET r == IF InFlight("apply") THEN "apply" ELSE "revert"
  IN IF ~InFlight(r) THEN "none"
     ELSE IF req[r].method = "validate_commit" THEN "commit"
     ELSE IF req[r].answer = "ok" THEN "acted"
     ELSE IF req[r].answer \in {"invalid", "error"} THEN "refused"
     ELSE IF r = "apply" THEN "commit" ELSE "revert"

Session == INSTANCE EditSession WITH
  Edits     <- Edits \ ActionEdits,
  fate      <- [e \in Edits \ ActionEdits |-> fate[e]],
  operation <- Operation,
  covered   <- covered

SessionSpec == Session!Spec
==============================================================================
