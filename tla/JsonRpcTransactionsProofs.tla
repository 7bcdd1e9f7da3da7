---------------------- MODULE JsonRpcTransactionsProofs ----------------------
(***************************************************************************)
(* Proofs about JsonRpcTransactions: any number of edits, gestures,        *)
(* transactions and visits of the page.  The invariant IInv has two cases. *)
(* While the configuration is edited (EditingInv), there is one write      *)
(* transaction at most, the browser knows it, or is about to, whenever an  *)
(* edit or an operation needs it, and an operation in progress has it to   *)
(* itself.  While forms of actions are filled in (FillingInv), there is    *)
(* none but one left by an earlier page, and what the buttons say may be   *)
(* wrong until the form goes to another page.                              *)
(***************************************************************************)
EXTENDS JsonRpcTransactions, FiniteSetTheorems, TLAPS

\* The edits of a gesture.
Uses(g) == g.first \cup g.then

\* The gestures edit the configuration; or they fill in forms of actions, each
\* of which goes to another page when it is done.
Edit(S) == \A g \in S : Uses(g) \cap ActionEdits = {}
Fill(S) == \A g \in S : Uses(g) \subseteq ActionEdits /\ g.leaves # "never"

\* What the theorems assume: a user who does not edit while an operation is in
\* progress or while a query waits for a transaction, nor edits the
\* configuration and fills in forms of actions in one session; a server that
\* refuses an operation only for a reason; and gestures of one session that do
\* not set the same thing twice.
Considerate ==
  /\ EditDuring = {} /\ Mixing = FALSE
  /\ Refused \cap Operations = {}
  /\ \A S \in Scenarios : Edit(S) \/ Fill(S)
  /\ \A S \in Scenarios : \A g \in S :
       /\ g.first \cap g.then = {}
       /\ \A h \in S \ {g} : Uses(g) \cap Uses(h) = {}

\* The open write transactions, those among S, and the ids of S.
W      == {t \in DOMAIN open : open[t].mode = "read_write"}
RW(S)  == {t \in S : t.mode = "read_write"}
Ids(S) == {t.th : t \in S}

\* An edit on its way to the server.
Underway(e) == req[e].pc \in {"trans", "new", "sent"}

\* A new write transaction is on its way.
Opening == pendingTrans.state # "none" /\ pendingTrans.mode = "read_write"

\* Operation r has taken its transaction from the cache to end it.
Ending(r) ==
  req[r].pc \in {"sent", "answered"} /\ req[r].method \in {"commit", "delete_trans"}

Operating == \E r \in Operations : InFlight(r)

\* There are no action paths.
PathInv ==
  /\ \A t \in DOMAIN open : ~open[t].path
  /\ \A t \in trans \cup fetch.list : ~t.path
  /\ ~pendingTrans.path

\* No form of an action is filled in.
NoForms == \A e \in ActionEdits : ~InFlight(e) /\ fate[e] = "new"

\* What a request in flight looks like.
RequestInv ==
  /\ \A r \in Requests : InFlight(r) =>
       /\ req[r].method = MethodOf(r) \/ (r = "apply" /\ req[r].method = "commit")
       /\ req[r].pc # "answered" => req[r].answer = "none"
       /\ req[r].pc = "new" => r \in Edits \cup {"query"}
  /\ \A r \in Operations : req[r].pc = "answered" => req[r].answer \in {"ok", "invalid"}
  /\ \A e \in Edits : req[e].pc = "answered" => req[e].answer # "none"
  /\ req["revert"].pc = "answered" => req["revert"].answer = "ok"
  /\ req["query"].pc \in {"idle", "trans", "new"}

\* An edit is new until the server has decided it.
FateInv ==
  /\ \A e \in Edits : Underway(e) => fate[e] = "new"
  /\ \A g \in Gestures :
       /\ gesture[g] = "ready" => \A e \in Uses(g) : fate[e] = "new" /\ ~InFlight(e)
       /\ gesture[g] = "first" =>
            /\ \A e \in g.then : fate[e] = "new" /\ ~InFlight(e)
            /\ \A e \in g.first : fate[e] = "new" => Underway(e)
       /\ gesture[g] = "then" =>
            /\ \A e \in g.first : fate[e] # "new"
            /\ \A e \in g.then : fate[e] = "new" => Underway(e)

\* The gestures that are not done are of one scenario.
ScenarioInv ==
  \E S \in Scenarios : Edit(S) /\ \A g \in Gestures : gesture[g] # "done" => g \in S

\* There is at most one write transaction, and it holds the open edits.
OpenInv ==
  /\ \A t, u \in W : t = u
  /\ \A t \in DOMAIN open :
       /\ t <= opened
       /\ \A e \in open[t].edits : t \in W /\ fate[e] = "open"
  /\ \A e \in Edits : fate[e] = "open" => \E t \in W : e \in open[t].edits

\* A list of transactions is right about those that write.
Right(S) ==
  \A t \in S : t.th <= opened /\ (t.mode = "read_write" <=> t.th \in W)

\* What the browser has cached, or is about to cache.
CacheInv ==
  /\ trans # {} => cached
  /\ cached => fetch.state = "none"
  /\ \A r \in Requests : req[r].pc = "trans" => cached \/ fetch.state # "none"
  /\ Right(trans)
  /\ fetch.state = "answered" => Right(fetch.list)

\* The browser knows the write transaction, or is about to know it.
KnownInv ==
  /\ cached => \A t \in W :
       \/ t \in Ids(trans)
       \/ Opening /\ pendingTrans.th = t
       \/ \E r \in Operations : Ending(r) /\ req[r].th = t
  /\ fetch.state = "answered" => W \subseteq Ids(fetch.list)

\* The transaction being opened: the edits that await one get one that writes.
PendingInv ==
  /\ Opening =>
       /\ cached /\ ~Operating /\ RW(trans) = {}
       /\ pendingTrans.state = "asked" => W = {}
       /\ \E e \in Edits : req[e].pc = "new"
  /\ pendingTrans.state = "answered" =>
       /\ pendingTrans.th \in DOMAIN open
       /\ pendingTrans.mode = "read_write" <=> pendingTrans.th \in W
  /\ pendingTrans.state # "none" /\ ~Opening => req["query"].pc = "new"
  /\ \A e \in Edits : req[e].pc = "new" => Opening

\* Queries and edits do not await a transaction together, nor would they when
\* the rest of a gesture comes.
GestureInv ==
  /\ Awaiting(Edits) => ~Awaiting({"query"})
  /\ \A g \in Gestures : gesture[g] = "first" /\ g.then # {} =>
       /\ ~Awaiting({"query"}) /\ ~Operating
       /\ (\E e \in g.first : InFlight(e)) => trans # {} \/ Awaiting(Edits)

\* An operation in progress has the write transaction.
OperationInv ==
  /\ Operating => cached /\ subscribed /\ hasWriteTransaction /\ ~Awaiting(Edits)
  /\ ~(InFlight("apply") /\ InFlight("revert"))
  /\ \A r \in Operations :
       /\ InFlight(r) /\ ~Ending(r) => RW(trans) # {}
       /\ req[r].pc = "sent" => req[r].th \in W
       /\ Ending(r) /\ req[r].pc = "sent" => req[r].th \notin Ids(trans)
       /\ Ending(r) /\ req[r].answer = "ok" => W = {}

\* The buttons tell whether there is a write transaction.
FlagInv ==
  /\ hasWriteTransaction => RW(trans) # {} \/ \E r \in Operations : Ending(r)
  /\ commitInProgress => InFlight("apply")
  /\ page = "here" /\ W # {} =>
       \/ hasWriteTransaction \/ Opening
       \/ \E r \in Requests : req[r].pc = "trans"

\* What is covered has not been acted on.
CoveredInv ==
  /\ \A e \in covered : fate[e] = "open"
  /\ covered # {} => \E r \in Operations :
       InFlight(r) /\ (req[r].method = "validate_commit" \/ req[r].answer # "ok")

\* Nothing is left of a page that was left.
AwayInv ==
  page = "away" =>
    /\ trans = {} /\ ~cached /\ fetch = NoFetch /\ pendingTrans = NoPending
    /\ \A r \in Requests : req[r] = NoRequest
    /\ ~hasWriteTransaction /\ ~commitInProgress
    /\ \A g \in Gestures : gesture[g] \in {"ready", "done"}

EditingInv ==
  /\ TypeOK /\ PathInv /\ RequestInv /\ FateInv /\ ScenarioInv /\ OpenInv
  /\ CacheInv /\ KnownInv /\ PendingInv /\ GestureInv /\ OperationInv
  /\ FlagInv /\ CoveredInv /\ AwayInv

\* The write transactions of the configuration, and those among S.
Main      == {t \in W : ~open[t].path}
MainOf(S) == {t \in RW(S) : ~t.path}

\* A form is filled in on this page, which will therefore be left, or is being.
Filling == page # "here" \/ \E g \in Gestures : gesture[g] \in {"first", "then"}

\* The gestures that are not done fill in forms.
FormsInv ==
  /\ \E S \in Scenarios : Fill(S) /\ \A g \in Gestures : gesture[g] # "done" => g \in S
  /\ \A g \in Gestures :
       gesture[g] \in {"first", "then"} /\ g.leaves = "at once" => page # "here"

\* The configuration is not edited.
FieldsInv ==
  /\ \A e \in Edits \ ActionEdits : ~InFlight(e) /\ fate[e] = "new"
  /\ \A e \in Edits : InFlight(e) => Filling
  /\ covered = {}

\* What a request in flight looks like: an operation may have found nothing.
FillRequestInv ==
  /\ \A r \in Requests : InFlight(r) =>
       /\ req[r].method = MethodOf(r) \/ (r = "apply" /\ req[r].method = "commit")
       /\ req[r].pc # "answered" => req[r].answer = "none"
       /\ req[r].pc = "new" => r \in Edits \cup {"query"}
  /\ \A r \in Operations : req[r].pc = "answered" => req[r].answer \in {"ok", "none"}
  /\ \A e \in Edits : req[e].pc = "answered" => req[e].answer # "none"
  /\ req["query"].pc \in {"idle", "trans", "new"}

\* One transaction of the configuration may be left over, without edits.
FillOpenInv ==
  /\ \A t, u \in Main : t = u
  /\ \A t \in DOMAIN open : t <= opened /\ open[t].edits \subseteq ActionEdits
  /\ \A t \in Main : open[t].edits = {}

\* A list of transactions is right about those of the configuration.
FillRight(S) == \A t \in S : t.th <= opened /\ (t \in MainOf(S) <=> t.th \in Main)

\* A list is only fetched again when there is none of the configuration.
FillCacheInv ==
  /\ trans # {} => cached
  /\ cached /\ fetch.state # "none" => Main = {}
  /\ \A r \in Requests : req[r].pc = "trans" => cached \/ fetch.state # "none"
  /\ FillRight(trans)
  /\ fetch.state = "answered" => FillRight(fetch.list)

\* The browser knows the transaction of the configuration.
FillKnownInv ==
  /\ cached => \A t \in Main :
       t \in Ids(trans) \/ \E r \in Operations : Ending(r) /\ req[r].th = t
  /\ fetch.state = "answered" => Main \subseteq Ids(fetch.list)

\* A transaction that is opened is of a form, or reads.
FillPendingInv ==
  /\ pendingTrans.mode = "read_write" => pendingTrans.path \/ pendingTrans.state = "none"
  /\ pendingTrans.state = "answered" =>
       /\ pendingTrans.th \in DOMAIN open /\ pendingTrans.th \notin Main

\* An operation has the transaction of the configuration, or there is none.
FillOperationInv ==
  /\ Operating => subscribed /\ hasWriteTransaction
  /\ ~(InFlight("apply") /\ InFlight("revert"))
  /\ \A r \in Operations :
       /\ req[r].pc \in {"sent", "answered"} => cached
       /\ req[r].pc = "sent" => req[r].th \in Main
       /\ Ending(r) /\ req[r].pc = "sent" => req[r].th \notin Ids(trans)
       /\ Ending(r) /\ req[r].pc = "answered" => Main = {}

\* Unless a form is filled in, the buttons are enabled for a transaction; they
\* are enabled if there is one.
FillFlagInv ==
  /\ hasWriteTransaction /\ ~Filling =>
       MainOf(trans) # {} \/ \E r \in Operations : Ending(r)
  /\ commitInProgress => InFlight("apply")
  /\ page = "here" /\ Main # {} =>
       hasWriteTransaction \/ \E r \in Requests \ Edits : req[r].pc = "trans"

FillingInv ==
  /\ TypeOK /\ FormsInv /\ FieldsInv /\ FillRequestInv /\ FateInv /\ FillOpenInv
  /\ FillCacheInv /\ FillKnownInv /\ FillPendingInv /\ FillOperationInv
  /\ FillFlagInv /\ AwayInv

\* A session edits the configuration or fills in forms.
IInv == (EditingInv /\ NoForms) \/ FillingInv

------------------------------------------------------------------------------
(* The requests.                                                             *)

\* The names of the requests differ, and each has its method.
LEMMA Names ==
  ASSUME Considerate
  PROVE  /\ Operations = {"revert", "apply"} /\ Operations \subseteq Requests
         /\ Edits \subseteq Requests /\ "query" \in Requests /\ "changes" \in Requests
         /\ \A r \in Requests : r \in Edits \cup {"query", "changes", "revert", "apply"}
         /\ \A e \in Edits : e \notin Operations /\ e # "query" /\ e # "changes"
         /\ \A e \in Edits : MethodOf(e) = "set_value"
         /\ MethodOf("query") = "query" /\ MethodOf("changes") = "get_trans_changes"
         /\ MethodOf("apply") = "validate_commit" /\ MethodOf("revert") = "delete_trans"
         /\ \A r \in Requests : MethodOf(r) \in Methods
<1>1. /\ "query" \notin Edits /\ "changes" \notin Edits
      /\ "revert" \notin Edits /\ "apply" \notin Edits
  BY JsonRpcTransactionsAssumption
<1>2. \A e \in Edits : MethodOf(e) = "set_value"
  BY <1>1 DEF MethodOf
<1>3. /\ MethodOf("query") = "query" /\ MethodOf("changes") = "get_trans_changes"
      /\ MethodOf("apply") = "validate_commit" /\ MethodOf("revert") = "delete_trans"
  BY <1>1 DEF MethodOf
<1> QED BY <1>1, <1>2, <1>3 DEF Requests, Operations, Methods

\* What a gesture sets are edits.
LEMMA GestureEdits ==
  \A g \in Gestures : g.first \subseteq Edits /\ g.then \subseteq Edits /\ Uses(g) \subseteq Edits
BY JsonRpcTransactionsAssumption DEF Uses

RequestType ==
  [pc: {"idle", "trans", "new", "sent", "answered", "done", "rejected"},
   method: Methods, th: Th \cup {NoTh},
   answer: {"none", "ok", "invalid", "error"}]

\* The server answers one request.
LEMMA AnswerIs ==
  ASSUME TypeOK, NEW r \in Requests, NEW a \in {"ok", "invalid", "error"},
         req' = Answers(r, a)
  PROVE  /\ req' \in [Requests -> RequestType]
         /\ req'[r].pc = "answered" /\ req'[r].answer = a
         /\ req'[r].method = req[r].method /\ req'[r].th = req[r].th
         /\ \A q \in Requests \ {r} : req'[q] = req[q]
<1>1. req \in [Requests -> RequestType]
  BY DEF TypeOK, RequestType
<1>2. req[r] \in RequestType
  BY <1>1
<1>3. req' = [req EXCEPT ![r] = [req[r] EXCEPT !.pc = "answered", !.answer = a]]
  BY <1>1 DEF Answers
<1>4. [req[r] EXCEPT !.pc = "answered", !.answer = a] \in RequestType
  BY <1>2 DEF RequestType
<1> QED BY <1>1, <1>2, <1>3, <1>4 DEF RequestType

Starting(r) == [NoRequest EXCEPT !.pc = "trans", !.method = MethodOf(r)]

\* Requests start, and ask for the transactions unless they are cached.
LEMMA StartingIs ==
  ASSUME Considerate, NEW r \in Requests
  PROVE  /\ Starting(r) \in RequestType
         /\ Starting(r).pc = "trans" /\ Starting(r).method = MethodOf(r)
         /\ Starting(r).answer = "none" /\ Starting(r).th = NoTh
<1>1. MethodOf(r) \in Methods
  BY Names
<1> QED BY <1>1 DEF Starting, NoRequest, RequestType

\* Start gives each request of R its state, and asks for the transactions.
LEMMA StartIs ==
  ASSUME Considerate, TypeOK, NEW R \in SUBSET Requests, NEW rq \in [Requests -> RequestType],
         Start(R, rq, cached, subscribed, fetch)
  PROVE  /\ req' \in [Requests -> RequestType]
         /\ \A r \in R : /\ req'[r].pc = "trans" /\ req'[r].method = MethodOf(r)
                         /\ req'[r].answer = "none" /\ req'[r].th = NoTh
         /\ \A r \in Requests \ R : req'[r] = rq[r]
         /\ subscribed' \in BOOLEAN /\ (subscribed \/ R # {} => subscribed')
         /\ fetch' \in [state: {"none", "asked", "answered"}, list: SUBSET Known]
         /\ fetch' = fetch \/ (fetch'.state = "asked" /\ fetch'.list = {})
         /\ cached => fetch' = fetch
         /\ fetch.state # "none" => fetch' = fetch
         /\ R = {} => fetch' = fetch
         /\ R # {} => cached \/ fetch'.state # "none"
<1>1. req' = [r \in Requests |-> IF r \in R THEN Starting(r) ELSE rq[r]]
  BY DEF Start, Starting
<1>2. fetch' = IF R # {} /\ ~cached /\ fetch.state = "none"
               THEN [state |-> "asked", list |-> {}] ELSE fetch
  <2>1. [NoFetch EXCEPT !.state = "asked"] = [state |-> "asked", list |-> {}]
    BY DEF NoFetch
  <2> QED BY <2>1 DEF Start
<1>3. fetch' \in [state: {"none", "asked", "answered"}, list: SUBSET Known]
  BY <1>2 DEF TypeOK
<1>4. subscribed' \in BOOLEAN /\ (subscribed \/ R # {} => subscribed')
  BY DEF Start, TypeOK
<1>5. /\ req' \in [Requests -> RequestType]
      /\ \A r \in R : /\ req'[r].pc = "trans" /\ req'[r].method = MethodOf(r)
                      /\ req'[r].answer = "none" /\ req'[r].th = NoTh
      /\ \A r \in Requests \ R : req'[r] = rq[r]
  BY <1>1, StartingIs
<1> QED BY <1>2, <1>3, <1>4, <1>5

\* An answer is received.
LEMMA EndedIs ==
  ASSUME TypeOK, NEW r \in Requests
  PROVE  /\ Ended(r) \in [Requests -> RequestType]
         /\ Ended(r)[r].pc \in {"idle", "done", "rejected"}
         /\ Ended(r)[r].answer = "none"
         /\ r = "changes" /\ req[r].answer # "error" => Ended(r)[r].pc = "idle"
         /\ \A q \in Requests \ {r} : Ended(r)[q] = req[q]
<1> DEFINE v == [NoRequest EXCEPT !.pc = IF req[r].answer = "error" THEN "rejected"
                                         ELSE IF r = "changes" THEN "idle" ELSE "done"]
<1>1. v \in RequestType /\ v.pc \in {"idle", "done", "rejected"} /\ v.answer = "none"
      /\ (r = "changes" /\ req[r].answer # "error" => v.pc = "idle")
  BY DEF NoRequest, RequestType, Methods
<1>2. req \in [Requests -> RequestType]
  BY DEF TypeOK, RequestType
<1>3. Ended(r) = [req EXCEPT ![r] = v]
  BY DEF Ended
<1> HIDE DEF v
<1> QED BY <1>1, <1>2, <1>3

------------------------------------------------------------------------------
(* The inductive invariant.                                                  *)

\* Every variable has its type at first, and an open transaction is empty.
LEMMA TypesInit ==
  ASSUME Init
  PROVE  /\ TypeOK /\ opened \in 0..1
         /\ \A t \in DOMAIN open :
              /\ open[t] = [mode |-> "read_write", path |-> FALSE, edits |-> {}]
              /\ t = 1 /\ opened = 1
<1>1. /\ DOMAIN open \subseteq {1} /\ \A t \in DOMAIN open :
           open[t] = [mode |-> "read_write", path |-> FALSE, edits |-> {}]
  BY DEF Init
<1>2. opened \in 0..1 /\ \A t \in DOMAIN open : t = 1 /\ opened = 1
  <2>1. CASE open = <<>>
    <3>1. DOMAIN open = {}
      BY <2>1
    <3> QED BY <3>1, FS_EmptySet DEF Init
  <2>2. CASE open = [t \in {1} |-> [mode |-> "read_write", path |-> FALSE, edits |-> {}]]
    <3>1. DOMAIN open = {1}
      BY <2>2
    <3>2. Cardinality({1}) = 1
      BY FS_Singleton
    <3> QED BY <3>1, <3>2 DEF Init
  <2> QED BY <2>1, <2>2 DEF Init
<1>3. TypeOK
  <2>1. 1 \in Th /\ MaxTh \in Nat \ {0} /\ MaxVisits \in Nat \ {0}
    BY JsonRpcTransactionsAssumption DEF Th
  <2>2. /\ DOMAIN open \subseteq Th /\ opened \in 0..MaxTh /\ visits \in 0..MaxVisits
        /\ \A t \in DOMAIN open :
             open[t] \in [mode: Modes, path: BOOLEAN, edits: SUBSET Edits]
    <3>1. [mode |-> "read_write", path |-> FALSE, edits |-> {}]
            \in [mode: Modes, path: BOOLEAN, edits: SUBSET Edits]
      BY DEF Modes
    <3>2. opened \in 0..MaxTh /\ visits \in 0..MaxVisits
      BY <1>2, <2>1 DEF Init
    <3> QED BY <1>1, <2>1, <3>1, <3>2
  <2>3. fetch \in [state: {"none", "asked", "answered"}, list: SUBSET Known]
    BY DEF Init, NoFetch
  <2>4. pendingTrans \in [state: {"none", "asked", "answered"}, mode: Modes,
                         path: BOOLEAN, th: Th \cup {NoTh}]
    BY DEF Init, NoPending, Modes
  <2>5. req \in [Requests ->
       [pc: {"idle", "trans", "new", "sent", "answered", "done", "rejected"},
        method: Methods, th: Th \cup {NoTh},
        answer: {"none", "ok", "invalid", "error"}]]
    BY DEF Init, NoRequest, Methods
  <2>6. gesture \in [Gestures -> {"ready", "first", "then", "done"}]
    BY DEF Init
  <2> QED BY <2>2, <2>3, <2>4, <2>5, <2>6 DEF TypeOK, Init, NoRequest
<1> QED BY <1>1, <1>2, <1>3

\* Nothing is in flight at first.
LEMMA EditingInit ==
  ASSUME Considerate, Init, ScenarioInv
  PROVE  EditingInv
<1>1. \A t \in DOMAIN open : open[t] = [mode |-> "read_write", path |-> FALSE, edits |-> {}]
  BY TypesInit
<1>2. opened \in 0..1 /\ \A t \in DOMAIN open : t = 1 /\ opened = 1
  BY TypesInit
<1>3. TypeOK
  BY TypesInit
<1>4. PathInv /\ RequestInv /\ CacheInv /\ KnownInv /\ PendingInv
  BY <1>1, <1>2, Names DEF Init, PathInv, RequestInv, CacheInv, KnownInv, PendingInv,
     NoFetch, NoPending, NoRequest, InFlight, Opening, Right
<1>5. FateInv
  BY <1>1, <1>2, Names, JsonRpcTransactionsAssumption
     DEF Init, FateInv, Underway, InFlight, Uses, NoRequest
<1>6. ScenarioInv
  OBVIOUS
<1>7. OpenInv
  BY <1>1, <1>2 DEF Init, OpenInv, W
<1>8. GestureInv /\ OperationInv /\ FlagInv /\ CoveredInv /\ AwayInv
  BY <1>1, <1>2, Names
     DEF Init, GestureInv, OperationInv, FlagInv, CoveredInv, AwayInv, Awaiting,
         NoRequest, InFlight, Ending, Operating, Operations
<1> QED BY <1>3, <1>4, <1>5, <1>6, <1>7, <1>8 DEF EditingInv

\* The answer of get_trans is right when it is given.
LEMMA ServeTransStep ==
  ASSUME EditingInv, ServeTrans
  PROVE  EditingInv'
<1> USE DEF EditingInv, ServeTrans, server, user, flags, cache
<1>1. /\ fetch.state = "asked" /\ ~cached
      /\ fetch' = [state |-> "answered", list |-> Listed]
      /\ W' = W /\ Opening' = Opening /\ Operating' = Operating
      /\ \A r \in Operations : Ending(r)' = Ending(r)
  BY DEF CacheInv, W, Opening, Operating, InFlight, Ending
<1>2. /\ Listed \in SUBSET Known /\ \A t \in Listed : ~t.path
      /\ W \subseteq Ids(Listed) /\ Right(Listed)
  <2>1. \A t \in DOMAIN open : /\ t \in Th /\ ~open[t].path /\ t <= opened
           /\ open[t] \in [mode: Modes, path: BOOLEAN, edits: SUBSET Edits]
    BY DEF TypeOK, PathInv, OpenInv
  <2>2. \A t \in Listed : \E u \in DOMAIN open :
          t = [th |-> u, mode |-> open[u].mode, path |-> open[u].path]
    BY DEF Listed
  <2>3. Listed \in SUBSET Known
    BY <2>1, <2>2 DEF Known
  <2>4. Right(Listed)
    BY <2>1, <2>2 DEF Right, W
  <2>5. W \subseteq Ids(Listed)
    <3>1. ASSUME NEW t \in W PROVE t \in Ids(Listed)
      <4>1. [th |-> t, mode |-> open[t].mode, path |-> open[t].path] \in Listed
        BY <3>1 DEF W, Listed
      <4> QED BY <4>1 DEF Ids
    <3> QED BY <3>1
  <2> QED BY <2>1, <2>2, <2>3, <2>4, <2>5
<1>3. TypeOK'
  BY <1>1, <1>2 DEF TypeOK
<1>4. PathInv' /\ RequestInv' /\ FateInv' /\ ScenarioInv' /\ OpenInv'
  BY <1>1, <1>2 DEF PathInv, RequestInv, FateInv, ScenarioInv, OpenInv, InFlight, Underway
<1>5. CacheInv' /\ KnownInv'
  BY <1>1, <1>2 DEF CacheInv, KnownInv, Right
<1>6. PendingInv' /\ GestureInv' /\ OperationInv' /\ CoveredInv' /\ AwayInv'
  BY <1>1 DEF PendingInv, GestureInv, OperationInv, CoveredInv, AwayInv, InFlight, Awaiting, NoFetch
<1>7. FlagInv'
  BY <1>1 DEF FlagInv, InFlight
<1> QED BY <1>3, <1>4, <1>5, <1>6, <1>7

\* A write transaction is opened only when there is none.
LEMMA ServeNewTransStep ==
  ASSUME EditingInv, ServeNewTrans
  PROVE  EditingInv'
<1> USE DEF EditingInv, ServeNewTrans, server, user, flags, cache
<1> DEFINE n == opened + 1
<1>1. /\ pendingTrans.state = "asked" /\ n \in Th /\ n \notin DOMAIN open
      /\ opened' = n /\ opened \in Nat
      /\ DOMAIN open' = DOMAIN open \cup {n}
      /\ open'[n] = [mode |-> pendingTrans.mode, path |-> FALSE, edits |-> {}]
      /\ \A t \in DOMAIN open : open'[t] = open[t]
  <2>1. \A t \in DOMAIN open : t \in Nat /\ t <= opened
    BY JsonRpcTransactionsAssumption DEF TypeOK, OpenInv, Th
  <2>2. opened \in Nat /\ n \in Th /\ n \notin DOMAIN open
    BY <2>1, JsonRpcTransactionsAssumption DEF TypeOK, Th
  <2>3. pendingTrans.path = FALSE
    BY DEF PathInv, TypeOK
  <2>4. /\ open' = [t \in DOMAIN open \cup {n} |->
                      IF t = n THEN [mode |-> pendingTrans.mode, path |-> FALSE, edits |-> {}]
                      ELSE open[t]]
        /\ opened' = n /\ pendingTrans.state = "asked"
    BY <2>3
  <2> QED BY <2>2, <2>4
<1>2. /\ pendingTrans'.state = "answered" /\ pendingTrans'.th = n
      /\ pendingTrans'.mode = pendingTrans.mode /\ ~pendingTrans'.path
      /\ pendingTrans' \in [state: {"none", "asked", "answered"}, mode: Modes,
                            path: BOOLEAN, th: Th \cup {NoTh}]
      /\ Opening' = Opening
  BY <1>1 DEF TypeOK, PathInv, Opening
<1>3. /\ W' = IF Opening THEN {n} ELSE W
      /\ n \notin W /\ Operating' = Operating
      /\ \A r \in Operations : Ending(r)' = Ending(r)
  BY <1>1 DEF W, Opening, PendingInv, Operating, InFlight, Ending
<1>4. TypeOK'
  <2>1. \A t \in DOMAIN open' :
          open'[t] \in [mode: Modes, path: BOOLEAN, edits: SUBSET Edits]
    <3>1. [mode |-> pendingTrans.mode, path |-> FALSE, edits |-> {}]
            \in [mode: Modes, path: BOOLEAN, edits: SUBSET Edits]
      BY DEF TypeOK
    <3>2. \A t \in DOMAIN open :
            open[t] \in [mode: Modes, path: BOOLEAN, edits: SUBSET Edits]
      BY DEF TypeOK
    <3> QED BY <1>1, <3>1, <3>2
  <2>2. opened' \in 0..MaxTh
    BY <1>1, JsonRpcTransactionsAssumption DEF Th
  <2> QED BY <1>1, <1>2, <2>1, <2>2 DEF TypeOK
<1>5. PathInv' /\ RequestInv' /\ FateInv' /\ ScenarioInv'
  BY <1>1, <1>2 DEF PathInv, RequestInv, FateInv, ScenarioInv, InFlight, Underway
<1>6. OpenInv'
  <2>1. \A t, u \in W' : t = u
    BY <1>3 DEF OpenInv
  <2>2. \A t \in DOMAIN open' : t <= opened'
    BY <1>1, JsonRpcTransactionsAssumption DEF OpenInv, TypeOK, Th
  <2>3. Opening => W = {}
    BY <1>1 DEF PendingInv
  <2>4. open'[n].edits = {}
    BY <1>1
  <2>5. \A t \in DOMAIN open' : \A e \in open'[t].edits : t \in W' /\ fate'[e] = "open"
    BY <1>1, <1>3, <2>3, <2>4 DEF OpenInv
  <2>6. \A e \in Edits : fate'[e] = "open" => \E t \in W' : e \in open'[t].edits
    <3>1. W \subseteq DOMAIN open
      BY DEF W
    <3> QED BY <1>1, <1>3, <2>3, <3>1 DEF OpenInv
  <2> QED BY <2>1, <2>2, <2>5, <2>6 DEF OpenInv
<1>7. Right(trans)' /\ (fetch.state = "answered" => Right(fetch.list)')
  <2>1. \A t \in Known : t.th \in Nat
    BY JsonRpcTransactionsAssumption DEF Known, Th
  <2>2. trans \subseteq Known /\ fetch.list \subseteq Known
    BY DEF TypeOK
  <2>3. Opening => W = {}
    BY <1>1 DEF PendingInv
  <2>4. Right(trans) /\ (fetch.state = "answered" => Right(fetch.list))
    BY DEF CacheInv
  <2>5. /\ \A t \in trans : t.th <= n /\ t.th # n
        /\ fetch.state = "answered" => \A t \in fetch.list : t.th <= n /\ t.th # n
    BY <1>1, <2>1, <2>2, <2>4 DEF Right
  <2> QED BY <1>1, <1>3, <2>3, <2>4, <2>5 DEF Right
<1>8. CacheInv' /\ KnownInv'
  <2>1. Opening => W = {} /\ cached
    BY <1>1 DEF PendingInv
  <2> QED BY <1>1, <1>2, <1>3, <1>7, <2>1 DEF CacheInv, KnownInv, InFlight
<1>9. PendingInv'
  BY <1>1, <1>2, <1>3 DEF PendingInv, Opening, InFlight
<1>10. GestureInv' /\ CoveredInv' /\ AwayInv'
  BY <1>1, <1>3 DEF GestureInv, CoveredInv, AwayInv, InFlight, Awaiting, NoPending
<1>11. OperationInv'
  <2>1. Opening => ~Operating
    BY DEF PendingInv
  <2>2. \A r \in Operations : req[r].pc = "sent" \/ Ending(r) => Operating
    BY DEF Operating, InFlight, Ending
  <2> QED BY <1>1, <1>3, <2>1, <2>2 DEF OperationInv, InFlight, Awaiting
<1>12. FlagInv'
  BY <1>1, <1>2, <1>3 DEF FlagInv, InFlight
<1> QED BY <1>4, <1>5, <1>6, <1>8, <1>9, <1>10, <1>11, <1>12

\* The list received is still right: nothing was opened in between.
LEMMA ReceiveTransStep ==
  ASSUME EditingInv, page # "away", ReceiveTrans
  PROVE  EditingInv'
<1> USE DEF EditingInv, ReceiveTrans, server, user, flags, cache
<1>1. /\ fetch.state = "answered" /\ ~cached /\ trans = {} /\ fetch' = NoFetch
      /\ trans' = fetch.list /\ trans' \subseteq Known
      /\ W' = W /\ Opening' = Opening /\ Operating' = Operating
      /\ \A r \in Operations : Ending(r)' = Ending(r)
  BY DEF CacheInv, TypeOK, W, Opening, Operating, InFlight, Ending
<1>2. ~Opening /\ ~Operating /\ RW(trans) = {}
      /\ \A r \in Operations : ~InFlight(r) /\ ~Ending(r) /\ req[r].pc # "sent"
  BY <1>1 DEF PendingInv, OperationInv, Operating, InFlight, Ending, RW
<1>3. TypeOK'
  <2>1. fetch' \in [state: {"none", "asked", "answered"}, list: SUBSET Known]
    BY <1>1 DEF NoFetch
  <2> QED BY <1>1, <2>1 DEF TypeOK
<1>4. PathInv' /\ RequestInv' /\ FateInv' /\ ScenarioInv' /\ OpenInv'
  BY <1>1 DEF PathInv, RequestInv, FateInv, ScenarioInv, OpenInv, InFlight, Underway, NoFetch
<1>5. CacheInv' /\ KnownInv'
  BY <1>1 DEF CacheInv, KnownInv, Right, NoFetch
<1>6. PendingInv' /\ GestureInv' /\ CoveredInv' /\ AwayInv'
  BY <1>1, <1>2 DEF PendingInv, GestureInv, CoveredInv, AwayInv, InFlight, Awaiting
<1>7. OperationInv' /\ FlagInv'
  BY <1>1, <1>2 DEF OperationInv, FlagInv, InFlight, Awaiting
<1> QED BY <1>3, <1>4, <1>5, <1>6, <1>7

\* The number of changes is read only.
LEMMA ServeChangesStep ==
  ASSUME Considerate, EditingInv, ServeChanges
  PROVE  EditingInv'
<1> USE DEF EditingInv, ServeChanges, server, user, flags, cache
<1>1. /\ req["changes"].pc = "sent" /\ req' \in [Requests -> RequestType]
      /\ req'["changes"].pc = "answered"
      /\ req'["changes"].method = req["changes"].method
      /\ \A r \in Requests \ {"changes"} : req'[r] = req[r]
      /\ "changes" \in Requests /\ "changes" \notin Edits /\ "changes" \notin Operations
      /\ "query" \in Requests \ {"changes"}
  BY Names, AnswerIs DEF Operations
<1>2. /\ W' = W /\ Opening' = Opening /\ Operating' = Operating
      /\ \A r \in Operations : Ending(r)' = Ending(r) /\ req'[r] = req[r]
      /\ \A r \in Edits : req'[r] = req[r]
      /\ req'["query"] = req["query"]
      /\ \A r \in Requests : InFlight(r)' <=> InFlight(r)
      /\ \A r \in Requests : req'[r].pc = "trans" <=> req[r].pc = "trans"
  BY <1>1, Names DEF W, Opening, Operating, Ending, InFlight
<1>3. Awaiting(Edits)' = Awaiting(Edits) /\ Awaiting({"query"})' = Awaiting({"query"})
  BY <1>2 DEF Awaiting
<1>4. TypeOK'
  BY <1>1 DEF TypeOK, RequestType
<1>5. RequestInv'
  BY <1>1, <1>2, Names DEF RequestInv
<1>6. PathInv' /\ FateInv' /\ ScenarioInv' /\ OpenInv'
  BY <1>2, Names, GestureEdits DEF PathInv, FateInv, ScenarioInv, OpenInv, Underway
<1>7. CacheInv' /\ KnownInv' /\ PendingInv'
  BY <1>2 DEF CacheInv, KnownInv, PendingInv, Right
<1>8. GestureInv' /\ OperationInv' /\ FlagInv' /\ CoveredInv'
  BY <1>2, <1>3, Names, GestureEdits DEF GestureInv, OperationInv, FlagInv, CoveredInv
<1>9. AwayInv'
  BY <1>1 DEF AwayInv, NoRequest
<1> QED BY <1>4, <1>5, <1>6, <1>7, <1>8, <1>9

\* An edit taken joins the write transaction, and its fate is decided.
LEMMA ServeEditStep ==
  ASSUME Considerate, EditingInv, NEW e \in Edits, ServeEdit(e)
  PROVE  EditingInv'
<1> USE DEF EditingInv, server, user, flags, cache
<1>0. e \in Requests
  BY Names
<1>1. /\ req[e].pc = "sent" /\ fate[e] = "new" /\ fate' \in [Edits -> {"new", "open", "running", "dropped", "refused"}]
      /\ fate'[e] \in {"open", "refused"}
      /\ \A x \in Edits \ {e} : fate'[x] = fate[x]
  BY DEF ServeEdit, FateInv, Underway, Moved, TypeOK
<1>2. /\ req' \in [Requests -> RequestType]
      /\ req'[e].pc = "answered" /\ req'[e].method = req[e].method
      /\ req'[e].answer # "none"
      /\ \A q \in Requests \ {e} : req'[q] = req[q]
  <2>1. PICK a \in {"ok", "error"} : req' = Answers(e, a)
    BY DEF ServeEdit
  <2> QED BY <1>0, <2>1, AnswerIs
<1>3. /\ DOMAIN open' = DOMAIN open
      /\ \A t \in DOMAIN open :
           /\ open'[t] \in [mode: Modes, path: BOOLEAN, edits: SUBSET Edits]
           /\ open'[t].mode = open[t].mode /\ open'[t].path = open[t].path
           /\ fate'[e] = "refused" => open'[t].edits = open[t].edits
           /\ fate'[e] = "open" =>
                open'[t].edits = open[t].edits \cup (IF t = req[e].th THEN {e} ELSE {})
      /\ fate'[e] = "open" => req[e].th \in W
  <2>1. \A t \in DOMAIN open : open[t] \in [mode: Modes, path: BOOLEAN, edits: SUBSET Edits]
    BY DEF TypeOK
  <2>2. CASE UNCHANGED open /\ fate' = Moved({e}, "refused")
    BY <2>1, <2>2 DEF Moved
  <2>3. CASE Accepts(e) /\ open' = [open EXCEPT ![req[e].th].edits = @ \cup {e}]
             /\ fate' = Moved({e}, "open")
    <3> DEFINE th == req[e].th
    <3>1. th \in DOMAIN open /\ open[th].mode = "read_write" /\ fate'[e] = "open"
      BY <2>3 DEF Accepts, Moved
    <3>2. open' = [open EXCEPT ![th] = [open[th] EXCEPT !.edits = open[th].edits \cup {e}]]
      BY <2>3, <3>1
    <3>3. [open[th] EXCEPT !.edits = open[th].edits \cup {e}]
            \in [mode: Modes, path: BOOLEAN, edits: SUBSET Edits]
      BY <2>1, <3>1
    <3>4. \A t \in DOMAIN open :
            open'[t] = IF t = th THEN [open[th] EXCEPT !.edits = open[th].edits \cup {e}]
                       ELSE open[t]
      BY <3>2
    <3> QED BY <2>1, <3>1, <3>2, <3>3, <3>4 DEF W
  <2> QED BY <2>2, <2>3 DEF ServeEdit
<1>4. /\ UNCHANGED <<opened, trans, cached, subscribed, fetch, pendingTrans,
                     hasWriteTransaction, commitInProgress, gesture, page, visits, covered>>
      /\ W' = W /\ Opening' = Opening
      /\ \A r \in Operations \cup {"query", "changes"} : r \in Requests /\ r # e /\ req'[r] = req[r]
      /\ "query" \in Operations \cup {"query", "changes"}
      /\ \A r \in Requests \ {e} : InFlight(r)' <=> InFlight(r)
      /\ InFlight(e) /\ InFlight(e)'
      /\ \A r \in Requests : req'[r].pc = "trans" <=> req[r].pc = "trans"
      /\ \A r \in Requests : req'[r].pc = "new" <=> req[r].pc = "new"
  BY <1>1, <1>2, <1>3, Names DEF ServeEdit, W, Opening, InFlight
<1>5. /\ Operating' = Operating /\ \A r \in Operations : Ending(r)' = Ending(r)
      /\ Awaiting(Edits)' = Awaiting(Edits) /\ Awaiting({"query"})' = Awaiting({"query"})
  BY <1>4, Names DEF Operating, Ending, Awaiting
<1>6. TypeOK'
  BY <1>1, <1>2, <1>3, <1>4 DEF TypeOK, RequestType
<1>7. PathInv' /\ ScenarioInv'
  BY <1>3, <1>4 DEF PathInv, ScenarioInv
<1>8. RequestInv'
  BY <1>2, <1>4, Names DEF RequestInv
<1>9. FateInv'
  BY <1>0, <1>1, <1>2, <1>4, Names, GestureEdits DEF FateInv, Underway
<1>10. OpenInv'
  <2>1. \A t, u \in W' : t = u
    BY <1>4 DEF OpenInv
  <2>2. \A t \in DOMAIN open' : t <= opened'
    BY <1>3, <1>4 DEF OpenInv
  <2>3. ASSUME NEW t \in DOMAIN open', NEW x \in open'[t].edits
        PROVE  t \in W' /\ fate'[x] = "open"
    BY <1>1, <1>3, <1>4, <2>3 DEF OpenInv, TypeOK
  <2>4. ASSUME NEW x \in Edits, fate'[x] = "open" PROVE \E t \in W' : x \in open'[t].edits
    <3>1. W \subseteq DOMAIN open
      BY DEF W
    <3>2. CASE x = e
      BY <1>3, <1>4, <2>4, <3>1, <3>2
    <3>3. CASE x # e
      BY <1>1, <1>3, <1>4, <2>4, <3>1, <3>3 DEF OpenInv
    <3> QED BY <3>2, <3>3
  <2> QED BY <2>1, <2>2, <2>3, <2>4 DEF OpenInv
<1>11. CacheInv' /\ KnownInv' /\ PendingInv'
  BY <1>2, <1>3, <1>4, <1>5, Names DEF CacheInv, KnownInv, PendingInv, Right
<1>12. GestureInv' /\ OperationInv' /\ FlagInv'
  BY <1>4, <1>5, Names, GestureEdits DEF GestureInv, OperationInv, FlagInv
<1>13. CoveredInv' /\ AwayInv'
  BY <1>1, <1>2, <1>4, Names DEF CoveredInv, AwayInv, NoRequest, TypeOK
<1> QED BY <1>6, <1>7, <1>8, <1>9, <1>10, <1>11, <1>12, <1>13

\* Validation moves no edit.
LEMMA ServeValidateStep ==
  ASSUME Considerate, EditingInv, ServeValidate
  PROVE  EditingInv'
<1> USE DEF EditingInv, ServeValidate, server, user, flags, cache
<1>0. /\ "apply" \in Operations /\ "apply" \in Requests /\ "apply" \notin Edits
      /\ "query" \in Requests /\ "apply" # "query" /\ "revert" \in Operations
  BY Names
<1>1. /\ req["apply"].pc = "sent" /\ req["apply"].method = "validate_commit"
      /\ req["apply"].th \in W
  BY <1>0 DEF OperationInv
<1>2. PICK a \in {"ok", "invalid"} : req' = Answers("apply", a)
  BY <1>1 DEF Fault, W
<1>3. /\ req' \in [Requests -> RequestType]
      /\ req'["apply"].pc = "answered" /\ req'["apply"].answer = a
      /\ req'["apply"].method = "validate_commit"
      /\ \A q \in Requests \ {"apply"} : req'[q] = req[q]
  BY <1>0, <1>1, <1>2, AnswerIs
<1>4. /\ W' = W /\ Opening' = Opening
      /\ \A r \in Requests : InFlight(r)' <=> InFlight(r)
      /\ \A r \in Requests : req'[r].pc = "trans" <=> req[r].pc = "trans"
      /\ \A r \in Requests : req'[r].pc = "new" <=> req[r].pc = "new"
      /\ \A r \in Edits : r \in Requests /\ req'[r] = req[r]
      /\ req'["query"] = req["query"]
  BY <1>0, <1>1, <1>3, Names DEF W, Opening, InFlight
<1>5. /\ Operating' = Operating
      /\ \A r \in Operations : Ending(r)' <=> Ending(r)
      /\ \A r \in Operations : Ending(r) => req'[r] = req[r]
      /\ Awaiting(Edits)' = Awaiting(Edits) /\ Awaiting({"query"})' = Awaiting({"query"})
  <2>1. ~Ending("apply") /\ ~Ending("apply")'
    BY <1>1, <1>3 DEF Ending
  <2> QED BY <1>0, <1>3, <1>4, <2>1, Names DEF Operating, Ending, Awaiting
<1>6. TypeOK'
  BY <1>3 DEF TypeOK, RequestType
<1>7. RequestInv'
  BY <1>0, <1>2, <1>3, <1>4, Names DEF RequestInv
<1>8. PathInv' /\ ScenarioInv' /\ FateInv' /\ OpenInv'
  BY <1>4, GestureEdits DEF PathInv, ScenarioInv, FateInv, OpenInv, Underway
<1>9. CacheInv' /\ KnownInv' /\ PendingInv'
  BY <1>4, <1>5 DEF CacheInv, KnownInv, PendingInv, Right
<1>10. GestureInv' /\ OperationInv' /\ FlagInv'
  BY <1>0, <1>3, <1>4, <1>5, Names, GestureEdits DEF GestureInv, OperationInv, FlagInv
<1>11. CoveredInv' /\ AwayInv'
  BY <1>0, <1>1, <1>3, <1>4, Names DEF CoveredInv, AwayInv, NoRequest
<1> QED BY <1>6, <1>7, <1>8, <1>9, <1>10, <1>11

\* What commit and delete_trans do on the server.
LEMMA EndIs ==
  ASSUME Considerate, EditingInv, NEW r \in Operations, ServeEnd(r)
  PROVE  /\ req[r].pc = "sent" /\ Ending(r) /\ req[r].th \in W /\ W = {req[r].th}
         /\ \/ /\ req' = Answers(r, "ok")
               /\ DOMAIN open' = DOMAIN open \ {req[r].th}
               /\ \A t \in DOMAIN open' : open'[t] = open[t]
               /\ fate' = Moved(open[req[r].th].edits, IF r = "apply" THEN "running" ELSE "dropped")
               /\ covered \subseteq open[req[r].th].edits /\ covered' = {}
            \/ /\ r = "apply" /\ req' = Answers(r, "invalid")
               /\ UNCHANGED <<open, fate, covered>>
<1> DEFINE t == req[r].th
<1>1. req[r].pc = "sent" /\ Ending(r) /\ t \in W /\ W = {t} /\ t \in DOMAIN open
  BY DEF ServeEnd, Ending, EditingInv, OperationInv, OpenInv, W
<1>2. covered \subseteq open[t].edits
  BY <1>1 DEF EditingInv, CoveredInv, OpenInv, TypeOK
<1>3. Fault(r, t) \in {"none", "invalid"} /\ (Fault(r, t) = "invalid" => r = "apply")
  BY <1>1 DEF Fault
<1>4. r \notin Refused
  BY DEF Considerate
<1>5. CASE Fault(r, t) = "none"
  BY <1>1, <1>2, <1>4, <1>5 DEF ServeEnd, Without
<1>6. CASE Fault(r, t) = "invalid"
  BY <1>1, <1>3, <1>6 DEF ServeEnd
<1> QED BY <1>1, <1>3, <1>5, <1>6

\* The end of a transaction closes the only one that writes.
LEMMA ServeEndStep ==
  ASSUME Considerate, EditingInv, NEW r \in Operations, ServeEnd(r)
  PROVE  EditingInv'
<1> USE DEF EditingInv, server, user, flags, cache
<1> DEFINE th == req[r].th
<1>0. r \in Requests /\ r \notin Edits /\ r # "query"
      /\ "query" \in Requests
      /\ Operations = {"revert", "apply"}
  BY Names
<1>1. req[r].pc = "sent" /\ Ending(r) /\ th \in W /\ W = {th} /\ th \in DOMAIN open
  BY EndIs DEF W
<1>2. PICK a \in {"ok", "invalid"} : req' = Answers(r, a)
  BY EndIs
<1>3. /\ req' \in [Requests -> RequestType]
      /\ req'[r].pc = "answered" /\ req'[r].answer = a
      /\ req'[r].method = req[r].method /\ req'[r].th = th
      /\ \A q \in Requests \ {r} : req'[q] = req[q]
      /\ UNCHANGED <<opened, trans, cached, subscribed, fetch, pendingTrans,
                     hasWriteTransaction, commitInProgress, gesture, page, visits>>
  BY <1>0, <1>1, <1>2, AnswerIs DEF ServeEnd
<1>4. /\ Opening' = Opening
      /\ \A q \in Requests : InFlight(q)' <=> InFlight(q)
      /\ \A q \in Requests : req'[q].pc = "trans" <=> req[q].pc = "trans"
      /\ \A q \in Requests : req'[q].pc = "new" <=> req[q].pc = "new"
      /\ \A q \in Edits : q \in Requests /\ req'[q] = req[q]
      /\ req'["query"] = req["query"]
      /\ Operating' = Operating
      /\ \A q \in Operations : q \in Requests /\ (Ending(q)' <=> Ending(q)) /\ req'[q].th = req[q].th
      /\ Awaiting(Edits)' = Awaiting(Edits) /\ Awaiting({"query"})' = Awaiting({"query"})
  <2>1. /\ \A q \in Edits : q \in Requests /\ q # r /\ req'[q] = req[q]
        /\ req'["query"] = req["query"]
        /\ \A q \in Operations : q \in Requests
    BY <1>0, <1>3, Names
  <2>2. /\ \A q \in Requests : InFlight(q)' <=> InFlight(q)
        /\ \A q \in Requests : req'[q].pc = "trans" <=> req[q].pc = "trans"
        /\ \A q \in Requests : req'[q].pc = "new" <=> req[q].pc = "new"
    BY <1>1, <1>3 DEF InFlight
  <2>3. \A q \in Operations : (Ending(q)' <=> Ending(q)) /\ req'[q].th = req[q].th
    BY <1>1, <1>3, <2>1 DEF Ending
  <2>4. Opening' = Opening
    BY <1>3 DEF Opening
  <2>5. Operating' = Operating
    BY <1>0, <1>1, <1>3, <2>1, <2>2, <2>3 DEF Operating
  <2>6. Awaiting(Edits)' = Awaiting(Edits) /\ Awaiting({"query"})' = Awaiting({"query"})
    BY <1>0, <1>1, <1>3, <2>1, <2>2 DEF Awaiting
  <2> QED BY <2>1, <2>2, <2>3, <2>4, <2>5, <2>6
<1>5. /\ Operating /\ ~Opening /\ InFlight(r) /\ InFlight(r)'
      /\ \A q \in Operations \ {r} : ~InFlight(q) /\ ~InFlight(q)'
      /\ th \notin Ids(trans) /\ cached
  BY <1>0, <1>1, <1>3, <1>4 DEF Operating, InFlight, PendingInv, OperationInv
<1>6. /\ DOMAIN open' \subseteq DOMAIN open
      /\ \A t \in DOMAIN open' : open'[t] = open[t]
      /\ W' \subseteq W /\ (W' = W \/ W' = {})
      /\ \A t \in DOMAIN open : t # th => t \in DOMAIN open'
      /\ \A t \in DOMAIN open : t # th => (t \in W' <=> t \in W)
  <2>1. CASE UNCHANGED open
    BY <2>1 DEF W
  <2>2. CASE DOMAIN open' = DOMAIN open \ {th} /\ \A t \in DOMAIN open' : open'[t] = open[t]
    BY <1>1, <2>2 DEF W
  <2> QED BY <2>1, <2>2, EndIs
<1>7. fate' \in [Edits -> {"new", "open", "running", "dropped", "refused"}]
  <2>1. CASE UNCHANGED fate
    BY <2>1 DEF TypeOK
  <2>2. CASE fate' = Moved(open[th].edits, IF r = "apply" THEN "running" ELSE "dropped")
    BY <2>2 DEF TypeOK, Moved
  <2> QED BY <2>1, <2>2, EndIs
<1>8. /\ \A e \in Edits : fate'[e] = "new" <=> fate[e] = "new"
      /\ \A e \in Edits : fate'[e] = "open" <=> fate[e] = "open" /\ th \in W'
  <2>1. CASE UNCHANGED <<open, fate>>
    BY <1>1, <2>1 DEF W
  <2>2. CASE /\ fate' = Moved(open[th].edits, IF r = "apply" THEN "running" ELSE "dropped")
             /\ DOMAIN open' = DOMAIN open \ {th}
    <3>1. \A e \in Edits : e \in open[th].edits <=> fate[e] = "open"
      BY <1>1 DEF OpenInv
    <3>2. th \notin W'
      BY <2>2 DEF W
    <3> QED BY <2>2, <3>1, <3>2 DEF Moved
  <2> QED BY <2>1, <2>2, EndIs
<1>9. TypeOK'
  <2>1. covered' \subseteq Edits
    BY EndIs DEF TypeOK
  <2> QED BY <1>3, <1>6, <1>7, <2>1 DEF TypeOK, RequestType
<1>10. PathInv' /\ ScenarioInv'
  BY <1>3, <1>6 DEF PathInv, ScenarioInv
<1>11. RequestInv'
  <2>1. r = "revert" => a = "ok"
    BY <1>0, <1>2, <1>3, EndIs, AnswerIs
  <2> QED BY <1>0, <1>2, <1>3, <1>4, <2>1, Names DEF RequestInv
<1>12. FateInv'
  BY <1>3, <1>4, <1>8, GestureEdits DEF FateInv, Underway
<1>13. OpenInv'
  <2>1. \A t, u \in W' : t = u
    BY <1>6 DEF OpenInv
  <2>2. ASSUME NEW t \in DOMAIN open', NEW x \in open'[t].edits
        PROVE  t \in W' /\ fate'[x] = "open"
    <3>1. t \in DOMAIN open /\ x \in open[t].edits /\ t \in W /\ fate[x] = "open" /\ t = th
      BY <1>1, <1>6, <2>2 DEF OpenInv
    <3>2. t \in W' /\ x \in Edits
      BY <1>6, <3>1 DEF W, TypeOK
    <3> QED BY <1>8, <3>1, <3>2
  <2>3. ASSUME NEW x \in Edits, fate'[x] = "open" PROVE \E t \in W' : x \in open'[t].edits
    <3>1. fate[x] = "open" /\ th \in W' /\ th \in DOMAIN open'
      BY <1>8, <2>3 DEF W
    <3>2. x \in open[th].edits
      BY <1>1, <3>1 DEF OpenInv
    <3> QED BY <1>6, <3>1, <3>2
  <2>4. \A t \in DOMAIN open' : t <= opened'
    BY <1>3, <1>6 DEF OpenInv
  <2> QED BY <2>1, <2>2, <2>3, <2>4 DEF OpenInv
<1>14. CacheInv'
  <2>1. Right(trans)'
    <3>1. ASSUME NEW t \in trans PROVE t.th # th
      BY <1>5 DEF Ids
    <3>2. W' = W \ {th} \/ W' = W
      BY <1>1, <1>6
    <3> QED BY <1>3, <3>1, <3>2 DEF CacheInv, Right
  <2>2. fetch.state = "none"
    BY <1>5 DEF CacheInv
  <2> QED BY <1>3, <1>4, <2>1, <2>2 DEF CacheInv
<1>15. KnownInv' /\ PendingInv'
  <2>1. pendingTrans.state = "answered" => pendingTrans.th # th
    BY <1>1, <1>5 DEF PendingInv, Opening
  <2>2. PendingInv'
    BY <1>3, <1>4, <1>5, <1>6, <2>1 DEF PendingInv, Opening, W
  <2> QED BY <1>3, <1>4, <1>5, <1>6, <2>2 DEF KnownInv, CacheInv
<1>16. GestureInv' /\ OperationInv' /\ FlagInv'
  <2>1. GestureInv'
    BY <1>3, <1>4, GestureEdits DEF GestureInv
  <2>2. OperationInv'
    <3>1. a = "ok" => W' = {}
      <4>1. CASE DOMAIN open' = DOMAIN open \ {th}
        BY <1>1, <1>6, <4>1 DEF W
      <4>2. CASE req' = Answers(r, "invalid")
        BY <1>0, <1>3, <4>2, AnswerIs
      <4> QED BY <4>1, <4>2, EndIs
    <3> QED BY <1>0, <1>3, <1>4, <1>5, <3>1 DEF OperationInv, InFlight, Ending
  <2>3. FlagInv'
    BY <1>0, <1>3, <1>4, <1>5, <1>6 DEF FlagInv
  <2> QED BY <2>1, <2>2, <2>3
<1>17. CoveredInv'
  <2>1. CASE covered' = {}
    BY <2>1 DEF CoveredInv
  <2>2. CASE r = "apply" /\ req' = Answers(r, "invalid") /\ UNCHANGED <<open, fate, covered>>
    <3>1. req'[r].answer = "invalid"
      BY <1>0, <2>2, AnswerIs
    <3> QED BY <1>5, <2>2, <3>1 DEF CoveredInv
  <2> QED BY <2>1, <2>2, EndIs
<1>18. AwayInv'
  BY <1>0, <1>1, <1>3 DEF AwayInv, NoRequest
<1> QED BY <1>9, <1>10, <1>11, <1>12, <1>13, <1>14, <1>15, <1>16, <1>17, <1>18

\* The browser keeps nothing of the number of changes here.
LEMMA ReceiveChangesStep ==
  ASSUME Considerate, EditingInv, ReceiveChanges
  PROVE  EditingInv'
<1> USE DEF EditingInv, ReceiveChanges, server, user, flags, cache
<1>0. /\ "changes" \in Requests /\ "changes" \notin Edits /\ "changes" \notin Operations
      /\ "query" \in Requests \ {"changes"}
  BY Names DEF Operations
<1>1. /\ req["changes"].pc = "answered" /\ req' \in [Requests -> RequestType]
      /\ req'["changes"].pc \in {"idle", "done", "rejected"}
      /\ \A r \in Requests \ {"changes"} : req'[r] = req[r]
  BY <1>0, EndedIs DEF Answered
<1>2. /\ W' = W /\ Opening' = Opening
      /\ \A r \in Operations : r \in Requests /\ req'[r] = req[r] /\ (Ending(r)' <=> Ending(r))
      /\ \A r \in Edits : r \in Requests /\ req'[r] = req[r]
      /\ req'["query"] = req["query"]
      /\ \A r \in Requests : r # "changes" => (InFlight(r)' <=> InFlight(r))
      /\ ~InFlight("changes")'
      /\ \A r \in Requests : req'[r].pc = "trans" <=> req[r].pc = "trans"
  BY <1>0, <1>1, Names DEF W, Opening, Ending, InFlight
<1>3. /\ Operating' = Operating
      /\ Awaiting(Edits)' = Awaiting(Edits) /\ Awaiting({"query"})' = Awaiting({"query"})
  BY <1>0, <1>2 DEF Awaiting, Operating
<1>4. TypeOK'
  BY <1>1 DEF TypeOK, RequestType
<1>5. RequestInv'
  BY <1>0, <1>1, <1>2, Names DEF RequestInv
<1>6. PathInv' /\ FateInv' /\ ScenarioInv' /\ OpenInv'
  BY <1>0, <1>2, Names, GestureEdits DEF PathInv, FateInv, ScenarioInv, OpenInv, Underway
<1>7. CacheInv' /\ KnownInv' /\ PendingInv'
  BY <1>2, <1>3 DEF CacheInv, KnownInv, PendingInv, Right
<1>8. GestureInv' /\ OperationInv' /\ FlagInv' /\ CoveredInv'
  BY <1>0, <1>2, <1>3, Names, GestureEdits DEF GestureInv, OperationInv, FlagInv, CoveredInv
<1>9. AwayInv'
  BY <1>0, <1>1 DEF AwayInv, NoRequest
<1> QED BY <1>4, <1>5, <1>6, <1>7, <1>8, <1>9

\* An edit that succeeded may ask for the changes again.
LEMMA ReceiveEditStep ==
  ASSUME Considerate, EditingInv, NEW e \in Edits, ReceiveEdit(e)
  PROVE  EditingInv'
<1> USE DEF EditingInv, server, user, flags, cache
<1> DEFINE R == IF req[e].answer = "error" THEN {} ELSE Refetched({"changes"})
<1>0. /\ "changes" \in Requests /\ "changes" \notin Edits /\ "changes" \notin Operations
      /\ "query" \in Requests /\ "query" # "changes" /\ "query" # e /\ e \in Requests
      /\ e \notin Operations /\ R \subseteq {"changes"} /\ R \in SUBSET Requests
  BY Names DEF Operations, Refetched
<1>1. /\ req[e].pc = "answered"
      /\ Start(R, Ended(e), cached, subscribed, fetch)
      /\ UNCHANGED <<open, opened, fate, trans, cached, pendingTrans, hasWriteTransaction,
                     commitInProgress, gesture, page, visits, covered>>
  BY DEF ReceiveEdit, Answered
<1>2. /\ Ended(e) \in [Requests -> RequestType] /\ Ended(e)[e].pc \in {"idle", "done", "rejected"}
      /\ \A q \in Requests \ {e} : Ended(e)[q] = req[q]
  BY <1>0, EndedIs
<1>3. /\ req' \in [Requests -> RequestType]
      /\ \A r \in R : /\ req'[r].pc = "trans" /\ req'[r].method = MethodOf(r)
                      /\ req'[r].answer = "none" /\ req'[r].th = NoTh
      /\ \A r \in Requests \ R : req'[r] = Ended(e)[r]
      /\ subscribed' \in BOOLEAN /\ (subscribed => subscribed')
      /\ fetch' \in [state: {"none", "asked", "answered"}, list: SUBSET Known]
      /\ fetch' = fetch \/ (fetch'.state = "asked" /\ fetch'.list = {})
      /\ cached => fetch' = fetch
      /\ fetch.state # "none" => fetch' = fetch
      /\ R # {} => cached \/ fetch'.state # "none"
  <2>1. TypeOK /\ R \in SUBSET Requests /\ Ended(e) \in [Requests -> RequestType]
        /\ Start(R, Ended(e), cached, subscribed, fetch)
    BY <1>0, <1>1, <1>2
  <2> HIDE DEF R, EditingInv, server, user, flags, cache
  <2> QED BY <2>1, StartIs
<1>4. /\ W' = W /\ Opening' = Opening
      /\ \A r \in Operations : r \in Requests /\ req'[r] = req[r] /\ (Ending(r)' <=> Ending(r))
                               /\ (InFlight(r)' <=> InFlight(r))
      /\ \A r \in Edits \ {e} : r \in Requests /\ req'[r] = req[r] /\ (InFlight(r)' <=> InFlight(r))
      /\ req'[e].pc \in {"idle", "done", "rejected"} /\ ~InFlight(e)'
      /\ req'["query"] = req["query"]
      /\ \A r \in Requests : req'[r].pc = "trans" =>
           req[r].pc = "trans" \/ cached \/ fetch'.state # "none"
      /\ \A r \in Requests : req[r].pc = "trans" => req'[r].pc = "trans"
  BY <1>0, <1>1, <1>2, <1>3, Names DEF W, Opening, Ending, InFlight
<1>5. /\ Operating' = Operating
      /\ Awaiting(Edits)' = Awaiting(Edits) /\ Awaiting({"query"})' = Awaiting({"query"})
  BY <1>0, <1>1, <1>4 DEF Awaiting, Operating
<1>6. TypeOK'
  <2>1. \A r \in Requests : req'[r].pc = "sent" => req'[r].th # NoTh
    BY <1>0, <1>2, <1>3 DEF TypeOK
  <2> QED BY <1>1, <1>3, <2>1 DEF TypeOK, RequestType
<1>7. RequestInv'
  <2>1. ASSUME NEW r \in Requests, InFlight(r)'
        PROVE  /\ req'[r].method = MethodOf(r) \/ (r = "apply" /\ req'[r].method = "commit")
               /\ req'[r].pc # "answered" => req'[r].answer = "none"
               /\ req'[r].pc = "new" => r \in Edits \cup {"query"}
    <3>1. CASE r \in R
      BY <1>3, <3>1
    <3>2. CASE r \notin R
      <4>1. r # e /\ req'[r] = req[r]
        BY <1>0, <1>2, <1>3, <1>4, <2>1, <3>2 DEF InFlight
      <4> QED BY <2>1, <4>1 DEF RequestInv, InFlight
    <3> QED BY <3>1, <3>2
  <2>2. \A x \in Edits : req'[x].pc = "answered" => req'[x].answer # "none"
    BY <1>4 DEF RequestInv
  <2> QED BY <1>0, <1>4, <2>1, <2>2, Names DEF RequestInv
<1>8. PathInv' /\ ScenarioInv' /\ OpenInv'
  BY <1>1, <1>3, <1>4 DEF PathInv, ScenarioInv, OpenInv
<1>9. FateInv'
  <2>1. \A x \in Edits : Underway(x)' <=> Underway(x)
    BY <1>1, <1>4 DEF Underway
  <2>2. \A x \in Edits : InFlight(x)' => InFlight(x)
    BY <1>4
  <2> QED BY <1>1, <2>1, <2>2, GestureEdits DEF FateInv
<1>10. CacheInv' /\ KnownInv'
  BY <1>1, <1>3, <1>4 DEF CacheInv, KnownInv, Right
<1>11. PendingInv'
  BY <1>1, <1>4, <1>5 DEF PendingInv
<1>12. GestureInv'
  BY <1>1, <1>4, <1>5, GestureEdits DEF GestureInv
<1>13. OperationInv' /\ CoveredInv'
  BY <1>0, <1>1, <1>3, <1>4, <1>5, Names DEF OperationInv, CoveredInv
<1>14. FlagInv'
  BY <1>1, <1>4, Names DEF FlagInv
<1>15. AwayInv'
  BY <1>0, <1>1 DEF AwayInv, NoRequest
<1> QED BY <1>6, <1>7, <1>8, <1>9, <1>10, <1>11, <1>12, <1>13, <1>14, <1>15

\* From validation to commit, the operation keeps its transaction.
LEMMA ReceiveValidateStep ==
  ASSUME Considerate, EditingInv, ReceiveValidate
  PROVE  EditingInv'
<1> USE DEF EditingInv, server, user, flags, cache
<1>0. /\ "apply" \in Operations /\ "apply" \in Requests /\ "apply" \notin Edits
      /\ "query" \in Requests /\ "apply" # "query" /\ "revert" \in Operations
  BY Names
<1>1. /\ req["apply"].pc = "answered" /\ req["apply"].method = "validate_commit"
      /\ req["apply"].answer \in {"ok", "invalid"}
  BY <1>0 DEF ReceiveValidate, Answered, RequestInv
<1>2. /\ UNCHANGED <<open, opened, fate, trans, cached, subscribed, fetch, pendingTrans,
                     hasWriteTransaction, commitInProgress, gesture, visits, covered>>
      /\ page' = page \/ page' = "leaving"
      /\ req' = [req EXCEPT !["apply"].pc = "trans", !["apply"].method = "commit",
                            !["apply"].th = NoTh, !["apply"].answer = "none"]
  BY <1>1 DEF ReceiveValidate
<1>3. /\ req' \in [Requests -> RequestType]
      /\ req'["apply"].pc = "trans" /\ req'["apply"].answer = "none"
      /\ req'["apply"].method = "commit"
      /\ \A q \in Requests \ {"apply"} : req'[q] = req[q]
  <2> DEFINE v == [req["apply"] EXCEPT !.pc = "trans", !.method = "commit",
                                       !.th = NoTh, !.answer = "none"]
  <2>1. req \in [Requests -> RequestType]
    BY DEF TypeOK, RequestType
  <2>2. v \in RequestType /\ v.pc = "trans" /\ v.answer = "none" /\ v.method = "commit"
    BY <1>0, <2>1 DEF RequestType, Methods
  <2>3. req' = [req EXCEPT !["apply"] = v]
    BY <1>0, <1>2, <2>1
  <2> HIDE DEF v
  <2> QED BY <1>0, <2>1, <2>2, <2>3
<1>4. /\ W' = W /\ Opening' = Opening /\ Operating /\ Operating'
      /\ \A r \in Requests : InFlight(r)' <=> InFlight(r)
      /\ \A r \in Requests : req'[r].pc = "new" <=> req[r].pc = "new"
      /\ \A r \in Requests : req[r].pc = "trans" => req'[r].pc = "trans"
      /\ \A r \in Edits : r \in Requests /\ req'[r] = req[r]
      /\ req'["query"] = req["query"]
      /\ ~Ending("apply") /\ ~Ending("apply")'
      /\ req'["revert"] = req["revert"] /\ (Ending("revert")' <=> Ending("revert"))
  BY <1>0, <1>1, <1>2, <1>3, Names DEF W, Opening, InFlight, Ending, Operating
<1>5. /\ cached /\ RW(trans) # {} /\ ~Ending("revert")
      /\ Awaiting(Edits)' = Awaiting(Edits) /\ Awaiting({"query"})' = Awaiting({"query"})
  BY <1>0, <1>1, <1>4 DEF OperationInv, Ending, InFlight, Awaiting
<1>6. TypeOK'
  BY <1>2, <1>3 DEF TypeOK, RequestType
<1>7. RequestInv'
  BY <1>0, <1>3, <1>4, Names DEF RequestInv
<1>8. PathInv' /\ ScenarioInv' /\ FateInv' /\ OpenInv'
  <2>1. \A e \in Edits : (InFlight(e)' <=> InFlight(e)) /\ (Underway(e)' <=> Underway(e))
    BY <1>4 DEF Underway
  <2>2. FateInv'
    BY <1>2, <2>1, GestureEdits DEF FateInv
  <2> QED BY <1>2, <1>4, <2>2 DEF PathInv, ScenarioInv, OpenInv
<1>9. CacheInv' /\ KnownInv' /\ PendingInv'
  <2>1. CacheInv'
    BY <1>2, <1>4, <1>5 DEF CacheInv, Right
  <2>2. KnownInv'
    BY <1>0, <1>2, <1>4, <1>5, Names DEF KnownInv
  <2>3. PendingInv'
    BY <1>2, <1>4 DEF PendingInv
  <2> QED BY <2>1, <2>2, <2>3
<1>10. GestureInv' /\ OperationInv'
  BY <1>0, <1>2, <1>3, <1>4, <1>5, Names, GestureEdits DEF GestureInv, OperationInv
<1>11. FlagInv'
  BY <1>0, <1>2, <1>3, <1>4, <1>5, Names DEF FlagInv
<1>12. CoveredInv' /\ AwayInv'
  BY <1>0, <1>1, <1>2, <1>3, <1>4, Names DEF CoveredInv, AwayInv, NoRequest
<1> QED BY <1>6, <1>7, <1>8, <1>9, <1>10, <1>11, <1>12

\* The end of an operation: it was successful, or the commit invalid, and the
\* base query is subscribed.
LEMMA EndReceived ==
  ASSUME Considerate, EditingInv, NEW r \in Operations, ReceiveEnd(r)
  PROVE  /\ req[r].pc = "answered" /\ Ending(r) /\ req[r].answer \in {"ok", "invalid"}
         /\ Start(Refetched(Invalidated(r)), Ended(r), FALSE, FALSE, NoFetch)
         /\ trans' = {} /\ cached' = FALSE /\ Fulfilled(r) /\ covered' = {}
         /\ page' = IF req[r].answer = "invalid" THEN "leaving" ELSE page
         /\ UNCHANGED <<open, opened, fate, pendingTrans, gesture, visits>>
<1>1. req[r].pc = "answered" /\ Ending(r) /\ req[r].answer \in {"ok", "invalid"} /\ subscribed
  BY DEF ReceiveEnd, Answered, EditingInv, RequestInv, OperationInv, Operating, InFlight, Ending
<1> QED BY <1>1 DEF ReceiveEnd, server

\* The end of an operation empties the cache: no edit is waiting for it.
LEMMA ReceiveEndStep ==
  ASSUME Considerate, EditingInv, NEW r \in Operations, ReceiveEnd(r), ~Internal
  PROVE  EditingInv'
<1> USE DEF EditingInv
<1> DEFINE R == Refetched(Invalidated(r))
<1>0. /\ r \in Requests /\ r \notin Edits /\ r # "query" /\ r # "changes"
      /\ "query" \in Requests /\ "changes" \in Requests /\ "query" \notin Edits
      /\ "changes" \notin Edits /\ "query" # "changes"
      /\ Operations = {"revert", "apply"}
      /\ R \in SUBSET Requests /\ R \subseteq {"query", "changes"}
      /\ \A q \in R : ~InFlight(q)
  BY Names DEF Refetched, Invalidated
<1>1. /\ req[r].pc = "answered" /\ Ending(r) /\ req[r].answer \in {"ok", "invalid"}
      /\ trans' = {} /\ cached' = FALSE /\ Fulfilled(r) /\ covered' = {}
      /\ page' = IF req[r].answer = "invalid" THEN "leaving" ELSE page
      /\ UNCHANGED <<open, opened, fate, pendingTrans, gesture, visits>>
  BY EndReceived
<1>2. /\ Ended(r) \in [Requests -> RequestType] /\ Ended(r)[r].pc \in {"idle", "done", "rejected"}
      /\ \A q \in Requests \ {r} : Ended(r)[q] = req[q]
  BY <1>0, EndedIs
<1>3. /\ req' \in [Requests -> RequestType]
      /\ \A q \in R : /\ req'[q].pc = "trans" /\ req'[q].method = MethodOf(q)
                      /\ req'[q].answer = "none" /\ req'[q].th = NoTh
      /\ \A q \in Requests \ R : req'[q] = Ended(r)[q]
      /\ subscribed' \in BOOLEAN
      /\ fetch' \in [state: {"none", "asked", "answered"}, list: SUBSET Known]
      /\ fetch'.list = {} /\ fetch'.state # "answered"
      /\ R # {} => fetch'.state # "none"
  <2>1. Start(R, Ended(r), FALSE, FALSE, NoFetch)
    BY EndReceived
  <2> HIDE DEF R
  <2>2. req' = [q \in Requests |-> IF q \in R THEN Starting(q) ELSE Ended(r)[q]]
    BY <2>1 DEF Start, Starting
  <2>3. /\ req' \in [Requests -> RequestType]
        /\ \A q \in R : /\ req'[q].pc = "trans" /\ req'[q].method = MethodOf(q)
                        /\ req'[q].answer = "none" /\ req'[q].th = NoTh
        /\ \A q \in Requests \ R : req'[q] = Ended(r)[q]
    BY <1>0, <1>2, <2>2, StartingIs
  <2>4. fetch' = IF R # {} THEN [state |-> "asked", list |-> {}] ELSE [state |-> "none", list |-> {}]
    <3>1. [NoFetch EXCEPT !.state = "asked"] = [state |-> "asked", list |-> {}]
      BY DEF NoFetch
    <3> QED BY <2>1, <3>1 DEF Start, NoFetch
  <2>5. subscribed' \in BOOLEAN
    BY <2>1 DEF Start
  <2> QED BY <2>3, <2>4, <2>5
<1>4. /\ W' = W /\ Opening' = Opening /\ Operating /\ cached /\ ~Opening
      /\ \A q \in Operations : q \in Requests /\ ~InFlight(q)' /\ ~Ending(q)'
                               /\ req'[q].pc \notin {"sent", "answered", "trans"}
      /\ ~Operating'
      /\ \A q \in Edits : q \in Requests /\ req'[q] = req[q] /\ (InFlight(q)' <=> InFlight(q))
      /\ \A q \in Requests : req'[q].pc = "trans" => q \in R
      /\ req'["query"] = req["query"] \/ (~InFlight("query") /\ req'["query"].pc = "trans")
  <2>1. Operating /\ cached /\ ~Opening /\ InFlight(r)
    BY <1>1 DEF OperationInv, PendingInv, Operating, InFlight, Ending
  <2>2. \A q \in Operations \ {r} : ~InFlight(q)
    BY <1>0, <2>1 DEF OperationInv
  <2>3. \A q \in Requests : req[q].pc # "trans"
    BY <2>1 DEF Internal, CanGetTransaction
  <2>4. \A q \in Operations : q \in Requests /\ ~InFlight(q)' /\ ~Ending(q)'
                               /\ req'[q].pc \notin {"sent", "answered", "trans"}
    <3>1. \A q \in Operations : q \in Requests \ R /\ q \in Requests
      BY <1>0, Names
    <3> QED BY <1>0, <1>2, <1>3, <2>2, <3>1 DEF InFlight, Ending
  <2>5. \A q \in Edits : q \in Requests /\ req'[q] = req[q] /\ (InFlight(q)' <=> InFlight(q))
    <3>1. \A q \in Edits : q \in Requests \ R /\ q \in Requests /\ q # r
      BY <1>0, Names
    <3> QED BY <1>2, <1>3, <3>1 DEF InFlight
  <2>6. \A q \in Requests : req'[q].pc = "trans" => q \in R
    BY <1>2, <1>3, <2>3
  <2>7. req'["query"] = req["query"] \/ (~InFlight("query") /\ req'["query"].pc = "trans")
    BY <1>0, <1>2, <1>3
  <2> QED BY <1>1, <2>1, <2>4, <2>5, <2>6, <2>7 DEF W, Opening, Operating
<1>5. ~Awaiting(Edits) /\ ~Awaiting(Edits)'
      /\ \A g \in Gestures : gesture[g] = "first" => g.then = {}
  BY <1>4 DEF OperationInv, GestureInv, Awaiting
<1>6. /\ hasWriteTransaction' = FALSE /\ commitInProgress' = FALSE
  BY <1>0, <1>1, <1>4 DEF Fulfilled, FlagInv, OperationInv, TypeOK, InFlight
<1>7. TypeOK'
  <2>1. \A q \in Requests : req'[q].pc = "sent" => req'[q].th # NoTh
    BY <1>2, <1>3 DEF TypeOK
  <2> QED BY <1>1, <1>3, <1>6, <2>1 DEF TypeOK, RequestType
<1>8. RequestInv'
  <2>1. ASSUME NEW q \in Requests, InFlight(q)'
        PROVE  /\ req'[q].method = MethodOf(q) \/ (q = "apply" /\ req'[q].method = "commit")
               /\ req'[q].pc # "answered" => req'[q].answer = "none"
               /\ req'[q].pc = "new" => q \in Edits \cup {"query"}
    <3>1. CASE q \in R
      BY <1>3, <3>1
    <3>2. CASE q \notin R
      <4>1. q # r /\ req'[q] = req[q]
        BY <1>0, <1>2, <1>3, <2>1, <3>2 DEF InFlight
      <4> QED BY <2>1, <4>1 DEF RequestInv, InFlight
    <3> QED BY <3>1, <3>2
  <2>2. \A e \in Edits : req'[e].pc = "answered" => req'[e].answer # "none"
    BY <1>4 DEF RequestInv
  <2>3. req'["query"].pc \in {"idle", "trans", "new"}
    BY <1>4 DEF RequestInv
  <2>4. "revert" \in Operations
    BY <1>0
  <2> QED BY <1>4, <2>1, <2>2, <2>3, <2>4 DEF RequestInv
<1>9. PathInv' /\ ScenarioInv' /\ OpenInv'
  BY <1>1, <1>3, <1>4 DEF PathInv, ScenarioInv, OpenInv
<1>10. FateInv'
  BY <1>1, <1>4, GestureEdits DEF FateInv, Underway
<1>11. CacheInv' /\ KnownInv'
  <2>1. \A q \in Requests : req'[q].pc = "trans" => fetch'.state # "none"
    BY <1>3, <1>4
  <2> QED BY <1>1, <1>3, <2>1 DEF CacheInv, KnownInv, Right
<1>12. PendingInv'
  BY <1>1, <1>4 DEF PendingInv, InFlight
<1>13. GestureInv' /\ OperationInv' /\ CoveredInv'
  BY <1>0, <1>1, <1>4, <1>5 DEF GestureInv, OperationInv, CoveredInv
<1>14. FlagInv'
  <2>1. page' = "here" => req[r].answer = "ok"
    BY <1>1
  <2>2. req[r].answer = "ok" => W = {}
    BY <1>1 DEF OperationInv
  <2> QED BY <1>4, <1>6, <2>1, <2>2 DEF FlagInv
<1>15. AwayInv'
  BY <1>0, <1>1 DEF AwayInv, NoRequest
<1> QED BY <1>7, <1>8, <1>9, <1>10, <1>11, <1>12, <1>13, <1>14, <1>15

------------------------------------------------------------------------------
(* The user.                                                                 *)

\* Edits start: those of a gesture, which were new.
LEMMA StartEdits ==
  ASSUME Considerate, EditingInv, NEW R \in SUBSET Edits, Start(R, req, cached, subscribed, fetch),
         \A e \in R : fate[e] = "new" /\ ~InFlight(e),
         R # {} => ~Operating /\ ~Awaiting({"query"}),
         UNCHANGED <<open, opened, fate, trans, cached, pendingTrans, hasWriteTransaction,
                     commitInProgress, visits, covered>>,
         page' = page \/ page' = "leaving",
         page = "away" => R = {}
  PROVE  /\ RequestInv' /\ PathInv' /\ OpenInv' /\ CacheInv' /\ KnownInv' /\ PendingInv'
         /\ OperationInv' /\ FlagInv' /\ CoveredInv'
         /\ gesture' \in [Gestures -> {"ready", "first", "then", "done"}] => TypeOK'
         /\ \A e \in R : Underway(e)' /\ InFlight(e)'
         /\ \A e \in Edits \ R : (Underway(e)' <=> Underway(e)) /\ (InFlight(e)' <=> InFlight(e))
         /\ Operating' = Operating /\ Awaiting({"query"})' = Awaiting({"query"})
         /\ Awaiting(Edits)' <=> (Awaiting(Edits) \/ R # {})
         /\ page = "away" => \A r \in Requests : req'[r] = req[r]
         /\ R = {} => fetch' = fetch
<1> USE DEF EditingInv
<1>0. /\ R \in SUBSET Requests /\ R \subseteq Edits
      /\ \A e \in R : e \notin Operations /\ e # "query" /\ e # "changes" /\ e \in Requests
      /\ \A e \in Edits : e \in Requests
      /\ \A r \in Operations : r \in Requests \ R /\ r \in Requests
      /\ "query" \in Requests \ R /\ "query" \in Requests
      /\ req \in [Requests -> RequestType]
      /\ \A e \in R : MethodOf(e) = "set_value"
  BY Names DEF TypeOK, RequestType
<1>1. /\ req' \in [Requests -> RequestType]
      /\ \A q \in R : /\ req'[q].pc = "trans" /\ req'[q].method = MethodOf(q)
                      /\ req'[q].answer = "none" /\ req'[q].th = NoTh
      /\ \A q \in Requests \ R : req'[q] = req[q]
      /\ subscribed' \in BOOLEAN /\ (subscribed => subscribed')
      /\ fetch' \in [state: {"none", "asked", "answered"}, list: SUBSET Known]
      /\ fetch' = fetch \/ (fetch'.state = "asked" /\ fetch'.list = {})
      /\ cached => fetch' = fetch
      /\ fetch.state # "none" => fetch' = fetch
      /\ R = {} => fetch' = fetch
      /\ R # {} => cached \/ fetch'.state # "none"
  BY <1>0, StartIs
<1>2. /\ W' = W /\ Opening' = Opening
      /\ \A e \in R : Underway(e)' /\ InFlight(e)'
      /\ \A e \in Edits \ R : req'[e] = req[e]
      /\ \A e \in Edits \ R : (Underway(e)' <=> Underway(e)) /\ (InFlight(e)' <=> InFlight(e))
      /\ \A r \in Operations : req'[r] = req[r] /\ (Ending(r)' <=> Ending(r))
                               /\ (InFlight(r)' <=> InFlight(r))
      /\ req'["query"] = req["query"]
      /\ \A r \in Requests : req'[r].pc = "trans" <=> (req[r].pc = "trans" \/ r \in R)
  BY <1>0, <1>1 DEF W, Opening, Underway, InFlight, Ending
<1>3. /\ Operating' = Operating /\ Awaiting({"query"})' = Awaiting({"query"})
      /\ Awaiting(Edits)' <=> (Awaiting(Edits) \/ R # {})
  <2>1. Operating' = Operating /\ Awaiting({"query"})' = Awaiting({"query"})
    BY <1>2 DEF Operating, Awaiting
  <2>2. Awaiting(Edits)' => (Awaiting(Edits) \/ R # {})
    BY <1>2 DEF Awaiting
  <2>3. Awaiting(Edits) => Awaiting(Edits)'
    BY <1>0, <1>1, <1>2 DEF Awaiting
  <2>4. R # {} => Awaiting(Edits)'
    BY <1>0, <1>1 DEF Awaiting
  <2> QED BY <2>1, <2>2, <2>3, <2>4
<1>4. ASSUME gesture' \in [Gestures -> {"ready", "first", "then", "done"}]
      PROVE  TypeOK'
  <2>1. \A r \in Requests : req'[r].pc = "sent" => req'[r].th # NoTh
    BY <1>1 DEF TypeOK
  <2>2. page' \in {"here", "leaving", "away"}
    BY DEF TypeOK
  <2> QED BY <1>1, <1>4, <2>1, <2>2 DEF TypeOK, RequestType
<1>5. RequestInv'
  <2>1. ASSUME NEW q \in Requests, InFlight(q)'
        PROVE  /\ req'[q].method = MethodOf(q) \/ (q = "apply" /\ req'[q].method = "commit")
               /\ req'[q].pc # "answered" => req'[q].answer = "none"
               /\ req'[q].pc = "new" => q \in Edits \cup {"query"}
    <3>1. CASE q \in R
      BY <1>1, <3>1
    <3>2. CASE q \notin R
      <4>1. req'[q] = req[q]
        BY <1>1, <3>2
      <4> QED BY <2>1, <4>1 DEF RequestInv, InFlight
    <3> QED BY <3>1, <3>2
  <2>2. \A e \in Edits : req'[e].pc = "answered" => req'[e].answer # "none"
    BY <1>1, <1>2 DEF RequestInv
  <2>3. "revert" \in Operations
    BY Names
  <2> QED BY <1>2, <2>1, <2>2, <2>3 DEF RequestInv
<1>6. PathInv' /\ OpenInv' /\ CoveredInv'
  <2>1. "apply" \in Operations
    BY Names
  <2> QED BY <1>1, <1>2, <2>1 DEF PathInv, OpenInv, CoveredInv
<1>7. CacheInv' /\ KnownInv'
  BY <1>1, <1>2 DEF CacheInv, KnownInv, Right
<1>8. PendingInv'
  <2>1. \A e \in Edits : req'[e].pc = "new" <=> req[e].pc = "new"
    BY <1>1, <1>2 DEF InFlight
  <2> QED BY <1>2, <1>3, <2>1 DEF PendingInv
<1>9. OperationInv'
  <2>1. "apply" \in Operations /\ "revert" \in Operations
    BY Names
  <2> QED BY <1>1, <1>2, <1>3, <2>1 DEF OperationInv
<1>10. FlagInv'
  <2>1. "apply" \in Operations /\ "revert" \in Operations
    BY Names
  <2> QED BY <1>2, <2>1 DEF FlagInv
<1> QED BY <1>1, <1>2, <1>3, <1>4, <1>5, <1>6, <1>7, <1>8, <1>9, <1>10

\* Gestures of one session have no edit in common.
LEMMA Disjoint ==
  ASSUME Considerate, EditingInv, NEW g \in Gestures, gesture[g] # "done"
  PROVE  /\ g.first \cap g.then = {} /\ Uses(g) \cap ActionEdits = {}
         /\ \A h \in Gestures : h # g /\ gesture[h] # "done" => Uses(g) \cap Uses(h) = {}
<1>1. PICK S \in Scenarios :
        Edit(S) /\ \A h \in Gestures : gesture[h] # "done" => h \in S
  BY DEF EditingInv, ScenarioInv
<1> QED BY <1>1 DEF Considerate, Edit

\* A gesture begins when no operation is in flight, and no query awaits.
LEMMA BeginGestureStep ==
  ASSUME Considerate, EditingInv, NEW g \in Gestures, BeginGesture(g)
  PROVE  EditingInv'
<1> USE DEF EditingInv, server, user, flags, cache
<1>1. /\ gesture[g] = "ready" /\ page = "here"
      /\ gesture' = [gesture EXCEPT ![g] = "first"]
      /\ Start(g.first, req, cached, subscribed, fetch)
      /\ page' \in {page, "leaving"}
      /\ UNCHANGED <<open, opened, fate, trans, cached, pendingTrans, hasWriteTransaction,
                     commitInProgress, visits, covered>>
  BY DEF BeginGesture, Quiet
<1>2. ~Operating /\ ~Awaiting({"query"})
  <2>1. {e \in Edits : g.first \cap ActionEdits # {}} = {}
    BY <1>1, Disjoint DEF Uses
  <2>2. ~Awaiting({"query"} \cup {e \in Edits : g.first \cap ActionEdits # {}})
    BY DEF BeginGesture, Considerate
  <2>3. {r \in Operations : InFlight(r)} \subseteq {}
    BY DEF BeginGesture, Considerate
  <2> QED BY <2>1, <2>2, <2>3 DEF Operating
<1>3. /\ g.first \in SUBSET Edits /\ g.then \subseteq Edits
      /\ \A e \in g.first : fate[e] = "new" /\ ~InFlight(e)
      /\ \A e \in g.then : fate[e] = "new" /\ ~InFlight(e) /\ e \notin g.first
      /\ \A h \in Gestures : h # g /\ gesture[h] # "done" =>
           \A e \in Uses(h) : e \in Edits /\ e \notin g.first
      /\ \A h \in Gestures \ {g} : gesture'[h] = gesture[h]
      /\ gesture'[g] = "first"
      /\ gesture' \in [Gestures -> {"ready", "first", "then", "done"}]
  BY <1>1, GestureEdits, Disjoint DEF FateInv, Uses, TypeOK
<1>4. /\ RequestInv' /\ PathInv' /\ OpenInv' /\ CacheInv' /\ KnownInv' /\ PendingInv'
      /\ OperationInv' /\ FlagInv' /\ CoveredInv' /\ TypeOK'
      /\ \A e \in g.first : Underway(e)' /\ InFlight(e)'
      /\ \A e \in Edits \ g.first : (Underway(e)' <=> Underway(e)) /\ (InFlight(e)' <=> InFlight(e))
      /\ Operating' = Operating /\ Awaiting({"query"})' = Awaiting({"query"})
      /\ Awaiting(Edits)' <=> (Awaiting(Edits) \/ g.first # {})
  BY <1>1, <1>2, <1>3, StartEdits
<1>5. FateInv'
  <2>1. \A e \in Edits : Underway(e)' => fate'[e] = "new"
    BY <1>1, <1>3, <1>4 DEF FateInv
  <2>2. ASSUME NEW h \in Gestures
        PROVE  /\ gesture'[h] = "ready" => \A e \in Uses(h) : fate'[e] = "new" /\ ~InFlight(e)'
               /\ gesture'[h] = "first" =>
                    /\ \A e \in h.then : fate'[e] = "new" /\ ~InFlight(e)'
                    /\ \A e \in h.first : fate'[e] = "new" => Underway(e)'
               /\ gesture'[h] = "then" =>
                    /\ \A e \in h.first : fate'[e] # "new"
                    /\ \A e \in h.then : fate'[e] = "new" => Underway(e)'
    <3>1. CASE h = g
      BY <1>1, <1>3, <1>4, <3>1
    <3>2. CASE h # g
      BY <1>1, <1>3, <1>4, <3>2, GestureEdits DEF FateInv, Uses
    <3> QED BY <3>1, <3>2
  <2> QED BY <2>1, <2>2 DEF FateInv
<1>6. ScenarioInv'
  BY <1>1, <1>3 DEF ScenarioInv
<1>7. GestureInv'
  <2>1. Awaiting(Edits)' => ~Awaiting({"query"})'
    BY <1>2, <1>4
  <2>2. ASSUME NEW h \in Gestures, gesture'[h] = "first", h.then # {}
        PROVE  /\ ~Awaiting({"query"})' /\ ~Operating'
               /\ (\E e \in h.first : InFlight(e)') => trans' # {} \/ Awaiting(Edits)'
    <3>1. CASE g.first # {}
      BY <1>2, <1>4, <3>1
    <3>2. CASE g.first = {} /\ h # g
      BY <1>1, <1>2, <1>3, <1>4, <2>2, <3>2, GestureEdits DEF GestureInv
    <3>3. CASE g.first = {} /\ h = g
      BY <1>2, <1>4, <3>3
    <3> QED BY <3>1, <3>2, <3>3
  <2> QED BY <2>1, <2>2 DEF GestureInv
<1>8. AwayInv'
  BY <1>1 DEF AwayInv
<1> QED BY <1>4, <1>5, <1>6, <1>7, <1>8

\* The defaults find the transaction of the first edits, or await one.
LEMMA DefaultsStep ==
  ASSUME Considerate, EditingInv, NEW g \in Gestures, Defaults(g)
  PROVE  EditingInv'
<1> USE DEF EditingInv, server, user, flags, cache
<1>1. /\ gesture[g] = "first" /\ \A e \in g.first : ~InFlight(e)
      /\ gesture' = [gesture EXCEPT ![g] = "then"]
      /\ Start(g.then, req, cached, subscribed, fetch)
      /\ UNCHANGED <<open, opened, fate, trans, cached, pendingTrans, hasWriteTransaction,
                     commitInProgress, page, visits, covered>>
  BY DEF Defaults
<1>2. page # "away" /\ (g.then # {} => ~Operating /\ ~Awaiting({"query"}))
  BY <1>1 DEF GestureInv, AwayInv
<1>3. /\ g.then \in SUBSET Edits /\ g.first \subseteq Edits
      /\ \A e \in g.then : fate[e] = "new" /\ ~InFlight(e)
      /\ \A e \in g.first : fate[e] # "new"
      /\ \A h \in Gestures : h # g /\ gesture[h] # "done" =>
           \A e \in Uses(h) : e \in Edits /\ e \notin g.then
      /\ \A h \in Gestures \ {g} : gesture'[h] = gesture[h]
      /\ gesture'[g] = "then"
      /\ gesture' \in [Gestures -> {"ready", "first", "then", "done"}]
  <2>1. \A e \in g.first : ~Underway(e)
    BY <1>1 DEF Underway, InFlight
  <2> QED BY <1>1, <2>1, GestureEdits, Disjoint DEF FateInv, Uses, TypeOK
<1>4. /\ RequestInv' /\ PathInv' /\ OpenInv' /\ CacheInv' /\ KnownInv' /\ PendingInv'
      /\ OperationInv' /\ FlagInv' /\ CoveredInv' /\ TypeOK'
      /\ \A e \in g.then : Underway(e)' /\ InFlight(e)'
      /\ \A e \in Edits \ g.then : (Underway(e)' <=> Underway(e)) /\ (InFlight(e)' <=> InFlight(e))
      /\ Operating' = Operating /\ Awaiting({"query"})' = Awaiting({"query"})
      /\ Awaiting(Edits)' <=> (Awaiting(Edits) \/ g.then # {})
  BY <1>1, <1>2, <1>3, StartEdits
<1>5. FateInv'
  <2>1. \A e \in Edits : Underway(e)' => fate'[e] = "new"
    BY <1>1, <1>3, <1>4 DEF FateInv
  <2>2. ASSUME NEW h \in Gestures
        PROVE  /\ gesture'[h] = "ready" => \A e \in Uses(h) : fate'[e] = "new" /\ ~InFlight(e)'
               /\ gesture'[h] = "first" =>
                    /\ \A e \in h.then : fate'[e] = "new" /\ ~InFlight(e)'
                    /\ \A e \in h.first : fate'[e] = "new" => Underway(e)'
               /\ gesture'[h] = "then" =>
                    /\ \A e \in h.first : fate'[e] # "new"
                    /\ \A e \in h.then : fate'[e] = "new" => Underway(e)'
    <3>1. CASE h = g
      BY <1>1, <1>3, <1>4, <3>1
    <3>2. CASE h # g
      BY <1>1, <1>3, <1>4, <3>2, GestureEdits DEF FateInv, Uses
    <3> QED BY <3>1, <3>2
  <2> QED BY <2>1, <2>2 DEF FateInv
<1>6. ScenarioInv'
  BY <1>1, <1>3 DEF ScenarioInv
<1>7. GestureInv'
  <2>1. Awaiting(Edits)' => ~Awaiting({"query"})'
    BY <1>2, <1>4 DEF GestureInv
  <2>2. ASSUME NEW h \in Gestures, gesture'[h] = "first", h.then # {}
        PROVE  /\ ~Awaiting({"query"})' /\ ~Operating'
               /\ (\E e \in h.first : InFlight(e)') => trans' # {} \/ Awaiting(Edits)'
    <3>1. h # g
      BY <1>3, <2>2
    <3> QED BY <1>1, <1>2, <1>3, <1>4, <2>2, <3>1, GestureEdits DEF GestureInv
  <2> QED BY <2>1, <2>2 DEF GestureInv
<1>8. AwayInv'
  BY <1>1, <1>2 DEF AwayInv
<1> QED BY <1>4, <1>5, <1>6, <1>7, <1>8

\* The end of a gesture only ends it.
LEMMA EndGestureStep ==
  ASSUME Considerate, EditingInv, NEW g \in Gestures, EndGesture(g)
  PROVE  EditingInv'
<1> USE DEF EditingInv, server, user, flags, cache
<1>1. /\ gesture[g] = "then" /\ page' \in {page, "leaving"}
      /\ gesture' = [gesture EXCEPT ![g] = "done"]
      /\ UNCHANGED <<open, opened, fate, trans, cached, subscribed, fetch, pendingTrans, req,
                     hasWriteTransaction, commitInProgress, visits, covered>>
  BY DEF EndGesture
<1>2. page # "away"
  BY <1>1 DEF AwayInv
<1>3. /\ \A h \in Gestures \ {g} : gesture'[h] = gesture[h]
      /\ gesture'[g] = "done"
      /\ gesture' \in [Gestures -> {"ready", "first", "then", "done"}]
  BY <1>1 DEF TypeOK
<1>4. /\ W' = W /\ Opening' = Opening /\ Operating' = Operating
      /\ \A r \in Requests : (InFlight(r)' <=> InFlight(r)) /\ (Ending(r)' <=> Ending(r))
                             /\ (Underway(r)' <=> Underway(r))
      /\ Awaiting(Edits)' = Awaiting(Edits) /\ Awaiting({"query"})' = Awaiting({"query"})
  BY <1>1 DEF W, Opening, Operating, InFlight, Ending, Underway, Awaiting
<1>5. TypeOK'
  BY <1>1, <1>3 DEF TypeOK
<1>6. PathInv' /\ RequestInv' /\ OpenInv'
  BY <1>1, <1>4, Names DEF PathInv, RequestInv, OpenInv
<1>7. FateInv'
  BY <1>1, <1>3, <1>4, Names, GestureEdits DEF FateInv
<1>8. ScenarioInv'
  BY <1>3 DEF ScenarioInv
<1>9. CacheInv' /\ KnownInv' /\ PendingInv'
  BY <1>1, <1>4, Names DEF CacheInv, KnownInv, PendingInv, Right
<1>10. GestureInv'
  BY <1>1, <1>3, <1>4, Names, GestureEdits DEF GestureInv
<1>11. OperationInv' /\ FlagInv' /\ CoveredInv' /\ AwayInv'
  BY <1>1, <1>2, <1>4, Names DEF OperationInv, FlagInv, CoveredInv, AwayInv
<1> QED BY <1>5, <1>6, <1>7, <1>8, <1>9, <1>10, <1>11

\* Who presses a button finds the write transaction cached, and no edit that
\* awaits one.
LEMMA Pressed ==
  ASSUME Considerate, EditingInv, NoForms, NEW r \in Operations, Press(r)
  PROVE  /\ ~Operating /\ page = "here" /\ hasWriteTransaction /\ cached /\ RW(trans) # {}
         /\ ~Awaiting(Edits) /\ ~Opening
         /\ \A g \in Gestures : gesture[g] = "first" => g.then = {}
         /\ Start({r}, req, cached, subscribed, fetch)
         /\ covered' = {e \in Edits : fate[e] = "open"}
         /\ commitInProgress' = (r = "apply")
         /\ UNCHANGED <<open, opened, fate, trans, cached, pendingTrans, hasWriteTransaction,
                        gesture, page, visits>>
<1>1. ~Operating /\ page = "here" /\ hasWriteTransaction /\ ~Internal
  BY DEF Press, Quiet, Operating
<1>2. \A o \in Operations : ~Ending(o)
  BY <1>1 DEF Operating, InFlight, Ending
<1>3. RW(trans) # {}
  BY <1>1, <1>2 DEF EditingInv, FlagInv
<1>4. cached
  BY <1>3 DEF EditingInv, CacheInv, RW
<1>5. ~Opening
  BY <1>3 DEF EditingInv, PendingInv
<1>6. ~Awaiting(Edits)
  <2>1. \A e \in Edits : e \in Requests
    BY Names
  <2>2. \A e \in Edits : req[e].pc # "trans"
    BY <1>1, <1>4, <2>1 DEF Internal, CanGetTransaction
  <2>3. \A e \in Edits : req[e].pc # "new"
    BY <1>5 DEF EditingInv, PendingInv
  <2> QED BY <2>2, <2>3 DEF Awaiting
<1>7. \A g \in Gestures : gesture[g] = "first" => g.then = {}
  BY DEF Press, Considerate
<1>8. covered' = {e \in Edits : fate[e] = "open"}
  BY DEF Press, NoForms, actionPath
<1> QED BY <1>1, <1>3, <1>4, <1>5, <1>6, <1>7, <1>8 DEF Press, server, user

\* The operation finds the write transaction, which covers the open edits.
LEMMA PressStep ==
  ASSUME Considerate, EditingInv, NoForms, NEW r \in Operations, Press(r)
  PROVE  EditingInv'
<1> USE DEF EditingInv
<1>0. /\ r \in Requests /\ {r} \in SUBSET Requests /\ Operations = {"revert", "apply"}
      /\ \A e \in Edits : e \in Requests \ {r} /\ e \in Requests
      /\ "query" \in Requests \ {r} /\ "query" \in Requests
      /\ req \in [Requests -> RequestType]
      /\ r = "apply" => MethodOf(r) = "validate_commit"
      /\ r = "revert" => MethodOf(r) = "delete_trans"
  BY Names DEF TypeOK, RequestType
<1>1. /\ ~Operating /\ page = "here" /\ hasWriteTransaction /\ cached /\ RW(trans) # {}
      /\ ~Awaiting(Edits) /\ ~Opening
      /\ \A g \in Gestures : gesture[g] = "first" => g.then = {}
      /\ covered' = {e \in Edits : fate[e] = "open"}
      /\ commitInProgress' = (r = "apply")
      /\ UNCHANGED <<open, opened, fate, trans, cached, pendingTrans, hasWriteTransaction,
                     gesture, page, visits>>
  BY Pressed
<1>2. /\ req' \in [Requests -> RequestType]
      /\ req'[r].pc = "trans" /\ req'[r].method = MethodOf(r) /\ req'[r].answer = "none"
      /\ \A q \in Requests \ {r} : req'[q] = req[q]
      /\ subscribed' = TRUE /\ fetch' = fetch
  <2>1. Start({r}, req, cached, subscribed, fetch)
    BY Pressed
  <2> QED BY <1>0, <1>1, <2>1, StartIs
<1>3. /\ W' = W /\ Opening' = Opening /\ Operating'
      /\ InFlight(r)' /\ ~Ending(r)'
      /\ \A q \in Operations \ {r} : ~InFlight(q)' /\ ~Ending(q)' /\ req'[q] = req[q]
      /\ \A q \in Operations : ~InFlight(q) /\ ~Ending(q) /\ req[q].pc # "trans"
      /\ \A e \in Edits : req'[e] = req[e]
      /\ req'["query"] = req["query"]
      /\ \A q \in Requests : req'[q].pc = "trans" <=> (req[q].pc = "trans" \/ q = r)
  <2>1. W' = W /\ Opening' = Opening
    BY <1>1 DEF W, Opening
  <2>2. Operating' /\ InFlight(r)' /\ ~Ending(r)'
    BY <1>2 DEF Operating, InFlight, Ending
  <2>3. \A q \in Operations : ~InFlight(q) /\ ~Ending(q) /\ req[q].pc # "trans"
    BY <1>1 DEF Operating, InFlight, Ending
  <2>4. \A q \in Operations \ {r} : req'[q] = req[q]
    BY <1>2, Names
  <2>5. \A q \in Operations \ {r} : ~InFlight(q)' /\ ~Ending(q)'
    BY <2>3, <2>4 DEF InFlight, Ending
  <2>6. /\ \A e \in Edits : req'[e] = req[e]
        /\ req'["query"] = req["query"]
        /\ \A q \in Requests : req'[q].pc = "trans" <=> (req[q].pc = "trans" \/ q = r)
    BY <1>0, <1>2
  <2> QED BY <2>1, <2>2, <2>3, <2>4, <2>5, <2>6
<1>4. ~Awaiting(Edits)'
  BY <1>1, <1>3 DEF Awaiting
<1>5. TypeOK'
  <2>1. \A q \in Requests : req'[q].pc = "sent" => req'[q].th # NoTh
    BY <1>2 DEF TypeOK
  <2>2. covered' \subseteq Edits /\ commitInProgress' \in BOOLEAN
    BY <1>1
  <2> QED BY <1>1, <1>2, <2>1, <2>2 DEF TypeOK, RequestType
<1>6. RequestInv'
  <2>1. ASSUME NEW q \in Requests, InFlight(q)'
        PROVE  /\ req'[q].method = MethodOf(q) \/ (q = "apply" /\ req'[q].method = "commit")
               /\ req'[q].pc # "answered" => req'[q].answer = "none"
               /\ req'[q].pc = "new" => q \in Edits \cup {"query"}
    <3>1. CASE q = r
      BY <1>2, <3>1
    <3>2. CASE q # r
      <4>1. req'[q] = req[q]
        BY <1>2, <3>2
      <4> QED BY <2>1, <4>1 DEF RequestInv, InFlight
    <3> QED BY <3>1, <3>2
  <2>2. \A q \in Operations : req'[q].pc # "answered"
    BY <1>2, <1>3 DEF InFlight
  <2>3. "revert" \in Operations
    BY <1>0
  <2> QED BY <1>3, <2>1, <2>2, <2>3 DEF RequestInv
<1>7. PathInv' /\ ScenarioInv' /\ OpenInv'
  BY <1>1, <1>2, <1>3 DEF PathInv, ScenarioInv, OpenInv
<1>8. FateInv'
  <2>1. \A e \in Edits : (InFlight(e)' <=> InFlight(e)) /\ (Underway(e)' <=> Underway(e))
    BY <1>3 DEF InFlight, Underway
  <2> QED BY <1>1, <2>1, GestureEdits DEF FateInv
<1>9. CacheInv' /\ KnownInv' /\ PendingInv'
  BY <1>1, <1>2, <1>3 DEF CacheInv, KnownInv, PendingInv, Right
<1>10. GestureInv' /\ CoveredInv'
  <2>1. req'[r].answer # "ok"
    BY <1>2
  <2> QED BY <1>1, <1>3, <1>4, <2>1 DEF GestureInv, CoveredInv
<1>11. OperationInv'
  <2>1. ~(InFlight("apply")' /\ InFlight("revert")')
    BY <1>0, <1>3
  <2>2. \A q \in Operations : req'[q].pc # "sent"
    BY <1>2, <1>3 DEF InFlight
  <2> QED BY <1>0, <1>1, <1>2, <1>3, <1>4, <2>1, <2>2 DEF OperationInv, RW
<1>12. FlagInv'
  BY <1>0, <1>1, <1>3 DEF FlagInv, RW
<1>13. AwayInv'
  BY <1>1 DEF AwayInv
<1> QED BY <1>5, <1>6, <1>7, <1>8, <1>9, <1>10, <1>11, <1>12, <1>13

\* Queries start, when no edit awaits a transaction or is to follow soon.
LEMMA StartReads ==
  ASSUME Considerate, EditingInv, NEW R \in SUBSET {"query", "changes"},
         Start(R, req, cached, subscribed, fetch),
         \A r \in R : ~InFlight(r),
         ~Awaiting(Edits), \A g \in Gestures : gesture[g] = "first" => g.then = {},
         UNCHANGED <<open, opened, fate, trans, cached, pendingTrans, hasWriteTransaction,
                     commitInProgress, gesture, covered>>,
         page' = "here", page = "here" \/ R # {}, visits' \in 0..MaxVisits
  PROVE  EditingInv'
<1> USE DEF EditingInv
<1>0. /\ R \in SUBSET Requests
      /\ \A e \in Edits : e \in Requests \ R /\ e \in Requests
      /\ \A r \in Operations : r \in Requests \ R /\ r \in Requests
      /\ "query" \in Requests
      /\ req \in [Requests -> RequestType]
      /\ Operations = {"revert", "apply"}
  BY Names DEF TypeOK, RequestType
<1>1. /\ req' \in [Requests -> RequestType]
      /\ \A q \in R : /\ req'[q].pc = "trans" /\ req'[q].method = MethodOf(q)
                      /\ req'[q].answer = "none" /\ req'[q].th = NoTh
      /\ \A q \in Requests \ R : req'[q] = req[q]
      /\ subscribed' \in BOOLEAN /\ (subscribed => subscribed')
      /\ fetch' \in [state: {"none", "asked", "answered"}, list: SUBSET Known]
      /\ fetch' = fetch \/ (fetch'.state = "asked" /\ fetch'.list = {})
      /\ cached => fetch' = fetch
      /\ fetch.state # "none" => fetch' = fetch
      /\ R # {} => cached \/ fetch'.state # "none"
  <2>1. TypeOK /\ R \in SUBSET Requests /\ req \in [Requests -> RequestType]
    BY <1>0
  <2> HIDE DEF EditingInv
  <2> QED BY <2>1, StartIs
<1>2. /\ W' = W /\ Opening' = Opening
      /\ \A e \in Edits : req'[e] = req[e]
      /\ \A r \in Operations : req'[r] = req[r]
      /\ \A r \in Requests : req'[r].pc = "trans" <=> (req[r].pc = "trans" \/ r \in R)
      /\ req'["query"] = req["query"] \/ (req'["query"].pc = "trans" /\ ~InFlight("query"))
  BY <1>0, <1>1 DEF W, Opening
<1>3. /\ \A e \in Edits : (Underway(e)' <=> Underway(e)) /\ (InFlight(e)' <=> InFlight(e))
      /\ \A r \in Operations : (Ending(r)' <=> Ending(r)) /\ (InFlight(r)' <=> InFlight(r))
      /\ Operating' = Operating /\ ~Awaiting(Edits)'
  BY <1>2 DEF Underway, InFlight, Ending, Operating, Awaiting
<1>4. TypeOK'
  <2>1. \A r \in Requests : req'[r].pc = "sent" => req'[r].th # NoTh
    <3>1. ASSUME NEW r \in Requests, req'[r].pc = "sent" PROVE r \notin R
      BY <1>1, <3>1
    <3> QED BY <1>1, <3>1 DEF TypeOK
  <2> QED BY <1>1, <2>1 DEF TypeOK, RequestType
<1>5. RequestInv'
  <2>1. ASSUME NEW q \in Requests, InFlight(q)'
        PROVE  /\ req'[q].method = MethodOf(q) \/ (q = "apply" /\ req'[q].method = "commit")
               /\ req'[q].pc # "answered" => req'[q].answer = "none"
               /\ req'[q].pc = "new" => q \in Edits \cup {"query"}
    <3>1. CASE q \in R
      BY <1>1, <3>1
    <3>2. CASE q \notin R
      <4>1. req'[q] = req[q]
        BY <1>1, <3>2
      <4> QED BY <2>1, <4>1 DEF RequestInv, InFlight
    <3> QED BY <3>1, <3>2
  <2>2. \A e \in Edits : req'[e].pc = "answered" => req'[e].answer # "none"
    BY <1>2 DEF RequestInv
  <2>3. "revert" \in Operations
    BY <1>0
  <2>4. req'["query"].pc \in {"idle", "trans", "new"}
    BY <1>2 DEF RequestInv
  <2> QED BY <1>2, <2>1, <2>2, <2>3, <2>4 DEF RequestInv
<1>6. PathInv' /\ ScenarioInv' /\ OpenInv'
  BY <1>1, <1>2 DEF PathInv, ScenarioInv, OpenInv
<1>7. FateInv'
  BY <1>3, GestureEdits DEF FateInv
<1>8. CacheInv' /\ KnownInv'
  BY <1>1, <1>2, <1>3 DEF CacheInv, KnownInv, Right
<1>9. PendingInv'
  BY <1>2, <1>3 DEF PendingInv, InFlight
<1>10. GestureInv' /\ CoveredInv'
  BY <1>2, <1>3 DEF GestureInv, CoveredInv
<1>11. OperationInv'
  BY <1>0, <1>1, <1>2, <1>3 DEF OperationInv
<1>12. FlagInv'
  BY <1>0, <1>1, <1>2, <1>3 DEF FlagInv
<1>13. AwayInv'
  BY DEF AwayInv
<1> QED BY <1>4, <1>5, <1>6, <1>7, <1>8, <1>9, <1>10, <1>11, <1>12, <1>13

\* A page that is loaded knows nothing, and asks.
LEMMA LoadStep ==
  ASSUME Considerate, EditingInv, Load
  PROVE  EditingInv'
<1> USE DEF EditingInv, server, flags
<1>1. /\ page = "away" /\ page' = "here"
      /\ Start({"query", "changes"}, req, cached, subscribed, fetch)
      /\ UNCHANGED <<open, opened, fate, trans, cached, pendingTrans, hasWriteTransaction,
                     commitInProgress, gesture, covered>>
  BY DEF Load
<1>2. visits' \in 0..MaxVisits
  BY JsonRpcTransactionsAssumption DEF Load, TypeOK
<1>3. \A r \in Requests : req[r].pc = "idle"
  BY <1>1 DEF AwayInv, NoRequest
<1>4. /\ \A r \in {"query", "changes"} : ~InFlight(r)
      /\ ~Awaiting(Edits)
  BY <1>3, Names DEF InFlight, Awaiting
<1>5. \A g \in Gestures : gesture[g] # "first"
  BY <1>1 DEF AwayInv
<1> QED BY <1>1, <1>2, <1>4, <1>5, StartReads

\* A query finds a transaction, or starts when no edit awaits one.
LEMMA RefreshStep ==
  ASSUME Considerate, EditingInv, Refresh
  PROVE  EditingInv'
<1> USE DEF EditingInv, server, user, flags, cache
<1>1. /\ page = "here" /\ ~Internal /\ ~InFlight("query") /\ ~Awaiting(Edits)
      /\ UNCHANGED <<open, opened, fate, trans, cached, pendingTrans,
                     commitInProgress, gesture, page, visits, covered>>
  BY DEF Refresh, Quiet, Considerate
<1>2. CASE \E t \in trans : ~t.path
  <2>1. /\ UNCHANGED <<req, subscribed, fetch>>
        /\ hasWriteTransaction' = (hasWriteTransaction \/ findWriteTransaction(FALSE) # {})
    BY <1>2 DEF Refresh
  <2>2. findWriteTransaction(FALSE) # {} => RW(trans) # {}
    BY DEF findWriteTransaction, First, RW
  <2>3. /\ W' = W /\ Opening' = Opening /\ Operating' = Operating
        /\ \A r \in Requests : (InFlight(r)' <=> InFlight(r)) /\ (Ending(r)' <=> Ending(r))
                               /\ (Underway(r)' <=> Underway(r))
        /\ Awaiting(Edits)' = Awaiting(Edits) /\ Awaiting({"query"})' = Awaiting({"query"})
    BY <1>1, <2>1 DEF W, Opening, Operating, InFlight, Ending, Underway, Awaiting
  <2>4. hasWriteTransaction' \in BOOLEAN /\ (hasWriteTransaction => hasWriteTransaction')
    BY <2>1 DEF TypeOK
  <2>5. TypeOK' /\ PathInv' /\ RequestInv' /\ OpenInv' /\ ScenarioInv'
    BY <1>1, <2>1, <2>3, <2>4, Names DEF TypeOK, PathInv, RequestInv, OpenInv, ScenarioInv
  <2>6. FateInv' /\ GestureInv'
    BY <1>1, <2>1, <2>3, Names, GestureEdits DEF FateInv, GestureInv
  <2>7. CacheInv' /\ KnownInv' /\ PendingInv' /\ CoveredInv' /\ AwayInv'
    BY <1>1, <2>1, <2>3, Names DEF CacheInv, KnownInv, PendingInv, Right, CoveredInv, AwayInv
  <2>8. OperationInv'
    BY <1>1, <2>1, <2>3, <2>4, Names DEF OperationInv
  <2>9. FlagInv'
    BY <1>1, <2>1, <2>2, <2>3, <2>4, Names DEF FlagInv, RW
  <2> QED BY <2>5, <2>6, <2>7, <2>8, <2>9
<1>3. CASE ~\E t \in trans : ~t.path
  <2>1. /\ Start({"query"}, req, cached, subscribed, fetch)
        /\ UNCHANGED hasWriteTransaction
    BY <1>3 DEF Refresh
  <2>2. trans = {}
    BY <1>3 DEF PathInv
  <2>3. \A g \in Gestures : gesture[g] = "first" => g.then = {}
    <3>1. \A g \in Gestures : gesture[g] = "first" => \E e \in g.first : InFlight(e)
      BY <1>1 DEF Internal
    <3> QED BY <1>1, <2>2, <3>1 DEF GestureInv
  <2>4. visits' \in 0..MaxVisits
    BY <1>1 DEF TypeOK
  <2> QED BY <1>1, <2>1, <2>3, <2>4, StartReads
<1> QED BY <1>2, <1>3

\* What the server has still done when the page goes away: it has taken the
\* edits A, and then ended the transactions E, one or none.
UnloadTo(A, E, r) ==
  /\ \A e \in A : req[e].pc = "sent" /\ req[e].th \in W /\ fate[e] = "new"
  /\ E # {} => /\ InFlight(r) /\ Ending(r) /\ req[r].answer = "none" /\ E = W
  /\ fate' = [e \in Edits |->
                IF E # {} /\ (fate[e] = "open" \/ e \in A)
                THEN IF r = "revert" THEN "dropped" ELSE "running"
                ELSE IF e \in A THEN "open" ELSE fate[e]]
  /\ DOMAIN open' = DOMAIN open \ E
  /\ \A t \in DOMAIN open' :
       /\ open'[t] \in [mode: Modes, path: BOOLEAN, edits: SUBSET Edits]
       /\ open'[t].mode = open[t].mode /\ open'[t].path = open[t].path
       /\ open'[t].edits = open[t].edits \cup {e \in A : req[e].th = t}

\* Unload takes some edits, and ends the write transaction or not.
LEMMA UnloadIs ==
  ASSUME Considerate, EditingInv, Unload
  PROVE  \E A \in SUBSET Edits, E \in SUBSET W, r \in Operations : UnloadTo(A, E, r)
<1> USE DEF EditingInv
<1> DEFINE Taken(A) == [t \in DOMAIN open |->
                          [open[t] EXCEPT !.edits = @ \cup {e \in A : req[e].th = t}]]
           Ends(A, O, r) == {t \in DOMAIN open :
                               /\ r \in O /\ req[r].th = t
                               /\ r = "apply" => Taken(A)[t].edits \cap Invalid = {}}
<1>1. PICK A \in SUBSET {e \in Edits : /\ req[e].pc = "sent" /\ req[e].th \in DOMAIN open
                                       /\ open[req[e].th].mode = "read_write"
                                       /\ open[req[e].th].path = actionPath(e)},
           O \in SUBSET {r \in Operations : /\ req[r].pc = "sent"
                                            /\ req[r].method # "validate_commit"
                                            /\ req[r].th \in DOMAIN open} :
        /\ open' = [t \in DOMAIN open \ (Ends(A, O, "apply") \cup Ends(A, O, "revert"))
                      |-> Taken(A)[t]]
        /\ fate' = [e \in Edits |->
             IF \E t \in Ends(A, O, "revert") : e \in Taken(A)[t].edits THEN "dropped"
             ELSE IF \E t \in Ends(A, O, "apply") : e \in Taken(A)[t].edits THEN "running"
             ELSE IF e \in A THEN "open" ELSE fate[e]]
  BY DEF Unload
<1> DEFINE E == Ends(A, O, "apply") \cup Ends(A, O, "revert")
           r == IF Ends(A, O, "revert") # {} THEN "revert" ELSE "apply"
<1>2. A \in SUBSET Edits
      /\ \A e \in A : req[e].pc = "sent" /\ req[e].th \in W /\ fate[e] = "new"
  BY <1>1 DEF FateInv, Underway, W
<1>3. \A t \in DOMAIN open :
        /\ Taken(A)[t] \in [mode: Modes, path: BOOLEAN, edits: SUBSET Edits]
        /\ Taken(A)[t].mode = open[t].mode /\ Taken(A)[t].path = open[t].path
        /\ Taken(A)[t].edits = open[t].edits \cup {e \in A : req[e].th = t}
  <2>1. ASSUME NEW t \in DOMAIN open
        PROVE  /\ Taken(A)[t] \in [mode: Modes, path: BOOLEAN, edits: SUBSET Edits]
               /\ Taken(A)[t].mode = open[t].mode /\ Taken(A)[t].path = open[t].path
               /\ Taken(A)[t].edits = open[t].edits \cup {e \in A : req[e].th = t}
    <3>1. open[t] \in [mode: Modes, path: BOOLEAN, edits: SUBSET Edits]
      BY <2>1 DEF TypeOK
    <3>2. Taken(A)[t] = [open[t] EXCEPT !.edits = open[t].edits \cup {e \in A : req[e].th = t}]
      BY <2>1
    <3> QED BY <1>2, <3>1, <3>2
  <2> QED BY <2>1
<1> HIDE DEF Taken
<1>4. Operations = {"revert", "apply"} /\ r \in Operations /\ O \subseteq Operations
      /\ "revert" # "apply"
  BY <1>1, Names
<1>5. \A q \in O : /\ InFlight(q) /\ Ending(q) /\ req[q].answer = "none"
                   /\ req[q].th \in W /\ W = {req[q].th}
  <2>1. ASSUME NEW q \in O
        PROVE  /\ InFlight(q) /\ Ending(q) /\ req[q].answer = "none"
               /\ req[q].th \in W /\ W = {req[q].th}
    <3>1. q \in Operations /\ q \in Requests /\ req[q].pc = "sent" /\ req[q].method # "validate_commit"
      BY <1>1, <2>1, Names
    <3>2. InFlight(q)
      BY <3>1 DEF InFlight
    <3>3. req[q].answer = "none" /\ req[q].method \in {"commit", "delete_trans"}
      BY <1>4, <3>1, <3>2, Names DEF RequestInv
    <3>4. req[q].th \in W
      BY <3>1 DEF OperationInv
    <3>5. W = {req[q].th}
      BY <3>4 DEF OpenInv
    <3> QED BY <3>1, <3>2, <3>3, <3>4, <3>5 DEF Ending
  <2> QED BY <2>1
<1>6. /\ Ends(A, O, "apply") # {} => "apply" \in O /\ Ends(A, O, "apply") = W
      /\ Ends(A, O, "revert") # {} => "revert" \in O /\ Ends(A, O, "revert") = W
  BY <1>5
<1>7. Ends(A, O, "apply") = {} \/ Ends(A, O, "revert") = {}
  BY <1>5, <1>6 DEF OperationInv
<1>8. E \in SUBSET W /\ (E # {} => r \in O /\ E = W)
      /\ (E # {} <=> Ends(A, O, r) # {})
      /\ (E # {} => Ends(A, O, r) = E)
      /\ Ends(A, O, "revert") = (IF r = "revert" THEN E ELSE {})
      /\ Ends(A, O, "apply") = (IF r = "revert" THEN {} ELSE E)
  BY <1>4, <1>6, <1>7
<1>9. E # {} => \A e \in Edits : (\E t \in E : e \in Taken(A)[t].edits)
                                   <=> fate[e] = "open" \/ e \in A
  <2>1. ASSUME E # {}, NEW e \in Edits
        PROVE  (\E t \in E : e \in Taken(A)[t].edits) <=> fate[e] = "open" \/ e \in A
    <3>1. PICK t \in DOMAIN open : W = {t} /\ E = {t}
      BY <1>5, <1>8, <2>1 DEF W
    <3>2. e \in open[t].edits <=> fate[e] = "open"
      BY <3>1 DEF OpenInv
    <3>3. e \in A => req[e].th = t
      BY <1>2, <3>1
    <3> HIDE DEF E
    <3> QED BY <1>3, <3>1, <3>2, <3>3
  <2> QED BY <2>1
<1>10. fate' = [e \in Edits |->
                 IF E # {} /\ (fate[e] = "open" \/ e \in A)
                 THEN IF r = "revert" THEN "dropped" ELSE "running"
                 ELSE IF e \in A THEN "open" ELSE fate[e]]
  <2> HIDE DEF E, Ends, r
  <2>1. \A e \in Edits :
          (\E t \in Ends(A, O, "revert") : e \in Taken(A)[t].edits)
            <=> E # {} /\ r = "revert" /\ (fate[e] = "open" \/ e \in A)
    BY <1>8, <1>9
  <2>2. \A e \in Edits :
          (\E t \in Ends(A, O, "apply") : e \in Taken(A)[t].edits)
            <=> E # {} /\ r # "revert" /\ (fate[e] = "open" \/ e \in A)
    BY <1>8, <1>9
  <2> QED BY <1>1, <2>1, <2>2
<1>11. /\ DOMAIN open' = DOMAIN open \ E
       /\ \A t \in DOMAIN open' : open'[t] = Taken(A)[t]
  BY <1>1
<1>12. E # {} => InFlight(r) /\ Ending(r) /\ req[r].answer = "none" /\ E = W
  <2> HIDE DEF E, Ends, r
  <2> QED BY <1>5, <1>8
<1> HIDE DEF E, Ends, r
<1>13. E \in SUBSET W /\ r \in Operations
  BY <1>4, <1>8
<1>14. \A t \in DOMAIN open' :
         /\ open'[t] \in [mode: Modes, path: BOOLEAN, edits: SUBSET Edits]
         /\ open'[t].mode = open[t].mode /\ open'[t].path = open[t].path
         /\ open'[t].edits = open[t].edits \cup {e \in A : req[e].th = t}
  BY <1>3, <1>11
<1>15. A \in SUBSET Edits /\ E \in SUBSET W /\ r \in Operations
  BY <1>2, <1>13
<1>16. UnloadTo(A, E, r)
  BY <1>2, <1>10, <1>11, <1>12, <1>14 DEF UnloadTo
<1> QED BY <1>15, <1>16

\* A page that is left leaves at most one write transaction behind.
LEMMA UnloadStep ==
  ASSUME Considerate, EditingInv, Unload
  PROVE  EditingInv'
<1> USE DEF EditingInv, UnloadTo
<1>1. /\ page' = "away" /\ trans' = {} /\ cached' = FALSE /\ subscribed' = FALSE
      /\ fetch' = NoFetch /\ pendingTrans' = NoPending
      /\ req' = [r \in Requests |-> NoRequest]
      /\ hasWriteTransaction' = FALSE /\ commitInProgress' = FALSE /\ covered' = {}
      /\ gesture' = [g \in Gestures |-> IF gesture[g] = "ready" THEN "ready" ELSE "done"]
      /\ UNCHANGED <<opened, visits>>
  BY DEF Unload
<1>2. PICK A \in SUBSET Edits, E \in SUBSET W, r \in Operations : UnloadTo(A, E, r)
  BY UnloadIs
<1>3. W' = W \ E /\ (E = {} \/ E = W)
  BY <1>2 DEF W
<1>4. \A r_1 \in Requests : req'[r_1] = NoRequest
  BY <1>1
<1>5. /\ \A q \in Requests : ~InFlight(q)' /\ ~Underway(q)' /\ ~Ending(q)'
      /\ ~Operating' /\ ~Awaiting(Edits)' /\ ~Awaiting({"query"})' /\ ~Opening'
  BY <1>1, <1>4, Names DEF NoRequest, NoPending, InFlight, Underway, Ending, Operating,
     Awaiting, Opening
<1>6. /\ gesture' \in [Gestures -> {"ready", "first", "then", "done"}]
      /\ \A g \in Gestures : gesture'[g] \in {"ready", "done"}
      /\ \A g \in Gestures : gesture'[g] # "done" => gesture[g] = "ready"
  BY <1>1
<1>7. TypeOK'
  <2>1. fetch' \in [state: {"none", "asked", "answered"}, list: SUBSET Known]
    BY <1>1 DEF NoFetch
  <2>2. pendingTrans' \in [state: {"none", "asked", "answered"}, mode: Modes,
                           path: BOOLEAN, th: Th \cup {NoTh}]
    BY <1>1 DEF NoPending, Modes
  <2>3. NoRequest \in RequestType /\ NoRequest.pc # "sent"
    BY DEF NoRequest, RequestType, Methods
  <2>4. fate' \in [Edits -> {"new", "open", "running", "dropped", "refused"}]
    BY <1>2 DEF TypeOK
  <2>5. DOMAIN open' \subseteq Th
    BY <1>2 DEF TypeOK
  <2>6. req' \in [Requests -> RequestType]
    BY <1>1, <2>3
  <2> QED BY <1>1, <1>2, <1>4, <1>6, <2>1, <2>2, <2>3, <2>4, <2>5, <2>6 DEF TypeOK, RequestType
<1>8. PathInv'
  BY <1>1, <1>2 DEF PathInv, NoFetch, NoPending
<1>9. RequestInv'
  BY <1>4, <1>5, Names DEF RequestInv, NoRequest
<1>10. FateInv'
  <2>1. ASSUME NEW g \in Gestures, gesture'[g] = "ready", NEW e \in Uses(g)
        PROVE  fate'[e] = "new"
    <3>1. e \in Edits /\ fate[e] = "new" /\ ~InFlight(e)
      BY <1>6, <2>1, GestureEdits DEF FateInv
    <3>2. e \notin A
      BY <1>2, <3>1 DEF InFlight
    <3> QED BY <1>2, <3>1, <3>2
  <2>2. \A e \in Edits : ~Underway(e)' /\ ~InFlight(e)'
    BY <1>5, Names
  <2> QED BY <1>6, <2>1, <2>2, GestureEdits DEF FateInv
<1>11. ScenarioInv'
  BY <1>6 DEF ScenarioInv
<1>12. OpenInv'
  <2>1. \A t, u \in W' : t = u
    BY <1>3 DEF OpenInv
  <2>2. ASSUME NEW t \in DOMAIN open'
        PROVE  /\ t <= opened'
               /\ \A e \in open'[t].edits : t \in W' /\ fate'[e] = "open"
    <3>1. t \in DOMAIN open /\ t \notin E /\ t <= opened'
      BY <1>1, <1>2, <2>2 DEF OpenInv
    <3>2. ASSUME NEW e \in open'[t].edits PROVE t \in W' /\ fate'[e] = "open"
      <4>1. CASE e \in open[t].edits
        <5>1. t \in W /\ fate[e] = "open" /\ e \in Edits
          BY <3>1, <4>1 DEF OpenInv, TypeOK
        <5>2. E = {}
          BY <1>3, <3>1, <5>1
        <5> QED BY <1>2, <1>3, <5>1, <5>2
      <4>2. CASE e \in A /\ req[e].th = t
        <5>1. t \in W /\ E = {}
          BY <1>2, <1>3, <3>1, <4>2
        <5> QED BY <1>2, <1>3, <4>2, <5>1
      <4> QED BY <1>2, <3>2, <4>1, <4>2
    <3> QED BY <3>1, <3>2
  <2>3. ASSUME NEW e \in Edits, fate'[e] = "open"
        PROVE  \E t \in W' : e \in open'[t].edits
    <3>1. W' \subseteq DOMAIN open'
      BY DEF W
    <3>2. CASE e \in A
      <4>1. E = {}
        BY <1>2, <2>3, <3>2
      <4> QED BY <1>2, <1>3, <3>1, <3>2, <4>1
    <3>3. CASE e \notin A
      <4>1. fate[e] = "open" /\ E = {}
        BY <1>2, <2>3, <3>3
      <4>2. PICK t \in W : e \in open[t].edits
        BY <4>1 DEF OpenInv
      <4> QED BY <1>2, <1>3, <3>1, <4>1, <4>2
    <3> QED BY <3>2, <3>3
  <2> QED BY <2>1, <2>2, <2>3 DEF OpenInv
<1>13. CacheInv' /\ KnownInv'
  BY <1>1, <1>4 DEF CacheInv, KnownInv, Right, NoFetch, NoRequest
<1>14. PendingInv' /\ GestureInv'
  BY <1>1, <1>4, <1>5, <1>6, Names DEF PendingInv, GestureInv, NoPending, NoRequest
<1>15. OperationInv' /\ FlagInv' /\ CoveredInv' /\ AwayInv'
  <2>1. OperationInv'
    BY <1>4, <1>5, Names DEF OperationInv, NoRequest
  <2>2. FlagInv' /\ CoveredInv' /\ AwayInv'
    BY <1>1, <1>4, <1>6 DEF FlagInv, CoveredInv, AwayInv
  <2> QED BY <2>1, <2>2
<1> QED BY <1>7, <1>8, <1>9, <1>10, <1>11, <1>12, <1>13, <1>14, <1>15

------------------------------------------------------------------------------
(* Finding a transaction.                                                    *)

\* The write transaction a request finds is the one that is cached.
LEMMA Found ==
  ASSUME Considerate, EditingInv
  PROVE  /\ findWriteTransaction(FALSE) = RW(trans)
         /\ \A t \in RW(trans) : t.th \in W /\ W = {t.th}
         /\ cached /\ RW(trans) = {} /\ W # {} => Opening \/ Operating
<1> USE DEF EditingInv
<1>1. \A t \in RW(trans) : t.th \in W /\ W = {t.th}
  BY DEF RW, CacheInv, Right, OpenInv
<1>2. \A t \in RW(trans) : t.th \in Nat /\ t.path = FALSE
  <2>1. \A t \in Known : t.th \in Nat /\ t.path \in BOOLEAN
    BY JsonRpcTransactionsAssumption DEF Known, Th
  <2> QED BY <2>1 DEF TypeOK, RW, PathInv
<1>3. {t \in trans : t.mode = "read_write" /\ t.path = FALSE} = RW(trans)
  BY <1>2 DEF RW
<1>4. First(RW(trans)) = RW(trans)
  <2>1. \A t, u \in RW(trans) : t.th <= u.th
    BY <1>1, <1>2
  <2> QED BY <2>1 DEF First
<1>5. cached /\ RW(trans) = {} /\ W # {} => Opening \/ Operating
  <2>1. SUFFICES ASSUME cached, RW(trans) = {}, W # {} PROVE Opening \/ Operating
    OBVIOUS
  <2>2. PICK t \in W : TRUE
    BY <2>1
  <2>3. t \notin Ids(trans)
    BY <2>1 DEF RW, Ids, CacheInv, Right
  <2> QED BY <2>1, <2>2, <2>3 DEF KnownInv, Operating, Ending, InFlight
<1> QED BY <1>1, <1>3, <1>4, <1>5 DEF findWriteTransaction

\* Request r has found transaction t.
LEMMA SentStep ==
  ASSUME Considerate, EditingInv, NEW r \in Requests, CanGetTransaction(r),
         NEW t \in trans, t.mode = "read_write" \/ r = "query", Sent(r, t.th),
         \/ t.mode = "read_write" /\ hasWriteTransaction' = TRUE
         \/ RW(trans) = {} /\ UNCHANGED hasWriteTransaction,
         UNCHANGED <<open, opened, fate, cached, subscribed, fetch, pendingTrans,
                     commitInProgress, gesture, page, visits, covered>>
  PROVE  EditingInv'
<1> USE DEF EditingInv
<1>1. /\ req[r].pc = "trans" /\ InFlight(r) /\ req[r].answer = "none" /\ cached
      /\ page # "away"
  <2>1. req[r].pc = "trans" /\ InFlight(r)
    BY DEF CanGetTransaction, InFlight
  <2>2. req[r].answer = "none"
    BY <2>1 DEF RequestInv
  <2>3. cached
    BY <2>1 DEF CanGetTransaction, CacheInv
  <2>4. page # "away"
    BY <2>1 DEF AwayInv, NoRequest
  <2> QED BY <2>1, <2>2, <2>3, <2>4
<1>2. /\ t.th \in Th /\ t.th # NoTh
      /\ t.mode = "read_write" => t \in RW(trans) /\ t.th \in W /\ W = {t.th}
  <2>1. t.th \in Th
    BY DEF TypeOK, Known
  <2>2. t.th # NoTh
    BY <2>1, JsonRpcTransactionsAssumption DEF Th, NoTh
  <2> QED BY <2>1, <2>2, Found DEF RW
<1>3. /\ req' \in [Requests -> RequestType]
      /\ r = "query" => req'[r].pc = "idle"
      /\ r # "query" => /\ req'[r].pc = "sent" /\ req'[r].th = t.th
                        /\ req'[r].method = req[r].method /\ req'[r].answer = "none"
      /\ \A q \in Requests \ {r} : req'[q] = req[q]
  <2> DEFINE v == SentOn(r, t.th)
  <2>1. req \in [Requests -> RequestType]
    BY DEF TypeOK, RequestType
  <2>2. /\ v \in RequestType /\ (r = "query" => v.pc = "idle")
        /\ r # "query" => /\ v.pc = "sent" /\ v.th = t.th
                          /\ v.method = req[r].method /\ v.answer = "none"
    BY <1>1, <1>2, <2>1 DEF SentOn, NoRequest, RequestType, Methods
  <2>3. req' = [req EXCEPT ![r] = v]
    BY DEF Sent
  <2> HIDE DEF v
  <2> QED BY <2>1, <2>2, <2>3
<1>4. /\ \A e \in Edits : e \in Requests /\ e # "query" /\ e \notin Operations
      /\ \A o \in Operations : o \in Requests /\ o # "query" /\ o \notin Edits
      /\ "query" \in Requests /\ Operations = {"revert", "apply"}
  BY Names
<1>5. /\ W' = W /\ Opening' = Opening
      /\ \A e \in Edits : (Underway(e)' <=> Underway(e)) /\ (InFlight(e)' <=> InFlight(e))
      /\ \A e \in Edits : req'[e].pc = "trans" => req[e].pc = "trans"
      /\ \A q \in Requests : req'[q].pc = "new" <=> req[q].pc = "new"
      /\ \A q \in Requests : req'[q].pc = "trans" => req[q].pc = "trans"
      /\ \A o \in Operations : InFlight(o)' <=> InFlight(o)
      /\ Operating' = Operating
      /\ Awaiting(Edits)' => Awaiting(Edits)
      /\ Awaiting({"query"})' => Awaiting({"query"})
  <2>1. W' = W /\ Opening' = Opening
    BY DEF W, Opening
  <2>2. /\ \A e \in Edits : (Underway(e)' <=> Underway(e)) /\ (InFlight(e)' <=> InFlight(e))
        /\ \A q \in Requests : req'[q].pc = "new" <=> req[q].pc = "new"
        /\ \A q \in Requests : req'[q].pc = "trans" => req[q].pc = "trans"
        /\ \A o \in Operations : InFlight(o)' <=> InFlight(o)
    BY <1>1, <1>3, <1>4 DEF Underway, InFlight
  <2> QED BY <1>4, <2>1, <2>2 DEF Operating, Awaiting
<1>6. /\ \A o \in Operations \ {r} : req'[o] = req[o] /\ (Ending(o)' <=> Ending(o))
      /\ r \in Operations => ~Ending(r)
      /\ r \in Operations => (Ending(r)' <=> req[r].method \in {"commit", "delete_trans"})
      /\ trans' = IF r \in Operations /\ Ending(r)' THEN {u \in trans : u.th # t.th} ELSE trans
  <2>1. \A o \in Operations \ {r} : req'[o] = req[o] /\ (Ending(o)' <=> Ending(o))
    BY <1>3, <1>4 DEF Ending
  <2>2. r \in Operations => ~Ending(r)
    BY <1>1 DEF Ending
  <2>3. r \in Operations => (Ending(r)' <=> req[r].method \in {"commit", "delete_trans"})
    BY <1>3, <1>4 DEF Ending
  <2>4. r \notin Operations => req[r].method \notin {"commit", "delete_trans"}
    BY <1>1, <1>4, Names DEF RequestInv
  <2> QED BY <2>1, <2>2, <2>3, <2>4 DEF Sent
<1>7. /\ trans' \subseteq trans
      /\ r \in Operations => /\ Operating /\ ~Opening
                             /\ \A o \in Operations \ {r} : ~InFlight(o) /\ ~InFlight(o)'
                             /\ t.mode = "read_write"
  BY <1>1, <1>4, <1>5, <1>6 DEF OperationInv, PendingInv, Operating
<1>8. TypeOK'
  <2>1. \A q \in Requests : req'[q].pc = "sent" => req'[q].th # NoTh
    BY <1>2, <1>3 DEF TypeOK
  <2>2. hasWriteTransaction' \in BOOLEAN
    BY DEF TypeOK
  <2>3. trans' \subseteq Known
    BY <1>7 DEF TypeOK
  <2> QED BY <1>3, <2>1, <2>2, <2>3 DEF TypeOK, RequestType
<1>9. PathInv' /\ ScenarioInv' /\ OpenInv'
  BY <1>5, <1>7 DEF PathInv, ScenarioInv, OpenInv
<1>10. RequestInv'
  <2>1. ASSUME NEW q \in Requests, InFlight(q)'
        PROVE  /\ req'[q].method = MethodOf(q) \/ (q = "apply" /\ req'[q].method = "commit")
               /\ req'[q].pc # "answered" => req'[q].answer = "none"
               /\ req'[q].pc = "new" => q \in Edits \cup {"query"}
    <3>1. CASE q = r
      BY <1>1, <1>3, <2>1, <3>1 DEF RequestInv, InFlight
    <3>2. CASE q # r
      <4>1. req'[q] = req[q]
        BY <1>3, <3>2
      <4> QED BY <2>1, <4>1 DEF RequestInv, InFlight
    <3> QED BY <3>1, <3>2
  <2>2. \A q \in Requests : req'[q].pc = "answered" => q # r /\ req'[q] = req[q]
    BY <1>3
  <2>3. req'["query"].pc \in {"idle", "trans", "new"}
    BY <1>3, <1>4 DEF RequestInv
  <2> QED BY <1>4, <2>1, <2>2, <2>3 DEF RequestInv
<1>11. FateInv'
  BY <1>5, GestureEdits DEF FateInv
<1>12. CacheInv'
  <2>1. Right(trans)'
    BY <1>5, <1>7 DEF CacheInv, Right
  <2> QED BY <1>1, <1>5, <2>1 DEF CacheInv, Right
<1>13. KnownInv'
  <2>1. CASE r \in Operations /\ Ending(r)'
    <3>1. W = {t.th} /\ req'[r].th = t.th
      BY <1>2, <1>3, <1>4, <1>7, <2>1
    <3>2. fetch.state = "none"
      BY <1>1 DEF CacheInv
    <3> QED BY <1>5, <2>1, <3>1, <3>2 DEF KnownInv
  <2>2. CASE ~(r \in Operations /\ Ending(r)')
    <3>1. trans' = trans
      BY <1>6, <2>2
    <3>2. \A o \in Operations : Ending(o) => Ending(o)' /\ req'[o] = req[o]
      BY <1>6
    <3> QED BY <1>5, <3>1, <3>2 DEF KnownInv
  <2> QED BY <2>1, <2>2
<1>14. PendingInv'
  <2>1. RW(trans)' \subseteq RW(trans)
    BY <1>7 DEF RW
  <2>2. \A e \in Edits : req'[e].pc = "new" <=> req[e].pc = "new"
    BY <1>4, <1>5
  <2> QED BY <1>4, <1>5, <2>1, <2>2 DEF PendingInv
<1>15. GestureInv'
  <2>1. ASSUME NEW g \in Gestures, gesture'[g] = "first", g.then # {}
        PROVE  /\ ~Awaiting({"query"})' /\ ~Operating'
               /\ trans' # {}
    <3>1. ~Awaiting({"query"}) /\ ~Operating
      BY <2>1 DEF GestureInv
    <3>2. trans' = trans
      BY <1>6, <1>7, <3>1
    <3> QED BY <1>5, <3>1, <3>2
  <2> QED BY <1>5, <2>1 DEF GestureInv
<1>16. OperationInv'
  <2>1. Operating' => cached' /\ subscribed' /\ hasWriteTransaction' /\ ~Awaiting(Edits)'
    BY <1>5 DEF OperationInv
  <2>2. ~(InFlight("apply")' /\ InFlight("revert")')
    BY <1>4, <1>5 DEF OperationInv
  <2>3. ASSUME NEW o \in Operations
        PROVE  /\ InFlight(o)' /\ ~Ending(o)' => RW(trans)' # {}
               /\ req'[o].pc = "sent" => req'[o].th \in W'
               /\ Ending(o)' /\ req'[o].pc = "sent" => req'[o].th \notin Ids(trans)'
               /\ Ending(o)' /\ req'[o].answer = "ok" => W' = {}
    <3>1. CASE o = r
      <4>1. ~Ending(r)' => RW(trans)' = RW(trans)
        BY <1>6 DEF RW
      <4>2. Ending(r)' => t.th \notin Ids(trans)'
        BY <1>6, <3>1 DEF Ids
      <4>3. /\ req'[r].th = t.th /\ t.th \in W /\ t \in RW(trans) /\ req'[r].answer = "none"
        BY <1>2, <1>3, <1>4, <1>7, <3>1
      <4> QED BY <1>5, <3>1, <4>1, <4>2, <4>3
    <3>2. CASE o # r
      <4>1. /\ req'[o] = req[o] /\ (Ending(o)' <=> Ending(o))
            /\ (InFlight(o)' <=> InFlight(o))
        BY <1>5, <1>6, <3>2
      <4>2. CASE r \in Operations
        <5>1. ~InFlight(o)
          BY <1>7, <3>2, <4>2
        <5> QED BY <4>1, <5>1 DEF InFlight, Ending
      <4>3. CASE r \notin Operations
        <5>1. trans' = trans
          BY <1>6, <4>3
        <5> QED BY <1>5, <4>1, <5>1 DEF OperationInv, RW, Ids
      <4> QED BY <4>2, <4>3
    <3> QED BY <3>1, <3>2
  <2> QED BY <2>1, <2>2, <2>3 DEF OperationInv
<1>17. FlagInv'
  <2>1. hasWriteTransaction' => RW(trans)' # {} \/ \E o \in Operations : Ending(o)'
    <3>1. CASE r \in Operations /\ Ending(r)'
      BY <3>1
    <3>2. CASE ~(r \in Operations /\ Ending(r)')
      <4>1. RW(trans)' = RW(trans) /\ \A o \in Operations : Ending(o) => Ending(o)'
        BY <1>6, <3>2 DEF RW
      <4> QED BY <1>2, <4>1 DEF FlagInv
    <3> QED BY <3>1, <3>2
  <2>2. commitInProgress' => InFlight("apply")'
    BY <1>4, <1>5 DEF FlagInv
  <2>3. W' # {} => hasWriteTransaction' \/ Opening'
    BY <1>1, <1>5, Found DEF OperationInv
  <2> QED BY <2>1, <2>2, <2>3 DEF FlagInv
<1>18. CoveredInv' /\ AwayInv'
  <2>1. \A o \in Operations : InFlight(o) =>
          InFlight(o)' /\ req'[o].method = req[o].method /\ req'[o].answer = req[o].answer
    BY <1>1, <1>3, <1>4, <1>5
  <2> QED BY <1>1, <2>1 DEF CoveredInv, AwayInv
<1> QED BY <1>8, <1>9, <1>10, <1>11, <1>12, <1>13, <1>14, <1>15, <1>16, <1>17, <1>18

\* There is no write transaction whose changes could be counted.
LEMMA NoChangesStep ==
  ASSUME Considerate, EditingInv, req["changes"].pc = "trans", CanGetTransaction("changes"),
         RW(trans) = {}, req' = [req EXCEPT !["changes"].pc = "answered"],
         UNCHANGED <<open, opened, fate, trans, cached, subscribed, fetch, pendingTrans,
                     hasWriteTransaction, commitInProgress, gesture, page, visits, covered>>
  PROVE  EditingInv'
<1> USE DEF EditingInv
<1>0. /\ "changes" \in Requests /\ "changes" \notin Edits /\ "changes" \notin Operations
      /\ "query" \in Requests \ {"changes"}
  BY Names DEF Operations
<1>1. /\ req' \in [Requests -> RequestType]
      /\ req'["changes"].pc = "answered"
      /\ req'["changes"].method = req["changes"].method
      /\ \A r \in Requests \ {"changes"} : req'[r] = req[r]
  <2> DEFINE v == [req["changes"] EXCEPT !.pc = "answered"]
  <2>1. req \in [Requests -> RequestType]
    BY DEF TypeOK, RequestType
  <2>2. v \in RequestType /\ v.pc = "answered" /\ v.method = req["changes"].method
    BY <1>0, <2>1 DEF RequestType
  <2>3. req' = [req EXCEPT !["changes"] = v]
    BY <1>0, <2>1
  <2> HIDE DEF v
  <2> QED BY <1>0, <2>1, <2>2, <2>3
<1>2. /\ W' = W /\ Opening' = Opening
      /\ \A r \in Operations : r \in Requests /\ req'[r] = req[r]
      /\ \A r \in Edits : r \in Requests /\ req'[r] = req[r]
      /\ req'["query"] = req["query"]
      /\ \A r \in Requests : InFlight(r)' <=> InFlight(r)
      /\ \A r \in Requests : req'[r].pc = "trans" => req[r].pc = "trans"
  BY <1>0, <1>1, Names DEF W, Opening, InFlight
<1>3. /\ Operating' = Operating /\ \A r \in Operations : Ending(r)' <=> Ending(r)
      /\ Awaiting(Edits)' = Awaiting(Edits) /\ Awaiting({"query"})' = Awaiting({"query"})
  BY <1>0, <1>2, Names DEF Awaiting, Operating, Ending
<1>4. TypeOK'
  <2>1. \A r \in Requests : req'[r].pc = "sent" => req'[r].th # NoTh
    BY <1>1 DEF TypeOK
  <2> QED BY <1>1, <2>1 DEF TypeOK, RequestType
<1>5. RequestInv'
  BY <1>0, <1>1, <1>2, Names DEF RequestInv
<1>6. PathInv' /\ FateInv' /\ ScenarioInv' /\ OpenInv'
  BY <1>2, Names, GestureEdits DEF PathInv, FateInv, ScenarioInv, OpenInv, Underway
<1>7. CacheInv' /\ KnownInv' /\ PendingInv'
  BY <1>2, <1>3 DEF CacheInv, KnownInv, PendingInv, Right
<1>8. GestureInv' /\ OperationInv' /\ CoveredInv'
  BY <1>2, <1>3, Names, GestureEdits DEF GestureInv, OperationInv, CoveredInv
<1>9. FlagInv'
  <2>1. cached
    BY <1>0 DEF CanGetTransaction, CacheInv
  <2>2. W' # {} => hasWriteTransaction' \/ Opening'
    BY <1>2, <2>1, Found DEF OperationInv
  <2> QED BY <1>0, <1>2, <1>3, <2>2, Names DEF FlagInv, RW
<1>10. AwayInv'
  BY <1>0 DEF AwayInv, NoRequest
<1> QED BY <1>4, <1>5, <1>6, <1>7, <1>8, <1>9, <1>10

\* Request r has to await a new transaction.
LEMMA AwaitStep ==
  ASSUME Considerate, EditingInv, NoForms, NEW r \in Requests, CanGetTransaction(r),
         r \in Edits \cup {"query"}, RW(trans) = {},
         req' = [req EXCEPT ![r].pc = "new"],
         pendingTrans' = IF Joins THEN pendingTrans
                         ELSE [state |-> "asked", mode |-> getTransType(req[r].method),
                               path |-> actionPath(r), th |-> NoTh],
         UNCHANGED <<open, opened, fate, trans, cached, subscribed, fetch, 
                     hasWriteTransaction, commitInProgress, gesture, page, visits, covered>>
  PROVE  EditingInv'
<1> USE DEF EditingInv
<1>1. /\ req[r].pc = "trans" /\ InFlight(r) /\ req[r].answer = "none" /\ cached
      /\ page # "away"
  <2>1. req[r].pc = "trans" /\ InFlight(r)
    BY DEF CanGetTransaction, InFlight
  <2>2. req[r].answer = "none"
    BY <2>1 DEF RequestInv
  <2>3. cached
    BY <2>1 DEF CanGetTransaction, CacheInv
  <2>4. page # "away"
    BY <2>1 DEF AwayInv, NoRequest
  <2> QED BY <2>1, <2>2, <2>3, <2>4
<1>2. /\ \A e \in Edits : e \in Requests /\ e # "query" /\ e \notin Operations /\ e # "apply"
      /\ \A o \in Operations : o \in Requests \ {r} /\ o \in Requests
      /\ "query" \in Requests /\ Operations = {"revert", "apply"} /\ r # "apply"
  BY Names
<1>3. /\ req' \in [Requests -> RequestType]
      /\ req'[r].pc = "new" /\ req'[r].method = req[r].method /\ req'[r].answer = "none"
      /\ \A q \in Requests \ {r} : req'[q] = req[q]
  <2> DEFINE v == [req[r] EXCEPT !.pc = "new"]
  <2>1. req \in [Requests -> RequestType]
    BY DEF TypeOK, RequestType
  <2>2. v \in RequestType /\ v.pc = "new" /\ v.method = req[r].method /\ v.answer = "none"
    BY <1>1, <2>1 DEF RequestType
  <2>3. req' = [req EXCEPT ![r] = v]
    BY <2>1
  <2> HIDE DEF v
  <2> QED BY <2>1, <2>2, <2>3
<1>4. /\ W' = W
      /\ \A e \in Edits : (Underway(e)' <=> Underway(e)) /\ (InFlight(e)' <=> InFlight(e))
      /\ \A o \in Operations : req'[o] = req[o] /\ (InFlight(o)' <=> InFlight(o))
                               /\ (Ending(o)' <=> Ending(o))
      /\ \A q \in Requests : req'[q].pc = "trans" => req[q].pc = "trans"
      /\ Operating' = Operating
      /\ Awaiting(Edits)' = Awaiting(Edits)
      /\ Awaiting({"query"})' = Awaiting({"query"})
  <2>1. /\ \A e \in Edits : (Underway(e)' <=> Underway(e)) /\ (InFlight(e)' <=> InFlight(e))
        /\ \A e \in Edits : (req'[e].pc \in {"trans", "new"}) <=> (req[e].pc \in {"trans", "new"})
        /\ (req'["query"].pc \in {"trans", "new"}) <=> (req["query"].pc \in {"trans", "new"})
        /\ \A q \in Requests : req'[q].pc = "trans" => req[q].pc = "trans"
    BY <1>1, <1>2, <1>3 DEF Underway, InFlight
  <2>2. \A o \in Operations : req'[o] = req[o] /\ (InFlight(o)' <=> InFlight(o))
                              /\ (Ending(o)' <=> Ending(o))
    BY <1>2, <1>3 DEF InFlight, Ending
  <2> QED BY <2>1, <2>2 DEF W, Operating, Awaiting
<1>5. /\ r = "query" => getTransType(req[r].method) = "read"
      /\ r \in Edits => getTransType(req[r].method) = "read_write"
      /\ actionPath(r) = FALSE
  <2>1. req[r].method = MethodOf(r)
    BY <1>1, <1>2 DEF RequestInv
  <2>2. r \in Edits => MethodOf(r) = "set_value"
    BY Names
  <2>3. r = "query" => MethodOf(r) = "query"
    BY Names
  <2>4. actionPath(r) = FALSE
    BY <1>1 DEF actionPath, NoForms
  <2> QED BY <2>1, <2>2, <2>3, <2>4 DEF getTransType
<1>6. r \in Edits => ~Operating /\ (W # {} => Opening)
                     /\ (pendingTrans.state # "none" => Opening)
  <2>1. SUFFICES ASSUME r \in Edits
                 PROVE  ~Operating /\ (W # {} => Opening) /\ (pendingTrans.state # "none" => Opening)
    OBVIOUS
  <2>2. Awaiting(Edits)
    BY <1>1, <2>1 DEF Awaiting
  <2>3. ~Operating /\ req["query"].pc # "new"
    BY <2>2 DEF OperationInv, GestureInv, Awaiting
  <2> QED BY <1>1, <2>3, Found DEF PendingInv
<1>7. /\ pendingTrans' \in [state: {"none", "asked", "answered"}, mode: Modes,
                            path: BOOLEAN, th: Th \cup {NoTh}]
      /\ ~pendingTrans'.path
      /\ pendingTrans'.state # "none"
      /\ \/ UNCHANGED pendingTrans
         \/ /\ pendingTrans.state = "none" /\ pendingTrans'.state = "asked"
            /\ pendingTrans'.mode = IF r = "query" THEN "read" ELSE "read_write"
  <2>1. CASE Joins
    BY <2>1 DEF Joins, TypeOK, PathInv
  <2>2. CASE ~Joins
    <3>1. getTransType(req[r].method) = IF r = "query" THEN "read" ELSE "read_write"
      BY <1>2, <1>5
    <3>2. pendingTrans' = [state |-> "asked",
                           mode |-> IF r = "query" THEN "read" ELSE "read_write",
                           path |-> FALSE, th |-> NoTh]
      BY <1>5, <2>2, <3>1
    <3>3. [state |-> "asked", mode |-> IF r = "query" THEN "read" ELSE "read_write",
           path |-> FALSE, th |-> NoTh]
            \in [state: {"none", "asked", "answered"}, mode: Modes,
                 path: BOOLEAN, th: Th \cup {NoTh}]
      BY DEF Modes
    <3>4. /\ pendingTrans'.state = "asked" /\ pendingTrans'.path = FALSE
          /\ pendingTrans'.mode = IF r = "query" THEN "read" ELSE "read_write"
      BY <3>2
    <3>5. pendingTrans' \in [state: {"none", "asked", "answered"}, mode: Modes,
                             path: BOOLEAN, th: Th \cup {NoTh}]
      BY <3>2, <3>3
    <3> QED BY <2>2, <3>4, <3>5 DEF Joins
  <2> QED BY <2>1, <2>2
<1>8. /\ Opening => Opening' /\ UNCHANGED pendingTrans
      /\ r \in Edits => Opening'
      /\ r = "query" => (Opening' <=> Opening)
      /\ Opening' /\ ~Opening => r \in Edits /\ pendingTrans'.state = "asked"
  BY <1>2, <1>6, <1>7 DEF Opening
<1>9. TypeOK'
  <2>1. \A q \in Requests : req'[q].pc = "sent" => req'[q].th # NoTh
    BY <1>3 DEF TypeOK
  <2> QED BY <1>3, <1>7, <2>1 DEF TypeOK, RequestType
<1>10. PathInv' /\ ScenarioInv' /\ OpenInv'
  BY <1>4, <1>7 DEF PathInv, ScenarioInv, OpenInv
<1>11. RequestInv'
  <2>1. ASSUME NEW q \in Requests, InFlight(q)'
        PROVE  /\ req'[q].method = MethodOf(q) \/ (q = "apply" /\ req'[q].method = "commit")
               /\ req'[q].pc # "answered" => req'[q].answer = "none"
               /\ req'[q].pc = "new" => q \in Edits \cup {"query"}
    <3>1. CASE q = r
      BY <1>1, <1>3, <3>1 DEF RequestInv
    <3>2. CASE q # r
      <4>1. req'[q] = req[q]
        BY <1>3, <3>2
      <4>2. InFlight(q)
        BY <2>1, <4>1 DEF InFlight
      <4>3. /\ req[q].method = MethodOf(q) \/ (q = "apply" /\ req[q].method = "commit")
            /\ req[q].pc # "answered" => req[q].answer = "none"
            /\ req[q].pc = "new" => q \in Edits \cup {"query"}
        BY <4>2 DEF RequestInv
      <4> QED BY <4>1, <4>3
    <3> QED BY <3>1, <3>2
  <2>2. \A q \in Requests : req'[q].pc = "answered" => q # r /\ req'[q] = req[q]
    BY <1>3
  <2>3. req'["query"].pc \in {"idle", "trans", "new"}
    BY <1>2, <1>3 DEF RequestInv
  <2> QED BY <1>2, <2>1, <2>2, <2>3 DEF RequestInv
<1>12. FateInv'
  BY <1>4, GestureEdits DEF FateInv
<1>13. CacheInv'
  BY <1>4 DEF CacheInv, Right
<1>14. KnownInv'
  BY <1>4, <1>8 DEF KnownInv
<1>15. PendingInv'
  <2>1. Opening' => cached' /\ ~Operating' /\ RW(trans)' = {}
    BY <1>1, <1>4, <1>6, <1>8 DEF PendingInv, RW
  <2>2. Opening' /\ pendingTrans'.state = "asked" => W' = {}
    BY <1>4, <1>6, <1>8 DEF PendingInv
  <2>3. Opening' => \E e \in Edits : req'[e].pc = "new"
    <3>1. CASE r \in Edits
      BY <1>3, <3>1
    <3>2. CASE r = "query"
      BY <1>2, <1>3, <1>8, <3>2 DEF PendingInv
    <3> QED BY <3>1, <3>2
  <2>4. pendingTrans'.state = "answered" =>
          /\ pendingTrans'.th \in DOMAIN open'
          /\ pendingTrans'.mode = "read_write" <=> pendingTrans'.th \in W'
    BY <1>4, <1>7 DEF PendingInv
  <2>5. pendingTrans'.state # "none" /\ ~Opening' => req'["query"].pc = "new"
    <3>1. CASE r = "query"
      BY <1>3, <3>1
    <3>2. CASE r \in Edits
      BY <1>8, <3>2
    <3> QED BY <3>1, <3>2
  <2>6. \A e \in Edits : req'[e].pc = "new" => Opening'
    BY <1>2, <1>3, <1>8 DEF PendingInv
  <2> QED BY <2>1, <2>2, <2>3, <2>4, <2>5, <2>6 DEF PendingInv
<1>16. GestureInv' /\ OperationInv' /\ CoveredInv' /\ AwayInv'
  BY <1>1, <1>2, <1>4, GestureEdits
     DEF GestureInv, OperationInv, CoveredInv, AwayInv, RW, Ids
<1>17. FlagInv'
  <2>1. W' # {} => hasWriteTransaction' \/ Opening'
    BY <1>1, <1>4, <1>8, Found DEF OperationInv
  <2> QED BY <1>2, <1>4, <2>1 DEF FlagInv, RW
<1> QED BY <1>9, <1>10, <1>11, <1>12, <1>13, <1>14, <1>15, <1>16, <1>17

\* The await of a request for the list of transactions is over.
LEMMA GetTransactionStep ==
  ASSUME Considerate, EditingInv, NoForms, NEW r \in Requests, GetTransaction(r)
  PROVE  EditingInv'
<1> DEFINE m == req[r].method
           read == IF getTransType(m) = "read" THEN First({t \in trans : ~t.path}) ELSE {}
<1>1. /\ CanGetTransaction(r) /\ req[r].pc = "trans" /\ InFlight(r)
      /\ findWriteTransaction(actionPath(r)) = RW(trans)
      /\ UNCHANGED <<open, opened, fate, cached, subscribed, fetch, commitInProgress,
                     gesture, page, visits, covered>>
  <2>1. CanGetTransaction(r) /\ req[r].pc = "trans" /\ InFlight(r)
    BY DEF GetTransaction, CanGetTransaction, InFlight
  <2>2. actionPath(r) = FALSE
    BY <2>1 DEF actionPath, NoForms
  <2> QED BY <2>1, <2>2, Found DEF GetTransaction, server, user
<1>2. /\ m = MethodOf(r) \/ (r = "apply" /\ m = "commit")
      /\ r \in Edits \cup {"query", "changes", "revert", "apply"}
      /\ getTransType(m) = "read" => r = "query"
      /\ allowNew(m) => r \in Edits
      /\ r = "query" => getTransType(m) = "read" /\ ~allowNew(m)
      /\ getTransType(m) = "read" \/ getTransType(m) = "read_write"
  <2>1. m = MethodOf(r) \/ (r = "apply" /\ m = "commit")
    BY <1>1 DEF EditingInv, RequestInv
  <2> QED BY <2>1, Names DEF getTransType, allowNew
<1>3. ASSUME NEW t \in RW(trans), Sent(r, t.th), hasWriteTransaction' = TRUE,
             UNCHANGED pendingTrans
      PROVE  EditingInv'
  BY <1>1, <1>3, SentStep DEF RW
<1>4. ASSUME RW(trans) = {}, getTransType(m) = "read_write", ~allowNew(m),
             req' = [req EXCEPT ![r].pc = "answered"],
             UNCHANGED <<trans, hasWriteTransaction, pendingTrans>>
      PROVE  EditingInv'
  <2>1. r \notin Operations
    <3>1. r \in Operations => ~Ending(r)
      BY <1>1 DEF Ending
    <3> QED BY <1>1, <1>4, <3>1 DEF EditingInv, OperationInv
  <2>2. r \notin Edits
    BY <1>2, <1>4, Names DEF allowNew
  <2>3. r = "changes"
    BY <1>2, <1>4, <2>1, <2>2, Names DEF getTransType
  <2> QED BY <1>1, <1>4, <2>3, NoChangesStep
<1>5. ASSUME RW(trans) = {}, NEW t \in read, Sent(r, t.th),
             UNCHANGED <<hasWriteTransaction, pendingTrans>>
      PROVE  EditingInv'
  <2>1. r = "query" /\ t \in trans
    BY <1>2, <1>5 DEF First
  <2> QED BY <1>1, <1>5, <2>1, SentStep
<1>6. ASSUME RW(trans) = {}, getTransType(m) = "read" \/ allowNew(m),
             req' = [req EXCEPT ![r].pc = "new"],
             pendingTrans' = IF Joins THEN pendingTrans
                             ELSE [state |-> "asked", mode |-> getTransType(m),
                                   path |-> actionPath(r), th |-> NoTh],
             UNCHANGED <<trans, hasWriteTransaction>>
      PROVE  EditingInv'
  <2>1. r \in Edits \cup {"query"}
    BY <1>2, <1>6
  <2> QED BY <1>1, <1>6, <2>1, AwaitStep
<1> QED BY <1>1, <1>3, <1>4, <1>5, <1>6 DEF GetTransaction

\* The new transaction is cached, and all who await it are sent on it.
LEMMA ReceiveNewTransStep ==
  ASSUME Considerate, EditingInv, ReceiveNewTrans
  PROVE  EditingInv'
<1> USE DEF EditingInv
<1> DEFINE n == [th |-> pendingTrans.th, mode |-> pendingTrans.mode, path |-> pendingTrans.path]
           waiting == {r \in Requests : req[r].pc = "new"}
<1>1. /\ pendingTrans.state = "answered" /\ pendingTrans' = NoPending
      /\ trans' = IF cached THEN trans \cup {n} ELSE trans
      /\ req' = [r \in Requests |->
                   IF r \in waiting THEN SentOn(r, pendingTrans.th) ELSE req[r]]
      /\ hasWriteTransaction' =
           (hasWriteTransaction \/ \E r \in waiting : getTransType(req[r].method) = "read_write")
      /\ UNCHANGED <<open, opened, fate, cached, subscribed, fetch, commitInProgress,
                     gesture, page, visits, covered>>
  BY DEF ReceiveNewTrans, Added, server, user
<1>2. /\ pendingTrans.th \in Th /\ pendingTrans.th # NoTh /\ pendingTrans.th <= opened
      /\ (pendingTrans.mode = "read_write" <=> pendingTrans.th \in W)
      /\ n \in Known /\ ~n.path /\ n.th = pendingTrans.th /\ n.mode = pendingTrans.mode
      /\ page # "away"
  <2>1. pendingTrans.th \in DOMAIN open
    BY <1>1 DEF PendingInv
  <2>2. pendingTrans.th \in Th /\ pendingTrans.th <= opened
    BY <2>1 DEF TypeOK, OpenInv
  <2>3. pendingTrans.th # NoTh
    BY <2>2, JsonRpcTransactionsAssumption DEF Th, NoTh
  <2>4. n \in Known
    BY <2>2 DEF Known, TypeOK
  <2>5. page # "away"
    BY <1>1 DEF AwayInv, NoPending
  <2> QED BY <1>1, <2>2, <2>3, <2>4, <2>5 DEF PendingInv, PathInv
<1>3. /\ \A e \in Edits : e \in Requests /\ e # "query" /\ e \notin Operations /\ e # "apply"
      /\ \A o \in Operations : o \in Requests /\ o \notin Edits /\ o # "query"
      /\ "query" \in Requests /\ Operations = {"revert", "apply"}
      /\ waiting \subseteq Edits \cup {"query"}
  BY Names DEF RequestInv, InFlight
<1>4. /\ req' \in [Requests -> RequestType]
      /\ \A r \in Requests \ waiting : req'[r] = req[r]
      /\ "query" \in waiting => req'["query"].pc = "idle"
      /\ \A r \in waiting : r # "query" =>
           /\ req'[r].pc = "sent" /\ req'[r].th = pendingTrans.th
           /\ req'[r].method = req[r].method /\ req'[r].answer = "none"
  <2>1. req \in [Requests -> RequestType]
    BY DEF TypeOK, RequestType
  <2>2. ASSUME NEW r \in waiting
        PROVE  /\ SentOn(r, pendingTrans.th) \in RequestType
               /\ r = "query" => SentOn(r, pendingTrans.th).pc = "idle"
               /\ r # "query" =>
                    /\ SentOn(r, pendingTrans.th).pc = "sent"
                    /\ SentOn(r, pendingTrans.th).th = pendingTrans.th
                    /\ SentOn(r, pendingTrans.th).method = req[r].method
                    /\ SentOn(r, pendingTrans.th).answer = "none"
    <3>1. req[r].answer = "none" /\ req[r] \in RequestType
      BY <2>1, <2>2 DEF RequestInv, InFlight
    <3> QED BY <1>2, <3>1 DEF SentOn, NoRequest, RequestType, Methods
  <2> HIDE DEF n
  <2> QED BY <1>1, <2>1, <2>2
<1>5. /\ W' = W /\ ~Opening'
      /\ \A e \in Edits : (Underway(e)' <=> Underway(e)) /\ (InFlight(e)' <=> InFlight(e))
      /\ \A o \in Operations : req'[o] = req[o] /\ (InFlight(o)' <=> InFlight(o))
                               /\ (Ending(o)' <=> Ending(o))
      /\ \A q \in Requests : (req'[q].pc = "trans" <=> req[q].pc = "trans") /\ req'[q].pc # "new"
      /\ Operating' = Operating
      /\ Awaiting(Edits)' => Awaiting(Edits)
      /\ Awaiting({"query"})' => Awaiting({"query"})
  <2>1. W' = W /\ ~Opening'
    BY <1>1 DEF W, Opening, NoPending
  <2>2. \A q \in Requests : (req'[q].pc = "trans" <=> req[q].pc = "trans") /\ req'[q].pc # "new"
    BY <1>4
  <2>3. \A e \in Edits : (Underway(e)' <=> Underway(e)) /\ (InFlight(e)' <=> InFlight(e))
    BY <1>3, <1>4 DEF Underway, InFlight
  <2>4. \A o \in Operations : o \notin waiting
    BY <1>3
  <2>5. \A o \in Operations : req'[o] = req[o] /\ (InFlight(o)' <=> InFlight(o))
                              /\ (Ending(o)' <=> Ending(o))
    BY <1>3, <1>4, <2>4 DEF InFlight, Ending
  <2> QED BY <1>3, <2>1, <2>2, <2>3, <2>5 DEF Operating, Awaiting
<1>6. hasWriteTransaction' <=> (hasWriteTransaction \/ Opening)
  <2>1. \A r \in waiting : getTransType(req[r].method) = "read_write" <=> r \in Edits
    <3>1. \A r \in waiting : req[r].method = MethodOf(r)
      BY <1>3 DEF RequestInv, InFlight
    <3> QED BY <1>3, <3>1, Names DEF getTransType
  <2>2. Opening <=> \E r \in waiting : r \in Edits
    BY <1>3 DEF PendingInv
  <2> QED BY <1>1, <2>1, <2>2
<1>7. /\ Opening => cached /\ W = {n.th} /\ ~Operating /\ RW(trans)' # {} /\ trans' # {}
      /\ trans \subseteq trans' /\ RW(trans) \subseteq RW(trans)'
      /\ ~Opening => n.th \notin W /\ RW(trans)' = RW(trans)
  <2>1. Opening <=> n.mode = "read_write"
    BY <1>1 DEF Opening
  <2>2. n.th \in W => W = {n.th}
    BY DEF OpenInv
  <2> HIDE DEF n
  <2> QED BY <1>1, <1>2, <2>1, <2>2 DEF PendingInv, RW
<1> HIDE DEF n, waiting
<1>8. TypeOK'
  <2>1. \A q \in Requests : req'[q].pc = "sent" => req'[q].th # NoTh
    BY <1>2, <1>4 DEF TypeOK
  <2>2. pendingTrans' \in [state: {"none", "asked", "answered"}, mode: Modes,
                           path: BOOLEAN, th: Th \cup {NoTh}]
    BY <1>1 DEF NoPending, Modes
  <2>3. hasWriteTransaction' \in BOOLEAN
    BY <1>1 DEF TypeOK
  <2>4. trans' \subseteq Known
    BY <1>1, <1>2 DEF TypeOK
  <2> QED BY <1>1, <1>4, <2>1, <2>2, <2>3, <2>4 DEF TypeOK, RequestType
<1>9. PathInv' /\ ScenarioInv' /\ OpenInv'
  BY <1>1, <1>2, <1>5 DEF PathInv, ScenarioInv, OpenInv, NoPending
<1>10. RequestInv'
  <2>1. ASSUME NEW q \in Requests, InFlight(q)'
        PROVE  /\ req'[q].method = MethodOf(q) \/ (q = "apply" /\ req'[q].method = "commit")
               /\ req'[q].pc # "answered" => req'[q].answer = "none"
               /\ req'[q].pc = "new" => q \in Edits \cup {"query"}
    <3>1. CASE q \in waiting
      <4>1. q # "query"
        BY <1>4, <2>1, <3>1 DEF InFlight
      <4>2. InFlight(q)
        BY <3>1 DEF InFlight, waiting
      <4>3. req[q].method = MethodOf(q) \/ (q = "apply" /\ req[q].method = "commit")
        BY <4>2 DEF RequestInv
      <4> QED BY <1>4, <3>1, <4>1, <4>3
    <3>2. CASE q \notin waiting
      <4>1. req'[q] = req[q]
        BY <1>4, <3>2
      <4>2. InFlight(q)
        BY <2>1, <4>1 DEF InFlight
      <4>3. /\ req[q].method = MethodOf(q) \/ (q = "apply" /\ req[q].method = "commit")
            /\ req[q].pc # "answered" => req[q].answer = "none"
            /\ req[q].pc = "new" => q \in Edits \cup {"query"}
        BY <4>2 DEF RequestInv
      <4> QED BY <4>1, <4>3
    <3> QED BY <3>1, <3>2
  <2>2. \A e \in Edits : req'[e].pc = "answered" => req'[e].answer # "none"
    BY <1>3, <1>4 DEF RequestInv
  <2>3. req'["query"].pc \in {"idle", "trans", "new"}
    BY <1>3, <1>4 DEF RequestInv
  <2> QED BY <1>3, <1>5, <2>1, <2>2, <2>3 DEF RequestInv
<1>11. FateInv'
  BY <1>1, <1>5, GestureEdits DEF FateInv
<1>12. CacheInv'
  <2>1. Right(trans)'
    BY <1>1, <1>2, <1>5 DEF CacheInv, Right
  <2> QED BY <1>1, <1>5, <2>1 DEF CacheInv, Right
<1>13. KnownInv'
  <2>1. CASE Opening
    <3>1. n.th \in Ids(trans)'
      BY <1>1, <1>7, <2>1 DEF Ids
    <3>2. fetch.state = "none"
      BY <1>7, <2>1 DEF CacheInv
    <3> QED BY <1>1, <1>5, <1>7, <2>1, <3>1, <3>2 DEF KnownInv
  <2>2. CASE ~Opening
    <3>1. Ids(trans) \subseteq Ids(trans)'
      BY <1>7 DEF Ids
    <3> QED BY <1>1, <1>5, <2>2, <3>1 DEF KnownInv
  <2> QED BY <2>1, <2>2
<1>14. PendingInv'
  BY <1>1, <1>3, <1>5 DEF PendingInv, NoPending
<1>15. GestureInv'
  <2>1. Awaiting(Edits)' => ~Awaiting({"query"})'
    BY <1>5 DEF GestureInv
  <2>2. ASSUME NEW g \in Gestures, gesture'[g] = "first", g.then # {}
        PROVE  /\ ~Awaiting({"query"})' /\ ~Operating'
               /\ (\E e \in g.first : InFlight(e)') => trans' # {} \/ Awaiting(Edits)'
    <3>1. /\ ~Awaiting({"query"}) /\ ~Operating
          /\ (\E e \in g.first : InFlight(e)') => trans # {} \/ Awaiting(Edits)
      BY <1>1, <1>5, <2>2, GestureEdits DEF GestureInv
    <3>2. ~Opening /\ Awaiting(Edits) => Awaiting(Edits)'
      BY <1>3, <1>5 DEF PendingInv, Awaiting
    <3> QED BY <1>5, <1>7, <3>1, <3>2
  <2> QED BY <2>1, <2>2 DEF GestureInv
<1>16. OperationInv'
  <2>1. Operating' => cached' /\ subscribed' /\ hasWriteTransaction' /\ ~Awaiting(Edits)'
    BY <1>1, <1>5, <1>6 DEF OperationInv
  <2>2. ASSUME NEW o \in Operations
        PROVE  /\ InFlight(o)' /\ ~Ending(o)' => RW(trans)' # {}
               /\ req'[o].pc = "sent" => req'[o].th \in W'
               /\ Ending(o)' /\ req'[o].pc = "sent" => req'[o].th \notin Ids(trans)'
               /\ Ending(o)' /\ req'[o].answer = "ok" => W' = {}
    <3>1. Ending(o) /\ req[o].pc = "sent" => req[o].th \in W /\ req[o].th \notin Ids(trans)
      BY DEF OperationInv
    <3>2. Ending(o) => Operating
      BY DEF Operating, Ending, InFlight
    <3>3. Ending(o) /\ req[o].pc = "sent" => req[o].th \notin Ids(trans)'
      BY <1>1, <1>7, <3>1, <3>2 DEF Ids
    <3> QED BY <1>5, <1>7, <3>3 DEF OperationInv
  <2> QED BY <1>3, <1>5, <2>1, <2>2 DEF OperationInv
<1>17. FlagInv'
  <2>1. commitInProgress' => InFlight("apply")'
    BY <1>1, <1>3, <1>5 DEF FlagInv
  <2>2. hasWriteTransaction' => RW(trans)' # {} \/ \E o \in Operations : Ending(o)'
    BY <1>5, <1>6, <1>7 DEF FlagInv
  <2>3. page' = "here" /\ W' # {} =>
          hasWriteTransaction' \/ \E r \in Requests : req'[r].pc = "trans"
    BY <1>1, <1>5, <1>6 DEF FlagInv
  <2> QED BY <2>1, <2>2, <2>3 DEF FlagInv
<1>18. CoveredInv' /\ AwayInv'
  <2>1. \A e \in covered' : fate'[e] = "open"
    BY <1>1 DEF CoveredInv
  <2>2. ASSUME covered' # {}
        PROVE  \E o \in Operations :
                 InFlight(o)' /\ (req'[o].method = "validate_commit" \/ req'[o].answer # "ok")
    <3>1. PICK o \in Operations :
            InFlight(o) /\ (req[o].method = "validate_commit" \/ req[o].answer # "ok")
      BY <1>1, <2>2 DEF CoveredInv
    <3> QED BY <1>5, <3>1
  <2>3. AwayInv'
    BY <1>1, <1>2 DEF AwayInv
  <2> QED BY <2>1, <2>2, <2>3 DEF CoveredInv
<1> QED BY <1>8, <1>9, <1>10, <1>11, <1>12, <1>13, <1>14, <1>15, <1>16, <1>17, <1>18

------------------------------------------------------------------------------
(* Every step keeps the invariant.                                           *)

\* An answer in the browser: without one from the server, which operations
\* do not get, or when the browser has nothing else to do.
LEMMA ReceiveStep ==
  ASSUME Considerate, EditingInv, NEW r \in Requests, ReceiveAnswer(r),
         req[r].answer = "none" \/ ~Internal
  PROVE  EditingInv'
<1>1. CASE r \in Edits /\ ReceiveEdit(r)
  BY <1>1, ReceiveEditStep
<1>2. CASE r = "changes" /\ ReceiveChanges
  BY <1>2, ReceiveChangesStep
<1>3. CASE r = "apply" /\ ReceiveValidate
  BY <1>3, ReceiveValidateStep
<1>4. CASE r \in Operations /\ ReceiveEnd(r)
  <2>1. req[r].answer \in {"ok", "invalid"}
    BY <1>4, EndReceived
  <2> QED BY <1>4, <2>1, ReceiveEndStep
<1> QED BY <1>1, <1>2, <1>3, <1>4 DEF ReceiveAnswer

\* The server serves request r.
LEMMA ServeStep ==
  ASSUME Considerate, EditingInv, NEW r \in Requests, Serve(r)
  PROVE  EditingInv'
<1>1. CASE r \in Edits /\ ServeEdit(r)
  BY <1>1, ServeEditStep
<1>2. CASE r = "changes" /\ ServeChanges
  BY <1>2, ServeChangesStep
<1>3. CASE r = "apply" /\ ServeValidate
  BY <1>3, ServeValidateStep
<1>4. CASE r \in Operations /\ ServeEnd(r)
  BY <1>4, ServeEndStep
<1> QED BY <1>1, <1>2, <1>3, <1>4 DEF Serve

\* The invariant is about the variables of the specification.
LEMMA StutterStep ==
  ASSUME Considerate, EditingInv, UNCHANGED vars
  PROVE  EditingInv'
<1> USE DEF EditingInv
<1>1. UNCHANGED <<open, opened, fate, trans, cached, subscribed, fetch, pendingTrans, req,
                  hasWriteTransaction, commitInProgress, gesture, page, visits, covered>>
  BY DEF vars, server, cache, flags, user
<1>2. /\ W' = W /\ Opening' = Opening /\ Operating' = Operating
      /\ \A r \in Requests : (InFlight(r)' <=> InFlight(r)) /\ (Ending(r)' <=> Ending(r))
                             /\ (Underway(r)' <=> Underway(r))
      /\ Awaiting(Edits)' = Awaiting(Edits) /\ Awaiting({"query"})' = Awaiting({"query"})
  BY <1>1 DEF W, Opening, Operating, InFlight, Ending, Underway, Awaiting
<1>3. TypeOK'
  BY <1>1 DEF TypeOK
<1>4. PathInv' /\ RequestInv' /\ OpenInv' /\ ScenarioInv'
  BY <1>1, <1>2, Names DEF PathInv, RequestInv, OpenInv, ScenarioInv
<1>5. FateInv'
  BY <1>1, <1>2, Names, GestureEdits DEF FateInv
<1>6. CacheInv' /\ KnownInv' /\ PendingInv'
  BY <1>1, <1>2, Names DEF CacheInv, KnownInv, PendingInv, Right
<1>7. GestureInv'
  BY <1>1, <1>2, Names, GestureEdits DEF GestureInv
<1>8. OperationInv' /\ FlagInv' /\ CoveredInv' /\ AwayInv'
  BY <1>1, <1>2, Names DEF OperationInv, FlagInv, CoveredInv, AwayInv
<1> QED BY <1>3, <1>4, <1>5, <1>6, <1>7, <1>8

\* Every step of an editing session keeps its invariant, one case per action of Next.
LEMMA EditingStep ==
  ASSUME Considerate, EditingInv, NoForms, [Next]_vars
  PROVE  EditingInv'
<1>1. ASSUME NEW r \in Requests, Continue(r) PROVE EditingInv'
  BY <1>1, GetTransactionStep, ReceiveStep DEF Continue
<1>2. ASSUME NEW r \in Requests, Receive(r) PROVE EditingInv'
  BY <1>2, ReceiveStep DEF Receive
<1>3. ASSUME NEW r \in Requests, Serve(r) PROVE EditingInv'
  BY <1>3, ServeStep
<1>4. CASE ReceiveTransaction
  BY <1>4, ReceiveTransStep, ReceiveNewTransStep DEF ReceiveTransaction
<1>5. CASE ServeTransaction
  BY <1>5, ServeTransStep, ServeNewTransStep DEF ServeTransaction
<1>6. ASSUME NEW g \in Gestures, BeginGesture(g) \/ Defaults(g) \/ EndGesture(g) PROVE EditingInv'
  BY <1>6, BeginGestureStep, DefaultsStep, EndGestureStep
<1>7. ASSUME NEW r \in Operations, Press(r) PROVE EditingInv'
  BY <1>7, PressStep
<1>8. CASE Refresh \/ Unload \/ Load
  BY <1>8, RefreshStep, UnloadStep, LoadStep
<1>9. CASE UNCHANGED vars
  BY <1>9, StutterStep
<1> QED BY <1>1, <1>2, <1>3, <1>4, <1>5, <1>6, <1>7, <1>8, <1>9 DEF Next

\* A session that edits the configuration begins no form.
LEMMA NoFormsStep ==
  ASSUME Considerate, EditingInv, NoForms, [Next]_vars
  PROVE  NoForms'
<1> DEFINE Idle == \A e \in ActionEdits : ~InFlight(e)'
<1>0. /\ req \in [Requests -> RequestType] /\ Operations \subseteq Requests
      /\ \A e \in ActionEdits : /\ e \in Edits /\ e \in Requests /\ ~InFlight(e)
                               /\ e \notin Operations /\ e # "query" /\ e # "changes"
                               /\ fate[e] = "new"
  BY Names, JsonRpcTransactionsAssumption DEF EditingInv, TypeOK, RequestType, NoForms
<1>1. ASSUME NEW r \in Requests, InFlight(r), \A q \in Requests \ {r} : req'[q] = req[q]
      PROVE  Idle
  BY <1>0, <1>1 DEF InFlight
<1>2. ASSUME NEW R \in SUBSET Requests, NEW rq, NEW c, NEW d, NEW f, Start(R, rq, c, d, f),
             R \cap ActionEdits = {},
             \A e \in ActionEdits : rq[e].pc \notin {"trans", "new", "sent", "answered"}
      PROVE  Idle
  BY <1>0, <1>2 DEF Start, InFlight
<1>3. ASSUME NEW r \in Requests, InFlight(r)
      PROVE  \A e \in ActionEdits : Ended(r)[e].pc \notin {"trans", "new", "sent", "answered"}
  BY <1>0, <1>3, EndedIs DEF EditingInv, InFlight
<1>4. ASSUME NEW r \in Requests, GetTransaction(r) PROVE NoForms'
  <2>1. InFlight(r) /\ fate' = fate
    BY <1>4 DEF GetTransaction, CanGetTransaction, InFlight, server
  <2>2. \A q \in Requests \ {r} : req'[q] = req[q]
    BY <1>0, <1>4 DEF GetTransaction, Sent
  <2> QED BY <1>0, <1>1, <2>1, <2>2 DEF NoForms
<1>5. ASSUME NEW r \in Requests, ReceiveAnswer(r) PROVE NoForms'
  <2>1. fate' = fate
    BY <1>5 DEF ReceiveAnswer, ReceiveEdit, ReceiveChanges, ReceiveValidate, ReceiveEnd, server
  <2>2. InFlight(r) /\ "changes" \in Requests /\ "query" \in Requests
    BY <1>5, Names DEF ReceiveAnswer, ReceiveEdit, ReceiveChanges, ReceiveValidate, ReceiveEnd,
       Answered, InFlight
  <2>3. CASE ReceiveEdit(r)
    <3> DEFINE R == IF req[r].answer = "error" THEN {} ELSE Refetched({"changes"})
    <3>1. R \in SUBSET Requests /\ R \cap ActionEdits = {}
      BY <1>0, <2>2 DEF Refetched
    <3>2. Start(R, Ended(r), cached, subscribed, fetch)
      BY <2>3 DEF ReceiveEdit
    <3> HIDE DEF R
    <3> QED BY <1>0, <1>2, <1>3, <2>1, <2>2, <3>1, <3>2 DEF NoForms
  <2>4. CASE ReceiveChanges /\ r = "changes"
    <3>1. \A e \in ActionEdits : ~InFlight(e)'
      BY <1>0, <1>3, <2>2, <2>4 DEF ReceiveChanges, InFlight
    <3> QED BY <1>0, <2>1, <3>1 DEF NoForms
  <2>5. CASE ReceiveValidate /\ r = "apply"
    <3>1. \A e \in ActionEdits : ~InFlight(e)'
      <4>1. CASE req' = Ended("apply")
        BY <1>0, <1>3, <2>2, <2>5, <4>1 DEF InFlight
      <4>2. CASE req' # Ended("apply")
        <5>1. \A q \in Requests \ {r} : req'[q] = req[q]
          BY <1>0, <2>5, <4>2 DEF ReceiveValidate
        <5> QED BY <1>1, <2>2, <5>1
      <4> QED BY <4>1, <4>2
    <3> QED BY <1>0, <2>1, <3>1 DEF NoForms
  <2>6. CASE ReceiveEnd(r)
    <3>1. CASE req' = [req EXCEPT ![r] = [NoRequest EXCEPT !.pc = "rejected"]]
      <4>1. \A q \in Requests \ {r} : req'[q] = req[q]
        BY <1>0, <3>1
      <4> QED BY <1>0, <1>1, <2>1, <2>2, <4>1 DEF NoForms
    <3>2. CASE \E c, d, f : Start(Refetched(Invalidated(r)), Ended(r), c, d, f)
      <4>1. /\ Refetched(Invalidated(r)) \in SUBSET Requests
            /\ Refetched(Invalidated(r)) \cap ActionEdits = {}
        BY <1>0, <2>2 DEF Refetched, Invalidated
      <4> QED BY <1>0, <1>2, <1>3, <2>1, <2>2, <3>2, <4>1 DEF NoForms
    <3> QED BY <2>6, <3>1, <3>2 DEF ReceiveEnd
  <2> QED BY <1>5, <2>3, <2>4, <2>5, <2>6 DEF ReceiveAnswer
<1>6. ASSUME NEW r \in Requests, Serve(r) PROVE NoForms'
  <2>1. CASE r \in Edits /\ ServeEdit(r)
    <3>1. InFlight(r) /\ \A q \in Requests \ {r} : req'[q] = req[q]
      BY <1>0, <2>1 DEF ServeEdit, Answers, InFlight
    <3>2. \A e \in ActionEdits : e # r /\ fate'[e] = fate[e]
      BY <1>0, <2>1, <3>1 DEF ServeEdit, Moved
    <3> QED BY <1>0, <1>1, <3>1, <3>2 DEF NoForms
  <2>2. CASE r = "changes" /\ ServeChanges
    <3>1. InFlight(r) /\ fate' = fate /\ \A q \in Requests \ {r} : req'[q] = req[q]
      BY <1>0, <2>2 DEF ServeChanges, Answers, InFlight, server
    <3> QED BY <1>0, <1>1, <3>1 DEF NoForms
  <2>3. CASE r = "apply" /\ ServeValidate
    <3>1. InFlight(r) /\ fate' = fate /\ \A q \in Requests \ {r} : req'[q] = req[q]
      BY <1>0, <2>3 DEF ServeValidate, Answers, InFlight, server
    <3> QED BY <1>0, <1>1, <3>1 DEF NoForms
  <2>4. CASE r \in Operations /\ ServeEnd(r)
    <3>1. InFlight(r) /\ \A q \in Requests \ {r} : req'[q] = req[q]
      BY <1>0, <2>4 DEF ServeEnd, Answers, InFlight
    <3>2. req[r].th \in DOMAIN open /\ \A e \in open[req[r].th].edits : fate[e] = "open"
      BY <2>4, EndIs DEF EditingInv, OpenInv, W
    <3>3. \A e \in ActionEdits : fate'[e] = fate[e]
      BY <1>0, <2>4, <3>2 DEF ServeEnd, Moved
    <3> QED BY <1>0, <1>1, <3>1, <3>3 DEF NoForms
  <2> QED BY <1>6, <2>1, <2>2, <2>3, <2>4 DEF Serve
<1>7. CASE ReceiveTransaction
  <2>1. \A e \in ActionEdits : req'[e] = req[e]
    BY <1>0, <1>7 DEF ReceiveTransaction, ReceiveTrans, ReceiveNewTrans, InFlight
  <2> QED BY <1>0, <1>7, <2>1
          DEF ReceiveTransaction, ReceiveTrans, ReceiveNewTrans, server, InFlight, NoForms
<1>8. CASE ServeTransaction
  BY <1>0, <1>8 DEF ServeTransaction, ServeTrans, ServeNewTrans, server, InFlight, NoForms
<1>9. ASSUME NEW g \in Gestures, BeginGesture(g) \/ Defaults(g) PROVE NoForms'
  <2>1. PICK R \in {g.first, g.then} : Start(R, req, cached, subscribed, fetch)
    BY <1>9 DEF BeginGesture, Defaults
  <2>2. gesture[g] # "done" /\ fate' = fate
    BY <1>9 DEF BeginGesture, Defaults, server
  <2>3. R \in SUBSET Requests /\ R \cap ActionEdits = {}
    <3>1. Uses(g) \cap ActionEdits = {}
      BY <2>2, Disjoint
    <3> QED BY <3>1, GestureEdits, Names DEF Uses
  <2>4. \A e \in ActionEdits : req[e].pc \notin {"trans", "new", "sent", "answered"}
    BY <1>0 DEF InFlight
  <2> QED BY <1>0, <1>2, <2>1, <2>2, <2>3, <2>4 DEF NoForms
<1>10. ASSUME NEW g \in Gestures, EndGesture(g) PROVE NoForms'
  BY <1>0, <1>10 DEF EndGesture, server, InFlight, NoForms
<1>11. ASSUME NEW r \in Operations, Press(r) PROVE NoForms'
  <2>1. {r} \in SUBSET Requests /\ {r} \cap ActionEdits = {}
    BY <1>0
  <2>2. \A e \in ActionEdits : req[e].pc \notin {"trans", "new", "sent", "answered"}
    BY <1>0 DEF InFlight
  <2>3. Start({r}, req, cached, subscribed, fetch) /\ fate' = fate
    BY <1>11 DEF Press, server
  <2> QED BY <1>0, <1>2, <2>1, <2>2, <2>3 DEF NoForms
<1>12. CASE Refresh \/ Load
  <2>1. \A e \in ActionEdits : req'[e] = req[e]
    BY <1>0, <1>12 DEF Refresh, Load, Start
  <2> QED BY <1>0, <1>12, <2>1 DEF Refresh, Load, server, InFlight, NoForms
<1>13. CASE Unload
  <2>1. PICK A \in SUBSET Edits, E \in SUBSET W, r \in Operations : UnloadTo(A, E, r)
    BY <1>13, UnloadIs
  <2>2. \A e \in ActionEdits : e \notin A
    BY <1>0, <2>1 DEF UnloadTo, InFlight
  <2>3. \A e \in ActionEdits : fate'[e] = fate[e]
    BY <1>0, <2>1, <2>2 DEF UnloadTo
  <2>4. \A e \in ActionEdits : ~InFlight(e)'
    BY <1>0, <1>13 DEF Unload, InFlight, NoRequest
  <2> QED BY <1>0, <2>3, <2>4 DEF NoForms
<1>14. CASE UNCHANGED vars
  BY <1>14 DEF vars, server, InFlight, NoForms
<1> QED BY <1>4, <1>5, <1>6, <1>7, <1>8, <1>9, <1>10, <1>11, <1>12, <1>13, <1>14
        DEF Next, Continue, Receive

------------------------------------------------------------------------------
(* A session that fills in forms of actions.                                 *)

\* Nothing is in flight at first, and a transaction left over is empty.
LEMMA FillingInit ==
  ASSUME Considerate, Init, NEW S \in Scenarios, Fill(S),
         gesture = [g \in Gestures |-> IF g \in S THEN "ready" ELSE "done"]
  PROVE  FillingInv
<1>1. /\ TypeOK
      /\ \A t \in DOMAIN open : open[t] = [mode |-> "read_write", path |-> FALSE, edits |-> {}]
  BY TypesInit
<1>2. \A t \in DOMAIN open : t = 1 /\ opened = 1
  BY TypesInit
<1>3. \A r \in Requests : req[r] = NoRequest
  BY DEF Init
<1>4. \A g \in Gestures : gesture[g] \in {"ready", "done"} /\ (gesture[g] # "done" => g \in S)
  OBVIOUS
<1>5. FormsInv
  BY <1>4 DEF FormsInv
<1>6. FieldsInv /\ FateInv
  BY <1>3, <1>4, Names, GestureEdits, JsonRpcTransactionsAssumption
     DEF FieldsInv, FateInv, Init, InFlight, Underway, NoRequest
<1>7. FillOpenInv
  BY <1>1, <1>2 DEF FillOpenInv, Main, W
<1>8. FillRequestInv /\ FillOperationInv /\ AwayInv
  BY <1>3, <1>4, Names DEF FillRequestInv, FillOperationInv, AwayInv, Init, InFlight, Operating,
     Ending, NoRequest
<1>9. FillCacheInv /\ FillKnownInv /\ FillPendingInv /\ FillFlagInv
  BY <1>3, Names DEF FillCacheInv, FillKnownInv, FillPendingInv, FillFlagInv, FillRight, Init,
     NoFetch, NoPending, NoRequest
<1> QED BY <1>1, <1>5, <1>6, <1>7, <1>8, <1>9 DEF FillingInv

\* What the server lists is right.
LEMMA FillListed ==
  ASSUME FillingInv
  PROVE  Listed \in SUBSET Known /\ FillRight(Listed) /\ Main \subseteq Ids(Listed)
<1> USE DEF FillingInv
<1>1. \A t \in DOMAIN open : /\ t \in Th /\ t <= opened
         /\ open[t] \in [mode: Modes, path: BOOLEAN, edits: SUBSET Edits]
  BY DEF TypeOK, FillOpenInv
<1>2. \A t \in Listed : \E u \in DOMAIN open :
        t = [th |-> u, mode |-> open[u].mode, path |-> open[u].path]
  BY DEF Listed
<1>3. Listed \in SUBSET Known
  BY <1>1, <1>2 DEF Known
<1>4. FillRight(Listed)
  BY <1>1, <1>2 DEF FillRight, Main, MainOf, W, RW
<1>5. ASSUME NEW t \in Main PROVE t \in Ids(Listed)
  <2>1. [th |-> t, mode |-> open[t].mode, path |-> open[t].path] \in Listed
    BY <1>5 DEF Main, W, Listed
  <2> QED BY <2>1 DEF Ids
<1> QED BY <1>3, <1>4, <1>5

\* The answer of get_trans is right when it is given.
LEMMA FillServeTrans ==
  ASSUME FillingInv, ServeTrans
  PROVE  FillingInv'
<1> USE DEF FillingInv, ServeTrans, server, user, flags, cache
<1>1. /\ fetch.state = "asked" /\ fetch' = [state |-> "answered", list |-> Listed]
      /\ UNCHANGED <<open, opened, fate, trans, cached, subscribed, pendingTrans, req,
                     hasWriteTransaction, commitInProgress, gesture, page, visits, covered>>
  OBVIOUS
<1>2. /\ Main' = Main /\ MainOf(trans)' = MainOf(trans) /\ Filling' = Filling
      /\ Operating' = Operating /\ \A r \in Operations : Ending(r)' = Ending(r)
      /\ fetch'.state = "answered" /\ fetch'.list = Listed /\ fetch' # NoFetch
  BY <1>1 DEF Main, MainOf, W, RW, Filling, Operating, InFlight, Ending, NoFetch
<1>3. TypeOK'
  BY <1>1, FillListed DEF TypeOK
<1>4. FormsInv' /\ FieldsInv' /\ FillRequestInv' /\ FateInv' /\ FillOpenInv'
  <2>1. FillRequestInv' /\ FillOpenInv'
    BY <1>1, <1>2 DEF FillRequestInv, FillOpenInv, InFlight
  <2>2. FieldsInv'
    BY <1>1, <1>2 DEF FieldsInv, InFlight
  <2>3. FateInv'
    BY <1>1 DEF FateInv, InFlight, Underway
  <2>4. FormsInv'
    BY <1>1 DEF FormsInv
  <2> QED BY <2>1, <2>2, <2>3, <2>4
<1>5. FillCacheInv' /\ FillKnownInv'
  BY <1>1, <1>2, FillListed DEF FillCacheInv, FillKnownInv, FillRight, MainOf, RW, Ids
<1>6. FillPendingInv' /\ FillOperationInv' /\ AwayInv'
  BY <1>1, <1>2 DEF FillPendingInv, FillOperationInv, AwayInv, InFlight, NoFetch
<1>7. FillFlagInv'
  BY <1>1, <1>2 DEF FillFlagInv, InFlight
<1> QED BY <1>3, <1>4, <1>5, <1>6, <1>7

\* A transaction is opened for a form, or to read.
LEMMA FillServeNewTrans ==
  ASSUME FillingInv, ServeNewTrans
  PROVE  FillingInv'
<1> USE DEF FillingInv, ServeNewTrans, server, user, flags, cache
<1> DEFINE n == opened + 1
           new == [mode |-> pendingTrans.mode, path |-> pendingTrans.path, edits |-> {}]
<1>1. /\ pendingTrans.state = "asked" /\ n \in Th /\ n \notin DOMAIN open
      /\ opened' = n /\ opened \in Nat /\ opened' \in 0..MaxTh
      /\ DOMAIN open' = DOMAIN open \cup {n} /\ open'[n] = new
      /\ \A t \in DOMAIN open : open'[t] = open[t]
      /\ UNCHANGED <<fate, trans, cached, subscribed, fetch, req,
                     hasWriteTransaction, commitInProgress, gesture, page, visits, covered>>
  <2>1. \A t \in DOMAIN open : t \in Nat /\ t <= opened
    BY JsonRpcTransactionsAssumption DEF TypeOK, FillOpenInv, Th
  <2>2. /\ opened \in Nat /\ n \in Th /\ n \notin DOMAIN open /\ n \in 0..MaxTh
    BY <2>1, JsonRpcTransactionsAssumption DEF TypeOK, Th
  <2>3. /\ open' = [t \in DOMAIN open \cup {n} |-> IF t = n THEN new ELSE open[t]]
        /\ opened' = n /\ pendingTrans.state = "asked"
    OBVIOUS
  <2> HIDE DEF new
  <2> QED BY <2>2, <2>3
<1>2. /\ new \in [mode: Modes, path: BOOLEAN, edits: SUBSET Edits]
      /\ new.mode = pendingTrans.mode /\ new.path = pendingTrans.path /\ new.edits = {}
  BY DEF TypeOK
<1>3. /\ pendingTrans'.state = "answered" /\ pendingTrans'.th = n
      /\ pendingTrans'.mode = pendingTrans.mode /\ pendingTrans'.path = pendingTrans.path
      /\ pendingTrans' \in [state: {"none", "asked", "answered"}, mode: Modes,
                            path: BOOLEAN, th: Th \cup {NoTh}]
  BY <1>1 DEF TypeOK
<1> HIDE DEF new
<1>4. /\ Main' = Main /\ n \notin Main /\ Filling' = Filling
      /\ MainOf(trans)' = MainOf(trans) /\ Operating' = Operating
      /\ \A r \in Operations : Ending(r)' = Ending(r)
  <2>1. new.mode = "read_write" => new.path
    BY <1>1, <1>2 DEF FillPendingInv
  <2>2. Main' = Main /\ n \notin Main
    BY <1>1, <2>1 DEF Main, W
  <2> QED BY <1>1, <2>2 DEF MainOf, RW, Filling, Operating, InFlight, Ending
<1>5. TypeOK'
  <2>1. \A t \in DOMAIN open' :
          open'[t] \in [mode: Modes, path: BOOLEAN, edits: SUBSET Edits]
    BY <1>1, <1>2 DEF TypeOK
  <2> QED BY <1>1, <1>3, <2>1 DEF TypeOK
<1>6. FormsInv' /\ FieldsInv' /\ FillRequestInv' /\ FateInv'
  <2>1. FillRequestInv'
    BY <1>1 DEF FillRequestInv, InFlight
  <2>2. FieldsInv'
    BY <1>1, <1>4 DEF FieldsInv, InFlight
  <2>3. FateInv'
    BY <1>1 DEF FateInv, InFlight, Underway
  <2>4. FormsInv'
    BY <1>1 DEF FormsInv
  <2> QED BY <2>1, <2>2, <2>3, <2>4
<1>7. FillOpenInv'
  <2>1. \A t \in DOMAIN open : t \in Nat
    BY JsonRpcTransactionsAssumption DEF TypeOK, Th
  <2>2. \A t \in DOMAIN open' : t <= opened' /\ open'[t].edits \subseteq ActionEdits
    BY <1>1, <1>2, <2>1 DEF FillOpenInv
  <2>3. \A t \in Main' : open'[t].edits = {}
    BY <1>1, <1>4 DEF FillOpenInv, Main, W
  <2> QED BY <1>4, <2>2, <2>3 DEF FillOpenInv
<1>8. FillCacheInv'
  <2>1. \A t \in Known : t.th \in Nat
    BY JsonRpcTransactionsAssumption DEF Known, Th
  <2>2. \A t \in trans : t \in Known
    BY DEF TypeOK
  <2>3. \A t \in fetch.list : t \in Known
    BY DEF TypeOK
  <2> QED BY <1>1, <1>4, <2>1, <2>2, <2>3 DEF FillCacheInv, FillRight, MainOf, RW
<1>9. FillKnownInv' /\ FillPendingInv'
  BY <1>1, <1>3, <1>4 DEF FillKnownInv, FillPendingInv
<1>10. FillOperationInv' /\ FillFlagInv' /\ AwayInv'
  BY <1>1, <1>4 DEF FillOperationInv, FillFlagInv, AwayInv, InFlight, NoPending
<1> QED BY <1>5, <1>6, <1>7, <1>8, <1>9, <1>10

\* The list received tells the truth.
LEMMA FillReceiveTrans ==
  ASSUME FillingInv, ReceiveTrans
  PROVE  FillingInv'
<1> USE DEF FillingInv, ReceiveTrans, server, user, flags, cache
<1>1. /\ fetch.state = "answered" /\ fetch' = NoFetch /\ trans' = fetch.list /\ cached'
      /\ UNCHANGED <<open, opened, fate, subscribed, pendingTrans, req,
                     hasWriteTransaction, commitInProgress, gesture, page, visits, covered>>
  OBVIOUS
<1>2. /\ Main' = Main /\ Filling' = Filling
      /\ Operating' = Operating /\ \A r \in Operations : Ending(r)' = Ending(r)
      /\ fetch'.state = "none" /\ NoFetch # fetch
  BY <1>1 DEF Main, W, Filling, Operating, InFlight, Ending, NoFetch
<1>3. TypeOK'
  BY <1>1 DEF TypeOK, NoFetch
<1>4. FormsInv' /\ FieldsInv' /\ FillRequestInv' /\ FateInv' /\ FillOpenInv'
  <2>1. FillRequestInv' /\ FillOpenInv'
    BY <1>1, <1>2 DEF FillRequestInv, FillOpenInv, InFlight
  <2>2. FieldsInv'
    BY <1>1, <1>2 DEF FieldsInv, InFlight
  <2>3. FateInv'
    BY <1>1 DEF FateInv, InFlight, Underway
  <2>4. FormsInv'
    BY <1>1 DEF FormsInv
  <2> QED BY <2>1, <2>2, <2>3, <2>4
<1>5. FillCacheInv' /\ FillKnownInv'
  BY <1>1, <1>2 DEF FillCacheInv, FillKnownInv, FillRight, MainOf, RW, Ids
<1>6. FillPendingInv' /\ AwayInv'
  BY <1>1, <1>2 DEF FillPendingInv, AwayInv
<1>7. FillOperationInv'
  <2>1. \A r \in Operations : req[r].pc # "sent"
    BY <1>1 DEF FillOperationInv, FillCacheInv
  <2> QED BY <1>1, <1>2, <2>1 DEF FillOperationInv, InFlight
<1>8. FillFlagInv'
  <2>1. MainOf(trans) = {}
    BY <1>1 DEF FillCacheInv, FillRight, MainOf, RW
  <2> QED BY <1>1, <1>2, <2>1 DEF FillFlagInv, InFlight
<1> QED BY <1>3, <1>4, <1>5, <1>6, <1>7, <1>8

\* The server answers request r: only the end of a transaction takes one away.
LEMMA FillAnswer ==
  ASSUME Considerate, FillingInv, NEW r \in Requests, req[r].pc = "sent",
         NEW a \in {"ok", "error"}, req' = Answers(r, a), r \in Operations => a = "ok",
         IF r \in Operations /\ Ending(r) THEN Main' = {} ELSE Main' = Main,
         \A t \in DOMAIN open \ Main : t \in DOMAIN open',
         UNCHANGED <<opened, trans, cached, subscribed, fetch, pendingTrans,
                     hasWriteTransaction, commitInProgress, gesture, page, visits>>
  PROVE  /\ FormsInv' /\ FillRequestInv' /\ FillCacheInv' /\ FillKnownInv' /\ FillPendingInv'
         /\ FillOperationInv' /\ FillFlagInv' /\ AwayInv'
         /\ req' \in [Requests -> RequestType]
         /\ \A q \in Requests : req'[q].pc = "sent" => req'[q].th # NoTh
         /\ \A q \in Requests : InFlight(q)' <=> InFlight(q)
         /\ \A q \in Requests \ {r} : Underway(q)' <=> Underway(q)
         /\ Filling' = Filling
<1> USE DEF FillingInv
<1>0. /\ Operations \subseteq Requests /\ Edits \subseteq Requests /\ "query" \in Requests
      /\ "apply" \in Operations /\ "revert" \in Operations /\ r # "query"
      /\ Operations = {"revert", "apply"}
      /\ \A e \in Edits : e \notin Operations
  BY Names DEF FillRequestInv
<1>1. /\ req' \in [Requests -> RequestType]
      /\ req'[r].pc = "answered" /\ req'[r].answer = a /\ req'[r].th = req[r].th
      /\ req'[r].method = req[r].method
      /\ \A q \in Requests \ {r} : req'[q] = req[q]
  BY AnswerIs
<1>2. /\ \A q \in Requests : InFlight(q)' <=> InFlight(q)
      /\ \A q \in Requests \ {r} : Underway(q)' <=> Underway(q)
      /\ \A q \in Requests : req'[q].pc = "trans" <=> req[q].pc = "trans"
      /\ \A q \in Requests : req'[q].pc = "sent" => q # r /\ req[q].pc = "sent"
      /\ \A q \in Requests : req'[q].th = req[q].th
      /\ \A q \in Requests : Ending(q)' <=> Ending(q)
      /\ Filling' = Filling /\ MainOf(trans)' = MainOf(trans)
  BY <1>1 DEF InFlight, Underway, Ending, Filling, MainOf, RW
<1>3. Operating' = Operating
  BY <1>0, <1>2 DEF Operating
<1>4. \A q \in Requests : req'[q].pc = "sent" => req'[q].th # NoTh
  BY <1>1, <1>2 DEF TypeOK
<1>5. FormsInv'
  BY DEF FormsInv
<1>6. FillRequestInv'
  <2>1. \A q \in Requests : InFlight(q)' =>
          /\ req'[q].method = MethodOf(q) \/ (q = "apply" /\ req'[q].method = "commit")
          /\ req'[q].pc # "answered" => req'[q].answer = "none"
          /\ req'[q].pc = "new" => q \in Edits \cup {"query"}
    BY <1>1, <1>2 DEF FillRequestInv
  <2>2. \A o \in Operations : req'[o].pc = "answered" => req'[o].answer \in {"ok", "none"}
    BY <1>0, <1>1 DEF FillRequestInv
  <2>3. \A e \in Edits : req'[e].pc = "answered" => req'[e].answer # "none"
    BY <1>0, <1>1 DEF FillRequestInv
  <2>4. req'["query"].pc \in {"idle", "trans", "new"}
    BY <1>0, <1>1 DEF FillRequestInv
  <2> QED BY <2>1, <2>2, <2>3, <2>4 DEF FillRequestInv
<1>7. CASE ~(r \in Operations /\ Ending(r))
  <2>1. Main' = Main
    BY <1>7
  <2>2. FillCacheInv' /\ FillKnownInv'
    BY <1>0, <1>2, <2>1 DEF FillCacheInv, FillKnownInv, FillRight, MainOf, RW, Ids
  <2>3. FillPendingInv' /\ FillOperationInv'
    BY <1>0, <1>1, <1>2, <1>3, <1>7, <2>1 DEF FillPendingInv, FillOperationInv
  <2>4. FillFlagInv' /\ AwayInv'
    BY <1>0, <1>1, <1>2, <2>1 DEF FillFlagInv, AwayInv, NoRequest
  <2> QED BY <1>1, <1>2, <1>4, <1>5, <1>6, <2>2, <2>3, <2>4
<1>8. CASE r \in Operations /\ Ending(r)
  <2>1. Main' = {} /\ Main = {req[r].th} /\ cached /\ fetch.state = "none"
    BY <1>8 DEF FillOperationInv, FillOpenInv, FillCacheInv
  <2>2. MainOf(trans) = {}
    BY <1>8, <2>1 DEF FillOperationInv, FillCacheInv, FillRight, MainOf, RW, Ids
  <2>3. FillCacheInv' /\ FillKnownInv'
    BY <1>2, <2>1, <2>2 DEF FillCacheInv, FillKnownInv, FillRight
  <2>4. \A o \in Operations \ {r} : ~InFlight(o)
    BY <1>0, <1>8 DEF FillOperationInv, InFlight
  <2>5. FillPendingInv'
    BY <2>1 DEF FillPendingInv
  <2>6. FillOperationInv'
    <3>1. \A o \in Operations : req'[o].pc = "sent" => FALSE
      BY <1>0, <1>2, <2>4 DEF InFlight
    <3> QED BY <1>0, <1>2, <1>3, <2>1, <3>1 DEF FillOperationInv
  <2>7. FillFlagInv' /\ AwayInv'
    BY <1>0, <1>1, <1>2, <1>8, <2>1 DEF FillFlagInv, AwayInv, NoRequest
  <2> QED BY <1>1, <1>2, <1>4, <1>5, <1>6, <2>3, <2>5, <2>6, <2>7
<1> QED BY <1>7, <1>8

\* The number of changes is answered.
LEMMA FillServeChanges ==
  ASSUME Considerate, FillingInv, ServeChanges
  PROVE  FillingInv'
<1> USE DEF FillingInv, ServeChanges, server, user, flags, cache
<1>0. "changes" \in Requests /\ "changes" \notin Operations /\ "changes" \notin Edits
      /\ Edits \subseteq Requests \ {"changes"}
  BY Names DEF Operations
<1>1. PICK a \in {"ok", "error"} : req' = Answers("changes", a)
  OBVIOUS
<1>2. Main' = Main
  BY DEF Main, W
<1>3. /\ FormsInv' /\ FillRequestInv' /\ FillCacheInv' /\ FillKnownInv' /\ FillPendingInv'
      /\ FillOperationInv' /\ FillFlagInv' /\ AwayInv'
      /\ req' \in [Requests -> RequestType]
      /\ \A q \in Requests : req'[q].pc = "sent" => req'[q].th # NoTh
      /\ \A e \in Edits : (InFlight(e)' <=> InFlight(e)) /\ (Underway(e)' <=> Underway(e))
      /\ Filling' = Filling
  BY <1>0, <1>1, <1>2, FillAnswer
<1>4. TypeOK'
  BY <1>3 DEF TypeOK, RequestType
<1>5. FieldsInv' /\ FillOpenInv'
  BY <1>2, <1>3 DEF FieldsInv, FillOpenInv
<1>6. FateInv'
  BY <1>3, GestureEdits DEF FateInv
<1> QED BY <1>3, <1>4, <1>5, <1>6

\* The validation finds nothing to refuse.
LEMMA FillServeValidate ==
  ASSUME Considerate, FillingInv, ServeValidate
  PROVE  FillingInv'
<1> USE DEF FillingInv, ServeValidate, server, user, flags, cache
<1>0. "apply" \in Requests /\ "apply" \in Operations /\ Edits \subseteq Requests \ {"apply"}
  BY Names
<1>1. req["apply"].pc = "sent" /\ req["apply"].th \in Main /\ ~Ending("apply")
  BY <1>0 DEF FillOperationInv, Ending
<1>2. req' = Answers("apply", "ok")
  BY <1>1 DEF Fault, Main, W, FillOpenInv
<1>3. Main' = Main
  BY DEF Main, W
<1>4. /\ FormsInv' /\ FillRequestInv' /\ FillCacheInv' /\ FillKnownInv' /\ FillPendingInv'
      /\ FillOperationInv' /\ FillFlagInv' /\ AwayInv'
      /\ req' \in [Requests -> RequestType]
      /\ \A q \in Requests : req'[q].pc = "sent" => req'[q].th # NoTh
      /\ \A e \in Edits : (InFlight(e)' <=> InFlight(e)) /\ (Underway(e)' <=> Underway(e))
      /\ Filling' = Filling
  BY <1>0, <1>1, <1>2, <1>3, FillAnswer
<1>5. TypeOK'
  BY <1>4 DEF TypeOK, RequestType
<1>6. FieldsInv' /\ FillOpenInv'
  BY <1>3, <1>4 DEF FieldsInv, FillOpenInv
<1>7. FateInv'
  BY <1>4, GestureEdits DEF FateInv
<1> QED BY <1>4, <1>5, <1>6, <1>7

\* The transaction that is ended is the only one of the configuration, and has
\* no edits.
LEMMA FillEndIs ==
  ASSUME Considerate, FillingInv, NEW r \in Operations, ServeEnd(r)
  PROVE  /\ req[r].pc = "sent" /\ Ending(r) /\ req' = Answers(r, "ok")
         /\ Main = {req[r].th} /\ open' = Without(req[r].th) /\ fate' = fate /\ covered' = {}
<1> DEFINE t == req[r].th
<1>1. req[r].pc = "sent" /\ Ending(r) /\ t \in Main /\ Main = {t} /\ t \in DOMAIN open
  BY DEF ServeEnd, Ending, FillingInv, FillOperationInv, FillOpenInv, Main, W
<1>2. open[t].edits = {}
  BY <1>1 DEF FillingInv, FillOpenInv
<1>3. Fault(r, t) = "none"
  BY <1>1, <1>2 DEF Fault
<1>4. r \notin Refused
  BY DEF Considerate
<1>5. covered = {}
  BY DEF FillingInv, FieldsInv
<1>6. Moved(open[t].edits, IF r = "apply" THEN "running" ELSE "dropped") = fate
  BY <1>2 DEF Moved, FillingInv, TypeOK
<1> QED BY <1>1, <1>3, <1>4, <1>5, <1>6 DEF ServeEnd

\* The end of the transaction leaves none of the configuration.
LEMMA FillServeEnd ==
  ASSUME Considerate, FillingInv, NEW r \in Operations, ServeEnd(r)
  PROVE  FillingInv'
<1> USE DEF FillingInv, server, user, flags, cache
<1> DEFINE t == req[r].th
<1>0. r \in Requests /\ Edits \subseteq Requests \ {r}
  BY Names
<1>1. /\ req[r].pc = "sent" /\ Ending(r) /\ req' = Answers(r, "ok")
      /\ Main = {t} /\ fate' = fate /\ covered' = {}
      /\ DOMAIN open' = DOMAIN open \ {t} /\ \A u \in DOMAIN open' : open'[u] = open[u]
      /\ UNCHANGED <<opened, trans, cached, subscribed, fetch, pendingTrans,
                     hasWriteTransaction, commitInProgress, gesture, page, visits>>
  BY FillEndIs DEF ServeEnd, Without
<1>2. Main' = {} /\ \A u \in DOMAIN open \ Main : u \in DOMAIN open'
  BY <1>1 DEF Main, W
<1>3. /\ FormsInv' /\ FillRequestInv' /\ FillCacheInv' /\ FillKnownInv' /\ FillPendingInv'
      /\ FillOperationInv' /\ FillFlagInv' /\ AwayInv'
      /\ req' \in [Requests -> RequestType]
      /\ \A q \in Requests : req'[q].pc = "sent" => req'[q].th # NoTh
      /\ \A e \in Edits : (InFlight(e)' <=> InFlight(e)) /\ (Underway(e)' <=> Underway(e))
      /\ Filling' = Filling
  BY <1>0, <1>1, <1>2, FillAnswer
<1>4. TypeOK'
  BY <1>1, <1>3 DEF TypeOK, RequestType
<1>5. FieldsInv' /\ FillOpenInv'
  BY <1>1, <1>2, <1>3 DEF FieldsInv, FillOpenInv
<1>6. FateInv'
  BY <1>1, <1>3, GestureEdits DEF FateInv
<1> QED BY <1>3, <1>4, <1>5, <1>6

\* A field is taken by the transaction of its form, or refused.
LEMMA FillServeEdit ==
  ASSUME Considerate, FillingInv, NEW e \in Edits, ServeEdit(e)
  PROVE  FillingInv'
<1> USE DEF FillingInv, server, user, flags, cache
<1> DEFINE t == req[e].th
<1>0. e \in Requests /\ e \notin Operations /\ Edits \subseteq Requests
  BY Names
<1>1. req[e].pc = "sent" /\ e \in ActionEdits /\ InFlight(e) /\ Underway(e) /\ actionPath(e)
  BY DEF ServeEdit, InFlight, Underway, FieldsInv, actionPath
<1>2. PICK a \in {"ok", "error"}, f \in {"open", "refused"} :
        req' = Answers(e, a) /\ fate' = Moved({e}, f)
  BY DEF ServeEdit
<1>3. UNCHANGED <<opened, trans, cached, subscribed, fetch, pendingTrans,
                  hasWriteTransaction, commitInProgress, gesture, page, visits, covered>>
  BY DEF ServeEdit
<1>4. /\ DOMAIN open' = DOMAIN open
      /\ \A u \in DOMAIN open :
           /\ open'[u] \in [mode: Modes, path: BOOLEAN, edits: SUBSET Edits]
           /\ open'[u].mode = open[u].mode /\ open'[u].path = open[u].path
           /\ open'[u].edits \subseteq open[u].edits \cup {e}
           /\ ~open[u].path => open'[u] = open[u]
  <2>1. \A u \in DOMAIN open : open[u] \in [mode: Modes, path: BOOLEAN, edits: SUBSET Edits]
    BY DEF TypeOK
  <2>2. CASE UNCHANGED open
    BY <2>1, <2>2
  <2>3. CASE Accepts(e) /\ open' = [open EXCEPT ![t].edits = @ \cup {e}]
    <3>1. t \in DOMAIN open /\ open[t].path
      BY <1>1, <2>3 DEF Accepts
    <3>2. open' = [open EXCEPT ![t] = [open[t] EXCEPT !.edits = open[t].edits \cup {e}]]
      BY <2>3
    <3>3. /\ [open[t] EXCEPT !.edits = open[t].edits \cup {e}]
               \in [mode: Modes, path: BOOLEAN, edits: SUBSET Edits]
          /\ [open[t] EXCEPT !.edits = open[t].edits \cup {e}].mode = open[t].mode
          /\ [open[t] EXCEPT !.edits = open[t].edits \cup {e}].path = open[t].path
          /\ [open[t] EXCEPT !.edits = open[t].edits \cup {e}].edits = open[t].edits \cup {e}
      BY <2>1, <3>1
    <3> QED BY <2>1, <3>1, <3>2, <3>3
  <2> QED BY <2>2, <2>3 DEF ServeEdit
<1>5. Main' = Main
  BY <1>4 DEF Main, W
<1>6. /\ FormsInv' /\ FillRequestInv' /\ FillCacheInv' /\ FillKnownInv' /\ FillPendingInv'
      /\ FillOperationInv' /\ FillFlagInv' /\ AwayInv'
      /\ req' \in [Requests -> RequestType]
      /\ \A q \in Requests : req'[q].pc = "sent" => req'[q].th # NoTh
      /\ \A x \in Edits : InFlight(x)' <=> InFlight(x)
      /\ \A x \in Edits \ {e} : Underway(x)' <=> Underway(x)
      /\ Filling' = Filling
  BY <1>0, <1>1, <1>2, <1>3, <1>4, <1>5, FillAnswer
<1>7. /\ fate' \in [Edits -> {"new", "open", "running", "dropped", "refused"}]
      /\ fate'[e] # "new" /\ \A x \in Edits \ {e} : fate'[x] = fate[x]
  BY <1>2 DEF Moved, TypeOK
<1>8. TypeOK'
  BY <1>3, <1>4, <1>6, <1>7 DEF TypeOK, RequestType
<1>9. FieldsInv'
  BY <1>1, <1>3, <1>6, <1>7 DEF FieldsInv
<1>10. FillOpenInv'
  <2>1. \A u \in Main : open'[u] = open[u]
    BY <1>4 DEF Main, W
  <2> QED BY <1>1, <1>3, <1>4, <1>5, <2>1 DEF FillOpenInv
<1>11. FateInv'
  <2>1. ~Underway(e)'
    BY <1>0, <1>2, AnswerIs DEF Underway
  <2>2. ASSUME NEW g \in Gestures
        PROVE  /\ gesture[g] = "ready" => e \notin Uses(g)
               /\ gesture[g] = "first" => e \notin g.then
    BY <1>1 DEF FateInv
  <2> QED BY <1>3, <1>6, <1>7, <2>1, <2>2, GestureEdits DEF FateInv
<1> QED BY <1>6, <1>8, <1>9, <1>10, <1>11

\* Requests R start that were not in flight, after others have ended.
LEMMA FillStart ==
  ASSUME Considerate, FillingInv, NEW R \in SUBSET Requests, NEW rq \in [Requests -> RequestType],
         Start(R, rq, cached, subscribed, fetch),
         \A q \in Requests : \/ rq[q] = req[q]
                             \/ /\ q \notin Operations /\ q # "query" /\ req[q].pc = "answered"
                                /\ rq[q].pc \in {"idle", "done", "rejected"},
         \A q \in R : ~InFlight(q),
         R \cap Edits \subseteq ActionEdits, R \cap Edits # {} => Filling',
         \A q \in R \cap Operations : R = {q} /\ ~Operating /\ hasWriteTransaction,
         \A e \in Edits : InFlight(e) => Filling',
         hasWriteTransaction /\ Filling => Filling',
         commitInProgress' => commitInProgress \/ "apply" \in R, commitInProgress' \in BOOLEAN,
         page' \in {"here", "leaving", "away"}, visits' \in 0..MaxVisits,
         page' = "here" => page = "here" \/ "query" \in R,
         gesture' \in [Gestures -> {"ready", "first", "then", "done"}],
         covered' = {},
         UNCHANGED <<open, opened, fate, trans, cached, pendingTrans, hasWriteTransaction>>
  PROVE  /\ TypeOK' /\ FieldsInv' /\ FillRequestInv' /\ FillOpenInv' /\ FillCacheInv'
         /\ FillKnownInv' /\ FillPendingInv' /\ FillOperationInv' /\ FillFlagInv'
         /\ \A e \in Edits : Underway(e)' <=> (Underway(e) \/ e \in R)
         /\ \A e \in Edits : InFlight(e)' => InFlight(e) \/ e \in R
<1> USE DEF FillingInv
<1>0. /\ Operations \subseteq Requests /\ Edits \subseteq Requests /\ "query" \in Requests
      /\ "apply" \in Operations /\ "revert" \in Operations
      /\ Operations = {"revert", "apply"}
      /\ \A e \in Edits : e \notin Operations
  BY Names
<1>1. /\ req' \in [Requests -> RequestType]
      /\ \A q \in R : /\ req'[q].pc = "trans" /\ req'[q].method = MethodOf(q)
                      /\ req'[q].answer = "none" /\ req'[q].th = NoTh
      /\ \A q \in Requests \ R : req'[q] = rq[q]
      /\ subscribed' \in BOOLEAN /\ (subscribed \/ R # {} => subscribed')
      /\ fetch' \in [state: {"none", "asked", "answered"}, list: SUBSET Known]
      /\ fetch' = fetch \/ (fetch'.state = "asked" /\ fetch'.list = {})
      /\ cached => fetch' = fetch
      /\ fetch.state # "none" => fetch' = fetch
      /\ R # {} => cached \/ fetch'.state # "none"
  BY StartIs
<1>2. \A q \in Requests \ R : \/ req'[q] = req[q]
                              \/ /\ q \notin Operations /\ q # "query" /\ req[q].pc = "answered"
                                 /\ req'[q].pc \in {"idle", "done", "rejected"}
  BY <1>1
<1>3. /\ Main' = Main /\ MainOf(trans)' = MainOf(trans)
      /\ \A q \in R : InFlight(q)' /\ Underway(q)' /\ ~Ending(q)' /\ ~Ending(q)
      /\ \A q \in Requests \ R : InFlight(q)' => InFlight(q) /\ req'[q] = req[q]
      /\ \A q \in Requests \ R : Underway(q)' <=> Underway(q)
      /\ \A q \in Requests : req'[q].pc = "trans" <=> (req[q].pc = "trans" \/ q \in R)
      /\ \A q \in Requests : req'[q].pc = "sent" => q \notin R /\ req'[q] = req[q]
      /\ \A q \in Requests : req'[q].pc = "answered" => q \notin R /\ req'[q] = req[q]
      /\ \A q \in Operations \ R : req'[q] = req[q]
  <2>1. Main' = Main /\ MainOf(trans)' = MainOf(trans)
    BY DEF Main, MainOf, W, RW
  <2>2. \A q \in R : InFlight(q)' /\ Underway(q)' /\ ~Ending(q)' /\ ~Ending(q)
    BY <1>1 DEF InFlight, Underway, Ending
  <2>3. \A q \in Requests \ R : InFlight(q)' => InFlight(q) /\ req'[q] = req[q]
    BY <1>2 DEF InFlight
  <2>4. \A q \in Requests \ R : Underway(q)' <=> Underway(q)
    BY <1>2 DEF Underway
  <2>5. \A q \in Requests : req'[q].pc = "trans" <=> (req[q].pc = "trans" \/ q \in R)
    BY <1>1, <1>2
  <2>6. /\ \A q \in Requests : req'[q].pc = "sent" => q \notin R /\ req'[q] = req[q]
        /\ \A q \in Requests : req'[q].pc = "answered" => q \notin R /\ req'[q] = req[q]
    BY <1>1, <1>2
  <2>7. \A q \in Operations \ R : req'[q] = req[q]
    BY <1>0, <1>2
  <2> QED BY <2>1, <2>2, <2>3, <2>4, <2>5, <2>6, <2>7
<1>4. /\ \A q \in Operations : Ending(q)' <=> Ending(q)
      /\ \A q \in Operations : InFlight(q)' <=> (InFlight(q) \/ q \in R)
  <2>1. \A q \in Operations \ R : (Ending(q)' <=> Ending(q)) /\ (InFlight(q)' <=> InFlight(q))
    BY <1>3 DEF Ending, InFlight
  <2> QED BY <1>0, <1>3, <2>1
<1>5. TypeOK'
  <2>1. \A q \in Requests : req'[q].pc = "sent" => req'[q].th # NoTh
    BY <1>3 DEF TypeOK
  <2> QED BY <1>1, <2>1 DEF TypeOK, RequestType
<1>6. \A e \in Edits : Underway(e)' <=> (Underway(e) \/ e \in R)
  BY <1>0, <1>3
<1>7. \A e \in Edits : InFlight(e)' => InFlight(e) \/ e \in R
  BY <1>0, <1>3
<1>8. FieldsInv'
  <2>1. \A e \in Edits \ ActionEdits : ~InFlight(e)' /\ fate'[e] = "new"
    BY <1>7 DEF FieldsInv
  <2>2. \A e \in Edits : InFlight(e)' => Filling'
    BY <1>7
  <2> QED BY <2>1, <2>2 DEF FieldsInv
<1>9. FillRequestInv'
  <2>1. ASSUME NEW q \in Requests, InFlight(q)'
        PROVE  /\ req'[q].method = MethodOf(q) \/ (q = "apply" /\ req'[q].method = "commit")
               /\ req'[q].pc # "answered" => req'[q].answer = "none"
               /\ req'[q].pc = "new" => q \in Edits \cup {"query"}
    <3>1. CASE q \in R
      BY <1>1, <3>1
    <3>2. CASE q \notin R
      BY <1>3, <2>1, <3>2 DEF FillRequestInv
    <3> QED BY <3>1, <3>2
  <2>2. /\ \A o \in Operations : req'[o].pc = "answered" => req'[o].answer \in {"ok", "none"}
        /\ \A e \in Edits : req'[e].pc = "answered" => req'[e].answer # "none"
    BY <1>0, <1>3 DEF FillRequestInv
  <2>3. req'["query"].pc \in {"idle", "trans", "new"}
    BY <1>0, <1>1, <1>2 DEF FillRequestInv
  <2> QED BY <2>1, <2>2, <2>3 DEF FillRequestInv
<1>10. FillOpenInv' /\ FillPendingInv'
  BY <1>3 DEF FillOpenInv, FillPendingInv
<1>11. FillCacheInv'
  <2>1. \A q \in Requests : req'[q].pc = "trans" => cached' \/ fetch'.state # "none"
    BY <1>1, <1>3 DEF FillCacheInv
  <2>2. FillRight(trans)' /\ (fetch'.state = "answered" => FillRight(fetch.list)')
    BY <1>1, <1>3 DEF FillCacheInv, FillRight, MainOf, RW
  <2> QED BY <1>1, <1>3, <2>1, <2>2 DEF FillCacheInv
<1>12. FillKnownInv'
  <2>1. cached' => \A t \in Main' :
          t \in Ids(trans)' \/ \E o \in Operations : Ending(o)' /\ req'[o].th = t
    <3>1. \A o \in Operations : Ending(o) => Ending(o)' /\ req'[o] = req[o]
      BY <1>0, <1>3, <1>4
    <3> QED BY <1>3, <3>1 DEF FillKnownInv, Ids
  <2> QED BY <1>1, <1>3, <2>1 DEF FillKnownInv, Ids
<1>13. FillOperationInv'
  <2>1. Operating' => subscribed' /\ hasWriteTransaction'
    <3>1. ASSUME NEW o \in Operations, InFlight(o)' PROVE subscribed' /\ hasWriteTransaction'
      BY <1>1, <1>4, <3>1 DEF FillOperationInv, Operating
    <3> QED BY <3>1 DEF Operating
  <2>2. ~(InFlight("apply")' /\ InFlight("revert")')
    BY <1>0, <1>4 DEF FillOperationInv, Operating
  <2>3. ASSUME NEW o \in Operations
        PROVE  /\ req'[o].pc \in {"sent", "answered"} => cached'
               /\ req'[o].pc = "sent" => req'[o].th \in Main'
               /\ Ending(o)' /\ req'[o].pc = "sent" => req'[o].th \notin Ids(trans)'
               /\ Ending(o)' /\ req'[o].pc = "answered" => Main' = {}
    BY <1>0, <1>3, <1>4 DEF FillOperationInv, Ids
  <2> QED BY <2>1, <2>2, <2>3 DEF FillOperationInv
<1>14. FillFlagInv'
  <2>1. hasWriteTransaction' /\ ~Filling' =>
          MainOf(trans)' # {} \/ \E o \in Operations : Ending(o)'
    BY <1>3, <1>4 DEF FillFlagInv
  <2>2. commitInProgress' => InFlight("apply")'
    BY <1>0, <1>4 DEF FillFlagInv
  <2>3. page' = "here" /\ Main' # {} =>
          hasWriteTransaction' \/ \E q \in Requests \ Edits : req'[q].pc = "trans"
    <3>1. "query" \in Requests \ Edits
      BY Names
    <3> QED BY <1>3, <3>1 DEF FillFlagInv
  <2> QED BY <2>1, <2>2, <2>3 DEF FillFlagInv
<1> QED BY <1>5, <1>6, <1>7, <1>8, <1>9, <1>10, <1>11, <1>12, <1>13, <1>14

\* An answer has been received, and perhaps another request starts.
LEMMA FillReceived ==
  ASSUME Considerate, FillingInv, NEW r \in Requests \ Operations, req[r].pc = "answered",
         r # "query", NEW R \in SUBSET {"changes"}, \A q \in R : ~InFlight(q),
         Start(R, Ended(r), cached, subscribed, fetch),
         UNCHANGED <<open, opened, fate, trans, cached, pendingTrans, hasWriteTransaction,
                     commitInProgress, gesture, page, visits, covered>>
  PROVE  FillingInv'
<1> USE DEF FillingInv
<1>0. /\ "changes" \in Requests /\ "changes" \notin Edits /\ "changes" \notin Operations
      /\ R \in SUBSET Requests /\ R \cap Edits = {} /\ R \cap Operations = {}
  BY Names DEF Operations
<1>1. /\ Ended(r) \in [Requests -> RequestType] /\ Ended(r)[r].pc \in {"idle", "done", "rejected"}
      /\ \A q \in Requests \ {r} : Ended(r)[q] = req[q]
  BY EndedIs
<1>2. Filling' = Filling /\ (\A e \in Edits : InFlight(e) => Filling) /\ covered = {}
  BY DEF Filling, FieldsInv
<1>3. page # "away"
  BY DEF AwayInv, NoRequest
<1>4. /\ page' \in {"here", "leaving", "away"} /\ visits' \in 0..MaxVisits
      /\ gesture' \in [Gestures -> {"ready", "first", "then", "done"}]
      /\ commitInProgress' \in BOOLEAN
  BY DEF TypeOK
<1>5. /\ TypeOK' /\ FieldsInv' /\ FillRequestInv' /\ FillOpenInv' /\ FillCacheInv'
      /\ FillKnownInv' /\ FillPendingInv' /\ FillOperationInv' /\ FillFlagInv'
      /\ \A e \in Edits : Underway(e)' <=> (Underway(e) \/ e \in R)
      /\ \A e \in Edits : InFlight(e)' => InFlight(e) \/ e \in R
  <2> HIDE DEF FillingInv
  <2> QED BY <1>0, <1>1, <1>2, <1>4, FillStart
<1>6. FormsInv'
  BY DEF FormsInv
<1>7. FateInv'
  <2>1. \A e \in Edits : (Underway(e)' <=> Underway(e)) /\ (InFlight(e)' => InFlight(e))
    BY <1>0, <1>5
  <2> QED BY <2>1, GestureEdits DEF FateInv
<1>8. AwayInv'
  BY <1>3 DEF AwayInv
<1> QED BY <1>5, <1>6, <1>7, <1>8

\* The number of changes is received.
LEMMA FillReceiveChanges ==
  ASSUME Considerate, FillingInv, ReceiveChanges
  PROVE  FillingInv'
<1> USE DEF ReceiveChanges, server, user, flags, cache
<1>1. "changes" \in Requests \ Operations /\ "changes" # "query" /\ req["changes"].pc = "answered"
  BY Names DEF Operations, Answered
<1>2. /\ Ended("changes") \in [Requests -> RequestType] /\ req' = Ended("changes")
      /\ subscribed \in BOOLEAN
  BY <1>1, EndedIs DEF FillingInv, TypeOK
<1>3. Start({}, Ended("changes"), cached, subscribed, fetch)
  <2>1. req' = [q \in Requests |-> Ended("changes")[q]]
    BY <1>2
  <2> QED BY <1>2, <2>1 DEF Start
<1> QED BY <1>1, <1>3, FillReceived

\* The answer to a field may ask for the changes again.
LEMMA FillReceiveEdit ==
  ASSUME Considerate, FillingInv, NEW e \in Edits, ReceiveEdit(e)
  PROVE  FillingInv'
<1> DEFINE R == IF req[e].answer = "error" THEN {} ELSE Refetched({"changes"})
<1>1. e \in Requests \ Operations /\ e # "query" /\ req[e].pc = "answered"
  BY Names DEF ReceiveEdit, Answered
<1>2. R \in SUBSET {"changes"} /\ \A q \in R : ~InFlight(q)
  BY DEF Refetched
<1>3. Start(R, Ended(e), cached, subscribed, fetch)
  BY DEF ReceiveEdit
<1>4. UNCHANGED <<open, opened, fate, trans, cached, pendingTrans, hasWriteTransaction,
                  commitInProgress, gesture, page, visits, covered>>
  BY DEF ReceiveEdit, server, user, flags
<1> HIDE DEF R
<1> QED BY <1>1, <1>2, <1>3, <1>4, FillReceived

\* After the validation the operation goes on to commit.
LEMMA FillReceiveValidate ==
  ASSUME Considerate, FillingInv, ReceiveValidate
  PROVE  FillingInv'
<1> USE DEF FillingInv, server, user, flags, cache
<1>0. /\ "apply" \in Operations /\ "apply" \in Requests /\ "apply" \notin Edits
      /\ Edits \subseteq Requests \ {"apply"} /\ Operations = {"revert", "apply"}
      /\ "query" \in Requests \ {"apply"} /\ "revert" \in Requests \ {"apply"}
  BY Names
<1>1. /\ req["apply"].pc = "answered" /\ req["apply"].method = "validate_commit"
      /\ req["apply"].answer \in {"ok", "none"} /\ cached
  BY <1>0 DEF ReceiveValidate, Answered, FillRequestInv, FillOperationInv
<1>2. /\ UNCHANGED <<open, opened, fate, trans, cached, subscribed, fetch, pendingTrans,
                     hasWriteTransaction, commitInProgress, gesture, page, visits, covered>>
      /\ req' = [req EXCEPT !["apply"].pc = "trans", !["apply"].method = "commit",
                            !["apply"].th = NoTh, !["apply"].answer = "none"]
  BY <1>1 DEF ReceiveValidate
<1>3. /\ req' \in [Requests -> RequestType]
      /\ req'["apply"].pc = "trans" /\ req'["apply"].answer = "none"
      /\ req'["apply"].method = "commit"
      /\ \A q \in Requests \ {"apply"} : req'[q] = req[q]
  <2> DEFINE v == [req["apply"] EXCEPT !.pc = "trans", !.method = "commit",
                                       !.th = NoTh, !.answer = "none"]
  <2>1. req \in [Requests -> RequestType]
    BY DEF TypeOK, RequestType
  <2>2. v \in RequestType /\ v.pc = "trans" /\ v.answer = "none" /\ v.method = "commit"
    BY <1>0, <2>1 DEF RequestType, Methods
  <2>3. req' = [req EXCEPT !["apply"] = v]
    BY <1>0, <1>2, <2>1
  <2> HIDE DEF v
  <2> QED BY <1>0, <2>1, <2>2, <2>3
<1>4. /\ Main' = Main /\ MainOf(trans)' = MainOf(trans) /\ Filling' = Filling
      /\ \A q \in Requests : InFlight(q)' <=> InFlight(q)
      /\ \A q \in Requests : Ending(q)' <=> Ending(q)
      /\ \A q \in Requests : req[q].pc = "trans" => req'[q].pc = "trans"
  BY <1>0, <1>1, <1>2, <1>3 DEF Main, MainOf, W, RW, Filling, InFlight, Ending
<1>5. Operating' = Operating
  BY <1>0, <1>4 DEF Operating
<1>6. TypeOK'
  <2>1. \A q \in Requests : req'[q].pc = "sent" => req'[q].th # NoTh
    BY <1>3 DEF TypeOK
  <2> QED BY <1>2, <1>3, <2>1 DEF TypeOK, RequestType
<1>7. FormsInv'
  BY <1>2 DEF FormsInv
<1>8. FieldsInv' /\ FillOpenInv'
  BY <1>0, <1>2, <1>4 DEF FieldsInv, FillOpenInv
<1>9. FateInv'
  <2>1. \A e \in Edits : (InFlight(e)' <=> InFlight(e)) /\ (Underway(e)' <=> Underway(e))
    BY <1>0, <1>3, <1>4 DEF Underway
  <2> QED BY <1>2, <2>1, GestureEdits DEF FateInv
<1>10. FillRequestInv'
  <2>1. ASSUME NEW q \in Requests, InFlight(q)'
        PROVE  /\ req'[q].method = MethodOf(q) \/ (q = "apply" /\ req'[q].method = "commit")
               /\ req'[q].pc # "answered" => req'[q].answer = "none"
               /\ req'[q].pc = "new" => q \in Edits \cup {"query"}
    BY <1>3, <1>4, <2>1 DEF FillRequestInv
  <2> QED BY <1>0, <1>3, <2>1 DEF FillRequestInv
<1>11. FillCacheInv' /\ FillKnownInv' /\ FillPendingInv'
  <2>1. FillCacheInv'
    BY <1>1, <1>2, <1>4 DEF FillCacheInv, FillRight, MainOf, RW
  <2>2. FillKnownInv'
    <3>1. \A o \in Operations : Ending(o) => Ending(o)' /\ req'[o] = req[o]
      BY <1>0, <1>1, <1>3, <1>4 DEF Ending
    <3> QED BY <1>2, <1>4, <3>1 DEF FillKnownInv, Ids
  <2>3. FillPendingInv'
    BY <1>2, <1>4 DEF FillPendingInv
  <2> QED BY <2>1, <2>2, <2>3
<1>12. FillOperationInv'
  BY <1>0, <1>2, <1>3, <1>4, <1>5 DEF FillOperationInv, Ids
<1>13. FillFlagInv'
  BY <1>0, <1>2, <1>4 DEF FillFlagInv
<1>14. AwayInv'
  BY <1>0, <1>1, <1>2 DEF AwayInv, NoRequest
<1> QED BY <1>6, <1>7, <1>8, <1>9, <1>10, <1>11, <1>12, <1>13, <1>14

\* An operation ends: no transaction of the configuration is left, and the
\* cache is emptied, or asked for again.
LEMMA FillEndReceived ==
  ASSUME Considerate, FillingInv, NEW r \in Operations, ReceiveEnd(r),
         req[r].answer = "none" \/ ~Internal
  PROVE  LET R == Refetched(Invalidated(r)) IN
         /\ req[r].pc = "answered" /\ Ending(r) /\ Main = {}
         /\ req' = [q \in Requests |-> IF q \in R THEN Starting(q) ELSE Ended(r)[q]]
         /\ subscribed' \in BOOLEAN /\ cached' \in BOOLEAN
         /\ trans' \in {{}, trans} /\ (trans' # {} => cached')
         /\ fetch' = fetch \/ fetch' = [state |-> "asked", list |-> {}] \/ fetch' = NoFetch
         /\ cached' \/ (R # {} => fetch'.state # "none")
         /\ cached' \/ \A q \in Requests : req[q].pc # "trans"
         /\ Fulfilled(r) /\ covered' = {}
         /\ UNCHANGED <<open, opened, fate, pendingTrans, gesture, page, visits>>
<1> DEFINE R == Refetched(Invalidated(r))
<1>0. r \in Requests /\ Operations \subseteq Requests
  BY Names
<1>1. /\ req[r].pc = "answered" /\ Ending(r) /\ req[r].answer \in {"ok", "none"}
      /\ Main = {} /\ cached /\ subscribed
  BY <1>0 DEF ReceiveEnd, Answered, Ending, FillingInv, FillRequestInv, FillOperationInv,
     Operating, InFlight
<1>2. /\ covered' = {}
      /\ UNCHANGED <<open, opened, fate, pendingTrans, gesture, page, visits>>
  BY <1>1 DEF ReceiveEnd, server
<1>3. CASE req[r].answer = "ok"
  <2>1. /\ Start(R, Ended(r), FALSE, FALSE, NoFetch)
        /\ trans' = {} /\ cached' = FALSE /\ Fulfilled(r)
    BY <1>1, <1>3 DEF ReceiveEnd
  <2>2. \A q \in Requests : req[q].pc # "trans"
    BY <1>1, <1>3 DEF Internal, CanGetTransaction
  <2>3. /\ req' = [q \in Requests |-> IF q \in R THEN Starting(q) ELSE Ended(r)[q]]
        /\ subscribed' \in BOOLEAN
        /\ fetch' = IF R # {} THEN [state |-> "asked", list |-> {}] ELSE NoFetch
    <3>1. [NoFetch EXCEPT !.state = "asked"] = [state |-> "asked", list |-> {}]
      BY DEF NoFetch
    <3>2. NoFetch.state = "none"
      BY DEF NoFetch
    <3> HIDE DEF R
    <3> QED BY <2>1, <3>1, <3>2 DEF Start, Starting
  <2> HIDE DEF R
  <2>4. R # {} => fetch'.state # "none"
    BY <2>3
  <2>5. fetch' = [state |-> "asked", list |-> {}] \/ fetch' = NoFetch
    BY <2>3
  <2> QED BY <1>1, <1>2, <2>1, <2>2, <2>3, <2>4, <2>5 DEF R
<1>4. CASE req[r].answer = "none"
  <2> DEFINE F == IF fetch.state = "none" THEN [NoFetch EXCEPT !.state = "asked"] ELSE fetch
  <2>1. /\ Start(R, Ended(r), cached, subscribed, F)
        /\ Fulfilled(r) /\ UNCHANGED <<trans, cached>>
    BY <1>1, <1>4 DEF ReceiveEnd
  <2>2. F = fetch \/ F = [state |-> "asked", list |-> {}]
    BY DEF NoFetch
  <2> HIDE DEF R, F
  <2>3. fetch' = F /\ subscribed' = TRUE
    BY <1>1, <2>1 DEF Start
  <2>4. req' = [q \in Requests |-> IF q \in R THEN Starting(q) ELSE Ended(r)[q]]
    BY <2>1 DEF Start, Starting
  <2>5. trans # {} => cached
    BY <1>1
  <2> QED BY <1>1, <1>2, <2>1, <2>2, <2>3, <2>4, <2>5 DEF R
<1> QED BY <1>1, <1>3, <1>4

\* The end of an operation.
LEMMA FillReceiveEnd ==
  ASSUME Considerate, FillingInv, NEW r \in Operations, ReceiveEnd(r),
         req[r].answer = "none" \/ ~Internal
  PROVE  FillingInv'
<1> USE DEF FillingInv
<1> DEFINE R == Refetched(Invalidated(r))
<1>0. /\ r \in Requests /\ r \notin Edits /\ r # "query" /\ r # "changes"
      /\ "query" \in Requests /\ Operations \subseteq Requests \ R
      /\ Edits \subseteq Requests \ {r} /\ Edits \cap R = {}
      /\ Operations = {"revert", "apply"} /\ R \in SUBSET Requests
      /\ \A q \in R : ~InFlight(q)
  BY Names DEF Refetched, Invalidated
<1>1. /\ req[r].pc = "answered" /\ Ending(r) /\ Main = {}
      /\ req' = [q \in Requests |-> IF q \in R THEN Starting(q) ELSE Ended(r)[q]]
      /\ subscribed' \in BOOLEAN /\ cached' \in BOOLEAN
      /\ trans' \in {{}, trans} /\ (trans' # {} => cached')
      /\ fetch' = fetch \/ fetch' = [state |-> "asked", list |-> {}] \/ fetch' = NoFetch
      /\ cached' \/ (R # {} => fetch'.state # "none")
      /\ cached' \/ \A q \in Requests : req[q].pc # "trans"
      /\ Fulfilled(r) /\ covered' = {}
      /\ UNCHANGED <<open, opened, fate, pendingTrans, gesture, page, visits>>
  BY FillEndReceived
<1>2. /\ Ended(r) \in [Requests -> RequestType] /\ Ended(r)[r].pc \in {"idle", "done", "rejected"}
      /\ \A q \in Requests \ {r} : Ended(r)[q] = req[q]
  BY <1>0, EndedIs
<1> HIDE DEF R
<1>3. /\ req' \in [Requests -> RequestType]
      /\ \A q \in R : /\ req'[q].pc = "trans" /\ req'[q].method = MethodOf(q)
                      /\ req'[q].answer = "none" /\ req'[q].th = NoTh
      /\ req'[r].pc \in {"idle", "done", "rejected"}
      /\ \A q \in Requests \ R : q # r => req'[q] = req[q]
  BY <1>0, <1>1, <1>2, StartingIs
<1>4. /\ Main' = {} /\ Filling' = Filling
      /\ \A q \in Operations : ~InFlight(q)' /\ ~Ending(q)'
                               /\ req'[q].pc \notin {"sent", "answered", "trans"}
      /\ \A e \in Edits : req'[e] = req[e]
      /\ \A q \in Requests : req'[q].pc = "trans" => q \in R \/ req[q].pc = "trans"
      /\ fetch' \in [state: {"none", "asked", "answered"}, list: SUBSET Known]
      /\ fetch'.state = "answered" => fetch' = fetch
  <2>1. Main' = {} /\ Filling' = Filling
    BY <1>1 DEF Main, W, Filling
  <2>2. \A q \in Operations \ {r} : ~InFlight(q)
    BY <1>0, <1>1 DEF FillOperationInv, InFlight
  <2>3. \A q \in Operations : ~InFlight(q)' /\ ~Ending(q)'
                               /\ req'[q].pc \notin {"sent", "answered", "trans"}
    BY <1>0, <1>3, <2>2 DEF InFlight, Ending
  <2>4. \A e \in Edits : req'[e] = req[e]
    BY <1>0, <1>3
  <2>5. \A q \in Requests : req'[q].pc = "trans" => q \in R \/ req[q].pc = "trans"
    BY <1>3
  <2>6. fetch' \in [state: {"none", "asked", "answered"}, list: SUBSET Known]
    BY <1>1 DEF TypeOK, NoFetch
  <2>7. fetch'.state = "answered" => fetch' = fetch
    BY <1>1 DEF NoFetch
  <2> QED BY <2>1, <2>3, <2>4, <2>5, <2>6, <2>7
<1>5. ~Operating'
  BY <1>4 DEF Operating
<1>6. hasWriteTransaction' = FALSE /\ commitInProgress' = FALSE
  <2>1. InFlight(r)
    BY <1>1 DEF InFlight
  <2>2. commitInProgress => r = "apply"
    BY <1>0, <2>1 DEF FillFlagInv, FillOperationInv
  <2> QED BY <1>1, <2>2 DEF Fulfilled, TypeOK
<1>7. TypeOK'
  <2>1. \A q \in Requests : req'[q].pc = "sent" => req'[q].th # NoTh
    BY <1>3 DEF TypeOK
  <2> QED BY <1>1, <1>3, <1>4, <1>6, <2>1 DEF TypeOK, RequestType
<1>8. FormsInv'
  BY <1>1 DEF FormsInv
<1>9. FieldsInv' /\ FillOpenInv'
  BY <1>0, <1>1, <1>4 DEF FieldsInv, FillOpenInv, InFlight
<1>10. FateInv'
  <2>1. \A e \in Edits : (InFlight(e)' <=> InFlight(e)) /\ (Underway(e)' <=> Underway(e))
    BY <1>4 DEF InFlight, Underway
  <2> QED BY <1>1, <2>1, GestureEdits DEF FateInv
<1>11. FillRequestInv'
  <2>1. ASSUME NEW q \in Requests, InFlight(q)'
        PROVE  /\ req'[q].method = MethodOf(q) \/ (q = "apply" /\ req'[q].method = "commit")
               /\ req'[q].pc # "answered" => req'[q].answer = "none"
               /\ req'[q].pc = "new" => q \in Edits \cup {"query"}
    <3>1. CASE q \in R
      BY <1>3, <3>1
    <3>2. CASE q \notin R
      <4>1. q # r /\ req'[q] = req[q]
        BY <1>3, <2>1, <3>2 DEF InFlight
      <4> QED BY <2>1, <4>1 DEF FillRequestInv, InFlight
    <3> QED BY <3>1, <3>2
  <2>2. req'["query"].pc \in {"idle", "trans", "new"}
    BY <1>0, <1>3 DEF FillRequestInv
  <2>3. \A e \in Edits : req'[e].pc = "answered" => req'[e].answer # "none"
    BY <1>4 DEF FillRequestInv
  <2> QED BY <1>4, <2>1, <2>2, <2>3 DEF FillRequestInv
<1>12. FillCacheInv' /\ FillKnownInv' /\ FillPendingInv'
  <2>1. \A q \in Requests : req'[q].pc = "trans" => cached' \/ fetch'.state # "none"
    BY <1>1, <1>4
  <2>2. FillRight(trans)' /\ (fetch'.state = "answered" => FillRight(fetch.list)')
    BY <1>1, <1>4 DEF FillCacheInv, FillRight, MainOf, RW
  <2>3. FillCacheInv'
    BY <1>1, <1>4, <2>1, <2>2 DEF FillCacheInv
  <2>4. FillKnownInv'
    BY <1>4 DEF FillKnownInv
  <2>5. FillPendingInv'
    BY <1>1, <1>4 DEF FillPendingInv
  <2> QED BY <2>3, <2>4, <2>5
<1>13. FillOperationInv' /\ FillFlagInv'
  BY <1>0, <1>4, <1>5, <1>6 DEF FillOperationInv, FillFlagInv
<1>14. AwayInv'
  BY <1>0, <1>1 DEF AwayInv, NoRequest
<1> QED BY <1>7, <1>8, <1>9, <1>10, <1>11, <1>12, <1>13, <1>14

\* The gestures of one session fill in forms, and have no field in common.
LEMMA FillDisjoint ==
  ASSUME Considerate, FillingInv, NEW g \in Gestures, gesture[g] # "done"
  PROVE  /\ g.first \cap g.then = {} /\ Uses(g) \subseteq ActionEdits
         /\ g.leaves \in {"after", "at once"}
         /\ \A h \in Gestures : h # g /\ gesture[h] # "done" => Uses(g) \cap Uses(h) = {}
<1>1. PICK S \in Scenarios :
        Fill(S) /\ \A h \in Gestures : gesture[h] # "done" => h \in S
  BY DEF FillingInv, FormsInv
<1>2. g.leaves \in Leaves
  BY JsonRpcTransactionsAssumption
<1> QED BY <1>1, <1>2 DEF Considerate, Fill, Leaves

\* The values that are set belong to a gesture: what is said of the fates.
LEMMA FillSets ==
  ASSUME Considerate, FillingInv, NEW g \in Gestures, gesture[g] # "done",
         NEW R \in {g.first, g.then}, \A e \in R : fate[e] = "new" /\ ~InFlight(e),
         \/ R = g.first /\ gesture[g] = "ready" /\ gesture'[g] = "first"
         \/ /\ R = g.then /\ gesture[g] = "first" /\ gesture'[g] = "then"
            /\ \A e \in g.first : fate[e] # "new",
         \A h \in Gestures \ {g} : gesture'[h] = gesture[h],
         fate' = fate,
         \A e \in Edits : Underway(e)' <=> (Underway(e) \/ e \in R),
         \A e \in Edits : InFlight(e)' => InFlight(e) \/ e \in R
  PROVE  FateInv'
<1> USE DEF FillingInv
<1>1. /\ g.first \cap g.then = {}
      /\ \A h \in Gestures : h # g /\ gesture[h] # "done" =>
           \A e \in Uses(h) : e \in Edits /\ e \notin R
  BY FillDisjoint, GestureEdits DEF Uses
<1>2. R \subseteq Edits /\ g.first \subseteq Edits /\ g.then \subseteq Edits
  BY GestureEdits
<1>3. \A e \in Edits : Underway(e)' => fate'[e] = "new"
  BY DEF FateInv
<1>4. ASSUME NEW h \in Gestures
      PROVE  /\ gesture'[h] = "ready" => \A e \in Uses(h) : fate'[e] = "new" /\ ~InFlight(e)'
             /\ gesture'[h] = "first" =>
                  /\ \A e \in h.then : fate'[e] = "new" /\ ~InFlight(e)'
                  /\ \A e \in h.first : fate'[e] = "new" => Underway(e)'
             /\ gesture'[h] = "then" =>
                  /\ \A e \in h.first : fate'[e] # "new"
                  /\ \A e \in h.then : fate'[e] = "new" => Underway(e)'
  <2>1. CASE h = g
    <3>1. CASE gesture[g] = "ready"
      <4>1. R = g.first /\ gesture'[g] = "first"
        BY <3>1
      <4>2. \A e \in g.then : fate[e] = "new" /\ ~InFlight(e) /\ e \notin R
        BY <1>1, <3>1, <4>1 DEF FateInv, Uses
      <4> QED BY <1>2, <2>1, <4>1, <4>2
    <3>2. CASE gesture[g] # "ready"
      BY <1>2, <2>1, <3>2
    <3> QED BY <3>1, <3>2
  <2>2. CASE h # g
    BY <1>1, <1>2, <2>2, GestureEdits DEF FateInv, Uses
  <2> QED BY <2>1, <2>2
<1> QED BY <1>3, <1>4 DEF FateInv

\* A form is filled in when no operation is in flight.
LEMMA FillBeginGesture ==
  ASSUME Considerate, FillingInv, NEW g \in Gestures, BeginGesture(g)
  PROVE  FillingInv'
<1> USE DEF FillingInv, server, user, flags, cache
<1>1. /\ gesture[g] = "ready" /\ page = "here"
      /\ gesture' = [gesture EXCEPT ![g] = "first"]
      /\ Start(g.first, req, cached, subscribed, fetch)
      /\ page' = IF g.leaves = "at once" THEN "leaving" ELSE page
      /\ UNCHANGED <<open, opened, fate, trans, cached, pendingTrans, hasWriteTransaction,
                     commitInProgress, visits, covered>>
  BY DEF BeginGesture, Quiet
<1>2. /\ g.first \in SUBSET Edits /\ g.first \subseteq ActionEdits
      /\ \A e \in g.first : fate[e] = "new" /\ ~InFlight(e)
      /\ \A h \in Gestures \ {g} : gesture'[h] = gesture[h]
      /\ gesture'[g] = "first"
      /\ gesture' \in [Gestures -> {"ready", "first", "then", "done"}]
      /\ g.first \in SUBSET Requests /\ g.first \cap Operations = {} /\ "query" \notin g.first
      /\ req \in [Requests -> RequestType]
  <2>1. g.first \in SUBSET Edits /\ g.first \subseteq ActionEdits
    BY <1>1, GestureEdits, FillDisjoint DEF Uses
  <2>2. \A e \in g.first : fate[e] = "new" /\ ~InFlight(e)
    BY <1>1 DEF FateInv, Uses
  <2>3. g.first \in SUBSET Requests /\ g.first \cap Operations = {} /\ "query" \notin g.first
    BY <2>1, Names
  <2>4. /\ \A h \in Gestures \ {g} : gesture'[h] = gesture[h]
        /\ gesture'[g] = "first"
        /\ gesture' \in [Gestures -> {"ready", "first", "then", "done"}]
        /\ req \in [Requests -> RequestType]
    BY <1>1 DEF TypeOK, RequestType
  <2> QED BY <2>1, <2>2, <2>3, <2>4
<1>3. Filling' /\ page' \in {"here", "leaving", "away"} /\ (page' = "here" => page = "here")
      /\ visits' \in 0..MaxVisits /\ commitInProgress' \in BOOLEAN /\ covered' = {}
  BY <1>1, <1>2 DEF Filling, TypeOK, FieldsInv
<1>4. /\ TypeOK' /\ FieldsInv' /\ FillRequestInv' /\ FillOpenInv' /\ FillCacheInv'
      /\ FillKnownInv' /\ FillPendingInv' /\ FillOperationInv' /\ FillFlagInv'
      /\ \A e \in Edits : Underway(e)' <=> (Underway(e) \/ e \in g.first)
      /\ \A e \in Edits : InFlight(e)' => InFlight(e) \/ e \in g.first
  <2> HIDE DEF FillingInv
  <2> QED BY <1>1, <1>2, <1>3, FillStart
<1>5. FateInv'
  <2>1. gesture[g] # "done" /\ g.first \in {g.first, g.then} /\ fate' = fate
    BY <1>1
  <2> QED BY <1>1, <1>2, <1>4, <2>1, FillSets
<1>6. FormsInv'
  <2>1. PICK S \in Scenarios : Fill(S) /\ \A h \in Gestures : gesture[h] # "done" => h \in S
    BY DEF FormsInv
  <2>2. \A h \in Gestures : gesture'[h] # "done" => h \in S
    BY <1>1, <1>2, <2>1
  <2>3. \A h \in Gestures :
          gesture'[h] \in {"first", "then"} /\ h.leaves = "at once" => page' # "here"
    BY <1>1, <1>2 DEF FormsInv
  <2> QED BY <2>1, <2>2, <2>3 DEF FormsInv
<1>7. AwayInv'
  BY <1>1 DEF AwayInv
<1> QED BY <1>4, <1>5, <1>6, <1>7

\* The rest of a form is filled in, also while an operation is in progress.
LEMMA FillDefaults ==
  ASSUME Considerate, FillingInv, NEW g \in Gestures, Defaults(g)
  PROVE  FillingInv'
<1> USE DEF FillingInv, server, user, flags, cache
<1>1. /\ gesture[g] = "first" /\ \A e \in g.first : ~InFlight(e)
      /\ gesture' = [gesture EXCEPT ![g] = "then"]
      /\ Start(g.then, req, cached, subscribed, fetch)
      /\ UNCHANGED <<open, opened, fate, trans, cached, pendingTrans, hasWriteTransaction,
                     commitInProgress, page, visits, covered>>
  BY DEF Defaults
<1>2. /\ g.then \in SUBSET Edits /\ g.then \subseteq ActionEdits
      /\ \A e \in g.then : fate[e] = "new" /\ ~InFlight(e)
      /\ \A e \in g.first : fate[e] # "new"
      /\ \A h \in Gestures \ {g} : gesture'[h] = gesture[h]
      /\ gesture'[g] = "then"
      /\ gesture' \in [Gestures -> {"ready", "first", "then", "done"}]
      /\ g.then \in SUBSET Requests /\ g.then \cap Operations = {} /\ "query" \notin g.then
      /\ req \in [Requests -> RequestType]
  <2>1. g.then \in SUBSET Edits /\ g.then \subseteq ActionEdits
    BY <1>1, GestureEdits, FillDisjoint DEF Uses
  <2>2. \A e \in g.first : ~Underway(e)
    BY <1>1 DEF Underway, InFlight
  <2>3. (\A e \in g.then : fate[e] = "new" /\ ~InFlight(e)) /\ \A e \in g.first : fate[e] # "new"
    BY <1>1, <2>2 DEF FateInv
  <2>4. g.then \in SUBSET Requests /\ g.then \cap Operations = {} /\ "query" \notin g.then
    BY <2>1, Names
  <2>5. /\ \A h \in Gestures \ {g} : gesture'[h] = gesture[h]
        /\ gesture'[g] = "then"
        /\ gesture' \in [Gestures -> {"ready", "first", "then", "done"}]
        /\ req \in [Requests -> RequestType]
    BY <1>1 DEF TypeOK, RequestType
  <2> QED BY <2>1, <2>3, <2>4, <2>5
<1>3. Filling' /\ page' \in {"here", "leaving", "away"} /\ (page' = "here" => page = "here")
      /\ visits' \in 0..MaxVisits /\ commitInProgress' \in BOOLEAN /\ covered' = {}
  BY <1>1, <1>2 DEF Filling, TypeOK, FieldsInv
<1>4. /\ TypeOK' /\ FieldsInv' /\ FillRequestInv' /\ FillOpenInv' /\ FillCacheInv'
      /\ FillKnownInv' /\ FillPendingInv' /\ FillOperationInv' /\ FillFlagInv'
      /\ \A e \in Edits : Underway(e)' <=> (Underway(e) \/ e \in g.then)
      /\ \A e \in Edits : InFlight(e)' => InFlight(e) \/ e \in g.then
  <2> HIDE DEF FillingInv
  <2> QED BY <1>1, <1>2, <1>3, FillStart
<1>5. FateInv'
  <2>1. gesture[g] # "done" /\ g.then \in {g.first, g.then} /\ fate' = fate
    BY <1>1
  <2> QED BY <1>1, <1>2, <1>4, <2>1, FillSets
<1>6. FormsInv'
  <2>1. PICK S \in Scenarios : Fill(S) /\ \A h \in Gestures : gesture[h] # "done" => h \in S
    BY DEF FormsInv
  <2>2. \A h \in Gestures : gesture'[h] # "done" => h \in S
    BY <1>1, <1>2, <2>1
  <2>3. \A h \in Gestures :
          gesture'[h] \in {"first", "then"} /\ h.leaves = "at once" => page' # "here"
    BY <1>1, <1>2 DEF FormsInv
  <2> QED BY <2>1, <2>2, <2>3 DEF FormsInv
<1>7. AwayInv'
  BY <1>1 DEF AwayInv
<1> QED BY <1>4, <1>5, <1>6, <1>7

\* A form that is done is left.
LEMMA FillEndGesture ==
  ASSUME Considerate, FillingInv, NEW g \in Gestures, EndGesture(g)
  PROVE  FillingInv'
<1> USE DEF FillingInv, server, user, flags, cache
<1>1. /\ gesture[g] = "then" /\ page' = IF g.leaves = "after" THEN "leaving" ELSE page
      /\ gesture' = [gesture EXCEPT ![g] = "done"]
      /\ UNCHANGED <<open, opened, fate, trans, cached, subscribed, fetch, pendingTrans, req,
                     hasWriteTransaction, commitInProgress, visits, covered>>
  BY DEF EndGesture
<1>2. page # "away" /\ page' \in {"leaving", page} /\ page' # "here"
  BY <1>1, FillDisjoint DEF AwayInv, FormsInv
<1>3. /\ \A h \in Gestures \ {g} : gesture'[h] = gesture[h]
      /\ gesture'[g] = "done"
      /\ gesture' \in [Gestures -> {"ready", "first", "then", "done"}]
  BY <1>1 DEF TypeOK
<1>4. /\ Main' = Main /\ MainOf(trans)' = MainOf(trans) /\ Filling' /\ Operating' = Operating
      /\ \A r \in Requests : (InFlight(r)' <=> InFlight(r)) /\ (Ending(r)' <=> Ending(r))
                             /\ (Underway(r)' <=> Underway(r))
  BY <1>1, <1>2 DEF Main, MainOf, W, RW, Filling, Operating, InFlight, Ending, Underway
<1>5. TypeOK'
  BY <1>1, <1>2, <1>3 DEF TypeOK
<1>6. FormsInv'
  <2>1. PICK S \in Scenarios : Fill(S) /\ \A h \in Gestures : gesture[h] # "done" => h \in S
    BY DEF FormsInv
  <2>2. \A h \in Gestures : gesture'[h] # "done" => h \in S
    BY <1>3, <2>1
  <2> QED BY <1>2, <2>1, <2>2 DEF FormsInv
<1>7. FieldsInv' /\ FillRequestInv' /\ FillOpenInv'
  <2>1. FieldsInv'
    BY <1>1, <1>4, Names DEF FieldsInv
  <2>2. FillRequestInv' /\ FillOpenInv'
    BY <1>1, <1>4, Names DEF FillRequestInv, FillOpenInv
  <2> QED BY <2>1, <2>2
<1>8. FateInv'
  BY <1>1, <1>3, <1>4, Names, GestureEdits DEF FateInv
<1>9. FillCacheInv' /\ FillKnownInv' /\ FillPendingInv'
  BY <1>1, <1>4, Names DEF FillCacheInv, FillKnownInv, FillPendingInv, FillRight, MainOf, RW, Ids
<1>10. FillOperationInv' /\ FillFlagInv' /\ AwayInv'
  BY <1>1, <1>2, <1>4, Names DEF FillOperationInv, FillFlagInv, AwayInv, Ids
<1> QED BY <1>5, <1>6, <1>7, <1>8, <1>9, <1>10

\* An operation is pressed for a transaction left by an earlier page, or
\* although there is none: there are no edits to cover.
LEMMA FillPressed ==
  ASSUME Considerate, FillingInv, NEW r \in Operations, Press(r)
  PROVE  /\ ~Operating /\ page = "here" /\ hasWriteTransaction
         /\ Start({r}, req, cached, subscribed, fetch)
         /\ covered' = {} /\ commitInProgress' = (r = "apply")
         /\ UNCHANGED <<open, opened, fate, trans, cached, pendingTrans, hasWriteTransaction,
                        gesture, page, visits>>
<1>1. \A e \in Edits : fate[e] = "open" => actionPath(e)
  BY DEF FillingInv, FieldsInv, actionPath
<1> QED BY <1>1 DEF Press, Quiet, Operating, server, user

\* The operation starts.
LEMMA FillPress ==
  ASSUME Considerate, FillingInv, NEW r \in Operations, Press(r)
  PROVE  FillingInv'
<1> USE DEF FillingInv
<1>0. /\ {r} \in SUBSET Requests /\ {r} \cap Edits = {} /\ req \in [Requests -> RequestType]
      /\ \A e \in Edits : e \notin {r}
      /\ r \in Requests /\ Operations = {"revert", "apply"}
  BY Names DEF TypeOK, RequestType
<1>1. /\ ~Operating /\ page = "here" /\ hasWriteTransaction
      /\ Start({r}, req, cached, subscribed, fetch)
      /\ covered' = {} /\ commitInProgress' = (r = "apply")
      /\ UNCHANGED <<open, opened, fate, trans, cached, pendingTrans, hasWriteTransaction,
                     gesture, page, visits>>
  BY FillPressed
<1>2. /\ Filling' = Filling /\ \A e \in Edits : InFlight(e) => Filling
      /\ page' \in {"here", "leaving", "away"} /\ visits' \in 0..MaxVisits
      /\ gesture' \in [Gestures -> {"ready", "first", "then", "done"}]
      /\ commitInProgress' \in BOOLEAN /\ (commitInProgress' => "apply" \in {r})
      /\ ~InFlight(r)
  BY <1>1 DEF Filling, FieldsInv, TypeOK, Operating
<1>3. /\ TypeOK' /\ FieldsInv' /\ FillRequestInv' /\ FillOpenInv' /\ FillCacheInv'
      /\ FillKnownInv' /\ FillPendingInv' /\ FillOperationInv' /\ FillFlagInv'
      /\ \A e \in Edits : Underway(e)' <=> (Underway(e) \/ e \in {r})
      /\ \A e \in Edits : InFlight(e)' => InFlight(e) \/ e \in {r}
  <2> HIDE DEF FillingInv
  <2> QED BY <1>0, <1>1, <1>2, FillStart
<1>4. FormsInv'
  BY <1>1 DEF FormsInv
<1>5. FateInv'
  <2>1. \A e \in Edits : (Underway(e)' <=> Underway(e)) /\ (InFlight(e)' => InFlight(e))
    BY <1>0, <1>3
  <2> QED BY <1>1, <2>1, GestureEdits DEF FateInv
<1>6. AwayInv'
  BY <1>1 DEF AwayInv
<1> QED BY <1>3, <1>4, <1>5, <1>6

\* A page that is loaded knows nothing, and asks.
LEMMA FillLoad ==
  ASSUME Considerate, FillingInv, Load
  PROVE  FillingInv'
<1> USE DEF FillingInv, server, flags
<1> DEFINE R == {"query", "changes"}
<1>0. /\ R \in SUBSET Requests /\ R \cap Edits = {} /\ R \cap Operations = {}
      /\ req \in [Requests -> RequestType] /\ Edits \subseteq Requests
  BY Names DEF Operations, TypeOK, RequestType
<1>1. /\ page = "away" /\ page' = "here"
      /\ Start(R, req, cached, subscribed, fetch)
      /\ UNCHANGED <<open, opened, fate, trans, cached, pendingTrans, hasWriteTransaction,
                     commitInProgress, gesture, covered>>
  BY DEF Load
<1>2. visits' \in 0..MaxVisits
  BY JsonRpcTransactionsAssumption DEF Load, TypeOK
<1>3. /\ \A q \in Requests : ~InFlight(q)
      /\ ~hasWriteTransaction /\ \A g \in Gestures : gesture'[g] \in {"ready", "done"}
  BY <1>1 DEF AwayInv, NoRequest, InFlight
<1>4. /\ page' \in {"here", "leaving", "away"} /\ "query" \in R /\ covered' = {}
      /\ gesture' \in [Gestures -> {"ready", "first", "then", "done"}]
      /\ commitInProgress' \in BOOLEAN /\ \A q \in R : ~InFlight(q)
      /\ \A e \in Edits : ~InFlight(e)
  BY <1>0, <1>1, <1>3 DEF TypeOK, FieldsInv
<1> HIDE DEF R
<1>5. /\ TypeOK' /\ FieldsInv' /\ FillRequestInv' /\ FillOpenInv' /\ FillCacheInv'
      /\ FillKnownInv' /\ FillPendingInv' /\ FillOperationInv' /\ FillFlagInv'
      /\ \A e \in Edits : Underway(e)' <=> (Underway(e) \/ e \in R)
      /\ \A e \in Edits : InFlight(e)' => InFlight(e) \/ e \in R
  <2> HIDE DEF FillingInv
  <2> QED BY <1>0, <1>1, <1>2, <1>3, <1>4, FillStart
<1>6. FormsInv'
  <2>1. \A g \in Gestures : gesture'[g] \notin {"first", "then"}
    BY <1>3
  <2> QED BY <1>1, <2>1 DEF FormsInv
<1>7. FateInv'
  <2>1. \A e \in Edits : (Underway(e)' <=> Underway(e)) /\ (InFlight(e)' => InFlight(e))
    BY <1>0, <1>5
  <2> QED BY <1>1, <2>1, GestureEdits DEF FateInv
<1>8. AwayInv'
  BY <1>1 DEF AwayInv
<1> QED BY <1>5, <1>6, <1>7, <1>8

\* A query finds a transaction, or starts.
LEMMA FillRefresh ==
  ASSUME Considerate, FillingInv, Refresh
  PROVE  FillingInv'
<1> USE DEF FillingInv, server, user, flags, cache
<1>1. /\ page = "here" /\ ~InFlight("query")
      /\ UNCHANGED <<open, opened, fate, trans, cached, pendingTrans,
                     commitInProgress, gesture, page, visits, covered>>
  BY DEF Refresh, Quiet
<1>2. FormsInv'
  BY <1>1 DEF FormsInv
<1>3. CASE \E t \in trans : ~t.path
  <2>1. /\ UNCHANGED <<req, subscribed, fetch>>
        /\ hasWriteTransaction' = (hasWriteTransaction \/ findWriteTransaction(FALSE) # {})
    BY <1>3 DEF Refresh
  <2>2. findWriteTransaction(FALSE) # {} => MainOf(trans) # {}
    BY DEF findWriteTransaction, First, MainOf, RW
  <2>3. /\ Main' = Main /\ MainOf(trans)' = MainOf(trans) /\ Filling' = Filling
        /\ Operating' = Operating
        /\ \A r \in Requests : (InFlight(r)' <=> InFlight(r)) /\ (Ending(r)' <=> Ending(r))
                               /\ (Underway(r)' <=> Underway(r))
    BY <1>1, <2>1 DEF Main, MainOf, W, RW, Filling, Operating, InFlight, Ending, Underway
  <2>4. hasWriteTransaction' \in BOOLEAN /\ (hasWriteTransaction => hasWriteTransaction')
    BY <2>1 DEF TypeOK
  <2>5. TypeOK' /\ FieldsInv' /\ FillRequestInv' /\ FillOpenInv'
    <3>1. TypeOK'
      BY <1>1, <2>1, <2>4 DEF TypeOK
    <3>2. FieldsInv'
      BY <1>1, <2>1, <2>3, Names DEF FieldsInv
    <3>3. FillRequestInv' /\ FillOpenInv'
      BY <1>1, <2>1, <2>3, Names DEF FillRequestInv, FillOpenInv
    <3> QED BY <3>1, <3>2, <3>3
  <2>6. FateInv'
    BY <1>1, <2>1, <2>3, Names, GestureEdits DEF FateInv
  <2>7. FillCacheInv' /\ FillKnownInv' /\ FillPendingInv' /\ AwayInv'
    BY <1>1, <2>1, <2>3, Names DEF FillCacheInv, FillKnownInv, FillPendingInv, FillRight,
       MainOf, RW, Ids, AwayInv
  <2>8. FillOperationInv'
    BY <1>1, <2>1, <2>3, <2>4, Names DEF FillOperationInv, Ids
  <2>9. FillFlagInv'
    BY <1>1, <2>1, <2>2, <2>3, <2>4, Names DEF FillFlagInv
  <2> QED BY <1>2, <2>5, <2>6, <2>7, <2>8, <2>9
<1>4. CASE ~\E t \in trans : ~t.path
  <2>1. /\ Start({"query"}, req, cached, subscribed, fetch)
        /\ UNCHANGED hasWriteTransaction
    BY <1>4 DEF Refresh
  <2>2. /\ {"query"} \in SUBSET Requests /\ {"query"} \cap Edits = {}
        /\ {"query"} \cap Operations = {} /\ \A e \in Edits : e \notin {"query"}
        /\ req \in [Requests -> RequestType]
    BY Names DEF Operations, TypeOK, RequestType
  <2>3. /\ Filling' = Filling /\ \A e \in Edits : InFlight(e) => Filling
        /\ page' \in {"here", "leaving", "away"} /\ visits' \in 0..MaxVisits
        /\ gesture' \in [Gestures -> {"ready", "first", "then", "done"}]
        /\ commitInProgress' \in BOOLEAN /\ covered' = {}
    BY <1>1 DEF Filling, FieldsInv, TypeOK
  <2>4. /\ TypeOK' /\ FieldsInv' /\ FillRequestInv' /\ FillOpenInv' /\ FillCacheInv'
        /\ FillKnownInv' /\ FillPendingInv' /\ FillOperationInv' /\ FillFlagInv'
        /\ \A e \in Edits : Underway(e)' <=> (Underway(e) \/ e \in {"query"})
        /\ \A e \in Edits : InFlight(e)' => InFlight(e) \/ e \in {"query"}
    <3> HIDE DEF FillingInv
    <3> QED BY <1>1, <2>1, <2>2, <2>3, FillStart
  <2>5. FateInv'
    <3>1. \A e \in Edits : (Underway(e)' <=> Underway(e)) /\ (InFlight(e)' => InFlight(e))
      BY <2>2, <2>4
    <3> QED BY <1>1, <3>1, GestureEdits DEF FateInv
  <2>6. AwayInv'
    BY <1>1 DEF AwayInv
  <2> QED BY <1>2, <2>4, <2>5, <2>6
<1> QED BY <1>3, <1>4

\* The page goes away: the server has still taken the values A, each in the
\* transaction of its form, and perhaps ended the one of the configuration.
LEMMA FillUnloadIs ==
  ASSUME Considerate, FillingInv, Unload
  PROVE  \E A \in SUBSET ActionEdits :
           /\ \A e \in A : e \in Edits /\ req[e].pc = "sent"
           /\ fate' = [e \in Edits |-> IF e \in A THEN "open" ELSE fate[e]]
           /\ DOMAIN open' \subseteq DOMAIN open
           /\ \A t \in DOMAIN open' :
                /\ open'[t] \in [mode: Modes, path: BOOLEAN, edits: SUBSET Edits]
                /\ open'[t].mode = open[t].mode /\ open'[t].path = open[t].path
                /\ open'[t].edits \subseteq ActionEdits
                /\ t \in Main => open'[t].edits = {}
<1> USE DEF FillingInv
<1> DEFINE Taken(A) == [t \in DOMAIN open |->
                          [open[t] EXCEPT !.edits = @ \cup {e \in A : req[e].th = t}]]
           Ends(A, O, r) == {t \in DOMAIN open :
                               /\ r \in O /\ req[r].th = t
                               /\ r = "apply" => Taken(A)[t].edits \cap Invalid = {}}
<1>1. PICK A \in SUBSET {e \in Edits : /\ req[e].pc = "sent" /\ req[e].th \in DOMAIN open
                                       /\ open[req[e].th].mode = "read_write"
                                       /\ open[req[e].th].path = actionPath(e)},
           O \in SUBSET {r \in Operations : /\ req[r].pc = "sent"
                                            /\ req[r].method # "validate_commit"
                                            /\ req[r].th \in DOMAIN open} :
        /\ open' = [t \in DOMAIN open \ (Ends(A, O, "apply") \cup Ends(A, O, "revert"))
                      |-> Taken(A)[t]]
        /\ fate' = [e \in Edits |->
             IF \E t \in Ends(A, O, "revert") : e \in Taken(A)[t].edits THEN "dropped"
             ELSE IF \E t \in Ends(A, O, "apply") : e \in Taken(A)[t].edits THEN "running"
             ELSE IF e \in A THEN "open" ELSE fate[e]]
  BY DEF Unload
<1>2. A \in SUBSET Edits /\ A \in SUBSET ActionEdits
      /\ \A e \in A : e \in Edits /\ req[e].pc = "sent" /\ req[e].th \notin Main
  <2>1. A \in SUBSET Edits /\ \A e \in A : InFlight(e) /\ req[e].pc = "sent"
    BY <1>1 DEF InFlight
  <2>2. A \in SUBSET ActionEdits
    BY <2>1 DEF FieldsInv
  <2>3. \A e \in A : req[e].th \notin Main
    BY <1>1, <2>2 DEF Main, actionPath
  <2> QED BY <2>1, <2>2, <2>3
<1>3. \A t \in DOMAIN open :
        /\ Taken(A)[t] \in [mode: Modes, path: BOOLEAN, edits: SUBSET Edits]
        /\ Taken(A)[t].mode = open[t].mode /\ Taken(A)[t].path = open[t].path
        /\ Taken(A)[t].edits \subseteq ActionEdits
        /\ t \in Main => Taken(A)[t].edits = {}
  <2>1. ASSUME NEW t \in DOMAIN open
        PROVE  /\ Taken(A)[t] \in [mode: Modes, path: BOOLEAN, edits: SUBSET Edits]
               /\ Taken(A)[t].mode = open[t].mode /\ Taken(A)[t].path = open[t].path
               /\ Taken(A)[t].edits \subseteq ActionEdits
               /\ t \in Main => Taken(A)[t].edits = {}
    <3>1. open[t] \in [mode: Modes, path: BOOLEAN, edits: SUBSET Edits]
      BY <2>1 DEF TypeOK
    <3>2. Taken(A)[t] = [open[t] EXCEPT !.edits = open[t].edits \cup {e \in A : req[e].th = t}]
      BY <2>1
    <3>3. open[t].edits \subseteq ActionEdits /\ (t \in Main => open[t].edits = {})
      BY <2>1 DEF FillOpenInv
    <3>4. t \in Main => {e \in A : req[e].th = t} = {}
      BY <1>2
    <3> QED BY <1>2, <3>1, <3>2, <3>3, <3>4
  <2> QED BY <2>1
<1> HIDE DEF Taken
<1>4. \A r \in {"apply", "revert"} : Ends(A, O, r) \subseteq Main
  <2>1. \A o \in O : req[o].th \in Main
    BY <1>1 DEF FillOperationInv
  <2> QED BY <2>1
<1>5. \A r \in {"apply", "revert"} : ~\E t \in Ends(A, O, r) : Taken(A)[t].edits # {}
  BY <1>3, <1>4 DEF Main, W
<1>6. fate' = [e \in Edits |-> IF e \in A THEN "open" ELSE fate[e]]
  <2> HIDE DEF Ends
  <2>1. \A e \in Edits : /\ ~\E t \in Ends(A, O, "revert") : e \in Taken(A)[t].edits
                         /\ ~\E t \in Ends(A, O, "apply") : e \in Taken(A)[t].edits
    BY <1>5
  <2> QED BY <1>1, <2>1
<1>7. DOMAIN open' \subseteq DOMAIN open /\ \A t \in DOMAIN open' : open'[t] = Taken(A)[t]
  BY <1>1
<1> HIDE DEF Ends
<1> QED BY <1>2, <1>3, <1>6, <1>7

\* A page that is left leaves at most one transaction of the configuration.
LEMMA FillUnload ==
  ASSUME Considerate, FillingInv, Unload
  PROVE  FillingInv'
<1> USE DEF FillingInv
<1>1. /\ page' = "away" /\ trans' = {} /\ cached' = FALSE /\ subscribed' = FALSE
      /\ fetch' = NoFetch /\ pendingTrans' = NoPending
      /\ req' = [r \in Requests |-> NoRequest]
      /\ hasWriteTransaction' = FALSE /\ commitInProgress' = FALSE /\ covered' = {}
      /\ gesture' = [g \in Gestures |-> IF gesture[g] = "ready" THEN "ready" ELSE "done"]
      /\ UNCHANGED <<opened, visits>>
  BY DEF Unload
<1>2. PICK A \in SUBSET ActionEdits :
        /\ \A e \in A : e \in Edits /\ req[e].pc = "sent"
        /\ fate' = [e \in Edits |-> IF e \in A THEN "open" ELSE fate[e]]
        /\ DOMAIN open' \subseteq DOMAIN open
        /\ \A t \in DOMAIN open' :
             /\ open'[t] \in [mode: Modes, path: BOOLEAN, edits: SUBSET Edits]
             /\ open'[t].mode = open[t].mode /\ open'[t].path = open[t].path
             /\ open'[t].edits \subseteq ActionEdits
             /\ t \in Main => open'[t].edits = {}
  BY FillUnloadIs
<1>3. Main' \subseteq Main
  BY <1>2 DEF Main, W
<1>4. \A q \in Requests : req'[q] = NoRequest
  BY <1>1
<1>5. /\ \A q \in Requests : ~InFlight(q)' /\ ~Underway(q)' /\ ~Ending(q)'
      /\ ~Operating' /\ Filling'
  <2>1. \A q \in Requests : ~InFlight(q)' /\ ~Underway(q)' /\ ~Ending(q)'
    BY <1>4 DEF NoRequest, InFlight, Underway, Ending
  <2>2. ~Operating'
    BY <2>1, Names DEF Operating
  <2> QED BY <1>1, <2>1, <2>2 DEF Filling
<1>6. /\ gesture' \in [Gestures -> {"ready", "first", "then", "done"}]
      /\ \A g \in Gestures : gesture'[g] \in {"ready", "done"}
      /\ \A g \in Gestures : gesture'[g] # "done" => gesture[g] = "ready"
  BY <1>1
<1>7. TypeOK'
  <2>1. fetch' \in [state: {"none", "asked", "answered"}, list: SUBSET Known]
    BY <1>1 DEF NoFetch
  <2>2. pendingTrans' \in [state: {"none", "asked", "answered"}, mode: Modes,
                           path: BOOLEAN, th: Th \cup {NoTh}]
    BY <1>1 DEF NoPending, Modes
  <2>3. NoRequest \in RequestType /\ NoRequest.pc # "sent"
    BY DEF NoRequest, RequestType, Methods
  <2>4. fate' \in [Edits -> {"new", "open", "running", "dropped", "refused"}]
    BY <1>2 DEF TypeOK
  <2>5. DOMAIN open' \subseteq Th
    BY <1>2 DEF TypeOK
  <2>6. req' \in [Requests -> RequestType]
    BY <1>1, <2>3
  <2> QED BY <1>1, <1>2, <1>4, <1>6, <2>1, <2>2, <2>3, <2>4, <2>5, <2>6 DEF TypeOK, RequestType
<1>8. FormsInv'
  <2>1. PICK S \in Scenarios : Fill(S) /\ \A h \in Gestures : gesture[h] # "done" => h \in S
    BY DEF FormsInv
  <2>2. \A h \in Gestures : gesture'[h] # "done" => h \in S
    BY <1>6, <2>1
  <2> QED BY <1>1, <2>1, <2>2 DEF FormsInv
<1>9. FieldsInv'
  <2>1. \A e \in Edits : ~InFlight(e)'
    BY <1>5, Names
  <2>2. \A e \in Edits \ ActionEdits : fate'[e] = "new"
    BY <1>2 DEF FieldsInv
  <2> QED BY <1>1, <2>1, <2>2 DEF FieldsInv
<1>10. FillRequestInv' /\ FillOperationInv'
  <2>1. FillRequestInv'
    BY <1>4, <1>5, Names DEF FillRequestInv, NoRequest
  <2>2. FillOperationInv'
    BY <1>4, <1>5, Names DEF FillOperationInv, NoRequest
  <2> QED BY <2>1, <2>2
<1>11. FateInv'
  <2>1. ASSUME NEW g \in Gestures, gesture'[g] = "ready", NEW e \in Uses(g)
        PROVE  fate'[e] = "new"
    <3>1. e \in Edits /\ fate[e] = "new" /\ ~InFlight(e)
      BY <1>6, <2>1, GestureEdits DEF FateInv
    <3>2. e \notin A
      BY <1>2, <3>1 DEF InFlight
    <3> QED BY <1>2, <3>1, <3>2
  <2>2. \A e \in Edits : ~Underway(e)' /\ ~InFlight(e)'
    BY <1>5, Names
  <2> QED BY <1>6, <2>1, <2>2, GestureEdits DEF FateInv
<1>12. FillOpenInv'
  <2>1. \A t, u \in Main' : t = u
    BY <1>3 DEF FillOpenInv
  <2>2. \A t \in DOMAIN open' : t <= opened' /\ open'[t].edits \subseteq ActionEdits
    BY <1>1, <1>2 DEF FillOpenInv
  <2>3. \A t \in Main' : open'[t].edits = {}
    BY <1>2, <1>3 DEF Main, W
  <2> QED BY <2>1, <2>2, <2>3 DEF FillOpenInv
<1>13. FillCacheInv' /\ FillKnownInv'
  BY <1>1, <1>4 DEF FillCacheInv, FillKnownInv, FillRight, NoFetch, NoRequest
<1>14. FillPendingInv' /\ FillFlagInv' /\ AwayInv'
  BY <1>1, <1>4, <1>6 DEF FillPendingInv, FillFlagInv, AwayInv, NoPending
<1> QED BY <1>7, <1>8, <1>9, <1>10, <1>11, <1>12, <1>13, <1>14

\* The transaction of the configuration is found if it is cached; and if it is
\* not, an operation has it, or there is none.
LEMMA FillFound ==
  ASSUME Considerate, FillingInv
  PROVE  /\ findWriteTransaction(FALSE) = MainOf(trans)
         /\ \A t \in MainOf(trans) : t \in trans /\ t.mode = "read_write" /\ t.th \in Main
         /\ cached /\ MainOf(trans) = {} /\ Main # {} =>
              \E o \in Operations : Ending(o) /\ Operating /\ hasWriteTransaction
<1> USE DEF FillingInv
<1>1. \A t \in MainOf(trans) : t \in trans /\ t.mode = "read_write" /\ t.th \in Main
  BY DEF MainOf, RW, FillCacheInv, FillRight
<1>2. \A t \in trans : t.th \in Nat /\ t.path \in BOOLEAN
  <2>1. \A t \in Known : t.th \in Nat /\ t.path \in BOOLEAN
    BY JsonRpcTransactionsAssumption DEF Known, Th
  <2> QED BY <2>1 DEF TypeOK
<1>3. {t \in trans : t.mode = "read_write" /\ t.path = FALSE} = MainOf(trans)
  BY <1>2 DEF MainOf, RW
<1>4. First(MainOf(trans)) = MainOf(trans)
  <2>1. \A t, u \in MainOf(trans) : t.th <= u.th
    BY <1>1, <1>2 DEF FillOpenInv
  <2> QED BY <2>1 DEF First
<1>5. ASSUME cached, MainOf(trans) = {}, Main # {}
      PROVE  \E o \in Operations : Ending(o) /\ Operating /\ hasWriteTransaction
  <2>1. PICK t \in Main : TRUE
    BY <1>5
  <2>2. t \notin Ids(trans)
    BY <1>5, <2>1 DEF Ids, FillCacheInv, FillRight
  <2>3. PICK o \in Operations : Ending(o)
    BY <1>5, <2>1, <2>2 DEF FillKnownInv
  <2>4. Operating
    BY <2>3 DEF Operating, Ending, InFlight
  <2> QED BY <2>3, <2>4 DEF FillOperationInv
<1> QED BY <1>1, <1>3, <1>4, <1>5 DEF findWriteTransaction

\* Request r goes on from the list of transactions to state v.
LEMMA FillMoves ==
  ASSUME Considerate, FillingInv, NEW r \in Requests, CanGetTransaction(r),
         NEW v \in RequestType, req' = [req EXCEPT ![r] = v],
         v.pc \in {"idle", "new", "sent", "answered"},
         v.pc # "idle" => v.answer = "none" /\ v.method = req[r].method,
         v.pc = "idle" => r = "query",
         v.pc = "new" => r \in Edits \cup {"query"},
         v.pc = "sent" => r # "query" /\ v.th # NoTh,
         v.pc = "answered" => r \notin Edits /\ r # "query",
         r \in Operations /\ v.pc = "sent" => v.th \in Main,
         r \in Operations /\ v.pc = "answered" => MainOf(trans) = {},
         trans' = IF v.pc = "sent" /\ v.method \in {"commit", "delete_trans"}
                  THEN {u \in trans : u.th # v.th} ELSE trans,
         hasWriteTransaction' \in BOOLEAN, hasWriteTransaction => hasWriteTransaction',
         hasWriteTransaction' => hasWriteTransaction \/ Filling \/ MainOf(trans) # {},
         r \notin Edits => hasWriteTransaction' \/ MainOf(trans) = {},
         \/ pendingTrans' = pendingTrans
         \/ /\ pendingTrans' \in [state: {"none", "asked", "answered"}, mode: Modes,
                                  path: BOOLEAN, th: Th \cup {NoTh}]
            /\ pendingTrans'.state = "asked"
            /\ pendingTrans'.mode = "read_write" => pendingTrans'.path,
         UNCHANGED <<open, opened, fate, cached, subscribed, fetch, commitInProgress,
                     gesture, page, visits, covered>>
  PROVE  FillingInv'
<1> USE DEF FillingInv
<1>0. /\ Operations \subseteq Requests /\ Edits \subseteq Requests /\ "query" \in Requests
      /\ "apply" \in Operations /\ "revert" \in Operations
      /\ Operations = {"revert", "apply"} /\ "query" \notin Operations
      /\ \A e \in Edits : e \notin Operations /\ e # "query"
  BY Names
<1>1. /\ req[r].pc = "trans" /\ InFlight(r) /\ cached /\ page # "away"
      /\ req[r].method \in {"commit", "delete_trans"} => r \in Operations
  <2>1. req[r].pc = "trans" /\ InFlight(r)
    BY DEF CanGetTransaction, InFlight
  <2>2. cached
    BY <2>1 DEF CanGetTransaction, FillCacheInv
  <2>3. page # "away"
    BY <2>1 DEF AwayInv, NoRequest
  <2>4. req[r].method = MethodOf(r) \/ (r = "apply" /\ req[r].method = "commit")
    BY <2>1 DEF FillRequestInv
  <2>5. MethodOf(r) \in {"commit", "delete_trans"} => r \in Operations
    BY Names
  <2> QED BY <1>0, <2>1, <2>2, <2>3, <2>4, <2>5
<1>2. /\ req' \in [Requests -> RequestType] /\ req'[r] = v
      /\ \A q \in Requests \ {r} : req'[q] = req[q]
  BY DEF TypeOK, RequestType
<1> DEFINE Ends == r \in Operations /\ v.pc = "sent" /\ v.method \in {"commit", "delete_trans"}
<1>3. /\ Main' = Main /\ Filling' = Filling
      /\ \A q \in Requests : InFlight(q)' <=> (InFlight(q) /\ (q = r => v.pc # "idle"))
      /\ \A q \in Edits : InFlight(q)' <=> InFlight(q)
      /\ \A q \in Edits : Underway(q)' <=> Underway(q)
      /\ \A o \in Operations : InFlight(o)' <=> InFlight(o)
      /\ \A q \in Requests : req'[q].pc = "trans" <=> (q # r /\ req[q].pc = "trans")
      /\ \A o \in Operations \ {r} : Ending(o)' <=> Ending(o)
      /\ ~Ending(r)
      /\ r \in Operations =>
           (Ending(r)' <=> v.pc \in {"sent", "answered"} /\ v.method \in {"commit", "delete_trans"})
  <2>1. Main' = Main /\ Filling' = Filling
    BY DEF Main, W, Filling
  <2>2. \A q \in Requests : InFlight(q)' <=> (InFlight(q) /\ (q = r => v.pc # "idle"))
    BY <1>1, <1>2 DEF InFlight
  <2>3. /\ \A q \in Edits : InFlight(q)' <=> InFlight(q)
        /\ \A o \in Operations : InFlight(o)' <=> InFlight(o)
    BY <1>0, <2>2
  <2>4. \A q \in Edits : Underway(q)' <=> Underway(q)
    BY <1>0, <1>1, <1>2 DEF Underway
  <2>5. \A q \in Requests : req'[q].pc = "trans" <=> (q # r /\ req[q].pc = "trans")
    BY <1>2
  <2>6. /\ \A o \in Operations \ {r} : Ending(o)' <=> Ending(o)
        /\ ~Ending(r)
    BY <1>0, <1>1, <1>2 DEF Ending
  <2>7. r \in Operations =>
          (Ending(r)' <=> v.pc \in {"sent", "answered"} /\ v.method \in {"commit", "delete_trans"})
    BY <1>2 DEF Ending
  <2> QED BY <2>1, <2>2, <2>3, <2>4, <2>5, <2>6, <2>7
<1>4. Operating' = Operating
  BY <1>3 DEF Operating
<1>5. /\ Ends <=> v.pc = "sent" /\ v.method \in {"commit", "delete_trans"}
      /\ trans' = IF Ends THEN {u \in trans : u.th # v.th} ELSE trans
      /\ trans' \subseteq trans
      /\ r \in Operations => \A o \in Operations \ {r} : ~InFlight(o) /\ ~Ending(o)
  <2>1. Ends <=> v.pc = "sent" /\ v.method \in {"commit", "delete_trans"}
    BY <1>1
  <2>2. r \in Operations => \A o \in Operations \ {r} : ~InFlight(o)
    BY <1>0, <1>1 DEF FillOperationInv
  <2>3. r \in Operations => \A o \in Operations \ {r} : ~InFlight(o) /\ ~Ending(o)
    BY <2>2 DEF InFlight, Ending
  <2> QED BY <2>1, <2>3
<1> HIDE DEF Ends
<1>6. TypeOK'
  <2>1. \A q \in Requests : req'[q].pc = "sent" => req'[q].th # NoTh
    BY <1>2 DEF TypeOK
  <2>2. pendingTrans' \in [state: {"none", "asked", "answered"}, mode: Modes,
                           path: BOOLEAN, th: Th \cup {NoTh}]
    BY DEF TypeOK
  <2>3. trans' \subseteq Known
    BY <1>5 DEF TypeOK
  <2> QED BY <1>2, <2>1, <2>2, <2>3 DEF TypeOK, RequestType
<1>7. FormsInv'
  BY DEF FormsInv
<1>8. FieldsInv' /\ FillOpenInv'
  BY <1>3 DEF FieldsInv, FillOpenInv
<1>9. FateInv'
  BY <1>3, GestureEdits DEF FateInv
<1>10. FillRequestInv'
  <2>1. ASSUME NEW q \in Requests, InFlight(q)'
        PROVE  /\ req'[q].method = MethodOf(q) \/ (q = "apply" /\ req'[q].method = "commit")
               /\ req'[q].pc # "answered" => req'[q].answer = "none"
               /\ req'[q].pc = "new" => q \in Edits \cup {"query"}
    <3>1. CASE q = r
      BY <1>1, <1>2, <1>3, <2>1, <3>1 DEF FillRequestInv, InFlight
    <3>2. CASE q # r
      BY <1>2, <1>3, <2>1, <3>2 DEF FillRequestInv
    <3> QED BY <3>1, <3>2
  <2>2. \A o \in Operations : req'[o].pc = "answered" => req'[o].answer \in {"ok", "none"}
    BY <1>0, <1>2 DEF FillRequestInv
  <2>3. \A e \in Edits : req'[e].pc = "answered" => req'[e].answer # "none"
    BY <1>0, <1>2 DEF FillRequestInv
  <2>4. req'["query"].pc \in {"idle", "trans", "new"}
    BY <1>0, <1>2 DEF FillRequestInv
  <2> QED BY <2>1, <2>2, <2>3, <2>4 DEF FillRequestInv
<1>11. FillCacheInv'
  <2>1. FillRight(trans)'
    BY <1>3, <1>5 DEF FillCacheInv, FillRight, MainOf, RW
  <2>2. fetch'.state = "answered" => FillRight(fetch.list)'
    BY <1>3 DEF FillCacheInv, FillRight, MainOf, RW
  <2> QED BY <1>1, <1>3, <1>5, <2>1, <2>2 DEF FillCacheInv
<1>12. FillKnownInv'
  <2>1. ASSUME NEW t \in Main'
        PROVE  t \in Ids(trans)' \/ \E o \in Operations : Ending(o)' /\ req'[o].th = t
    <3>1. t \in Ids(trans) \/ \E o \in Operations : Ending(o) /\ req[o].th = t
      BY <1>1, <1>3, <2>1 DEF FillKnownInv
    <3>2. CASE Ends
      <4>1. r \in Operations /\ v.pc = "sent" /\ v.method \in {"commit", "delete_trans"}
        BY <3>2 DEF Ends
      <4>2. v.th \in Main /\ v.th = t
        BY <1>3, <2>1, <4>1 DEF FillOpenInv
      <4> QED BY <1>2, <1>3, <4>1, <4>2
    <3>3. CASE ~Ends
      <4>1. trans' = trans /\ Ids(trans)' = Ids(trans)
        BY <1>5, <3>3 DEF Ids
      <4>2. \A o \in Operations : Ending(o) => o # r /\ Ending(o)' /\ req'[o] = req[o]
        BY <1>0, <1>2, <1>3
      <4> QED BY <3>1, <4>1, <4>2
    <3> QED BY <3>2, <3>3
  <2>2. fetch'.state = "answered" => Main' \subseteq Ids(fetch.list)'
    BY <1>3 DEF FillKnownInv, Ids
  <2> QED BY <2>1, <2>2 DEF FillKnownInv
<1>13. FillPendingInv'
  BY <1>3 DEF FillPendingInv
<1>14. FillOperationInv'
  <2>1. Operating' => subscribed' /\ hasWriteTransaction'
    BY <1>4 DEF FillOperationInv
  <2>2. ~(InFlight("apply")' /\ InFlight("revert")')
    BY <1>0, <1>3 DEF FillOperationInv
  <2>3. ASSUME NEW o \in Operations
        PROVE  /\ req'[o].pc \in {"sent", "answered"} => cached'
               /\ req'[o].pc = "sent" => req'[o].th \in Main'
               /\ Ending(o)' /\ req'[o].pc = "sent" => req'[o].th \notin Ids(trans)'
               /\ Ending(o)' /\ req'[o].pc = "answered" => Main' = {}
    <3>1. CASE o = r
      <4>1. Ending(o)' /\ req'[o].pc = "sent" => req'[o].th \notin Ids(trans)'
        BY <1>2, <1>3, <1>5, <3>1 DEF Ids
      <4>2. Ending(o)' /\ req'[o].pc = "answered" => Main' = {}
        <5>1. SUFFICES ASSUME req'[o].pc = "answered" PROVE Main = {}
          BY <1>3
        <5>2. MainOf(trans) = {}
          BY <1>2, <3>1, <5>1
        <5>3. ~\E q \in Operations : Ending(q)
          BY <1>3, <1>5, <3>1
        <5> QED BY <1>1, <5>2, <5>3, FillFound
      <4>3. req'[o].pc = "sent" => req'[o].th \in Main'
        BY <1>2, <1>3, <3>1
      <4> QED BY <1>1, <4>1, <4>2, <4>3
    <3>2. CASE o # r
      <4>1. o \in Requests /\ req'[o] = req[o] /\ (Ending(o)' <=> Ending(o))
        BY <1>0, <1>2, <1>3, <3>2
      <4>2. Ids(trans)' \subseteq Ids(trans)
        BY <1>5 DEF Ids
      <4> QED BY <1>1, <1>3, <4>1, <4>2 DEF FillOperationInv
    <3> QED BY <3>1, <3>2
  <2> QED BY <2>1, <2>2, <2>3 DEF FillOperationInv
<1>15. FillFlagInv'
  <2>1. hasWriteTransaction' /\ ~Filling' =>
          MainOf(trans)' # {} \/ \E o \in Operations : Ending(o)'
    <3>1. SUFFICES ASSUME hasWriteTransaction', ~Filling
                   PROVE  MainOf(trans)' # {} \/ \E o \in Operations : Ending(o)'
      BY <1>3
    <3>2. MainOf(trans) # {} \/ \E o \in Operations : Ending(o)
      BY <3>1 DEF FillFlagInv
    <3>3. CASE Ends
      BY <1>2, <1>3, <3>3 DEF Ends
    <3>4. CASE ~Ends
      <4>1. MainOf(trans)' = MainOf(trans)
        BY <1>5, <3>4 DEF MainOf, RW
      <4>2. \A o \in Operations : Ending(o) => Ending(o)'
        BY <1>3
      <4> QED BY <3>2, <4>1, <4>2
    <3> QED BY <3>3, <3>4
  <2>2. commitInProgress' => InFlight("apply")'
    BY <1>0, <1>3 DEF FillFlagInv
  <2>3. ASSUME page' = "here", Main' # {}
        PROVE  hasWriteTransaction' \/ \E q \in Requests \ Edits : req'[q].pc = "trans"
    <3>1. CASE r \in Edits
      BY <1>3, <2>3, <3>1 DEF FillFlagInv
    <3>2. CASE r \notin Edits
      BY <1>1, <1>3, <2>3, <3>2, FillFound
    <3> QED BY <3>1, <3>2
  <2> QED BY <2>1, <2>2, <2>3 DEF FillFlagInv
<1>16. AwayInv'
  BY <1>1 DEF AwayInv
<1> QED BY <1>6, <1>7, <1>8, <1>9, <1>10, <1>11, <1>12, <1>13, <1>14, <1>15, <1>16

\* What a request looks like that goes on from the list of transactions.
LEMMA FillAwaited ==
  ASSUME Considerate, FillingInv, NEW r \in Requests, CanGetTransaction(r)
  PROVE  LET m == req[r].method IN
         /\ req[r] \in RequestType /\ req[r].answer = "none" /\ InFlight(r)
         /\ r \in Edits \cup {"query", "changes", "revert", "apply"}
         /\ r \in Edits => /\ m = "set_value" /\ actionPath(r) = TRUE /\ Filling
                           /\ r # "query"
         /\ r \notin Edits => actionPath(r) = FALSE /\ ~allowNew(m)
         /\ getTransType(m) = "read" <=> r = "query"
         /\ getTransType(m) \in {"read", "read_write"}
<1> USE DEF FillingInv
<1>1. req[r] \in RequestType /\ req[r].pc = "trans" /\ InFlight(r)
  BY DEF TypeOK, RequestType, CanGetTransaction, InFlight
<1>2. /\ req[r].answer = "none"
      /\ req[r].method = MethodOf(r) \/ (r = "apply" /\ req[r].method = "commit")
  BY <1>1 DEF FillRequestInv
<1>3. r \in Edits => r \in ActionEdits /\ Filling /\ r # "query" /\ r # "apply"
  BY <1>1, Names DEF FieldsInv
<1>4. r \notin Edits => r \notin ActionEdits
  BY JsonRpcTransactionsAssumption
<1>5. r \in Edits => req[r].method = "set_value"
  BY <1>2, <1>3, Names
<1>6. r \notin Edits => req[r].method # "set_value" /\ (req[r].method = "query" <=> r = "query")
                        /\ r \in {"query", "changes", "revert", "apply"}
  BY <1>2, Names
<1> QED BY <1>1, <1>2, <1>3, <1>4, <1>5, <1>6 DEF getTransType, allowNew, actionPath

\* The await of a request for the list of transactions is over.
LEMMA FillGetTransaction ==
  ASSUME Considerate, FillingInv, NEW r \in Requests, GetTransaction(r)
  PROVE  FillingInv'
<1> DEFINE m == req[r].method
           read == IF getTransType(m) = "read" THEN First({t \in trans : ~t.path}) ELSE {}
           write == findWriteTransaction(actionPath(r))
<1>1. /\ CanGetTransaction(r)
      /\ UNCHANGED <<open, opened, fate, cached, subscribed, fetch, commitInProgress,
                     gesture, page, visits, covered>>
  BY DEF GetTransaction, server, user
<1>2. /\ req[r] \in RequestType /\ req[r].answer = "none"
      /\ r \in Edits \cup {"query", "changes", "revert", "apply"}
      /\ r \in Edits => /\ m = "set_value" /\ actionPath(r) = TRUE /\ Filling
                        /\ r # "query"
      /\ r \notin Edits => actionPath(r) = FALSE /\ ~allowNew(m)
      /\ getTransType(m) = "read" <=> r = "query"
      /\ getTransType(m) \in {"read", "read_write"}
  BY <1>1, FillAwaited
<1>3. /\ write \subseteq trans
      /\ r \notin Edits => /\ write = MainOf(trans)
                           /\ \A t \in write : t.th \in Main
      /\ hasWriteTransaction \in BOOLEAN
      /\ \A t \in trans : t.th \in Th /\ t.th # NoTh
  <2>1. write \subseteq trans
    BY DEF findWriteTransaction, First
  <2>2. \A t \in trans : t.th \in Th
    BY DEF FillingInv, TypeOK, Known
  <2>3. \A t \in trans : t.th # NoTh
    BY <2>2, JsonRpcTransactionsAssumption DEF Th, NoTh
  <2>4. hasWriteTransaction \in BOOLEAN
    BY DEF FillingInv, TypeOK
  <2> QED BY <1>2, <2>1, <2>2, <2>3, <2>4, FillFound
<1>4. ASSUME NEW t \in trans
      PROVE  /\ SentOn(r, t.th) \in RequestType
             /\ r = "query" => SentOn(r, t.th).pc = "idle"
             /\ r # "query" => /\ SentOn(r, t.th).pc = "sent" /\ SentOn(r, t.th).th = t.th
                               /\ SentOn(r, t.th).method = m
                               /\ SentOn(r, t.th).answer = "none"
  BY <1>2, <1>3 DEF SentOn, NoRequest, RequestType, Methods
<1>5. r = "query" => m \notin {"commit", "delete_trans"}
  BY <1>2 DEF getTransType
<1>6. r \in Operations => r \notin Edits /\ r # "query"
  BY Names
<1> HIDE DEF write
<1>7. ASSUME NEW t \in write, Sent(r, t.th), hasWriteTransaction' = TRUE,
             UNCHANGED pendingTrans
      PROVE  FillingInv'
  <2> DEFINE v == SentOn(r, t.th)
  <2>1. /\ v \in RequestType /\ v.pc \in {"idle", "sent"}
        /\ v.pc # "idle" => v.answer = "none" /\ v.method = req[r].method
        /\ v.pc = "idle" => r = "query"
        /\ v.pc = "sent" => r # "query" /\ v.th # NoTh
        /\ r \in Operations /\ v.pc = "sent" => v.th \in Main
        /\ v.pc = "sent" => v.th = t.th /\ v.method = m
    BY <1>3, <1>4, <1>6, <1>7
  <2>2. req' = [req EXCEPT ![r] = v]
    BY <1>7 DEF Sent
  <2>3. trans' = IF v.pc = "sent" /\ v.method \in {"commit", "delete_trans"}
                 THEN {u \in trans : u.th # v.th} ELSE trans
    BY <1>5, <1>7, <2>1 DEF Sent
  <2>4. Filling \/ MainOf(trans) # {}
    BY <1>2, <1>3, <1>7
  <2> HIDE DEF v
  <2> QED BY <1>1, <1>7, <2>1, <2>2, <2>3, <2>4, FillMoves
<1>8. ASSUME write = {}, getTransType(m) = "read_write", ~allowNew(m),
             req' = [req EXCEPT ![r].pc = "answered"],
             UNCHANGED <<trans, hasWriteTransaction, pendingTrans>>
      PROVE  FillingInv'
  <2> DEFINE v == [req[r] EXCEPT !.pc = "answered"]
  <2>1. r \notin Edits /\ r # "query" /\ MainOf(trans) = {}
    BY <1>2, <1>3, <1>8 DEF allowNew
  <2>2. /\ v \in RequestType /\ v.pc = "answered" /\ v.answer = "none"
        /\ v.method = req[r].method
    BY <1>2 DEF RequestType
  <2>3. req' = [req EXCEPT ![r] = v]
    BY <1>8 DEF FillingInv, TypeOK
  <2> HIDE DEF v
  <2> QED BY <1>1, <1>3, <1>8, <2>1, <2>2, <2>3, FillMoves
<1>9. ASSUME write = {}, NEW t \in read, Sent(r, t.th),
             UNCHANGED <<hasWriteTransaction, pendingTrans>>
      PROVE  FillingInv'
  <2> DEFINE v == SentOn(r, t.th)
  <2>1. r = "query" /\ t \in trans
    BY <1>2, <1>9 DEF First
  <2>2. v \in RequestType /\ v.pc = "idle"
    BY <1>4, <2>1
  <2>3. req' = [req EXCEPT ![r] = v] /\ trans' = trans
    BY <1>5, <1>9, <2>1 DEF Sent
  <2>4. r \notin Operations /\ MainOf(trans) = {}
    BY <1>3, <1>6, <1>9, <2>1, Names
  <2> HIDE DEF v
  <2> QED BY <1>1, <1>3, <1>9, <2>1, <2>2, <2>3, <2>4, FillMoves
<1>10. ASSUME write = {}, getTransType(m) = "read" \/ allowNew(m),
              req' = [req EXCEPT ![r].pc = "new"],
              pendingTrans' = IF Joins THEN pendingTrans
                              ELSE [state |-> "asked", mode |-> getTransType(m),
                                    path |-> actionPath(r), th |-> NoTh],
              UNCHANGED <<trans, hasWriteTransaction>>
       PROVE  FillingInv'
  <2> DEFINE v == [req[r] EXCEPT !.pc = "new"]
             p == [state |-> "asked", mode |-> getTransType(m),
                   path |-> actionPath(r), th |-> NoTh]
  <2>1. r \in Edits \cup {"query"} /\ r \notin Operations
    BY <1>2, <1>6, <1>10
  <2>2. /\ v \in RequestType /\ v.pc = "new" /\ v.answer = "none"
        /\ v.method = req[r].method
    BY <1>2 DEF RequestType
  <2>3. req' = [req EXCEPT ![r] = v]
    BY <1>10 DEF FillingInv, TypeOK
  <2>4. /\ p \in [state: {"none", "asked", "answered"}, mode: Modes,
                  path: BOOLEAN, th: Th \cup {NoTh}]
        /\ p.state = "asked" /\ (p.mode = "read_write" => p.path)
    BY <1>2, <2>1 DEF Modes
  <2>5. pendingTrans' = pendingTrans \/ pendingTrans' = p
    BY <1>10
  <2>6. r \notin Edits => MainOf(trans) = {}
    BY <1>3, <1>10
  <2> HIDE DEF v, p
  <2>7. \/ pendingTrans' = pendingTrans
        \/ /\ pendingTrans' \in [state: {"none", "asked", "answered"}, mode: Modes,
                                 path: BOOLEAN, th: Th \cup {NoTh}]
           /\ pendingTrans'.state = "asked"
           /\ pendingTrans'.mode = "read_write" => pendingTrans'.path
    BY <2>4, <2>5
  <2> QED BY <1>1, <1>3, <1>10, <2>1, <2>2, <2>3, <2>6, <2>7, FillMoves
<1> QED BY <1>7, <1>8, <1>9, <1>10 DEF GetTransaction, write

\* The new transaction is of a form, or reads; all who await it are sent on it.
LEMMA FillReceiveNewTrans ==
  ASSUME Considerate, FillingInv, ReceiveNewTrans
  PROVE  FillingInv'
<1> USE DEF FillingInv
<1> DEFINE n == [th |-> pendingTrans.th, mode |-> pendingTrans.mode, path |-> pendingTrans.path]
           waiting == {r \in Requests : req[r].pc = "new"}
<1>1. /\ pendingTrans.state = "answered" /\ pendingTrans' = NoPending
      /\ trans' = IF cached THEN trans \cup {n} ELSE trans
      /\ req' = [r \in Requests |->
                   IF r \in waiting THEN SentOn(r, pendingTrans.th) ELSE req[r]]
      /\ hasWriteTransaction' =
           (hasWriteTransaction \/ \E r \in waiting : getTransType(req[r].method) = "read_write")
      /\ UNCHANGED <<open, opened, fate, cached, subscribed, fetch, commitInProgress,
                     gesture, page, visits, covered>>
  BY DEF ReceiveNewTrans, Added, server, user
<1>2. /\ pendingTrans.th \in Th /\ pendingTrans.th # NoTh /\ pendingTrans.th <= opened
      /\ n \in Known /\ n.th = pendingTrans.th /\ n.th \notin Main
      /\ n.mode = "read_write" => n.path
      /\ page # "away"
  <2>1. pendingTrans.th \in DOMAIN open /\ pendingTrans.th \notin Main
    BY <1>1 DEF FillPendingInv
  <2>2. pendingTrans.th \in Th /\ pendingTrans.th <= opened
    BY <2>1 DEF TypeOK, FillOpenInv
  <2>3. pendingTrans.th # NoTh
    BY <2>2, JsonRpcTransactionsAssumption DEF Th, NoTh
  <2>4. n \in Known
    BY <2>2 DEF Known, TypeOK
  <2>5. page # "away"
    BY <1>1 DEF AwayInv, NoPending
  <2> QED BY <1>1, <2>1, <2>2, <2>3, <2>4, <2>5 DEF FillPendingInv
<1>3. /\ \A e \in Edits : e \in Requests /\ e # "query" /\ e \notin Operations /\ e # "apply"
      /\ \A o \in Operations : o \in Requests /\ o \notin Edits /\ o # "query"
      /\ "query" \in Requests /\ Operations = {"revert", "apply"}
      /\ waiting \subseteq Edits \cup {"query"}
  BY Names DEF FillRequestInv, InFlight
<1>4. /\ req' \in [Requests -> RequestType]
      /\ \A r \in Requests \ waiting : req'[r] = req[r]
      /\ "query" \in waiting => req'["query"].pc = "idle"
      /\ \A r \in waiting : r # "query" =>
           /\ req'[r].pc = "sent" /\ req'[r].th = pendingTrans.th
           /\ req'[r].method = req[r].method /\ req'[r].answer = "none"
  <2>1. req \in [Requests -> RequestType]
    BY DEF TypeOK, RequestType
  <2>2. ASSUME NEW r \in waiting
        PROVE  /\ SentOn(r, pendingTrans.th) \in RequestType
               /\ r = "query" => SentOn(r, pendingTrans.th).pc = "idle"
               /\ r # "query" =>
                    /\ SentOn(r, pendingTrans.th).pc = "sent"
                    /\ SentOn(r, pendingTrans.th).th = pendingTrans.th
                    /\ SentOn(r, pendingTrans.th).method = req[r].method
                    /\ SentOn(r, pendingTrans.th).answer = "none"
    <3>1. req[r].answer = "none" /\ req[r] \in RequestType
      BY <2>1, <2>2 DEF FillRequestInv, InFlight
    <3> QED BY <1>2, <3>1 DEF SentOn, NoRequest, RequestType, Methods
  <2> HIDE DEF n
  <2> QED BY <1>1, <2>1, <2>2
<1>5. /\ Main' = Main /\ Filling' = Filling
      /\ \A e \in Edits : (Underway(e)' <=> Underway(e)) /\ (InFlight(e)' <=> InFlight(e))
      /\ \A o \in Operations : req'[o] = req[o] /\ (InFlight(o)' <=> InFlight(o))
                               /\ (Ending(o)' <=> Ending(o))
      /\ \A q \in Requests : req'[q].pc = "trans" <=> req[q].pc = "trans"
      /\ Operating' = Operating
  <2>1. Main' = Main /\ Filling' = Filling
    BY <1>1 DEF Main, W, Filling
  <2>2. \A q \in Requests : req'[q].pc = "trans" <=> req[q].pc = "trans"
    BY <1>4
  <2>3. \A e \in Edits : (Underway(e)' <=> Underway(e)) /\ (InFlight(e)' <=> InFlight(e))
    BY <1>3, <1>4 DEF Underway, InFlight
  <2>4. \A o \in Operations : o \notin waiting
    BY <1>3
  <2>5. \A o \in Operations : req'[o] = req[o] /\ (InFlight(o)' <=> InFlight(o))
                              /\ (Ending(o)' <=> Ending(o))
    BY <1>3, <1>4, <2>4 DEF InFlight, Ending
  <2> QED BY <2>1, <2>2, <2>3, <2>5 DEF Operating
<1>6. /\ hasWriteTransaction' \in BOOLEAN /\ (hasWriteTransaction => hasWriteTransaction')
      /\ hasWriteTransaction' => hasWriteTransaction \/ Filling
  <2>1. ASSUME NEW r \in waiting, getTransType(req[r].method) = "read_write" PROVE Filling
    <3>1. req[r].method = MethodOf(r) /\ InFlight(r)
      BY <1>3 DEF FillRequestInv, InFlight
    <3>2. r \in Edits
      BY <1>3, <2>1, <3>1, Names DEF getTransType
    <3> QED BY <3>1, <3>2 DEF FieldsInv
  <2>2. hasWriteTransaction \in BOOLEAN
    BY DEF TypeOK
  <2> QED BY <1>1, <2>1, <2>2
<1>7. /\ trans' \subseteq trans \cup {n} /\ trans \subseteq trans'
      /\ trans' # {} => cached
      /\ MainOf(trans)' = MainOf(trans)
  <2>1. trans' \subseteq trans \cup {n} /\ trans \subseteq trans'
    BY <1>1
  <2>2. trans' # {} => cached
    BY <1>1 DEF FillCacheInv
  <2>3. MainOf(trans)' = MainOf(trans)
    BY <1>2, <2>1 DEF MainOf, RW
  <2> QED BY <2>1, <2>2, <2>3
<1> HIDE DEF n, waiting
<1>8. TypeOK'
  <2>1. \A q \in Requests : req'[q].pc = "sent" => req'[q].th # NoTh
    <3>1. ASSUME NEW q \in Requests, req'[q].pc = "sent" PROVE req'[q].th # NoTh
      <4>1. CASE q \in waiting
        BY <1>2, <1>4, <3>1, <4>1
      <4>2. CASE q \notin waiting
        BY <1>4, <3>1, <4>2 DEF TypeOK
      <4> QED BY <4>1, <4>2
    <3> QED BY <3>1
  <2>2. pendingTrans' \in [state: {"none", "asked", "answered"}, mode: Modes,
                           path: BOOLEAN, th: Th \cup {NoTh}]
    BY <1>1 DEF NoPending, Modes
  <2>3. trans' \subseteq Known
    BY <1>2, <1>7 DEF TypeOK
  <2> QED BY <1>1, <1>4, <1>6, <2>1, <2>2, <2>3 DEF TypeOK, RequestType
<1>9. FormsInv'
  BY <1>1 DEF FormsInv
<1>10. FieldsInv' /\ FillOpenInv'
  BY <1>1, <1>5 DEF FieldsInv, FillOpenInv
<1>11. FateInv'
  BY <1>1, <1>5, GestureEdits DEF FateInv
<1>12. FillRequestInv'
  <2>1. ASSUME NEW q \in Requests, InFlight(q)'
        PROVE  /\ req'[q].method = MethodOf(q) \/ (q = "apply" /\ req'[q].method = "commit")
               /\ req'[q].pc # "answered" => req'[q].answer = "none"
               /\ req'[q].pc = "new" => q \in Edits \cup {"query"}
    <3>1. CASE q \in waiting
      <4>1. q # "query"
        BY <1>4, <2>1, <3>1 DEF InFlight
      <4>2. InFlight(q)
        BY <3>1 DEF InFlight, waiting
      <4>3. req[q].method = MethodOf(q) \/ (q = "apply" /\ req[q].method = "commit")
        BY <4>2 DEF FillRequestInv
      <4> QED BY <1>4, <3>1, <4>1, <4>3
    <3>2. CASE q \notin waiting
      <4>1. req'[q] = req[q]
        BY <1>4, <3>2
      <4>2. InFlight(q)
        BY <2>1, <4>1 DEF InFlight
      <4>3. /\ req[q].method = MethodOf(q) \/ (q = "apply" /\ req[q].method = "commit")
            /\ req[q].pc # "answered" => req[q].answer = "none"
            /\ req[q].pc = "new" => q \in Edits \cup {"query"}
        BY <4>2 DEF FillRequestInv
      <4> QED BY <4>1, <4>3
    <3> QED BY <3>1, <3>2
  <2>2. \A e \in Edits : req'[e].pc = "answered" => req'[e].answer # "none"
    BY <1>3, <1>4 DEF FillRequestInv
  <2>3. req'["query"].pc \in {"idle", "trans", "new"}
    BY <1>3, <1>4 DEF FillRequestInv
  <2> QED BY <1>3, <1>5, <2>1, <2>2, <2>3 DEF FillRequestInv
<1>13. FillCacheInv'
  <2>1. FillRight(trans)'
    <3>1. \A t \in trans' : t.th <= opened' /\ (t \in MainOf(trans) <=> t.th \in Main)
      <4>1. \A t \in trans : t.th <= opened /\ (t \in MainOf(trans) <=> t.th \in Main)
        BY DEF FillCacheInv, FillRight
      <4>2. n \notin MainOf(trans)
        BY <1>2 DEF MainOf, RW
      <4> QED BY <1>1, <1>2, <1>7, <4>1, <4>2
    <3> QED BY <1>5, <1>7, <3>1 DEF FillRight, MainOf, RW
  <2>2. fetch'.state = "answered" => FillRight(fetch.list)'
    BY <1>1, <1>5 DEF FillCacheInv, FillRight, MainOf, RW
  <2> QED BY <1>1, <1>5, <1>7, <2>1, <2>2 DEF FillCacheInv
<1>14. FillKnownInv'
  BY <1>1, <1>5, <1>7 DEF FillKnownInv, Ids
<1>15. FillPendingInv'
  BY <1>1 DEF FillPendingInv, NoPending
<1>16. FillOperationInv'
  <2>1. ASSUME NEW o \in Operations, Ending(o)', req'[o].pc = "sent"
        PROVE  req'[o].th \notin Ids(trans)'
    <3>1. Ending(o) /\ req[o].pc = "sent" /\ req'[o] = req[o] /\ req[o].th \in Main
      BY <1>5, <2>1 DEF FillOperationInv
    <3>2. req[o].th \notin Ids(trans) /\ req[o].th # n.th
      BY <1>2, <3>1 DEF FillOperationInv
    <3> QED BY <1>7, <3>1, <3>2 DEF Ids
  <2> QED BY <1>1, <1>3, <1>5, <1>6, <2>1 DEF FillOperationInv
<1>17. FillFlagInv'
  <2>1. commitInProgress' => InFlight("apply")'
    BY <1>1, <1>3, <1>5 DEF FillFlagInv
  <2>2. hasWriteTransaction' /\ ~Filling' =>
          MainOf(trans)' # {} \/ \E o \in Operations : Ending(o)'
    BY <1>5, <1>6, <1>7 DEF FillFlagInv
  <2>3. page' = "here" /\ Main' # {} =>
          hasWriteTransaction' \/ \E q \in Requests \ Edits : req'[q].pc = "trans"
    BY <1>1, <1>5, <1>6 DEF FillFlagInv
  <2> QED BY <2>1, <2>2, <2>3 DEF FillFlagInv
<1>18. AwayInv'
  BY <1>1, <1>2 DEF AwayInv
<1> QED BY <1>8, <1>9, <1>10, <1>11, <1>12, <1>13, <1>14, <1>15, <1>16, <1>17, <1>18

\* The invariant is about the variables of the specification.
LEMMA FillStutter ==
  ASSUME Considerate, FillingInv, UNCHANGED vars
  PROVE  FillingInv'
<1> USE DEF FillingInv
<1>1. UNCHANGED <<open, opened, fate, trans, cached, subscribed, fetch, pendingTrans, req,
                  hasWriteTransaction, commitInProgress, gesture, page, visits, covered>>
  BY DEF vars, server, cache, flags, user
<1>2. /\ Main' = Main /\ MainOf(trans)' = MainOf(trans) /\ Filling' = Filling
      /\ Operating' = Operating
      /\ \A r \in Requests : (InFlight(r)' <=> InFlight(r)) /\ (Ending(r)' <=> Ending(r))
                             /\ (Underway(r)' <=> Underway(r))
  BY <1>1 DEF Main, MainOf, W, RW, Filling, Operating, InFlight, Ending, Underway
<1>3. TypeOK'
  BY <1>1 DEF TypeOK
<1>4. FormsInv'
  BY <1>1 DEF FormsInv
<1>5. FieldsInv'
  BY <1>1, <1>2, Names DEF FieldsInv
<1>6. FillRequestInv' /\ FillOpenInv'
  BY <1>1, <1>2, Names DEF FillRequestInv, FillOpenInv
<1>7. FateInv'
  BY <1>1, <1>2, Names, GestureEdits DEF FateInv
<1>8. FillCacheInv' /\ FillKnownInv' /\ FillPendingInv'
  BY <1>1, <1>2, Names DEF FillCacheInv, FillKnownInv, FillPendingInv, FillRight, MainOf, RW, Ids
<1>9. FillOperationInv' /\ FillFlagInv' /\ AwayInv'
  BY <1>1, <1>2, Names DEF FillOperationInv, FillFlagInv, AwayInv, Ids
<1> QED BY <1>3, <1>4, <1>5, <1>6, <1>7, <1>8, <1>9

\* An answer in the browser, which a form awaits or an operation.
LEMMA FillReceive ==
  ASSUME Considerate, FillingInv, NEW r \in Requests, ReceiveAnswer(r),
         req[r].answer = "none" \/ ~Internal
  PROVE  FillingInv'
<1>1. CASE r \in Edits /\ ReceiveEdit(r)
  BY <1>1, FillReceiveEdit
<1>2. CASE r = "changes" /\ ReceiveChanges
  BY <1>2, FillReceiveChanges
<1>3. CASE r = "apply" /\ ReceiveValidate
  BY <1>3, FillReceiveValidate
<1>4. CASE r \in Operations /\ ReceiveEnd(r)
  BY <1>4, FillReceiveEnd
<1> QED BY <1>1, <1>2, <1>3, <1>4 DEF ReceiveAnswer

\* The server serves request r.
LEMMA FillServe ==
  ASSUME Considerate, FillingInv, NEW r \in Requests, Serve(r)
  PROVE  FillingInv'
<1>1. CASE r \in Edits /\ ServeEdit(r)
  BY <1>1, FillServeEdit
<1>2. CASE r = "changes" /\ ServeChanges
  BY <1>2, FillServeChanges
<1>3. CASE r = "apply" /\ ServeValidate
  BY <1>3, FillServeValidate
<1>4. CASE r \in Operations /\ ServeEnd(r)
  BY <1>4, FillServeEnd
<1> QED BY <1>1, <1>2, <1>3, <1>4 DEF Serve

\* Every step of a session that fills in forms keeps its invariant, one case
\* per action of Next.
LEMMA FillingStep ==
  ASSUME Considerate, FillingInv, [Next]_vars
  PROVE  FillingInv'
<1>1. ASSUME NEW r \in Requests, Continue(r) PROVE FillingInv'
  BY <1>1, FillGetTransaction, FillReceive DEF Continue
<1>2. ASSUME NEW r \in Requests, Receive(r) PROVE FillingInv'
  BY <1>2, FillReceive DEF Receive
<1>3. ASSUME NEW r \in Requests, Serve(r) PROVE FillingInv'
  BY <1>3, FillServe
<1>4. CASE ReceiveTransaction
  BY <1>4, FillReceiveTrans, FillReceiveNewTrans DEF ReceiveTransaction
<1>5. CASE ServeTransaction
  BY <1>5, FillServeTrans, FillServeNewTrans DEF ServeTransaction
<1>6. ASSUME NEW g \in Gestures, BeginGesture(g) \/ Defaults(g) \/ EndGesture(g)
      PROVE  FillingInv'
  BY <1>6, FillBeginGesture, FillDefaults, FillEndGesture
<1>7. ASSUME NEW r \in Operations, Press(r) PROVE FillingInv'
  BY <1>7, FillPress
<1>8. CASE Refresh \/ Unload \/ Load
  BY <1>8, FillRefresh, FillUnload, FillLoad
<1>9. CASE UNCHANGED vars
  BY <1>9, FillStutter
<1> QED BY <1>1, <1>2, <1>3, <1>4, <1>5, <1>6, <1>7, <1>8, <1>9 DEF Next

------------------------------------------------------------------------------
(* Any session.                                                              *)

\* The invariant holds in every state.
LEMMA IInvAlways ==
  ASSUME Considerate
  PROVE  Spec => []IInv
<1>1. Init => IInv
  <2> SUFFICES ASSUME Init PROVE IInv
    OBVIOUS
  <2>1. PICK S \in Scenarios : gesture = [g \in Gestures |-> IF g \in S THEN "ready" ELSE "done"]
    BY DEF Init
  <2>2. CASE Edit(S)
    <3>1. EditingInv
      BY <2>1, <2>2, EditingInit DEF ScenarioInv
    <3>2. NoForms
      BY Names, JsonRpcTransactionsAssumption DEF NoForms, Init, InFlight, NoRequest
    <3> QED BY <3>1, <3>2 DEF IInv
  <2>3. CASE Fill(S)
    <3>1. FillingInv
      BY <2>1, <2>3, FillingInit
    <3> QED BY <3>1 DEF IInv
  <2> QED BY <2>2, <2>3 DEF Considerate
<1>2. IInv /\ [Next]_vars => IInv'
  BY EditingStep, NoFormsStep, FillingStep DEF IInv
<1> QED BY <1>1, <1>2, PTL DEF Spec

\* What holds in a session of either kind: an operation is not refused without
\* a reason, and never waits for a new transaction.
LEMMA EitherWay ==
  ASSUME Considerate, IInv
  PROVE  /\ TypeOK /\ FateInv /\ ~(InFlight("apply") /\ InFlight("revert"))
         /\ \A r \in Operations : /\ req[r].pc # "new"
                                  /\ req[r].pc = "answered" => req[r].answer # "error"
<1>1. CASE EditingInv
  BY <1>1, Names DEF EditingInv, RequestInv, OperationInv, InFlight
<1>2. CASE FillingInv
  BY <1>2, Names DEF FillingInv, FillRequestInv, FillOperationInv, InFlight
<1> QED BY <1>1, <1>2 DEF IInv

\* When nothing is in flight, the browser knows the transaction of the
\* configuration, and the buttons are enabled for it.
LEMMA Rest ==
  ASSUME Considerate, IInv, AtRest
  PROVE  /\ \A t, u \in Main : t = u
         /\ cached => FillRight(trans) /\ Main \subseteq Ids(trans)
         /\ hasWriteTransaction <=> Main # {}
         /\ ~commitInProgress
<1>1. /\ page = "here" /\ fetch.state = "none" /\ pendingTrans.state = "none"
      /\ \A r \in Requests : ~InFlight(r) /\ req[r].pc # "trans"
      /\ \A r \in Operations : ~Ending(r) /\ ~InFlight(r)
      /\ "apply" \in Operations
  BY Names DEF AtRest, Quiet, InFlight, Ending
<1>2. CASE EditingInv
  <2> USE <1>2 DEF EditingInv
  <2>1. Main = W /\ MainOf(trans) = RW(trans)
    BY DEF Main, MainOf, RW, W, PathInv
  <2>2. (\A t, u \in Main : t = u) /\ FillRight(trans)
    BY <2>1 DEF OpenInv, CacheInv, Right, FillRight, RW
  <2>3. cached => Main \subseteq Ids(trans)
    BY <1>1, <2>1 DEF KnownInv, Opening
  <2>4. hasWriteTransaction => Main # {}
    BY <1>1, <2>1 DEF FlagInv, CacheInv, Right, RW
  <2>5. (Main # {} => hasWriteTransaction) /\ ~commitInProgress
    BY <1>1, <2>1 DEF FlagInv, Opening
  <2> QED BY <2>2, <2>3, <2>4, <2>5
<1>3. CASE FillingInv
  <2> USE <1>3 DEF FillingInv
  <2>1. ~Filling
    <3>1. \A g \in Gestures : g.first \subseteq Requests /\ g.then \subseteq Requests
      BY Names, GestureEdits
    <3>2. \A g \in Gestures : gesture[g] # "first" /\ gesture[g] # "then"
      BY <1>1, <3>1 DEF AtRest, Quiet, Internal
    <3> QED BY <1>1, <3>2 DEF Filling
  <2>2. (\A t, u \in Main : t = u) /\ FillRight(trans)
    BY DEF FillOpenInv, FillCacheInv
  <2>3. cached => Main \subseteq Ids(trans)
    BY <1>1 DEF FillKnownInv
  <2>4. hasWriteTransaction => Main # {}
    <3>1. \A t \in MainOf(trans) : t \in trans
      BY DEF MainOf, RW
    <3>2. MainOf(trans) # {} => Main # {}
      BY <2>2, <3>1 DEF FillRight
    <3> QED BY <1>1, <2>1, <3>2 DEF FillFlagInv
  <2>5. (Main # {} => hasWriteTransaction) /\ ~commitInProgress
    BY <1>1 DEF FillFlagInv
  <2> QED BY <2>2, <2>3, <2>4, <2>5
<1> QED BY <1>2, <1>3 DEF IInv

\* Every variable keeps its type: only requests with a transaction are sent.
THEOREM TypeCorrect ==
  ASSUME Considerate
  PROVE  Spec => []TypeOK
<1>1. IInv => TypeOK
  BY EitherWay
<1> QED BY <1>1, IInvAlways, PTL

\* When nothing is in flight, the browser knows the one transaction that takes
\* edits of the configuration.
THEOREM KnownTransactions ==
  ASSUME Considerate
  PROVE  Spec => []TransactionsKnown
<1>1. IInv => TransactionsKnown
  <2> SUFFICES ASSUME IInv, AtRest PROVE TransactionsKnown
    BY DEF TransactionsKnown
  <2> DEFINE writable(S) == {t \in S : t.mode = "read_write" /\ ~t.path}
  <2>0. TypeOK
    BY EitherWay
  <2>1. /\ \A t, u \in Main : t = u
        /\ cached => FillRight(trans) /\ Main \subseteq Ids(trans)
    BY Rest
  <2>2. \A t \in trans : t \in Known /\ t.path \in BOOLEAN
    BY <2>0 DEF TypeOK, Known
  <2>3. \A t \in DOMAIN open : open[t].path \in BOOLEAN
    BY <2>0 DEF TypeOK
  <2>4. writable(Listed) = {[th |-> t, mode |-> "read_write", path |-> FALSE] : t \in Main}
    <3>1. ASSUME NEW x \in writable(Listed)
          PROVE  \E t \in Main : x = [th |-> t, mode |-> "read_write", path |-> FALSE]
      <4>1. PICK t \in DOMAIN open : x = [th |-> t, mode |-> open[t].mode, path |-> open[t].path]
        BY <3>1 DEF Listed
      <4>2. open[t].mode = "read_write" /\ open[t].path = FALSE
        BY <2>3, <3>1, <4>1
      <4> QED BY <4>1, <4>2 DEF Main, W
    <3>2. ASSUME NEW t \in Main
          PROVE  [th |-> t, mode |-> "read_write", path |-> FALSE] \in writable(Listed)
      <4>1. t \in DOMAIN open /\ open[t].mode = "read_write" /\ open[t].path = FALSE
        BY <2>3 DEF Main, W
      <4>2. [th |-> t, mode |-> "read_write", path |-> FALSE] \in Listed
        BY <4>1 DEF Listed
      <4> QED BY <4>2
    <3> QED BY <3>1, <3>2
  <2>5. cached => writable(trans) = writable(Listed)
    <3> SUFFICES ASSUME cached PROVE writable(trans) = writable(Listed)
      OBVIOUS
    <3>0. MainOf(trans) = writable(trans)
      BY DEF MainOf, RW
    <3>1. ASSUME NEW t \in writable(trans) PROVE t \in writable(Listed)
      <4>1. t.th \in Main /\ t.mode = "read_write" /\ t.path = FALSE
        BY <2>1, <2>2, <3>0, <3>1 DEF FillRight
      <4>2. t = [th |-> t.th, mode |-> t.mode, path |-> t.path]
        BY <2>2, <3>1 DEF Known
      <4> QED BY <2>4, <4>1, <4>2
    <3>2. ASSUME NEW t \in writable(Listed) PROVE t \in writable(trans)
      <4>1. PICK u \in Main : t = [th |-> u, mode |-> "read_write", path |-> FALSE]
        BY <2>4, <3>2
      <4>2. u \in Ids(trans)
        BY <2>1
      <4>3. PICK k \in trans : k.th = u
        BY <4>2 DEF Ids
      <4>4. k \in writable(trans)
        BY <2>1, <3>0, <4>1, <4>3 DEF FillRight
      <4>5. k.mode = "read_write" /\ k.path = FALSE
        BY <2>2, <4>3, <4>4
      <4>6. k = [th |-> u, mode |-> "read_write", path |-> FALSE]
        BY <2>2, <4>3, <4>5 DEF Known
      <4> QED BY <4>1, <4>4, <4>6
    <3> QED BY <3>1, <3>2
  <2>6. Cardinality(writable(Listed)) <= 1
    <3>1. CASE Main = {}
      <4>1. writable(Listed) = {}
        BY <2>4, <3>1
      <4> QED BY <4>1, FS_EmptySet
    <3>2. CASE Main # {}
      <4>1. PICK t \in Main : Main = {t}
        BY <2>1, <3>2
      <4>2. writable(Listed) = {[th |-> t, mode |-> "read_write", path |-> FALSE]}
        BY <2>4, <4>1
      <4>3. Cardinality({[th |-> t, mode |-> "read_write", path |-> FALSE]}) = 1
        BY FS_Singleton
      <4>4. Cardinality(writable(Listed)) = 1
        BY <4>2, <4>3
      <4> QED BY <4>4
    <3> QED BY <3>1, <3>2
  <2> QED BY <2>5, <2>6 DEF TransactionsKnown
<1> QED BY <1>1, IInvAlways, PTL

\* When nothing is in flight, the buttons are enabled exactly if there is a
\* write transaction.
THEOREM TruthfulButtons ==
  ASSUME Considerate
  PROVE  Spec => []ButtonsTruthful
<1>1. IInv => ButtonsTruthful
  <2> SUFFICES ASSUME IInv, AtRest PROVE ButtonsTruthful
    BY DEF ButtonsTruthful
  <2>1. (hasWriteTransaction <=> Main # {}) /\ ~commitInProgress
    BY Rest
  <2>2. Main # {} <=> \E t \in DOMAIN open : open[t].mode = "read_write" /\ ~open[t].path
    BY DEF Main, W
  <2> QED BY <2>1, <2>2 DEF ButtonsTruthful
<1> QED BY <1>1, IInvAlways, PTL

\* A form that goes to another page has every value taken or refused.
THEOREM CompleteForms ==
  ASSUME Considerate
  PROVE  Spec => FormsComplete
<1>1. ASSUME IInv, [Next]_vars, NEW g \in Gestures,
             gesture[g] = "then", gesture'[g] = "done", page # "away", page' # "away"
      PROVE  \A e \in g.first \cup g.then : fate[e] # "new"
  <2>0. TypeOK /\ FateInv
    BY <1>1, EitherWay
  <2>1. \A e \in g.first : fate[e] # "new"
    BY <1>1, <2>0 DEF FateInv
  <2>2. \A e \in g.then : ~InFlight(e)
    <3>1. gesture' # gesture /\ gesture'[g] # "first" /\ gesture'[g] # "then"
      BY <1>1
    <3>2. ASSUME NEW r \in Requests, Continue(r) \/ Receive(r) \/ Serve(r) PROVE FALSE
      BY <3>1, <3>2 DEF Continue, Receive, Serve, GetTransaction, ReceiveAnswer, ReceiveEdit,
         ReceiveChanges, ReceiveValidate, ReceiveEnd, ServeEdit, ServeChanges, ServeValidate,
         ServeEnd, user
    <3>3. ~ReceiveTransaction /\ ~ServeTransaction
      BY <3>1 DEF ReceiveTransaction, ServeTransaction, ReceiveTrans, ReceiveNewTrans,
         ServeTrans, ServeNewTrans, user
    <3>4. \A r \in Operations : ~Press(r)
      BY <3>1 DEF Press, user
    <3>5. ~Refresh /\ ~Load
      BY <3>1 DEF Refresh, Load, user
    <3>6. ~Unload
      BY <1>1 DEF Unload
    <3>7. UNCHANGED vars => FALSE
      BY <3>1 DEF vars, user
    <3>8. ASSUME NEW h \in Gestures, BeginGesture(h) \/ Defaults(h) PROVE FALSE
      <4>1. gesture' = [gesture EXCEPT ![h] = "first"] \/ gesture' = [gesture EXCEPT ![h] = "then"]
        BY <3>8 DEF BeginGesture, Defaults
      <4> QED BY <1>1, <2>0, <4>1 DEF TypeOK
    <3>9. ASSUME NEW h \in Gestures, EndGesture(h) PROVE \A e \in g.then : ~InFlight(e)
      <4>1. gesture' = [gesture EXCEPT ![h] = "done"] /\ \A e \in h.then : ~InFlight(e)
        BY <3>9 DEF EndGesture
      <4>2. h = g
        BY <1>1, <2>0, <4>1 DEF TypeOK
      <4> QED BY <4>1, <4>2
    <3> QED BY <1>1, <3>2, <3>3, <3>4, <3>5, <3>6, <3>7, <3>8, <3>9 DEF Next
  <2>3. \A e \in g.then : fate[e] # "new"
    BY <1>1, <2>0, <2>2 DEF FateInv, Underway, InFlight
  <2> QED BY <2>1, <2>3
<1>2. IInv /\ [Next]_vars =>
        [\A g \in Gestures :
           gesture[g] = "then" /\ gesture'[g] = "done" /\ page # "away" /\ page' # "away"
             => \A e \in g.first \cup g.then : fate[e] # "new"]_vars
  BY <1>1
<1> QED BY <1>2, IInvAlways, PTL DEF Spec, FormsComplete

------------------------------------------------------------------------------
(* The requests, transactions and caches implement EditSession.              *)

\* The edits in S move to f.
LEMMA SetFateIs ==
  ASSUME NEW S, NEW f, fate' = Moved(S, f)
  PROVE  Session!SetFate(S, f)
BY DEF Session!SetFate, Moved

\* EditSession sees the open edits of the configuration.
LEMMA OpenIs ==
  Session!Open = {e \in Edits \ ActionEdits : fate[e] = "open"}
BY DEF Session!Open

\* What EditSession sees of the operations.
LEMMA NoOperation ==
  ASSUME ~InFlight("apply"), ~InFlight("revert")
  PROVE  Operation = "none"
BY DEF Operation

\* An operation in flight is the one EditSession sees.
LEMMA OperationIs ==
  ASSUME Considerate, IInv, NEW r \in Operations, InFlight(r)
  PROVE  Operation = IF req[r].method = "validate_commit" THEN "commit"
                     ELSE IF req[r].answer = "ok" THEN "acted"
                     ELSE IF req[r].answer \in {"invalid", "error"} THEN "refused"
                     ELSE IF r = "apply" THEN "commit" ELSE "revert"
<1>1. r = "apply" \/ (r = "revert" /\ ~InFlight("apply"))
  BY EitherWay, Names
<1> QED BY <1>1 DEF Operation

\* A step that no operation takes part in.
LEMMA OperationSame ==
  ASSUME Considerate,
         \A r \in Operations : /\ InFlight(r)' <=> InFlight(r)
                               /\ req'[r].method = req[r].method
                               /\ req'[r].answer = req[r].answer
  PROVE  Operation' = Operation
<1>1. "apply" \in Operations /\ "revert" \in Operations
  BY Names
<1> QED BY <1>1 DEF Operation

\* What EditSession sees is unchanged if its variables are.
LEMMA Stutters ==
  ASSUME UNCHANGED <<fate, covered>>, Operation' = Operation
  PROVE  UNCHANGED <<[e \in Edits \ ActionEdits |-> fate[e]], Operation, covered>>
OBVIOUS

\* A step that leaves the requests of operations alone.
LEMMA OthersStutter ==
  ASSUME Considerate, UNCHANGED <<fate, covered>>,
         \A r \in Operations : req'[r] = req[r]
  PROVE  UNCHANGED <<[e \in Edits \ ActionEdits |-> fate[e]], Operation, covered>>
<1>1. Operation' = Operation
  BY OperationSame DEF InFlight
<1> QED BY <1>1, Stutters

\* The initial states map to the initial state of EditSession.
LEMMA SessionStarts ==
  ASSUME Considerate, Init
  PROVE  Session!Init
<1>1. fate = [e \in Edits |-> "new"] /\ covered = {}
  BY DEF Init
<1>2. [e \in Edits \ ActionEdits |-> fate[e]] = [e \in Edits \ ActionEdits |-> "new"]
  BY <1>1
<1>3. ~InFlight("apply") /\ ~InFlight("revert")
  BY Names DEF Init, InFlight, NoRequest
<1> QED BY <1>1, <1>2, <1>3, NoOperation DEF Session!Init

\* A request that gets its transaction changes nothing EditSession sees.
LEMMA GetTransactionStutters ==
  ASSUME Considerate, TypeOK, NEW r \in Requests, GetTransaction(r)
  PROVE  UNCHANGED <<[e \in Edits \ ActionEdits |-> fate[e]], Operation, covered>>
<1>1. req[r].pc = "trans" /\ UNCHANGED <<fate, covered>>
  BY DEF GetTransaction, CanGetTransaction, server
<1>2. /\ req \in [Requests -> RequestType] /\ req[r] \in RequestType
      /\ Operations \subseteq Requests /\ "query" \notin Operations
  BY Names DEF TypeOK, RequestType, Operations
<1>3. PICK v : /\ req' = [req EXCEPT ![r] = v]
               /\ r # "query" => /\ v.pc \in {"sent", "answered", "new"}
                                 /\ v.method = req[r].method /\ v.answer = req[r].answer
  <2>1. CASE \E t \in trans : Sent(r, t.th)
    <3>1. PICK t \in trans : req' = [req EXCEPT ![r] = SentOn(r, t.th)]
      BY <2>1 DEF Sent
    <3>2. r # "query" => /\ SentOn(r, t.th).pc = "sent"
                         /\ SentOn(r, t.th).method = req[r].method
                         /\ SentOn(r, t.th).answer = req[r].answer
      BY <1>2 DEF SentOn, RequestType
    <3> QED BY <3>1, <3>2
  <2>2. CASE req' = [req EXCEPT ![r].pc = "answered"]
    <3>1. req' = [req EXCEPT ![r] = [req[r] EXCEPT !.pc = "answered"]]
      BY <2>2
    <3>2. /\ [req[r] EXCEPT !.pc = "answered"].pc = "answered"
          /\ [req[r] EXCEPT !.pc = "answered"].method = req[r].method
          /\ [req[r] EXCEPT !.pc = "answered"].answer = req[r].answer
      BY <1>2 DEF RequestType
    <3> QED BY <3>1, <3>2
  <2>3. CASE req' = [req EXCEPT ![r].pc = "new"]
    <3>1. req' = [req EXCEPT ![r] = [req[r] EXCEPT !.pc = "new"]]
      BY <2>3
    <3>2. /\ [req[r] EXCEPT !.pc = "new"].pc = "new"
          /\ [req[r] EXCEPT !.pc = "new"].method = req[r].method
          /\ [req[r] EXCEPT !.pc = "new"].answer = req[r].answer
      BY <1>2 DEF RequestType
    <3> QED BY <3>1, <3>2
  <2>4. \A p : findWriteTransaction(p) \subseteq trans
    BY DEF findWriteTransaction, First
  <2>5. First({t \in trans : ~t.path}) \subseteq trans
    BY DEF First
  <2> QED BY <2>1, <2>2, <2>3, <2>4, <2>5 DEF GetTransaction
<1>4. \A o \in Operations : /\ InFlight(o)' <=> InFlight(o)
                            /\ req'[o].method = req[o].method
                            /\ req'[o].answer = req[o].answer
  BY <1>1, <1>2, <1>3 DEF InFlight
<1> QED BY <1>1, <1>4, OperationSame, Stutters

\* An edit the server takes or refuses is decided; the values of a form are
\* nothing EditSession sees.
LEMMA ServeEditDecides ==
  ASSUME Considerate, IInv, NEW e \in Edits, ServeEdit(e)
  PROVE  \/ Session!Next
         \/ UNCHANGED <<[x \in Edits \ ActionEdits |-> fate[x]], Operation, covered>>
<1>0. TypeOK /\ FateInv
  BY EitherWay
<1>1. req[e].pc = "sent" /\ fate[e] = "new" /\ UNCHANGED covered
  BY <1>0 DEF ServeEdit, FateInv, Underway
<1>2. PICK f \in {"open", "refused"} : fate' = Moved({e}, f)
  BY DEF ServeEdit
<1>3. Operation' = Operation
  <2>1. \A o \in Operations : req'[o] = req[o]
    <3>1. \A o \in Operations : o \in Requests \ {e} /\ e \in Requests
      BY Names
    <3>2. req' = Answers(e, "ok") \/ req' = Answers(e, "error")
      BY DEF ServeEdit
    <3> QED BY <1>0, <3>1, <3>2, AnswerIs
  <2> QED BY <2>1, OperationSame DEF InFlight
<1>4. CASE e \in Edits \ ActionEdits
  <2>1. Session!SetFate({e}, f)
    BY <1>2, SetFateIs
  <2>2. [x \in Edits \ ActionEdits |-> fate[x]][e] = "new"
    BY <1>1, <1>4
  <2>3. Session!Decide(e)
    BY <1>1, <1>3, <2>1, <2>2 DEF Session!Decide
  <2> QED BY <1>4, <2>3 DEF Session!Next
<1>5. CASE e \in ActionEdits
  <2>1. \A x \in Edits \ ActionEdits : fate'[x] = fate[x]
    BY <1>2, <1>5 DEF Moved
  <2> QED BY <1>1, <1>3, <2>1
<1> QED BY <1>4, <1>5

\* The button that is pressed begins an operation for the open edits.
LEMMA PressPresses ==
  ASSUME Considerate, IInv, NEW r \in Operations, Press(r)
  PROVE  Session!Next
<1> DEFINE op == IF r = "apply" THEN "commit" ELSE "revert"
<1>0. TypeOK
  BY EitherWay
<1>1. ~Operating /\ UNCHANGED fate /\ Start({r}, req, cached, subscribed, fetch)
  BY DEF Press, Operating, server
<1>2. Operation = "none"
  <2>1. ~InFlight("apply") /\ ~InFlight("revert")
    BY <1>1, Names DEF Operating
  <2> QED BY <2>1, NoOperation
<1>3. Operation' = op
  <2>1. r \in Requests /\ req \in [Requests -> RequestType] /\ {r} \in SUBSET Requests
    BY <1>0, Names DEF TypeOK, RequestType
  <2>2. req'[r].pc = "trans" /\ req'[r].method = MethodOf(r) /\ req'[r].answer = "none"
        /\ \A q \in Requests \ {r} : req'[q] = req[q]
    BY <1>0, <1>1, <2>1, StartIs
  <2>3. CASE r = "apply"
    BY <2>2, <2>3, Names DEF Operation, InFlight
  <2>4. CASE r = "revert"
    <3>1. ~InFlight("apply")'
      BY <1>1, <2>2, <2>4, Names DEF Operating, InFlight
    <3> QED BY <2>2, <2>4, <3>1, Names DEF Operation, InFlight
  <2> QED BY <2>3, <2>4, Names
<1>4. covered' = Session!Open
  <2>1. covered' = {e \in Edits : fate[e] = "open" /\ ~actionPath(e)}
    BY DEF Press
  <2> QED BY <2>1, OpenIs DEF actionPath
<1>5. Session!Press(op)
  BY <1>1, <1>2, <1>3, <1>4 DEF Session!Press
<1>6. op \in {"commit", "revert"}
  OBVIOUS
<1> QED BY <1>5, <1>6 DEF Session!Next

\* The end of a transaction moves its edits of the configuration: the edits S.
LEMMA Acts ==
  ASSUME Considerate, IInv, IInv', NEW r \in Operations, req[r].pc = "sent", Ending(r),
         req[r].answer = "none", req' = Answers(r, "ok"), NEW S,
         S \in SUBSET Session!Open, covered \subseteq S, covered' = {},
         fate' = Moved(S, IF r = "apply" THEN "running" ELSE "dropped")
  PROVE  Session!Next
<1>1. InFlight(r) /\ r \in Requests /\ req[r].method # "validate_commit"
  BY Names DEF InFlight, Ending
<1>2. Operation = IF r = "apply" THEN "commit" ELSE "revert"
  BY <1>1, OperationIs
<1>3. Operation' = "acted"
  <2>1. req'[r].pc = "answered" /\ req'[r].answer = "ok" /\ req'[r].method = req[r].method
    BY <1>1, AnswerIs, EitherWay
  <2>2. InFlight(r)'
    BY <2>1 DEF InFlight
  <2>3. ~(InFlight("apply")' /\ InFlight("revert")')
    BY EitherWay, PTL
  <2>4. r = "apply" \/ (r = "revert" /\ ~InFlight("apply")')
    BY <2>2, <2>3, Names
  <2> QED BY <1>1, <2>1, <2>2, <2>4 DEF Operation
<1>4. Session!Outcome = IF r = "apply" THEN "running" ELSE "dropped"
  BY <1>2, Names DEF Session!Outcome
<1>5. Session!SetFate(S, Session!Outcome)
  <2>1. fate' = Moved(S, Session!Outcome)
    BY <1>4
  <2> QED BY <2>1 DEF Session!SetFate, Moved
<1>6. Session!Act
  BY <1>2, <1>3, <1>5 DEF Session!Act
<1> QED BY <1>6 DEF Session!Next

\* The end of a transaction moves its edits, or is refused.
LEMMA ServeEndActs ==
  ASSUME Considerate, IInv, IInv', NEW r \in Operations, ServeEnd(r)
  PROVE  Session!Next
<1>1. CASE EditingInv /\ NoForms
  <2> DEFINE S == open[req[r].th].edits
  <2>1. /\ req[r].pc = "sent" /\ Ending(r) /\ req[r].th \in W /\ W = {req[r].th}
        /\ InFlight(r) /\ r \in Requests
    BY <1>1, EndIs, Names DEF InFlight
  <2>2. req[r].answer = "none" /\ req[r].method # "validate_commit"
    BY <1>1, <2>1 DEF EditingInv, RequestInv, Ending
  <2>3. CASE /\ req' = Answers(r, "ok")
             /\ fate' = Moved(S, IF r = "apply" THEN "running" ELSE "dropped")
             /\ covered \subseteq S /\ covered' = {}
    <3>1. S \subseteq Edits /\ \A e \in S : fate[e] = "open"
      BY <1>1, <2>1 DEF EditingInv, OpenInv, TypeOK, W
    <3>2. S \in SUBSET Session!Open
      <4>1. \A e \in S : e \notin ActionEdits
        BY <1>1, <3>1 DEF NoForms
      <4> QED BY <3>1, <4>1, OpenIs
    <3> HIDE DEF S
    <3> QED BY <2>1, <2>2, <2>3, <3>2, Acts
  <2>4. CASE r = "apply" /\ req' = Answers(r, "invalid") /\ UNCHANGED <<open, fate, covered>>
    <3>1. Operation = "commit"
      BY <2>1, <2>2, <2>4, OperationIs
    <3>2. Operation' = "refused"
      <4>1. /\ req'[r].pc = "answered" /\ req'[r].answer = "invalid"
            /\ req'[r].method = req[r].method
        BY <2>1, <2>4, AnswerIs, EitherWay
      <4> QED BY <2>2, <2>4, <4>1 DEF Operation, InFlight
    <3>3. Session!Refuse
      BY <2>4, <3>1, <3>2 DEF Session!Refuse
    <3> QED BY <3>3 DEF Session!Next
  <2> QED BY <1>1, <2>3, <2>4, EndIs
<1>2. CASE FillingInv
  <2>1. /\ req[r].pc = "sent" /\ Ending(r) /\ req' = Answers(r, "ok")
        /\ fate' = fate /\ covered' = {}
    BY <1>2, FillEndIs
  <2>2. req[r].answer = "none" /\ covered = {}
    BY <1>2, <2>1, Names DEF FillingInv, FillRequestInv, FieldsInv, InFlight
  <2>3. fate' = Moved({}, IF r = "apply" THEN "running" ELSE "dropped")
    BY <2>1, EitherWay DEF Moved, TypeOK
  <2> QED BY <2>1, <2>2, <2>3, Acts
<1> QED BY <1>1, <1>2 DEF IInv

\* The answer to the end of a transaction ends the operation, and starts the
\* requests R.
LEMMA Finishes ==
  ASSUME Considerate, IInv, NEW r \in Operations, req[r].pc = "answered", Ending(r),
         NEW R, R \cap Operations = {},
         req' = [q \in Requests |-> IF q \in R THEN Starting(q) ELSE Ended(r)[q]],
         Operation = "refused" \/ covered = {}, covered' = {}, UNCHANGED fate
  PROVE  Session!Next
<1>1. InFlight(r) /\ req[r].method # "validate_commit" /\ r \in Requests
  BY Names DEF InFlight, Ending
<1>2. \A o \in Operations \ {r} : ~InFlight(o)
  BY <1>1, EitherWay, Names
<1>3. Operation # "none"
  BY <1>1, OperationIs
<1>4. Operation' = "none"
  <2>1. /\ Ended(r)[r].pc \in {"idle", "done", "rejected"}
        /\ \A q \in Requests \ {r} : Ended(r)[q] = req[q]
    BY <1>1, EndedIs, EitherWay
  <2>2. ASSUME NEW o \in Operations PROVE ~InFlight(o)'
    <3>1. o \in Requests /\ req'[o] = Ended(r)[o]
      BY Names
    <3>2. CASE o = r
      BY <2>1, <3>1, <3>2 DEF InFlight
    <3>3. CASE o # r
      BY <1>2, <2>1, <3>1, <3>3 DEF InFlight
    <3> QED BY <3>2, <3>3
  <2>3. ~InFlight("apply")' /\ ~InFlight("revert")'
    BY <2>2, Names
  <2> QED BY <2>3 DEF Operation
<1>5. Session!Finish
  BY <1>3, <1>4 DEF Session!Finish
<1> QED BY <1>5 DEF Session!Next

\* An operation that has acted, was refused or found nothing ends.
LEMMA ReceiveEndFinishes ==
  ASSUME Considerate, IInv, NEW r \in Operations, ReceiveEnd(r),
         req[r].answer = "none" \/ ~Internal
  PROVE  Session!Next
<1> DEFINE R == Refetched(Invalidated(r))
<1>0. R \cap Operations = {}
  BY Names DEF Refetched, Invalidated
<1>1. CASE EditingInv
  <2>1. /\ req[r].pc = "answered" /\ Ending(r) /\ req[r].answer \in {"ok", "invalid"}
        /\ Start(R, Ended(r), FALSE, FALSE, NoFetch)
        /\ covered' = {} /\ UNCHANGED fate
    BY <1>1, EndReceived
  <2>2. InFlight(r) /\ req[r].method # "validate_commit" /\ r \in Requests
    BY <2>1, Names DEF InFlight, Ending
  <2>3. Operation = IF req[r].answer = "ok" THEN "acted" ELSE "refused"
    BY <2>1, <2>2, OperationIs
  <2>4. req[r].answer = "ok" => covered = {}
    <3>1. \A o \in Operations \ {r} : ~InFlight(o)
      BY <2>2, EitherWay, Names
    <3> QED BY <1>1, <2>2, <3>1 DEF EditingInv, CoveredInv
  <2>5. req' = [q \in Requests |-> IF q \in R THEN Starting(q) ELSE Ended(r)[q]]
    BY <2>1 DEF Start, Starting
  <2>6. Operation = "refused" \/ covered = {}
    BY <2>1, <2>3, <2>4
  <2> HIDE DEF R
  <2> QED BY <1>0, <2>1, <2>5, <2>6, Finishes
<1>2. CASE FillingInv
  <2>1. /\ req[r].pc = "answered" /\ Ending(r)
        /\ req' = [q \in Requests |-> IF q \in R THEN Starting(q) ELSE Ended(r)[q]]
        /\ covered' = {}
    BY <1>2, FillEndReceived
  <2>2. covered = {} /\ UNCHANGED fate
    BY <1>2 DEF FillingInv, FieldsInv, ReceiveEnd, server
  <2> HIDE DEF R
  <2> QED BY <1>0, <2>1, <2>2, Finishes
<1> QED BY <1>1, <1>2 DEF IInv

\* Leaving the page leaves the session.
LEMMA UnloadLeaves ==
  ASSUME Considerate, IInv, Unload
  PROVE  Session!Next
<1> DEFINE f == [e \in Edits \ ActionEdits |-> fate[e]]
<1>1. covered' = {} /\ Operation' = "none"
  <2>1. covered' = {} /\ req' = [q \in Requests |-> NoRequest]
    BY DEF Unload
  <2>2. ~InFlight("apply")' /\ ~InFlight("revert")'
    BY <2>1, Names DEF InFlight, NoRequest
  <2> QED BY <2>1, <2>2 DEF Operation
<1>2. CASE EditingInv /\ NoForms
  <2>1. PICK A \in SUBSET Edits, E \in SUBSET W, r \in Operations : UnloadTo(A, E, r)
    BY <1>2, UnloadIs
  <2> DEFINE S == IF E = {} THEN {} ELSE {e \in Edits : fate[e] = "open"} \cup A
  <2>2. \A e \in Edits : e \in A \/ fate[e] = "open" => e \notin ActionEdits
    BY <1>2, <2>1 DEF NoForms, UnloadTo, InFlight
  <2>3. E # {} => Operation = IF r = "apply" THEN "commit" ELSE "revert"
    <3> SUFFICES ASSUME E # {} PROVE Operation = IF r = "apply" THEN "commit" ELSE "revert"
      OBVIOUS
    <3>1. InFlight(r) /\ req[r].method # "validate_commit" /\ req[r].answer = "none"
      BY <2>1 DEF UnloadTo, Ending
    <3> QED BY <3>1, OperationIs
  <2>4. S # {} => Operation \in {"commit", "revert"} /\ covered \subseteq S
    <3>1. covered \subseteq {e \in Edits : fate[e] = "open"}
      BY <1>2 DEF EditingInv, CoveredInv, TypeOK
    <3> QED BY <2>3, <3>1
  <2>5. fate' = [e \in Edits |-> IF e \in S THEN Session!Outcome
                                 ELSE IF e \in A THEN "open" ELSE fate[e]]
    <3>1. E # {} => Session!Outcome = IF r = "revert" THEN "dropped" ELSE "running"
      BY <2>3, Names DEF Session!Outcome
    <3>2. fate' = [e \in Edits |->
                     IF E # {} /\ (fate[e] = "open" \/ e \in A)
                     THEN IF r = "revert" THEN "dropped" ELSE "running"
                     ELSE IF e \in A THEN "open" ELSE fate[e]]
      BY <2>1 DEF UnloadTo
    <3> QED BY <3>1, <3>2
  <2>6. A \in SUBSET {e \in Edits \ ActionEdits : f[e] = "new"}
    BY <2>1, <2>2 DEF UnloadTo
  <2>7. S \in SUBSET (Session!Open \cup A)
    BY <2>2, OpenIs
  <2>8. [e \in Edits \ ActionEdits |-> fate'[e]] =
          [e \in Edits \ ActionEdits |-> IF e \in S THEN Session!Outcome
                                         ELSE IF e \in A THEN "open" ELSE f[e]]
    <3> HIDE DEF S
    <3> QED BY <2>5
  <2>9. Session!Leave
    <3> HIDE DEF S
    <3> QED BY <1>1, <2>4, <2>6, <2>7, <2>8 DEF Session!Leave
  <2> QED BY <2>9 DEF Session!Next
<1>3. CASE FillingInv
  <2>1. \A e \in Edits \ ActionEdits : fate'[e] = fate[e]
    <3>1. PICK A \in SUBSET ActionEdits :
            fate' = [e \in Edits |-> IF e \in A THEN "open" ELSE fate[e]]
      BY <1>3, FillUnloadIs
    <3> QED BY <3>1
  <2>2. [e \in Edits \ ActionEdits |-> fate'[e]] =
          [e \in Edits \ ActionEdits |-> IF e \in {} THEN Session!Outcome
                                         ELSE IF e \in {} THEN "open" ELSE f[e]]
    BY <2>1
  <2>3. Session!Leave
    <3>1. {} \in SUBSET {e \in Edits \ ActionEdits : f[e] = "new"}
          /\ {} \in SUBSET (Session!Open \cup {})
      OBVIOUS
    <3>2. {} # {} => Operation \in {"commit", "revert"} /\ covered \subseteq {}
      OBVIOUS
    <3> QED BY <1>1, <2>2, <3>1, <3>2 DEF Session!Leave
  <2> QED BY <2>3 DEF Session!Next
<1> QED BY <1>2, <1>3 DEF IInv

\* Every other step changes nothing EditSession sees.
LEMMA SessionStep ==
  ASSUME Considerate, IInv, IInv', [Next]_vars
  PROVE  \/ Session!Next
         \/ UNCHANGED <<[e \in Edits \ ActionEdits |-> fate[e]], Operation, covered>>
<1> DEFINE Stutter == UNCHANGED <<[e \in Edits \ ActionEdits |-> fate[e]], Operation, covered>>
<1>0. /\ Operations \subseteq Requests /\ "query" \notin Operations /\ "changes" \notin Operations
      /\ Edits \cap Operations = {} /\ "changes" \in Requests /\ Edits \subseteq Requests
      /\ req \in [Requests -> RequestType]
  BY Names, EitherWay DEF Operations, TypeOK, RequestType
<1>1. ASSUME NEW r \in Requests, ReceiveAnswer(r), req[r].answer = "none" \/ ~Internal
      PROVE  Session!Next \/ Stutter
  <2>1. CASE r \in Edits /\ ReceiveEdit(r)
    <3>1. \A o \in Operations : req'[o] = Ended(r)[o]
      BY <1>0, <2>1 DEF ReceiveEdit, Start, Refetched
    <3>2. \A o \in Operations : req'[o] = req[o]
      BY <1>0, <2>1, <3>1, EndedIs, EitherWay
    <3> QED BY <2>1, <3>2, OthersStutter DEF ReceiveEdit, server
  <2>2. CASE r = "changes" /\ ReceiveChanges
    <3>1. \A o \in Operations : req'[o] = req[o]
      BY <1>0, <2>2, EndedIs, EitherWay DEF ReceiveChanges
    <3> QED BY <2>2, <3>1, OthersStutter DEF ReceiveChanges, server
  <2>3. CASE r = "apply" /\ ReceiveValidate
    <3>1. /\ req["apply"].pc = "answered" /\ req["apply"].method = "validate_commit"
          /\ req["apply"].answer # "error" /\ InFlight("apply") /\ "apply" \in Operations
          /\ UNCHANGED <<fate, covered>>
      BY <2>3, Names, EitherWay DEF ReceiveValidate, Answered, InFlight, server
    <3>2. req' = [req EXCEPT !["apply"] = [req["apply"] EXCEPT !.pc = "trans", !.method = "commit",
                                             !.th = NoTh, !.answer = "none"]]
      BY <1>0, <2>3, <3>1 DEF ReceiveValidate
    <3>3. req'["apply"].pc = "trans" /\ req'["apply"].method = "commit" /\ req'["apply"].answer = "none"
      BY <1>0, <3>1, <3>2 DEF RequestType
    <3>4. Operation = "commit" /\ Operation' = "commit"
      BY <3>1, <3>3 DEF Operation, InFlight
    <3> QED BY <3>1, <3>4, Stutters
  <2>4. CASE r \in Operations /\ ReceiveEnd(r)
    BY <1>1, <2>4, ReceiveEndFinishes
  <2> QED BY <1>1, <2>1, <2>2, <2>3, <2>4 DEF ReceiveAnswer
<1>2. ASSUME NEW r \in Requests, Serve(r) PROVE Session!Next \/ Stutter
  <2>1. CASE r \in Edits /\ ServeEdit(r)
    BY <2>1, ServeEditDecides
  <2>2. CASE r = "changes" /\ ServeChanges
    <3>1. PICK a \in {"ok", "error"} : req' = Answers("changes", a)
      BY <2>2 DEF ServeChanges
    <3>2. \A o \in Operations : req'[o] = req[o]
      BY <1>0, <3>1, AnswerIs, EitherWay
    <3> QED BY <2>2, <3>2, OthersStutter DEF ServeChanges, server
  <2>3. CASE r = "apply" /\ ServeValidate
    <3>1. req["apply"].pc = "sent" /\ req["apply"].method = "validate_commit"
          /\ "apply" \in Requests /\ UNCHANGED <<fate, covered>>
      BY <2>3, Names DEF ServeValidate, server
    <3>2. PICK a \in {"ok", "invalid", "error"} : req' = Answers("apply", a)
      BY <2>3 DEF ServeValidate, Fault
    <3>3. req'["apply"].pc = "answered" /\ req'["apply"].method = "validate_commit"
      BY <3>1, <3>2, AnswerIs, EitherWay
    <3>4. Operation = "commit" /\ Operation' = "commit"
      BY <3>1, <3>3 DEF Operation, InFlight
    <3> QED BY <3>1, <3>4, Stutters
  <2>4. CASE r \in Operations /\ ServeEnd(r)
    BY <2>4, ServeEndActs
  <2> QED BY <1>2, <2>1, <2>2, <2>3, <2>4 DEF Serve
<1>3. CASE ReceiveTransaction
  <2>1. CASE ReceiveTrans
    BY <2>1, OthersStutter DEF ReceiveTrans, server
  <2>2. CASE ReceiveNewTrans
    <3>1. \A o \in Operations : req[o].pc # "new"
      BY EitherWay
    <3>2. \A o \in Operations : req'[o] = req[o]
      BY <1>0, <2>2, <3>1 DEF ReceiveNewTrans
    <3> QED BY <2>2, <3>2, OthersStutter DEF ReceiveNewTrans, server
  <2> QED BY <1>3, <2>1, <2>2 DEF ReceiveTransaction
<1>4. CASE ServeTransaction
  BY <1>4, OthersStutter DEF ServeTransaction, ServeTrans, ServeNewTrans, server
<1>5. ASSUME NEW g \in Gestures, BeginGesture(g) \/ Defaults(g) \/ EndGesture(g) PROVE Stutter
  <2>1. g.first \cap Operations = {} /\ g.then \cap Operations = {}
    BY <1>0, GestureEdits
  <2>2. \A o \in Operations : req'[o] = req[o]
    BY <1>0, <1>5, <2>1 DEF BeginGesture, Defaults, EndGesture, Start
  <2> QED BY <1>5, <2>2, OthersStutter DEF BeginGesture, Defaults, EndGesture, server
<1>6. ASSUME NEW r \in Operations, Press(r) PROVE Session!Next
  BY <1>6, PressPresses
<1>7. CASE Refresh \/ Load
  <2>1. \A o \in Operations : req'[o] = req[o]
    BY <1>0, <1>7 DEF Refresh, Load, Start
  <2> QED BY <1>7, <2>1, OthersStutter DEF Refresh, Load, server
<1>8. CASE Unload
  BY <1>8, UnloadLeaves
<1>9. CASE UNCHANGED vars
  BY <1>9, OthersStutter DEF vars, server
<1>10. ASSUME NEW r \in Requests, Continue(r) \/ Receive(r) PROVE Session!Next \/ Stutter
  BY <1>1, <1>10, GetTransactionStutters, EitherWay DEF Continue, Receive
<1>11. CASE \E r \in Requests : Continue(r) \/ Receive(r) \/ Serve(r)
  BY <1>2, <1>10, <1>11
<1>12. CASE \E g \in Gestures : BeginGesture(g) \/ Defaults(g) \/ EndGesture(g)
  BY <1>5, <1>12
<1>13. CASE \E r \in Operations : Press(r)
  BY <1>6, <1>13
<1> QED BY <1>3, <1>4, <1>7, <1>8, <1>9, <1>11, <1>12, <1>13 DEF Next

\* Commit and Revert act, once, on every edit accepted before they were
\* pressed: the transactions and caches of the browser implement EditSession.
THEOREM Implements ==
  ASSUME Considerate
  PROVE  Spec => SessionSpec
<1>1. Init => Session!Init
  BY SessionStarts
<1>2. IInv /\ IInv' /\ [Next]_vars =>
        [Session!Next]_<<[e \in Edits \ ActionEdits |-> fate[e]], Operation, covered>>
  BY SessionStep
<1> QED BY <1>1, <1>2, IInvAlways, PTL DEF Spec, SessionSpec, Session!Spec
==============================================================================
