----------------------------- MODULE PanelAnimation ----------------------------
(***************************************************************************)
(* What the panels of the web UI defer: the accordion (features/common)    *)
(* opens and closes over two animation frames and a CSS transition, and    *)
(* the list of a menu (features/menu/panels/NodeListWrapper) shows that it *)
(* is fetching with timers that nothing cancels.                           *)
(***************************************************************************)
EXTENDS Naturals, Sequences, FiniteSets

CONSTANT MaxDeferred   \* bound: callbacks, and timers, that wait

ASSUME AnimationAssumption == MaxDeferred \in Nat

VARIABLES
  isOpen,        \* what the accordion is to be
  maxHeight,     \* the style of its panel: "zero", "full" (its scrollHeight) or "none"
  listening,     \* onTransitionEnd is registered
  callbacks,     \* what waits for the next animation frame
  transition,    \* maxHeight is being animated
  items,         \* the statuses of the two queries of a list, as fetchStatus says
  opacity, hides,       \* LoadingOverlay: what is shown, and the timers that set it
  minHeight, measures,  \* NodeListWrapper: the same
  quick, refetched      \* history: toggled before its frame; fetched again before the timer

animVars == <<isOpen, maxHeight, listening, callbacks, transition, items, opacity, hides,
              minHeight, measures, quick, refetched>>

accordion == <<isOpen, maxHeight, listening, callbacks, transition, quick>>
list      == <<items, opacity, hides, minHeight, measures, refetched>>

Queries == {"list", "details"}

\* Every variable has its type.
AnimationTypeOK ==
  /\ isOpen \in BOOLEAN /\ maxHeight \in {"zero", "full", "none"} /\ listening \in BOOLEAN
  /\ callbacks \in Seq({"open", "close", "collapse"})
  /\ transition \in BOOLEAN /\ items \in [Queries -> {"", "OK", "Error"}]
  /\ opacity \in BOOLEAN /\ hides \in Seq(BOOLEAN)
  /\ minHeight \in {"zero", "full"} /\ measures \in Seq({"zero", "full"})
  /\ quick \in BOOLEAN /\ refetched \in BOOLEAN

------------------------------------------------------------------------------
(* Accordion.                                                                *)

\* Mutant: closing leaves the listener of the opening.
StillListens_Always(l) == l

StillListens(l) == FALSE

\* toggle, the render after it, and animateToggle.
toggleAccordion ==
  /\ Len(callbacks) < MaxDeferred
  /\ isOpen' = ~isOpen
  /\ callbacks' = Append(callbacks, IF isOpen THEN "close" ELSE "open")
  /\ listening' = IF isOpen THEN StillListens(listening) ELSE listening
  /\ quick' = (quick \/ callbacks # <<>>)
  /\ UNCHANGED <<maxHeight, transition, list>>

\* The heights that the callbacks of one frame set, in their order.
Heights == [i \in DOMAIN callbacks |-> IF callbacks[i] = "collapse" THEN "zero" ELSE "full"]

\* Of the callbacks only a `close` asks for another frame.  The style is
\* computed once, after all of them; from and to `none` nothing is animated.
AnimationFrameOfPanel ==
  /\ callbacks # <<>>
  /\ maxHeight' = Heights[Len(callbacks)]
  /\ transition' = IF maxHeight' = maxHeight THEN transition
                   ELSE "none" \notin {maxHeight, maxHeight'}
  /\ listening' = (listening \/ \E i \in DOMAIN callbacks : callbacks[i] = "open")
  /\ callbacks' = [i \in 1..Cardinality({j \in DOMAIN callbacks : callbacks[j] = "close"})
                     |-> "collapse"]
  /\ UNCHANGED <<isOpen, quick, list>>

onTransitionEnd ==
  /\ transition /\ transition' = FALSE
  /\ listening' = FALSE
  /\ maxHeight' = IF listening THEN "none" ELSE maxHeight
  /\ UNCHANGED <<isOpen, callbacks, quick, list>>

------------------------------------------------------------------------------
(* A list that is fetched.                                                   *)

\* A query is being fetched, was answered, or was refused; one that is skipped
\* counts as answered.
fetchStatus(fetching, isSuccess, isError) ==
  CASE fetching -> "" [] ~fetching /\ ~isSuccess /\ isError -> "Error" [] OTHER -> "OK"

\* isFetching: what was refused counts as being fetched.
Fetching(its) == \E q \in Queries : its[q] # "OK"

\* measuredRef, which is called when the list or minHeight has changed: a
\* timer of 0 ms to grow, of 1000 ms to shrink.
Measure(fetching, ts) == Append(ts, IF fetching THEN "full" ELSE "zero")

Remeasured(fetching, ts) == Measure(fetching, ts)

\* One query is sent or answered.  The effect of LoadingOverlay, if that makes a
\* difference: a timer of 0 ms to show, of 1000 ms to hide; useMemoizeWhenFetched
\* keeps the list from being measured otherwise, unless it is still fetching.
StatusChanges(q) ==
  /\ Len(hides) < MaxDeferred /\ Len(measures) < MaxDeferred
  /\ \E f, s, e \in BOOLEAN : items' = [items EXCEPT ![q] = fetchStatus(f, s, e)]
  /\ items' # items
  /\ LET was == Fetching(items)
         now == Fetching(items')
     IN /\ hides' = IF was = now THEN hides ELSE Append(hides, now)
        /\ measures' = Measure(now, measures)
        /\ refetched' = (refetched \/ (~was /\ now /\ \E i \in DOMAIN hides : ~hides[i]))
  /\ UNCHANGED <<opacity, minHeight, accordion>>

\* The timers of 0 ms come first, and else they come in their order.
Due(ts, short) ==
  IF \E i \in DOMAIN ts : ts[i] = short
  THEN CHOOSE i \in DOMAIN ts : ts[i] = short /\ \A j \in 1..(i - 1) : ts[j] # short
  ELSE 1

Without(ts, i) == SubSeq(ts, 1, i - 1) \o SubSeq(ts, i + 1, Len(ts))

setOpacity ==
  /\ hides # <<>>
  /\ LET i == Due(hides, TRUE)
     IN opacity' = hides[i] /\ hides' = Without(hides, i)
  /\ UNCHANGED <<items, minHeight, measures, refetched, accordion>>

setMinHeight ==
  /\ measures # <<>>
  /\ LET i == Due(measures, "full")
         rest == Without(measures, i)
     IN /\ minHeight' = measures[i]
        /\ measures' = IF measures[i] = minHeight THEN rest ELSE Remeasured(Fetching(items), rest)
  /\ UNCHANGED <<items, opacity, hides, refetched, accordion>>

AnimationInit ==
  /\ isOpen = FALSE /\ maxHeight = "zero" /\ listening = FALSE /\ callbacks = <<>>
  /\ transition = FALSE /\ quick = FALSE
  /\ items = [q \in Queries |-> ""] /\ opacity = TRUE /\ hides = <<>>
  /\ minHeight = "full" /\ measures = <<>> /\ refetched = FALSE

AnimationNext ==
  \/ toggleAccordion \/ AnimationFrameOfPanel \/ onTransitionEnd
  \/ (\E q \in Queries : StatusChanges(q)) \/ setOpacity \/ setMinHeight

AnimationSpec == AnimationInit /\ [][AnimationNext]_animVars

------------------------------------------------------------------------------
(* Properties.                                                               *)

\* When nothing is deferred any more, what is shown is what is so.  An open
\* accordion shows all of its content, to any height, and a closed one none of
\* it, unless it was toggled twice within a frame or two; a list that is fetching
\* keeps its room, and so it does the overlay above it unless it was fetched
\* again within a second.
PanelsSettle ==
  /\ callbacks = <<>> /\ ~transition /\ ~quick => maxHeight = IF isOpen THEN "none" ELSE "zero"
  /\ measures = <<>> => (minHeight = "full") = Fetching(items)
  /\ hides = <<>> /\ ~refetched => opacity = Fetching(items)
==============================================================================
