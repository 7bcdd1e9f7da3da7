--------------------------- MODULE TerminalsProofs ----------------------------
(***************************************************************************)
(* Proofs about Terminals, for any number of devices, of web sockets and   *)
(* of consoles opened and closed.                                          *)
(***************************************************************************)
EXTENDS Terminals, SequenceTheorems, TLAPS

\* A console that is open is mounted, and has a web socket only once its
\* request to stop the logger was answered.
MountInv ==
  \A d \in Devices :
    /\ stopped[d] = "none" <=> ~IsOpen(d)
    /\ socket[d] # NoSocket => stopped[d] = "answered"

\* The last request of a console that is open is to stop the logger, the last of
\* one that is not, or has lost its web socket, to start it.
RequestInv ==
  \A d \in Devices :
    /\ stopped[d] = "asked" => requests[d] # <<>> /\ Last(requests[d]) = "stop"
    /\ stopped[d] = "answered" /\ socket[d] # Lost => requests[d] = <<>> /\ ~logger[d]
    /\ stopped[d] = "none" \/ socket[d] = Lost =>
         IF requests[d] = <<>> THEN logger[d] ELSE Last(requests[d]) = "start"

\* The inductive invariant.
ConsoleInv == TypeOK /\ MountInv /\ RequestInv

------------------------------------------------------------------------------
(* Sequences.                                                                *)

LEMMA AppendLast ==
  ASSUME NEW S, NEW s \in Seq(S), NEW e \in S
  PROVE  /\ Append(s, e) \in Seq(S)
         /\ Append(s, e) # <<>>
         /\ Last(Append(s, e)) = e
BY DEF Last

\* What is left of a sequence ends as it did; if nothing is left, its head was
\* its last element.
LEMMA TailLast ==
  ASSUME NEW S, NEW s \in Seq(S), s # <<>>
  PROVE  /\ Tail(s) \in Seq(S) /\ Head(s) \in S
         /\ Tail(s) # <<>> => Last(Tail(s)) = Last(s) /\ Contains(Tail(s), Last(s))
         /\ Tail(s) = <<>> => Head(s) = Last(s)
<1>1. /\ Tail(s) \in Seq(S) /\ Len(Tail(s)) = Len(s) - 1 /\ Len(s) \in Nat /\ Len(s) > 0
      /\ \A i \in 1..(Len(s) - 1) : Tail(s)[i] = s[i + 1]
  OBVIOUS
<1>2. ASSUME Tail(s) # <<>> PROVE Last(Tail(s)) = Last(s) /\ Contains(Tail(s), Last(s))
  <2>1. Len(Tail(s)) # 0
    BY <1>1, <1>2
  <2>2. Len(Tail(s)) \in 1..(Len(s) - 1) /\ Tail(s)[Len(Tail(s))] = s[Len(s)]
    BY <1>1, <2>1
  <2> QED BY <1>1, <2>2 DEF Last, Contains
<1>3. ASSUME Tail(s) = <<>> PROVE Head(s) = Last(s)
  <2>1. Len(s) = 1
    BY <1>1, <1>3
  <2> QED BY <2>1 DEF Last
<1>4. Head(s) \in S
  BY <1>1
<1> QED BY <1>1, <1>2, <1>3, <1>4

\* RemoveAt takes out one element and keeps the others in their order.
LEMMA RemoveAtProperties ==
  ASSUME NEW S, NEW s \in Seq(S), NEW i \in 1..Len(s)
  PROVE  /\ RemoveAt(s, i) \in Seq(S) /\ Len(RemoveAt(s, i)) = Len(s) - 1
         /\ \A j \in 1..(Len(s) - 1) :
              RemoveAt(s, i)[j] = IF j < i THEN s[j] ELSE s[j + 1]
<1> DEFINE p == SubSeq(s, 1, i - 1)
           q == SubSeq(s, i + 1, Len(s))
<1>1. p \in Seq(S) /\ Len(p) = i - 1 /\ \A j \in 1..(i - 1) : p[j] = s[j]
  OBVIOUS
<1>2. q \in Seq(S) /\ Len(q) = Len(s) - i /\ \A j \in 1..(Len(s) - i) : q[j] = s[i + j]
  OBVIOUS
<1>3. RemoveAt(s, i) = p \o q
  BY DEF RemoveAt
<1> HIDE DEF p, q
<1>4. Len(p \o q) = Len(s) - 1 /\ p \o q \in Seq(S)
  <2>0. p \in Seq(S) /\ q \in Seq(S)
    BY <1>1, <1>2
  <2>1. p \o q \in Seq(S) /\ Len(p \o q) = Len(p) + Len(q)
    BY <2>0
  <2>2. Len(s) \in Nat /\ (i - 1) + (Len(s) - i) = Len(s) - 1
    OBVIOUS
  <2> QED BY <1>1, <1>2, <2>1, <2>2
<1>5. ASSUME NEW j \in 1..(Len(s) - 1) PROVE (p \o q)[j] = IF j < i THEN s[j] ELSE s[j + 1]
  <2>1. CASE j < i
    BY <1>1, <1>2, <2>1
  <2>2. CASE j >= i
    <3>1. (p \o q)[j] = q[j - (i - 1)]
      BY <1>1, <1>2, <2>2
    <3>2. j - (i - 1) \in 1..(Len(s) - i) /\ i + (j - (i - 1)) = j + 1
      BY <2>2
    <3>3. q[j - (i - 1)] = s[j + 1]
      BY <1>2, <3>2
    <3> QED BY <2>2, <3>1, <3>3
  <2>3. j < i \/ j >= i
    OBVIOUS
  <2> QED BY <2>1, <2>2, <2>3
<1> QED BY <1>3, <1>4, <1>5

\* A console that is toggled is opened, brought to the front or closed, and the
\* others stay open or closed; none is open twice.
LEMMA ToggledProperties ==
  ASSUME TypeOK, NEW d \in Devices
  PROVE  /\ Toggled(d) \in Seq(Devices) /\ IsInjective(Toggled(d))
         /\ \A e \in Devices \ {d} : Contains(Toggled(d), e) <=> IsOpen(e)
         /\ ~IsOpen(d) => Contains(Toggled(d), d)
<1> DEFINE s == openTerminals
<1>1. s \in Seq(Devices) /\ \A i, j \in 1..Len(s) : s[i] = s[j] => i = j
  BY DEF TypeOK, IsInjective
<1>2. CASE s # <<>> /\ Head(s) = d /\ consoleViewerHidden
  BY <1>1, <1>2 DEF Toggled, IsOpen, IsInjective, Contains
<1>3. CASE s # <<>> /\ Head(s) = d /\ ~consoleViewerHidden
  <2>1. /\ Toggled(d) = Tail(s) /\ Tail(s) \in Seq(Devices) /\ Len(Tail(s)) = Len(s) - 1
        /\ s[1] = d /\ Len(s) \in Nat /\ Len(s) > 0
        /\ \A i \in 1..(Len(s) - 1) : Tail(s)[i] = s[i + 1]
    BY <1>1, <1>3 DEF Toggled
  <2>2. IsInjective(Tail(s))
    BY <1>1, <2>1 DEF IsInjective
  <2>3. \A e \in Devices \ {d} : Contains(Tail(s), e) <=> IsOpen(e)
    <3>1. ASSUME NEW e \in Devices \ {d}, Contains(Tail(s), e) PROVE IsOpen(e)
      BY <2>1, <3>1 DEF IsOpen, Contains
    <3>2. ASSUME NEW e \in Devices \ {d}, IsOpen(e) PROVE Contains(Tail(s), e)
      <4>1. PICK i \in 1..Len(s) : s[i] = e
        BY <3>2 DEF IsOpen, Contains
      <4>2. i - 1 \in 1..(Len(s) - 1) /\ Tail(s)[i - 1] = e
        BY <2>1, <4>1
      <4> QED BY <2>1, <4>2 DEF Contains
    <3> QED BY <3>1, <3>2
  <2>4. IsOpen(d)
    BY <2>1 DEF IsOpen, Contains
  <2> QED BY <2>1, <2>2, <2>3, <2>4
<1>4. CASE ~(s # <<>> /\ Head(s) = d)
  <2> DEFINE r == IF IsOpen(d) THEN RemoveAt(s, Position(d)) ELSE s
  <2>1. Toggled(d) = <<d>> \o r
    BY <1>4 DEF Toggled
  <2>2. /\ r \in Seq(Devices) /\ \A i, j \in 1..Len(r) : r[i] = r[j] => i = j
        /\ \A e \in Devices \ {d} : Contains(r, e) <=> IsOpen(e)
        /\ ~Contains(r, d)
    <3>1. CASE ~IsOpen(d)
      BY <1>1, <3>1 DEF IsOpen
    <3>2. CASE IsOpen(d)
      <4> DEFINE k == Position(d)
      <4>1. k \in 1..Len(s) /\ s[k] = d
        BY <1>1, <3>2 DEF IsOpen, Contains, Position
      <4>2. r = RemoveAt(s, k)
        BY <3>2
      <4>3. /\ r \in Seq(Devices) /\ Len(r) = Len(s) - 1 /\ Len(s) \in Nat
            /\ \A j \in 1..(Len(s) - 1) : r[j] = IF j < k THEN s[j] ELSE s[j + 1]
        <5> HIDE DEF r, k
        <5>1. /\ RemoveAt(s, k) \in Seq(Devices) /\ Len(RemoveAt(s, k)) = Len(s) - 1
              /\ \A j \in 1..(Len(s) - 1) :
                   RemoveAt(s, k)[j] = IF j < k THEN s[j] ELSE s[j + 1]
          BY <1>1, <4>1, RemoveAtProperties
        <5> QED BY <1>1, <4>2, <5>1
      <4> HIDE DEF r, k
      <4>4. \A i, j \in 1..Len(r) : r[i] = r[j] => i = j
        BY <1>1, <4>1, <4>3
      <4>5. ~Contains(r, d)
        BY <1>1, <4>1, <4>3 DEF Contains
      <4>6. ASSUME NEW e \in Devices \ {d} PROVE Contains(r, e) <=> IsOpen(e)
        <5>1. ASSUME Contains(r, e) PROVE IsOpen(e)
          BY <1>1, <4>1, <4>3, <5>1 DEF IsOpen, Contains
        <5>2. ASSUME IsOpen(e) PROVE Contains(r, e)
          <6>1. PICK i \in 1..Len(s) : s[i] = e
            BY <5>2 DEF IsOpen, Contains
          <6>2. i # k
            BY <4>1, <6>1
          <6>3. CASE i < k
            <7>1. i \in 1..Len(r) /\ r[i] = e
              BY <4>1, <4>3, <6>1, <6>3
            <7> QED BY <7>1 DEF Contains
          <6>4. CASE i > k
            <7>1. i - 1 \in 1..Len(r) /\ r[i - 1] = e
              BY <4>1, <4>3, <6>1, <6>4
            <7> QED BY <7>1 DEF Contains
          <6> QED BY <4>1, <6>1, <6>2, <6>3, <6>4
        <5> QED BY <5>1, <5>2
      <4> QED BY <4>3, <4>4, <4>5, <4>6
    <3> QED BY <3>1, <3>2
  <2> HIDE DEF r
  <2>3. /\ <<d>> \o r \in Seq(Devices) /\ Len(<<d>> \o r) = Len(r) + 1 /\ Len(r) \in Nat
        /\ (<<d>> \o r)[1] = d
        /\ \A i \in 1..Len(r) : (<<d>> \o r)[i + 1] = r[i]
    BY <2>2
  <2>4. ASSUME NEW i \in 1..(Len(r) + 1), i # 1
        PROVE  i - 1 \in 1..Len(r) /\ (<<d>> \o r)[i] = r[i - 1]
    BY <2>3, <2>4
  <2>5. IsInjective(<<d>> \o r)
    BY <2>2, <2>3, <2>4 DEF IsInjective, Contains
  <2>6. Contains(<<d>> \o r, d)
    BY <2>3 DEF Contains
  <2>7. ASSUME NEW e \in Devices \ {d} PROVE Contains(<<d>> \o r, e) <=> IsOpen(e)
    <3>1. ASSUME Contains(<<d>> \o r, e) PROVE Contains(r, e)
      BY <2>3, <2>4, <3>1 DEF Contains
    <3>2. ASSUME Contains(r, e) PROVE Contains(<<d>> \o r, e)
      <4>1. PICK i \in 1..Len(r) : r[i] = e
        BY <3>2 DEF Contains
      <4>2. i + 1 \in 1..Len(<<d>> \o r) /\ (<<d>> \o r)[i + 1] = e
        BY <2>3, <4>1
      <4> QED BY <4>2 DEF Contains
    <3> QED BY <2>2, <3>1, <3>2
  <2> QED BY <2>1, <2>3, <2>5, <2>6, <2>7
<1> QED BY <1>2, <1>3, <1>4

------------------------------------------------------------------------------
(* The steps of the browser and of NSO.                                      *)

\* A request that is sent is the last one.
LEMMA SendLast ==
  ASSUME TypeOK, NEW d \in Devices, NEW op \in {"stop", "start"}
  PROVE  /\ Send(d, op) \in [Devices -> Seq({"stop", "start"})]
         /\ Send(d, op)[d] # <<>> /\ Last(Send(d, op)[d]) = op
         /\ \A e \in Devices \ {d} : Send(d, op)[e] = requests[e]
<1>1. requests[d] \in Seq({"stop", "start"})
  BY DEF TypeOK
<1>2. /\ Append(requests[d], op) \in Seq({"stop", "start"})
      /\ Append(requests[d], op) # <<>> /\ Last(Append(requests[d], op)) = op
  BY <1>1, AppendLast
<1>3. requests \in [Devices -> Seq({"stop", "start"})]
  BY DEF TypeOK
<1> QED BY <1>2, <1>3 DEF Send

LEMMA ToggleKeeps ==
  ASSUME ConsoleInv, NEW d \in Devices, terminalToggled(d)
  PROVE  ConsoleInv'
<1>1. /\ openTerminals' = Toggled(d) /\ openTerminals' \in Seq(Devices)
      /\ IsInjective(openTerminals')
      /\ \A e \in Devices \ {d} : IsOpen(e)' <=> IsOpen(e)
      /\ ~IsOpen(d) => IsOpen(d)'
  BY ToggledProperties DEF ConsoleInv, terminalToggled, IsOpen
<1>2. /\ consoleViewerHidden' = FALSE /\ toggles' = toggles + 1 /\ toggles < MaxToggles
      /\ ip' = ip /\ serving' = serving /\ logger' = logger
  BY DEF terminalToggled
<1>3. toggles' \in 0..MaxToggles
  BY <1>2, TerminalsAssumption DEF ConsoleInv, TypeOK
<1>4. CASE /\ ~IsOpen(d)
           /\ requests' = Send(d, "stop")
           /\ stopped' = [stopped EXCEPT ![d] = "asked"]
           /\ UNCHANGED <<socket, proxy>>
  <2>1. TypeOK'
    BY <1>1, <1>2, <1>3, <1>4, SendLast DEF ConsoleInv, TypeOK, Used
  <2>2. /\ requests'[d] # <<>> /\ Last(requests'[d]) = "stop"
        /\ \A e \in Devices \ {d} : requests'[e] = requests[e] /\ stopped'[e] = stopped[e]
        /\ stopped'[d] = "asked"
    BY <1>4, SendLast DEF ConsoleInv, TypeOK
  <2>3. socket[d] = NoSocket /\ socket[d] # Lost
    BY <1>4, TerminalsAssumption DEF ConsoleInv, MountInv, NoSocket, Lost
  <2>4. MountInv'
    BY <1>1, <1>4, <2>2, <2>3 DEF ConsoleInv, MountInv
  <2>5. RequestInv'
    BY <1>2, <1>4, <2>2, <2>3 DEF ConsoleInv, RequestInv
  <2> QED BY <2>1, <2>4, <2>5 DEF ConsoleInv
<1>5. CASE /\ IsOpen(d) /\ ~Contains(openTerminals', d)
           /\ requests' = Unmounted(d)
           /\ stopped' = [stopped EXCEPT ![d] = "none"]
           /\ proxy' = Closing(d)
           /\ socket' = [socket EXCEPT ![d] = NoSocket]
  <2>1. DOMAIN proxy' = Used /\ proxy' \in [Used -> Handlers]
    <3> DEFINE c == socket[d]
               p == IF proxy[c].client = "open" THEN "closing" ELSE proxy[c].client
    <3>1. proxy \in [Used -> Handlers]
      BY DEF ConsoleInv, TypeOK
    <3>2. CASE c \in Connections /\ c \in Used
      <4>1. proxy[c] \in Handlers
        BY <3>1, <3>2
      <4>2. [proxy[c] EXCEPT !.client = p] \in Handlers
        BY <4>1 DEF Handlers
      <4>3. proxy' = [proxy EXCEPT ![c] = [proxy[c] EXCEPT !.client = p]]
        BY <1>5, <3>2 DEF Closing
      <4> HIDE DEF c, p
      <4> QED BY <3>1, <4>2, <4>3 DEF Used
    <3>3. CASE ~(c \in Connections /\ c \in Used)
      <4>1. proxy' = proxy
        BY <1>5, <3>1, <3>3 DEF Closing
      <4> QED BY <3>1, <4>1 DEF Used
    <3> QED BY <3>2, <3>3
  <2>2. /\ requests' \in [Devices -> Seq({"stop", "start"})]
        /\ requests'[d] # <<>> /\ Last(requests'[d]) = "start"
        /\ \A e \in Devices \ {d} : requests'[e] = requests[e]
    BY <1>5, SendLast DEF ConsoleInv, Unmounted
  <2>3. /\ stopped'[d] = "none" /\ socket'[d] = NoSocket
        /\ \A e \in Devices \ {d} : stopped'[e] = stopped[e] /\ socket'[e] = socket[e]
    BY <1>5 DEF ConsoleInv, TypeOK
  <2>4. TypeOK'
    <3>1. /\ stopped' \in [Devices -> {"none", "asked", "answered"}]
          /\ socket' \in [Devices -> {NoSocket, Lost} \cup Connections]
      BY <1>5 DEF ConsoleInv, TypeOK
    <3> QED BY <1>1, <1>2, <1>3, <2>1, <2>2, <3>1 DEF ConsoleInv, TypeOK, Used
  <2>5. MountInv'
    BY <1>1, <1>5, <2>3 DEF ConsoleInv, MountInv, IsOpen
  <2>6. RequestInv'
    BY <1>2, <2>2, <2>3 DEF ConsoleInv, RequestInv
  <2> QED BY <2>4, <2>5, <2>6 DEF ConsoleInv
<1>6. CASE /\ IsOpen(d) /\ Contains(openTerminals', d)
           /\ UNCHANGED <<requests, stopped, socket, proxy>>
  <2>1. TypeOK'
    BY <1>1, <1>2, <1>3, <1>6 DEF ConsoleInv, TypeOK, Used
  <2>2. MountInv'
    BY <1>1, <1>6 DEF ConsoleInv, MountInv, IsOpen
  <2>3. RequestInv'
    BY <1>2, <1>6 DEF ConsoleInv, RequestInv
  <2> QED BY <2>1, <2>2, <2>3 DEF ConsoleInv
<1> QED BY <1>4, <1>5, <1>6 DEF terminalToggled

LEMMA ServeKeeps ==
  ASSUME ConsoleInv, NEW d \in Devices, ServeAction(d)
  PROVE  ConsoleInv'
<1> DEFINE s == requests[d]
<1>1. s \in Seq({"stop", "start"}) /\ s # <<>>
  BY DEF ServeAction, ConsoleInv, TypeOK
<1>2. /\ Tail(s) \in Seq({"stop", "start"}) /\ Head(s) \in {"stop", "start"}
      /\ Tail(s) # <<>> => Last(Tail(s)) = Last(s) /\ Contains(Tail(s), Last(s))
      /\ Tail(s) = <<>> => Head(s) = Last(s)
  BY <1>1, TailLast
<1>3. /\ requests' = [requests EXCEPT ![d] = Tail(@)]
      /\ logger' = [logger EXCEPT ![d] = (Head(s) = "start")]
      /\ stopped' = IF Head(s) = "stop" /\ stopped[d] = "asked" /\ ~Contains(Tail(s), "stop")
                    THEN [stopped EXCEPT ![d] = "answered"] ELSE stopped
      /\ UNCHANGED <<openTerminals, consoleViewerHidden, toggles, ip, socket, proxy, serving>>
  BY DEF ServeAction
<1> HIDE DEF s
<1>4. /\ requests' \in [Devices -> Seq({"stop", "start"})] /\ requests'[d] = Tail(s)
      /\ logger' \in [Devices -> BOOLEAN] /\ logger'[d] = (Head(s) = "start")
      /\ \A e \in Devices \ {d} : requests'[e] = requests[e] /\ logger'[e] = logger[e]
  BY <1>2, <1>3 DEF ConsoleInv, TypeOK, s
<1>5. /\ stopped' \in [Devices -> {"none", "asked", "answered"}]
      /\ \A e \in Devices \ {d} : stopped'[e] = stopped[e]
      /\ stopped'[d] = IF Head(s) = "stop" /\ stopped[d] = "asked" /\ ~Contains(Tail(s), "stop")
                       THEN "answered" ELSE stopped[d]
  BY <1>3 DEF ConsoleInv, TypeOK
<1>6. TypeOK'
  BY <1>3, <1>4, <1>5 DEF ConsoleInv, TypeOK, Used
<1>7. MountInv'
  BY <1>3, <1>5 DEF ConsoleInv, MountInv, IsOpen
<1>8. /\ stopped[d] = "asked" => Last(s) = "stop"
      /\ stopped[d] = "answered" => socket[d] = Lost
      /\ stopped[d] = "none" \/ socket[d] = Lost => Last(s) = "start"
  BY <1>1 DEF ConsoleInv, RequestInv, s
<1>9. /\ stopped'[d] = "asked" => requests'[d] # <<>> /\ Last(requests'[d]) = "stop"
      /\ stopped'[d] = "answered" /\ socket'[d] # Lost => requests'[d] = <<>> /\ ~logger'[d]
      /\ stopped'[d] = "none" \/ socket'[d] = Lost =>
           IF requests'[d] = <<>> THEN logger'[d] ELSE Last(requests'[d]) = "start"
  <2>1. CASE stopped[d] = "asked"
    <3>1. Last(s) = "stop" /\ socket'[d] # Lost
      BY <1>3, <1>8, <2>1, TerminalsAssumption DEF ConsoleInv, MountInv, Lost, NoSocket
    <3>2. CASE Tail(s) = <<>>
      <4>1. Head(s) = "stop" /\ ~Contains(Tail(s), "stop")
        <5>1. ~Contains(<<>>, "stop")
          BY DEF Contains
        <5> QED BY <1>2, <3>1, <3>2, <5>1
      <4> QED BY <1>4, <1>5, <2>1, <3>1, <3>2, <4>1
    <3>3. CASE Tail(s) # <<>>
      <4>1. Last(Tail(s)) = "stop" /\ Contains(Tail(s), "stop")
        BY <1>2, <3>1, <3>3
      <4> QED BY <1>4, <1>5, <2>1, <3>1, <3>3, <4>1
    <3> QED BY <3>2, <3>3
  <2>2. CASE stopped[d] # "asked"
    <3>1. Last(s) = "start" /\ stopped'[d] = stopped[d] /\ socket'[d] = socket[d]
      BY <1>3, <1>5, <1>8, <2>2 DEF ConsoleInv, TypeOK
    <3>2. IF requests'[d] = <<>> THEN logger'[d] ELSE Last(requests'[d]) = "start"
      BY <1>2, <1>4, <3>1
    <3> QED BY <1>8, <2>2, <3>1, <3>2
  <2> QED BY <2>1, <2>2
<1>10. RequestInv'
  BY <1>3, <1>4, <1>5, <1>9 DEF ConsoleInv, RequestInv
<1> QED BY <1>6, <1>7, <1>10 DEF ConsoleInv

\* A step that loses the web socket of d and asks to start its logger.
LEMMA LossKeeps ==
  ASSUME ConsoleInv, NEW d \in Devices, stopped[d] = "answered",
         socket' = [socket EXCEPT ![d] = Lost],
         requests' = Send(d, "start"),
         UNCHANGED <<openTerminals, consoleViewerHidden, toggles, stopped, ip, proxy, serving,
                     logger>>
  PROVE  ConsoleInv'
<1>1. /\ requests' \in [Devices -> Seq({"stop", "start"})]
      /\ requests'[d] # <<>> /\ Last(requests'[d]) = "start"
      /\ \A e \in Devices \ {d} : requests'[e] = requests[e]
  BY SendLast DEF ConsoleInv
<1>2. /\ socket' \in [Devices -> {NoSocket, Lost} \cup Connections] /\ socket'[d] = Lost
      /\ \A e \in Devices \ {d} : socket'[e] = socket[e]
  BY DEF ConsoleInv, TypeOK
<1>3. TypeOK'
  BY <1>1, <1>2 DEF ConsoleInv, TypeOK, Used
<1>4. MountInv'
  BY <1>2 DEF ConsoleInv, MountInv, IsOpen
<1>5. RequestInv'
  BY <1>1, <1>2 DEF ConsoleInv, RequestInv
<1> QED BY <1>3, <1>4, <1>5 DEF ConsoleInv

LEMMA ConnectKeeps ==
  ASSUME ConsoleInv, NEW d \in Devices, Connect(d)
  PROVE  ConsoleInv'
<1> DEFINE c == Cardinality(Used) + 1
           new == [device |-> d, client |-> "open", pc |-> "connect", telnet |-> "connecting"]
<1>1. stopped[d] = "answered" /\ socket[d] = NoSocket /\ c \in Connections
  BY DEF Connect, CanMount
<1>2. CASE serving
  <2>1. /\ proxy' = [i \in Used \cup {c} |-> IF i = c THEN new ELSE proxy[i]]
        /\ socket' = [socket EXCEPT ![d] = c]
        /\ UNCHANGED <<openTerminals, consoleViewerHidden, toggles, stopped, ip, serving,
                       requests, logger>>
    BY <1>2 DEF Connect
  <2>2. new \in Handlers
    BY DEF Handlers
  <2> HIDE DEF c, new
  <2>3. DOMAIN proxy' = Used \cup {c} /\ proxy' \in [Used \cup {c} -> Handlers]
    BY <2>1, <2>2 DEF ConsoleInv, TypeOK
  <2>4. /\ socket' \in [Devices -> {NoSocket, Lost} \cup Connections] /\ socket'[d] # Lost
        /\ \A e \in Devices \ {d} : socket'[e] = socket[e]
    BY <1>1, <2>1, TerminalsAssumption DEF ConsoleInv, TypeOK, Connections, Lost
  <2>5. TypeOK'
    BY <1>1, <2>1, <2>3, <2>4 DEF ConsoleInv, TypeOK, Used
  <2>6. MountInv'
    BY <1>1, <2>1, <2>4 DEF ConsoleInv, MountInv, IsOpen
  <2>7. socket[d] # Lost
    BY <1>1, TerminalsAssumption DEF NoSocket, Lost
  <2>8. RequestInv'
    BY <1>1, <2>1, <2>4, <2>7 DEF ConsoleInv, RequestInv
  <2> QED BY <2>5, <2>6, <2>8 DEF ConsoleInv
<1>3. CASE ~serving
  BY <1>1, <1>3, LossKeeps DEF Connect
<1> QED BY <1>2, <1>3

LEMMA ClosedKeeps ==
  ASSUME ConsoleInv, NEW d \in Devices, SocketClosed(d)
  PROVE  ConsoleInv'
<1>1. socket[d] # NoSocket
  BY TerminalsAssumption DEF SocketClosed, Connections, NoSocket
<1>2. stopped[d] = "answered"
  BY <1>1 DEF ConsoleInv, MountInv
<1> QED BY <1>2, LossKeeps DEF SocketClosed

------------------------------------------------------------------------------
(* The steps of the proxy.                                                   *)

\* What the proxy does changes nothing that the browser and NSO know.
LEMMA ProxyKeeps ==
  ASSUME ConsoleInv, proxy' \in [Used -> Handlers], serving' \in BOOLEAN,
         UNCHANGED <<openTerminals, consoleViewerHidden, toggles, stopped, ip, socket, requests,
                     logger>>
  PROVE  ConsoleInv'
<1>1. TypeOK'
  BY DEF ConsoleInv, TypeOK, Used
<1>2. MountInv'
  BY DEF ConsoleInv, MountInv, IsOpen
<1>3. RequestInv'
  BY DEF ConsoleInv, RequestInv
<1> QED BY <1>1, <1>2, <1>3 DEF ConsoleInv

LEMMA ProxyStepKeeps ==
  ASSUME ConsoleInv, NEW c \in Used, NEW p \in Handlers, ProxyStep(c, p)
  PROVE  ConsoleInv'
<1>1. proxy' = [proxy EXCEPT ![c] = p]
  BY DEF ProxyStep
<1>2. proxy' \in [Used -> Handlers]
  BY <1>1 DEF ConsoleInv, TypeOK
<1> QED BY <1>2, ProxyKeeps DEF ProxyStep, ConsoleInv, TypeOK

LEMMA ProxyRunsKeeps ==
  ASSUME ConsoleInv, NEW c \in Used, ProxyRuns(c) \/ RemoteEnds(c)
  PROVE  ConsoleInv'
<1>1. proxy[c] \in Handlers
  BY DEF ConsoleInv, TypeOK
<1>2. CASE TelnetConnect(c)
  <2>1. /\ [proxy[c] EXCEPT !.pc = "shell", !.telnet = "connected"] \in Handlers
        /\ Finally(proxy[c]) \in Handlers
    BY <1>1 DEF Handlers, Finally
  <2> QED BY <1>2, <2>1, ProxyStepKeeps DEF TelnetConnect
<1>3. CASE TelnetShell(c)
  <2>1. [proxy[c] EXCEPT !.pc = "pipe"] \in Handlers /\ Finally(proxy[c]) \in Handlers
    BY <1>1 DEF Handlers, Finally
  <2> QED BY <1>3, <2>1, ProxyStepKeeps DEF TelnetShell
<1>4. CASE PipelinesEnd(c)
  <2>1. [Finally(proxy[c]) EXCEPT !.client = "closed"] \in Handlers
    BY <1>1 DEF Handlers, Finally
  <2> QED BY <1>4, <2>1, ProxyStepKeeps DEF PipelinesEnd
<1>5. CASE RemoteEnds(c)
  <2>1. /\ [proxy[c] EXCEPT !.telnet = "ended"] \in Handlers
        /\ [proxy[c] EXCEPT !.client = "closing"] \in Handlers
    BY <1>1 DEF Handlers
  <2> QED BY <1>5, <2>1, ProxyStepKeeps DEF RemoteEnds
<1>6. CASE ConnectionClosed(c)
  <2>1. PICK t \in {"ended", proxy[c].telnet} :
           ProxyStep(c, [proxy[c] EXCEPT !.client = "closed", !.telnet = t])
    BY <1>6 DEF ConnectionClosed
  <2>2. [proxy[c] EXCEPT !.client = "closed", !.telnet = t] \in Handlers
    BY <1>1, <2>1 DEF Handlers
  <2> QED BY <2>1, <2>2, ProxyStepKeeps
<1> QED BY <1>2, <1>3, <1>4, <1>5, <1>6 DEF ProxyRuns

LEMMA ExitKeeps ==
  ASSUME ConsoleInv, handleExit
  PROVE  ConsoleInv'
<1>1. ASSUME NEW c \in Used
      PROVE  /\ proxy[c] \in Handlers
             /\ [proxy[c] EXCEPT !.telnet = "ended", !.client = "closed"] \in Handlers
  BY DEF ConsoleInv, TypeOK, Handlers
<1>2. proxy' \in [Used -> Handlers]
  BY <1>1 DEF handleExit
<1> QED BY <1>2, ProxyKeeps DEF handleExit

------------------------------------------------------------------------------
(* The inductive invariant, and what it implies.                             *)

LEMMA ConsoleInit == Init => ConsoleInv
<1> SUFFICES ASSUME Init PROVE ConsoleInv
  OBVIOUS
<1>1. proxy = <<>> /\ Used = {} /\ proxy \in [Used -> Handlers]
  BY DEF Init, Used
<1>2. \A d \in Devices : ~IsOpen(d)
  BY DEF Init, IsOpen, Contains
<1>3. IsInjective(openTerminals) /\ openTerminals \in Seq(Devices)
  BY DEF Init, IsInjective
<1>4. TypeOK
  <2>1. requests \in [Devices -> Seq({"stop", "start"})]
    BY DEF Init
  <2>2. /\ stopped \in [Devices -> {"none", "asked", "answered"}] /\ logger \in [Devices -> BOOLEAN]
        /\ socket \in [Devices -> {NoSocket, Lost} \cup Connections]
    BY DEF Init
  <2>3. ip \in BOOLEAN /\ serving \in BOOLEAN /\ consoleViewerHidden \in BOOLEAN
    BY DEF Init
  <2>4. toggles \in 0..MaxToggles
    <3>1. toggles = 0
      BY DEF Init
    <3> QED BY <3>1, TerminalsAssumption
  <2> QED BY <1>1, <1>3, <2>1, <2>2, <2>3, <2>4 DEF TypeOK
<1>5. MountInv
  BY <1>2 DEF Init, MountInv
<1>6. RequestInv
  BY TerminalsAssumption DEF Init, RequestInv, Lost, NoSocket
<1> QED BY <1>4, <1>5, <1>6 DEF ConsoleInv

LEMMA ConsoleNext == ConsoleInv /\ [Next]_vars => ConsoleInv'
<1> SUFFICES ASSUME ConsoleInv, [Next]_vars PROVE ConsoleInv'
  OBVIOUS
<1>1. ASSUME NEW d \in Devices,
             terminalToggled(d) \/ ServeAction(d) \/ Connect(d) \/ SocketClosed(d)
      PROVE  ConsoleInv'
  BY <1>1, ToggleKeeps, ServeKeeps, ConnectKeeps, ClosedKeeps
<1>2. ASSUME NEW c \in Used, ProxyRuns(c) \/ RemoteEnds(c) PROVE ConsoleInv'
  BY <1>2, ProxyRunsKeeps
<1>3. CASE handleExit
  BY <1>3, ExitKeeps
<1>4. CASE hideConsoleViewer \/ ReceiveIp \/ UNCHANGED vars
  <2>1. /\ UNCHANGED <<openTerminals, toggles, stopped, socket, proxy, serving, requests, logger>>
        /\ consoleViewerHidden' \in BOOLEAN /\ ip' \in BOOLEAN
    BY <1>4 DEF hideConsoleViewer, ReceiveIp, vars, ConsoleInv, TypeOK
  <2>2. TypeOK'
    BY <2>1 DEF ConsoleInv, TypeOK, Used
  <2>3. MountInv'
    BY <2>1 DEF ConsoleInv, MountInv, IsOpen
  <2>4. RequestInv'
    BY <2>1 DEF ConsoleInv, RequestInv
  <2> QED BY <2>2, <2>3, <2>4 DEF ConsoleInv
<1> QED BY <1>1, <1>2, <1>3, <1>4 DEF Next

\* The inductive invariant, and with it every type, holds in every reachable
\* state.
THEOREM ConsoleInvariant == Spec => []ConsoleInv
<1> QED BY ConsoleInit, ConsoleNext, PTL DEF Spec

\* However consoles are opened, switched, closed and lost: while a console is
\* connected, the logger of its device does not read from it too.
THEOREM Exclusive == Spec => []ConsoleExclusive
<1>1. ConsoleInv => ConsoleExclusive
  <2> SUFFICES ASSUME ConsoleInv, NEW c \in Used, socket[proxy[c].device] = c
               PROVE  ~logger[proxy[c].device]
    BY DEF ConsoleExclusive
  <2>1. proxy[c].device \in Devices /\ c \in Connections
    BY DEF ConsoleInv, TypeOK, Handlers
  <2>2. c # NoSocket /\ c # Lost
    BY <2>1, TerminalsAssumption DEF Connections, NoSocket, Lost
  <2> QED BY <2>1, <2>2 DEF ConsoleInv, MountInv, RequestInv
<1> QED BY <1>1, ConsoleInvariant, PTL

\* Once its requests are served, the logger of a device whose console is closed,
\* or has lost its connection, runs again.
THEOREM Restored == Spec => []LoggerRestored
<1>1. ConsoleInv => LoggerRestored
  BY DEF ConsoleInv, MountInv, RequestInv, LoggerRestored
<1> QED BY <1>1, ConsoleInvariant, PTL
================================================================================
