--------------------- MODULE FirmwareUpdateSession_proofs ---------------------
(***************************************************************************)
(* Proofs about deviceInfo() and rebootAndWait(), for any set of images,   *)
(* any table of operations and any number of restarts of the device.       *)
(***************************************************************************)
EXTENDS FirmwareUpdateSession, TLAPS

\* What arrived is not ahead of the device.
Links == peer <= device

\* Only m_info_request is in use, and an answer that has arrived is not ahead of
\* the session it opened.
Operations ==
    \A s \in Slots :
        /\ ops[s] # Free => s = request
        /\ ops[s].state = "answered" => ops[s].from <= device
        /\ ops[s].state = "done" => ops[s].from <= peer

\* The session read before the submission, the start that answers and the session
\* read afterwards come in this order, so equal ends leave no room for another.
Queries ==
    /\ query.at \in {"idle", "begin"} => query.peer = 0
    /\ query.peer <= peer
    /\ query.at = "submit" => request = 0
    /\ query.at = "wait" =>
         /\ request # 0
         /\ ops[request].state \in {"answered", "done"} => query.peer <= ops[request].from
    /\ query.at = "check" => query.peer <= query.from /\ query.from <= peer
    /\ InfoIsOfItsSession

Preparing == {"idle", "before"}
Comparing == {"boot", "booting", "judge"}

\* What rebootAndWait knows at each place.
Installs ==
    /\ install.at \in Preparing => install.before = 0
    /\ install.at \notin Preparing =>
         /\ install.before = install.previous /\ install.before # 0 /\ install.before <= peer
         /\ Image(install.before).compatible /\ Image(install.before).id # Nobody
         /\ Image(install.before).version # Expected
    /\ install.at \in Comparing =>
         /\ install.from = install.peer /\ install.from > install.before /\ install.from <= peer
         /\ SameDevice(install.from, install.before) /\ Image(install.from).compatible
    /\ install.at \in {"before", "reboot"} => result.resets = 0
    /\ install.at \notin Preparing \cup {"reboot"} => result.resets = 1
    /\ install.at # "idle" => result.state = "Unknown"

\* The start that gives the boot status is not older than the one that gave the
\* information, and not ahead of the session.
Boots ==
    /\ install.at \notin {"booting", "judge"} => boot = NoBoot
    /\ install.at = "judge" => ~Pending(boot)
    /\ boot.state \in {"answered", "done"} => install.peer <= boot.from /\ boot.from <= device
    /\ boot.state = "done" => boot.from <= peer

\* The inductive invariant.
IInv == TypeOK /\ Links /\ Operations /\ Queries /\ Installs /\ Boots /\ InstallIsTrue

\* The records that stand for nothing have their types.
LEMMA Nothings ==
    /\ Free \in OpType /\ NoQuery \in QueryType /\ NoBoot \in BootType
    /\ NoInstall \in InstallType /\ NoResult \in ResultType
    /\ \A c \in {"other", "install"} : Enter(c) \in QueryType
<1> USE BootsAssumption DEF Starts
<1>1. Free \in OpType /\ NoQuery \in QueryType /\ NoBoot \in BootType /\ NoInstall \in InstallType
  BY DEF Free, NoQuery, NoBoot, NoInstall, OpType, QueryType, BootType, InstallType
<1>2. NoResult \in ResultType
  BY <1>1 DEF NoResult, ResultType
<1>3. \A c \in {"other", "install"} : Enter(c) \in QueryType
  BY DEF Enter, QueryType
<1> QED BY <1>1, <1>2, <1>3

\* Every return of rebootAndWait.
LEMMA Returns ==
    ASSUME TypeOK, NEW st \in {"Error", "TargetConfirmed", "PreviousFirmware"}, Return(st)
    PROVE  /\ install' \in InstallType /\ boot' \in BootType /\ result' \in ResultType
           /\ install' = NoInstall /\ boot' = NoBoot
           /\ result'.state = st /\ result'.resets = result.resets
           /\ result'.before = install.before /\ result'.from = install.from
           /\ result'.boot = boot
<1>1. install' = NoInstall /\ boot' = NoBoot
  BY DEF Return
<1>2. install' \in InstallType /\ boot' \in BootType
  BY <1>1, Nothings
<1>3. install.before \in Starts /\ install.from \in Starts /\ result.resets \in Nat
  BY DEF TypeOK, InstallType, ResultType
<1>4. boot \in BootType
  BY DEF TypeOK
<1>5. result' = [state |-> st, before |-> install.before, from |-> install.from,
                 boot |-> boot, resets |-> result.resets]
  BY DEF Return
<1>6. result' \in ResultType
  BY <1>3, <1>4, <1>5 DEF ResultType
<1> QED BY <1>1, <1>2, <1>5, <1>6

\* Giving up a boot query.
LEMMA Failing ==
    ASSUME NEW b \in BootType
    PROVE  /\ [NoBoot EXCEPT !.state = "failed"] \in BootType
           /\ [NoBoot EXCEPT !.state = "sent"] \in BootType
           /\ Disconnected(b) \in BootType
           /\ ~Pending(Disconnected(b))
           /\ Disconnected(b).state \in {"answered", "done"} => Disconnected(b) = b
           /\ b.state = "none" => Disconnected(b) = b
<1> DEFINE failed == [NoBoot EXCEPT !.state = "failed"]
<1>1. NoBoot \in BootType
  BY Nothings
<1>2. \A x \in BootType : \A l \in {"sent", "failed"} :
         [x EXCEPT !.state = l] \in BootType /\ [x EXCEPT !.state = l].state = l
  BY DEF BootType
<1>3. failed \in BootType /\ [NoBoot EXCEPT !.state = "sent"] \in BootType
  BY <1>1, <1>2
<1>4. Disconnected(b) = IF b.state \in {"sent", "answered"} THEN failed ELSE b
  BY DEF Disconnected, Pending
<1>5. failed.state = "failed"
  BY <1>1, <1>2
<1> HIDE DEF failed
<1>6. /\ Disconnected(b) \in BootType
      /\ ~Pending(Disconnected(b))
      /\ Disconnected(b).state \in {"answered", "done"} => Disconnected(b) = b
      /\ b.state = "none" => Disconnected(b) = b
  BY <1>3, <1>4, <1>5 DEF Pending
<1> USE DEF failed
<1> QED BY <1>3, <1>6

\* A query goes on, or fails.
LEMMA QueryMoves ==
    ASSUME NEW q \in QueryType, NEW p \in Starts, NEW f \in Starts,
           NEW l \in {"submit", "wait", "check", "ok", "failed"}
    PROVE  /\ [q EXCEPT !.at = l] \in QueryType
           /\ [q EXCEPT !.at = l, !.peer = p] \in QueryType
           /\ [q EXCEPT !.at = l, !.from = f] \in QueryType
           /\ [q EXCEPT !.at = l, !.peer = p, !.from = f] \in QueryType
BY DEF QueryType

\* A failed query asks nothing of the link and has no answer to return.
LEMMA FailedQuery ==
    ASSUME TypeOK, Fails, peer' \in Starts
    PROVE  query' \in QueryType /\ Queries'
<1>0. 0 \in Starts
  BY BootsAssumption DEF Starts
<1>1. query' \in QueryType
  BY <1>0, QueryMoves DEF TypeOK, Fails
<1>2. query'.at = "failed" /\ query'.peer = 0
  BY DEF TypeOK, Fails, QueryType
<1> QED BY <1>1, <1>2, BootsAssumption DEF Queries, InfoIsOfItsSession, Starts

\* rebootAndWait goes on.
LEMMA InstallMoves ==
    ASSUME NEW i \in InstallType, NEW a \in Starts, NEW b \in Starts,
           NEW l \in {"before", "reboot", "rebooting", "poll", "info", "boot", "booting", "judge"}
    PROVE  /\ [i EXCEPT !.at = l] \in InstallType
           /\ [i EXCEPT !.at = l, !.before = a, !.previous = b] \in InstallType
           /\ [i EXCEPT !.at = l, !.from = a, !.peer = b] \in InstallType
           /\ [i EXCEPT !.at = l, !.peer = b, !.from = a] \in InstallType
BY DEF InstallType

\* A return without a verdict.
LEMMA ReturnsError ==
    ASSUME TypeOK, Installs, InstallIsTrue, install.at # "idle", Return("Error"),
           UNCHANGED bootImages
    PROVE  Installs' /\ InstallIsTrue'
<1>1. /\ install' = NoInstall /\ result'.state = "Error" /\ result'.resets = result.resets
  BY Returns
<1>2. install'.at = "idle" /\ install'.before = 0
  BY <1>1 DEF NoInstall
<1>3. Installs'
  BY <1>2 DEF Installs, Preparing, Comparing
<1>4. result.resets <= 1
  BY DEF InstallIsTrue
<1>5. InstallIsTrue'
  BY <1>1, <1>2, <1>4 DEF InstallIsTrue
<1> QED BY <1>3, <1>5

\* Every step keeps the inductive invariant.
LEMMA Inductive == IInv /\ [Next]_vars => IInv'
<1> SUFFICES ASSUME IInv, [Next]_vars PROVE IInv'
  OBVIOUS
<1> USE BootsAssumption, SlotsAssumption DEF IInv
<1>1. ASSUME OtherCalls PROVE IInv'
  <2>1. TypeOK'
    BY <1>1, Nothings DEF OtherCalls, TypeOK, linkVars, installVars, deviceVars
  <2>2. Links' /\ Operations'
    BY <1>1 DEF OtherCalls, linkVars, installVars, deviceVars, Links, Operations
  <2>3. Queries'
    BY <1>1 DEF OtherCalls, NoQuery, Enter, linkVars, installVars, deviceVars, Queries,
        InfoIsOfItsSession, TypeOK, Starts, QueryType
  <2>4. Installs'
    BY <1>1 DEF OtherCalls, linkVars, installVars, deviceVars, Installs, Image, SameDevice
  <2>5. Boots'
    BY <1>1 DEF OtherCalls, linkVars, installVars, deviceVars, Boots
  <2>6. InstallIsTrue'
    BY <1>1 DEF OtherCalls, linkVars, installVars, deviceVars, InstallIsTrue, Image
  <2> QED BY <2>1, <2>2, <2>3, <2>4, <2>5, <2>6
<1>2. ASSUME QueryBegins PROVE IInv'
  <2>0. ASSUME \E s \in Leftover : Pending(ops[s])
        PROVE  TypeOK' /\ Queries'
    <3>1. query' \in QueryType /\ Queries' /\ UNCHANGED <<ops, request>>
      BY <1>2, <2>0, FailedQuery DEF QueryBegins, linkVars, TypeOK
    <3>2. TypeOK'
      BY <1>2, <3>1 DEF QueryBegins, linkVars, deviceVars, installVars, TypeOK
    <3> QED BY <3>1, <3>2
  <2>a. ASSUME ~\E s \in Leftover : Pending(ops[s])
        PROVE  TypeOK' /\ Queries'
    <3>1. /\ ops' = [s \in Slots |-> IF s \in Leftover THEN Free ELSE ops[s]] /\ request' = 0
          /\ query' = [query EXCEPT !.at = "submit", !.peer = peer]
          /\ UNCHANGED <<linkVars, installVars>>
      BY <1>2, <2>a DEF QueryBegins
    <3>2. ops' \in [Slots -> OpType] /\ query' \in QueryType
      BY <3>1, Nothings, QueryMoves DEF TypeOK
    <3>3. TypeOK'
      BY <3>1, <3>2 DEF TypeOK, linkVars, deviceVars, installVars
    <3>4. query'.at = "submit" /\ query'.peer = peer
      BY <3>1 DEF TypeOK, QueryType
    <3>5. Queries'
      BY <3>1, <3>4 DEF Queries, InfoIsOfItsSession, linkVars, TypeOK, Starts
    <3> QED BY <3>3, <3>5
  <2>1. TypeOK' /\ Queries'
    BY <2>0, <2>a
  <2>2. Links' /\ Operations'
    BY <1>2 DEF QueryBegins, Fails, Leftover, Free, Pending, linkVars, installVars,
        deviceVars, Links, Operations, TypeOK, Starts, OpType
  <2>3. Queries'
    BY <2>1
  <2>4. Installs'
    BY <1>2 DEF QueryBegins, linkVars, installVars, deviceVars, Installs, Image, SameDevice
  <2>5. Boots'
    BY <1>2 DEF QueryBegins, linkVars, installVars, deviceVars, Boots
  <2>6. InstallIsTrue'
    BY <1>2 DEF QueryBegins, linkVars, installVars, deviceVars, InstallIsTrue, Image
  <2> QED BY <2>1, <2>2, <2>3, <2>4, <2>5, <2>6
<1>3. ASSUME QuerySubmits PROVE IInv'
  <2>0. ASSUME Fails /\ UNCHANGED <<ops, request>>
        PROVE  TypeOK' /\ Links' /\ Operations' /\ Queries'
    <3>1. query' \in QueryType /\ Queries'
      BY <1>3, <2>0, FailedQuery DEF QuerySubmits, linkVars, TypeOK
    <3>2. TypeOK'
      BY <1>3, <2>0, <3>1 DEF QuerySubmits, linkVars, deviceVars, installVars, TypeOK
    <3>3. Links' /\ Operations'
      BY <1>3, <2>0 DEF QuerySubmits, linkVars, deviceVars, Links, Operations
    <3> QED BY <3>1, <3>2, <3>3
  <2>a. ASSUME NEW s \in Slots, ops[s] = Free,
               ops' = [ops EXCEPT ![s].state = "sent"], request' = s,
               query' = [query EXCEPT !.at = "wait"], query.at = "submit",
               UNCHANGED <<linkVars, installVars>>
        PROVE  TypeOK' /\ Links' /\ Operations' /\ Queries'
    <3>1. ops' \in [Slots -> OpType] /\ query' \in QueryType
      BY <2>a, QueryMoves, BootsAssumption DEF TypeOK, OpType, Starts
    <3>2. TypeOK'
      BY <2>a, <3>1 DEF TypeOK, linkVars, deviceVars, installVars
    <3>3. request = 0
      BY <2>a DEF Queries
    <3>4. \A t \in Slots : ops[t] = Free
      BY <3>3 DEF Operations
    <3>5. ops'[s].state = "sent" /\ \A t \in Slots \ {s} : ops'[t] = Free
      BY <2>a, <3>4 DEF TypeOK, OpType
    <3>6. Links' /\ Operations'
      BY <2>a, <3>5 DEF Links, Operations, linkVars, deviceVars, Free
    <3>7. query'.at = "wait" /\ query'.peer = query.peer
      BY <2>a DEF TypeOK, QueryType
    <3>8. Queries'
      BY <2>a, <3>5, <3>7 DEF Queries, InfoIsOfItsSession, linkVars, TypeOK, Starts
    <3> QED BY <3>2, <3>6, <3>8
  <2>1. TypeOK' /\ Links' /\ Operations' /\ Queries'
    BY <1>3, <2>0, <2>a DEF QuerySubmits
  <2>2. Links' /\ Operations'
    BY <2>1
  <2>3. Queries'
    BY <2>1
  <2>4. Installs'
    BY <1>3 DEF QuerySubmits, Installs, Image, SameDevice, linkVars, deviceVars, installVars
  <2>5. Boots'
    BY <1>3 DEF QuerySubmits, Boots, linkVars, deviceVars, installVars
  <2>6. InstallIsTrue'
    BY <1>3 DEF QuerySubmits, InstallIsTrue, Image, linkVars, deviceVars, installVars
  <2> QED BY <2>1, <2>2, <2>3, <2>4, <2>5, <2>6
<1>4. ASSUME QueryTakes PROVE IInv'
  <2>0. /\ request \in Slots /\ ops[request] \in OpType
        /\ UNCHANGED <<linkVars, installVars>>
    BY <1>4 DEF QueryTakes, Queries, TypeOK
  <2>a. ASSUME Fails /\ (UNCHANGED <<ops, request>> \/ (ops' = [ops EXCEPT ![request] = Free] /\ request' = 0))
        PROVE  TypeOK' /\ Queries'
    <3>1. query' \in QueryType /\ Queries'
      BY <2>0, <2>a, FailedQuery DEF linkVars, TypeOK
    <3>2. TypeOK'
      BY <2>0, <2>a, <3>1, Nothings DEF linkVars, deviceVars, installVars, TypeOK
    <3> QED BY <3>1, <3>2
  <2>b. ASSUME /\ ops[request].state = "done"
               /\ ops' = [ops EXCEPT ![request] = Free] /\ request' = 0
               /\ query' = [query EXCEPT !.at = "check", !.from = ops[request].from]
               /\ query.at = "wait"
        PROVE  TypeOK' /\ Queries'
    <3>1. ops[request].from \in Starts /\ query.peer <= ops[request].from /\ ops[request].from <= peer
      BY <2>0, <2>b DEF OpType, Operations, Queries
    <3>2. query' \in QueryType /\ ops' \in [Slots -> OpType]
      BY <2>0, <2>b, <3>1, QueryMoves, Nothings DEF TypeOK
    <3>3. TypeOK'
      BY <2>0, <2>b, <3>2 DEF linkVars, deviceVars, installVars, TypeOK
    <3>4. query'.at = "check" /\ query'.peer = query.peer /\ query'.from = ops[request].from
      BY <2>b DEF TypeOK, QueryType
    <3>5. Queries'
      BY <2>0, <3>1, <3>4 DEF Queries, InfoIsOfItsSession, linkVars
    <3> QED BY <3>3, <3>5
  <2>1. TypeOK' /\ Queries'
    BY <1>4, <2>a, <2>b DEF QueryTakes
  <2>2. Links' /\ Operations'
    BY <1>4 DEF QueryTakes, Fails, Free, Pending, linkVars, installVars, deviceVars, Links,
        Operations, TypeOK, Starts, OpType
  <2>3. Queries'
    BY <2>1
  <2>4. Installs'
    BY <1>4 DEF QueryTakes, linkVars, installVars, deviceVars, Installs, Image, SameDevice
  <2>5. Boots'
    BY <1>4 DEF QueryTakes, linkVars, installVars, deviceVars, Boots
  <2>6. InstallIsTrue'
    BY <1>4 DEF QueryTakes, linkVars, installVars, deviceVars, InstallIsTrue, Image
  <2> QED BY <2>1, <2>2, <2>3, <2>4, <2>5, <2>6
<1>5. ASSUME QueryChecks PROVE IInv'
  <2>0. UNCHANGED <<linkVars, ops, request, installVars>> /\ query.at = "check" /\ peer' \in Starts
    BY <1>5 DEF QueryChecks, linkVars, TypeOK
  <2>a. ASSUME Fails
        PROVE  query' \in QueryType /\ Queries'
    BY <2>0, <2>a, FailedQuery
  <2>b. ASSUME query' = Enter(query.by)
        PROVE  query' \in QueryType /\ Queries'
    <3>1. query.by \in {"none", "other", "install"}
      BY DEF TypeOK, QueryType
    <3>2. query' = [by |-> query.by, at |-> "begin", peer |-> 0, from |-> 0]
      BY <2>b DEF Enter
    <3>3. query' \in QueryType
      BY <3>1, <3>2, BootsAssumption DEF QueryType, Starts
    <3> QED BY <2>0, <3>2, <3>3 DEF Queries, InfoIsOfItsSession, Starts
  <2>c. ASSUME peer # 0 /\ query.peer = peer /\ query' = [query EXCEPT !.at = "ok"]
        PROVE  query' \in QueryType /\ Queries'
    <3>1. query' \in QueryType
      BY <2>c, QueryMoves, BootsAssumption DEF TypeOK, Starts
    <3>2. query'.at = "ok" /\ query'.peer = query.peer /\ query'.from = query.from
      BY <2>c DEF TypeOK, QueryType
    <3>3. query.from = query.peer
      BY <2>0, <2>c DEF Queries, TypeOK, QueryType, Starts
    <3> QED BY <2>0, <2>c, <3>1, <3>2, <3>3 DEF Queries, InfoIsOfItsSession, linkVars
  <2>d. query' \in QueryType /\ Queries'
    BY <1>5, <2>a, <2>b, <2>c DEF QueryChecks
  <2>1. TypeOK'
    BY <2>0, <2>d DEF TypeOK, linkVars, deviceVars, installVars
  <2>2. Links' /\ Operations'
    BY <1>5 DEF QueryChecks, linkVars, installVars, deviceVars, Links, Operations
  <2>3. Queries'
    BY <2>d
  <2>4. Installs'
    BY <1>5 DEF QueryChecks, linkVars, installVars, deviceVars, Installs, Image, SameDevice
  <2>5. Boots'
    BY <1>5 DEF QueryChecks, linkVars, installVars, deviceVars, Boots
  <2>6. InstallIsTrue'
    BY <1>5 DEF QueryChecks, linkVars, installVars, deviceVars, InstallIsTrue, Image
  <2> QED BY <2>1, <2>2, <2>3, <2>4, <2>5, <2>6
<1>6. ASSUME OtherReturns PROVE IInv'
  <2>1. TypeOK'
    BY <1>6, Nothings DEF OtherReturns, TypeOK, linkVars, installVars, deviceVars
  <2>2. Links' /\ Operations'
    BY <1>6 DEF OtherReturns, linkVars, installVars, deviceVars, Links, Operations
  <2>3. Queries'
    BY <1>6 DEF OtherReturns, NoQuery, linkVars, installVars, deviceVars, Queries,
        InfoIsOfItsSession, TypeOK, Starts, QueryType
  <2>4. Installs'
    BY <1>6 DEF OtherReturns, linkVars, installVars, deviceVars, Installs, Image, SameDevice
  <2>5. Boots'
    BY <1>6 DEF OtherReturns, linkVars, installVars, deviceVars, Boots
  <2>6. InstallIsTrue'
    BY <1>6 DEF OtherReturns, linkVars, installVars, deviceVars, InstallIsTrue, Image
  <2> QED BY <2>1, <2>2, <2>3, <2>4, <2>5, <2>6
<1>7. ASSUME InstallBegins PROVE IInv'
  <2>1. TypeOK'
    BY <1>7, Nothings DEF InstallBegins, TypeOK, InstallType, NoInstall, Starts, linkVars,
        queryVars, deviceVars
  <2>2. Links' /\ Operations'
    BY <1>7 DEF InstallBegins, linkVars, queryVars, deviceVars, Links, Operations
  <2>3. Queries'
    BY <1>7 DEF InstallBegins, linkVars, queryVars, deviceVars, Queries, InfoIsOfItsSession
  <2>4. Installs'
    BY <1>7 DEF InstallBegins, NoInstall, NoResult, NoBoot, linkVars, queryVars, deviceVars,
        Installs, Image, SameDevice, Preparing, Comparing, TypeOK, InstallType, ResultType
  <2>5. Boots'
    BY <1>7 DEF InstallBegins, linkVars, queryVars, deviceVars, Boots, NoBoot, TypeOK,
        BootType, InstallType, Starts
  <2>6. InstallIsTrue'
    BY <1>7 DEF InstallBegins, NoInstall, NoResult, NoBoot, linkVars, queryVars, deviceVars,
        InstallIsTrue, Image, TypeOK, InstallType, ResultType
  <2> QED BY <2>1, <2>2, <2>3, <2>4, <2>5, <2>6
<1>8. ASSUME AskBefore PROVE IInv'
  <2>1. TypeOK'
    BY <1>8, Nothings, Returns DEF AskBefore, TypeOK, linkVars, deviceVars
  <2>2. Links' /\ Operations'
    BY <1>8 DEF AskBefore, linkVars, deviceVars, Links, Operations
  <2>3. Queries'
    BY <1>8 DEF AskBefore, NoQuery, Enter, Return, NoInstall, NoBoot, NoResult, linkVars,
        deviceVars, Queries, InfoIsOfItsSession, TypeOK, Starts, QueryType
  <2>4. Installs'
    BY <1>8 DEF AskBefore, NoQuery, Enter, Return, NoInstall, NoBoot, NoResult, linkVars,
        deviceVars, Installs, Image, SameDevice, Preparing, Comparing, TypeOK, InstallType,
        ResultType
  <2>5. Boots'
    BY <1>8 DEF AskBefore, NoQuery, Enter, Return, NoInstall, NoBoot, NoResult, linkVars,
        deviceVars, Boots, TypeOK, BootType, InstallType, Starts
  <2>6. InstallIsTrue'
    BY <1>8 DEF AskBefore, NoQuery, Enter, Return, NoInstall, NoBoot, NoResult, linkVars,
        deviceVars, InstallIsTrue, Image, TypeOK, InstallType, ResultType
  <2> QED BY <2>1, <2>2, <2>3, <2>4, <2>5, <2>6
<1>9. ASSUME HasBefore PROVE IInv'
  <2>0. /\ query' = NoQuery /\ query' \in QueryType /\ install.at = "before"
        /\ UNCHANGED <<linkVars, ops, request>>
    BY <1>9, Nothings DEF HasBefore
  <2>a. ASSUME Return("Error")
        PROVE  TypeOK' /\ Installs' /\ InstallIsTrue'
    <3>1. Installs' /\ InstallIsTrue'
      BY <2>0, <2>a, ReturnsError DEF linkVars, deviceVars
    <3>2. TypeOK'
      BY <2>0, <2>a, Returns DEF TypeOK, linkVars, deviceVars
    <3> QED BY <3>1, <3>2
  <2>b. ASSUME /\ query.at = "ok" /\ query.peer = peer
               /\ Image(query.from).compatible /\ Image(query.from).id # Nobody
               /\ Image(query.from).version # Expected
               /\ install' = [install EXCEPT !.at = "reboot", !.before = query.from,
                                             !.previous = query.peer]
               /\ UNCHANGED <<boot, result>>
        PROVE  TypeOK' /\ Installs' /\ InstallIsTrue'
    <3>1. query.from \in Starts /\ query.peer \in Starts
      BY DEF TypeOK, QueryType
    <3>2. install' \in InstallType
      BY <2>b, <3>1, InstallMoves DEF TypeOK
    <3>3. TypeOK'
      BY <2>0, <2>b, <3>2 DEF TypeOK, linkVars, deviceVars
    <3>4. /\ install'.at = "reboot" /\ install'.before = query.from
          /\ install'.previous = query.peer
      BY <2>b DEF TypeOK, InstallType
    <3>5. query.from = query.peer /\ query.peer # 0
      BY <2>b DEF Queries, InfoIsOfItsSession
    <3>6. result.resets = 0 /\ result.state = "Unknown"
      BY <2>0 DEF Installs
    <3>7. Installs'
      BY <2>0, <2>b, <3>1, <3>4, <3>5, <3>6
      DEF Installs, Preparing, Comparing, Image, linkVars, deviceVars, Starts
    <3>8. InstallIsTrue'
      BY <2>b, <3>6 DEF InstallIsTrue
    <3> QED BY <3>3, <3>7, <3>8
  <2>1. TypeOK' /\ Installs' /\ InstallIsTrue'
    BY <1>9, <2>a, <2>b DEF HasBefore
  <2>2. Links' /\ Operations'
    BY <1>9 DEF HasBefore, linkVars, deviceVars, Links, Operations
  <2>3. Queries'
    BY <1>9 DEF HasBefore, NoQuery, Return, NoInstall, NoBoot, NoResult, linkVars,
        deviceVars, Queries, InfoIsOfItsSession, TypeOK, Starts, QueryType
  <2>4. Installs'
    BY <2>1
  <2>5. Boots'
    BY <1>9 DEF HasBefore, NoQuery, Return, NoInstall, NoBoot, NoResult, linkVars,
        deviceVars, TypeOK, Starts, BootType, InstallType, Links, Installs, Boots, Pending,
        Preparing, Comparing
  <2>6. InstallIsTrue'
    BY <2>1
  <2> QED BY <2>1, <2>2, <2>3, <2>4, <2>5, <2>6
<1>10. ASSUME RebootSends PROVE IInv'
  <2>0. result.resets = 0 /\ result' = [result EXCEPT !.resets = 1]
    BY <1>10 DEF RebootSends, Installs
  <2>a. 0 \in Starts
    BY BootsAssumption DEF Starts
  <2>b. install' \in InstallType
    BY <1>10, <2>a, InstallMoves DEF RebootSends, TypeOK
  <2>c. result' \in ResultType
    BY <2>0 DEF TypeOK, ResultType
  <2>1. TypeOK'
    BY <1>10, <2>b, <2>c DEF RebootSends, TypeOK, linkVars, deviceVars, queryVars
  <2>2. Links' /\ Operations'
    BY <1>10 DEF RebootSends, linkVars, queryVars, deviceVars, Links, Operations
  <2>3. Queries'
    BY <1>10 DEF RebootSends, linkVars, queryVars, deviceVars, Queries, InfoIsOfItsSession
  <2>4. Installs'
    BY <1>10 DEF RebootSends, linkVars, queryVars, deviceVars, Installs, Image, SameDevice,
        Preparing, Comparing, TypeOK, InstallType, ResultType
  <2>5. Boots'
    BY <1>10 DEF RebootSends, linkVars, queryVars, deviceVars, Boots
  <2>6. InstallIsTrue'
    BY <1>10 DEF RebootSends, linkVars, queryVars, deviceVars, TypeOK, Starts, BootType,
        InstallType, ResultType, Installs, Boots, InstallIsTrue, Image, SameDevice,
        Preparing, Comparing
  <2> QED BY <2>1, <2>2, <2>3, <2>4, <2>5, <2>6
<1>11. ASSUME RebootReturns PROVE IInv'
  <2>1. TypeOK'
    BY <1>11, Returns DEF RebootReturns, TypeOK, InstallType, linkVars, queryVars,
        deviceVars
  <2>2. Links' /\ Operations'
    BY <1>11 DEF RebootReturns, linkVars, queryVars, deviceVars, Links, Operations
  <2>3. Queries'
    BY <1>11 DEF RebootReturns, linkVars, queryVars, deviceVars, Queries, InfoIsOfItsSession
  <2>4. Installs'
    BY <1>11 DEF RebootReturns, Return, NoInstall, NoBoot, NoResult, linkVars, queryVars,
        deviceVars, Installs, Image, SameDevice, Preparing, Comparing, TypeOK, InstallType,
        ResultType
  <2>5. Boots'
    BY <1>11 DEF RebootReturns, Return, NoInstall, NoBoot, NoResult, linkVars, queryVars,
        deviceVars, Boots, TypeOK, BootType, InstallType, Starts
  <2>6. InstallIsTrue'
    BY <1>11 DEF RebootReturns, Return, NoInstall, NoBoot, NoResult, linkVars, queryVars,
        deviceVars, InstallIsTrue, Image, TypeOK, InstallType, ResultType
  <2> QED BY <2>1, <2>2, <2>3, <2>4, <2>5, <2>6
<1>12. ASSUME Poll PROVE IInv'
  <2>1. TypeOK'
    BY <1>12, Nothings, Returns DEF Poll, TypeOK, InstallType, linkVars, deviceVars
  <2>2. Links' /\ Operations'
    BY <1>12 DEF Poll, linkVars, deviceVars, Links, Operations
  <2>3. Queries'
    BY <1>12 DEF Poll, NoQuery, Enter, Return, NoInstall, NoBoot, NoResult, linkVars,
        deviceVars, Queries, InfoIsOfItsSession, TypeOK, Starts, QueryType
  <2>4. Installs'
    BY <1>12 DEF Poll, NoQuery, Enter, Return, NoInstall, NoBoot, NoResult, linkVars,
        deviceVars, Installs, Image, SameDevice, Preparing, Comparing, TypeOK, InstallType,
        ResultType
  <2>5. Boots'
    BY <1>12 DEF Poll, NoQuery, Enter, Return, NoInstall, NoBoot, NoResult, linkVars,
        deviceVars, Boots, TypeOK, BootType, InstallType, Starts
  <2>6. InstallIsTrue'
    BY <1>12 DEF Poll, NoQuery, Enter, Return, NoInstall, NoBoot, NoResult, linkVars,
        deviceVars, InstallIsTrue, Image, TypeOK, InstallType, ResultType
  <2> QED BY <2>1, <2>2, <2>3, <2>4, <2>5, <2>6
<1>13. ASSUME HasInfo PROVE IInv'
  <2>0. /\ query' = NoQuery /\ query' \in QueryType /\ install.at = "info"
        /\ UNCHANGED <<linkVars, ops, request>>
    BY <1>13, Nothings DEF HasInfo
  <2>a. ASSUME Return("Error")
        PROVE  TypeOK' /\ Installs' /\ InstallIsTrue'
    <3>1. Installs' /\ InstallIsTrue'
      BY <2>0, <2>a, ReturnsError DEF linkVars, deviceVars
    <3>2. TypeOK'
      BY <2>0, <2>a, Returns DEF TypeOK, linkVars, deviceVars
    <3> QED BY <3>1, <3>2
  <2>b. ASSUME install' = [install EXCEPT !.at = "poll"] /\ UNCHANGED <<boot, result>>
        PROVE  TypeOK' /\ Installs' /\ InstallIsTrue'
    <3>1. install' \in InstallType
      BY <2>b, InstallMoves, BootsAssumption DEF TypeOK, Starts
    <3>2. TypeOK'
      BY <2>0, <2>b, <3>1 DEF TypeOK, linkVars, deviceVars
    <3>3. install'.at = "poll" /\ install'.before = install.before /\ install'.previous = install.previous
      BY <2>b DEF TypeOK, InstallType
    <3>4. Installs'
      BY <2>0, <2>b, <3>3 DEF Installs, Preparing, Comparing, Image, linkVars, deviceVars
    <3>5. InstallIsTrue'
      BY <2>0, <2>b, <3>3 DEF InstallIsTrue, Image, linkVars, deviceVars
    <3> QED BY <3>2, <3>4, <3>5
  <2>c. ASSUME /\ NewPeer /\ SameDevice(query.from, install.before) /\ Image(query.from).compatible
               /\ install' = [install EXCEPT !.at = "boot", !.from = query.from, !.peer = query.peer]
               /\ UNCHANGED <<boot, result>>
        PROVE  TypeOK' /\ Installs' /\ InstallIsTrue'
    <3>1. query.from \in Starts /\ query.peer \in Starts
      BY DEF TypeOK, QueryType
    <3>2. install' \in InstallType
      BY <2>c, <3>1, InstallMoves DEF TypeOK
    <3>3. TypeOK'
      BY <2>0, <2>c, <3>2 DEF TypeOK, linkVars, deviceVars
    <3>4. /\ install'.at = "boot" /\ install'.before = install.before
          /\ install'.previous = install.previous
          /\ install'.from = query.from /\ install'.peer = query.peer
      BY <2>c DEF TypeOK, InstallType
    <3>5. query.from = query.peer /\ query.peer = peer /\ query.peer # install.previous
      BY <2>c DEF NewPeer, Queries, InfoIsOfItsSession
    <3>6. install.before = install.previous /\ install.before <= peer /\ install.before \in Starts
      BY <2>0 DEF Installs, Preparing, TypeOK, InstallType
    <3>7. query.from > install.before
      BY <3>1, <3>5, <3>6 DEF Starts
    <3>8. Installs'
      BY <2>0, <2>c, <3>1, <3>4, <3>5, <3>7
      DEF Installs, Preparing, Comparing, Image, SameDevice, linkVars, deviceVars, Starts
    <3>9. InstallIsTrue'
      BY <2>0, <2>c, <3>4 DEF InstallIsTrue, Image, linkVars, deviceVars
    <3> QED BY <3>3, <3>8, <3>9
  <2>1. TypeOK' /\ Installs' /\ InstallIsTrue'
    BY <1>13, <2>a, <2>b, <2>c DEF HasInfo
  <2>2. Links' /\ Operations'
    BY <1>13 DEF HasInfo, linkVars, deviceVars, Links, Operations
  <2>3. Queries'
    BY <1>13 DEF HasInfo, NewPeer, NoQuery, Return, NoInstall, NoBoot, NoResult, linkVars,
        deviceVars, Queries, InfoIsOfItsSession, TypeOK, Starts, QueryType
  <2>4. Installs'
    BY <2>1
  <2>5. Boots'
    BY <1>13 DEF HasInfo, NewPeer, NoQuery, Return, NoInstall, NoBoot, NoResult, linkVars,
        deviceVars, TypeOK, Starts, BootType, InstallType, Links, Installs, Boots, Pending,
        Preparing, Comparing
  <2>6. InstallIsTrue'
    BY <2>1
  <2> QED BY <2>1, <2>2, <2>3, <2>4, <2>5, <2>6
<1>14. ASSUME BootCalls PROVE IInv'
  <2>1. TypeOK'
    BY <1>14, Failing DEF BootCalls, TypeOK, InstallType, linkVars, queryVars, deviceVars
  <2>2. Links' /\ Operations'
    BY <1>14 DEF BootCalls, linkVars, queryVars, deviceVars, Links, Operations
  <2>3. Queries'
    BY <1>14 DEF BootCalls, linkVars, queryVars, deviceVars, Queries, InfoIsOfItsSession
  <2>4. Installs'
    BY <1>14 DEF BootCalls, linkVars, queryVars, deviceVars, Installs, Image, SameDevice,
        Preparing, Comparing, TypeOK, InstallType, ResultType
  <2>5. Boots'
    BY <1>14 DEF BootCalls, linkVars, queryVars, deviceVars, Boots, NoBoot, TypeOK,
        BootType, InstallType, Starts
  <2>6. InstallIsTrue'
    BY <1>14 DEF BootCalls, linkVars, queryVars, deviceVars, InstallIsTrue, Image
  <2> QED BY <2>1, <2>2, <2>3, <2>4, <2>5, <2>6
<1>15. ASSUME BootReturns PROVE IInv'
  <2>1. TypeOK'
    BY <1>15, Failing DEF BootReturns, TypeOK, InstallType, linkVars, queryVars, deviceVars
  <2>2. Links' /\ Operations'
    BY <1>15 DEF BootReturns, linkVars, queryVars, deviceVars, Links, Operations
  <2>3. Queries'
    BY <1>15 DEF BootReturns, linkVars, queryVars, deviceVars, Queries, InfoIsOfItsSession
  <2>4. Installs'
    BY <1>15 DEF BootReturns, linkVars, queryVars, deviceVars, Installs, Image, SameDevice,
        Preparing, Comparing, TypeOK, InstallType, ResultType
  <2>5. Boots'
    BY <1>15 DEF BootReturns, NoBoot, Pending, linkVars, queryVars, deviceVars, Boots,
        TypeOK, BootType, InstallType, Starts
  <2>6. InstallIsTrue'
    BY <1>15 DEF BootReturns, linkVars, queryVars, deviceVars, InstallIsTrue, Image
  <2> QED BY <2>1, <2>2, <2>3, <2>4, <2>5, <2>6
<1>16. ASSUME Judge PROVE IInv'
  <2>0. install.at = "judge" /\ UNCHANGED <<linkVars, queryVars>>
    BY <1>16 DEF Judge
  <2>k. /\ install.before = install.previous /\ install.before # 0
        /\ Image(install.before).id # Nobody /\ Image(install.before).version # Expected
        /\ install.from = install.peer /\ install.from > install.before
        /\ Image(install.from).id = Image(install.before).id /\ Image(install.from).compatible
        /\ result.resets = 1
    BY <2>0 DEF Installs, Preparing, Comparing, SameDevice
  <2>a. ASSUME NEW st \in {"TargetConfirmed", "PreviousFirmware"}, Return(st),
               install.peer = peer, boot.state = "done", boot.settled,
               st = "TargetConfirmed" <=> Image(install.from).version = Expected
        PROVE  TypeOK' /\ Installs' /\ InstallIsTrue'
    <3>1. boot.from = install.from
      BY <2>a, <2>k DEF Boots, TypeOK, BootType, InstallType, Starts
    <3>2. /\ install' \in InstallType /\ boot' \in BootType /\ result' \in ResultType
          /\ install' = NoInstall /\ result'.state = st /\ result'.resets = 1
          /\ result'.before = install.before /\ result'.from = install.from
          /\ result'.boot = boot
      BY <2>a, <2>k, Returns
    <3>3. TypeOK'
      BY <2>0, <3>2 DEF TypeOK, linkVars, deviceVars, queryVars
    <3>4. install'.at = "idle" /\ install'.before = 0
      BY <3>2 DEF NoInstall
    <3>5. Installs'
      BY <3>4 DEF Installs, Preparing, Comparing
    <3>6. InstallIsTrue'
      BY <2>0, <2>a, <2>k, <3>1, <3>2, <3>4 DEF InstallIsTrue, Image, linkVars, deviceVars
    <3> QED BY <3>3, <3>5, <3>6
  <2>b. ASSUME /\ install' = [install EXCEPT !.at = "poll", !.peer = 0, !.from = 0]
               /\ boot' = NoBoot /\ UNCHANGED result
        PROVE  TypeOK' /\ Installs' /\ InstallIsTrue'
    <3>0. 0 \in Starts
      BY BootsAssumption DEF Starts
    <3>1. install' \in InstallType
      BY <2>b, <3>0, InstallMoves DEF TypeOK
    <3>2. TypeOK'
      BY <2>0, <2>b, <3>1, Nothings DEF TypeOK, linkVars, deviceVars, queryVars
    <3>3. install'.at = "poll" /\ install'.before = install.before /\ install'.previous = install.previous
      BY <2>b DEF TypeOK, InstallType
    <3>4. Installs'
      BY <2>0, <2>b, <3>3 DEF Installs, Preparing, Comparing, Image, linkVars, deviceVars
    <3>5. InstallIsTrue'
      BY <2>0, <2>b, <3>3 DEF InstallIsTrue, Image, linkVars, deviceVars
    <3> QED BY <3>2, <3>4, <3>5
  <2>1. TypeOK' /\ Installs' /\ InstallIsTrue'
    BY <1>16, <2>a, <2>b DEF Judge
  <2>2. Links' /\ Operations'
    BY <1>16 DEF Judge, linkVars, queryVars, deviceVars, Links, Operations
  <2>3. Queries'
    BY <1>16 DEF Judge, linkVars, queryVars, deviceVars, Queries, InfoIsOfItsSession
  <2>4. Installs'
    BY <2>1
  <2>5. Boots'
    BY <1>16 DEF Judge, Return, NoInstall, NoBoot, NoResult, linkVars, queryVars,
        deviceVars, TypeOK, Starts, BootType, InstallType, Links, Installs, Boots, Pending,
        Preparing, Comparing
  <2>6. InstallIsTrue'
    BY <2>1
  <2> QED BY <2>1, <2>2, <2>3, <2>4, <2>5, <2>6
<1>17. ASSUME DeadlinePasses PROVE IInv'
  <2>1. TypeOK'
    BY <1>17 DEF DeadlinePasses, linkVars, queryVars, deviceVars, TypeOK, InstallType
  <2>2. Links' /\ Operations'
    BY <1>17 DEF DeadlinePasses, linkVars, queryVars, deviceVars, Links, Operations
  <2>3. Queries'
    BY <1>17 DEF DeadlinePasses, linkVars, queryVars, deviceVars, Queries,
        InfoIsOfItsSession
  <2>4. Installs'
    BY <1>17 DEF DeadlinePasses, linkVars, queryVars, deviceVars, Installs, Image,
        SameDevice
  <2>5. Boots'
    BY <1>17 DEF DeadlinePasses, linkVars, queryVars, deviceVars, Boots
  <2>6. InstallIsTrue'
    BY <1>17 DEF DeadlinePasses, linkVars, queryVars, deviceVars, InstallIsTrue, Image
  <2> QED BY <2>1, <2>2, <2>3, <2>4, <2>5, <2>6
<1>18. ASSUME Observe PROVE IInv'
  <2>1. TypeOK'
    BY <1>18, Failing DEF Observe, Received, TypeOK, Starts, deviceVars, queryVars
  <2>2. Links' /\ Operations'
    BY <1>18 DEF Observe, Received, deviceVars, queryVars, Links, Operations, TypeOK,
        Starts, OpType
  <2>3. Queries'
    BY <1>18 DEF Observe, Received, deviceVars, queryVars, TypeOK, Starts, Links,
        Operations, Queries, InfoIsOfItsSession, OpType, QueryType, Free, Pending
  <2>4. Installs'
    BY <1>18 DEF Observe, Received, deviceVars, queryVars, TypeOK, Starts, Links, Queries,
        InfoIsOfItsSession, Installs, Preparing, Comparing, Image, SameDevice, InstallType,
        ResultType, QueryType
  <2>a. /\ UNCHANGED <<device, install>> /\ peer' = device /\ boot' \in {boot, Disconnected(boot)}
    BY <1>18 DEF Observe, Received, deviceVars
  <2>5. Boots'
    BY <2>a, Failing DEF TypeOK, Starts, BootType, InstallType, Links, Boots, NoBoot, Pending
  <2>6. InstallIsTrue'
    BY <1>18 DEF Observe, deviceVars, queryVars, InstallIsTrue, Image
  <2> QED BY <2>1, <2>2, <2>3, <2>4, <2>5, <2>6
<1>19. ASSUME BootAnswered PROVE IInv'
  <2>1. TypeOK'
    BY <1>19 DEF BootAnswered, linkVars, queryVars, deviceVars, TypeOK, Starts, BootType
  <2>2. Links' /\ Operations'
    BY <1>19 DEF BootAnswered, linkVars, queryVars, deviceVars, Links, Operations
  <2>3. Queries'
    BY <1>19 DEF BootAnswered, linkVars, queryVars, deviceVars, Queries, InfoIsOfItsSession
  <2>4. Installs'
    BY <1>19 DEF BootAnswered, linkVars, queryVars, deviceVars, Installs, Image, SameDevice
  <2>5. Boots'
    BY <1>19 DEF BootAnswered, linkVars, queryVars, deviceVars, TypeOK, Starts, BootType,
        InstallType, Links, Installs, Boots, NoBoot, Pending, Preparing, Comparing
  <2>6. InstallIsTrue'
    BY <1>19 DEF BootAnswered, linkVars, queryVars, deviceVars, InstallIsTrue, Image
  <2> QED BY <2>1, <2>2, <2>3, <2>4, <2>5, <2>6
<1>20. ASSUME BootArrives PROVE IInv'
  <2>1. TypeOK'
    BY <1>20, Failing DEF BootArrives, TypeOK, Starts, BootType, deviceVars, queryVars
  <2>a. /\ peer' = boot.from /\ peer <= peer' /\ peer' <= device /\ peer' \in Starts
        /\ UNCHANGED <<deviceVars, queryVars, install, result>>
    BY <1>20 DEF BootArrives, Boots, TypeOK, BootType, Starts
  <2>2. Links' /\ Operations'
    BY <2>a DEF TypeOK, Starts, Links, Operations, OpType, deviceVars, queryVars
  <2>3. Queries'
    BY <2>a DEF TypeOK, Starts, Queries, InfoIsOfItsSession, QueryType, OpType, queryVars
  <2>4. Installs'
    BY <2>a DEF TypeOK, Starts, InstallType, Installs, Image, SameDevice, deviceVars
  <2>5. Boots'
    BY <1>20 DEF BootArrives, Disconnected, NoBoot, Pending, deviceVars, queryVars, Boots,
        TypeOK, BootType, InstallType, Starts
  <2>6. InstallIsTrue'
    BY <1>20 DEF BootArrives, deviceVars, queryVars, InstallIsTrue, Image
  <2> QED BY <2>1, <2>2, <2>3, <2>4, <2>5, <2>6
<1>21. ASSUME BootFails PROVE IInv'
  <2>1. TypeOK'
    BY <1>21, Failing DEF BootFails, TypeOK, linkVars, queryVars, deviceVars
  <2>2. Links' /\ Operations'
    BY <1>21 DEF BootFails, linkVars, queryVars, deviceVars, Links, Operations
  <2>3. Queries'
    BY <1>21 DEF BootFails, linkVars, queryVars, deviceVars, Queries, InfoIsOfItsSession
  <2>4. Installs'
    BY <1>21 DEF BootFails, linkVars, queryVars, deviceVars, Installs, Image, SameDevice
  <2>5. Boots'
    BY <1>21 DEF BootFails, Disconnected, NoBoot, Pending, linkVars, queryVars, deviceVars,
        Boots, TypeOK, BootType, InstallType, Starts
  <2>6. InstallIsTrue'
    BY <1>21 DEF BootFails, linkVars, queryVars, deviceVars, InstallIsTrue, Image
  <2> QED BY <2>1, <2>2, <2>3, <2>4, <2>5, <2>6
<1>22. ASSUME NEW s \in Slots, InfoAnswered(s) PROVE IInv'
  <2>1. TypeOK'
    BY <1>22 DEF InfoAnswered, linkVars, installVars, deviceVars, TypeOK, Starts, OpType
  <2>2. Links' /\ Operations'
    BY <1>22 DEF InfoAnswered, linkVars, installVars, deviceVars, TypeOK, Starts, Links,
        Operations, OpType, Free, Pending
  <2>3. Queries'
    BY <1>22 DEF InfoAnswered, linkVars, installVars, deviceVars, TypeOK, Starts, Links,
        Operations, Queries, InfoIsOfItsSession, OpType, QueryType, Free, Pending
  <2>4. Installs'
    BY <1>22 DEF InfoAnswered, linkVars, installVars, deviceVars, Installs, Image,
        SameDevice
  <2>5. Boots'
    BY <1>22 DEF InfoAnswered, linkVars, installVars, deviceVars, Boots
  <2>6. InstallIsTrue'
    BY <1>22 DEF InfoAnswered, linkVars, installVars, deviceVars, InstallIsTrue, Image
  <2> QED BY <2>1, <2>2, <2>3, <2>4, <2>5, <2>6
<1>23. ASSUME NEW s \in Slots, InfoArrives(s) PROVE IInv'
  <2>1. TypeOK'
    BY <1>23, Failing DEF InfoArrives, Received, TypeOK, Starts, OpType, deviceVars
  <2>2. Links' /\ Operations'
    BY <1>23 DEF InfoArrives, Received, deviceVars, TypeOK, Starts, Links, Operations,
        OpType, Free, Pending
  <2>3. Queries'
    BY <1>23 DEF InfoArrives, Received, deviceVars, TypeOK, Starts, Links, Operations,
        Queries, InfoIsOfItsSession, OpType, QueryType, Free, Pending
  <2>a. /\ peer' = ops[s].from /\ peer <= peer' /\ peer' <= device /\ peer' \in Starts
        /\ UNCHANGED <<deviceVars, install, result>> /\ boot' \in {boot, Disconnected(boot)}
    BY <1>23 DEF InfoArrives, Received, Operations, TypeOK, OpType, Starts
  <2>4. Installs'
    BY <2>a DEF TypeOK, Starts, InstallType, Installs, Image, SameDevice, deviceVars
  <2>5. Boots'
    BY <2>a, Failing DEF TypeOK, Starts, BootType, InstallType, Links, Boots, NoBoot, Pending, deviceVars
  <2>6. InstallIsTrue'
    BY <1>23 DEF InfoArrives, deviceVars, InstallIsTrue, Image
  <2> QED BY <2>1, <2>2, <2>3, <2>4, <2>5, <2>6
<1>24. ASSUME NEW s \in Slots, InfoFails(s) PROVE IInv'
  <2>1. TypeOK'
    BY <1>24 DEF InfoFails, Pending, linkVars, installVars, deviceVars, TypeOK, Starts,
        OpType
  <2>2. Links' /\ Operations'
    BY <1>24 DEF InfoFails, Pending, linkVars, installVars, deviceVars, TypeOK, Starts,
        Links, Operations, OpType, Free
  <2>3. Queries'
    BY <1>24 DEF InfoFails, linkVars, installVars, deviceVars, Queries, InfoIsOfItsSession
  <2>4. Installs'
    BY <1>24 DEF InfoFails, linkVars, installVars, deviceVars, Installs, Image, SameDevice
  <2>5. Boots'
    BY <1>24 DEF InfoFails, linkVars, installVars, deviceVars, Boots
  <2>6. InstallIsTrue'
    BY <1>24 DEF InfoFails, linkVars, installVars, deviceVars, InstallIsTrue, Image
  <2> QED BY <2>1, <2>2, <2>3, <2>4, <2>5, <2>6
<1>25. ASSUME Restart PROVE IInv'
  <2>1. TypeOK'
    BY <1>25 DEF Restart, queryVars, installVars, TypeOK
  <2>2. Links' /\ Operations'
    BY <1>25 DEF Restart, queryVars, installVars, Links, Operations, TypeOK, Starts, OpType
  <2>3. Queries'
    BY <1>25 DEF Restart, queryVars, installVars, Queries, InfoIsOfItsSession
  <2>4. Installs'
    BY <1>25 DEF Restart, queryVars, installVars, Installs, Image, SameDevice
  <2>5. Boots'
    BY <1>25 DEF Restart, queryVars, installVars, Boots, NoBoot, TypeOK, BootType,
        InstallType, Starts
  <2>6. InstallIsTrue'
    BY <1>25 DEF Restart, queryVars, installVars, InstallIsTrue, Image
  <2> QED BY <2>1, <2>2, <2>3, <2>4, <2>5, <2>6
<1>26. ASSUME Confirm PROVE IInv'
  <2>1. TypeOK'
    BY <1>26 DEF Confirm, queryVars, installVars, TypeOK
  <2>2. Links' /\ Operations'
    BY <1>26 DEF Confirm, queryVars, installVars, Links, Operations
  <2>3. Queries'
    BY <1>26 DEF Confirm, queryVars, installVars, Queries, InfoIsOfItsSession
  <2>4. Installs'
    BY <1>26 DEF Confirm, queryVars, installVars, Installs, Image, SameDevice
  <2>5. Boots'
    BY <1>26 DEF Confirm, queryVars, installVars, Boots
  <2>6. InstallIsTrue'
    BY <1>26 DEF Confirm, queryVars, installVars, InstallIsTrue, Image
  <2> QED BY <2>1, <2>2, <2>3, <2>4, <2>5, <2>6
<1>27. ASSUME Stop PROVE IInv'
  <2>0. ops' \in [Slots -> OpType] /\ boot' \in BootType /\ boot' = Disconnected(boot)
    BY <1>27, Failing, BootsAssumption DEF Stop, TypeOK, OpType, Starts
  <2>1. TypeOK'
    BY <1>27, <2>0 DEF Stop, TypeOK, deviceVars
  <2>2. Links' /\ Operations'
    BY <1>27 DEF Stop, Pending, deviceVars, TypeOK, Starts, Links, Operations, OpType, Free
  <2>3. Queries'
    BY <1>27 DEF Stop, deviceVars, Queries, InfoIsOfItsSession, TypeOK, Starts, QueryType
  <2>4. Installs'
    BY <1>27 DEF Stop, deviceVars, Installs, Image, SameDevice
  <2>5. Boots'
    BY <1>27, <2>0, Failing DEF Stop, TypeOK, Starts, BootType, InstallType, Boots, NoBoot, Pending, deviceVars
  <2>6. InstallIsTrue'
    BY <1>27 DEF Stop, deviceVars, InstallIsTrue, Image
  <2> QED BY <2>1, <2>2, <2>3, <2>4, <2>5, <2>6
<1>28. ASSUME UNCHANGED vars PROVE IInv'
  BY <1>28 DEF vars, linkVars, deviceVars, queryVars, installVars, TypeOK, Links, Operations, Queries, InfoIsOfItsSession, Installs,
          Boots, InstallIsTrue, Image, SameDevice, Pending
<1> QED
  BY <1>1, <1>2, <1>3, <1>4, <1>5, <1>6, <1>7, <1>8, <1>9, <1>10, <1>11, <1>12, <1>13, <1>14, <1>15, <1>16, <1>17, <1>18, <1>19, <1>20, <1>21, <1>22, <1>23, <1>24, <1>25, <1>26, <1>27, <1>28
  DEF Next, QueryStep, InstallStep, LinkStep

\* At the start nothing is asked and nobody has answered.
LEMMA Initially == Init => IInv
<1> SUFFICES ASSUME Init PROVE IInv
  OBVIOUS
<1>1. TypeOK
  BY Nothings, BootsAssumption DEF Init, TypeOK, Starts
<1>2. Links /\ Operations /\ Queries
  BY BootsAssumption, SlotsAssumption DEF Init, Links, Operations, Queries, InfoIsOfItsSession, Free, NoQuery
<1>3. Installs /\ Boots /\ InstallIsTrue
  BY DEF Init, Installs, Boots, InstallIsTrue, NoBoot, NoInstall, NoResult, Pending, Preparing, Comparing
<1> QED BY <1>1, <1>2, <1>3 DEF IInv

\* The inductive invariant always holds.
LEMMA Always == Spec => []IInv
BY Initially, Inductive, PTL DEF Spec

\* s_deviceInfo: an answer is never tagged with another start's session, however
\* often the device restarts.
THEOREM InfoOfItsSession == Spec => []InfoIsOfItsSession
<1>1. IInv => InfoIsOfItsSession
  BY DEF IInv, Queries
<1> QED BY Always, <1>1, PTL

\* s_deviceInfo: polling leaves at most one operation in the endpoint.
THEOREM QueriesDoNotPileUp == Spec => []OneOutstandingQuery
<1>1. IInv => OneOutstandingQuery
  BY DEF IInv, Operations, OneOutstandingQuery
<1> QED BY Always, <1>1, PTL

\* rebootAndWait: a verdict is about one later start of the same device.
THEOREM InstallsTruly == Spec => []InstallIsTrue
<1>1. IInv => InstallIsTrue
  BY DEF IInv
<1> QED BY Always, <1>1, PTL

=============================================================================
