---------------------------- MODULE PayWaitProofs ----------------------------
(* The channel map of the long poll holds no stray channel, for any number *)
(* of browsers.  NoStrayChannel is inductive together with TypeOK.         *)
EXTENDS PayWait, TLAPS

IInv == TypeOK /\ NoStrayChannel

LEMMA InitIInv == Init => IInv
<1> SUFFICES ASSUME Init PROVE IInv
  OBVIOUS
<1>1. TypeOK
  BY DEF Init, TypeOK, OrderStatus, Places, Answers, NoFin
<1>2. NoStrayChannel
  BY DEF Init, NoStrayChannel
<1> QED BY <1>1, <1>2 DEF IInv

(* A waiter that leaves takes its channel with it, wherever it is.         *)
LEMMA LeaveKeeps ==
    ASSUME IInv, NEW w \in Waiters, NEW a \in Answers, Leave(w, a),
           UNCHANGED <<paid, fin>>, st' \in OrderStatus
    PROVE  IInv'
<1>1. TypeOK'
  BY DEF IInv, TypeOK, Leave, Goto, Places
<1>2. NoStrayChannel'
  BY DEF IInv, TypeOK, NoStrayChannel, Leave, Goto, InLoop, Places
<1> QED BY <1>1, <1>2 DEF IInv

(* One that moves on keeps its channel, provided it stays in the loop or   *)
(* has none.                                                               *)
LEMMA StayKeeps ==
    ASSUME IInv, NEW w \in Waiters, NEW place \in Places, Stay(w, place),
           place \in InLoop \/ w \notin reg \cup ch \cup chs,
           UNCHANGED paid, st' \in OrderStatus,
           fin' \in [by : Waiters \cup {Other}, pc : {"free", "grant", "signal", "send"}]
    PROVE  IInv'
<1>1. TypeOK'
  BY DEF IInv, TypeOK, Stay, Goto
<1>2. NoStrayChannel'
  BY DEF IInv, TypeOK, NoStrayChannel, Stay, Goto, InLoop
<1> QED BY <1>1, <1>2 DEF IInv

(* The steps of a waiter.                                                  *)
LEMMA WaiterKeeps ==
    ASSUME IInv, NEW w \in Waiters,
           \/ Request(w) \/ Look(w) \/ WaitFor(w) \/ Woken(w) \/ Tick(w)
           \/ Query(w) \/ Again(w) \/ Deadline(w) \/ Disconnect(w)
    PROVE  IInv'
<1>1. CASE Request(w)
  BY <1>1 DEF IInv, TypeOK, NoStrayChannel, Request, Goto, InLoop, Places, Answers
<1>2. CASE Look(w)
  <2>1. CASE st = "paid"
    BY <1>2, <2>1, LeaveKeeps DEF Look, IInv, TypeOK, Answers
  <2>2. CASE st # "paid"
    <3>1. w \notin reg \cup ch \cup chs
      BY <1>2 DEF Look, IInv, NoStrayChannel, InLoop
    <3> QED BY <1>2, <2>2, <3>1, StayKeeps DEF Look, IInv, TypeOK, Places
  <2> QED BY <2>1, <2>2
<1>3. CASE WaitFor(w)
  <2>1. w \notin reg \cup ch \cup chs
    BY <1>3 DEF WaitFor, IInv, NoStrayChannel, InLoop
  <2>2. TypeOK'
    BY <1>3 DEF IInv, TypeOK, WaitFor, Goto, Places
  <2>3. NoStrayChannel'
    BY <1>3, <2>1 DEF IInv, TypeOK, NoStrayChannel, WaitFor, Goto, InLoop
  <2> QED BY <2>2, <2>3 DEF IInv
<1>4. CASE Woken(w)
  <2>1. CASE st = "paid"
    BY <1>4, <2>1, LeaveKeeps DEF Woken, IInv, TypeOK, Answers
  <2>2. CASE st # "paid"
    BY <1>4, <2>2 DEF Woken, IInv, TypeOK, NoStrayChannel
  <2> QED BY <2>1, <2>2
<1>5. CASE Tick(w)
  <2>1. CASE st = "paid"
    BY <1>5, <2>1, LeaveKeeps DEF Tick, IInv, TypeOK, Answers
  <2>2. CASE st # "paid"
    BY <1>5, <2>2, StayKeeps DEF Tick, IInv, TypeOK, Places, InLoop
  <2> QED BY <2>1, <2>2
<1>6. CASE Query(w)
  BY <1>6, StayKeeps DEF Query, IInv, TypeOK, Places, InLoop, OrderStatus
<1>7. CASE Again(w)
  <2>1. CASE st = "paid"
    BY <1>7, <2>1, LeaveKeeps DEF Again, IInv, TypeOK, Answers
  <2>2. CASE st # "paid"
    BY <1>7, <2>2, StayKeeps DEF Again, IInv, TypeOK, Places, InLoop
  <2> QED BY <2>1, <2>2
<1>8. CASE Deadline(w)
  BY <1>8, LeaveKeeps DEF Deadline, IInv, TypeOK, Answers
<1>9. CASE Disconnect(w)
  BY <1>9, LeaveKeeps DEF Disconnect, IInv, TypeOK, Answers
<1> QED BY <1>1, <1>2, <1>3, <1>4, <1>5, <1>6, <1>7, <1>8, <1>9

(* The end of finalizeOrder sends the waiter that ran it back to its loop. *)
LEMMA ReleaseKeeps ==
    ASSUME IInv, Release
    PROVE  /\ pc' \in [Waiters -> Places]
           /\ fin' \in [by : Waiters \cup {Other}, pc : {"free", "grant", "signal", "send"}]
           /\ \A w \in Waiters : pc[w] \in InLoop => pc'[w] \in InLoop
  BY DEF IInv, TypeOK, Release, NoFin, Places, InLoop

(* The steps of finalizeOrder, of the customer and the administrator.      *)
LEMMA OthersKeep ==
    ASSUME IInv,
           Finalize \/ Grant \/ SignalTake \/ SignalSend \/ CustomerPays \/ Administer
    PROVE  IInv'
<1>1. CASE Finalize
  BY <1>1 DEF Finalize, IInv, TypeOK, NoStrayChannel, OrderStatus
<1>2. CASE Grant
  <2>1. CASE fin' = [fin EXCEPT !.pc = "signal"] /\ UNCHANGED pc
    BY <1>2, <2>1 DEF Grant, IInv, TypeOK, NoStrayChannel
  <2>2. CASE Release
    BY <1>2, <2>2, ReleaseKeeps DEF Grant, IInv, TypeOK, NoStrayChannel
  <2> QED BY <1>2, <2>1, <2>2 DEF Grant
<1>3. CASE SignalTake
  BY <1>3 DEF SignalTake, IInv, TypeOK, NoStrayChannel
<1>4. CASE SignalSend
  <2>1. TypeOK'
    BY <1>4, ReleaseKeeps DEF SignalSend, IInv, TypeOK
  <2>2. NoStrayChannel'
    BY <1>4, ReleaseKeeps DEF SignalSend, IInv, TypeOK, NoStrayChannel
  <2> QED BY <2>1, <2>2 DEF IInv
<1>5. CASE CustomerPays
  BY <1>5 DEF CustomerPays, IInv, TypeOK, NoStrayChannel
<1>6. CASE Administer
  BY <1>6 DEF Administer, IInv, TypeOK, NoStrayChannel, OrderStatus
<1> QED BY <1>1, <1>2, <1>3, <1>4, <1>5, <1>6

LEMMA NextIInv == IInv /\ [Next]_vars => IInv'
<1> SUFFICES ASSUME IInv, [Next]_vars PROVE IInv'
  OBVIOUS
<1>1. CASE \E w \in Waiters :
             \/ Request(w) \/ Look(w) \/ WaitFor(w) \/ Woken(w) \/ Tick(w)
             \/ Query(w) \/ Again(w) \/ Deadline(w) \/ Disconnect(w)
  BY <1>1, WaiterKeeps
<1>2. CASE Finalize \/ Grant \/ SignalTake \/ SignalSend \/ CustomerPays \/ Administer
  BY <1>2, OthersKeep
<1>3. CASE UNCHANGED vars
  BY <1>3 DEF vars, IInv, TypeOK, NoStrayChannel
<1> QED BY <1>1, <1>2, <1>3 DEF Next

LEMMA IInvHolds == Spec => []IInv
  BY InitIInv, NextIInv, PTL DEF Spec

(* The order, the waiters and the channel map keep their types.            *)
THEOREM WaitTypes == Spec => []TypeOK
<1>1. IInv => TypeOK
  BY DEF IInv
<1> QED BY <1>1, IInvHolds, PTL

(* A channel in the map of handlePayWait, or on its way out of it, belongs *)
(* to a request that is still in its loop, and is in one place only.       *)
THEOREM NoChannelStrays == Spec => []NoStrayChannel
<1>1. IInv => NoStrayChannel
  BY DEF IInv
<1> QED BY <1>1, IInvHolds, PTL
-----------------------------------------------------------------------------
(* Who runs finalizeOrder, and what browsers are told.                     *)

FInv == IInv /\ OneFinalizer /\ ToldIsTrue

LEMMA InitFInv == Init => FInv
<1> SUFFICES ASSUME Init PROVE FInv
  OBVIOUS
<1>1. OneFinalizer
  BY DEF Init, OneFinalizer, NoFin
<1>2. ToldIsTrue
  BY DEF Init, ToldIsTrue, NoFin, Received
<1> QED BY <1>1, <1>2, InitIInv DEF FInv

(* A waiter moves on outside finalizeOrder, and is told the truth.         *)
LEMMA MoveKeepsF ==
    ASSUME FInv, NEW w \in Waiters, NEW place \in Places \ {"busy"}, Goto(w, place),
           pc[w] # "busy", UNCHANGED <<st, paid, fin>>,
           ch' \subseteq ch, chs' \subseteq chs,
           NEW a \in Answers, ans' = [ans EXCEPT ![w] = a], a = "paid" => st = "paid"
    PROVE  OneFinalizer' /\ ToldIsTrue'
<1>1. \A v \in Waiters : pc'[v] = "busy" <=> pc[v] = "busy"
  BY DEF FInv, IInv, TypeOK, Goto
<1>2. OneFinalizer'
  BY <1>1 DEF FInv, OneFinalizer
<1>3. \A v \in Waiters : ans'[v] = "paid" => ans[v] = "paid" \/ st = "paid"
  BY DEF FInv, IInv, TypeOK
<1>4. ToldIsTrue'
  BY <1>3 DEF FInv, ToldIsTrue, Received
<1> QED BY <1>2, <1>4

LEMMA LeaveKeepsF ==
    ASSUME FInv, NEW w \in Waiters, NEW a \in Answers, Leave(w, a), pc[w] # "busy",
           UNCHANGED <<st, paid, fin>>, a = "paid" => st = "paid"
    PROVE  OneFinalizer' /\ ToldIsTrue'
<1>1. "away" \in Places \ {"busy"} /\ Goto(w, "away") /\ ans' = [ans EXCEPT ![w] = a]
      /\ ch' \subseteq ch /\ chs' \subseteq chs
  BY DEF Leave, Places
<1> QED BY <1>1, MoveKeepsF

LEMMA StayKeepsF ==
    ASSUME FInv, NEW w \in Waiters, NEW place \in Places \ {"busy"}, Stay(w, place),
           pc[w] # "busy", UNCHANGED <<st, paid, fin>>
    PROVE  OneFinalizer' /\ ToldIsTrue'
<1>1. \A v \in Waiters : pc'[v] = "busy" <=> pc[v] = "busy"
  BY DEF FInv, IInv, TypeOK, Stay, Goto
<1>2. OneFinalizer'
  BY <1>1 DEF FInv, OneFinalizer
<1>3. ToldIsTrue'
  BY DEF FInv, ToldIsTrue, Stay
<1> QED BY <1>2, <1>3

LEMMA WaiterKeepsF ==
    ASSUME FInv, NEW w \in Waiters,
           \/ Request(w) \/ Look(w) \/ WaitFor(w) \/ Woken(w) \/ Tick(w)
           \/ Query(w) \/ Again(w) \/ Deadline(w) \/ Disconnect(w)
    PROVE  OneFinalizer' /\ ToldIsTrue'
<1> USE DEF Answers, Places
<1>1. CASE Request(w)
  BY <1>1, MoveKeepsF DEF Request
<1>2. CASE Look(w)
  BY <1>2, LeaveKeepsF, StayKeepsF DEF Look
<1>3. CASE WaitFor(w)
  <2>1. \A v \in Waiters : pc'[v] = "busy" <=> pc[v] = "busy"
    BY <1>3 DEF FInv, IInv, TypeOK, WaitFor, Goto
  <2> QED BY <1>3, <2>1 DEF FInv, OneFinalizer, ToldIsTrue, WaitFor
<1>4. CASE Woken(w)
  <2>1. CASE st = "paid"
    BY <1>4, <2>1, LeaveKeepsF DEF Woken
  <2>2. CASE st # "paid"
    BY <1>4, <2>2 DEF Woken, FInv, OneFinalizer, ToldIsTrue
  <2> QED BY <2>1, <2>2
<1>5. CASE Tick(w)
  BY <1>5, LeaveKeepsF, StayKeepsF DEF Tick
<1>6. CASE Query(w)
  <2>1. CASE Stay(w, "again") /\ UNCHANGED <<st, fin>>
    BY <1>6, <2>1, StayKeepsF DEF Query
  <2>2. CASE /\ paid /\ fin.pc = "free" /\ st' = "paid"
             /\ fin' = [by |-> w, pc |-> "grant"] /\ Stay(w, "busy")
    <3>1. \A v \in Waiters : pc[v] # "busy"
      BY <2>2 DEF FInv, OneFinalizer
    <3>2. \A v \in Waiters : pc'[v] = "busy" <=> v = w
      BY <2>2, <3>1 DEF FInv, IInv, TypeOK, Stay, Goto
    <3>3. OneFinalizer'
      BY <2>2, <3>2 DEF OneFinalizer
    <3>4. ToldIsTrue'
      BY <1>6, <2>2 DEF Query, ToldIsTrue, Received
    <3> QED BY <3>3, <3>4
  <2> QED BY <1>6, <2>1, <2>2 DEF Query
<1>7. CASE Again(w)
  BY <1>7, LeaveKeepsF, StayKeepsF DEF Again
<1>8. CASE Deadline(w)
  BY <1>8, LeaveKeepsF DEF Deadline
<1>9. CASE Disconnect(w)
  BY <1>9, LeaveKeepsF DEF Disconnect
<1> QED BY <1>1, <1>2, <1>3, <1>4, <1>5, <1>6, <1>7, <1>8, <1>9

(* When finalizeOrder ends, nobody is left in it.                          *)
LEMMA ReleaseKeepsF ==
    ASSUME FInv, Release, fin.pc # "free"
    PROVE  OneFinalizer'
<1>1. \A w \in Waiters : pc'[w] # "busy"
  BY DEF FInv, IInv, TypeOK, OneFinalizer, Release
<1> QED BY <1>1 DEF Release, OneFinalizer, NoFin

LEMMA OthersKeepF ==
    ASSUME FInv,
           Finalize \/ Grant \/ SignalTake \/ SignalSend \/ CustomerPays \/ Administer
    PROVE  OneFinalizer' /\ ToldIsTrue'
<1>1. CASE Finalize
  <2>1. OneFinalizer'
    BY <1>1, OtherIsNoWaiter DEF Finalize, FInv, OneFinalizer
  <2>2. ToldIsTrue'
    BY <1>1 DEF Finalize, ToldIsTrue, Received
  <2> QED BY <2>1, <2>2
<1>2. CASE Grant
  <2>1. CASE fin' = [fin EXCEPT !.pc = "signal"] /\ UNCHANGED pc
    <3>1. fin'.by = fin.by /\ fin'.pc = "signal" /\ fin.pc # "free"
      BY <1>2, <2>1 DEF Grant, FInv, IInv, TypeOK
    <3>2. OneFinalizer'
      BY <2>1, <3>1 DEF FInv, OneFinalizer
    <3>3. ToldIsTrue'
      BY <1>2, <3>1 DEF Grant, FInv, ToldIsTrue
    <3> QED BY <3>2, <3>3
  <2>2. CASE Release
    <3>1. OneFinalizer'
      BY <1>2, <2>2, ReleaseKeepsF DEF Grant
    <3>2. ToldIsTrue'
      BY <1>2, <2>2 DEF Grant, Release, NoFin, FInv, ToldIsTrue
    <3> QED BY <3>1, <3>2
  <2> QED BY <1>2, <2>1, <2>2 DEF Grant
<1>3. CASE SignalTake
  <2>1. fin'.by = fin.by /\ fin'.pc = "send" /\ fin.pc # "free"
    BY <1>3 DEF SignalTake, FInv, IInv, TypeOK
  <2>2. OneFinalizer'
    BY <1>3, <2>1 DEF SignalTake, FInv, OneFinalizer
  <2>3. ToldIsTrue'
    BY <1>3, <2>1 DEF SignalTake, FInv, ToldIsTrue
  <2> QED BY <2>2, <2>3
<1>4. CASE SignalSend
  <2>1. OneFinalizer'
    BY <1>4, ReleaseKeepsF DEF SignalSend
  <2>2. ToldIsTrue'
    BY <1>4 DEF SignalSend, Release, NoFin, FInv, ToldIsTrue
  <2> QED BY <2>1, <2>2
<1>5. CASE CustomerPays
  BY <1>5 DEF CustomerPays, FInv, OneFinalizer, ToldIsTrue
<1>6. CASE Administer
  BY <1>6 DEF Administer, FInv, OneFinalizer, ToldIsTrue, Received
<1> QED BY <1>1, <1>2, <1>3, <1>4, <1>5, <1>6

LEMMA NextFInv == FInv /\ [Next]_vars => FInv'
<1> SUFFICES ASSUME FInv, [Next]_vars PROVE OneFinalizer' /\ ToldIsTrue'
  BY NextIInv DEF FInv
<1>1. CASE \E w \in Waiters :
             \/ Request(w) \/ Look(w) \/ WaitFor(w) \/ Woken(w) \/ Tick(w)
             \/ Query(w) \/ Again(w) \/ Deadline(w) \/ Disconnect(w)
  BY <1>1, WaiterKeepsF
<1>2. CASE Finalize \/ Grant \/ SignalTake \/ SignalSend \/ CustomerPays \/ Administer
  BY <1>2, OthersKeepF
<1>3. CASE UNCHANGED vars
  BY <1>3 DEF vars, FInv, OneFinalizer, ToldIsTrue
<1> QED BY <1>1, <1>2, <1>3 DEF Next

LEMMA FInvHolds == Spec => []FInv
  BY InitFInv, NextFInv, PTL DEF Spec

(* The waiter in finalizeOrder is the one that runs it: no browser is left *)
(* behind in it, whatever way it ends (queryOrder, finalizeOrder).         *)
THEOREM NobodyIsLeftBehind == Spec => []OneFinalizer
<1>1. FInv => OneFinalizer
  BY DEF FInv
<1> QED BY <1>1, FInvHolds, PTL

(* For any number of browsers, none is told and none is woken but for an   *)
(* order the provider was paid for (handlePayWait, signalOrder).           *)
THEOREM NobodyIsMisled == Spec => []ToldIsTrue
<1>1. FInv => ToldIsTrue
  BY DEF FInv
<1> QED BY <1>1, FInvHolds, PTL
=============================================================================
