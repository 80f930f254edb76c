--------------------------- MODULE OutboundProofs ---------------------------
(* What the background work keeps, for any queue, any addresses and any    *)
(* devices: the types, the order of the events a receiver hears, and that  *)
(* a second reminder has a known cause.                                    *)
EXTENDS Outbound, SequenceTheorems, TLAPS

-----------------------------------------------------------------------------
(* The notifier.  What waits is newer than what is being delivered, and    *)
(* that is not older than what the receiver has heard.                     *)

InLine ==
    /\ \A i \in 1..Len(queue) :
          /\ queue[i] <= sent /\ queue[i] > heard /\ queue[i] > delivery.ev
          /\ \A j \in 1..Len(queue) : i < j => queue[i] < queue[j]
    /\ IF delivery.at = "free" THEN delivery = Free
       ELSE delivery.ev \in 1..sent /\ heard <= delivery.ev
    /\ heard <= sent

NInv == NTypeOK /\ InLine

LEMMA NInitInv == NInit => NInv
  BY NotifierAssumption DEF NInit, NInv, NTypeOK, InLine, Free

LEMMA SendKeeps ==
    ASSUME NInv, Send
    PROVE  NInv'
<1> DEFINE e == sent + 1
<1>1. sent \in Nat /\ e \in 1..MaxSend /\ sent' = e /\ queue \in Seq(1..MaxSend)
  BY NotifierAssumption DEF NInv, NTypeOK, Send
<1>2. CASE Len(queue) < Depth
  <2>1. /\ queue' = Append(queue, e)
        /\ queue' \in Seq(1..MaxSend)
        /\ Len(queue') = Len(queue) + 1
        /\ queue'[Len(queue) + 1] = e
        /\ \A i \in 1..Len(queue) : queue'[i] = queue[i]
    <3>1. queue' = Append(queue, sent')
      BY <1>2 DEF Send
    <3>2. queue' = Append(queue, e) /\ e \in 1..MaxSend /\ queue \in Seq(1..MaxSend)
      BY <1>1, <3>1
    <3> HIDE DEF e
    <3> QED BY <3>2, AppendProperties
  <2>2. UNCHANGED <<delivery, heard, settled>>
    BY <1>2 DEF Send
  <2>3. Len(queue) \in Nat
    BY <1>1, LenProperties
  <2>4. NTypeOK'
    BY <1>1, <1>2, <2>1, <2>2, <2>3, NotifierAssumption DEF NInv, NTypeOK
  <2>5. InLine'
    <3>1. \A i \in 1..Len(queue)' : i \in 1..Len(queue) \/ i = Len(queue) + 1
      BY <2>1, <2>3
    <3>2. heard < e /\ delivery.ev < e /\ heard \in Nat /\ delivery.ev \in Nat
      BY <1>1, NotifierAssumption DEF NInv, NTypeOK, InLine, Free
    <3>3. \A i \in 1..Len(queue) : queue[i] \in 1..MaxSend
      BY <1>1, ElementOfSeq
    <3> QED BY <1>1, <2>1, <2>2, <2>3, <3>1, <3>2, <3>3 DEF NInv, NTypeOK, InLine
  <2> QED BY <2>4, <2>5 DEF NInv
<1>3. CASE ~(Len(queue) < Depth)
  <2>1. sent' = e /\ settled' = settled \cup {e} /\ UNCHANGED <<queue, delivery, heard>>
    BY <1>1, <1>3 DEF Send
  <2>2. \A i \in 1..Len(queue) : queue[i] \in 1..MaxSend
    BY <1>1, ElementOfSeq
  <2>3. NTypeOK'
    BY <1>1, <2>1, NotifierAssumption DEF NInv, NTypeOK
  <2>4. InLine'
    BY <1>1, <2>1, <2>2, NotifierAssumption DEF NInv, NTypeOK, InLine
  <2> QED BY <2>3, <2>4 DEF NInv
<1> QED BY <1>2, <1>3

LEMMA ReceiveKeeps ==
    ASSUME NInv, Receive
    PROVE  NInv'
<1>1. queue \in Seq(1..MaxSend) /\ queue # <<>>
  BY DEF NInv, NTypeOK, Receive
<1>2. /\ queue[1] = Head(queue) /\ Head(queue) \in 1..MaxSend
      /\ Tail(queue) \in Seq(1..MaxSend)
      /\ Len(Tail(queue)) = Len(queue) - 1
      /\ \A i \in 1..Len(Tail(queue)) : Tail(queue)[i] = queue[i + 1]
      /\ Len(queue) \in Nat \ {0}
  <2>1. Head(queue) = queue[1]
    BY <1>1
  <2> QED BY <1>1, <2>1, HeadTailProperties, EmptySeq
<1>3. /\ queue' = Tail(queue)
      /\ delivery' = [ev |-> queue[1], attempt |-> 0, at |-> "post"]
      /\ UNCHANGED <<sent, heard, settled>>
  BY <1>2 DEF Receive
<1>4. \A i \in 1..Len(queue)' : i + 1 \in 1..Len(queue) /\ queue'[i] = queue[i + 1] /\ 1 < i + 1
  BY <1>2, <1>3
<1>5. 1 \in 1..Len(queue)
  BY <1>2
<1>6. NTypeOK'
  BY <1>2, <1>3, NotifierAssumption DEF NInv, NTypeOK
<1>7. InLine'
  BY <1>2, <1>3, <1>4, <1>5, NotifierAssumption DEF NInv, NTypeOK, InLine
<1> QED BY <1>6, <1>7 DEF NInv

LEMMA PostKeeps ==
    ASSUME NInv, NEW arrives \in BOOLEAN, NEW accepted \in BOOLEAN, Post(arrives, accepted)
    PROVE  NInv'
<1>1. /\ delivery.ev \in 1..sent /\ heard <= delivery.ev
      /\ delivery.ev \in 1..MaxSend /\ heard \in Nat /\ sent \in Nat
  BY NotifierAssumption DEF NInv, NTypeOK, InLine, Post
<1>2. heard' \in {heard, delivery.ev} /\ UNCHANGED <<sent, queue>>
  BY DEF Post
<1>3. \/ delivery' = Free /\ settled' = settled \cup {delivery.ev}
      \/ delivery' = [delivery EXCEPT !.at = "wait"] /\ UNCHANGED settled
  BY DEF Post
<1>4. NTypeOK'
  BY <1>1, <1>2, <1>3, NotifierAssumption DEF NInv, NTypeOK, Free
<1>5. \A i \in 1..Len(queue) : queue[i] \in 1..MaxSend
  BY ElementOfSeq DEF NInv, NTypeOK
<1>6. InLine'
  BY <1>1, <1>2, <1>3, <1>5 DEF NInv, NTypeOK, InLine, Free
<1> QED BY <1>4, <1>6 DEF NInv

LEMMA NNextKeeps ==
    ASSUME NInv, [NNext]_nvars
    PROVE  NInv'
<1>1. CASE Retry
  <2>1. /\ delivery'.ev = delivery.ev /\ delivery'.at = "post" /\ delivery.at = "wait"
        /\ UNCHANGED <<sent, queue, heard, settled>>
    BY <1>1 DEF NInv, NTypeOK, Retry
  <2>2. delivery'.attempt \in 0..Retries
    BY <1>1, NotifierAssumption DEF NInv, NTypeOK, Retry
  <2>3. NTypeOK'
    BY <1>1, <2>1, <2>2 DEF NInv, NTypeOK, Retry
  <2>4. InLine'
    BY <2>1 DEF NInv, InLine
  <2> QED BY <2>3, <2>4 DEF NInv
<1>2. CASE NRestart
  <2>1. NTypeOK'
    BY <1>2, NotifierAssumption DEF NInv, NTypeOK, NRestart, Free
  <2>2. InLine'
    BY <1>2 DEF NInv, NTypeOK, InLine, NRestart, Free
  <2> QED BY <2>1, <2>2 DEF NInv
<1>3. CASE UNCHANGED nvars
  BY <1>3 DEF NInv, NTypeOK, InLine, nvars
<1> QED BY <1>1, <1>2, <1>3, SendKeeps, ReceiveKeeps, PostKeeps DEF NNext, Works

LEMMA NNextInOrder ==
    ASSUME NInv, [NNext]_nvars
    PROVE  heard' >= heard
<1>1. heard \in Nat
  BY DEF NInv, NTypeOK
<1>2. ASSUME NEW arrives \in BOOLEAN, NEW accepted \in BOOLEAN, Post(arrives, accepted)
      PROVE  heard' >= heard
  BY <1>1, <1>2 DEF NInv, NTypeOK, InLine, Post
<1> QED BY <1>1, <1>2 DEF NNext, Works, Send, Receive, Retry, NRestart, nvars

(* What waits and what is being delivered is exactly what is not over.     *)
AInv == NInv /\ Accounted

LEMMA InitAccounted == NInit => Accounted
  BY DEF NInit, Accounted, Pending, Free

LEMMA SendAccounted ==
    ASSUME AInv, Send
    PROVE  Accounted' /\ Stream!Send
<1> DEFINE e == sent + 1
<1>1. sent \in Nat /\ sent' = e /\ queue \in Seq(1..MaxSend) /\ e \in 1..MaxSend
      /\ UNCHANGED <<delivery, heard>>
  BY NotifierAssumption DEF AInv, NInv, NTypeOK, Send
<1>2. Pending \subseteq 1..sent /\ settled \subseteq 1..sent
  BY DEF AInv, Accounted
<1>3. e \notin 1..sent /\ 1..e = (1..sent) \cup {e}
  BY <1>1
<1>4. CASE Len(queue) < Depth
  <2>1. queue' = Append(queue, e) /\ settled' = settled
    BY <1>1, <1>4 DEF Send
  <2>2. /\ Len(queue') = Len(queue) + 1 /\ Len(queue) \in Nat
        /\ queue'[Len(queue) + 1] = e
        /\ \A i \in 1..Len(queue) : queue'[i] = queue[i]
    <3> HIDE DEF e
    <3> QED BY <1>1, <2>1, AppendProperties, LenProperties
  <2>3. {queue'[i] : i \in 1..Len(queue')} = {queue[i] : i \in 1..Len(queue)} \cup {e}
    BY <2>2
  <2>4. Pending' = Pending \cup {e}
    BY <1>1, <2>3 DEF Pending
  <2>5. Accounted'
    BY <1>1, <1>2, <1>3, <2>1, <2>4 DEF AInv, Accounted
  <2> QED BY <1>1, <2>1, <2>5 DEF Stream!Send
<1>5. CASE ~(Len(queue) < Depth)
  <2>1. settled' = settled \cup {e} /\ queue' = queue
    BY <1>1, <1>5 DEF Send
  <2>2. Pending' = Pending
    BY <1>1, <2>1 DEF Pending
  <2>3. Accounted'
    BY <1>1, <1>2, <1>3, <2>1, <2>2 DEF AInv, Accounted
  <2> QED BY <1>1, <2>1, <2>3 DEF Stream!Send
<1> QED BY <1>4, <1>5

LEMMA ReceiveAccounted ==
    ASSUME AInv, Receive
    PROVE  Accounted' /\ UNCHANGED Stream!stream
<1>1. queue \in Seq(1..MaxSend) /\ queue # <<>> /\ delivery.ev = 0
  BY DEF AInv, NInv, NTypeOK, Receive, Free
<1>2. /\ queue[1] = Head(queue) /\ Head(queue) \in 1..MaxSend
      /\ Len(Tail(queue)) = Len(queue) - 1
      /\ \A i \in 1..Len(Tail(queue)) : Tail(queue)[i] = queue[i + 1]
      /\ Len(queue) \in Nat \ {0}
  <2>1. Head(queue) = queue[1]
    BY <1>1
  <2> QED BY <1>1, <2>1, HeadTailProperties, EmptySeq
<1>3. /\ queue' = Tail(queue) /\ delivery'.ev = queue[1]
      /\ UNCHANGED <<sent, heard, settled>>
  BY <1>2 DEF Receive
<1>4. queue[1] # 0
  BY <1>2, NotifierAssumption
<1>5. \A i \in 2..Len(queue) : i - 1 \in 1..Len(Tail(queue)) /\ queue[i] = Tail(queue)[i - 1]
  BY <1>2
<1>6. Pending' = Pending
  <2>1. ASSUME NEW e \in Pending PROVE e \in Pending'
    <3>1. PICK i \in 1..Len(queue) : e = queue[i]
      BY <1>1, <2>1 DEF Pending
    <3>2. CASE i = 1
      BY <1>3, <1>4, <3>1, <3>2 DEF Pending
    <3>3. CASE i # 1
      <4>1. i \in 2..Len(queue)
        BY <1>2, <3>1, <3>3
      <4> QED BY <1>3, <1>5, <3>1, <4>1 DEF Pending
    <3> QED BY <3>2, <3>3
  <2>2. ASSUME NEW e \in Pending' PROVE e \in Pending
    <3>1. e = queue[1] \/ \E i \in 1..Len(Tail(queue)) : e = Tail(queue)[i]
      BY <1>3, <2>2 DEF Pending
    <3>2. \A i \in 1..Len(Tail(queue)) : i + 1 \in 1..Len(queue)
      BY <1>2
    <3>3. 1 \in 1..Len(queue)
      BY <1>2
    <3> QED BY <1>2, <3>1, <3>2, <3>3 DEF Pending
  <2> QED BY <2>1, <2>2
<1>7. Accounted'
  BY <1>3, <1>6 DEF AInv, Accounted
<1> QED BY <1>3, <1>7 DEF Stream!stream

LEMMA PostAccounted ==
    ASSUME AInv, NEW arrives \in BOOLEAN, NEW accepted \in BOOLEAN, Post(arrives, accepted)
    PROVE  Accounted' /\ (Stream!Next \/ UNCHANGED Stream!stream)
<1> DEFINE e == delivery.ev
<1>1. /\ e \in 1..sent /\ heard <= e /\ e # 0 /\ e \in Pending /\ sent \in Nat
      /\ UNCHANGED <<sent, queue>>
  BY NotifierAssumption DEF AInv, NInv, NTypeOK, InLine, Post, Pending
<1>2. \A i \in 1..Len(queue) : queue[i] # e
  BY NotifierAssumption DEF AInv, NInv, NTypeOK, InLine
<1>3. e \notin settled
  BY <1>1 DEF AInv, Accounted
<1>4. \/ delivery'.ev = 0 /\ settled' = settled \cup {e}
      \/ delivery'.ev = e /\ settled' = settled
  BY DEF Post, Free, AInv, NInv, NTypeOK
<1>5. Accounted'
  <2>1. CASE delivery'.ev = 0 /\ settled' = settled \cup {e}
    <3>1. Pending' = Pending \ {e}
      BY <1>1, <1>2, <2>1 DEF Pending
    <3> QED BY <1>1, <2>1, <3>1 DEF AInv, Accounted
  <2>2. CASE delivery'.ev = e /\ settled' = settled
    <3>1. Pending' = Pending
      BY <1>1, <2>2 DEF Pending
    <3> QED BY <1>1, <2>2, <3>1 DEF AInv, Accounted
  <2> QED BY <1>4, <2>1, <2>2
<1>6. settled' \in {settled, settled \cup {e}}
  BY <1>4
<1>7. CASE arrives
  <2>1. heard' = e
    BY <1>7 DEF Post
  <2>2. Stream!Hear(e)
    BY <1>1, <1>3, <1>6, <2>1 DEF Stream!Hear
  <2> QED BY <1>1, <1>5, <2>2 DEF Stream!Next
<1>8. CASE ~arrives
  <2>1. heard' = heard
    BY <1>8 DEF Post
  <2>2. Stream!End({e}) \/ Stream!End({})
    BY <1>1, <1>6, <2>1 DEF Stream!End
  <2>3. {e} \in SUBSET (1..sent) /\ {} \in SUBSET (1..sent)
    BY <1>1
  <2> HIDE DEF e
  <2> QED BY <1>5, <2>2, <2>3 DEF Stream!Next
<1> QED BY <1>7, <1>8

LEMMA NNextAccounted ==
    ASSUME AInv, [NNext]_nvars
    PROVE  Accounted' /\ (Stream!Next \/ UNCHANGED Stream!stream)
<1>1. CASE Send
  BY <1>1, SendAccounted DEF Stream!Next
<1>2. CASE Receive
  BY <1>2, ReceiveAccounted
<1>3. CASE Retry
  <2>1. delivery'.ev = delivery.ev /\ UNCHANGED <<sent, queue, heard, settled>>
    BY <1>3 DEF Retry
  <2> QED BY <2>1 DEF AInv, Accounted, Pending, Stream!stream
<1>4. CASE NRestart
  <2>1. settled' = 1..sent /\ queue' = <<>> /\ delivery'.ev = 0 /\ UNCHANGED <<sent, heard>>
    BY <1>4 DEF NRestart, Free
  <2>2. Pending' = {}
    BY <2>1 DEF Pending
  <2>3. Accounted'
    BY <2>1, <2>2 DEF Accounted
  <2>4. Stream!End(1..sent)
    BY <2>1 DEF Stream!End, AInv, Accounted
  <2> QED BY <2>3, <2>4 DEF Stream!Next
<1>5. CASE UNCHANGED nvars
  BY <1>5 DEF nvars, AInv, Accounted, Pending, Stream!stream
<1> QED BY <1>1, <1>2, <1>3, <1>4, <1>5, PostAccounted DEF NNext, Works
-----------------------------------------------------------------------------
(* The walled garden. *)

LEMMA GInitTypes == GInit => GTypeOK
<1> SUFFICES ASSUME GInit PROVE GTypeOK
  OBVIOUS
<1>1. exists \in BOOLEAN
  BY Zenon DEF GInit
<1>2. refresh \in [at : {"boot", "tick", "add", "remove"}, add : SUBSET Ips, rem : SUBSET Ips]
  BY DEF GInit, Refresh
<1> QED BY <1>1, <1>2, GardenAssumption DEF GInit, GTypeOK

LEMMA GNextTypes ==
    ASSUME GTypeOK, [GNext]_gvars
    PROVE  GTypeOK'
<1> USE GardenAssumption DEF GTypeOK, Refresh, NftFails
<1>1. CASE Ensure
  <2>1. exists' \in BOOLEAN
    BY <1>1, Zenon DEF Ensure
  <2>2. failures' \in 0..GardenFaults
    BY <1>1 DEF Ensure
  <2>3. UNCHANGED <<garden, lastIPs>> /\ refresh' = Refresh("tick", {}, {})
    BY <1>1 DEF Ensure
  <2> QED BY <2>1, <2>2, <2>3
<1>2. ASSUME NEW ips \in SUBSET Ips, Resolve(ips) PROVE GTypeOK'
  BY <1>2 DEF Resolve
<1>3. CASE AddIPs
  BY <1>3 DEF AddIPs
<1>4. CASE RemoveIPs
  BY <1>4 DEF RemoveIPs
<1>5. ASSUME NEW ip \in Ips, Timeout(ip) PROVE GTypeOK'
  BY <1>5 DEF Timeout
<1>6. ASSUME NEW reboot \in BOOLEAN, GRestart(reboot) PROVE GTypeOK'
  BY <1>6 DEF GRestart
<1>7. CASE UNCHANGED gvars
  BY <1>7 DEF gvars
<1> QED BY <1>1, <1>2, <1>3, <1>4, <1>5, <1>6, <1>7 DEF GNext

(* What a refresh has still to do is about what was resolved last.         *)
InHand ==
    refresh.at \in {"add", "remove"} =>
        refresh.add \subseteq lastIPs /\ refresh.rem \cap lastIPs = {}

GInv == GTypeOK /\ InHand

LEMMA GInitInv == GInit => GInv
  BY GInitTypes DEF GInv, GInit, InHand, Refresh

LEMMA GNextFollows ==
    ASSUME GInv, [GNext]_gvars
    PROVE  /\ InHand'
           /\ garden' \subseteq garden \cup lastIPs
           /\ refresh.at = "remove" /\ refresh'.at = "tick" =>
                  garden \cap lastIPs \subseteq garden'
<1> USE DEF GInv, GTypeOK, InHand, Refresh
<1>1. CASE Ensure
  BY <1>1 DEF Ensure
<1>2. ASSUME NEW ips \in SUBSET Ips, Resolve(ips) PROVE InHand' /\ UNCHANGED garden
  BY <1>2 DEF Resolve
<1>3. CASE AddIPs
  <2>1. /\ refresh'.at = "remove" /\ refresh'.add = refresh.add /\ refresh'.rem = refresh.rem
        /\ refresh.at = "add" /\ lastIPs' = lastIPs /\ garden' \subseteq garden \cup refresh.add
    BY <1>3 DEF AddIPs
  <2> QED BY <2>1
<1>4. CASE RemoveIPs
  <2>1. /\ refresh'.at = "tick" /\ refresh.at = "remove"
        /\ garden' \subseteq garden /\ garden \ refresh.rem \subseteq garden'
    BY <1>4 DEF RemoveIPs
  <2> QED BY <2>1
<1>5. ASSUME NEW ip \in Ips, Timeout(ip)
      PROVE  UNCHANGED <<lastIPs, refresh>> /\ garden' \subseteq garden
             /\ refresh.at \in {"boot", "tick"}
  BY <1>5 DEF Timeout
<1>6. ASSUME NEW reboot \in BOOLEAN, GRestart(reboot)
      PROVE  refresh'.at = "boot" /\ garden' \subseteq garden
  BY <1>6 DEF GRestart
<1>7. CASE UNCHANGED gvars
  BY <1>7 DEF gvars
<1>8. ASSUME NEW ips \in SUBSET Ips, Resolve(ips) PROVE refresh.at = "tick"
  BY <1>8 DEF Resolve
<1> QED BY <1>1, <1>2, <1>3, <1>4, <1>5, <1>6, <1>7, <1>8 DEF GNext
-----------------------------------------------------------------------------
(* The reminders.  An owner who has been texted once without a cause to be *)
(* texted again is protected: by the row in the trail when no pass has the *)
(* device in hand, by the one pass that is about to write it otherwise.    *)

OneInHand ==
    \A p \in Passes : \A m \in pass[p].cur : pass[p].cur = {m} /\ m \notin pass[p].todo

Protected(m) ==
    \/ newer[m] >= 0 /\ \A p \in Passes : ~Holds(p, m)
    \/ \E p \in Passes : /\ pass[p].at = "row" /\ m \in pass[p].cur
                        /\ \A q \in Passes : Holds(q, m) => q = p

OnceIsProtected == \A m \in Macs : texts[m] >= 1 => m \in cause \/ Protected(m)

RInv == RTypeOK /\ OneInHand /\ OnceIsProtected /\ TwiceHasACause

LEMMA RInitInv == RInit => RInv
  BY RemindersAssumption DEF RInit, RInv, RTypeOK, OneInHand, OnceIsProtected, TwiceHasACause,
     Idle, Passes

(* Steps that leave the passes alone and write or drop rows.               *)
LEMMA RowTypes ==
    ASSUME RInv, NEW S \in SUBSET Macs
    PROVE  /\ WithRow(S) \in [Macs -> -1..Keep]
           /\ \A m \in Macs : newer[m] >= 0 => WithRow(S)[m] >= 0
           /\ \A m \in S : WithRow(S)[m] = 0
  BY RemindersAssumption DEF RInv, RTypeOK, WithRow

LEMMA ListDueKeeps ==
    ASSUME RInv, NEW p \in Passes, ListDue(p)
    PROVE  RInv'
<1>1. pass' = [pass EXCEPT ![p] = [at |-> "next", todo |-> Eligible, cur |-> {}]]
  BY DEF ListDue
<1>2. pass[p] = Idle /\ Eligible \in SUBSET Macs
  BY DEF ListDue, RInv, RTypeOK, Eligible
<1>3. UNCHANGED <<due, mute, newer, texts, mishaps>>
  BY DEF ListDue
<1>4. cause' = cause \cup {m \in Eligible : \E o \in Passes : pass[o].at = "row" /\ m \in pass[o].cur}
  BY DEF ListDue
<1>5. RTypeOK'
  BY <1>1, <1>2, <1>3, <1>4 DEF RInv, RTypeOK, Idle
<1>6. OneInHand'
  BY <1>1 DEF RInv, RTypeOK, OneInHand
<1>7. TwiceHasACause'
  BY <1>3, <1>4 DEF RInv, TwiceHasACause
<1>8. OnceIsProtected'
  <2> SUFFICES ASSUME NEW m \in Macs, texts'[m] >= 1, m \notin cause'
               PROVE  Protected(m)'
    BY DEF OnceIsProtected
  <2>1. Protected(m)
    BY <1>3, <1>4 DEF RInv, OnceIsProtected
  <2>2. m \notin Eligible
    BY <2>1, <1>4 DEF Protected, Eligible, RInv, RTypeOK
  <2>3. \A q \in Passes : Holds(q, m)' <=> Holds(q, m)
    BY <1>1, <1>2, <2>2 DEF Holds, Idle, RInv, RTypeOK
  <2>4. \A q \in Passes : q # p => pass'[q] = pass[q]
    BY <1>1 DEF RInv, RTypeOK
  <2>5. pass[p].at # "row"
    BY <1>2 DEF Idle
  <2> QED BY <1>3, <2>1, <2>3, <2>4, <2>5 DEF Protected
<1> QED BY <1>5, <1>6, <1>7, <1>8 DEF RInv

LEMMA LookUpKeeps ==
    ASSUME RInv, NEW p \in Passes, NEW m \in Macs, LookUp(p, m)
    PROVE  RInv'
<1>1. pass[p].at = "next" /\ m \in pass[p].todo /\ pass[p].cur = {}
  BY DEF LookUp, RInv, RTypeOK
<1>2. \/ pass' = [pass EXCEPT ![p] = [at |-> "send", todo |-> @.todo \ {m}, cur |-> {m}]]
      \/ pass' = [pass EXCEPT ![p].todo = @ \ {m}]
  BY DEF LookUp
<1>3. UNCHANGED <<due, mute, newer, texts, cause>> /\ mishaps' \in 0..Mishaps
  BY RemindersAssumption DEF LookUp, Mishap, RInv, RTypeOK
<1>4. RTypeOK'
  BY <1>1, <1>2, <1>3 DEF RInv, RTypeOK
<1>5. OneInHand'
  BY <1>1, <1>2 DEF RInv, RTypeOK, OneInHand
<1>6. TwiceHasACause'
  BY <1>3 DEF RInv, TwiceHasACause
<1>7. OnceIsProtected'
  <2> SUFFICES ASSUME NEW x \in Macs, texts'[x] >= 1, x \notin cause'
               PROVE  Protected(x)'
    BY DEF OnceIsProtected
  <2>1. Protected(x)
    BY <1>3 DEF RInv, OnceIsProtected
  <2>2. x # m
    BY <2>1, <1>1 DEF Protected, Holds
  <2>3. \A q \in Passes : Holds(q, x)' <=> Holds(q, x)
    BY <1>1, <1>2, <2>2 DEF Holds, RInv, RTypeOK
  <2>4. \A q \in Passes : q # p => pass'[q] = pass[q]
    BY <1>2 DEF RInv, RTypeOK
  <2> QED BY <1>1, <1>3, <2>1, <2>3, <2>4 DEF Protected
<1> QED BY <1>4, <1>5, <1>6, <1>7 DEF RInv

LEMMA SendTextKeeps ==
    ASSUME RInv, NEW p \in Passes, NEW m \in Macs,
           NEW arrives \in BOOLEAN, NEW accepted \in BOOLEAN,
           SendText(p, m, arrives, accepted)
    PROVE  RInv'
<1>1. pass[p].at = "send" /\ pass[p].cur = {m} /\ UNCHANGED <<due, mute, mishaps>>
  BY DEF SendText
<1>0. pass[p] = [at |-> "send", todo |-> pass[p].todo, cur |-> {m}] /\ pass[p].todo \in SUBSET Macs
  BY <1>1 DEF RInv, RTypeOK
<1>2. \/ accepted /\ pass' = [pass EXCEPT ![p].at = "row"] /\ UNCHANGED newer
      \/ ~accepted /\ pass' = Step(p) /\ newer' = WithRow({})
  BY DEF SendText
<1>3. texts' = IF arrives /\ texts[m] < 2 THEN [texts EXCEPT ![m] = @ + 1] ELSE texts
  BY DEF SendText
<1>4. cause' = IF arrives /\ (~accepted \/ Holding(m) # {p}) THEN cause \cup {m} ELSE cause
  BY DEF SendText
<1>5. RTypeOK'
  <2>1. newer' \in [Macs -> -1..Keep]
    BY <1>2, RowTypes DEF RInv, RTypeOK
  <2>2. texts' \in [Macs -> 0..2] /\ cause' \subseteq Macs
    BY <1>3, <1>4 DEF RInv, RTypeOK
  <2>4. CASE pass' = [pass EXCEPT ![p].at = "row"]
    BY <1>0, <1>1, <2>1, <2>2, <2>4 DEF RInv, RTypeOK, Idle
  <2>5. CASE pass' = Step(p)
    BY <1>0, <1>1, <2>1, <2>2, <2>5 DEF RInv, RTypeOK, Step, Idle
  <2> QED BY <1>2, <2>4, <2>5
<1>6. OneInHand'
  BY <1>1, <1>2 DEF RInv, RTypeOK, OneInHand, Step
<1>7. texts[m] >= 1 => m \in cause
  <2> SUFFICES ASSUME texts[m] >= 1, m \notin cause PROVE FALSE
    OBVIOUS
  <2>1. Protected(m)
    BY DEF RInv, OnceIsProtected
  <2>2. Holds(p, m)
    BY <1>0 DEF Holds
  <2>3. PICK q \in Passes : pass[q].at = "row" /\ (\A o \in Passes : Holds(o, m) => o = q)
    BY <2>1, <2>2 DEF Protected
  <2>4. p = q
    BY <2>2, <2>3
  <2> QED BY <1>1, <2>3, <2>4
<1>8. TwiceHasACause'
  BY <1>3, <1>4, <1>7 DEF RInv, RTypeOK, TwiceHasACause
<1>9. OnceIsProtected'
  <2> SUFFICES ASSUME NEW x \in Macs, texts'[x] >= 1, x \notin cause'
               PROVE  Protected(x)'
    BY DEF OnceIsProtected
  <2>1. CASE x = m
    <3>1. texts[m] = 0
      BY <2>1, <1>4, <1>7 DEF RInv, RTypeOK
    <3>2. arrives /\ accepted /\ Holding(m) = {p}
      BY <2>1, <3>1, <1>3, <1>4 DEF RInv, RTypeOK
    <3>3. pass' = [pass EXCEPT ![p].at = "row"]
      BY <1>2, <3>2
    <3>4. \A q \in Passes : Holds(q, m) => q = p
      BY <3>2 DEF Holding
    <3>5. \A q \in Passes : Holds(q, m)' => q = p
      BY <3>3, <3>4 DEF Holds, RInv, RTypeOK
    <3>6. pass'[p] = [pass[p] EXCEPT !.at = "row"]
      BY <3>3, Zenon DEF RInv, RTypeOK
    <3>7. pass'[p].at = "row" /\ m \in pass'[p].cur
      BY <3>6, <1>0
    <3> QED BY <2>1, <3>5, <3>7 DEF Protected
  <2>2. CASE x # m
    <3>1. Protected(x)
      BY <2>2, <1>3, <1>4 DEF RInv, RTypeOK, OnceIsProtected
    <3>2. \A q \in Passes : Holds(q, x)' <=> Holds(q, x)
      BY <1>1, <1>2, <2>2 DEF Holds, Step, RInv, RTypeOK
    <3>3. \A q \in Passes : q # p => pass'[q] = pass[q]
      BY <1>2 DEF Step, RInv, RTypeOK
    <3>4. newer[x] >= 0 => newer'[x] >= 0
      BY <1>2, RowTypes
    <3>5. CASE newer[x] >= 0 /\ \A q \in Passes : ~Holds(q, x)
      BY <3>2, <3>4, <3>5 DEF Protected
    <3>6. CASE \E o \in Passes : /\ pass[o].at = "row" /\ x \in pass[o].cur
                                /\ \A q \in Passes : Holds(q, x) => q = o
      <4>1. PICK o \in Passes : /\ pass[o].at = "row" /\ x \in pass[o].cur
                               /\ \A q \in Passes : Holds(q, x) => q = o
        BY <3>6
      <4>2. pass'[o] = pass[o]
        BY <1>1, <3>3, <4>1
      <4> QED BY <3>2, <4>1, <4>2 DEF Protected
    <3> QED BY <3>1, <3>5, <3>6 DEF Protected
  <2> QED BY <2>1, <2>2
<1> QED BY <1>5, <1>6, <1>8, <1>9 DEF RInv

LEMMA WriteRowKeeps ==
    ASSUME RInv, NEW p \in Passes, NEW m \in Macs, WriteRow(p, m)
    PROVE  RInv'
<1>1. /\ pass[p].at = "row" /\ pass[p].cur = {m} /\ pass' = Step(p)
      /\ UNCHANGED <<due, mute, texts>>
  BY DEF WriteRow
<1>2. \/ newer' = WithRow({m}) /\ UNCHANGED <<cause, mishaps>>
      \/ /\ mishaps' = mishaps - 1 /\ mishaps > 0
         /\ cause' = cause \cup {m} /\ UNCHANGED newer
  BY DEF WriteRow, Mishap
<1>3. RTypeOK'
  <2>1. newer' \in [Macs -> -1..Keep]
    BY <1>2, RowTypes DEF RInv, RTypeOK
  <2> QED BY <1>1, <1>2, <2>1, RemindersAssumption DEF RInv, RTypeOK, Step
<1>4. OneInHand'
  BY <1>1 DEF RInv, RTypeOK, OneInHand, Step
<1>5. TwiceHasACause'
  BY <1>1, <1>2 DEF RInv, TwiceHasACause
<1>6. OnceIsProtected'
  <2> SUFFICES ASSUME NEW x \in Macs, texts'[x] >= 1, x \notin cause'
               PROVE  Protected(x)'
    BY DEF OnceIsProtected
  <2>1. Protected(x)
    BY <1>1, <1>2 DEF RInv, OnceIsProtected
  <2>2. \A q \in Passes : q # p => pass'[q] = pass[q]
    BY <1>1 DEF Step, RInv, RTypeOK
  <2>3. pass'[p].cur = {} /\ pass'[p].todo = pass[p].todo
    BY <1>1 DEF Step, RInv, RTypeOK
  <2>4. CASE x = m
    <3>1. newer'[x] >= 0
      BY <1>2, <2>4, RowTypes
    <3>2. Holds(p, m) /\ \A q \in Passes : Holds(q, m) => q = p
      BY <2>1, <2>4, <1>1 DEF Protected, Holds
    <3>3. \A q \in Passes : ~Holds(q, m)'
      BY <2>2, <2>3, <3>2, <1>1 DEF Holds, RInv, OneInHand
    <3> QED BY <2>4, <3>1, <3>3 DEF Protected
  <2>5. CASE x # m
    <3>1. \A q \in Passes : Holds(q, x)' <=> Holds(q, x)
      BY <2>2, <2>3, <2>5, <1>1 DEF Holds
    <3>2. newer[x] >= 0 => newer'[x] >= 0
      BY <1>2, RowTypes
    <3>3. x \notin pass[p].cur
      BY <2>5, <1>1
    <3> QED BY <2>1, <2>2, <3>1, <3>2, <3>3 DEF Protected
  <2> QED BY <2>4, <2>5
<1> QED BY <1>3, <1>4, <1>5, <1>6 DEF RInv

LEMMA PassEndsKeeps ==
    ASSUME RInv, NEW p \in Passes, PassEnds(p)
    PROVE  RInv'
<1>1. /\ pass[p].at = "next" /\ pass[p].todo = {} /\ pass[p].cur = {}
      /\ pass' = [pass EXCEPT ![p] = Idle]
      /\ UNCHANGED <<due, mute, texts, cause, mishaps>>
  BY DEF PassEnds, RInv, RTypeOK
<1>2. newer' = newer \/ newer' = WithRow({})
  BY DEF PassEnds
<1>3. /\ newer' \in [Macs -> -1..Keep]
      /\ \A x \in Macs : newer[x] >= 0 => newer'[x] >= 0
  BY <1>2, RowTypes DEF RInv, RTypeOK
<1>4. RTypeOK'
  BY <1>1, <1>3 DEF RInv, RTypeOK, Idle
<1>5. OneInHand'
  BY <1>1 DEF RInv, RTypeOK, OneInHand, Idle
<1>6. \A q \in Passes, x \in Macs : Holds(q, x)' <=> Holds(q, x)
  BY <1>1 DEF Holds, Idle, RInv, RTypeOK
<1>7. \A q \in Passes : q # p => pass'[q] = pass[q]
  BY <1>1 DEF RInv, RTypeOK
<1>8. OnceIsProtected'
  BY <1>1, <1>3, <1>6, <1>7 DEF RInv, OnceIsProtected, Protected
<1>9. TwiceHasACause'
  BY <1>1 DEF RInv, TwiceHasACause
<1> QED BY <1>4, <1>5, <1>8, <1>9 DEF RInv

LEMMA CutShortKeeps ==
    ASSUME RInv, NEW ps \in SUBSET Passes, CutShort(ps)
    PROVE  RInv'
<1>1. /\ pass' = [p \in Passes |-> IF p \in ps THEN Idle ELSE pass[p]]
      /\ mishaps' = mishaps - 1 /\ mishaps > 0
      /\ UNCHANGED <<due, mute, newer, texts>>
  BY DEF CutShort, Mishap
<1>2. cause' = cause \cup UNION {pass[p].cur : p \in {q \in ps : pass[q].at = "row"}}
  BY DEF CutShort
<1>3. RTypeOK'
  BY <1>1, <1>2, RemindersAssumption DEF RInv, RTypeOK, Idle
<1>4. OneInHand'
  BY <1>1 DEF RInv, RTypeOK, OneInHand, Idle
<1>5. TwiceHasACause'
  BY <1>1, <1>2 DEF RInv, TwiceHasACause
<1>6. OnceIsProtected'
  <2> SUFFICES ASSUME NEW x \in Macs, texts'[x] >= 1, x \notin cause'
               PROVE  Protected(x)'
    BY DEF OnceIsProtected
  <2>1. Protected(x)
    BY <1>1, <1>2 DEF RInv, OnceIsProtected
  <2>2. \A q \in ps : pass[q].at = "row" => x \notin pass[q].cur
    BY <1>2
  <2>3. \A q \in Passes : Holds(q, x)' => Holds(q, x)
    BY <1>1 DEF Holds, Idle
  <2>4. \A q \in Passes \ ps : pass'[q] = pass[q]
    BY <1>1
  <2> QED BY <1>1, <2>1, <2>2, <2>3, <2>4 DEF Protected
<1> QED BY <1>3, <1>4, <1>5, <1>6 DEF RInv

(* What happens around the passes.                                         *)
LEMMA AroundKeeps ==
    ASSUME RInv, UNCHANGED <<pass, mishaps>>,
           due' \subseteq Macs, mute' \subseteq due', cause' \subseteq Macs,
           newer' \in [Macs -> -1..Keep], texts' \in [Macs -> 0..2],
           \A m \in Macs : \/ texts'[m] = 0
                           \/ m \in cause'
                           \/ /\ texts'[m] = texts[m] /\ (m \in cause => m \in cause')
                              /\ newer[m] >= 0 => newer'[m] >= 0
    PROVE  RInv'
<1>1. RTypeOK'
  BY DEF RInv, RTypeOK
<1>2. OneInHand'
  BY DEF RInv, OneInHand
<1>3. \A m \in Macs : newer[m] >= 0 /\ newer'[m] >= 0 /\ Protected(m) => Protected(m)'
  BY DEF Protected, Holds
<1>4. \A m \in Macs : ~(newer[m] >= 0) /\ Protected(m) => Protected(m)'
  BY DEF Protected, Holds
<1>5. OnceIsProtected'
  BY <1>3, <1>4 DEF RInv, RTypeOK, OnceIsProtected
<1>6. TwiceHasACause'
  BY DEF RInv, RTypeOK, TwiceHasACause
<1> QED BY <1>1, <1>2, <1>5, <1>6 DEF RInv

LEMMA RNextKeeps ==
    ASSUME RInv, [RNext]_rvars
    PROVE  RInv'
<1>1. CASE OtherRow
  BY <1>1, RowTypes, AroundKeeps DEF OtherRow, RInv, RTypeOK
<1>2. ASSUME NEW m \in Macs, ForeignReminder(m) PROVE RInv'
  BY <1>2, RowTypes, AroundKeeps DEF ForeignReminder, RInv, RTypeOK
<1>3. CASE Trim
  <2>1. newer' \in [Macs -> -1..Keep] /\ cause' \subseteq Macs
    BY <1>3, RemindersAssumption DEF Trim, RInv, RTypeOK
  <2>2. \A m \in Macs : newer[m] >= 0 => newer'[m] >= 0 \/ texts[m] = 0 \/ m \in cause'
    BY <1>3 DEF Trim, RInv, RTypeOK
  <2> QED BY <1>3, <2>1, <2>2, AroundKeeps DEF Trim, RInv, RTypeOK
<1>4. ASSUME NEW m \in Macs, Forget(m) PROVE RInv'
  BY <1>4, AroundKeeps DEF Forget, RInv, RTypeOK
<1>5. ASSUME NEW m \in Macs, RowAges(m) PROVE RInv'
  BY <1>5, RemindersAssumption, AroundKeeps DEF RowAges, RInv, RTypeOK
<1>6. ASSUME NEW m \in Macs, DueChanges(m) \/ MuteChanges(m) PROVE RInv'
  BY <1>6, AroundKeeps DEF DueChanges, MuteChanges, RInv, RTypeOK
<1>7. CASE UNCHANGED rvars
  BY <1>7, AroundKeeps DEF rvars, RInv, RTypeOK
<1>8. CASE CutShort(Passes) \/ CutShort({"manual"})
  BY <1>8, CutShortKeeps DEF Passes
<1> QED BY <1>1, <1>2, <1>3, <1>4, <1>5, <1>6, <1>7, <1>8,
           ListDueKeeps, LookUpKeeps, SendTextKeeps, WriteRowKeeps, PassEndsKeeps
           DEF RNext, Goes
-----------------------------------------------------------------------------
(* The three together. *)

IInv == NInv /\ GTypeOK /\ RInv /\ part \in Parts

LEMMA InitIInv == Init => IInv
  BY NInitInv, GInitTypes, RInitInv DEF Init, IInv

LEMMA NextParts ==
    ASSUME [Next]_vars
    PROVE  [NNext]_nvars /\ [GNext]_gvars /\ [RNext]_rvars /\ UNCHANGED part
  BY DEF Next, Notify, Garden, Remind, Alone, vars

LEMMA NextKeeps == IInv /\ [Next]_vars => IInv'
<1> SUFFICES ASSUME IInv, [Next]_vars PROVE IInv'
  OBVIOUS
<1> QED BY NextParts, NNextKeeps, GNextTypes, RNextKeeps DEF IInv

LEMMA AlwaysIInv == Spec => []IInv
  BY InitIInv, NextKeeps, PTL DEF Spec

(* The variables of all three keep their types.                            *)
THEOREM OutboundTypes == Spec => []TypeOK
<1>1. IInv => TypeOK
  BY DEF IInv, NInv, RInv, TypeOK
<1> QED BY <1>1, AlwaysIInv, PTL

(* The receiver hears events in the order of their Send, whatever it       *)
(* accepts and whenever the process restarts (deliver).                    *)
THEOREM EventsInOrder == Spec => HeardInOrder
<1>1. IInv /\ [Next]_vars => [heard' >= heard]_nvars
  BY NextParts, NNextInOrder DEF IInv
<1> QED BY <1>1, AlwaysIInv, PTL DEF Spec, HeardInOrder

(* A second text within 22 hours has one of the known causes               *)
(* (sendExpiryReminders).                                                  *)
THEOREM TwiceExplained == Spec => []TwiceHasACause
<1>1. IInv => TwiceHasACause
  BY DEF IInv, RInv
<1> QED BY <1>1, AlwaysIInv, PTL

LEMMA AccountedStep ==
    ASSUME IInv, Accounted, [Next]_vars
    PROVE  Accounted' /\ (Stream!Next \/ UNCHANGED Stream!stream)
  BY NextParts, NNextAccounted DEF IInv, AInv

(* Every event is over, or waits, or is being delivered (Send, Run,        *)
(* deliver): none is forgotten, and what is over is not delivered again.   *)
THEOREM EventsAccounted == Spec => []Accounted
<1>1. Init => Accounted
  BY InitAccounted DEF Init
<1>2. IInv /\ Accounted /\ [Next]_vars => Accounted'
  BY AccountedStep
<1> QED BY <1>1, <1>2, AlwaysIInv, PTL DEF Spec

(* Queue, retries, answers that come too late and restarts implement the   *)
(* stream of events (internal/notify/webhook.go).                          *)
THEOREM ImplementsStream == Spec => KeepsTheStream
<1>1. Init => Stream!Init
  BY DEF Init, NInit, Stream!Init
<1>2. IInv /\ Accounted /\ [Next]_vars => [Stream!Next]_(Stream!stream)
  BY AccountedStep
<1> QED BY <1>1, <1>2, AlwaysIInv, EventsAccounted, PTL DEF Spec, KeepsTheStream, Stream!Spec

LEMMA AlwaysInHand == Spec => []InHand
<1>1. Init => InHand
  BY GInitInv DEF Init, GInv
<1>2. IInv /\ InHand /\ [Next]_vars => InHand'
  BY NextParts, GNextFollows DEF IInv, GInv
<1> QED BY <1>1, <1>2, AlwaysIInv, PTL DEF Spec

(* For any addresses, resolutions, failures and restarts the set takes in  *)
(* nothing but what was resolved last, and a refresh takes none of that    *)
(* out (internal/walledgarden).                                            *)
THEOREM GardenIsFollowed == Spec => GardenFollows
<1>1. IInv /\ InHand /\ [Next]_vars =>
        [/\ garden' \subseteq garden \cup lastIPs
         /\ refresh.at = "remove" /\ refresh'.at = "tick" =>
                garden \cap lastIPs \subseteq garden']_gvars
  BY NextParts, GNextFollows DEF IInv, GInv
<1> QED BY <1>1, AlwaysIInv, AlwaysInHand, PTL DEF Spec, GardenFollows
=============================================================================
