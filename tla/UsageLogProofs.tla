--------------------------- MODULE UsageLogProofs ---------------------------
(***************************************************************************)
(* For any number of records and any sizes of channel and batch: the types *)
(* of UsageLog, that each record is accounted for once, and that the       *)
(* collector implements UsageAccount.                                      *)
(***************************************************************************)
EXTENDS UsageLog, SequenceTheorems, TLAPS

Increasing(s) == \A i, j \in 1..Len(s) : i < j => s[i] < s[j]
Before(s, t) == \A a \in ToSet(s), b \in ToSet(t) : a < b

InOrder ==
  /\ Increasing(table) /\ Increasing(buffer) /\ Increasing(channel)
  /\ Before(table, buffer) /\ Before(table, channel) /\ Before(buffer, channel)

Held == ToSet(table) \cup ToSet(buffer) \cup ToSet(channel)
Lost == dropped \cup failed
Accounted == Held = (1..spawned) \ Lost /\ Lost \subseteq 1..spawned

(* A batch that is full leaves "select" at once.                           *)
HasRoom == collector = "select" => Len(buffer) < BatchSize

LogInv == TypeOK /\ HasRoom /\ InOrder /\ Accounted
-----------------------------------------------------------------------------
LEMMA AppendFacts ==
  ASSUME NEW S \in SUBSET Nat, NEW s \in Seq(S), NEW e \in S
  PROVE  /\ Append(s, e) \in Seq(S)
         /\ Len(Append(s, e)) = Len(s) + 1
         /\ ToSet(Append(s, e)) = ToSet(s) \cup {e}
         /\ Increasing(s) /\ (\A a \in ToSet(s) : a < e) => Increasing(Append(s, e))
<1>1. /\ Append(s, e) \in Seq(S)
      /\ Len(Append(s, e)) = Len(s) + 1
      /\ Append(s, e)[Len(s) + 1] = e
      /\ \A i \in 1..Len(s) : Append(s, e)[i] = s[i]
  OBVIOUS
<1>2. /\ DOMAIN s = 1..Len(s)
      /\ DOMAIN Append(s, e) = 1..(Len(s) + 1)
  BY <1>1
<1>3. ToSet(Append(s, e)) = ToSet(s) \cup {e}
  BY <1>1, <1>2 DEF ToSet
<1>4. ASSUME Increasing(s), \A a \in ToSet(s) : a < e
      PROVE  Increasing(Append(s, e))
  <2> SUFFICES ASSUME NEW i \in 1..(Len(s) + 1), NEW j \in 1..(Len(s) + 1), i < j
               PROVE  Append(s, e)[i] < Append(s, e)[j]
    BY <1>1 DEF Increasing
  <2>1. i \in 1..Len(s)  OBVIOUS
  <2>2. CASE j = Len(s) + 1  BY <1>1, <1>2, <1>4, <2>1, <2>2 DEF ToSet
  <2>3. CASE j # Len(s) + 1  BY <1>1, <1>4, <2>1, <2>3 DEF Increasing
  <2> QED  BY <2>2, <2>3
<1> QED  BY <1>1, <1>3, <1>4

LEMMA HeadFacts ==
  ASSUME NEW S \in SUBSET Nat, NEW s \in Seq(S), s # <<>>
  PROVE  /\ Head(s) \in S
         /\ Tail(s) \in Seq(S)
         /\ Len(Tail(s)) = Len(s) - 1
         /\ ToSet(s) = ToSet(Tail(s)) \cup {Head(s)}
         /\ Increasing(s) => Increasing(Tail(s)) /\ \A b \in ToSet(Tail(s)) : Head(s) < b
<1>1. /\ Head(s) = s[1] /\ Head(s) \in S
      /\ Tail(s) \in Seq(S)
      /\ Len(s) \in Nat \ {0}
      /\ Len(Tail(s)) = Len(s) - 1
      /\ \A i \in 1..(Len(s) - 1) : Tail(s)[i] = s[i + 1]
  BY HeadTailProperties
<1>2. /\ DOMAIN s = 1..Len(s)
      /\ DOMAIN Tail(s) = 1..(Len(s) - 1)
  BY <1>1
<1>3. \A i \in 1..Len(s) : i = 1 \/ (i - 1 \in 1..(Len(s) - 1) /\ s[i] = Tail(s)[i - 1])
  BY <1>1
<1>4. ToSet(s) = ToSet(Tail(s)) \cup {Head(s)}
  <2>1. ToSet(s) \subseteq ToSet(Tail(s)) \cup {Head(s)}
    <3> SUFFICES ASSUME NEW i \in 1..Len(s)
                 PROVE  s[i] \in ToSet(Tail(s)) \cup {Head(s)}
      BY <1>2 DEF ToSet
    <3>1. CASE i = 1  BY <1>1, <3>1
    <3>2. CASE i # 1  BY <1>2, <1>3, <3>2 DEF ToSet
    <3> QED  BY <3>1, <3>2
  <2>2. ToSet(Tail(s)) \cup {Head(s)} \subseteq ToSet(s)
    BY <1>1, <1>2 DEF ToSet
  <2> QED  BY <2>1, <2>2
<1>5. Increasing(s) => Increasing(Tail(s))
  BY <1>1 DEF Increasing
<1>6. Increasing(s) => \A b \in ToSet(Tail(s)) : Head(s) < b
  BY <1>1, <1>2 DEF Increasing, ToSet
<1> QED  BY <1>1, <1>4, <1>5, <1>6

LEMMA ConcatFacts ==
  ASSUME NEW S \in SUBSET Nat, NEW s \in Seq(S), NEW t \in Seq(S)
  PROVE  /\ s \o t \in Seq(S)
         /\ ToSet(s \o t) = ToSet(s) \cup ToSet(t)
         /\ Increasing(s \o t) <=> Increasing(s) /\ Increasing(t) /\ Before(s, t)
<1> DEFINE u == s \o t
<1>1. /\ u \in Seq(S)
      /\ Len(u) = Len(s) + Len(t)
      /\ \A i \in 1..Len(s) : u[i] = s[i]
      /\ \A i \in 1..Len(t) : u[Len(s) + i] = t[i]
  BY ConcatProperties
<1>2. /\ Len(s) \in Nat /\ Len(t) \in Nat
      /\ DOMAIN s = 1..Len(s) /\ DOMAIN t = 1..Len(t)
      /\ DOMAIN u = 1..(Len(s) + Len(t))
  BY <1>1
<1>3. \A i \in 1..(Len(s) + Len(t)) :
         \/ i \in 1..Len(s) /\ u[i] = s[i]
         \/ i > Len(s) /\ i - Len(s) \in 1..Len(t) /\ u[i] = t[i - Len(s)]
  BY <1>2, ConcatProperties
<1> HIDE DEF u
<1>4. ToSet(u) = ToSet(s) \cup ToSet(t)
  <2>1. ToSet(u) \subseteq ToSet(s) \cup ToSet(t)
    BY <1>2, <1>3 DEF ToSet
  <2>2. ToSet(s) \subseteq ToSet(u)
    BY <1>1, <1>2 DEF ToSet
  <2>3. ToSet(t) \subseteq ToSet(u)
    <3> SUFFICES ASSUME NEW i \in 1..Len(t) PROVE t[i] \in ToSet(u)
      BY <1>2 DEF ToSet
    <3>1. Len(s) + i \in DOMAIN u  BY <1>2
    <3> QED  BY <1>1, <3>1 DEF ToSet
  <2> QED  BY <2>1, <2>2, <2>3
<1>5. ASSUME Increasing(u) PROVE Increasing(s) /\ Increasing(t) /\ Before(s, t)
  <2>1. Increasing(s)  BY <1>1, <1>2, <1>5 DEF Increasing
  <2>2. Increasing(t)
    <3> SUFFICES ASSUME NEW i \in 1..Len(t), NEW j \in 1..Len(t), i < j
                 PROVE  t[i] < t[j]
      BY DEF Increasing
    <3>1. Len(s) + i \in 1..Len(u) /\ Len(s) + j \in 1..Len(u) /\ Len(s) + i < Len(s) + j
      BY <1>1, <1>2
    <3>2. u[Len(s) + i] < u[Len(s) + j]  BY <1>5, <3>1 DEF Increasing
    <3> QED  BY <1>1, <3>2
  <2>3. Before(s, t)
    <3> SUFFICES ASSUME NEW i \in 1..Len(s), NEW j \in 1..Len(t)
                 PROVE  s[i] < t[j]
      BY <1>2 DEF Before, ToSet
    <3>1. i \in 1..Len(u) /\ Len(s) + j \in 1..Len(u) /\ i < Len(s) + j
      BY <1>1, <1>2
    <3>2. u[i] < u[Len(s) + j]  BY <1>5, <3>1 DEF Increasing
    <3> QED  BY <1>1, <3>2
  <2> QED  BY <2>1, <2>2, <2>3
<1>6. ASSUME Increasing(s), Increasing(t), Before(s, t) PROVE Increasing(u)
  <2> SUFFICES ASSUME NEW i \in 1..Len(u), NEW j \in 1..Len(u), i < j
               PROVE  u[i] < u[j]
    BY DEF Increasing
  <2>1. CASE j \in 1..Len(s)
    BY <1>1, <1>2, <1>6, <2>1 DEF Increasing
  <2>2. CASE i \in 1..Len(s) /\ j > Len(s)
    <3>1. j - Len(s) \in 1..Len(t) /\ u[j] = t[j - Len(s)] /\ u[i] = s[i]
      BY <1>1, <1>2, <1>3, <2>2
    <3>2. s[i] \in ToSet(s) /\ t[j - Len(s)] \in ToSet(t)
      BY <1>2, <2>2, <3>1 DEF ToSet
    <3> QED  BY <1>6, <3>1, <3>2 DEF Before
  <2>3. CASE i > Len(s)
    <3>1. /\ i - Len(s) \in 1..Len(t) /\ u[i] = t[i - Len(s)]
          /\ j - Len(s) \in 1..Len(t) /\ u[j] = t[j - Len(s)]
          /\ i - Len(s) < j - Len(s)
      BY <1>1, <1>2, <1>3, <2>3
    <3> QED  BY <1>6, <3>1 DEF Increasing
  <2> QED  BY <1>1, <1>2, <2>1, <2>2, <2>3
<1> QED  BY <1>1, <1>4, <1>5, <1>6 DEF u

LEMMA EmptyFacts == ToSet(<<>>) = {} /\ Increasing(<<>>) /\ <<>> \in Seq(Numbers) /\ Len(<<>>) = 0
BY DEF ToSet, Increasing

LEMMA NumbersAreNat == Numbers \in SUBSET Nat
BY DEF Numbers
-----------------------------------------------------------------------------
LEMMA LogInitInv == Init => LogInv
<1> SUFFICES ASSUME Init PROVE LogInv
  OBVIOUS
<1> USE SizeAssumption, EmptyFacts DEF Init
<1>1. TypeOK
  <2>1. spawned \in 0..MaxRecords  OBVIOUS
  <2>2. Len(channel) <= ChannelSize /\ Len(buffer) <= BatchSize  OBVIOUS
  <2>3. channel \in Seq(Numbers) /\ buffer \in Seq(Numbers) /\ table \in Seq(Numbers)  OBVIOUS
  <2>4. dropped \subseteq Numbers /\ failed \subseteq Numbers /\ signalled \in BOOLEAN  OBVIOUS
  <2> QED  BY <2>1, <2>2, <2>3, <2>4 DEF TypeOK
<1>2. HasRoom  BY DEF HasRoom
<1>3. InOrder  BY DEF InOrder, Before
<1>4. Accounted  BY DEF Accounted, Held, Lost
<1> QED  BY <1>1, <1>2, <1>3, <1>4 DEF LogInv

(* try_send: the new record is greater than all there have been.           *)
LEMMA SpawnKeeps == LogInv /\ SpawnUsageLog => LogInv'
<1> SUFFICES ASSUME LogInv, SpawnUsageLog PROVE LogInv'
  OBVIOUS
<1> DEFINE record == spawned + 1
<1> USE SizeAssumption, NumbersAreNat
<1>1. /\ record \in Numbers /\ spawned' = record /\ spawned' \in 0..MaxRecords
      /\ spawned \in Nat /\ spawned < MaxRecords
      /\ UNCHANGED <<buffer, collector, table, failed, server, signalled>>
  BY DEF LogInv, TypeOK, SpawnUsageLog, Numbers
<1>2. \A a \in Held : a \in Nat /\ a < record
  BY <1>1 DEF LogInv, Accounted
<1>3. CASE channel' = Append(channel, record) /\ dropped' = dropped /\ Len(channel) < ChannelSize
  <2>1. channel \in Seq(Numbers)  BY DEF LogInv, TypeOK
  <2>2. /\ channel' \in Seq(Numbers)
        /\ Len(channel') = Len(channel) + 1
        /\ ToSet(channel') = ToSet(channel) \cup {record}
        /\ Increasing(channel) /\ (\A a \in ToSet(channel) : a < record) => Increasing(channel')
    BY <1>1, <1>3, <2>1, AppendFacts
  <2>3. TypeOK'  BY <1>1, <1>3, <2>1, <2>2 DEF LogInv, TypeOK
  <2>4. HasRoom'  BY <1>1 DEF LogInv, HasRoom
  <2>5. InOrder'
    <3>1. Increasing(channel')  BY <1>2, <2>2 DEF LogInv, InOrder, Held
    <3>2. Before(table, channel') /\ Before(buffer, channel')
      BY <1>2, <2>2 DEF LogInv, InOrder, Before, Held
    <3> QED  BY <1>1, <3>1, <3>2 DEF LogInv, InOrder, Before
  <2>6. Accounted'
    BY <1>1, <1>3, <2>2 DEF LogInv, Accounted, Held, Lost
  <2> QED  BY <2>3, <2>4, <2>5, <2>6 DEF LogInv
<1>4. CASE channel' = channel /\ dropped' = dropped \cup {record}
  <2>1. TypeOK'  BY <1>1, <1>4 DEF LogInv, TypeOK
  <2>2. HasRoom'  BY <1>1 DEF LogInv, HasRoom
  <2>3. InOrder'  BY <1>1, <1>4 DEF LogInv, InOrder, Before
  <2>4. Accounted'
    BY <1>1, <1>2, <1>4 DEF LogInv, Accounted, Held, Lost
  <2> QED  BY <2>1, <2>2, <2>3, <2>4 DEF LogInv
<1> QED  BY <1>3, <1>4 DEF SpawnUsageLog

(* recv: the front of the channel becomes the end of the buffer.           *)
LEMMA ReceiveKeeps == LogInv /\ Receive => LogInv'
<1> SUFFICES ASSUME LogInv, Receive PROVE LogInv'
  OBVIOUS
<1> DEFINE head == Head(channel)
<1> USE SizeAssumption, NumbersAreNat
<1>1. /\ channel \in Seq(Numbers) /\ buffer \in Seq(Numbers) /\ channel # <<>>
      /\ collector = "select"
      /\ UNCHANGED <<spawned, table, dropped, failed, server, signalled>>
  BY DEF LogInv, TypeOK, Receive
<1>2. /\ head \in Numbers
      /\ channel' \in Seq(Numbers)
      /\ Len(channel') = Len(channel) - 1
      /\ ToSet(channel) = ToSet(channel') \cup {head}
      /\ Increasing(channel')
      /\ \A b \in ToSet(channel') : head < b
  <2>1. channel' = Tail(channel)  BY DEF Receive
  <2>2. Increasing(channel)  BY DEF LogInv, InOrder
  <2> QED  BY <1>1, <2>1, <2>2, HeadFacts
<1>3. \A a \in ToSet(buffer) : a < head
  BY <1>2 DEF LogInv, InOrder, Before
<1>4. /\ buffer' \in Seq(Numbers)
      /\ Len(buffer') = Len(buffer) + 1
      /\ ToSet(buffer') = ToSet(buffer) \cup {head}
      /\ Increasing(buffer')
  <2>1. buffer' = Append(buffer, head)  BY DEF Receive
  <2>2. Increasing(buffer)  BY DEF LogInv, InOrder
  <2> QED  BY <1>1, <1>2, <1>3, <2>1, <2>2, AppendFacts
<1>5. TypeOK'
  <2>1. Len(buffer) < BatchSize /\ Len(buffer) \in Nat  BY <1>1 DEF LogInv, HasRoom
  <2>2. collector' \in {"select", "flush"}  BY DEF Receive
  <2> QED  BY <1>1, <1>2, <1>4, <2>1, <2>2 DEF LogInv, TypeOK
<1>6. HasRoom'
  <2>1. Len(buffer') \in Nat  BY <1>4
  <2>2. collector' = IF Len(buffer') >= BatchSize THEN "flush" ELSE "select"  BY DEF Receive
  <2> QED  BY <2>1, <2>2 DEF HasRoom
<1>7. InOrder'
  <2>1. Before(table, buffer') /\ Before(table, channel') /\ Before(buffer', channel')
    BY <1>2, <1>4 DEF LogInv, InOrder, Before
  <2> QED  BY <1>1, <1>2, <1>4, <2>1 DEF LogInv, InOrder, Before
<1>8. Accounted'
  <2>1. Held' = Held  BY <1>1, <1>2, <1>4 DEF Held
  <2> QED  BY <1>1, <2>1 DEF LogInv, Accounted, Lost
<1> QED  BY <1>5, <1>6, <1>7, <1>8 DEF LogInv

(* A batch that is written goes to the end of the table.                   *)
LEMMA InsertKeeps == LogInv /\ Insert => LogInv'
<1> SUFFICES ASSUME LogInv, Insert PROVE LogInv'
  OBVIOUS
<1> USE SizeAssumption, NumbersAreNat, EmptyFacts
<1>1. /\ table \in Seq(Numbers) /\ buffer \in Seq(Numbers)
      /\ table' = table \o buffer /\ buffer' = <<>>
      /\ UNCHANGED <<spawned, channel, dropped, failed, server, signalled>>
  BY DEF LogInv, TypeOK, Insert
<1>2. /\ table' \in Seq(Numbers)
      /\ ToSet(table') = ToSet(table) \cup ToSet(buffer)
      /\ Increasing(table')
  <2>1. Increasing(table) /\ Increasing(buffer) /\ Before(table, buffer)
    BY DEF LogInv, InOrder
  <2> QED  BY <1>1, <2>1, ConcatFacts
<1>3. collector' \in {"select", "done"}  BY DEF Insert, AfterFlush
<1>4. TypeOK'  BY <1>1, <1>2, <1>3 DEF LogInv, TypeOK
<1>5. HasRoom'  BY <1>1 DEF HasRoom
<1>6. InOrder'
  <2>1. Before(table', buffer') /\ Before(table', channel') /\ Before(buffer', channel')
    BY <1>1, <1>2 DEF LogInv, InOrder, Before
  <2> QED  BY <1>1, <1>2, <2>1 DEF LogInv, InOrder, Before
<1>7. Accounted'
  BY <1>1, <1>2 DEF LogInv, Accounted, Held, Lost
<1> QED  BY <1>4, <1>5, <1>6, <1>7 DEF LogInv

(* A batch that fails is lost as a whole: it has nothing in common with    *)
(* the table and the channel, since the records are in order.              *)
LEMMA InsertFailKeeps == LogInv /\ InsertFail => LogInv'
<1> SUFFICES ASSUME LogInv, InsertFail PROVE LogInv'
  OBVIOUS
<1> USE SizeAssumption, NumbersAreNat, EmptyFacts
<1>1. /\ buffer \in Seq(Numbers) /\ buffer' = <<>>
      /\ failed' = failed \cup ToSet(buffer)
      /\ UNCHANGED <<spawned, channel, table, dropped, server, signalled>>
  BY DEF LogInv, TypeOK, InsertFail
<1>2. ToSet(buffer) \subseteq 1..spawned /\ spawned \in Nat /\ ToSet(buffer) \subseteq Numbers
  BY DEF LogInv, Accounted, Held, TypeOK, Numbers
<1>3. collector' \in {"select", "done"}  BY DEF InsertFail, AfterFlush
<1>4. TypeOK'
  <2>1. buffer' \in Seq(Numbers) /\ Len(buffer') <= BatchSize  BY <1>1
  <2>2. failed' \subseteq Numbers  BY <1>1, <1>2 DEF LogInv, TypeOK
  <2> QED  BY <1>1, <1>3, <2>1, <2>2 DEF LogInv, TypeOK
<1>5. HasRoom'  BY <1>1 DEF HasRoom
<1>6. InOrder'  BY <1>1 DEF LogInv, InOrder, Before
<1>7. Accounted'
  <2>1. \A a \in ToSet(buffer) : a \notin ToSet(table) \cup ToSet(channel)
    <3> SUFFICES ASSUME NEW a \in ToSet(buffer), a \in ToSet(table) \cup ToSet(channel)
                 PROVE  FALSE
      OBVIOUS
    <3>1. a < a  BY DEF LogInv, InOrder, Before
    <3>2. a \in Nat  BY <1>2
    <3> QED  BY <3>1, <3>2
  <2> QED  BY <1>1, <1>2, <2>1 DEF LogInv, Accounted, Held, Lost
<1> QED  BY <1>4, <1>5, <1>6, <1>7 DEF LogInv

LEMMA LogStep == LogInv /\ [Next]_vars => LogInv'
<1> SUFFICES ASSUME LogInv, [Next]_vars PROVE LogInv'
  OBVIOUS
<1>1. CASE SpawnUsageLog  BY <1>1, SpawnKeeps
<1>2. CASE Receive  BY <1>2, ReceiveKeeps
<1>3. CASE Insert  BY <1>3, InsertKeeps
<1>4. CASE InsertFail  BY <1>4, InsertFailKeeps
<1>5. ASSUME UNCHANGED <<spawned, channel, buffer, table, dropped, failed>>,
             collector' \in {collector, "flush", "last"},
             server' \in {server, "draining", "stopped", "exited"},
             signalled' \in {signalled, TRUE}
      PROVE  LogInv'
  <2>1. TypeOK'  BY <1>5 DEF LogInv, TypeOK
  <2>2. HasRoom'  BY <1>5 DEF LogInv, HasRoom
  <2>3. InOrder'  BY <1>5 DEF LogInv, InOrder, Before
  <2>4. Accounted'  BY <1>5 DEF LogInv, Accounted, Held, Lost
  <2> QED  BY <2>1, <2>2, <2>3, <2>4 DEF LogInv
<1>6. CASE IntervalTick  BY <1>5, <1>6 DEF IntervalTick
<1>7. CASE ShutdownChanged  BY <1>5, <1>7 DEF ShutdownChanged
<1>8. CASE Signal \/ ServerStopped \/ Shutdown \/ Exit
  BY <1>5, <1>8 DEF Signal, ServerStopped, Shutdown, Exit
<1>9. CASE UNCHANGED vars  BY <1>5, <1>9 DEF vars
<1> QED
  BY <1>1, <1>2, <1>3, <1>4, <1>6, <1>7, <1>8, <1>9 DEF Next, Collect

(* The invariant of the collector.                                         *)
THEOREM LogInvariance == Spec => []LogInv
<1>1. Init => LogInv  BY LogInitInv
<1>2. LogInv /\ [Next]_vars => LogInv'  BY LogStep
<1> QED  BY <1>1, <1>2, PTL DEF Spec

(* Channel and buffer stay within their sizes, and all types hold.         *)
THEOREM LogTypeCorrect == Spec => []TypeOK
<1>1. LogInv => TypeOK  BY DEF LogInv
<1> QED  BY <1>1, LogInvariance, PTL

(* Each record is held, dropped or lost with a failed batch, and held once *)
(* and in order, however many there are and whatever the sizes.            *)
THEOREM EachRecordOnceHolds == Spec => []EachRecordOnce
<1>1. LogInv => EachRecordOnce
  <2> SUFFICES ASSUME LogInv PROVE EachRecordOnce
    OBVIOUS
  <2> DEFINE first == table \o buffer
             held == first \o channel
  <2>1. table \in Seq(Numbers) /\ buffer \in Seq(Numbers) /\ channel \in Seq(Numbers)
    BY DEF LogInv, TypeOK
  <2>2. /\ first \in Seq(Numbers)
        /\ ToSet(first) = ToSet(table) \cup ToSet(buffer)
        /\ Increasing(first)
    BY <2>1, ConcatFacts, NumbersAreNat DEF LogInv, InOrder
  <2>3. Before(first, channel)
    BY <2>2 DEF LogInv, InOrder, Before
  <2> HIDE DEF first
  <2>4. Increasing(held) /\ ToSet(held) = ToSet(first) \cup ToSet(channel)
    BY <2>1, <2>2, <2>3, ConcatFacts, NumbersAreNat DEF LogInv, InOrder
  <2>5. ToSet(held) = (1..spawned) \ (dropped \cup failed)
    BY <2>2, <2>4 DEF LogInv, Accounted, Held, Lost
  <2> QED  BY <2>4, <2>5 DEF EachRecordOnce, Increasing, first
<1> QED  BY <1>1, LogInvariance, PTL
-----------------------------------------------------------------------------
(* A batch that leaves the buffer leaves the front of what waits.          *)
LEMMA FrontFacts ==
  ASSUME NEW S, NEW s \in Seq(S), NEW t \in Seq(S)
  PROVE  /\ SubSeq(s \o t, 1, Len(s)) = s
         /\ SubSeq(s \o t, Len(s) + 1, Len(s \o t)) = t
         /\ {(s \o t)[i] : i \in 1..Len(s)} = ToSet(s)
<1> DEFINE u == s \o t
<1>1. /\ u \in Seq(S)
      /\ Len(u) = Len(s) + Len(t)
      /\ \A i \in 1..Len(s) : u[i] = s[i]
      /\ \A i \in 1..Len(t) : u[Len(s) + i] = t[i]
      /\ Len(s) \in Nat /\ Len(t) \in Nat
      /\ DOMAIN s = 1..Len(s)
      /\ \A i \in 1..Len(u) : u[i] \in S
  BY ConcatProperties
<1> HIDE DEF u
<1>2. SubSeq(u, 1, Len(s)) = s
  <2> DEFINE v == SubSeq(u, 1, Len(s))
  <2>1. \A i \in 1..Len(s) : u[i] \in S  BY <1>1
  <2>2. v \in Seq(S) /\ Len(v) = Len(s) /\ \A i \in 1..Len(s) : v[i] = u[i]
    BY <1>1, <2>1, SubSeqProperties
  <2> HIDE DEF v
  <2>3. v = s  BY <1>1, <2>2, SeqEqual
  <2> QED  BY <2>3 DEF v
<1>3. SubSeq(u, Len(s) + 1, Len(u)) = t
  <2> DEFINE v == SubSeq(u, Len(s) + 1, Len(u))
  <2>1. \A i \in (Len(s) + 1)..Len(u) : u[i] \in S  BY <1>1
  <2>2. /\ v \in Seq(S) /\ Len(v) = Len(t)
        /\ \A i \in 1..Len(t) : v[i] = u[Len(s) + i]
    BY <1>1, <2>1, SubSeqProperties
  <2> HIDE DEF v
  <2>3. v = t  BY <1>1, <2>2, SeqEqual
  <2> QED  BY <2>3 DEF v
<1>4. {u[i] : i \in 1..Len(s)} = ToSet(s)
  BY <1>1 DEF ToSet
<1> QED  BY <1>2, <1>3, <1>4 DEF u

(* What is received only moves from one part of what waits to the other.   *)
LEMMA MoveFacts ==
  ASSUME NEW S, NEW s \in Seq(S), NEW t \in Seq(S), t # <<>>
  PROVE  Append(s, Head(t)) \o Tail(t) = s \o t
OBVIOUS

LEMMA AppendAssociates ==
  ASSUME NEW S, NEW s \in Seq(S), NEW t \in Seq(S), NEW e \in S
  PROVE  s \o Append(t, e) = Append(s \o t, e)
OBVIOUS

(* Each step of the collector is one of the account, or changes nothing.   *)
LEMMA AccountStep ==
  TypeOK /\ [Next]_vars => [Account!Next]_(Account!accountVars)
<1> SUFFICES ASSUME TypeOK, [Next]_vars
             PROVE  [Account!Next]_(Account!accountVars)
  OBVIOUS
<1> USE SizeAssumption
<1>1. /\ table \in Seq(Numbers) /\ buffer \in Seq(Numbers) /\ channel \in Seq(Numbers)
      /\ spawned \in Nat
  BY DEF TypeOK
<1>2. CASE SpawnUsageLog
  <2>1. spawned' = spawned + 1 /\ spawned' \in Numbers
    BY <1>1, <1>2 DEF SpawnUsageLog, Numbers
  <2>2. CASE channel' = Append(channel, spawned + 1) /\ dropped' = dropped
    <3>1. (buffer \o channel)' = Append(buffer \o channel, spawned')
      BY <1>1, <1>2, <2>1, <2>2, AppendAssociates DEF SpawnUsageLog
    <3>2. (dropped \cup failed)' = dropped \cup failed /\ table' = table
      BY <1>2, <2>2 DEF SpawnUsageLog
    <3>3. Account!TakeIn  BY <2>1, <3>1, <3>2 DEF Account!TakeIn
    <3> QED  BY <3>3 DEF Account!Next
  <2>3. CASE dropped' = dropped \cup {spawned + 1} /\ channel' = channel
    <3>1. /\ (buffer \o channel)' = buffer \o channel /\ table' = table
          /\ (dropped \cup failed)' = (dropped \cup failed) \cup {spawned'}
      BY <1>2, <2>1, <2>3 DEF SpawnUsageLog
    <3>2. Account!Refuse  BY <2>1, <3>1 DEF Account!Refuse
    <3> QED  BY <3>2 DEF Account!Next
  <2> QED  BY <1>2, <2>2, <2>3 DEF SpawnUsageLog
<1>3. CASE Receive
  <2>1. (buffer \o channel)' = buffer \o channel
    BY <1>1, <1>3, MoveFacts DEF Receive
  <2> QED  BY <1>3, <2>1 DEF Receive, Account!accountVars
<1>4. ASSUME buffer # <<>>, buffer' = <<>>, channel' = channel
      PROVE  /\ Len(buffer) \in 1..Len(buffer \o channel)
             /\ Account!Leaves(Len(buffer))
             /\ SubSeq(buffer \o channel, 1, Len(buffer)) = buffer
             /\ {(buffer \o channel)[i] : i \in 1..Len(buffer)} = ToSet(buffer)
  <2>1. Len(buffer) \in Nat \ {0} /\ Len(channel) \in Nat
        /\ Len(buffer \o channel) = Len(buffer) + Len(channel)
    BY <1>1, <1>4, EmptySeq, ConcatProperties
  <2>2. (buffer \o channel)' = channel  BY <1>1, <1>4, ConcatEmptySeq
  <2>3. /\ SubSeq(buffer \o channel, 1, Len(buffer)) = buffer
        /\ SubSeq(buffer \o channel, Len(buffer) + 1, Len(buffer \o channel)) = channel
        /\ {(buffer \o channel)[i] : i \in 1..Len(buffer)} = ToSet(buffer)
    BY <1>1, FrontFacts
  <2>4. Account!Leaves(Len(buffer))  BY <2>2, <2>3 DEF Account!Leaves
  <2>5. Len(buffer) \in 1..Len(buffer \o channel)  BY <2>1
  <2> QED  BY <2>3, <2>4, <2>5
<1>5. CASE Insert
  <2>1. /\ table' = table \o buffer /\ buffer' = <<>> /\ channel' = channel
        /\ spawned' = spawned /\ dropped' = dropped /\ failed' = failed
    BY <1>5 DEF Insert
  <2>2. CASE buffer = <<>>
    <3>1. table' = table /\ (buffer \o channel)' = buffer \o channel
      BY <1>1, <2>1, <2>2, ConcatEmptySeq
    <3> QED  BY <2>1, <3>1 DEF Account!accountVars
  <2>3. CASE buffer # <<>>
    <3>1. Account!Write(Len(buffer))
      BY <1>4, <2>1, <2>3 DEF Account!Write
    <3> QED  BY <1>4, <2>1, <2>3, <3>1 DEF Account!Next
  <2> QED  BY <2>2, <2>3
<1>6. CASE InsertFail
  <2>1. /\ failed' = failed \cup ToSet(buffer) /\ buffer # <<>> /\ buffer' = <<>>
        /\ channel' = channel /\ spawned' = spawned /\ dropped' = dropped /\ table' = table
    BY <1>6 DEF InsertFail
  <2>2. Account!Lose(Len(buffer))
    BY <1>4, <2>1 DEF Account!Lose
  <2> QED  BY <1>4, <2>1, <2>2 DEF Account!Next
<1>7. ASSUME UNCHANGED <<spawned, channel, buffer, table, dropped, failed>>
      PROVE  UNCHANGED Account!accountVars
  BY <1>7 DEF Account!accountVars
<1>8. CASE IntervalTick \/ ShutdownChanged  BY <1>7, <1>8 DEF IntervalTick, ShutdownChanged
<1>9. CASE Signal \/ ServerStopped \/ Shutdown \/ Exit
  BY <1>7, <1>9 DEF Signal, ServerStopped, Shutdown, Exit
<1>10. CASE UNCHANGED vars  BY <1>7, <1>10 DEF vars
<1> QED
  BY <1>2, <1>3, <1>5, <1>6, <1>8, <1>9, <1>10 DEF Next, Collect

(* Channel, batches, interval and shutdown together are the plain account: *)
(* records leave in the order in which they came, for the table or for     *)
(* good, and nothing else happens to them.                                 *)
THEOREM LogRefinement == Spec => ImplementsUsageAccount
<1>1. Init => Account!Init
  BY EmptyFacts, ConcatEmptySeq DEF Init, Account!Init
<1>2. TypeOK /\ [Next]_vars => [Account!Next]_(Account!accountVars)
  BY AccountStep
<1> QED  BY <1>1, <1>2, LogTypeCorrect, PTL DEF Spec, ImplementsUsageAccount, Account!Spec
=============================================================================
