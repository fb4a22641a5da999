---------------------------- MODULE NetLogProofs ----------------------------
(***************************************************************************)
(* Proofs about NetLog, for any printing tasks, any length of the queue    *)
(* and any number of messages and clients.                                 *)
(***************************************************************************)
EXTENDS NetLog, FiniteSetTheorems, SequenceTheorems, TLAPS

-----------------------------------------------------------------------------
\* The type invariant.  A message is for somebody because the log task prints
\* only while it has a client.
TypeInv == TypeOK /\ (lpc # "accept" => tcpCli # None)

\* A task's next message, while there is a client.
LEMMA TextType ==
  ASSUME TypeOK, tcpCli # None, NEW t \in Everyone
  PROVE  Text(t) \in Message
<1>1. printed[t] \in Nat /\ tcpCli \in Nat \ {0}
  BY CapAssumption DEF TypeOK, None
<1> QED
  BY <1>1 DEF Text, Message

\* What queueing does to the queue.
LEMMA QueuedGrows ==
  ASSUME msgq \in Seq(Message), NEW m \in Message, Queued(m)
  PROVE  \/ UNCHANGED <<heap, msgq>>
         \/ /\ Len(msgq) < Cap /\ heap' = heap \cup {m} /\ msgq' = Append(msgq, m)
            /\ msgq' \in Seq(Message) /\ Len(msgq') = Len(msgq) + 1 /\ msgq'[Len(msgq) + 1] = m
            /\ \A i \in 1..Len(msgq) : msgq'[i] = msgq[i]
  BY DEF Queued

LEMMA QueuedType ==
  ASSUME TypeOK, NEW m \in Message, Queued(m) \/ UNCHANGED <<heap, msgq>>
  PROVE  msgq' \in Seq(Message) /\ Len(msgq') <= Cap /\ heap' \subseteq Message
<1>1. msgq \in Seq(Message) /\ Len(msgq) <= Cap /\ heap \subseteq Message
  BY DEF TypeOK
<1>2. CASE UNCHANGED <<heap, msgq>>
  BY <1>1, <1>2
<1>3. CASE Queued(m)
  BY <1>1, <1>3, QueuedGrows, CapAssumption
<1> QED
  BY <1>2, <1>3

\* A set of at most one message.
LEMMA AtMostOne ==
  /\ Cardinality({}) <= 1
  /\ \A x : Cardinality({x}) <= 1
  BY FS_EmptySet, FS_Singleton

LEMMA InitType == Init => TypeInv
<1> SUFFICES ASSUME Init PROVE TypeInv
  OBVIOUS
<1>1. held \in [Printers -> SUBSET Message] /\ \A p \in Printers : Cardinality(held[p]) <= 1
  BY AtMostOne DEF Init
<1>2. /\ heap \subseteq Message /\ evt \subseteq Message /\ Cardinality(evt) <= 1
      /\ printed \in [Everyone -> Nat]
  BY AtMostOne DEF Init
<1>3. msgq \in Seq(Message) /\ Len(msgq) <= Cap /\ got \in Seq(Message)
  BY CapAssumption DEF Init
<1>4. tcpCli \in {None, clients} /\ clients \in 0..MaxClients /\ lpc = "accept"
  BY CapAssumption DEF Init
<1>5. alive \in BOOLEAN
  BY DEF Init
<1> QED
  BY <1>1, <1>2, <1>3, <1>4, <1>5 DEF TypeInv, TypeOK

LEMMA TypeStep ==
  ASSUME TypeInv, [Next]_vars
  PROVE  TypeInv'
<1> USE DEF TypeInv
<1>a. TypeOK
  OBVIOUS
<1>b. Printers \subseteq Everyone /\ LogTask \in Everyone
  BY DEF Everyone
<1>1. ASSUME NEW p \in Printers, PrintMsg(p) PROVE TypeInv'
  <2>1. Text(p) \in Message
    BY <1>1, <1>b, TextType DEF PrintMsg
  <2>2. held' \in [Printers -> SUBSET Message] /\ \A q \in Printers : Cardinality(held'[q]) <= 1
    BY <1>1, <2>1, AtMostOne DEF PrintMsg, TypeOK
  <2>3. printed' \in [Everyone -> Nat]
    BY <1>1, <1>b DEF PrintMsg, TypeOK
  <2> QED
    BY <1>1, <2>2, <2>3 DEF PrintMsg, TypeOK
<1>2. ASSUME NEW p \in Printers, Put(p) PROVE TypeInv'
  <2>1. PICK m \in held[p] :
          /\ held' = [held EXCEPT ![p] = {}]
          /\ Queued(m) \/ UNCHANGED <<heap, msgq>>
          /\ UNCHANGED <<tcpCli, clients, evt, printed, lpc, alive, got>>
    BY <1>2 DEF Put
  <2>2. m \in Message
    BY <2>1 DEF TypeOK
  <2>3. msgq' \in Seq(Message) /\ Len(msgq') <= Cap /\ heap' \subseteq Message
    BY <2>1, <2>2, QueuedType
  <2>4. held' \in [Printers -> SUBSET Message] /\ \A q \in Printers : Cardinality(held'[q]) <= 1
    BY <2>1, AtMostOne DEF TypeOK
  <2> QED
    BY <2>1, <2>3, <2>4 DEF TypeOK
<1>3. CASE Accept
  <2>1. /\ clients \in 0..MaxClients /\ clients < MaxClients /\ clients' = clients + 1
        /\ tcpCli' = clients + 1
    BY <1>3 DEF Accept, TypeOK
  <2>2. clients' \in 0..MaxClients /\ tcpCli' # None
    BY <2>1, CapAssumption DEF None
  <2> QED
    BY <1>3, <2>1, <2>2 DEF Accept, TypeOK
<1>4. CASE Online \/ ShowError
  <2>1. /\ tcpCli # None /\ LogPrints /\ lpc' \in {"serve", "close"}
        /\ UNCHANGED <<tcpCli, clients, held, evt, alive, got>>
    BY <1>4 DEF Online, ShowError
  <2>2. Text(LogTask) \in Message
    BY <1>b, <2>1, TextType
  <2>3. msgq' \in Seq(Message) /\ Len(msgq') <= Cap /\ heap' \subseteq Message
    BY <2>1, <2>2, QueuedType DEF LogPrints
  <2>4. printed' \in [Everyone -> Nat]
    BY <1>b, <2>1 DEF LogPrints, TypeOK
  <2> QED
    BY <2>1, <2>3, <2>4 DEF TypeOK
<1>5. CASE SendNext
  <2>1. msgq \in Seq(Message) /\ msgq # <<>> /\ msgq' = Tail(msgq)
    BY <1>5 DEF SendNext, TypeOK
  <2>2. /\ Head(msgq) \in Message /\ msgq' \in Seq(Message) /\ Len(msgq') <= Cap
    BY <2>1, HeadTailProperties, CapAssumption DEF TypeOK
  <2>3. heap' \subseteq Message
    <3>1. heap \subseteq Message /\ heap' \subseteq heap
      BY <1>5 DEF SendNext, TypeOK
    <3> QED
      BY <3>1
  <2>6. got' \in Seq(Message)
    <3>1. got \in Seq(Message) /\ (got' = got \/ got' = Append(got, Head(msgq)))
      BY <1>5 DEF SendNext, TypeOK
    <3> QED
      BY <2>2, <3>1
  <2>4. evt' \subseteq Message /\ Cardinality(evt') <= 1
    BY <1>5, <2>2, AtMostOne DEF SendNext, TypeOK
  <2>5. lpc' \in {"serve", "failed"} /\ lpc # "accept"
        /\ UNCHANGED <<tcpCli, clients, held, printed, alive>>
    BY <1>5 DEF SendNext
  <2> QED
    BY <2>2, <2>3, <2>4, <2>5, <2>6 DEF TypeOK
<1>6. CASE CheckOffline \/ Leave
  BY <1>6 DEF CheckOffline, Leave, TypeOK
<1>7. CASE Close
  BY <1>7, AtMostOne DEF Close, TypeOK
<1>8. CASE UNCHANGED vars
  BY <1>8 DEF vars, TypeOK
<1> QED
  BY <1>1, <1>2, <1>3, <1>4, <1>5, <1>6, <1>7, <1>8 DEF Next, Serve, Done

\* The log server's state keeps its types for any tasks and any queue, and the
\* queue never holds more than Cap messages (tcp_srv.c:98-117).
THEOREM SpecTypeOK == Spec => []TypeOK
<1>1. Init => TypeInv
  BY InitType
<1>2. TypeInv /\ [Next]_vars => TypeInv'
  BY TypeStep
<1>3. TypeInv => TypeOK
  BY DEF TypeInv
<1> QED
  BY <1>1, <1>2, <1>3, PTL DEF Spec

-----------------------------------------------------------------------------
\* The inductive invariant of the order of messages.  Each task numbers what it
\* prints; what the client has got, what could not be sent, the queue and what
\* a task is about to queue are in this order, task by task.
Before(m, k) == m.from = k.from => m.n < k.n

InQueueOrder ==
  /\ \A i, j \in 1..Len(msgq) : i < j => Before(msgq[i], msgq[j])
  /\ \A i, j \in 1..Len(got) : i < j => Before(got[i], got[j])
  /\ \A i \in 1..Len(got), j \in 1..Len(msgq) : Before(got[i], msgq[j])
  /\ \A m \in evt, j \in 1..Len(msgq) : Before(m, msgq[j])

HeldLast ==
  \A p \in Printers : \A m \in held[p] :
    /\ m.from = p
    /\ \A i \in 1..Len(msgq) : Before(msgq[i], m)
    /\ \A i \in 1..Len(got) : Before(got[i], m)
    /\ \A k \in evt : Before(k, m)

Numbered ==
  /\ \A i \in 1..Len(msgq) : msgq[i].n <= printed[msgq[i].from]
  /\ \A i \in 1..Len(got) : got[i].n <= printed[got[i].from]
  /\ \A k \in evt : k.n <= printed[k.from]
  /\ \A p \in Printers : \A m \in held[p] : m.n <= printed[p]

OrderInv == InQueueOrder /\ HeldLast /\ Numbered

\* A message that comes after all there is in the queue and with the client.
Last(m) ==
  /\ m \in Message
  /\ \A i \in 1..Len(msgq) : Before(msgq[i], m)
  /\ \A i \in 1..Len(got) : Before(got[i], m)
  /\ \A k \in evt : Before(k, m)

\* Messages are compared by numbers.
LEMMA BeforeTransitive ==
  ASSUME NEW m \in Message, NEW k \in Message, NEW l \in Message,
         Before(m, k), Before(k, l), m.from = k.from
  PROVE  Before(m, l)
  BY DEF Before, Message

\* What queueing the last message does to the order.
LEMMA QueuedOrder ==
  ASSUME msgq \in Seq(Message), InQueueOrder, NEW m, Last(m),
         Queued(m) \/ UNCHANGED <<heap, msgq>>, UNCHANGED <<got, evt>>
  PROVE  /\ InQueueOrder'
         /\ \A i \in 1..Len(msgq') : \/ i \in 1..Len(msgq) /\ msgq'[i] = msgq[i]
                                     \/ msgq'[i] = m
<1> USE DEF InQueueOrder
<1>1. CASE UNCHANGED msgq
  BY <1>1
<1>2. CASE ~UNCHANGED msgq
  <2>1. /\ msgq' = Append(msgq, m)
        /\ Len(msgq) \in Nat /\ Len(msgq') = Len(msgq) + 1 /\ msgq'[Len(msgq) + 1] = m
        /\ \A i \in 1..Len(msgq) : msgq'[i] = msgq[i]
    BY <1>2, QueuedGrows DEF Last
  <2>2. \A i \in 1..Len(msgq') : i \in 1..Len(msgq) \/ i = Len(msgq) + 1
    BY <2>1
  <2>3. ASSUME NEW i \in 1..Len(msgq'), NEW j \in 1..Len(msgq'), i < j
        PROVE  Before(msgq'[i], msgq'[j])
    <3>1. i \in 1..Len(msgq)
      BY <2>1, <2>3
    <3> QED
      BY <2>1, <2>2, <2>3, <3>1 DEF Last
  <2> QED
    BY <2>1, <2>2, <2>3 DEF Last
<1> QED
  BY <1>1, <1>2

LEMMA OrderPrint ==
  ASSUME TypeInv, OrderInv, NEW p \in Printers, PrintMsg(p)
  PROVE  OrderInv'
<1>1. /\ held' = [held EXCEPT ![p] = {Text(p)}]
      /\ printed' = [printed EXCEPT ![p] = printed[p] + 1]
      /\ UNCHANGED <<msgq, evt, got>>
  BY DEF PrintMsg
<1>2. /\ held \in [Printers -> SUBSET Message] /\ printed \in [Everyone -> Nat]
      /\ msgq \in Seq(Message) /\ got \in Seq(Message) /\ evt \subseteq Message
      /\ p \in Everyone
  BY DEF TypeInv, TypeOK, Everyone
<1>3. Text(p).from = p /\ Text(p).n = printed[p] + 1
  BY DEF Text
<1>4. \A m \in Message : m.n <= printed[m.from] => Before(m, Text(p)) /\ m.n <= printed'[m.from]
  BY <1>1, <1>2, <1>3 DEF Before, Message
<1>5. /\ \A i \in 1..Len(msgq) : msgq[i] \in Message
      /\ \A i \in 1..Len(got) : got[i] \in Message
  BY <1>2
<1>6. InQueueOrder'
  BY <1>1 DEF OrderInv, InQueueOrder
<1>7. HeldLast'
  <2> SUFFICES ASSUME NEW q \in Printers, NEW m \in held'[q]
               PROVE  /\ m.from = q
                      /\ \A i \in 1..Len(msgq) : Before(msgq[i], m)
                      /\ \A i \in 1..Len(got) : Before(got[i], m)
                      /\ \A k \in evt : Before(k, m)
    BY <1>1 DEF HeldLast
  <2>1. CASE q = p
    <3>1. m = Text(p)
      BY <1>1, <1>2, <2>1
    <3> QED
      BY <1>2, <1>3, <1>4, <1>5, <2>1, <3>1 DEF OrderInv, Numbered
  <2>2. CASE q # p
    <3>1. m \in held[q]
      BY <1>1, <1>2, <2>2
    <3> QED
      BY <3>1 DEF OrderInv, HeldLast
  <2> QED
    BY <2>1, <2>2
<1>8. Numbered'
  <2>1. ASSUME NEW q \in Printers, NEW m \in held'[q] PROVE m.n <= printed'[q]
    <3>1. CASE q = p
      <4>1. m = Text(p)
        BY <1>1, <1>2, <3>1
      <4> QED
        BY <1>1, <1>2, <1>3, <3>1, <4>1
    <3>2. CASE q # p
      <4>1. m \in held[q] /\ printed'[q] = printed[q]
        BY <1>1, <1>2, <3>2 DEF Everyone
      <4> QED
        BY <4>1 DEF OrderInv, Numbered
    <3> QED
      BY <3>1, <3>2
  <2> QED
    BY <1>1, <1>2, <1>4, <1>5, <2>1 DEF OrderInv, Numbered
<1> QED
  BY <1>6, <1>7, <1>8 DEF OrderInv

LEMMA OrderPut ==
  ASSUME TypeInv, OrderInv, NEW p \in Printers, Put(p)
  PROVE  OrderInv'
<1>1. PICK m \in held[p] :
        /\ held' = [held EXCEPT ![p] = {}]
        /\ Queued(m) \/ UNCHANGED <<heap, msgq>>
        /\ UNCHANGED <<tcpCli, clients, evt, printed, lpc, alive, got>>
  BY DEF Put
<1>2. /\ held \in [Printers -> SUBSET Message] /\ printed \in [Everyone -> Nat]
      /\ msgq \in Seq(Message) /\ got \in Seq(Message) /\ evt \subseteq Message
  BY DEF TypeInv, TypeOK
<1>3. Last(m) /\ m.from = p /\ m.n <= printed[p]
  BY <1>2 DEF OrderInv, HeldLast, Numbered, Last
<1>4. /\ InQueueOrder'
      /\ \A i \in 1..Len(msgq') : \/ i \in 1..Len(msgq) /\ msgq'[i] = msgq[i]
                                  \/ msgq'[i] = m
  BY <1>1, <1>2, <1>3, QueuedOrder DEF OrderInv
<1>5. \A q \in Printers : held'[q] \subseteq held[q] /\ (q = p => held'[q] = {})
  BY <1>1, <1>2
<1>6. HeldLast'
  <2> SUFFICES ASSUME NEW q \in Printers, NEW k \in held'[q]
               PROVE  /\ k.from = q
                      /\ \A i \in 1..Len(msgq') : Before(msgq'[i], k)
                      /\ \A i \in 1..Len(got) : Before(got[i], k)
                      /\ \A l \in evt : Before(l, k)
    BY <1>1 DEF HeldLast
  <2>1. k \in held[q] /\ q # p
    BY <1>5
  <2>2. Before(m, k)
    BY <1>3, <2>1 DEF OrderInv, HeldLast, Before
  <2> QED
    BY <1>4, <2>1, <2>2 DEF OrderInv, HeldLast
<1>7. Numbered'
  BY <1>1, <1>3, <1>4, <1>5 DEF OrderInv, Numbered
<1> QED
  BY <1>4, <1>6, <1>7 DEF OrderInv

\* The log task's own message is the last one too.
LEMMA OrderLog ==
  ASSUME TypeInv, OrderInv, tcpCli # None, LogPrints, UNCHANGED <<held, evt, got>>
  PROVE  OrderInv'
<1>1. /\ printed' = [printed EXCEPT ![LogTask] = printed[LogTask] + 1]
      /\ Queued(Text(LogTask)) \/ UNCHANGED <<heap, msgq>>
  BY DEF LogPrints
<1>2. /\ held \in [Printers -> SUBSET Message] /\ printed \in [Everyone -> Nat]
      /\ msgq \in Seq(Message) /\ got \in Seq(Message) /\ evt \subseteq Message
      /\ LogTask \in Everyone /\ Printers \subseteq Everyone /\ LogTask \notin Printers
  BY PrintersAssumption DEF TypeInv, TypeOK, Everyone
<1>3. Text(LogTask).from = LogTask /\ Text(LogTask).n = printed[LogTask] + 1
  BY DEF Text
<1>4. \A m \in Message : m.n <= printed[m.from] =>
        Before(m, Text(LogTask)) /\ m.n <= printed'[m.from]
  BY <1>1, <1>2, <1>3 DEF Before, Message
<1>5. /\ \A i \in 1..Len(msgq) : msgq[i] \in Message
      /\ \A i \in 1..Len(got) : got[i] \in Message
  BY <1>2
<1>6. Last(Text(LogTask))
  <2>1. Text(LogTask) \in Message
    BY <1>2, TextType DEF TypeInv
  <2> QED
    BY <1>2, <1>4, <1>5, <2>1 DEF OrderInv, Numbered, Last
<1>7. /\ InQueueOrder'
      /\ \A i \in 1..Len(msgq') : \/ i \in 1..Len(msgq) /\ msgq'[i] = msgq[i]
                                  \/ msgq'[i] = Text(LogTask)
  BY <1>1, <1>2, <1>6, QueuedOrder DEF OrderInv
<1>8. HeldLast'
  <2> SUFFICES ASSUME NEW q \in Printers, NEW k \in held[q]
               PROVE  /\ k.from = q
                      /\ \A i \in 1..Len(msgq') : Before(msgq'[i], k)
                      /\ \A i \in 1..Len(got) : Before(got[i], k)
                      /\ \A l \in evt : Before(l, k)
    BY DEF HeldLast
  <2>1. Before(Text(LogTask), k)
    BY <1>2, <1>3 DEF OrderInv, HeldLast, Before
  <2> QED
    BY <1>7, <2>1 DEF OrderInv, HeldLast
<1>9. Numbered'
  <2>1. Text(LogTask).n <= printed'[Text(LogTask).from]
    BY <1>1, <1>2, <1>3
  <2>2. ASSUME NEW q \in Printers, NEW m \in held[q] PROVE m.n <= printed'[q]
    <3>1. printed'[q] = printed[q]
      BY <1>1, <1>2
    <3> QED
      BY <3>1 DEF OrderInv, Numbered
  <2> QED
    BY <1>2, <1>4, <1>5, <1>7, <2>1, <2>2 DEF OrderInv, Numbered
<1> QED
  BY <1>7, <1>8, <1>9 DEF OrderInv

\* The head of the queue goes to the client, or becomes what could not be sent.
LEMMA OrderSend ==
  ASSUME TypeInv, OrderInv, SendNext
  PROVE  OrderInv'
<1>1. /\ msgq # <<>> /\ msgq' = Tail(msgq) /\ UNCHANGED <<held, printed>>
      /\ \/ got' = Append(got, Head(msgq)) /\ UNCHANGED evt
         \/ UNCHANGED <<got, evt>>
         \/ evt' = {Head(msgq)} /\ UNCHANGED got
  BY DEF SendNext
<1>2. msgq \in Seq(Message) /\ got \in Seq(Message) /\ evt \subseteq Message
  BY DEF TypeInv, TypeOK
<1>3. /\ Head(msgq) = msgq[1] /\ 1 \in 1..Len(msgq) /\ Len(msgq) \in Nat
      /\ Len(msgq') = Len(msgq) - 1 /\ \A i \in 1..Len(msgq') : msgq'[i] = msgq[i + 1]
  BY <1>1, <1>2, HeadTailProperties
<1>4. \A i \in 1..Len(msgq') : i + 1 \in 1..Len(msgq) /\ 1 < i + 1
  BY <1>3
<1>5. \A i \in 1..Len(msgq') : Before(Head(msgq), msgq'[i])
  BY <1>3, <1>4 DEF OrderInv, InQueueOrder
<1>6. \A k \in evt' : k \in evt \/ k = Head(msgq)
  BY <1>1
<1>7. /\ Len(got) \in Nat
      /\ \A i \in 1..Len(got') : \/ i \in 1..Len(got) /\ got'[i] = got[i]
                                 \/ i = Len(got) + 1 /\ got'[i] = Head(msgq)
  <2>1. Head(msgq) \in Message
    BY <1>1, <1>2, HeadTailProperties
  <2>2. CASE got' = Append(got, Head(msgq))
    BY <1>2, <2>1, <2>2
  <2>3. CASE got' = got
    BY <1>2, <2>3
  <2> QED
    BY <1>1, <2>2, <2>3
<1>8. InQueueOrder'
  <2>1. \A i, j \in 1..Len(msgq') : i < j => Before(msgq'[i], msgq'[j])
    BY <1>3, <1>4 DEF OrderInv, InQueueOrder
  <2>2. \A i, j \in 1..Len(got') : i < j => Before(got'[i], got'[j])
    <3> SUFFICES ASSUME NEW i \in 1..Len(got'), NEW j \in 1..Len(got'), i < j
                 PROVE  Before(got'[i], got'[j])
      OBVIOUS
    <3>1. i \in 1..Len(got) /\ got'[i] = got[i]
      <4>1. i # Len(got) + 1
        BY <1>7
      <4> QED
        BY <1>7, <4>1
    <3> QED
      BY <1>3, <1>7, <3>1 DEF OrderInv, InQueueOrder
  <2>3. \A i \in 1..Len(got'), j \in 1..Len(msgq') : Before(got'[i], msgq'[j])
    BY <1>3, <1>4, <1>5, <1>7 DEF OrderInv, InQueueOrder
  <2>4. \A m \in evt', j \in 1..Len(msgq') : Before(m, msgq'[j])
    BY <1>3, <1>4, <1>5, <1>6 DEF OrderInv, InQueueOrder
  <2> QED
    BY <2>1, <2>2, <2>3, <2>4 DEF InQueueOrder
<1>9. HeldLast'
  BY <1>1, <1>3, <1>4, <1>6, <1>7 DEF OrderInv, HeldLast
<1>10. Numbered'
  BY <1>1, <1>3, <1>4, <1>6, <1>7 DEF OrderInv, Numbered
<1> QED
  BY <1>8, <1>9, <1>10 DEF OrderInv

LEMMA OrderStep ==
  ASSUME TypeInv, OrderInv, [Next]_vars
  PROVE  OrderInv'
<1>1. CASE \E p \in Printers : PrintMsg(p) \/ Put(p)
  BY <1>1, OrderPrint, OrderPut
<1>2. CASE Accept
  BY <1>2 DEF Accept, OrderInv, InQueueOrder, HeldLast, Numbered
<1>3. CASE Online \/ ShowError
  <2>1. tcpCli # None /\ LogPrints /\ UNCHANGED <<held, evt, got>>
    BY <1>3 DEF Online, ShowError, TypeInv
  <2> QED
    BY <2>1, OrderLog
<1>4. CASE SendNext
  BY <1>4, OrderSend
<1>5. CASE CheckOffline \/ Leave \/ UNCHANGED vars
  BY <1>5 DEF CheckOffline, Leave, vars, OrderInv, InQueueOrder, HeldLast, Numbered
<1>6. CASE Close
  BY <1>6 DEF Close, OrderInv, InQueueOrder, HeldLast, Numbered
<1> QED
  BY <1>1, <1>2, <1>3, <1>4, <1>5, <1>6 DEF Next, Serve, Done

LEMMA OrderInit == Init => OrderInv
  BY DEF Init, OrderInv, InQueueOrder, HeldLast, Numbered

LEMMA SpecOrder == Spec => [](TypeInv /\ OrderInv)
<1>1. Init => TypeInv
  BY InitType
<1>2. TypeInv /\ OrderInv /\ [Next]_vars => TypeInv' /\ OrderInv'
  BY TypeStep, OrderStep
<1> QED
  BY <1>1, <1>2, OrderInit, PTL DEF Spec

\* A client receives the messages of each task in the order that task printed
\* them, none twice (tcp_srv.c:64-117).
THEOREM SpecInOrder == Spec => []InOrder
<1>1. TypeInv /\ OrderInv => InOrder
  <2> SUFFICES ASSUME TypeInv, OrderInv PROVE InOrder
    OBVIOUS
  <2>1. DOMAIN got = 1..Len(got)
    BY DEF TypeInv, TypeOK
  <2> QED
    BY <2>1 DEF OrderInv, InQueueOrder, InOrder, Before
<1> QED
  BY <1>1, SpecOrder, PTL

-----------------------------------------------------------------------------
\* What is in memory is what is queued and what could not be sent.
Queue == {msgq[i] : i \in 1..Len(msgq)}

HeapInv ==
  /\ heap = Queue \cup evt
  /\ evt # {} => lpc \in {"failed", "close"}

\* No two messages of the queue are the same, and none is the one that could not
\* be sent.
LEMMA QueueDistinct ==
  ASSUME msgq \in Seq(Message), InQueueOrder
  PROVE  /\ \A i, j \in 1..Len(msgq) : i < j => msgq[i] # msgq[j]
         /\ evt \subseteq Message => evt \cap Queue = {}
<1>1. \A m, k \in Message : Before(m, k) => m # k
  BY DEF Before, Message
<1>2. \A i \in 1..Len(msgq) : msgq[i] \in Message
  OBVIOUS
<1> QED
  BY <1>1, <1>2 DEF InQueueOrder, Queue

LEMMA HeapQueued ==
  ASSUME msgq \in Seq(Message), HeapInv, NEW m \in Message,
         Queued(m) \/ UNCHANGED <<heap, msgq>>, UNCHANGED evt
  PROVE  heap' = Queue' \cup evt'
<1>1. CASE UNCHANGED <<heap, msgq>>
  BY <1>1 DEF HeapInv, Queue
<1>2. CASE ~UNCHANGED <<heap, msgq>>
  <2>1. /\ heap' = heap \cup {m} /\ Len(msgq) \in Nat
        /\ Len(msgq') = Len(msgq) + 1 /\ msgq'[Len(msgq) + 1] = m
        /\ \A i \in 1..Len(msgq) : msgq'[i] = msgq[i]
    BY <1>2, QueuedGrows
  <2>2. 1..Len(msgq') = 1..Len(msgq) \cup {Len(msgq) + 1}
    BY <2>1
  <2>3. Queue' = Queue \cup {m}
    BY <2>1, <2>2 DEF Queue
  <2> QED
    BY <2>1, <2>3 DEF HeapInv
<1> QED
  BY <1>1, <1>2

LEMMA HeapSend ==
  ASSUME TypeInv, OrderInv, HeapInv, SendNext
  PROVE  HeapInv'
<1>1. /\ lpc = "serve" /\ evt = {} /\ msgq # <<>> /\ msgq' = Tail(msgq)
      /\ \/ heap' = heap \ {Head(msgq)} /\ UNCHANGED <<evt, lpc>>
         \/ evt' = {Head(msgq)} /\ lpc' = "failed" /\ UNCHANGED heap
  BY DEF SendNext, HeapInv
<1>2. msgq \in Seq(Message)
  BY DEF TypeInv, TypeOK
<1>3. /\ Head(msgq) = msgq[1] /\ Len(msgq) \in Nat /\ 1 \in 1..Len(msgq)
      /\ Len(msgq') = Len(msgq) - 1 /\ \A i \in 1..Len(msgq') : msgq'[i] = msgq[i + 1]
  BY <1>1, <1>2, HeadTailProperties
<1>4. \A i \in 1..Len(msgq) : \/ i = 1
                              \/ i - 1 \in 1..Len(msgq') /\ msgq[i] = msgq'[i - 1]
  BY <1>3
<1>5. \A i \in 1..Len(msgq') : i + 1 \in 1..Len(msgq) /\ 1 < i + 1
  BY <1>3
<1>6. Queue = Queue' \cup {Head(msgq)}
  BY <1>3, <1>4, <1>5 DEF Queue
<1>7. Head(msgq) \notin Queue'
  <2>1. \A i \in 1..Len(msgq') : msgq'[i] # msgq[1]
    BY <1>2, <1>3, <1>5, QueueDistinct DEF OrderInv
  <2> QED
    BY <1>3, <2>1 DEF Queue
<1> QED
  BY <1>1, <1>6, <1>7 DEF HeapInv

LEMMA HeapStep ==
  ASSUME TypeInv, OrderInv, HeapInv, [Next]_vars
  PROVE  HeapInv'
<1>a. msgq \in Seq(Message) /\ evt \subseteq Message
  BY DEF TypeInv, TypeOK
<1>1. ASSUME NEW p \in Printers, PrintMsg(p) PROVE HeapInv'
  BY <1>1 DEF PrintMsg, HeapInv, Queue
<1>2. ASSUME NEW p \in Printers, Put(p) PROVE HeapInv'
  <2>1. PICK m \in held[p] :
          /\ Queued(m) \/ UNCHANGED <<heap, msgq>>
          /\ UNCHANGED <<evt, lpc>>
    BY <1>2 DEF Put
  <2>2. m \in Message
    BY <2>1 DEF TypeInv, TypeOK
  <2> QED
    BY <1>a, <2>1, <2>2, HeapQueued DEF HeapInv
<1>3. CASE Online \/ ShowError
  <2>1. /\ tcpCli # None /\ LogPrints /\ UNCHANGED evt
        /\ evt # {} => lpc' \in {"failed", "close"}
    BY <1>3 DEF Online, ShowError, TypeInv, HeapInv
  <2>2. Text(LogTask) \in Message
    BY <2>1, TextType DEF TypeInv, Everyone
  <2> QED
    BY <1>a, <2>1, <2>2, HeapQueued DEF HeapInv, LogPrints
<1>4. CASE SendNext
  BY <1>4, HeapSend
<1>5. CASE Close
  <2>1. evt \cap Queue = {}
    BY <1>a, QueueDistinct DEF OrderInv
  <2> QED
    BY <1>5, <2>1 DEF Close, HeapInv, Queue
<1>6. CASE Accept \/ CheckOffline \/ Leave \/ UNCHANGED vars
  BY <1>6 DEF Accept, CheckOffline, Leave, vars, HeapInv, Queue
<1> QED
  BY <1>1, <1>2, <1>3, <1>4, <1>5, <1>6 DEF Next, Serve, Done

LEMMA SpecHeap == Spec => [](TypeInv /\ OrderInv /\ HeapInv)
<1>1. Init => HeapInv
  BY DEF Init, HeapInv, Queue
<1>2. TypeInv /\ OrderInv /\ HeapInv /\ [Next]_vars => HeapInv'
  BY HeapStep
<1> QED
  BY <1>1, <1>2, SpecOrder, PTL DEF Spec

\* Every message is freed: once it is sent, when its client is closed, or when it
\* finds the queue full (tcp_srv.c:83, 112).
THEOREM SpecNoLeak == Spec => []NoLeak
<1>1. TypeInv /\ HeapInv => NoLeak
  <2> SUFFICES ASSUME TypeInv, HeapInv PROVE NoLeak
    OBVIOUS
  <2>1. DOMAIN msgq = 1..Len(msgq)
    BY DEF TypeInv, TypeOK
  <2> QED
    BY <2>1 DEF HeapInv, Queue, NoLeak
<1> QED
  BY <1>1, SpecHeap, PTL

-----------------------------------------------------------------------------
\* What a client gets that was not meant for it: only the coming of a client adds
\* to it, for what is printed is meant for the client there is.
BoundInv ==
  /\ \A p \in Printers : \A m, k \in held[p] : m = k
  /\ tcpCli # None =>
       /\ IsFiniteSet(Stale(tcpCli))
       /\ Cardinality(Stale(tcpCli)) <= Cap + Cardinality(Printers)

\* A queue has no more members than its length.
LEMMA QueueSize ==
  ASSUME msgq \in Seq(Message)
  PROVE  IsFiniteSet(Queue) /\ Cardinality(Queue) <= Len(msgq)
<1> DEFINE f == [i \in 1..Len(msgq) |-> msgq[i]]
<1>1. Len(msgq) \in Nat /\ f \in Surjection(1..Len(msgq), Queue)
  BY DEF Surjection, Queue
<1>2. \A n \in Nat : IsFiniteSet(1..n) /\ Cardinality(1..n) = n
  BY FS_Interval
<1> QED
  BY <1>1, <1>2, FS_Surjection

\* The printing tasks hold no more messages than they are.
LEMMA InHandSize ==
  ASSUME OrderInv, BoundInv
  PROVE  IsFiniteSet(InHand) /\ Cardinality(InHand) <= Cardinality(Printers)
<1> DEFINE f == [m \in InHand |-> m.from]
<1>1. \A m \in InHand : m.from \in Printers /\ m \in held[m.from]
  BY DEF InHand, OrderInv, HeldLast
<1>2. f \in Injection(InHand, Printers)
  <2>1. f \in [InHand -> Printers]
    BY <1>1
  <2>2. \A m, k \in InHand : f[m] = f[k] => m = k
    BY <1>1 DEF BoundInv
  <2> QED
    BY <2>1, <2>2 DEF Injection, IsInjective
<1> QED
  BY <1>2, PrintersAssumption, FS_Injection

LEMMA BoundStep ==
  ASSUME TypeInv, OrderInv, HeapInv, BoundInv, [Next]_vars
  PROVE  BoundInv'
<1> USE DEF BoundInv
<1>a. /\ held \in [Printers -> SUBSET Message] /\ msgq \in Seq(Message)
      /\ got \in Seq(Message) /\ tcpCli \in {None, clients} /\ clients \in Nat
  BY DEF TypeInv, TypeOK
\* A step that adds nothing to what is stale.
<1>b. ASSUME UNCHANGED tcpCli, tcpCli # None => Stale(tcpCli)' \subseteq Stale(tcpCli),
             \A p \in Printers : \A m, k \in held'[p] : m = k
      PROVE  BoundInv'
  <2>1. CASE tcpCli = None
    BY <1>b, <2>1
  <2>2. CASE tcpCli # None
    <3>1. IsFiniteSet(Stale(tcpCli)) /\ Cardinality(Stale(tcpCli)) <= Cap + Cardinality(Printers)
      BY <2>2
    <3>2. /\ IsFiniteSet(Stale(tcpCli)') /\ Cardinality(Stale(tcpCli)') <= Cardinality(Stale(tcpCli))
      BY <1>b, <2>2, <3>1, FS_Subset
    <3>3. /\ Cardinality(Stale(tcpCli)) \in Nat /\ Cardinality(Stale(tcpCli)') \in Nat
          /\ Cardinality(Printers) \in Nat /\ Cap \in Nat
      BY <3>1, <3>2, FS_CardinalityType, PrintersAssumption, CapAssumption
    <3> QED
      BY <1>b, <3>1, <3>2, <3>3
  <2> QED
    BY <2>1, <2>2
<1>1. ASSUME NEW p \in Printers, PrintMsg(p) PROVE BoundInv'
  <2>1. /\ held' = [held EXCEPT ![p] = {Text(p)}] /\ UNCHANGED <<tcpCli, heap, got>>
        /\ tcpCli # None
    BY <1>1 DEF PrintMsg
  <2>2. ~(Text(p).for < tcpCli)
    BY <1>a, <2>1 DEF Text, None
  <2>3. \A q \in Printers : held'[q] \subseteq held[q] \cup {Text(p)}
    BY <1>a, <2>1
  <2>4. Stale(tcpCli)' \subseteq Stale(tcpCli)
    BY <2>1, <2>2, <2>3 DEF Stale, InHand, Received
  <2>5. \A q \in Printers : \A m, k \in held'[q] : m = k
    BY <1>a, <2>1
  <2> QED
    BY <1>b, <2>1, <2>4, <2>5
<1>2. ASSUME NEW p \in Printers, Put(p) PROVE BoundInv'
  <2>1. PICK m \in held[p] :
          /\ held' = [held EXCEPT ![p] = {}]
          /\ Queued(m) \/ UNCHANGED <<heap, msgq>>
          /\ UNCHANGED <<tcpCli, got>>
    BY <1>2 DEF Put
  <2>2. \A q \in Printers : held'[q] \subseteq held[q]
    BY <1>a, <2>1
  <2>3. heap' \subseteq heap \cup {m}
    BY <2>1 DEF Queued
  <2>4. Stale(tcpCli)' \subseteq Stale(tcpCli)
    BY <2>1, <2>2, <2>3 DEF Stale, InHand, Received
  <2> QED
    BY <1>b, <2>1, <2>2, <2>4
<1>3. CASE Online \/ ShowError
  <2>1. /\ tcpCli # None /\ LogPrints /\ UNCHANGED <<tcpCli, held, got>>
    BY <1>3 DEF Online, ShowError, TypeInv
  <2>2. heap' \subseteq heap \cup {Text(LogTask)} /\ ~(Text(LogTask).for < tcpCli)
    BY <1>a, <2>1 DEF LogPrints, Queued, Text, None
  <2>3. Stale(tcpCli)' \subseteq Stale(tcpCli)
    BY <2>1, <2>2 DEF Stale, InHand, Received
  <2> QED
    BY <1>b, <2>1, <2>3
<1>4. CASE SendNext
  <2>1. /\ UNCHANGED <<tcpCli, held>> /\ heap' \subseteq heap /\ msgq # <<>>
        /\ got' = got \/ got' = Append(got, Head(msgq))
    BY <1>4 DEF SendNext
  <2>2. Head(msgq) \in heap
    BY <1>a, <2>1, HeadTailProperties DEF HeapInv, Queue
  <2>3. {got'[i] : i \in DOMAIN got'} \subseteq {got[i] : i \in DOMAIN got} \cup {Head(msgq)}
    <3>1. Head(msgq) \in Message
      BY <1>a, <2>1, HeadTailProperties
    <3>2. CASE got' = got
      BY <3>2
    <3>3. CASE got' = Append(got, Head(msgq))
      BY <1>a, <3>1, <3>3
    <3> QED
      BY <2>1, <3>2, <3>3
  <2>4. Stale(tcpCli)' \subseteq Stale(tcpCli)
    <3>1. InHand' = InHand /\ Received' \subseteq Received \cup {Head(msgq)}
      BY <2>1, <2>3 DEF InHand, Received
    <3> QED
      BY <2>1, <2>2, <3>1 DEF Stale
  <2> QED
    BY <1>b, <2>1, <2>4
<1>5. CASE Close
  BY <1>5 DEF Close
<1>6. CASE CheckOffline \/ Leave \/ UNCHANGED vars
  <2>1. UNCHANGED <<tcpCli, heap, held, got>>
    BY <1>6 DEF CheckOffline, Leave, vars
  <2>2. Stale(tcpCli)' \subseteq Stale(tcpCli)
    BY <2>1 DEF Stale, InHand, Received
  <2> QED
    BY <1>b, <2>1, <2>2
\* The client that comes finds the queue and what the tasks have in hand.
<1>7. CASE Accept
  <2>1. /\ lpc = "accept" /\ got' = <<>> /\ UNCHANGED <<heap, held>>
    BY <1>7 DEF Accept
  <2>2. heap = Queue
    BY <2>1 DEF HeapInv
  <2>3. Stale(tcpCli)' \subseteq Queue \cup InHand
    <3>1. Received' = {} /\ InHand' = InHand
      BY <2>1 DEF Received, InHand
    <3> QED
      BY <2>1, <2>2, <3>1 DEF Stale
  <2>4. /\ IsFiniteSet(Queue) /\ Cardinality(Queue) <= Len(msgq) /\ Len(msgq) <= Cap
        /\ Len(msgq) \in Nat
    BY <1>a, QueueSize DEF TypeInv, TypeOK
  <2>5. IsFiniteSet(InHand) /\ Cardinality(InHand) <= Cardinality(Printers)
    BY InHandSize
  <2>6. /\ IsFiniteSet(Queue \cup InHand)
        /\ Cardinality(Queue \cup InHand) <= Cardinality(Queue) + Cardinality(InHand)
    <3>1. IsFiniteSet(Queue \cap InHand)
      BY <2>4, FS_Intersection
    <3>2. /\ Cardinality(Queue \cap InHand) \in Nat /\ Cardinality(Queue) \in Nat
          /\ Cardinality(InHand) \in Nat
      BY <2>4, <2>5, <3>1, FS_CardinalityType
    <3>3. /\ IsFiniteSet(Queue \cup InHand)
          /\ Cardinality(Queue \cup InHand) =
               Cardinality(Queue) + Cardinality(InHand) - Cardinality(Queue \cap InHand)
      BY <2>4, <2>5, FS_Union
    <3> QED
      BY <3>2, <3>3
  <2>7. /\ IsFiniteSet(Stale(tcpCli)')
        /\ Cardinality(Stale(tcpCli)') <= Cardinality(Queue \cup InHand)
    BY <2>3, <2>6, FS_Subset
  <2>8. /\ Cardinality(Stale(tcpCli)') \in Nat /\ Cardinality(Queue \cup InHand) \in Nat
        /\ Cardinality(Queue) \in Nat /\ Cardinality(InHand) \in Nat
        /\ Cardinality(Printers) \in Nat /\ Cap \in Nat
    BY <2>4, <2>5, <2>6, <2>7, FS_CardinalityType, PrintersAssumption, CapAssumption
  <2>9. Cardinality(Stale(tcpCli)') <= Cap + Cardinality(Printers)
    BY <2>4, <2>5, <2>6, <2>7, <2>8
  <2> QED
    BY <2>1, <2>7, <2>9
<1> QED
  BY <1>1, <1>2, <1>3, <1>4, <1>5, <1>6, <1>7 DEF Next, Serve, Done

LEMMA SpecBound == Spec => [](TypeInv /\ OrderInv /\ HeapInv /\ BoundInv)
<1>1. Init => BoundInv
  BY DEF Init, BoundInv
<1>2. TypeInv /\ OrderInv /\ HeapInv /\ BoundInv /\ [Next]_vars => BoundInv'
  BY BoundStep
<1> QED
  BY <1>1, <1>2, SpecHeap, PTL DEF Spec

\* A client gets of what was meant for the clients before it at most what fits in
\* the queue and in the hands of the printing tasks (tcp_srv.c:98-185).
THEOREM SpecStaleBounded == Spec => []StaleBounded
<1>1. BoundInv => StaleBounded
  BY DEF BoundInv, StaleBounded
<1> QED
  BY <1>1, SpecBound, PTL

-----------------------------------------------------------------------------
\* The refinement of LossyFifo.  What may still be delivered is what is queued and
\* what the tasks have in hand; OrderInv makes the head of the queue the first of
\* its task there.
LEMMA TransitComes ==
  ASSUME NEW m, m.from \in Everyone, InTransit' = InTransit \cup {m}
  PROVE  Transit' = [Transit EXCEPT ![m.from] = Transit[m.from] \cup {m.n}]
<1>1. \A t \in Everyone :
        NumbersOf(t)' = IF t = m.from THEN NumbersOf(t) \cup {m.n} ELSE NumbersOf(t)
  BY DEF NumbersOf
<1> QED
  BY <1>1 DEF Transit

LEMMA TransitLeaves ==
  ASSUME NEW m \in InTransit, m.from \in Everyone, InTransit' \subseteq InTransit,
         \A k \in InTransit : k \in InTransit' \/ k = m,
         \A k \in InTransit' : k.from = m.from => k.n # m.n
  PROVE  /\ m.n \in Transit[m.from]
         /\ Transit' = [Transit EXCEPT ![m.from] = Transit[m.from] \ {m.n}]
<1>1. m.n \in NumbersOf(m.from)
  BY DEF NumbersOf
<1>2. ASSUME NEW t \in Everyone
      PROVE  NumbersOf(t)' = IF t = m.from THEN NumbersOf(t) \ {m.n} ELSE NumbersOf(t)
  <2>1. CASE t = m.from
    BY <2>1 DEF NumbersOf
  <2>2. CASE t # m.from
    BY <2>2 DEF NumbersOf
  <2> QED
    BY <2>1, <2>2
<1> QED
  BY <1>1, <1>2 DEF Transit

LEMMA SeenGrows ==
  ASSUME got \in Seq(Message), NEW m \in Message, got' = Append(got, m)
  PROVE  Seen' = Append(Seen, <<m.from, m.n>>)
<1>1. /\ Len(got) \in Nat /\ Len(got') = Len(got) + 1 /\ got'[Len(got) + 1] = m
      /\ \A i \in 1..Len(got) : got'[i] = got[i]
  OBVIOUS
<1> QED
  BY <1>1 DEF Seen

\* What queueing a message does to what is in transit, apart from the hands.
LEMMA InTransitQueued ==
  ASSUME msgq \in Seq(Message), NEW m \in Message, Queued(m), ~UNCHANGED <<heap, msgq>>
  PROVE  {msgq'[i] : i \in DOMAIN msgq'} = {msgq[i] : i \in DOMAIN msgq} \cup {m}
<1>1. /\ Len(msgq) \in Nat /\ Len(msgq') = Len(msgq) + 1 /\ msgq'[Len(msgq) + 1] = m
      /\ \A i \in 1..Len(msgq) : msgq'[i] = msgq[i]
      /\ DOMAIN msgq = 1..Len(msgq) /\ DOMAIN msgq' = 1..Len(msgq')
  BY QueuedGrows
<1>2. DOMAIN msgq' = DOMAIN msgq \cup {Len(msgq) + 1}
  BY <1>1
<1> QED
  BY <1>1, <1>2

\* A step of a printing task.
LEMMA PrintRefines ==
  ASSUME TypeInv, NEW p \in Printers, PrintMsg(p)
  PROVE  Promise!Make(p)
<1>1. /\ held[p] = {} /\ held' = [held EXCEPT ![p] = {Text(p)}]
      /\ printed' = [printed EXCEPT ![p] = printed[p] + 1] /\ UNCHANGED <<msgq, got>>
  BY DEF PrintMsg
<1>2. held \in [Printers -> SUBSET Message] /\ p \in Everyone
  BY DEF TypeInv, TypeOK, Everyone
<1>3. Text(p).from = p /\ Text(p).n = printed[p] + 1
  BY DEF Text
<1>4. InHand' = InHand \cup {Text(p)}
  BY <1>1, <1>2 DEF InHand
<1>5. InTransit' = InTransit \cup {Text(p)}
  BY <1>1, <1>4 DEF InTransit
<1>6. Transit' = [Transit EXCEPT ![p] = Transit[p] \cup {printed[p] + 1}]
  BY <1>2, <1>3, <1>5, TransitComes
<1>7. Seen' = Seen
  BY <1>1 DEF Seen
<1> QED
  BY <1>1, <1>6, <1>7 DEF Promise!Make

\* What a task has in hand is queued, and stays in transit, or is lost.
LEMMA PutRefines ==
  ASSUME TypeInv, OrderInv, BoundInv, NEW p \in Printers, Put(p)
  PROVE  UNCHANGED <<printed, Transit, Seen>> \/ Promise!Lose(p)
<1>1. PICK m \in held[p] :
        /\ held' = [held EXCEPT ![p] = {}]
        /\ Queued(m) \/ UNCHANGED <<heap, msgq>>
        /\ UNCHANGED <<printed, got>>
  BY DEF Put
<1>2. held \in [Printers -> SUBSET Message] /\ p \in Everyone /\ msgq \in Seq(Message)
      /\ DOMAIN msgq = 1..Len(msgq)
  BY DEF TypeInv, TypeOK, Everyone
<1>3. m \in Message /\ m.from = p /\ held[p] = {m}
  BY <1>1, <1>2 DEF OrderInv, HeldLast, BoundInv
<1>4. InHand = InHand' \cup {m}
  BY <1>1, <1>2, <1>3 DEF InHand
<1>5. Seen' = Seen
  BY <1>1 DEF Seen
<1>6. CASE ~UNCHANGED <<heap, msgq>>
  <2>1. {msgq'[i] : i \in DOMAIN msgq'} = {msgq[i] : i \in DOMAIN msgq} \cup {m}
    BY <1>1, <1>2, <1>3, <1>6, InTransitQueued
  <2>2. InTransit' = InTransit
    BY <1>4, <2>1 DEF InTransit
  <2>3. Transit' = Transit
    BY <2>2 DEF Transit, NumbersOf
  <2> QED
    BY <1>1, <1>5, <2>3
<1>7. CASE UNCHANGED <<heap, msgq>>
  <2>1. /\ m \in InTransit /\ InTransit' \subseteq InTransit
        /\ \A k \in InTransit : k \in InTransit' \/ k = m
    BY <1>4, <1>7 DEF InTransit
  <2>2. ASSUME NEW k \in InTransit', k.from = p PROVE k.n # m.n
    <3>1. CASE k \in {msgq[i] : i \in DOMAIN msgq}
      <4>1. PICK i \in 1..Len(msgq) : k = msgq[i]
        BY <1>2, <3>1
      <4>2. k.n < m.n /\ k \in Message
        BY <1>1, <1>2, <1>3, <2>2, <4>1 DEF OrderInv, HeldLast, Before
      <4> QED
        BY <1>3, <4>2 DEF Message
    <3>2. CASE k \in InHand'
      <4>1. PICK q \in Printers : k \in held'[q]
        BY <3>2 DEF InHand
      <4>2. q # p /\ k \in held[q]
        BY <1>1, <1>2, <4>1
      <4>3. k.from = q
        BY <4>2 DEF OrderInv, HeldLast
      <4> QED
        BY <2>2, <4>2, <4>3
    <3> QED
      BY <1>7, <3>1, <3>2 DEF InTransit
  <2>3. /\ m.n \in Transit[p]
        /\ Transit' = [Transit EXCEPT ![p] = Transit[p] \ {m.n}]
    BY <1>2, <1>3, <2>1, <2>2, TransitLeaves
  <2> QED
    BY <1>1, <1>5, <2>3 DEF Promise!Lose
<1> QED
  BY <1>6, <1>7

\* The log task prints, and its message is queued or lost.
LEMMA LogPrintRefines ==
  ASSUME TypeInv, tcpCli # None, LogPrints, UNCHANGED <<held, got>>
  PROVE  Promise!Make(LogTask)
<1>1. /\ printed' = [printed EXCEPT ![LogTask] = printed[LogTask] + 1]
      /\ Queued(Text(LogTask)) \/ UNCHANGED <<heap, msgq>>
  BY DEF LogPrints
<1>2. LogTask \in Everyone /\ msgq \in Seq(Message)
  BY DEF TypeInv, TypeOK, Everyone
<1>3. /\ Text(LogTask).from = LogTask /\ Text(LogTask).n = printed[LogTask] + 1
      /\ Text(LogTask) \in Message
  BY <1>2, TextType DEF TypeInv, Text
<1>4. Seen' = Seen /\ InHand' = InHand
  BY DEF Seen, InHand
<1>5. CASE UNCHANGED <<heap, msgq>>
  <2>1. Transit' = Transit
    BY <1>4, <1>5 DEF Transit, NumbersOf, InTransit
  <2> QED
    BY <1>1, <1>4, <2>1 DEF Promise!Make
<1>6. CASE ~UNCHANGED <<heap, msgq>>
  <2>1. {msgq'[i] : i \in DOMAIN msgq'} = {msgq[i] : i \in DOMAIN msgq} \cup {Text(LogTask)}
    BY <1>1, <1>2, <1>3, <1>6, InTransitQueued
  <2>2. InTransit' = InTransit \cup {Text(LogTask)}
    BY <1>4, <2>1 DEF InTransit
  <2>3. Transit' = [Transit EXCEPT ![LogTask] = Transit[LogTask] \cup {printed[LogTask] + 1}]
    BY <1>2, <1>3, <2>2, TransitComes
  <2> QED
    BY <1>1, <1>4, <2>3 DEF Promise!Make
<1> QED
  BY <1>5, <1>6

\* The head of the queue is delivered, or lost.
LEMMA SendRefines ==
  ASSUME TypeInv, OrderInv, SendNext
  PROVE  \E t \in Everyone : Promise!Lose(t) \/ Promise!Deliver(t)
<1> DEFINE h == Head(msgq)
<1>1. /\ msgq # <<>> /\ msgq' = Tail(msgq) /\ UNCHANGED <<held, printed>>
      /\ got' = got \/ got' = Append(got, h)
  BY DEF SendNext
<1>2. /\ held \in [Printers -> SUBSET Message] /\ msgq \in Seq(Message)
      /\ got \in Seq(Message) /\ DOMAIN msgq = 1..Len(msgq)
  BY DEF TypeInv, TypeOK
<1>3. /\ h = msgq[1] /\ 1 \in 1..Len(msgq) /\ Len(msgq) \in Nat
      /\ Len(msgq') = Len(msgq) - 1 /\ \A i \in 1..Len(msgq') : msgq'[i] = msgq[i + 1]
      /\ h \in Message /\ DOMAIN msgq' = 1..Len(msgq')
  BY <1>1, <1>2, HeadTailProperties
<1>4. /\ \A i \in 1..Len(msgq) : i = 1 \/ (i - 1 \in 1..Len(msgq') /\ msgq[i] = msgq'[i - 1])
      /\ \A i \in 1..Len(msgq') : i + 1 \in 1..Len(msgq) /\ 1 < i + 1
  BY <1>3
<1>5. /\ InHand' = InHand /\ h \in InTransit /\ InTransit' \subseteq InTransit
      /\ \A k \in InTransit : k \in InTransit' \/ k = h
  <2>1. InHand' = InHand
    BY <1>1 DEF InHand
  <2>2. {msgq'[i] : i \in 1..Len(msgq')} \subseteq {msgq[i] : i \in 1..Len(msgq)}
    BY <1>3, <1>4
  <2>3. \A k \in {msgq[i] : i \in 1..Len(msgq)} : k \in {msgq'[i] : i \in 1..Len(msgq')} \/ k = h
    BY <1>3, <1>4
  <2>4. h \in {msgq[i] : i \in 1..Len(msgq)}
    BY <1>3
  <2> QED
    BY <1>2, <1>3, <2>1, <2>2, <2>3, <2>4 DEF InTransit
<1>6. h.from \in Everyone /\ h.n \in Nat
  BY <1>3 DEF Message
<1>7. ASSUME NEW k \in InTransit', k.from = h.from PROVE h.n < k.n
  <2>1. CASE k \in {msgq'[i] : i \in DOMAIN msgq'}
    <3>1. PICK i \in 1..Len(msgq') : k = msgq[i + 1]
      BY <1>3, <2>1
    <3> QED
      BY <1>3, <1>4, <1>7, <3>1 DEF OrderInv, InQueueOrder, Before
  <2>2. CASE k \in InHand
    <3>1. PICK q \in Printers : k \in held[q]
      BY <2>2 DEF InHand
    <3> QED
      BY <1>3, <1>7, <3>1 DEF OrderInv, HeldLast, Before
  <2> QED
    BY <1>5, <2>1, <2>2 DEF InTransit
<1>8. /\ h.n \in Transit[h.from]
      /\ Transit' = [Transit EXCEPT ![h.from] = Transit[h.from] \ {h.n}]
  <2>1. \A k \in InTransit' : k.from = h.from => k.n # h.n
    <3> SUFFICES ASSUME NEW k \in InTransit', k.from = h.from PROVE k.n # h.n
      OBVIOUS
    <3>1. h.n < k.n
      BY <1>7
    <3> QED
      BY <1>6, <3>1
  <2> HIDE DEF h
  <2> QED
    BY <1>5, <1>6, <2>1, TransitLeaves
<1>9. \A n \in Transit[h.from] : h.n <= n
  <2> SUFFICES ASSUME NEW k \in InTransit, k.from = h.from PROVE h.n <= k.n
    BY <1>6 DEF Transit, NumbersOf
  <2>1. CASE k = h
    BY <1>6, <2>1
  <2>2. CASE k \in InTransit'
    <3>1. h.n < k.n
      BY <1>7, <2>2
    <3>2. k.n \in Nat
      <4>1. k \in {msgq[i] : i \in 1..Len(msgq)} \/ k \in InHand
        BY <1>2 DEF InTransit
      <4>2. InHand \subseteq Message
        BY <1>2 DEF InHand
      <4>3. k \in Message
        BY <1>2, <4>1, <4>2
      <4> QED
        BY <4>3 DEF Message
    <3> QED
      BY <1>6, <3>1, <3>2
  <2> QED
    BY <1>5, <2>1, <2>2
<1>10. CASE got' = got
  <2>1. Seen' = Seen
    BY <1>10 DEF Seen
  <2>2. Promise!Lose(h.from)
    BY <1>1, <1>8, <2>1 DEF Promise!Lose
  <2> QED
    BY <1>6, <2>2
<1>11. CASE got' = Append(got, h)
  <2>1. Seen' = Append(Seen, <<h.from, h.n>>)
    BY <1>2, <1>3, <1>11, SeenGrows
  <2>2. Promise!Deliver(h.from)
    BY <1>1, <1>8, <1>9, <2>1 DEF Promise!Deliver
  <2> QED
    BY <1>6, <2>2
<1> QED
  BY <1>1, <1>10, <1>11

LEMMA RefineStep ==
  ASSUME TypeInv, OrderInv, BoundInv, [Next]_vars
  PROVE  [Promise!Next]_(Promise!vars)
<1> USE DEF Promise!vars
<1>a. Printers \subseteq Everyone /\ LogTask \in Everyone
  BY DEF Everyone
<1>1. ASSUME NEW p \in Printers, PrintMsg(p) PROVE Promise!Next
  <2>1. Promise!Make(p)
    BY <1>1, PrintRefines
  <2> QED
    BY <1>a, <2>1 DEF Promise!Next
<1>2. ASSUME NEW p \in Printers, Put(p) PROVE [Promise!Next]_(Promise!vars)
  <2>1. UNCHANGED <<printed, Transit, Seen>> \/ Promise!Lose(p)
    BY <1>2, PutRefines
  <2> QED
    BY <1>a, <2>1 DEF Promise!Next
<1>3. CASE Accept
  <2>1. Seen' = <<>> /\ UNCHANGED <<printed, Transit>>
    BY <1>3 DEF Accept, Seen, Transit, NumbersOf, InTransit, InHand
  <2> QED
    BY <2>1 DEF Promise!Next, Promise!NewReader
<1>4. CASE Online \/ ShowError
  <2>1. tcpCli # None /\ LogPrints /\ UNCHANGED <<held, got>>
    BY <1>4 DEF Online, ShowError, TypeInv
  <2>2. Promise!Make(LogTask)
    BY <2>1, LogPrintRefines
  <2> QED
    BY <1>a, <2>2 DEF Promise!Next
<1>5. CASE SendNext
  <2>1. \E t \in Everyone : Promise!Lose(t) \/ Promise!Deliver(t)
    BY <1>5, SendRefines
  <2> QED
    BY <2>1 DEF Promise!Next
<1>6. CASE CheckOffline \/ Close \/ Leave \/ UNCHANGED vars
  <2>1. UNCHANGED <<printed, msgq, held, got>>
    BY <1>6 DEF CheckOffline, Close, Leave, vars
  <2> QED
    BY <2>1 DEF Seen, Transit, NumbersOf, InTransit, InHand
<1> QED
  BY <1>1, <1>2, <1>3, <1>4, <1>5, <1>6 DEF Next, Serve, Done

LEMMA RefineInit == Init => Promise!Init
<1> SUFFICES ASSUME Init PROVE Promise!Init
  OBVIOUS
<1>1. msgq = <<>> /\ got = <<>> /\ InHand = {} /\ printed = [t \in Everyone |-> 0]
  BY DEF Init, InHand
<1>2. InTransit = {} /\ Seen = <<>>
  BY <1>1 DEF InTransit, Seen
<1>3. Transit = [t \in Everyone |-> {}]
  BY <1>2 DEF Transit, NumbersOf
<1> QED
  BY <1>1, <1>2, <1>3 DEF Promise!Init

\* The log server implements LossyFifo for any tasks and any queue: over all
\* clients, no message is received twice or after a later one of its task, and
\* none that was not printed (main.c:170-172, tcp_srv.c:64-117).
THEOREM SpecLossyFifo == Spec => ImplementsLossyFifo
<1>1. Init => Promise!Init
  BY RefineInit
<1>2. TypeInv /\ OrderInv /\ BoundInv /\ [Next]_vars => [Promise!Next]_(Promise!vars)
  BY RefineStep
<1> QED
  BY <1>1, <1>2, SpecBound, PTL DEF Spec, ImplementsLossyFifo, Promise!Spec
=============================================================================
