------------------------- MODULE CharDevicesProofs -------------------------
(***************************************************************************)
(* The serial port sends what was put on its queue, and a reader gets what *)
(* was put into the input buffer, in order and each once; the console's    *)
(* lock keeps two prints apart; and a lone reader's wait never fails: for  *)
(* any size of the ring buffers, any threads and any keys.                 *)
(***************************************************************************)
EXTENDS CharDevices, SequenceTheorems, FiniteSetTheorems, TLAPS

Slots == 0 .. INTQ_BUFSIZE - 1
intq(F, P, W) == [buf : F, head : P, tail : P, waiter : W, lock : W]
Queues(S) == intq([Slots -> S], Slots, Writer \cup Reader \cup {Nobody})

\* next, the number of bytes between tail and head, and the slot of the
\* i-th byte, without remainders.
Up(h) == IF h = INTQ_BUFSIZE - 1 THEN 0 ELSE h + 1
Count(h, t) == IF h >= t THEN h - t ELSE h - t + INTQ_BUFSIZE
Slot(t, i) == IF t + i < INTQ_BUFSIZE THEN t + i ELSE t + i - INTQ_BUFSIZE

-----------------------------------------------------------------------------
(* Remainders of numbers less than one turn of the ring away.              *)
LEMMA ModInside == ASSUME NEW n \in Nat \ {0}, NEW x \in 0..n - 1 PROVE x % n = x
  OBVIOUS

(* One turn up, where intq.c's next wraps around.                          *)
LEMMA ModAbove == ASSUME NEW n \in Nat \ {0}, NEW x \in n..2 * n - 1 PROVE x % n = x - n
  OBVIOUS

(* One turn down, where head - tail of intq.c is negative.                 *)
LEMMA ModBelow == ASSUME NEW n \in Nat \ {0}, NEW x \in (-n)..(-1) PROVE x % n = x + n
  OBVIOUS

(* The remainders in intq.c are one turn of the ring at most.              *)
LEMMA RingArithmetic ==
  ASSUME NEW h \in Slots, NEW t \in Slots
  PROVE  /\ next(h) = Up(h) /\ Up(h) \in Slots
         /\ (h - t) % INTQ_BUFSIZE = Count(h, t)
         /\ \A i \in Slots : (t + i) % INTQ_BUFSIZE = Slot(t, i) /\ Slot(t, i) \in Slots
<1>0. INTQ_BUFSIZE \in Nat \ {0, 1}
  BY CharDevicesAssumption
<1>1. next(h) = Up(h) /\ Up(h) \in Slots
  <2>1. CASE h = INTQ_BUFSIZE - 1
    <3>1. h + 1 \in INTQ_BUFSIZE .. 2 * INTQ_BUFSIZE - 1 /\ h + 1 - INTQ_BUFSIZE = 0
      BY <1>0, <2>1
    <3> QED
      BY <1>0, <2>1, <3>1, ModAbove DEF next, Up, Slots
  <2>2. CASE h # INTQ_BUFSIZE - 1
    <3>1. h + 1 \in 0 .. INTQ_BUFSIZE - 1
      BY <1>0, <2>2 DEF Slots
    <3> QED
      BY <1>0, <2>2, <3>1, ModInside DEF next, Up, Slots
  <2> QED
    BY <2>1, <2>2
<1>2. (h - t) % INTQ_BUFSIZE = Count(h, t)
  <2>1. CASE h >= t
    <3>1. h - t \in 0 .. INTQ_BUFSIZE - 1
      BY <1>0, <2>1 DEF Slots
    <3> QED
      BY <1>0, <2>1, <3>1, ModInside DEF Count
  <2>2. CASE ~(h >= t)
    <3>1. h - t \in (-INTQ_BUFSIZE) .. (-1)
      BY <1>0, <2>2 DEF Slots
    <3> QED
      BY <1>0, <2>2, <3>1, ModBelow DEF Count
  <2> QED
    BY <2>1, <2>2
<1>3. ASSUME NEW i \in Slots
      PROVE  (t + i) % INTQ_BUFSIZE = Slot(t, i) /\ Slot(t, i) \in Slots
  <2>1. CASE t + i < INTQ_BUFSIZE
    <3>1. t + i \in 0 .. INTQ_BUFSIZE - 1
      BY <1>0, <2>1 DEF Slots
    <3> QED
      BY <1>0, <2>1, <3>1, ModInside DEF Slot, Slots
  <2>2. CASE ~(t + i < INTQ_BUFSIZE)
    <3>1. t + i \in INTQ_BUFSIZE .. 2 * INTQ_BUFSIZE - 1
      BY <1>0, <2>2 DEF Slots
    <3>2. Slot(t, i) = t + i - INTQ_BUFSIZE /\ Slot(t, i) \in Slots
      BY <1>0, <2>2 DEF Slot, Slots
    <3>3. (t + i) % INTQ_BUFSIZE = t + i - INTQ_BUFSIZE
      BY <1>0, <3>1, ModAbove DEF Slots
    <3> QED
      BY <3>2, <3>3
  <2> QED
    BY <2>1, <2>2
<1> QED
  BY <1>1, <1>2, <1>3

(* The types of the fields of a queue.                                    *)
LEMMA Fields == ASSUME NEW F, NEW P, NEW W, NEW q \in intq(F, P, W)
                PROVE  q.buf \in F /\ q.head \in P /\ q.tail \in P
  BY DEF intq

(* The contents of a queue, by its slots.                                  *)
LEMMA QueueBySlots ==
  ASSUME NEW S, NEW q \in Queues(S)
  PROVE  /\ Count(q.head, q.tail) \in Slots
         /\ QueueOf(q) = [i \in 1 .. Count(q.head, q.tail) |-> q.buf[Slot(q.tail, i - 1)]]
         /\ QueueOf(q) \in Seq(S)
         /\ Len(QueueOf(q)) = Count(q.head, q.tail)
<1> DEFINE len == Count(q.head, q.tail)
<1>0. /\ INTQ_BUFSIZE \in Nat \ {0, 1} /\ q.head \in Slots /\ q.tail \in Slots
      /\ q.buf \in [Slots -> S]
  BY CharDevicesAssumption, Fields DEF Queues
<1>1. len \in Slots
  BY <1>0 DEF Slots, Count
<1>2. (q.head - q.tail) % INTQ_BUFSIZE = len
  BY <1>0, RingArithmetic, Zenon
<1>3. \A i \in 1 .. len :
        /\ (q.tail + i - 1) % INTQ_BUFSIZE = Slot(q.tail, i - 1)
        /\ Slot(q.tail, i - 1) \in Slots
  <2>1. \A i \in 1 .. len : q.tail + i - 1 = q.tail + (i - 1) /\ i - 1 \in Slots
    BY <1>0, <1>1 DEF Slots
  <2> QED
    BY <1>0, <2>1, RingArithmetic, Zenon
<1>4. QueueOf(q) = [i \in 1 .. len |-> q.buf[Slot(q.tail, i - 1)]]
  BY <1>2, <1>3 DEF QueueOf
<1> HIDE DEF len
<1>5. len \in Nat /\ \A i \in 1 .. len : q.buf[Slot(q.tail, i - 1)] \in S
  BY <1>0, <1>1, <1>3 DEF Slots
<1>6. QueueOf(q) \in Seq(S) /\ Len(QueueOf(q)) = len
  BY <1>4, <1>5
<1> QED
  BY <1>1, <1>4, <1>6, Zenon DEF len

(* Where the bytes of a queue are after one was put in and one taken out.  *)
LEMMA SlotsMove ==
  ASSUME NEW h \in Slots, NEW t \in Slots
  PROVE  /\ Count(h, t) \in Nat
         /\ \A i \in 1 .. Count(h, t) : Slot(t, i - 1) \in Slots /\ Slot(t, i - 1) # h
         /\ Up(h) # t => Count(Up(h), t) = Count(h, t) + 1 /\ Slot(t, Count(h, t)) = h
         /\ Slot(t, 0) = t
         /\ h # t => /\ Count(h, Up(t)) = Count(h, t) - 1 /\ Count(h, t) > 0
                     /\ \A i \in 1 .. Count(h, t) - 1 : Slot(Up(t), i - 1) = Slot(t, i)
<1>1. INTQ_BUFSIZE \in Nat \ {0, 1}
  BY CharDevicesAssumption
<1>2. Count(h, t) \in Nat /\ Slot(t, 0) = t
  BY <1>1 DEF Slots, Count, Slot
<1>3. ASSUME NEW i \in 1 .. Count(h, t)
      PROVE  Slot(t, i - 1) \in Slots /\ Slot(t, i - 1) # h
  BY <1>1, <1>2 DEF Slots, Count, Slot
<1>4. Up(h) # t => Count(Up(h), t) = Count(h, t) + 1 /\ Slot(t, Count(h, t)) = h
  BY <1>1 DEF Slots, Count, Slot, Up
<1>5. h # t => Count(h, Up(t)) = Count(h, t) - 1 /\ Count(h, t) > 0
  BY <1>1 DEF Slots, Count, Slot, Up
<1>6. ASSUME h # t, NEW i \in 1 .. Count(h, t) - 1
      PROVE  Slot(Up(t), i - 1) = Slot(t, i)
  BY <1>1, <1>2, <1>6 DEF Slots, Count, Slot, Up
<1> QED
  BY <1>2, <1>3, <1>4, <1>5, <1>6

(* The fields of a queue after a change.                                   *)
LEMMA PutFields ==
  ASSUME NEW F, NEW P, NEW W, NEW q \in intq(F, P, W), NEW b,
         [q.buf EXCEPT ![q.head] = b] \in F, next(q.head) \in P, Nobody \in W
  PROVE  /\ Put(q, b) \in intq(F, P, W)
         /\ Put(q, b).buf = [q.buf EXCEPT ![q.head] = b]
         /\ Put(q, b).head = next(q.head) /\ Put(q, b).tail = q.tail
  BY Zenon DEF intq, Put

(* The fields of a queue from which intq_getc has taken a byte.            *)
LEMMA TakenFields ==
  ASSUME NEW F, NEW P, NEW W, NEW q \in intq(F, P, W),
         next(q.tail) \in P, Nobody \in W
  PROVE  /\ Taken(q) \in intq(F, P, W)
         /\ Taken(q).buf = q.buf
         /\ Taken(q).head = q.head /\ Taken(q).tail = next(q.tail)
  BY Zenon DEF intq, Taken

(* Sequences that differ by one element at an end.                         *)
LEMMA LongerAtEnd ==
  ASSUME NEW S, NEW s \in Seq(S), NEW r \in Seq(S), NEW x \in S, Len(r) = Len(s) + 1,
         \A i \in 1 .. Len(s) : r[i] = s[i], r[Len(s) + 1] = x
  PROVE  r = Append(s, x)
  OBVIOUS

(* A sequence that begins with x and goes on with s.                       *)
LEMMA LongerAtFront ==
  ASSUME NEW S, NEW s \in Seq(S), NEW r \in Seq(S), NEW x \in S, Len(r) = Len(s) + 1,
         \A i \in 1 .. Len(s) : r[i + 1] = s[i], r[1] = x
  PROVE  r = <<x>> \o s
  OBVIOUS

(* intq_putc appends: into a buffer that is not full, at the head.         *)
LEMMA PutAppends ==
  ASSUME NEW S, NEW q \in Queues(S), NEW b \in S, ~intq_full(q)
  PROVE  /\ Put(q, b) \in Queues(S)
         /\ QueueOf(Put(q, b)) = Append(QueueOf(q), b)
<1>1. /\ q.head \in Slots /\ q.tail \in Slots /\ q.buf \in [Slots -> S]
      /\ Nobody \in Writer \cup Reader \cup {Nobody}
  BY Fields DEF Queues
<1>2. next(q.head) = Up(q.head) /\ Up(q.head) \in Slots /\ Up(q.head) # q.tail
  BY <1>1, RingArithmetic DEF intq_full
<1>3. [q.buf EXCEPT ![q.head] = b] \in [Slots -> S]
  BY <1>1
<1>4. /\ Put(q, b) \in Queues(S) /\ Put(q, b).buf = [q.buf EXCEPT ![q.head] = b]
      /\ Put(q, b).head = Up(q.head) /\ Put(q, b).tail = q.tail
  BY <1>1, <1>2, <1>3, PutFields DEF Queues
<1> DEFINE p == Put(q, b)
           len == Count(q.head, q.tail)
<1>5. /\ len \in Nat /\ Count(Up(q.head), q.tail) = len + 1 /\ Slot(q.tail, len) = q.head
      /\ \A i \in 1 .. len : Slot(q.tail, i - 1) \in Slots /\ Slot(q.tail, i - 1) # q.head
  BY <1>1, <1>2, SlotsMove
<1> HIDE DEF p, len
<1>6. /\ QueueOf(q) = [i \in 1 .. len |-> q.buf[Slot(q.tail, i - 1)]]
      /\ QueueOf(q) \in Seq(S) /\ Len(QueueOf(q)) = len
  BY QueueBySlots DEF len
<1>7. p \in Queues(S) /\ Count(p.head, p.tail) = len + 1 /\ p.tail = q.tail
  BY <1>4, <1>5 DEF p
<1>8. /\ QueueOf(p) = [i \in 1 .. len + 1 |-> p.buf[Slot(q.tail, i - 1)]]
      /\ QueueOf(p) \in Seq(S) /\ Len(QueueOf(p)) = len + 1
  BY <1>7, QueueBySlots
<1>9. \A i \in 1 .. len : p.buf[Slot(q.tail, i - 1)] = q.buf[Slot(q.tail, i - 1)]
  BY <1>1, <1>4, <1>5 DEF p
<1>10. \A i \in 1 .. len : QueueOf(p)[i] = QueueOf(q)[i]
  BY <1>5, <1>6, <1>8, <1>9
<1>11. QueueOf(p)[len + 1] = b
  <2> DEFINE k == len + 1
  <2>1. k - 1 = len /\ k \in 1 .. len + 1
    BY <1>5
  <2> HIDE DEF k
  <2>2. p.buf[Slot(q.tail, k - 1)] = b
    BY <1>1, <1>4, <1>5, <2>1 DEF p
  <2>3. QueueOf(p)[k] = b
    BY <1>8, <2>1, <2>2
  <2> QED
    BY <2>3 DEF k
<1>12. /\ QueueOf(q) \in Seq(S) /\ QueueOf(p) \in Seq(S)
       /\ Len(QueueOf(p)) = Len(QueueOf(q)) + 1
       /\ \A i \in 1 .. Len(QueueOf(q)) : QueueOf(p)[i] = QueueOf(q)[i]
       /\ QueueOf(p)[Len(QueueOf(q)) + 1] = b
  BY <1>6, <1>8, <1>10, <1>11, Zenon
<1>13. QueueOf(p) = Append(QueueOf(q), b)
  BY <1>12, LongerAtEnd
<1> QED
  BY <1>4, <1>13 DEF p

(* intq_getc takes the first byte of a buffer that is not empty.           *)
LEMMA TakenFirst ==
  ASSUME NEW S, NEW q \in Queues(S), ~intq_empty(q)
  PROVE  /\ Taken(q) \in Queues(S) /\ First(q) \in S
         /\ QueueOf(q) = <<First(q)>> \o QueueOf(Taken(q))
<1>1. /\ q.head \in Slots /\ q.tail \in Slots /\ q.buf \in [Slots -> S]
      /\ Nobody \in Writer \cup Reader \cup {Nobody}
  BY Fields DEF Queues
<1>2. next(q.tail) = Up(q.tail) /\ Up(q.tail) \in Slots /\ q.head # q.tail
  BY <1>1, RingArithmetic DEF intq_empty
<1>3. /\ Taken(q) \in Queues(S) /\ Taken(q).buf = q.buf
      /\ Taken(q).head = q.head /\ Taken(q).tail = Up(q.tail)
  BY <1>1, <1>2, TakenFields DEF Queues
<1> DEFINE p == Taken(q)
           len == Count(q.head, q.tail)
<1>4. /\ len \in Nat /\ len > 0 /\ Count(q.head, Up(q.tail)) = len - 1
      /\ \A i \in 1 .. len - 1 : Slot(Up(q.tail), i - 1) = Slot(q.tail, i)
      /\ Slot(q.tail, 0) = q.tail
  BY <1>1, <1>2, SlotsMove
<1> HIDE DEF p, len
<1>5. /\ QueueOf(q) = [i \in 1 .. len |-> q.buf[Slot(q.tail, i - 1)]]
      /\ QueueOf(q) \in Seq(S) /\ Len(QueueOf(q)) = len
  BY QueueBySlots DEF len
<1>6. /\ p \in Queues(S) /\ Count(p.head, p.tail) = len - 1 /\ p.tail = Up(q.tail)
      /\ p.buf = q.buf
  BY <1>3, <1>4 DEF p
<1>7. /\ QueueOf(p) = [i \in 1 .. len - 1 |-> q.buf[Slot(Up(q.tail), i - 1)]]
      /\ QueueOf(p) \in Seq(S) /\ Len(QueueOf(p)) = len - 1
  BY <1>6, QueueBySlots
<1>8. First(q) = q.buf[q.tail] /\ First(q) \in S
  BY <1>1 DEF First
<1>9. QueueOf(q)[1] = First(q)
  <2>1. 1 - 1 = 0 /\ 1 \in 1 .. len
    BY <1>4
  <2> QED
    BY <1>4, <1>5, <1>8, <2>1
<1>10. \A i \in 1 .. len - 1 : QueueOf(q)[i + 1] = QueueOf(p)[i]
  <2>1. \A i \in 1 .. len - 1 : i + 1 \in 1 .. len /\ i + 1 - 1 = i
    BY <1>4
  <2> QED
    BY <1>4, <1>5, <1>7, <2>1
<1>11. Len(QueueOf(q)) = Len(QueueOf(p)) + 1
  BY <1>4, <1>5, <1>7
<1>12. /\ QueueOf(q) \in Seq(S) /\ QueueOf(p) \in Seq(S)
       /\ \A i \in 1 .. Len(QueueOf(p)) : QueueOf(q)[i + 1] = QueueOf(p)[i]
  BY <1>5, <1>7, <1>10, Zenon
<1>13. QueueOf(q) = <<First(q)>> \o QueueOf(p)
  BY <1>8, <1>9, <1>11, <1>12, LongerAtFront
<1> QED
  BY <1>3, <1>8, <1>13 DEF p

(* An empty buffer holds no bytes.                                         *)
LEMMA EmptyQueue ==
  ASSUME NEW S, NEW q \in Queues(S), intq_empty(q) PROVE QueueOf(q) = <<>>
<1>1. q.head \in Slots /\ q.head = q.tail
  BY Fields DEF Queues, intq_empty
<1>2. Count(q.head, q.tail) = 0
  BY <1>1, CharDevicesAssumption DEF Count, Slots
<1> QED
  BY <1>2, QueueBySlots
(* A full queue is not empty, and has room once its first byte is taken.   *)
LEMMA FullHasRoom ==
  ASSUME NEW S, NEW q \in Queues(S), intq_full(q)
  PROVE  ~intq_empty(q) /\ ~intq_full(Taken(q))
<1>1. /\ q.head \in Slots /\ q.tail \in Slots
      /\ Nobody \in Writer \cup Reader \cup {Nobody}
  BY Fields DEF Queues
<1>2. /\ next(q.tail) = Up(q.tail) /\ Up(q.tail) \in Slots
      /\ next(q.head) = Up(q.head) /\ Up(q.head) = q.tail
  BY <1>1, RingArithmetic DEF intq_full
<1>3. Taken(q).head = q.head /\ Taken(q).tail = Up(q.tail)
  BY <1>1, <1>2, TakenFields DEF Queues
<1>4. q.head # q.tail /\ Up(q.head) # Up(q.tail)
  BY <1>1, <1>2, CharDevicesAssumption DEF Up, Slots
<1> QED
  BY <1>2, <1>3, <1>4 DEF intq_empty, intq_full

\* What was put into q is what was taken out of it and what it holds.
Fifo(S, q, in, out) == /\ q \in Queues(S) /\ in \in Seq(S) /\ out \in Seq(S)
                       /\ in = out \o QueueOf(q)

(* A byte that is put into the queue is its last.                          *)
LEMMA FifoPut ==
  ASSUME NEW S, NEW q, NEW in, NEW out, Fifo(S, q, in, out), NEW b \in S, ~intq_full(q)
  PROVE  Fifo(S, Put(q, b), Append(in, b), out) /\ in \o <<b>> = Append(in, b)
<1> DEFINE c == QueueOf(q)
<1>0. q \in Queues(S) /\ in \in Seq(S) /\ out \in Seq(S)
  BY DEF Fifo
<1>1. Put(q, b) \in Queues(S) /\ QueueOf(Put(q, b)) = Append(c, b)
  BY <1>0, PutAppends
<1>2. c \in Seq(S) /\ in = out \o c
  BY <1>0, QueueBySlots DEF Fifo
<1> HIDE DEF c
<1>3. out \o c \in Seq(S) /\ <<b>> \in Seq(S)
  BY <1>0, <1>2, ConcatProperties
<1>4. Append(c, b) = c \o <<b>> /\ Append(out \o c, b) = (out \o c) \o <<b>>
  BY <1>2, <1>3, AppendIsConcat
<1>5. Append(in, b) = out \o Append(c, b)
  BY <1>0, <1>2, <1>3, <1>4, ConcatAssociative
<1>6. in \o <<b>> = Append(in, b) /\ Append(in, b) \in Seq(S)
  BY <1>0
<1> QED
  BY <1>0, <1>1, <1>5, <1>6 DEF Fifo

(* The byte that is taken from the queue is its first.                     *)
LEMMA FifoTake ==
  ASSUME NEW S, NEW q, NEW in, NEW out, Fifo(S, q, in, out), ~intq_empty(q)
  PROVE  Fifo(S, Taken(q), in, Append(out, First(q)))
         /\ out \o <<First(q)>> = Append(out, First(q))
<1> DEFINE c == QueueOf(Taken(q))
           x == First(q)
<1>0. q \in Queues(S) /\ in \in Seq(S) /\ out \in Seq(S) /\ in = out \o QueueOf(q)
  BY DEF Fifo
<1>1. Taken(q) \in Queues(S) /\ x \in S /\ QueueOf(q) = <<x>> \o c
  BY <1>0, TakenFirst, Zenon
<1>2. c \in Seq(S)
  BY <1>1, QueueBySlots
<1> HIDE DEF c, x
<1>3. in = out \o (<<x>> \o c)
  BY <1>0, <1>1
<1>4. out \o <<x>> = Append(out, x) /\ Append(out, x) \in Seq(S) /\ <<x>> \in Seq(S)
  BY <1>0, <1>1
<1>5. out \o (<<x>> \o c) = Append(out, x) \o c
  BY <1>0, <1>2, <1>4, ConcatAssociative
<1> QED
  BY <1>0, <1>1, <1>3, <1>4, <1>5, Zenon DEF Fifo, c, x

(* Waiting for a queue leaves what is in it.                               *)
LEMMA FifoWait ==
  ASSUME NEW S, NEW q, NEW in, NEW out, Fifo(S, q, in, out),
         NEW v \in Writer \cup Reader \cup {Nobody},
         NEW w \in Writer \cup Reader \cup {Nobody}
  PROVE  /\ Fifo(S, [q EXCEPT !.lock = v], in, out)
         /\ Fifo(S, [q EXCEPT !.lock = v, !.waiter = w], in, out)
<1> DEFINE W == Writer \cup Reader \cup {Nobody}
           F == [Slots -> S]
           P == Slots
           r == [q EXCEPT !.lock = v]
           z == [q EXCEPT !.lock = v, !.waiter = w]
<1>1. q \in intq(F, P, W) /\ v \in W /\ w \in W
  BY DEF Fifo, Queues
<1> HIDE DEF W, F, P
<1>2. r \in intq(F, P, W) /\ r.buf = q.buf /\ r.head = q.head /\ r.tail = q.tail
  BY <1>1 DEF intq
<1>3. z \in intq(F, P, W) /\ z.buf = q.buf /\ z.head = q.head /\ z.tail = q.tail
  BY <1>1, Zenon DEF intq
<1> HIDE DEF r, z
<1>4. QueueOf(r) = QueueOf(q) /\ QueueOf(z) = QueueOf(q)
  BY <1>2, <1>3 DEF QueueOf
<1>5. r \in Queues(S) /\ z \in Queues(S)
  BY <1>2, <1>3 DEF Queues, W, F, P
<1>6. Fifo(S, r, in, out) /\ Fifo(S, z, in, out)
  BY <1>4, <1>5 DEF Fifo
<1> QED
  BY <1>6 DEF r, z

-----------------------------------------------------------------------------
(* The invariant *)

Serial(n) == [char |-> "serial", upper |-> FALSE, ctrl |-> FALSE, alt |-> FALSE, n |-> n]
Bytes == Writer \cup {"panic", Nobody}
Chars == {Character(code.key, held, caps, n) :
            code \in Codes, held \in SUBSET Modifiers, caps \in BOOLEAN, n \in Nat}
         \cup {Serial(n) : n \in Nat} \cup {Nobody}

KeyboardInv ==
  /\ kbd \in [keys : SUBSET Modifiers, caps_lock : BOOLEAN]
  /\ inputs \in Nat
  /\ rbr = <<>> \/ \E n \in Nat : rbr = <<Serial(n)>>

OutputInv == Fifo(Bytes, txq, accepted, sent)
InputInv == Fifo(Chars, buffer, keys, got)

\* A panic begins with all of its bytes, and ends with an empty queue.
PanicInv == /\ panic_left \in Nat
            /\ level = "no" => panic_left = PanicBytes
            /\ level = "halted" /\ panic_left = 0 => intq_empty(txq)

IInv == KeyboardInv /\ OutputInv /\ InputInv /\ PanicInv

-----------------------------------------------------------------------------
(* serial_init_queue and input_init make empty queues.                     *)
LEMMA InitIInv == DevInit => IInv
<1> SUFFICES ASSUME DevInit PROVE IInv
  OBVIOUS
<1>1. /\ INTQ_BUFSIZE \in Nat \ {0, 1} /\ 0 \in Slots /\ PanicBytes \in Nat \ {0}
  BY CharDevicesAssumption DEF Slots
<1>2. ASSUME NEW S, Nobody \in S
      PROVE  intq_init \in Queues(S) /\ intq_empty(intq_init) /\ QueueOf(intq_init) = <<>>
  <2>1. intq_init \in Queues(S) /\ intq_empty(intq_init)
    BY <1>1, <1>2 DEF intq_init, Queues, intq, intq_empty, Slots
  <2> QED
    BY <2>1, EmptyQueue
<1>3. <<>> = <<>> \o <<>> /\ \A S : <<>> \in Seq(S)
  OBVIOUS
<1>4. OutputInv
  BY <1>2, <1>3 DEF OutputInv, Fifo, DevInit, Bytes
<1>5. InputInv
  BY <1>2, <1>3 DEF InputInv, Fifo, DevInit, Chars
<1>6. KeyboardInv
  BY DEF KeyboardInv, DevInit
<1>7. PanicInv
  BY <1>1 DEF PanicInv, DevInit
<1> QED
  BY <1>4, <1>5, <1>6, <1>7 DEF IInv

(* serial_putc by a thread puts a byte on a queue that has room.           *)
LEMMA PutcKeeps == ASSUME IInv, NEW t \in Writer, serial_putc(t) PROVE IInv'
<1> DEFINE v == IF dev_pc[t] = "woken" THEN Nobody ELSE txq.lock
           q == [txq EXCEPT !.lock = v]
<1>1. Fifo(Bytes, txq, accepted, sent) /\ t \in Bytes /\ v \in Writer \cup Reader \cup {Nobody}
  BY DEF IInv, OutputInv, Fifo, Bytes, Queues, intq
<1>2. /\ \/ ~intq_full(q) /\ txq' = Put(q, t) /\ accepted' = Append(accepted, t)
         \/ txq' = [q EXCEPT !.lock = t, !.waiter = t] /\ accepted' = accepted
      /\ UNCHANGED <<sent, buffer, keys, got, rbr, kbd, inputs, level, panic_left>>
      /\ level = "no"
  BY DEF serial_putc, Running, inputHistory
<1> HIDE DEF v
<1>3. Fifo(Bytes, q, accepted, sent)
  BY <1>1, FifoWait, Zenon
<1> HIDE DEF q
<1>4. OutputInv'
  <2>1. CASE ~intq_full(q) /\ txq' = Put(q, t) /\ accepted' = Append(accepted, t)
    <3>1. Fifo(Bytes, Put(q, t), Append(accepted, t), sent)
      BY <1>1, <1>3, <2>1, FifoPut
    <3> QED
      BY <1>2, <2>1, <3>1 DEF OutputInv
  <2>2. CASE txq' = [q EXCEPT !.lock = t, !.waiter = t] /\ accepted' = accepted
    <3>1. Fifo(Bytes, [q EXCEPT !.lock = t, !.waiter = t], accepted, sent)
      BY <1>3, FifoWait, Zenon
    <3> QED
      BY <1>2, <2>2, <3>1 DEF OutputInv
  <2> QED
    BY <1>2, <2>1, <2>2
<1>5. InputInv' /\ KeyboardInv' /\ PanicInv'
  BY <1>2 DEF IInv, InputInv, KeyboardInv, PanicInv
<1> QED
  BY <1>4, <1>5 DEF IInv

(* input_getc takes the first character of a buffer that is not empty.     *)
LEMMA GetcKeeps == ASSUME IInv, NEW t \in Reader, input_getc(t) PROVE IInv'
<1> DEFINE v == IF dev_pc[t] = "woken" THEN Nobody ELSE buffer.lock
           q == [buffer EXCEPT !.lock = v]
<1>1. Fifo(Chars, buffer, keys, got) /\ v \in Writer \cup Reader \cup {Nobody}
  BY DEF IInv, InputInv, Fifo, Queues, intq
<1>2. /\ \/ ~intq_empty(q) /\ buffer' = Taken(q) /\ got' = Append(got, First(q))
         \/ buffer' = q /\ got' = got
         \/ buffer' = [q EXCEPT !.lock = t, !.waiter = t] /\ got' = got
         \/ buffer' = [buffer EXCEPT !.lock = t, !.waiter = t] /\ got' = got
      /\ UNCHANGED <<txq, accepted, sent, keys, rbr, kbd, inputs, level, panic_left>>
  BY DEF input_getc, inputHistory
<1> HIDE DEF v
<1>3. Fifo(Chars, q, keys, got)
  BY <1>1, FifoWait, Zenon
<1> HIDE DEF q
<1>4. InputInv'
  <2>1. CASE ~intq_empty(q) /\ buffer' = Taken(q) /\ got' = Append(got, First(q))
    <3>1. Fifo(Chars, Taken(q), keys, Append(got, First(q)))
      BY <1>3, <2>1, FifoTake
    <3> QED
      BY <1>2, <2>1, <3>1 DEF InputInv
  <2>2. CASE buffer' = q /\ got' = got
    BY <1>2, <1>3, <2>2 DEF InputInv
  <2>3. CASE buffer' = [q EXCEPT !.lock = t, !.waiter = t] /\ got' = got
    <3>1. Fifo(Chars, [q EXCEPT !.lock = t, !.waiter = t], keys, got)
      BY <1>3, FifoWait, Zenon
    <3> QED
      BY <1>2, <2>3, <3>1 DEF InputInv
  <2>4. CASE buffer' = [buffer EXCEPT !.lock = t, !.waiter = t] /\ got' = got
    <3>1. Fifo(Chars, [buffer EXCEPT !.lock = t, !.waiter = t], keys, got)
      BY <1>1, FifoWait, Zenon
    <3> QED
      BY <1>2, <2>4, <3>1 DEF InputInv
  <2> QED
    BY <1>2, <2>1, <2>2, <2>3, <2>4
<1>5. OutputInv' /\ KeyboardInv' /\ PanicInv'
  BY <1>2 DEF IInv, OutputInv, KeyboardInv, PanicInv
<1> QED
  BY <1>4, <1>5 DEF IInv

(* input_putc appends one character, or nothing happens.                   *)
LEMMA InputPutKeeps ==
  ASSUME InputInv, NEW tx, NEW c, InputPut(tx, c), got' = got,
         c = <<>> \/ (\E x \in Chars : c = <<x>> /\ ~intq_full(buffer))
  PROVE  InputInv'
<1>1. CASE c = <<>>
  <2>1. buffer' = buffer /\ keys' = keys
    BY <1>1, ConcatEmptySeq DEF InputPut, InputInv, Fifo
  <2> QED
    BY <2>1 DEF InputInv
<1>2. ASSUME NEW x \in Chars, c = <<x>>, ~intq_full(buffer)
      PROVE  InputInv'
  <2>1. c # <<>> /\ Head(c) = x
    BY <1>2
  <2>2. buffer' = Put(buffer, x) /\ keys' = keys \o <<x>>
    BY <1>2, <2>1 DEF InputPut
  <2>3. Fifo(Chars, Put(buffer, x), Append(keys, x), got) /\ keys \o <<x>> = Append(keys, x)
    BY <1>2, FifoPut DEF InputInv
  <2> QED
    BY <2>2, <2>3, Zenon DEF InputInv
<1> QED
  BY <1>1, <1>2

(* serial_interrupt receives into a buffer that is not full and sends from *)
(* a queue that is not empty.                                              *)
LEMMA InterruptKeeps == ASSUME IInv, serial_interrupt PROVE IInv'
<1> DEFINE received == IF intq_full(buffer) THEN <<>> ELSE rbr
           sends == thre /\ ~intq_empty(txq)
           tx == IF sends THEN Taken(txq) ELSE txq
<1>1. /\ txq' = tx /\ InputPut(tx, received) /\ got' = got
      /\ rbr' = IF received = <<>> THEN rbr ELSE <<>>
      /\ sent' = IF sends THEN Append(sent, First(txq)) ELSE sent
      /\ UNCHANGED <<accepted, kbd, inputs, level, panic_left>>
      /\ level = "no"
  BY DEF serial_interrupt, Running
<1>2. received = <<>> \/ (\E x \in Chars : received = <<x>> /\ ~intq_full(buffer))
  BY DEF IInv, KeyboardInv, Chars
<1> HIDE DEF received
<1>3. InputInv'
  BY <1>1, <1>2, InputPutKeeps DEF IInv
<1>4. KeyboardInv'
  BY <1>1 DEF IInv, KeyboardInv
<1>5. PanicInv'
  BY <1>1 DEF IInv, PanicInv
<1>6. OutputInv'
  <2>1. CASE sends
    <3>1. Fifo(Bytes, Taken(txq), accepted, Append(sent, First(txq)))
      BY <2>1, FifoTake DEF IInv, OutputInv
    <3> QED
      BY <1>1, <2>1, <3>1 DEF OutputInv
  <2>2. CASE ~sends
    BY <1>1, <2>2 DEF IInv, OutputInv
  <2> QED
    BY <2>1, <2>2
<1> QED
  BY <1>3, <1>4, <1>5, <1>6 DEF IInv

(* keyboard_interrupt adds a character only to a buffer that is not full.  *)
LEMMA KeyKeeps == ASSUME IInv, NEW code \in Codes, keyboard_interrupt(code) PROVE IInv'
<1> DEFINE c == Character(code.key, kbd.keys, kbd.caps_lock, inputs)
           typed == map_key(code.key, kbd.keys) /\ ~code.release
           reboot == typed /\ code.key = "del" /\ Ctrl(kbd.keys) /\ Alt(kbd.keys)
           chars == IF typed /\ ~intq_full(buffer) THEN <<c>> ELSE <<>>
<1>1. /\ inputs' = inputs + 1 /\ level' = (IF reboot THEN "halted" ELSE level) /\ level = "no"
      /\ IF chars # <<>> /\ ~reboot THEN InputPut(txq, chars) ELSE UNCHANGED <<buffer, keys>>
      /\ UNCHANGED <<txq, rbr, panic_left, accepted, sent, got>>
  BY DEF keyboard_interrupt, Running
<1>2. kbd \in [keys : SUBSET Modifiers, caps_lock : BOOLEAN] /\ inputs \in Nat
  BY DEF IInv, KeyboardInv
<1>3. c \in Chars
  BY <1>2 DEF Chars
<1>4. kbd' \in [keys : SUBSET Modifiers, caps_lock : BOOLEAN]
  <2> DEFINE caps == IF code.release THEN kbd.caps_lock ELSE ~kbd.caps_lock
             held == IF code.release THEN kbd.keys \ {code.key} ELSE kbd.keys \cup {code.key}
  <2>1. \/ kbd' = [kbd EXCEPT !.caps_lock = caps]
        \/ code.key \in Modifiers /\ kbd' = [kbd EXCEPT !.keys = held]
        \/ kbd' = kbd
    BY DEF keyboard_interrupt
  <2>2. caps \in BOOLEAN
    BY <1>2, Zenon
  <2>3. code.key \in Modifiers => held \in SUBSET Modifiers
    BY <1>2
  <2> HIDE DEF caps, held
  <2> QED
    BY <1>2, <2>1, <2>2, <2>3
<1>5. KeyboardInv'
  BY <1>1, <1>2, <1>4 DEF IInv, KeyboardInv
<1>6. InputInv'
  <2>1. chars = <<>> \/ (\E x \in Chars : chars = <<x>> /\ ~intq_full(buffer))
    BY <1>3
  <2> HIDE DEF chars, reboot
  <2>2. CASE chars # <<>> /\ ~reboot
    BY <1>1, <2>1, <2>2, InputPutKeeps DEF IInv
  <2>3. CASE ~(chars # <<>> /\ ~reboot)
    BY <1>1, <2>3 DEF IInv, InputInv
  <2> QED
    BY <2>2, <2>3
<1>7. OutputInv'
  BY <1>1 DEF IInv, OutputInv
<1>8. PanicInv'
  BY <1>1, CharDevicesAssumption DEF IInv, PanicInv
<1> QED
  BY <1>5, <1>6, <1>7, <1>8 DEF IInv

(* With interrupts off serial_putc makes room by polling, and serial_flush *)
(* goes on until the queue is empty.                                       *)
LEMMA PanicKeeps == ASSUME IInv, PanicNext PROVE IInv'
<1>1. CASE console_panic
  BY <1>1, CharDevicesAssumption DEF console_panic, inputHistory, Running, IInv, KeyboardInv, OutputInv,
     InputInv, PanicInv
<1>2. CASE PanicPut
  <2>1. /\ level = "printing" /\ panic_left > 0 /\ panic_left' = panic_left - 1
        /\ accepted' = Append(accepted, "panic")
        /\ UNCHANGED <<buffer, rbr, level, got, kbd, inputs, keys>>
    BY <1>2 DEF PanicPut, inputHistory
  <2>2. CASE intq_full(txq)
    <3>1. txq' = Put(Taken(txq), "panic") /\ sent' = sent \o <<First(txq)>>
      BY <1>2, <2>2 DEF PanicPut, PolledFirst
    <3>2. ~intq_empty(txq) /\ ~intq_full(Taken(txq))
      BY <2>2, FullHasRoom DEF IInv, OutputInv, Fifo
    <3>3. /\ Fifo(Bytes, Taken(txq), accepted, Append(sent, First(txq)))
          /\ sent' = Append(sent, First(txq))
      BY <3>1, <3>2, FifoTake DEF IInv, OutputInv
    <3>4. "panic" \in Bytes
      BY DEF Bytes
    <3>5. Fifo(Bytes, txq', accepted', sent')
      BY <2>1, <3>1, <3>2, <3>3, <3>4, FifoPut, Zenon
    <3> QED
      BY <2>1, <3>5 DEF IInv, OutputInv, InputInv, KeyboardInv, PanicInv
  <2>3. CASE ~intq_full(txq)
    <3>1. txq' = Put(txq, "panic") /\ sent' = sent
      <4>1. txq' = Put(txq, "panic") /\ sent' = sent \o <<>>
        BY <1>2, <2>3 DEF PanicPut, PolledFirst
      <4>2. sent \in Seq(Bytes)
        BY DEF IInv, OutputInv, Fifo
      <4> QED
        BY <4>1, <4>2, ConcatEmptySeq
    <3>2. "panic" \in Bytes
      BY DEF Bytes
    <3>3. Fifo(Bytes, txq', accepted', sent')
      BY <2>1, <2>3, <3>1, <3>2, FifoPut DEF IInv, OutputInv
    <3> QED
      BY <2>1, <3>3 DEF IInv, OutputInv, InputInv, KeyboardInv, PanicInv
  <2> QED
    BY <2>2, <2>3
<1>3. CASE serial_flush
  <2>1. /\ level = "printing" /\ UNCHANGED <<buffer, rbr, panic_left, accepted, got, kbd, inputs, keys>>
    BY <1>3 DEF serial_flush, inputHistory
  <2>2. CASE intq_empty(txq)
    <3>1. UNCHANGED <<txq, sent>> /\ level' = "halted"
      BY <1>3, <2>2 DEF serial_flush
    <3>2. PanicInv'
      BY <2>1, <2>2, <3>1 DEF IInv, PanicInv, intq_empty
    <3> QED
      BY <2>1, <3>1, <3>2 DEF IInv, OutputInv, InputInv, KeyboardInv
  <2>3. CASE ~intq_empty(txq)
    <3>1. txq' = Taken(txq) /\ sent' = Append(sent, First(txq)) /\ level' = level
      BY <1>3, <2>3 DEF serial_flush
    <3>2. Fifo(Bytes, txq', accepted', sent')
      BY <2>1, <2>3, <3>1, FifoTake DEF IInv, OutputInv
    <3> QED
      BY <2>1, <3>1, <3>2 DEF IInv, OutputInv, InputInv, KeyboardInv, PanicInv
  <2> QED
    BY <2>2, <2>3
<1> QED
  BY <1>1, <1>2, <1>3 DEF PanicNext

(* Every step of the devices, of their interrupts and of the threads that  *)
(* use them keeps the order of bytes and characters.                       *)
LEMMA StepIInv == IInv /\ [DevNext]_devVars => IInv'
<1> SUFFICES ASSUME IInv, [DevNext]_devVars PROVE IInv'
  OBVIOUS
<1>1. ASSUME NEW t \in Writer, BeginPrint(t) \/ EndPrint(t) PROVE IInv'
  BY <1>1 DEF BeginPrint, EndPrint, inputHistory, IInv, KeyboardInv, OutputInv, InputInv, PanicInv
<1>2. CASE Transmitted
  BY <1>2 DEF Transmitted, inputHistory, IInv, KeyboardInv, OutputInv, InputInv, PanicInv
<1>3. CASE Receive
  <2>1. /\ rbr' = <<Serial(inputs)>> /\ inputs' = inputs + 1
        /\ UNCHANGED <<txq, buffer, kbd, level, panic_left, accepted, sent, keys, got>>
    BY <1>3 DEF Receive, Serial
  <2>2. KeyboardInv'
    BY <2>1 DEF IInv, KeyboardInv
  <2> QED
    BY <2>1, <2>2, Zenon DEF IInv, OutputInv, InputInv, PanicInv
<1>4. CASE UNCHANGED devVars
  BY <1>4 DEF devVars, IInv, KeyboardInv, OutputInv, InputInv, PanicInv, intq_empty
<1> QED
  BY <1>1, <1>2, <1>3, <1>4, PutcKeeps, GetcKeeps, InterruptKeeps, KeyKeeps, PanicKeeps
     DEF DevNext, PrintNext, WriterStep, InputNext

(* The invariant says what the properties say.                             *)
LEMMA IInvOrders == IInv => SerialInOrder /\ InputInOrder
<1> SUFFICES ASSUME IInv PROVE SerialInOrder /\ InputInOrder
  OBVIOUS
<1>1. InputInOrder /\ accepted = sent \o QueueOf(txq)
  BY DEF IInv, InputInv, OutputInv, Fifo, InputInOrder
<1>2. ASSUME level = "halted", panic_left = 0 PROVE sent = accepted
  <2>1. QueueOf(txq) = <<>>
    BY <1>2, EmptyQueue DEF IInv, PanicInv, OutputInv, Fifo
  <2>2. sent \in Seq(Bytes)
    BY DEF IInv, OutputInv, Fifo
  <2> QED
    BY <1>1, <2>1, <2>2, ConcatEmptySeq
<1> QED
  BY <1>1, <1>2 DEF SerialInOrder

(* The serial port sends the bytes that serial_putc accepted, in order and *)
(* once each, by interrupt, by polling and by the flush of a panic, which  *)
(* leaves none; and input_getc returns what input_putc was given, in       *)
(* order: for any size of the interrupt queues, wherever they wrap.        *)
THEOREM QueuesKeepOrder == DevSpec => [](SerialInOrder /\ InputInOrder)
  BY InitIInv, StepIInv, IInvOrders, PTL DEF DevSpec

-----------------------------------------------------------------------------
(* The console's lock *)

Consoles(H, D, B) == [holder : H, depth : D, use_lock : B]
Console == Consoles(Writer \cup {Nobody}, Nat, BOOLEAN)

\* The holder of the console is in as many prints as it has acquired it.
HolderInv ==
  /\ console \in Console
  /\ console.holder = Nobody => console.depth = 0
  /\ \A t \in Writer : nest[t] = IF console.holder = t THEN console.depth + 1 ELSE 0

\* Nothing but the bytes of t, and of a panic, follows a byte of t.
LastToPrint(t) ==
  \A i, j \in DOMAIN accepted : i < j /\ accepted[i] = t => accepted[j] \in {t, "panic"}

\* t has printed nothing.
NotPrinted(t) == \A i \in DOMAIN accepted : accepted[i] # t

\* A writer that has bytes left is printing, after all the others, or has not
\* begun.
PrintInv ==
  /\ nest \in [Writer -> Int] /\ left \in [Writer -> Int]
  /\ accepted \in Seq(Bytes)
  /\ PrintsNotMixed
  /\ Running => \A t \in Writer : left[t] > 0 =>
                   IF nest[t] > 0 THEN LastToPrint(t) ELSE NotPrinted(t)

\* d is a console with the given holder and depth.
HasFields(C, d, holder, depth) == d \in C /\ d.holder = holder /\ d.depth = depth
ConsoleIs(d, holder, depth) == HasFields(Console, d, holder, depth)

(* The fields of the console after a change of one of them.                *)
LEMMA RecordFields ==
  ASSUME NEW H, NEW D, NEW B, NEW c \in Consoles(H, D, B)
  PROVE  LET C == Consoles(H, D, B) IN
         /\ c.holder \in H /\ c.depth \in D
         /\ \A h \in H : HasFields(C, [c EXCEPT !.holder = h], h, c.depth)
         /\ \A d \in D : HasFields(C, [c EXCEPT !.depth = d], c.holder, d)
         /\ \A b \in B : HasFields(C, [c EXCEPT !.use_lock = b], c.holder, c.depth)
  BY DEF Consoles, HasFields

(* The fields of the console after acquire_console, release_console or     *)
(* console_panic has changed one of them.                                  *)
LEMMA ConsoleFields ==
  ASSUME NEW c \in Console
  PROVE  /\ c.holder \in Writer \cup {Nobody} /\ c.depth \in Nat
         /\ \A h \in Writer \cup {Nobody} : ConsoleIs([c EXCEPT !.holder = h], h, c.depth)
         /\ \A d \in Nat : ConsoleIs([c EXCEPT !.depth = d], c.holder, d)
         /\ ConsoleIs([c EXCEPT !.use_lock = FALSE], c.holder, c.depth)
<1>1. FALSE \in BOOLEAN
  OBVIOUS
<1> QED
  BY <1>1, RecordFields, Zenon DEF Console, ConsoleIs

(* What was printed stays in order when nothing is printed.                *)
LEMMA NothingPrinted ==
  ASSUME accepted' = accepted
  PROVE  /\ PrintsNotMixed' <=> PrintsNotMixed
         /\ \A t : (LastToPrint(t)' <=> LastToPrint(t)) /\ (NotPrinted(t)' <=> NotPrinted(t))
  BY Zenon DEF PrintsNotMixed, LastToPrint, NotPrinted

(* Nobody prints, and nothing is printed, when the console is set up.      *)
LEMMA InitPrints == DevInit => HolderInv /\ PrintInv
<1> SUFFICES ASSUME DevInit PROVE HolderInv /\ PrintInv
  OBVIOUS
<1>1. HolderInv
  BY CharDevicesAssumption DEF DevInit, HolderInv, Console, Consoles
<1>2. /\ nest \in [Writer -> Int] /\ left \in [Writer -> Int] /\ accepted = <<>>
      /\ \A t \in Writer : nest[t] = 0
  BY CharDevicesAssumption DEF DevInit
<1>3. accepted \in Seq(Bytes) /\ DOMAIN accepted = {}
  BY <1>2
<1> QED
  BY <1>1, <1>2, <1>3 DEF PrintInv, PrintsNotMixed, NotPrinted

(* acquire_console and release_console keep the count of the holder's      *)
(* prints.                                                                 *)
LEMMA ConsoleKeeps ==
  ASSUME HolderInv, PrintInv, NEW t \in Writer, BeginPrint(t) \/ EndPrint(t)
  PROVE  HolderInv' /\ PrintInv'
<1>1. accepted' = accepted /\ left' = left /\ level' = level /\ Running
  BY DEF BeginPrint, EndPrint
<1>2. t # Nobody
  BY CharDevicesAssumption
<1>3. CASE BeginPrint(t)
  <2>1. /\ nest' = [nest EXCEPT ![t] = @ + 1]
        /\ \/ console.holder = t /\ console' = [console EXCEPT !.depth = @ + 1]
           \/ console.holder = Nobody /\ console' = [console EXCEPT !.holder = t]
    BY <1>3 DEF BeginPrint, acquire_console
  <2>2. nest \in [Writer -> Int]
    BY DEF PrintInv
  <2>3. console \in Console /\ console.depth \in Nat
    BY ConsoleFields, Zenon DEF HolderInv
  <2>4. /\ console.holder \in {t, Nobody}
        /\ ConsoleIs(console', t, IF console.holder = t THEN console.depth + 1 ELSE console.depth)
    <3>1. CASE console.holder = t /\ console' = [console EXCEPT !.depth = @ + 1]
      <4>1. console.depth + 1 \in Nat
        BY <2>3
      <4> QED
        BY <2>3, <3>1, <4>1, ConsoleFields, Zenon
    <3>2. CASE console.holder = Nobody /\ console' = [console EXCEPT !.holder = t]
      BY <1>2, <2>3, <3>2, ConsoleFields, Zenon
    <3> QED
      BY <2>1, <3>1, <3>2
  <2>5. /\ \A u \in Writer \ {t} : nest'[u] = nest[u]
        /\ nest' \in [Writer -> Int] /\ nest'[t] = nest[t] + 1
    BY <2>1, <2>2
  <2>6. \A u \in Writer : nest[u] = IF console.holder = u THEN console.depth + 1 ELSE 0
    BY DEF HolderInv
  <2>7. HolderInv'
    <3>1. console.holder = Nobody => console.depth = 0
      BY DEF HolderInv
    <3>2. /\ console' \in Console /\ console'.holder = t
          /\ console'.depth = IF console.holder = t THEN console.depth + 1 ELSE console.depth
      BY <2>4, Zenon DEF ConsoleIs, HasFields
    <3>3. nest'[t] = console'.depth + 1
      BY <1>2, <2>3, <2>4, <2>5, <2>6, <3>1, <3>2
    <3>4. \A u \in Writer \ {t} : nest'[u] = 0
      BY <2>4, <2>5, <2>6, CharDevicesAssumption
    <3> QED
      BY <1>2, <3>2, <3>3, <3>4, Zenon DEF HolderInv
  <2>8. nest[t] > 0 \/ nest[t] = 0
    BY <2>3, <2>6
  <2>9. \A u \in Writer : left[u] > 0 => IF nest[u] > 0 THEN LastToPrint(u) ELSE NotPrinted(u)
    BY <1>1 DEF PrintInv
  <2>10. left[t] > 0 => LastToPrint(t)
    BY <2>9 DEF LastToPrint, NotPrinted
  <2>11. \A u \in Writer : left[u] > 0 => IF nest'[u] > 0 THEN LastToPrint(u) ELSE NotPrinted(u)
    BY <2>2, <2>5, <2>8, <2>9, <2>10
  <2> QED
    BY <1>1, <2>5, <2>7, <2>11, NothingPrinted, Zenon DEF PrintInv
<1>4. CASE EndPrint(t)
  <2>1. /\ nest' = [nest EXCEPT ![t] = @ - 1] /\ nest[t] > 0 /\ (nest[t] = 1 => left[t] = 0)
        /\ console' = IF console.depth > 0 THEN [console EXCEPT !.depth = @ - 1]
                                           ELSE [console EXCEPT !.holder = Nobody]
    BY <1>4 DEF EndPrint, release_console
  <2>2. nest \in [Writer -> Int]
    BY DEF PrintInv
  <2>3. console.holder = t
    BY <2>1 DEF HolderInv
  <2>4. /\ console.depth \in Nat
        /\ IF console.depth > 0 THEN ConsoleIs(console', t, console.depth - 1)
                                ELSE ConsoleIs(console', Nobody, console.depth)
    <3>1. console \in Console /\ console.depth \in Nat
      BY ConsoleFields, Zenon DEF HolderInv
    <3>2. CASE console.depth > 0
      <4>1. console.depth - 1 \in Nat
        BY <3>1, <3>2
      <4> QED
        BY <2>1, <2>3, <3>1, <3>2, <4>1, ConsoleFields, Zenon
    <3>3. CASE ~(console.depth > 0)
      BY <2>1, <3>1, <3>3, ConsoleFields, Zenon
    <3> QED
      BY <3>1, <3>2, <3>3
  <2>7. HolderInv'
    <3>1. /\ console' \in Console
          /\ IF console.depth > 0
             THEN console'.holder = t /\ console'.depth = console.depth - 1
             ELSE console'.holder = Nobody /\ console'.depth = console.depth
      BY <2>4, Zenon DEF ConsoleIs, HasFields
    <3>2. \A u \in Writer : nest[u] = IF console.holder = u THEN console.depth + 1 ELSE 0
      BY DEF HolderInv
    <3>3. nest'[t] = nest[t] - 1 /\ \A u \in Writer \ {t} : nest'[u] = nest[u]
      BY <2>1, <2>2
    <3>4. \A u \in Writer : nest'[u] = IF console'.holder = u THEN console'.depth + 1 ELSE 0
      BY <1>2, <2>3, <2>4, <3>1, <3>2, <3>3, CharDevicesAssumption
    <3>5. console'.holder = Nobody => console'.depth = 0
      BY <1>2, <2>4, <3>1
    <3> QED
      BY <3>1, <3>4, <3>5, Zenon DEF HolderInv
  <2>5. \A u \in Writer \ {t} : nest'[u] = nest[u]
    BY <2>1, <2>2
  <2>6. nest' \in [Writer -> Int] /\ (nest'[t] > 0 \/ left[t] = 0)
    BY <2>1, <2>2
  <2> QED
    BY <1>1, <2>1, <2>5, <2>6, <2>7, NothingPrinted DEF PrintInv, Running
<1> QED
  BY <1>3, <1>4

(* A byte printed by the holder of the console follows its own.            *)
LEMMA PutcPrints ==
  ASSUME HolderInv, PrintInv, NEW t \in Writer, serial_putc(t)
  PROVE  HolderInv' /\ PrintInv'
<1>1. /\ UNCHANGED <<console, nest, level>> /\ nest[t] > 0 /\ left[t] > 0 /\ Running
      /\ \/ accepted' = Append(accepted, t) /\ left' = [left EXCEPT ![t] = @ - 1]
         \/ accepted' = accepted /\ left' = left
  BY DEF serial_putc
<1>2. HolderInv'
  BY <1>1 DEF HolderInv
<1>3. CASE accepted' = accepted /\ left' = left
  BY <1>1, <1>2, <1>3, NothingPrinted DEF PrintInv, Running
<1>4. CASE accepted' = Append(accepted, t) /\ left' = [left EXCEPT ![t] = @ - 1]
  <2>1. /\ accepted \in Seq(Bytes) /\ nest \in [Writer -> Int] /\ left \in [Writer -> Int]
        /\ t \in Bytes
    BY DEF PrintInv, Bytes
  <2> DEFINE n == Len(accepted) + 1
  <2>2. /\ accepted' \in Seq(Bytes) /\ n \in Nat
        /\ DOMAIN accepted' = DOMAIN accepted \cup {n} /\ accepted'[n] = t
        /\ \A i \in DOMAIN accepted : accepted'[i] = accepted[i] /\ i \in Nat /\ i < n
    BY <1>4, <2>1
  <2> HIDE DEF n
  <2>3. left' \in [Writer -> Int] /\ \A u \in Writer \ {t} : left'[u] = left[u]
    BY <1>4, <2>1
  <2>4. LastToPrint(t)
    BY <1>1 DEF PrintInv
  <2>5. PrintsNotMixed'
    BY <2>2, <2>4 DEF PrintInv, PrintsNotMixed, LastToPrint
  <2>6. LastToPrint(t)'
    BY <2>2, <2>4 DEF LastToPrint
  <2>7. \A u \in Writer \ {t} : nest[u] = 0
    BY <1>1 DEF HolderInv
  <2>8. \A u \in Writer \ {t} : left[u] > 0 => NotPrinted(u)
    BY <1>1, <2>7 DEF PrintInv
  <2>9. \A u \in Writer \ {t} : left[u] > 0 => NotPrinted(u)'
    BY <2>2, <2>8 DEF NotPrinted
  <2> QED
    BY <1>1, <1>2, <2>1, <2>2, <2>3, <2>5, <2>6, <2>7, <2>9 DEF PrintInv
<1> QED
  BY <1>1, <1>3, <1>4

(* A panic prints without the lock, and no writer prints after it.         *)
LEMMA PanicPrints ==
  ASSUME HolderInv, PrintInv, PanicNext
  PROVE  HolderInv' /\ PrintInv'
<1>1. /\ nest' = nest /\ left' = left /\ ~Running'
      /\ \/ console' = console
         \/ console' = [console EXCEPT !.use_lock = FALSE]
      /\ accepted' = accepted \/ accepted' = Append(accepted, "panic")
  BY DEF PanicNext, console_panic, PanicPut, serial_flush, Running
<1>2. HolderInv'
  <2>1. ConsoleIs(console', console.holder, console.depth)
    BY <1>1, ConsoleFields, Zenon DEF HolderInv, ConsoleIs, HasFields
  <2> QED
    BY <1>1, <2>1 DEF HolderInv, ConsoleIs, HasFields
<1>3. accepted \in Seq(Bytes) /\ "panic" \in Bytes
  BY DEF PrintInv, Bytes
<1>4. CASE accepted' = accepted
  BY <1>1, <1>2, <1>4, NothingPrinted DEF PrintInv
<1>5. CASE accepted' = Append(accepted, "panic")
  <2> DEFINE n == Len(accepted) + 1
  <2>1. /\ accepted' \in Seq(Bytes) /\ n \in Nat
        /\ DOMAIN accepted' = DOMAIN accepted \cup {n} /\ accepted'[n] = "panic"
        /\ \A i \in DOMAIN accepted : accepted'[i] = accepted[i] /\ i \in Nat /\ i < n
    BY <1>3, <1>5
  <2> HIDE DEF n
  <2>2. PrintsNotMixed'
    BY <2>1 DEF PrintInv, PrintsNotMixed
  <2> QED
    BY <1>1, <1>2, <2>1, <2>2 DEF PrintInv
<1> QED
  BY <1>1, <1>4, <1>5

(* Whatever is printed and whoever interrupts, prints are not mixed.       *)
LEMMA StepPrints == HolderInv /\ PrintInv /\ [DevNext]_devVars => HolderInv' /\ PrintInv'
<1> SUFFICES ASSUME HolderInv, PrintInv, [DevNext]_devVars PROVE HolderInv' /\ PrintInv'
  OBVIOUS
<1>1. ASSUME UNCHANGED <<console, nest, left, accepted>>, Running' => Running
      PROVE  HolderInv' /\ PrintInv'
  BY <1>1, NothingPrinted DEF HolderInv, PrintInv
<1>2. CASE InputNext \/ serial_interrupt \/ Transmitted \/ UNCHANGED devVars
  <2>1. UNCHANGED <<console, nest, left, accepted>> /\ (Running' => Running)
    BY <1>2 DEF InputNext, Receive, keyboard_interrupt, input_getc, serial_interrupt,
                Transmitted, devVars, Running
  <2> QED
    BY <1>1, <2>1
<1> QED
  BY <1>2, ConsoleKeeps, PutcPrints, PanicPrints DEF DevNext, PrintNext, WriterStep

-----------------------------------------------------------------------------
(* The lock of the input buffer *)

\* A lone reader has the lock of the input buffer only from wait to its end.
LoneInv ==
  /\ DOMAIN dev_pc = Writer \cup Reader
  /\ Cardinality(Reader) <= 1 =>
       /\ ~failed
       /\ \A t \in Reader : /\ dev_pc[t] # "lock" /\ buffer.lock \in {t, Nobody}
                            /\ buffer.lock = t => dev_pc[t] \in {"blocked", "woken"}

(* Two readers are one if there is at most one.                            *)
LEMMA OneReader ==
  ASSUME Cardinality(Reader) <= 1, NEW t \in Reader, NEW u \in Reader PROVE t = u
<1>1. IsFiniteSet(Reader)
  BY CharDevicesAssumption
<1>2. Cardinality(Reader) \in Nat
  BY <1>1, FS_CardinalityType
<1>3. Cardinality(Reader) = 0 \/ Cardinality(Reader) = 1
  BY <1>2
<1>4. Cardinality(Reader) # 0
  BY <1>1, FS_EmptySet
<1>5. \E x : Reader = {x}
  BY <1>1, <1>3, <1>4, FS_Singleton
<1> QED
  BY <1>5

(* signal only wakes a thread, and leaves the queue's lock alone.          *)
LEMMA SignalledOnly ==
  ASSUME NEW f, NEW q
  PROVE  /\ DOMAIN Signalled(f, q) = DOMAIN f
         /\ \A t \in DOMAIN f : Signalled(f, q)[t] \in {f[t], "woken"}
  BY DEF Signalled

(* intq_putc and intq_getc leave the queue's lock alone.                   *)
LEMMA LockStays ==
  ASSUME NEW S, NEW q \in Queues(S), NEW b
  PROVE  Put(q, b).lock = q.lock /\ Taken(q).lock = q.lock
  BY DEF Queues, intq, Put, Taken

(* Steps that wake threads, and do nothing else to the readers.            *)
LEMMA LoneKept ==
  ASSUME LoneInv, DOMAIN dev_pc' = DOMAIN dev_pc, failed' = failed, buffer'.lock = buffer.lock,
         \A t \in Reader : dev_pc'[t] \in {dev_pc[t], "woken"}
  PROVE  LoneInv'
  BY DEF LoneInv

(* A lone reader that finds the buffer empty finds its lock free, and waits*)
(* at once.                                                                *)
LEMMA GetcLone ==
  ASSUME IInv, LoneInv, NEW t \in Reader, input_getc(t) PROVE LoneInv'
<1> DEFINE v == IF dev_pc[t] = "woken" THEN Nobody ELSE buffer.lock
           q == [buffer EXCEPT !.lock = v]
<1>1. buffer \in Queues(Chars) /\ v \in Writer \cup Reader \cup {Nobody}
  BY DEF IInv, InputInv, Fifo, Queues, intq
<1>2. DOMAIN dev_pc = Writer \cup Reader /\ t # Nobody
  BY CharDevicesAssumption DEF LoneInv
<1>3. \/ /\ dev_pc[t] \in {"run", "woken"} /\ failed' = failed /\ buffer' = Taken(q)
         /\ dev_pc' = [dev_pc EXCEPT ![t] = "run"]
      \/ /\ dev_pc[t] \in {"run", "woken"} /\ failed' = failed
         /\ IF q.lock = Nobody
            THEN /\ buffer' = [q EXCEPT !.lock = t, !.waiter = t]
                 /\ dev_pc' = [dev_pc EXCEPT ![t] = "blocked"]
            ELSE buffer' = q /\ dev_pc' = [dev_pc EXCEPT ![t] = "lock"]
      \/ /\ dev_pc[t] = "lock" /\ \E x : dev_pc' = [dev_pc EXCEPT ![t] = x]
  BY Zenon DEF input_getc
<1>4. DOMAIN dev_pc' = Writer \cup Reader
  BY <1>2, <1>3
<1>5. ASSUME Cardinality(Reader) <= 1
      PROVE  /\ ~failed'
             /\ dev_pc'[t] # "lock" /\ buffer'.lock \in {t, Nobody}
             /\ buffer'.lock = t => dev_pc'[t] \in {"blocked", "woken"}
  <2>1. /\ ~failed /\ dev_pc[t] # "lock" /\ buffer.lock \in {t, Nobody}
        /\ buffer.lock = t => dev_pc[t] \in {"blocked", "woken"}
    BY <1>5 DEF LoneInv
  <2>2. dev_pc[t] \in {"run", "woken"} => v = Nobody
    BY <2>1
  <2>3. q \in Queues(Chars) /\ q.lock = v
    <3> HIDE DEF v
    <3> QED BY <1>1 DEF Queues, intq
  <2> HIDE DEF v, q
  <2>4. Taken(q).lock = v
    BY <2>3, LockStays
  <2>5. [q EXCEPT !.lock = t, !.waiter = t].lock = t
    BY <2>3 DEF Queues, intq
  <2>6. /\ ~failed'
        /\ \/ buffer'.lock = v /\ dev_pc' = [dev_pc EXCEPT ![t] = "run"]
           \/ buffer'.lock = t /\ dev_pc' = [dev_pc EXCEPT ![t] = "blocked"]
        /\ v = Nobody
    <3>1. dev_pc[t] \in {"run", "woken"} /\ failed' = failed
      BY <1>3, <2>1, Zenon
    <3>2. q.lock = Nobody /\ v = Nobody
      BY <2>2, <2>3, <3>1, Zenon
    <3>3. \/ buffer' = Taken(q) /\ dev_pc' = [dev_pc EXCEPT ![t] = "run"]
          \/ /\ buffer' = [q EXCEPT !.lock = t, !.waiter = t]
             /\ dev_pc' = [dev_pc EXCEPT ![t] = "blocked"]
      BY <1>3, <2>1, <3>2, Zenon
    <3> QED
      BY <2>1, <2>4, <2>5, <3>1, <3>2, <3>3, Zenon
  <2> QED
    BY <1>2, <2>6
<1> QED
  BY <1>4, <1>5, OneReader DEF LoneInv

(* No step makes a lone reader find the lock of the input buffer taken.    *)
LEMMA StepLone == IInv /\ LoneInv /\ [DevNext]_devVars => LoneInv'
<1> SUFFICES ASSUME IInv, LoneInv, [DevNext]_devVars PROVE LoneInv'
  OBVIOUS
<1>1. buffer \in Queues(Chars)
  BY DEF IInv, InputInv, Fifo
<1>2. DOMAIN dev_pc = Writer \cup Reader
  BY DEF LoneInv
<1>3. CASE UNCHANGED <<buffer, dev_pc, failed>>
  BY <1>3, LoneKept
<1>4. ASSUME NEW t \in Writer, serial_putc(t) PROVE LoneInv'
  <2>1. /\ buffer' = buffer /\ failed' = failed
        /\ \/ \E z : dev_pc' = Signalled([dev_pc EXCEPT ![t] = "run"], z)
           \/ dev_pc' = [dev_pc EXCEPT ![t] = "blocked"]
    BY <1>4, Zenon DEF serial_putc
  <2>2. t \notin Reader
    BY CharDevicesAssumption
  <2>3. \A x : /\ DOMAIN [dev_pc EXCEPT ![t] = x] = DOMAIN dev_pc
               /\ \A u \in Reader : [dev_pc EXCEPT ![t] = x][u] = dev_pc[u]
    BY <1>2, <2>2
  <2>4. DOMAIN dev_pc' = DOMAIN dev_pc /\ \A u \in Reader : dev_pc'[u] \in {dev_pc[u], "woken"}
    <3>1. \A z : LET f == [dev_pc EXCEPT ![t] = "run"] IN
                   /\ DOMAIN Signalled(f, z) = DOMAIN f
                   /\ \A u \in DOMAIN f : Signalled(f, z)[u] \in {f[u], "woken"}
      BY SignalledOnly, Zenon
    <3> QED
      BY <1>2, <2>1, <2>3, <3>1
  <2> QED
    BY <2>1, <2>4, LoneKept
<1>5. ASSUME buffer' = buffer \/ \E b : buffer' = Put(buffer, b), failed' = failed,
             \E y, z : dev_pc' \in {dev_pc, Signalled(dev_pc, y), Signalled(Signalled(dev_pc, y), z)}
      PROVE  LoneInv'
  <2>1. buffer'.lock = buffer.lock
    BY <1>1, <1>5, LockStays
  <2>2. DOMAIN dev_pc' = DOMAIN dev_pc /\ \A u \in Reader : dev_pc'[u] \in {dev_pc[u], "woken"}
    BY <1>2, <1>5, SignalledOnly
  <2> QED
    BY <1>5, <2>1, <2>2, LoneKept
<1>6. CASE serial_interrupt
  <2>1. /\ buffer' = buffer \/ \E b : buffer' = Put(buffer, b)
        /\ failed' = failed
        /\ dev_pc' \in {dev_pc, Signalled(dev_pc, buffer), Signalled(dev_pc, txq),
                        Signalled(Signalled(dev_pc, buffer), txq)}
    BY <1>6 DEF serial_interrupt, InputPut
  <2> QED
    BY <1>5, <2>1
<1>7. ASSUME NEW code \in Codes, keyboard_interrupt(code) PROVE LoneInv'
  <2>1. /\ buffer' = buffer \/ \E b : buffer' = Put(buffer, b)
        /\ failed' = failed
        /\ dev_pc' \in {dev_pc, Signalled(dev_pc, buffer)}
    BY <1>7 DEF keyboard_interrupt, InputPut
  <2> QED
    BY <1>5, <2>1
<1>8. CASE PanicNext
  <2>1. /\ buffer' = buffer /\ failed' = failed
        /\ dev_pc' \in {dev_pc, Signalled(dev_pc, txq)}
    BY <1>8 DEF PanicNext, console_panic, PanicPut, serial_flush
  <2> QED
    BY <1>5, <2>1
<1>9. CASE \/ Receive \/ Transmitted \/ UNCHANGED devVars
           \/ \E t \in Writer : BeginPrint(t) \/ EndPrint(t)
  BY <1>3, <1>9 DEF Receive, Transmitted, devVars, BeginPrint, EndPrint
<1> QED
  BY <1>4, <1>6, <1>7, <1>8, <1>9, GetcLone
     DEF DevNext, PrintNext, WriterStep, InputNext

(* No reader waits at the start.                                           *)
LEMMA InitLone == DevInit => LoneInv
  BY CharDevicesAssumption DEF DevInit, LoneInv, intq_init

-----------------------------------------------------------------------------
(* Bytes keep their order through the interrupt queues, for any size of    *)
(* them and any threads; what one thread prints is not mixed with what     *)
(* another prints, through the console's recursive lock; and the assertion *)
(* in intq.c's wait holds for a lone reader.                               *)
THEOREM BytesAlwaysInOrder == DevSpec => []BytesInOrder
<1>1. DevInit => IInv /\ HolderInv /\ PrintInv /\ LoneInv
  BY InitIInv, InitPrints, InitLone
<1>2. IInv /\ HolderInv /\ PrintInv /\ LoneInv /\ [DevNext]_devVars
        => (IInv /\ HolderInv /\ PrintInv /\ LoneInv)'
  BY StepIInv, StepPrints, StepLone
<1>3. IInv /\ HolderInv /\ PrintInv /\ LoneInv => BytesInOrder
  BY IInvOrders DEF PrintInv, LoneInv, BytesInOrder, WaitConditionHolds
<1> QED
  BY <1>1, <1>2, <1>3, PTL DEF DevSpec
=============================================================================
