----------------------- MODULE LatencySubmitterProofs -----------------------
(***************************************************************************)
(* Proofs about LatencySubmitter, for every number of epochs and samples,  *)
(* every size of account, batch and buffer, every number of workers and    *)
(* every mode.                                                             *)
(***************************************************************************)
EXTENDS LatencySubmitter, TLAPS

Pc == {"none", "queued", "epoch", "write", "rewrite", "init", "sent", "executed",
       "failed", "room", "prepend"}
Worker == [pc : Pc, tmp : Seq(Sample), at : Nat, try : Nat]
Adding == [pc : {"idle", "probing", "adding"}, smp : Key \X (0 .. MaxSample),
           into : {"map", "gone", "full"}]

Buffer(k) == IF buf[k] = None THEN <<>> ELSE buf[k]
On(k, r) == \E i \in DOMAIN Account(k) : Account(k)[i] = r
Full(k) == Len(Account(k)) + Batch > Room

\* The numbers of the samples measured before the one in the adder's hands.
Past == 1 .. (IF adder.pc = "idle" THEN made ELSE made - 1)
\* The samples of partition k with such a number.
Of(k) == {k} \X Past

Inc(q) == \A i, j \in DOMAIN q : i < j => q[i][2] < q[j][2]
Before(p, q) == \A i \in DOMAIN p, j \in DOMAIN q : p[i][2] < q[j][2]

AdderInv ==
  /\ adder \in Adding
  /\ adder.pc # "adding" => adder.into = "map"
  /\ adder.pc # "idle" => adder.smp \in Sample /\ adder.smp[2] = made
  /\ adder.pc = "adding" /\ adder.into = "map" => buf[adder.smp[1]] # None

GoodWorker(k, w) ==
  /\ w \in Worker
  /\ w.at < Len(w.tmp) \/ w.tmp = <<>>
  /\ w.try <= mode.attempts
  /\ w.pc \notin {"none", "queued", "epoch"} => w.tmp # <<>>
  /\ w.pc = "prepend" /\ Device => Len(w.tmp) < Capacity
  /\ w.pc \in {"sent", "executed"} => chain[k] # None
WorkerInv(k) ==
  GoodWorker(k, worker[k]) /\ (worker[k].tmp # <<>> => Len(Buffer(k)) <= Capacity)

\* What is held of a partition keeps the order in which it was measured.
OrderInv(k) ==
  /\ {Buffer(k), worker[k].tmp, Account(k)} \subseteq Seq(Of(k))
  /\ Len(Account(k)) <= Room
  /\ Device => Len(Buffer(k)) < 2 * Capacity
  /\ Inc(worker[k].tmp) /\ Inc(Buffer(k)) /\ Before(worker[k].tmp, Buffer(k))

TypeInv ==
  /\ mode \in Mode /\ life \in {"up", "stopping", "last", "down"}
  /\ epoch \in Key /\ made \in 0 .. MaxSample
  /\ AdderInv
  /\ DOMAIN buf = Key /\ DOMAIN worker = Key /\ DOMAIN chain = Key
  /\ \A k \in Key : WorkerInv(k) /\ OrderInv(k)
  /\ \A t \in loose : t[1] \in Key /\ t[2] \in Seq(Of(t[1]))

\* The batches up to the one the worker is at have been executed; the one it
\* is at once it is seen to be.
Done(w) == IF w.pc = "executed" THEN w.at + Batch ELSE w.at
WrittenBy(k, w) == \A i \in DOMAIN w.tmp : i <= Done(w) => On(k, w.tmp[i]) \/ Full(k)
Written(k) == WrittenBy(k, worker[k])

\* Whatever the agent holds and was measured before a sample of the batch b is
\* on the account or ahead of it in the batch, unless the account is full.
Covered(k, b) ==
  \A r \in Held : \A m \in DOMAIN b :
    r[1] = k /\ r[2] < b[m][2] => On(k, r) \/ Full(k) \/ \E i \in 1 .. m - 1 : b[i] = r

OrderKept ==
  /\ NotOvertaken
  /\ \A k \in Key : Written(k)
  /\ \A t \in loose : Covered(t[1], t[2])

IInv == TypeInv /\ OrderKept

-----------------------------------------------------------------------------
(* Constants, records and sequences *)

LEMMA ConstFacts ==
  /\ MaxEpoch \in Nat \ {0} /\ Capacity \in Nat \ {0} /\ Batch \in Nat \ {0}
  /\ Room \in Nat \ {0} /\ MaxSample \in Nat
  /\ <<>> \in Seq(Sample) /\ <<>> # None
<1>1. <<>> \in Seq(Sample)
  OBVIOUS
<1>2. None \notin Seq(Sample)
  BY SubmitterAssumption, Zenon
<1>3. <<>> # None
  BY <1>1, <1>2, Zenon
<1> QED  BY <1>1, <1>3, SubmitterAssumption

LEMMA ModeFacts ==
  ASSUME NEW m \in Mode
  PROVE  m.samples \in 0 .. MaxSample /\ m.attempts \in Nat \ {0}
BY SubmitterAssumption

LEMMA SampleFacts ==
  ASSUME NEW r \in Sample
  PROVE  r[1] \in Key /\ r[2] \in Nat /\ r[2] > 0 /\ r = <<r[1], r[2]>>
BY ConstFacts DEF Sample, Key

\* The fields of a worker.
LEMMA WorkerFields ==
  ASSUME NEW w \in Worker
  PROVE  w.pc \in Pc /\ w.tmp \in Seq(Sample) /\ w.at \in Nat /\ w.try \in Nat
BY Zenon DEF Worker

LEMMA NewWorker ==
  ASSUME NEW p \in Pc, NEW q \in Seq(Sample), NEW a \in Nat, NEW n \in Nat
  PROVE  LET w == [pc |-> p, tmp |-> q, at |-> a, try |-> n] IN
         w \in Worker /\ w.pc = p /\ w.tmp = q /\ w.at = a /\ w.try = n
BY Zenon DEF Worker

LEMMA IdleWorker ==
  /\ NoWorker \in Worker /\ NoWorker.pc = "none" /\ NoWorker.tmp = <<>>
  /\ NoWorker.at = 0 /\ NoWorker.try = 0
BY ConstFacts DEF NoWorker, Worker, Pc

\* A worker goes on to p.
LEMMA WorkerAt ==
  ASSUME NEW w \in Worker, NEW p \in Pc
  PROVE  LET v == [w EXCEPT !.pc = p] IN
         v \in Worker /\ v.pc = p /\ v.tmp = w.tmp /\ v.at = w.at /\ v.try = w.try
BY Zenon DEF Worker

\* Two sequences end to end.
LEMMA Concat ==
  ASSUME NEW S, NEW p \in Seq(S), NEW q \in Seq(S)
  PROVE  /\ p \o q \in Seq(S) /\ Len(p \o q) = Len(p) + Len(q)
         /\ Len(p) \in Nat /\ Len(q) \in Nat
         /\ DOMAIN p = 1 .. Len(p) /\ DOMAIN q = 1 .. Len(q)
         /\ DOMAIN (p \o q) = 1 .. Len(p) + Len(q)
         /\ \A i \in 1 .. Len(p) : (p \o q)[i] = p[i]
         /\ \A i \in 1 .. Len(q) : (p \o q)[Len(p) + i] = q[i]
         /\ \A i \in Len(p) + 1 .. Len(p) + Len(q) : (p \o q)[i] = q[i - Len(p)]
OBVIOUS

LEMMA Empty ==
  /\ <<>> \in Seq(Sample) /\ Len(<<>>) = 0 /\ DOMAIN <<>> = {}
  /\ \A i \in DOMAIN <<>> : FALSE
OBVIOUS

LEMMA SeqOfSub ==
  ASSUME NEW S, NEW T, S \subseteq T, NEW q \in Seq(S)
  PROVE  q \in Seq(T)
OBVIOUS

-----------------------------------------------------------------------------
(* What is known of a partition *)

LEMMA PastFacts ==
  ASSUME TypeInv, NEW k \in Key
  PROVE  /\ Past \subseteq 1 .. made /\ made \in Nat /\ made <= MaxSample
         /\ \A r \in Of(k) : r[1] = k /\ r[2] \in Past /\ r[2] \in Nat
         /\ Of(k) \subseteq {k} \X (1 .. made) /\ Of(k) \subseteq Sample
<1>1. made \in 0 .. MaxSample /\ MaxSample \in Nat
  BY ConstFacts DEF TypeInv
<1>2. Past \subseteq 1 .. made
  BY <1>1 DEF Past
<1>0. Past \subseteq Nat
  BY <1>1, <1>2
<1>3. \A r \in Of(k) : r[1] = k /\ r[2] \in Past /\ r[2] \in Nat
  <2> SUFFICES ASSUME NEW r \in {k} \X Past
               PROVE  r[1] = k /\ r[2] \in Past /\ r[2] \in Nat
    BY Zenon DEF Of
  <2>1. r[1] = k /\ r[2] \in Past
    OBVIOUS
  <2> QED  BY <2>1, <1>0, Zenon
<1>4. Of(k) \subseteq {k} \X (1 .. made)
  BY <1>2 DEF Of
<1>5. Of(k) \subseteq Sample
  BY <1>1, <1>4 DEF Sample
<1> QED  BY <1>1, <1>2, <1>3, <1>4, <1>5

LEMMA KeyFacts ==
  ASSUME TypeInv, NEW k \in Key
  PROVE  /\ Buffer(k) \in Seq(Of(k)) /\ worker[k].tmp \in Seq(Of(k))
         /\ Account(k) \in Seq(Of(k))
         /\ Buffer(k) \in Seq(Sample) /\ worker[k].tmp \in Seq(Sample)
         /\ Account(k) \in Seq(Sample)
         /\ Len(Account(k)) <= Room
         /\ Inc(worker[k].tmp) /\ Inc(Buffer(k)) /\ Before(worker[k].tmp, Buffer(k))
         /\ Device => Len(Buffer(k)) < 2 * Capacity
<1>1. OrderInv(k)
  BY Zenon DEF TypeInv
<1>2. Of(k) \subseteq Sample
  BY PastFacts
<1>3. /\ Buffer(k) \in Seq(Of(k)) /\ worker[k].tmp \in Seq(Of(k))
      /\ Account(k) \in Seq(Of(k))
  BY <1>1, Zenon DEF OrderInv
<1>4. /\ Buffer(k) \in Seq(Sample) /\ worker[k].tmp \in Seq(Sample)
      /\ Account(k) \in Seq(Sample)
  BY <1>2, <1>3, SeqOfSub
<1> QED  BY <1>1, <1>3, <1>4, Zenon DEF OrderInv

LEMMA WorkerFacts ==
  ASSUME TypeInv, NEW k \in Key
  PROVE  LET w == worker[k] IN
         /\ w \in Worker /\ w.pc \in Pc /\ w.tmp \in Seq(Sample)
         /\ w.at \in Nat /\ w.try \in Nat
         /\ w.at < Len(w.tmp) \/ w.tmp = <<>>
         /\ w.try <= mode.attempts
         /\ w.pc \notin {"none", "queued", "epoch"} => w.tmp # <<>>
         /\ w.tmp # <<>> => Len(Buffer(k)) <= Capacity
         /\ w.pc = "prepend" /\ Device => Len(w.tmp) < Capacity
         /\ w.pc \in {"sent", "executed"} => chain[k] # None
<1>1. WorkerInv(k)
  BY Zenon DEF TypeInv
<1>2. worker[k] \in Worker
  BY <1>1, Zenon DEF WorkerInv, GoodWorker
<1> QED  BY <1>1, <1>2, WorkerFields, Zenon DEF WorkerInv, GoodWorker

\* What is held, without unions.
HeldBy(k, r) ==
  \/ \E i \in DOMAIN Buffer(k) : Buffer(k)[i] = r
  \/ \E i \in DOMAIN worker[k].tmp : worker[k].tmp[i] = r
HeldByAdder(r) == adder.pc = "adding" /\ adder.into = "map" /\ r = adder.smp

HeldMeans == \A r : r \in Held <=> HeldByAdder(r) \/ \E k \in Key : HeldBy(k, r)

LEMMA HeldDef == HeldMeans
<1> SUFFICES ASSUME NEW r
             PROVE  r \in Held <=> HeldByAdder(r) \/ \E k \in Key : HeldBy(k, r)
  BY DEF HeldMeans
<1>1. r \in InBuffer <=> \E k \in Key : \E i \in DOMAIN Buffer(k) : Buffer(k)[i] = r
  BY DEF InBuffer, Buffer, Range
<1>2. r \in InHand <=> \E k \in Key : \E i \in DOMAIN worker[k].tmp : worker[k].tmp[i] = r
  BY DEF InHand, Range
<1> QED  BY <1>1, <1>2, Zenon DEF Held, HeldBy, HeldByAdder

\* What is held of a partition and was measured before a sample in the worker's
\* hands is in its hands too, ahead of it.
LEMMA HeldOrder ==
  ASSUME TypeInv, NEW k \in Key, NEW r \in Held, r[1] = k,
         NEW i \in DOMAIN worker[k].tmp, r[2] < worker[k].tmp[i][2]
  PROVE  \E j \in 1 .. i - 1 : worker[k].tmp[j] = r
<1> DEFINE q == worker[k].tmp
<1>1. /\ q \in Seq(Of(k)) /\ Buffer(k) \in Seq(Of(k))
      /\ Inc(q) /\ Before(q, Buffer(k))
  BY KeyFacts, Zenon
<1>2. /\ \A s \in Of(k) : s[1] = k /\ s[2] \in Past /\ s[2] \in Nat
      /\ made \in Nat
  BY PastFacts, Zenon
<1>3. q[i][2] \in Past /\ q[i][2] \in Nat /\ i \in 1 .. Len(q) /\ DOMAIN q = 1 .. Len(q)
      /\ Len(q) \in Nat
  <2>1. q[i] \in Of(k) /\ i \in 1 .. Len(q) /\ DOMAIN q = 1 .. Len(q) /\ Len(q) \in Nat
    BY <1>1
  <2> QED  BY <2>1, <1>2, Zenon
<1>4. ASSUME HeldByAdder(r)  PROVE FALSE
  <2>1. adder.pc # "idle" /\ r[2] = made
    BY <1>4 DEF HeldByAdder, TypeInv, AdderInv
  <2> QED  BY <2>1, <1>2, <1>3 DEF Past
<1>5. ASSUME NEW m \in Key, HeldBy(m, r)
      PROVE  \E j \in 1 .. i - 1 : q[j] = r
  <2>1. m = k
    <3>1. /\ Buffer(m) \in Seq(Of(m)) /\ worker[m].tmp \in Seq(Of(m))
      BY KeyFacts, Zenon
    <3>2. r \in Of(m)
      BY <3>1, <1>5 DEF HeldBy
    <3> QED  BY <3>2, PastFacts, Zenon
  <2>2. ASSUME NEW j \in DOMAIN Buffer(k), Buffer(k)[j] = r
        PROVE  FALSE
    <3>1. Buffer(k)[j][2] \in Nat
      BY <1>1, <1>2
    <3> QED  BY <2>2, <3>1, <1>1, <1>3 DEF Before
  <2>3. ASSUME NEW j \in DOMAIN q, q[j] = r
        PROVE  j \in 1 .. i - 1
    <3>1. q[j][2] \in Nat /\ j \in Nat /\ j >= 1
      BY <1>1, <1>2
    <3>2. ~(i < j)
      <4>1. i < j => q[i][2] < r[2]
        BY <2>3, <1>1, Zenon DEF Inc
      <4> QED  BY <4>1, <2>3, <3>1, <1>3
    <3>3. i # j
      BY <2>3, <1>3
    <3> QED  BY <3>1, <3>2, <3>3, <1>3
  <2> QED  BY <1>5, <2>1, <2>2, <2>3, Zenon DEF HeldBy
<1> HIDE DEF q
<1>6. \E j \in 1 .. i - 1 : q[j] = r
  <2>1. HeldByAdder(r) \/ \E m \in Key : HeldBy(m, r)
    BY HeldDef, Zenon DEF HeldMeans
  <2> QED  BY <2>1, <1>4, <1>5, Zenon
<1> QED  BY <1>6 DEF q

\* The batch the worker is at.
LEMMA PartFacts ==
  ASSUME TypeInv, NEW k \in Key, worker[k].tmp # <<>>
  PROVE  /\ Part(k) \in Seq(Of(k)) /\ Len(Part(k)) \in Nat /\ Len(Part(k)) <= Batch
         /\ DOMAIN Part(k) = 1 .. Len(Part(k))
         /\ \A m \in DOMAIN Part(k) : /\ Part(k)[m] = worker[k].tmp[worker[k].at + m]
                                      /\ worker[k].at + m \in DOMAIN worker[k].tmp
         /\ \A i \in DOMAIN worker[k].tmp :
              worker[k].at < i /\ i <= worker[k].at + Batch =>
                i - worker[k].at \in DOMAIN Part(k)
<1> DEFINE q == worker[k].tmp
           a == worker[k].at
           n == IF a + Batch < Len(q) THEN a + Batch ELSE Len(q)
<1>1. q \in Seq(Of(k)) /\ a \in Nat /\ a < Len(q)
  BY KeyFacts, WorkerFacts, Zenon
<1>2. Part(k) = SubSeq(q, a + 1, n)
  BY Zenon DEF Part
<1> HIDE DEF q, a
<1>3. n \in Nat /\ a < n /\ n <= Len(q) /\ n <= a + Batch
  BY <1>1, ConstFacts
<1>4. Batch \in Nat /\ Len(q) \in Nat /\ DOMAIN q = 1 .. Len(q)
  BY <1>1, ConstFacts
<1>5. \A i \in DOMAIN q : i <= a + Batch => i <= n
  BY <1>4, <1>1
<1> HIDE DEF n
<1>6. /\ SubSeq(q, a + 1, n) \in Seq(Of(k)) /\ Len(SubSeq(q, a + 1, n)) = n - a
      /\ DOMAIN SubSeq(q, a + 1, n) = 1 .. n - a
      /\ \A m \in 1 .. n - a : SubSeq(q, a + 1, n)[m] = q[a + m]
  BY <1>1, <1>3, <1>4
<1>7. /\ Len(Part(k)) = n - a /\ DOMAIN Part(k) = 1 .. n - a /\ Part(k) \in Seq(Of(k))
      /\ \A m \in 1 .. n - a : Part(k)[m] = q[a + m]
  BY <1>2, <1>6, Zenon
<1>8. \A m \in 1 .. n - a : a + m \in DOMAIN q
  BY <1>1, <1>3, <1>4
<1>9. \A i \in DOMAIN q : a < i /\ i <= a + Batch => i - a \in 1 .. n - a
  BY <1>1, <1>3, <1>4, <1>5
<1>10. n - a \in Nat /\ n - a <= Batch
  BY <1>1, <1>3, <1>4
<1> QED  BY <1>7, <1>8, <1>9, <1>10, Zenon DEF q, a

\* When the worker has sent the batch it is at, what is held and was measured
\* before a sample of it is on the account or in the batch.
LEMMA PartCovered ==
  ASSUME TypeInv, NEW k \in Key, worker[k].pc = "sent", Written(k)
  PROVE  Covered(k, Part(k))
<1>1. worker[k].tmp # <<>> /\ worker[k].at \in Nat
  BY WorkerFacts, Zenon
<1>2. Done(worker[k]) = worker[k].at
  BY DEF Done
<1> SUFFICES ASSUME NEW r \in Held, NEW m \in DOMAIN Part(k),
                    r[1] = k, r[2] < Part(k)[m][2]
             PROVE  On(k, r) \/ Full(k) \/ \E i \in 1 .. m - 1 : Part(k)[i] = r
  BY Zenon DEF Covered
<1> DEFINE q == worker[k].tmp
           a == worker[k].at
<1>3. /\ DOMAIN Part(k) = 1 .. Len(Part(k)) /\ Len(Part(k)) \in Nat
      /\ \A n \in DOMAIN Part(k) : Part(k)[n] = q[a + n] /\ a + n \in DOMAIN q
  BY <1>1, PartFacts, Zenon
<1>4. PICK j \in 1 .. (a + m) - 1 : q[j] = r
  BY <1>3, HeldOrder, Zenon
<1>5. q \in Seq(Sample) /\ a \in Nat
  BY WorkerFacts, Zenon
<1> HIDE DEF q, a
<1>6. a + m \in 1 .. Len(q) /\ Len(q) \in Nat /\ DOMAIN q = 1 .. Len(q)
  <2>1. a + m \in DOMAIN q
    BY <1>3, Zenon
  <2> QED  BY <2>1, <1>5
<1>7. CASE j <= a
  <2>1. j \in DOMAIN q
    BY <1>5, <1>6
  <2> QED  BY <2>1, <1>2, <1>4, <1>7, Zenon DEF Written, WrittenBy, q, a
<1>8. CASE ~(j <= a)
  <2>1. j - a \in 1 .. m - 1 /\ j - a \in DOMAIN Part(k) /\ a + (j - a) = j
    BY <1>3, <1>5, <1>6, <1>8
  <2>2. Part(k)[j - a] = r
    BY <2>1, <1>3, <1>4, Zenon DEF q, a
  <2> QED  BY <2>1, <2>2, Zenon
<1> QED  BY <1>7, <1>8

-----------------------------------------------------------------------------
(* Steps that leave the accounts alone, and steps that write to one *)

LEMMA OnFacts ==
  ASSUME NEW k \in Key, Account(k)' = Account(k)
  PROVE  /\ Full(k)' <=> Full(k)
         /\ \A r : On(k, r)' <=> On(k, r)
BY Zenon DEF Full, On

LEMMA Quiet ==
  ASSUME TypeInv, OrderKept, Held' \subseteq Held,
         \A t \in loose' : t \in loose \/ (t[1] \in Key /\ Covered(t[1], t[2])),
         \A k \in Key : Account(k)' = Account(k) /\ Written(k)'
  PROVE  OrderKept'
<1>1. NotOvertaken'
  BY DEF OrderKept, NotOvertaken
<1>2. ASSUME NEW t \in loose'  PROVE  Covered(t[1], t[2])'
  <2>1. t[1] \in Key /\ Covered(t[1], t[2])
    BY Zenon DEF OrderKept, TypeInv
  <2>2. /\ Full(t[1])' <=> Full(t[1])
        /\ \A r : On(t[1], r)' <=> On(t[1], r)
    BY <2>1, OnFacts, Zenon
  <2> QED  BY <2>1, <2>2, Zenon DEF Covered
<1> QED  BY <1>1, <1>2, Zenon DEF OrderKept

\* The batch b lands on the account of partition k.
LEMMA Landed ==
  ASSUME TypeInv, OrderKept, Held' \subseteq Held, loose' \subseteq loose,
         NEW k \in Key, NEW b \in Seq(Of(k)), Covered(k, b),
         Account(k)' = Account(k) \o b,
         \A j \in Key \ {k} : Account(j)' = Account(j)
  PROVE  /\ NotOvertaken' /\ \A t \in loose' : Covered(t[1], t[2])'
         /\ \A j \in Key : (Full(j) => Full(j)') /\ \A r : On(j, r) => On(j, r)'
         /\ \A i \in DOMAIN b : On(k, b[i])'
<1> DEFINE a == Account(k)
<1>1. a \in Seq(Of(k))
  BY KeyFacts, Zenon
<1> HIDE DEF a
<1>2. /\ Len(a \o b) = Len(a) + Len(b) /\ Len(a) \in Nat /\ Len(b) \in Nat
      /\ DOMAIN a = 1 .. Len(a) /\ DOMAIN b = 1 .. Len(b)
      /\ DOMAIN (a \o b) = 1 .. Len(a) + Len(b)
      /\ \A i \in 1 .. Len(a) : (a \o b)[i] = a[i]
      /\ \A i \in 1 .. Len(b) : (a \o b)[Len(a) + i] = b[i]
      /\ \A i \in Len(a) + 1 .. Len(a) + Len(b) : (a \o b)[i] = b[i - Len(a)]
  BY <1>1
<1>3. Account(k)' = a \o b
  BY Zenon DEF a
<1>4. \A i \in DOMAIN a : i \in DOMAIN (a \o b) /\ (a \o b)[i] = a[i]
  BY <1>2
<1>5. \A r : On(k, r) => On(k, r)'
  BY <1>3, <1>4, Zenon DEF On, a
<1>6. Full(k) => Full(k)'
  BY <1>2, <1>3, ConstFacts DEF Full, a
<1>7. \A i \in DOMAIN b : On(k, b[i])'
  <2>1. \A i \in DOMAIN b : Len(a) + i \in DOMAIN (a \o b) /\ (a \o b)[Len(a) + i] = b[i]
    BY <1>2
  <2> QED  BY <2>1, <1>3, Zenon DEF On
<1>8. \A j \in Key : (Full(j) => Full(j)') /\ \A r : On(j, r) => On(j, r)'
  BY <1>5, <1>6, OnFacts, Zenon
<1>9. ASSUME NEW t \in loose'  PROVE  Covered(t[1], t[2])'
  <2>1. t[1] \in Key /\ Covered(t[1], t[2])
    BY Zenon DEF OrderKept, TypeInv
  <2> QED  BY <2>1, <1>8, Zenon DEF Covered
<1>10. NotOvertaken'
  <2> SUFFICES ASSUME NEW r \in Held, NEW n \in Key, NEW j \in DOMAIN Account(n)',
                      r[1] = n, r[2] < Account(n)'[j][2], j + Batch <= Room + 1
               PROVE  \E i \in 1 .. j - 1 : Account(n)'[i] = r
    BY Zenon DEF NotOvertaken
  <2>1. CASE n # k
    <3>1. Account(n)' = Account(n)
      BY <2>1, Zenon
    <3>2. j \in DOMAIN Account(n) /\ r[2] < Account(n)[j][2]
      BY <3>1
    <3>3. \E i \in 1 .. j - 1 : Account(n)[i] = r
      BY <3>2, Zenon DEF OrderKept, NotOvertaken
    <3> QED  BY <3>1, <3>3
  <2>2. CASE n = k /\ j <= Len(a)
    <3>1. j \in DOMAIN a /\ Account(k)'[j] = a[j] /\ j \in Nat
      BY <2>2, <1>2, <1>3
    <3>0. r[1] = k /\ r[2] < a[j][2]
      BY <2>2, <3>1
    <3>2. PICK i \in 1 .. j - 1 : a[i] = r
      BY <3>0, <3>1, Zenon DEF OrderKept, NotOvertaken, a
    <3>3. i \in 1 .. Len(a)
      BY <3>1, <2>2, <1>2
    <3>4. Account(n)'[i] = r
      BY <3>2, <3>3, <2>2, <1>2, <1>3
    <3> QED  BY <3>4, Zenon
  <2>3. CASE n = k /\ ~(j <= Len(a))
    <3>1. j \in Len(a) + 1 .. Len(a) + Len(b) /\ j - Len(a) \in DOMAIN b /\ j \in Nat
      BY <2>3, <1>2, <1>3
    <3>2. Account(k)'[j] = b[j - Len(a)]
      BY <3>1, <1>2, <1>3, Zenon
    <3>3. On(k, r) \/ Full(k) \/ \E i \in 1 .. (j - Len(a)) - 1 : b[i] = r
      BY <3>1, <3>2, <2>3, Zenon DEF Covered
    <3>4. ~Full(k)
      BY <3>1, <1>2, ConstFacts DEF Full, a
    <3>5. CASE On(k, r)
      <4>1. PICK i \in DOMAIN a : a[i] = r
        BY <3>5, Zenon DEF On, a
      <4>2. i \in 1 .. j - 1
        BY <1>2, <3>1
      <4> QED  BY <4>1, <4>2, <2>3, <1>3, <1>4, Zenon
    <3>6. ASSUME NEW i \in 1 .. (j - Len(a)) - 1, b[i] = r
          PROVE  \E m \in 1 .. j - 1 : Account(n)'[m] = r
      <4>1. i \in 1 .. Len(b) /\ Len(a) + i \in 1 .. j - 1
        BY <1>2, <3>1
      <4>2. Account(n)'[Len(a) + i] = r
        BY <3>6, <4>1, <2>3, <1>2, <1>3
      <4> QED  BY <4>1, <4>2, Zenon
    <3> QED  BY <3>3, <3>4, <3>5, <3>6, Zenon
  <2> QED  BY <2>1, <2>2, <2>3, Zenon
<1> QED  BY <1>7, <1>8, <1>9, <1>10, Zenon

-----------------------------------------------------------------------------
(* Steps about one partition *)

\* Held samples only go.
LEMMA HeldGoes ==
  ASSUME NEW k \in Key,
         \A j \in Key \ {k} : Buffer(j)' = Buffer(j) /\ worker'[j] = worker[j],
         \A r : HeldBy(k, r)' => HeldBy(k, r),
         \A r : HeldByAdder(r)' => HeldByAdder(r)
  PROVE  Held' \subseteq Held
<1>0. HeldMeans'
  BY HeldDef, PTL
<1> SUFFICES ASSUME NEW r \in Held'  PROVE  r \in Held
  BY Zenon
<1>1. HeldByAdder(r)' \/ \E j \in Key : HeldBy(j, r)'
  BY <1>0, Zenon DEF HeldMeans
<1>2. ASSUME NEW j \in Key, j # k, HeldBy(j, r)'  PROVE  HeldBy(j, r)
  BY <1>2, Zenon DEF HeldBy
<1> QED  BY <1>1, <1>2, HeldDef, Zenon DEF HeldMeans

LEMMA HeldByShrinks ==
  ASSUME NEW k \in Key,
         Buffer(k)' \in {Buffer(k), <<>>},
         worker'[k].tmp \in {worker[k].tmp, <<>>}
  PROVE  \A r : HeldBy(k, r)' => HeldBy(k, r)
<1> SUFFICES ASSUME NEW r, HeldBy(k, r)'  PROVE  HeldBy(k, r)
  BY Zenon
<1>1. \A i \in DOMAIN <<>> : FALSE
  BY Empty, Zenon
<1>2. ASSUME NEW i \in DOMAIN Buffer(k)', Buffer(k)'[i] = r
      PROVE  HeldBy(k, r)
  BY <1>1, <1>2, Zenon DEF HeldBy
<1>3. ASSUME NEW i \in DOMAIN worker'[k].tmp, worker'[k].tmp[i] = r
      PROVE  HeldBy(k, r)
  BY <1>1, <1>3, Zenon DEF HeldBy
<1> QED  BY <1>2, <1>3, Zenon DEF HeldBy

\* The order of what is held is kept when some of it goes.
LEMMA OrderShrinks ==
  ASSUME TypeInv, NEW k \in Key, mode' = mode, Past \subseteq Past',
         Buffer(k)' \in {Buffer(k), <<>>},
         worker'[k].tmp \in {worker[k].tmp, <<>>},
         Account(k)' = Account(k)
  PROVE  OrderInv(k)'
<1>1. Of(k) \subseteq Of(k)'
  BY DEF Of
<1>2. /\ Buffer(k) \in Seq(Of(k)) /\ worker[k].tmp \in Seq(Of(k))
      /\ Account(k) \in Seq(Of(k)) /\ Len(Account(k)) <= Room
      /\ Inc(worker[k].tmp) /\ Inc(Buffer(k)) /\ Before(worker[k].tmp, Buffer(k))
      /\ Device => Len(Buffer(k)) < 2 * Capacity
  BY KeyFacts, Zenon
<1>3. /\ Buffer(k)' \in Seq(Of(k)) /\ worker'[k].tmp \in Seq(Of(k))
      /\ Account(k)' \in Seq(Of(k))
  <2>1. <<>> \in Seq(Of(k))
    OBVIOUS
  <2> QED  BY <2>1, <1>2, Zenon
<1>4. /\ Buffer(k)' \in Seq(Of(k)') /\ worker'[k].tmp \in Seq(Of(k)')
      /\ Account(k)' \in Seq(Of(k)')
  BY <1>1, <1>3, SeqOfSub
<1>5. Device' => Len(Buffer(k)') < 2 * Capacity
  <2>1. Len(<<>>) < 2 * Capacity
    BY Empty, ConstFacts
  <2> QED  BY <2>1, <1>2, Zenon DEF Device
<1>6. \A i \in DOMAIN <<>> : FALSE
  BY Empty, Zenon
<1>7. Inc(worker'[k].tmp) /\ Inc(Buffer(k)')
  BY <1>2, <1>6, Zenon DEF Inc
<1>8. Before(worker'[k].tmp, Buffer(k)')
  BY <1>2, <1>6, Zenon DEF Before
<1>9. Len(Account(k)') <= Room
  BY <1>2, Zenon
<1> QED  BY <1>4, <1>5, <1>7, <1>8, <1>9, Zenon DEF OrderInv

LEMMA KeySame ==
  ASSUME TypeInv, NEW k \in Key, mode' = mode, Past \subseteq Past',
         worker'[k] = worker[k], buf'[k] = buf[k], chain'[k] = chain[k]
  PROVE  /\ WorkerInv(k)' /\ OrderInv(k)'
         /\ Account(k)' = Account(k) /\ Buffer(k)' = Buffer(k)
<1>1. Account(k)' = Account(k) /\ Buffer(k)' = Buffer(k)
  BY Zenon DEF Account, Buffer
<1>2. OrderInv(k)'
  BY <1>1, OrderShrinks, Zenon
<1>3. WorkerInv(k)
  BY Zenon DEF TypeInv
<1>4. WorkerInv(k)'
  BY <1>1, <1>3, Zenon DEF WorkerInv, GoodWorker, Device
<1> QED  BY <1>1, <1>2, <1>4, Zenon

\* A step that changes the worker, the buffer or the account of one partition.
OnlyAt(k) ==
  /\ UNCHANGED <<mode, epoch, made>> /\ life' \in {"up", "stopping", "last", "down"}
  /\ Past' = Past
  /\ DOMAIN buf' = Key /\ DOMAIN worker' = Key /\ DOMAIN chain' = Key
  /\ \A j \in Key \ {k} : worker'[j] = worker[j] /\ buf'[j] = buf[j] /\ chain'[j] = chain[j]

LEMMA OneKey ==
  ASSUME TypeInv, NEW k \in Key, OnlyAt(k), AdderInv', WorkerInv(k)', OrderInv(k)',
         \A t \in loose' : t \in loose \/ (t[1] \in Key /\ t[2] \in Seq(Of(t[1])))
  PROVE  /\ TypeInv'
         /\ \A j \in Key \ {k} : Account(j)' = Account(j) /\ Buffer(j)' = Buffer(j)
<1>0. mode' = mode /\ Past' = Past
  BY Zenon DEF OnlyAt
<1>1. \A j \in Key \ {k} : /\ WorkerInv(j)' /\ OrderInv(j)'
                          /\ Account(j)' = Account(j) /\ Buffer(j)' = Buffer(j)
  <2> SUFFICES ASSUME NEW j \in Key \ {k}
               PROVE  /\ WorkerInv(j)' /\ OrderInv(j)'
                      /\ Account(j)' = Account(j) /\ Buffer(j)' = Buffer(j)
    BY Zenon
  <2>1. j \in Key /\ Past \subseteq Past'
    BY <1>0, Zenon
  <2>2. worker'[j] = worker[j] /\ buf'[j] = buf[j] /\ chain'[j] = chain[j]
    BY Zenon DEF OnlyAt
  <2> QED  BY <1>0, <2>1, <2>2, KeySame, Zenon
<1>2. \A j \in Key : WorkerInv(j)' /\ OrderInv(j)'
  BY <1>1, Zenon
<1>3. ASSUME NEW t \in loose'  PROVE  t[1] \in Key /\ t[2] \in Seq(Of(t[1])')
  <2>1. t[1] \in Key /\ t[2] \in Seq(Of(t[1]))
    BY Zenon DEF TypeInv
  <2> QED  BY <2>1, <1>0, Zenon DEF Of
<1>4. /\ mode' \in Mode /\ life' \in {"up", "stopping", "last", "down"}
      /\ epoch' \in Key /\ made' \in 0 .. MaxSample
      /\ DOMAIN buf' = Key /\ DOMAIN worker' = Key /\ DOMAIN chain' = Key
  BY DEF OnlyAt, TypeInv
<1>5. TypeInv'
  BY <1>2, <1>3, <1>4, Zenon DEF TypeInv
<1> QED  BY <1>1, <1>5, Zenon

LEMMA OneKeyOrder ==
  ASSUME TypeInv, OrderKept, NEW k \in Key, OnlyAt(k), Held' \subseteq Held,
         \A j \in Key : Account(j)' = Account(j), WrittenBy(k, worker'[k]),
         \A t \in loose' : t \in loose \/ (t[1] \in Key /\ Covered(t[1], t[2]))
  PROVE  OrderKept'
<1>1. ASSUME NEW j \in Key  PROVE  Written(j)'
  <2>1. /\ Full(j)' <=> Full(j)
        /\ \A r : On(j, r)' <=> On(j, r)
    BY OnFacts, Zenon
  <2>2. WrittenBy(j, worker'[j])
    <3>1. j # k => worker'[j] = worker[j] /\ WrittenBy(j, worker[j])
      BY Zenon DEF OnlyAt, OrderKept, Written
    <3> QED  BY <3>1
  <2> QED  BY <2>1, <2>2, Zenon DEF Written, WrittenBy, Done
<1> QED  BY <1>1, Quiet, Zenon

\* The worker of partition k goes on, with what it has in hand or without; the
\* account may be initialised.
LEMMA WorkerStep ==
  ASSUME IInv, NEW k \in Key, NEW w, GoodWorker(k, w), WrittenBy(k, w),
         w.tmp \in {worker[k].tmp, <<>>}, worker' = [worker EXCEPT ![k] = w],
         UNCHANGED <<mode, life, epoch, made, adder, buf>>,
         chain' = chain \/ chain' = [chain EXCEPT ![k] = Account(k)],
         \A t \in loose' :
           t \in loose \/ (t[1] \in Key /\ t[2] \in Seq(Of(t[1])) /\ Covered(t[1], t[2]))
  PROVE  IInv'
<1>1. TypeInv /\ OrderKept
  BY Zenon DEF IInv
<1>2. OnlyAt(k) /\ worker'[k] = w
  <2>1. /\ life \in {"up", "stopping", "last", "down"}
        /\ DOMAIN buf = Key /\ DOMAIN worker = Key /\ DOMAIN chain = Key
    BY <1>1, Zenon DEF TypeInv
  <2>2. /\ DOMAIN worker' = Key /\ worker'[k] = w
        /\ \A j \in Key \ {k} : worker'[j] = worker[j]
    BY <2>1, Zenon
  <2>3. Past' = Past
    BY Zenon DEF Past
  <2>4. DOMAIN chain' = Key /\ \A j \in Key \ {k} : chain'[j] = chain[j]
    BY <2>1
  <2> QED  BY <2>1, <2>2, <2>3, <2>4, Zenon DEF OnlyAt
<1>3. /\ Account(k)' = Account(k) /\ Buffer(k)' = Buffer(k)
      /\ chain[k] # None => chain'[k] # None
  <2>1. Account(k) # None
    <3>1. Account(k) \in Seq(Sample) /\ None \notin Seq(Sample)
      BY <1>1, KeyFacts, SubmitterAssumption, Zenon
    <3> QED  BY <3>1, Zenon
  <2>2. CASE chain' = chain
    BY <2>2, Zenon DEF Account, Buffer
  <2>3. CASE chain' = [chain EXCEPT ![k] = Account(k)]
    <3>1. chain'[k] = Account(k)
      BY <1>1, <2>3, Zenon DEF TypeInv
    <3> QED  BY <2>1, <3>1, Zenon DEF Account, Buffer
  <2> QED  BY <2>2, <2>3
<1>4. WorkerInv(k)'
  <2>1. w.tmp # <<>> => Len(Buffer(k)) <= Capacity
    BY <1>1, WorkerFacts, Zenon
  <2> QED  BY <1>2, <1>3, <2>1, Zenon DEF WorkerInv, GoodWorker, Device
<1>5. OrderInv(k)'
  <2>1. Past \subseteq Past'
    BY Zenon DEF Past
  <2> QED  BY <1>1, <1>2, <1>3, <2>1, OrderShrinks, Zenon
<1>6. AdderInv'
  BY <1>1, Zenon DEF TypeInv, AdderInv
<1>7. /\ TypeInv'
      /\ \A j \in Key \ {k} : Account(j)' = Account(j) /\ Buffer(j)' = Buffer(j)
  <2>1. \A t \in loose' : t \in loose \/ (t[1] \in Key /\ t[2] \in Seq(Of(t[1])))
    BY Zenon
  <2> QED  BY <1>1, <1>2, <1>4, <1>5, <1>6, <2>1, OneKey, Zenon
<1>8. Held' \subseteq Held
  <2>1. \A r : HeldByAdder(r)' => HeldByAdder(r)
    BY Zenon DEF HeldByAdder
  <2>2. \A j \in Key \ {k} : Buffer(j)' = Buffer(j) /\ worker'[j] = worker[j]
    BY <1>2, <1>7, Zenon DEF OnlyAt
  <2>3. \A r : HeldBy(k, r)' => HeldBy(k, r)
    BY <1>2, <1>3, HeldByShrinks, Zenon
  <2> QED  BY <2>1, <2>2, <2>3, HeldGoes, Zenon
<1>9. \A j \in Key : Account(j)' = Account(j)
  BY <1>3, <1>7, Zenon
<1>10. WrittenBy(k, worker'[k])
  BY <1>2, Zenon
<1>11. \A t \in loose' : t \in loose \/ (t[1] \in Key /\ Covered(t[1], t[2]))
  BY Zenon
<1>12. OrderKept'
  BY <1>1, <1>2, <1>8, <1>9, <1>10, <1>11, OneKeyOrder, Zenon
<1> QED  BY <1>7, <1>12, Zenon DEF IInv

LEMMA GoodIdle ==
  ASSUME NEW k \in Key, TypeInv, NEW p \in {"none", "queued", "epoch"}
  PROVE  LET w == [NoWorker EXCEPT !.pc = p] IN
         GoodWorker(k, w) /\ WrittenBy(k, w) /\ w.tmp = <<>> /\ w.pc = p
<1> DEFINE w == [NoWorker EXCEPT !.pc = p]
<1>1. p \in Pc
  BY Zenon DEF Pc
<1>2. /\ w \in Worker /\ w.pc = p /\ w.tmp = <<>> /\ w.at = 0 /\ w.try = 0
  BY <1>1, IdleWorker, WorkerAt, Zenon
<1>3. mode.attempts \in Nat
  <2>1. mode \in Mode
    BY Zenon DEF TypeInv
  <2> QED  BY <2>1, ModeFacts
<1> HIDE DEF w
<1>4. GoodWorker(k, w)
  BY <1>2, <1>3 DEF GoodWorker
<1>5. WrittenBy(k, w)
  BY <1>2, Empty, Zenon DEF WrittenBy
<1> QED  BY <1>2, <1>4, <1>5, Zenon DEF w

LEMMA GoodNone ==
  ASSUME NEW k \in Key, TypeInv
  PROVE  GoodWorker(k, NoWorker) /\ WrittenBy(k, NoWorker) /\ NoWorker.tmp = <<>>
<1>1. NoWorker = [NoWorker EXCEPT !.pc = "none"]
  BY DEF NoWorker
<1> QED  BY <1>1, GoodIdle, Zenon

\* The worker goes on to p with its samples in hand.
LEMMA GoodAt ==
  ASSUME NEW k \in Key, IInv, NEW p \in Pc, p # "executed",
         worker[k].tmp # <<>>,
         p = "prepend" /\ Device => Len(worker[k].tmp) < Capacity,
         p = "sent" => chain[k] # None
  PROVE  LET w == [worker[k] EXCEPT !.pc = p] IN
         GoodWorker(k, w) /\ WrittenBy(k, w) /\ w.tmp = worker[k].tmp
<1> DEFINE w == [worker[k] EXCEPT !.pc = p]
<1>1. /\ worker[k] \in Worker /\ worker[k].at \in Nat /\ worker[k].try <= mode.attempts
      /\ worker[k].at < Len(worker[k].tmp) /\ Len(Buffer(k)) <= Capacity
      /\ worker[k].tmp \in Seq(Sample)
  BY WorkerFacts, Zenon DEF IInv
<1>2. /\ w \in Worker /\ w.pc = p /\ w.tmp = worker[k].tmp
      /\ w.at = worker[k].at /\ w.try = worker[k].try
  BY <1>1, WorkerAt, Zenon
<1>3. WrittenBy(k, worker[k])
  BY Zenon DEF IInv, OrderKept, Written
<1>4. \A i \in DOMAIN worker[k].tmp : i <= worker[k].at => i <= Done(worker[k])
  <2>1. \A i \in DOMAIN worker[k].tmp : i \in Nat
    BY <1>1
  <2>2. Done(worker[k]) \in {worker[k].at, worker[k].at + Batch}
    BY Zenon DEF Done
  <2> QED  BY <2>1, <2>2, <1>1, ConstFacts
<1> HIDE DEF w
<1>5. GoodWorker(k, w)
  BY <1>1, <1>2, Zenon DEF GoodWorker
<1>6. Done(w) = worker[k].at
  BY <1>2, Zenon DEF Done
<1>7. WrittenBy(k, w)
  BY <1>2, <1>3, <1>4, <1>6, Zenon DEF WrittenBy
<1> QED  BY <1>2, <1>5, <1>7, Zenon DEF w

\* The worker drops what it has in hand and its partition is removed.
LEMMA RemovalStep ==
  ASSUME IInv, NEW k \in Key, RemovePartition(k), Ended(k),
         UNCHANGED <<mode, life, epoch, made, chain, loose>>
  PROVE  IInv'
<1>1. TypeInv /\ OrderKept /\ AdderInv
  BY Zenon DEF IInv, TypeInv
<1>0. /\ \A t \in loose' : t \in loose \/ (t[1] \in Key /\ t[2] \in Seq(Of(t[1])))
      /\ \A t \in loose' : t \in loose \/ (t[1] \in Key /\ Covered(t[1], t[2]))
  BY Zenon
<1>2. /\ DOMAIN worker' = Key /\ worker'[k] = NoWorker
      /\ \A j \in Key \ {k} : worker'[j] = worker[j]
  <2>1. DOMAIN worker = Key
    BY <1>1, Zenon DEF TypeInv
  <2> QED  BY <2>1, Zenon DEF Ended, SetWorker
<1>3. /\ DOMAIN buf' = Key /\ buf'[k] = None
      /\ \A j \in Key \ {k} : buf'[j] = buf[j]
  <2>1. DOMAIN buf = Key
    BY <1>1, Zenon DEF TypeInv
  <2> QED  BY <2>1, Zenon DEF RemovePartition
<1>4. /\ adder' \in Adding /\ adder'.pc = adder.pc /\ adder'.smp = adder.smp
      /\ \/ adder' = adder /\ ~(adder.pc = "adding" /\ adder.smp[1] = k /\ adder.into = "map")
         \/ adder.pc = "adding" /\ adder'.into # "map"
  <2>1. adder \in Adding /\ (adder.pc = "adding" /\ adder.into = "map" => buf[adder.smp[1]] # None)
    BY <1>1, Zenon DEF AdderInv
  <2>2. CASE adder.pc = "adding" /\ adder.smp[1] = k /\ adder.into = "map" /\ buf[k] # None
    <3>1. PICK x \in {"gone", "full"} : adder' = [adder EXCEPT !.into = x]
      BY <2>2, Zenon DEF RemovePartition
    <3> QED  BY <2>1, <2>2, <3>1 DEF Adding
  <2>3. CASE ~(adder.pc = "adding" /\ adder.smp[1] = k /\ adder.into = "map" /\ buf[k] # None)
    BY <2>1, <2>3, Zenon DEF RemovePartition
  <2> QED  BY <2>2, <2>3
<1>5. AdderInv'
  <2>1. CASE adder' = adder /\ ~(adder.pc = "adding" /\ adder.smp[1] = k /\ adder.into = "map")
    <3>1. adder.pc = "adding" => adder.smp[1] \in Key
      BY <1>1, SampleFacts, Zenon DEF AdderInv
    <3> QED  BY <2>1, <3>1, <1>1, <1>3, Zenon DEF AdderInv
  <2>2. CASE adder.pc = "adding" /\ adder'.into # "map"
    BY <2>2, <1>1, <1>4, Zenon DEF AdderInv
  <2> QED  BY <2>1, <2>2, <1>4, Zenon
<1>6. OnlyAt(k)
  <2>1. life' \in {"up", "stopping", "last", "down"} /\ DOMAIN chain' = Key
    BY <1>1, Zenon DEF TypeInv
  <2>2. Past' = Past
    BY <1>4, Zenon DEF Past
  <2> QED  BY <2>1, <2>2, <1>2, <1>3, Zenon DEF OnlyAt
<1>7. Account(k)' = Account(k) /\ Buffer(k)' = <<>> /\ worker'[k].tmp = <<>>
  <2>1. NoWorker.tmp = <<>>
    BY IdleWorker, Zenon
  <2> QED  BY <2>1, <1>2, <1>3, Zenon DEF Account, Buffer
<1>8. WorkerInv(k)'
  <2>1. GoodWorker(k, NoWorker) /\ NoWorker.pc = "none" /\ NoWorker.tmp = <<>>
    BY <1>1, GoodNone, IdleWorker, Zenon
  <2> QED  BY <2>1, <1>2, Zenon DEF WorkerInv, GoodWorker
<1>9. OrderInv(k)'
  <2>1. Past \subseteq Past'
    BY <1>6, Zenon DEF OnlyAt
  <2> QED  BY <1>1, <1>7, <2>1, OrderShrinks, Zenon
<1>10. /\ TypeInv'
       /\ \A j \in Key \ {k} : Account(j)' = Account(j) /\ Buffer(j)' = Buffer(j)
  BY <1>0, <1>1, <1>5, <1>6, <1>8, <1>9, OneKey, Zenon
<1>11. Held' \subseteq Held
  <2>1. \A r : HeldByAdder(r)' => HeldByAdder(r)
    BY <1>4, Zenon DEF HeldByAdder
  <2>2. \A j \in Key \ {k} : Buffer(j)' = Buffer(j) /\ worker'[j] = worker[j]
    BY <1>2, <1>10, Zenon
  <2>3. \A r : HeldBy(k, r)' => HeldBy(k, r)
    BY <1>7, HeldByShrinks, Zenon
  <2> QED  BY <2>1, <2>2, <2>3, HeldGoes, Zenon
<1>12. \A j \in Key : Account(j)' = Account(j)
  BY <1>7, <1>10, Zenon
<1>13. WrittenBy(k, worker'[k])
  BY <1>1, <1>2, GoodNone, Zenon
<1>14. OrderKept'
  BY <1>0, <1>1, <1>6, <1>11, <1>12, <1>13, OneKeyOrder, Zenon
<1> QED  BY <1>10, <1>14, Zenon DEF IInv

-----------------------------------------------------------------------------
(* The actions *)

LEMMA LooseSame ==
  ASSUME loose' = loose
  PROVE  \A t \in loose' : t \in loose \/ (t[1] \in Key /\ t[2] \in Seq(Of(t[1])) /\ Covered(t[1], t[2]))
BY Zenon

LEMMA CheckEpochStep ==
  ASSUME IInv, NEW k \in Key, CheckEpoch(k)
  PROVE  IInv'
<1>1. UNCHANGED <<mode, life, epoch, made, chain, loose>> /\ Ended(k)
  BY Zenon DEF CheckEpoch
<1>2. CASE RemovePartition(k)
  BY <1>1, <1>2, RemovalStep, Zenon
<1>3. CASE UNCHANGED <<buf, adder>>
  <2>1. GoodWorker(k, NoWorker) /\ WrittenBy(k, NoWorker) /\ NoWorker.tmp = <<>>
    BY GoodNone, Zenon DEF IInv
  <2>2. worker' = [worker EXCEPT ![k] = NoWorker]
    BY <1>1, Zenon DEF Ended, SetWorker
  <2> QED  BY <1>1, <1>3, <2>1, <2>2, LooseSame, WorkerStep, Zenon
<1> QED  BY <1>2, <1>3, Zenon DEF CheckEpoch

LEMMA WriteStep ==
  ASSUME IInv, NEW k \in Key, Write(k)
  PROVE  IInv'
<1>1. UNCHANGED <<mode, life, epoch, made, chain, loose>> /\ worker[k].tmp # <<>>
  <2>1. UNCHANGED <<mode, life, epoch, made, chain, loose>>
    BY Zenon DEF Write
  <2>2. worker[k].pc \notin {"none", "queued", "epoch"}
    BY DEF Write
  <2> QED  BY <2>1, <2>2, WorkerFacts, Zenon DEF IInv
<1>2. CASE RemovePartition(k) /\ Ended(k)
  BY <1>1, <1>2, RemovalStep, Zenon
<1>3. ASSUME NEW p \in {"init", "failed", "sent"}, p = "sent" => chain[k] # None,
             SetWorker(k, [worker[k] EXCEPT !.pc = p]), UNCHANGED <<buf, adder>>
      PROVE  IInv'
  <2> DEFINE w == [worker[k] EXCEPT !.pc = p]
  <2>1. p \in Pc /\ p # "executed" /\ p # "prepend"
    BY DEF Pc
  <2>2. GoodWorker(k, w) /\ WrittenBy(k, w) /\ w.tmp = worker[k].tmp
    BY <2>1, <1>1, <1>3, GoodAt, Zenon
  <2>3. worker' = [worker EXCEPT ![k] = w]
    BY <1>3, Zenon DEF SetWorker
  <2> HIDE DEF w
  <2> QED  BY <1>1, <1>3, <2>2, <2>3, LooseSame, WorkerStep, Zenon
<1>4. CASE chain[k] = None
  <2>1. PICK p \in {"init", "failed"} : SetWorker(k, [worker[k] EXCEPT !.pc = p])
    BY <1>4, Zenon DEF Write, Fits
  <2>2. UNCHANGED <<buf, adder>>
    BY <1>4, Zenon DEF Write, Fits
  <2>3. p # "sent"
    OBVIOUS
  <2> QED  BY <1>3, <2>1, <2>2, <2>3, Zenon
<1>5. CASE chain[k] # None /\ Fits(k, Part(k))
  <2>1. SetWorker(k, [worker[k] EXCEPT !.pc = "sent"]) /\ UNCHANGED <<buf, adder>>
    BY <1>5, Zenon DEF Write
  <2> QED  BY <1>3, <1>5, <2>1, Zenon
<1>6. CASE chain[k] # None /\ ~Fits(k, Part(k))
  BY <1>6, <1>2, Zenon DEF Write
<1> QED  BY <1>4, <1>5, <1>6, Zenon

LEMMA ConfirmStep ==
  ASSUME IInv, NEW k \in Key, Confirm(k)
  PROVE  IInv'
<1> DEFINE w == worker[k]
<1>1. /\ UNCHANGED <<mode, life, epoch, made, adder, buf, chain>> /\ loose' = loose
      /\ w.pc = "executed"
  BY Zenon DEF Confirm
<1>2. CASE Ended(k)
  <2>1. GoodWorker(k, NoWorker) /\ WrittenBy(k, NoWorker) /\ NoWorker.tmp = <<>>
    BY GoodNone, Zenon DEF IInv
  <2>2. worker' = [worker EXCEPT ![k] = NoWorker]
    BY <1>2, Zenon DEF Ended, SetWorker
  <2> QED  BY <1>1, <2>1, <2>2, LooseSame, WorkerStep, Zenon
<1>3. CASE ~Ended(k)
  <2> DEFINE v == [w EXCEPT !.pc = "write", !.at = w.at + Batch]
  <2>1. worker' = [worker EXCEPT ![k] = v] /\ ~(w.at + Batch >= Len(w.tmp))
    BY <1>3, Zenon DEF Confirm, SetWorker
  <2>2. /\ w \in Worker /\ w.at \in Nat /\ w.try <= mode.attempts
        /\ w.tmp \in Seq(Sample) /\ w.tmp # <<>> /\ Len(Buffer(k)) <= Capacity
    <3>1. w.pc \notin {"none", "queued", "epoch"}
      BY <1>1
    <3> QED  BY <3>1, WorkerFacts, Zenon DEF IInv
  <2>3. WrittenBy(k, w)
    BY Zenon DEF IInv, OrderKept, Written
  <2>4. w.at + Batch \in Nat /\ w.at + Batch < Len(w.tmp)
    BY <2>1, <2>2, ConstFacts
  <2> HIDE DEF w
  <2>5. /\ v \in Worker /\ v.pc = "write" /\ v.tmp = w.tmp
        /\ v.at = w.at + Batch /\ v.try = w.try
    BY <2>2, <2>4, Zenon DEF Worker, Pc
  <2> HIDE DEF v
  <2>6. GoodWorker(k, v)
    BY <2>2, <2>4, <2>5 DEF GoodWorker
  <2>7. Done(v) = Done(w)
    BY <1>1, <2>5 DEF Done
  <2>8. WrittenBy(k, v)
    BY <2>3, <2>5, <2>7, Zenon DEF WrittenBy
  <2> QED  BY <1>1, <2>1, <2>5, <2>6, <2>8, LooseSame, WorkerStep, Zenon DEF w
<1> QED  BY <1>2, <1>3

LEMMA CallFailsStep ==
  ASSUME IInv, NEW k \in Key, CallFails(k)
  PROVE  IInv'
<1>1. UNCHANGED <<mode, life, epoch, made, adder, buf, chain>> /\ worker[k].tmp # <<>>
  <2>1. UNCHANGED <<mode, epoch, made, adder, buf, chain>>
    BY Zenon DEF CallFails
  <2>2. worker[k].pc \notin {"none", "queued", "epoch"}
    BY DEF CallFails
  <2>3. life' = life
    BY Zenon DEF CallFails
  <2> QED  BY <2>1, <2>2, <2>3, WorkerFacts, Zenon DEF IInv
<1> DEFINE w == [worker[k] EXCEPT !.pc = "failed"]
<1>2. "failed" \in Pc /\ "failed" # "executed" /\ "failed" # "prepend" /\ "failed" # "sent"
  BY DEF Pc
<1>3. GoodWorker(k, w) /\ WrittenBy(k, w) /\ w.tmp = worker[k].tmp
  BY <1>1, <1>2, GoodAt, Zenon
<1>4. worker' = [worker EXCEPT ![k] = w]
  BY Zenon DEF CallFails, SetWorker
<1>5. \A t \in loose' :
        t \in loose \/ (t[1] \in Key /\ t[2] \in Seq(Of(t[1])) /\ Covered(t[1], t[2]))
  <2>1. CASE loose' = loose
    BY <2>1, LooseSame, Zenon
  <2>2. CASE worker[k].pc = "sent" /\ loose' = loose \cup {<<k, Part(k)>>}
    <3>1. TypeInv /\ Written(k)
      BY Zenon DEF IInv, OrderKept
    <3>2. Part(k) \in Seq(Of(k)) /\ Covered(k, Part(k))
      BY <3>1, <2>2, <1>1, PartFacts, PartCovered, Zenon
    <3>3. <<k, Part(k)>>[1] = k /\ <<k, Part(k)>>[2] = Part(k)
      OBVIOUS
    <3> QED  BY <2>2, <3>2, <3>3, Zenon
  <2> QED  BY <2>1, <2>2, Zenon DEF CallFails
<1> HIDE DEF w
<1> QED  BY <1>1, <1>3, <1>4, <1>5, WorkerStep, Zenon

LEMMA RetryStep ==
  ASSUME IInv, NEW k \in Key, Retry(k)
  PROVE  IInv'
<1> DEFINE w == worker[k]
<1>1. /\ UNCHANGED <<mode, life, epoch, made, adder, buf, chain>> /\ loose' = loose
      /\ w.pc = "failed"
  BY Zenon DEF Retry
<1>2. /\ w \in Worker /\ w.at \in Nat /\ w.try \in Nat /\ w.try <= mode.attempts
      /\ w.tmp \in Seq(Sample) /\ w.tmp # <<>> /\ Len(Buffer(k)) <= Capacity
      /\ w.at < Len(w.tmp)
  <2>1. w.pc \notin {"none", "queued", "epoch"}
    BY <1>1
  <2> QED  BY <2>1, WorkerFacts, Zenon DEF IInv
<1>3. ASSUME NEW p \in {"room", "prepend"}, p = "prepend" => ~Device,
             SetWorker(k, [w EXCEPT !.pc = p])
      PROVE  IInv'
  <2> DEFINE v == [w EXCEPT !.pc = p]
  <2>1. p \in Pc /\ p # "executed" /\ p # "sent"
    BY DEF Pc
  <2>2. GoodWorker(k, v) /\ WrittenBy(k, v) /\ v.tmp = worker[k].tmp
    BY <2>1, <1>2, <1>3, GoodAt, Zenon
  <2>3. worker' = [worker EXCEPT ![k] = v]
    BY <1>3, Zenon DEF SetWorker
  <2> HIDE DEF v
  <2> QED  BY <1>1, <2>2, <2>3, LooseSame, WorkerStep, Zenon
<1>4. CASE /\ w.try < mode.attempts
           /\ SetWorker(k, [w EXCEPT !.pc = "write", !.at = 0, !.try = w.try + 1])
  <2> DEFINE v == [w EXCEPT !.pc = "write", !.at = 0, !.try = w.try + 1]
  <2>1. worker' = [worker EXCEPT ![k] = v]
    BY <1>4, Zenon DEF SetWorker
  <2>2. mode.attempts \in Nat
    <3>1. mode \in Mode
      BY Zenon DEF IInv, TypeInv
    <3> QED  BY <3>1, ModeFacts
  <2> HIDE DEF w
  <2>3. w.try + 1 \in Nat /\ w.try + 1 <= mode.attempts /\ 0 < Len(w.tmp) /\ 0 \in Nat
    BY <1>2, <1>4, <2>2
  <2>4. /\ v \in Worker /\ v.pc = "write" /\ v.tmp = w.tmp
        /\ v.at = 0 /\ v.try = w.try + 1
    BY <1>2, <2>3, Zenon DEF Worker, Pc
  <2> HIDE DEF v
  <2>5. GoodWorker(k, v)
    BY <1>2, <2>3, <2>4 DEF GoodWorker
  <2>6. WrittenBy(k, v)
    BY <1>2, <2>4 DEF WrittenBy, Done
  <2> QED  BY <1>1, <2>1, <2>4, <2>5, <2>6, LooseSame, WorkerStep, Zenon DEF w
<1>5. CASE SetWorker(k, [w EXCEPT !.pc = IF Device THEN "room" ELSE "prepend"])
  <2>1. CASE Device
    <3>1. SetWorker(k, [w EXCEPT !.pc = "room"]) /\ "room" # "prepend"
      BY <1>5, <2>1
    <3> QED  BY <3>1, <1>3, Zenon
  <2>2. CASE ~Device
    <3>1. SetWorker(k, [w EXCEPT !.pc = "prepend"])
      BY <1>5, <2>2
    <3> QED  BY <3>1, <2>2, <1>3, Zenon
  <2> QED  BY <2>1, <2>2
<1> QED  BY <1>4, <1>5, Zenon DEF Retry

LEMMA CheckRoomStep ==
  ASSUME IInv, NEW k \in Key, CheckRoom(k)
  PROVE  IInv'
<1>1. /\ UNCHANGED <<mode, life, epoch, made, adder, buf, chain>> /\ loose' = loose
      /\ worker[k].pc = "room"
  BY Zenon DEF CheckRoom
<1>2. CASE Ended(k)
  <2>1. GoodWorker(k, NoWorker) /\ WrittenBy(k, NoWorker) /\ NoWorker.tmp = <<>>
    BY GoodNone, Zenon DEF IInv
  <2>2. worker' = [worker EXCEPT ![k] = NoWorker]
    BY <1>2, Zenon DEF Ended, SetWorker
  <2> QED  BY <1>1, <2>1, <2>2, LooseSame, WorkerStep, Zenon
<1>3. CASE ~Ended(k)
  <2> DEFINE v == [worker[k] EXCEPT !.pc = "prepend"]
  <2>1. /\ worker' = [worker EXCEPT ![k] = v]
        /\ ~((IF buf[k] = None THEN 0 ELSE Len(buf[k])) + Len(worker[k].tmp) >= Capacity)
    BY <1>3, Zenon DEF CheckRoom, SetWorker
  <2>2. worker[k].tmp # <<>> /\ worker[k].tmp \in Seq(Sample)
    <3>1. worker[k].pc \notin {"none", "queued", "epoch"}
      BY <1>1
    <3> QED  BY <3>1, WorkerFacts, Zenon DEF IInv
  <2>3. buf[k] # None => Len(buf[k]) \in Nat
    <3>1. Buffer(k) \in Seq(Sample)
      BY KeyFacts, Zenon DEF IInv
    <3> QED  BY <3>1 DEF Buffer
  <2>4. Len(worker[k].tmp) < Capacity
    <3> DEFINE n == IF buf[k] = None THEN 0 ELSE Len(buf[k])
    <3>1. n \in Nat /\ ~(n + Len(worker[k].tmp) >= Capacity)
      BY <2>1, <2>3
    <3>2. Len(worker[k].tmp) \in Nat /\ Capacity \in Nat
      BY <2>2, ConstFacts
    <3> HIDE DEF n
    <3> QED  BY <3>1, <3>2
  <2>5. "prepend" \in Pc /\ "prepend" # "executed" /\ "prepend" # "sent"
    BY DEF Pc
  <2>6. GoodWorker(k, v) /\ WrittenBy(k, v) /\ v.tmp = worker[k].tmp
    BY <2>2, <2>4, <2>5, GoodAt, Zenon
  <2> HIDE DEF v
  <2> QED  BY <1>1, <2>1, <2>6, LooseSame, WorkerStep, Zenon
<1> QED  BY <1>2, <1>3

LEMMA InitializeStep ==
  ASSUME IInv, NEW k \in Key, Initialize(k)
  PROVE  IInv'
<1>1. /\ UNCHANGED <<mode, life, epoch, made, adder, buf>> /\ loose' = loose
      /\ worker[k].tmp # <<>>
  <2>1. UNCHANGED <<mode, life, epoch, made, adder, buf>> /\ loose' = loose
    BY Zenon DEF Initialize
  <2>2. worker[k].pc \notin {"none", "queued", "epoch"}
    BY DEF Initialize
  <2> QED  BY <2>1, <2>2, WorkerFacts, Zenon DEF IInv
<1>2. PICK p \in {"rewrite", "failed"} : SetWorker(k, [worker[k] EXCEPT !.pc = p])
  BY Zenon DEF Initialize
<1>3. chain' = chain \/ chain' = [chain EXCEPT ![k] = Account(k)]
  BY Zenon DEF Initialize
<1> DEFINE w == [worker[k] EXCEPT !.pc = p]
<1>4. p \in Pc /\ p # "executed" /\ p # "prepend" /\ p # "sent"
  BY DEF Pc
<1>5. GoodWorker(k, w) /\ WrittenBy(k, w) /\ w.tmp = worker[k].tmp
  BY <1>1, <1>4, GoodAt, Zenon
<1>6. worker' = [worker EXCEPT ![k] = w]
  BY <1>2, Zenon DEF SetWorker
<1> HIDE DEF w
<1> QED  BY <1>1, <1>3, <1>5, <1>6, LooseSame, WorkerStep, Zenon

\* Samples move between the buffer of partition k and its worker.
LEMMA BufferStep ==
  ASSUME IInv, NEW k \in Key, NEW w, NEW b \in Seq(Of(k)), w.tmp \in Seq(Of(k)),
         GoodWorker(k, w), WrittenBy(k, w), w.tmp # <<>> => Len(b) <= Capacity,
         Inc(b), Inc(w.tmp), Before(w.tmp, b), Device => Len(b) < 2 * Capacity,
         \A i \in DOMAIN b : HeldBy(k, b[i]),
         \A i \in DOMAIN w.tmp : HeldBy(k, w.tmp[i]),
         worker' = [worker EXCEPT ![k] = w], buf' = [buf EXCEPT ![k] = b],
         UNCHANGED <<mode, life, epoch, made, adder, chain, loose>>
  PROVE  IInv'
<1>0. /\ \A t \in loose' : t \in loose \/ (t[1] \in Key /\ t[2] \in Seq(Of(t[1])))
      /\ \A t \in loose' : t \in loose \/ (t[1] \in Key /\ Covered(t[1], t[2]))
  BY Zenon
<1>1. TypeInv /\ OrderKept
  BY Zenon DEF IInv
<1>2. OnlyAt(k) /\ worker'[k] = w /\ buf'[k] = b
  <2>1. /\ life \in {"up", "stopping", "last", "down"}
        /\ DOMAIN buf = Key /\ DOMAIN worker = Key /\ DOMAIN chain = Key
    BY <1>1, Zenon DEF TypeInv
  <2>2. /\ DOMAIN worker' = Key /\ worker'[k] = w
        /\ \A j \in Key \ {k} : worker'[j] = worker[j]
    BY <2>1, Zenon
  <2>3. /\ DOMAIN buf' = Key /\ buf'[k] = b
        /\ \A j \in Key \ {k} : buf'[j] = buf[j]
    BY <2>1, Zenon
  <2>4. Past' = Past
    BY Zenon DEF Past
  <2> QED  BY <2>1, <2>2, <2>3, <2>4, Zenon DEF OnlyAt
<1>3. b # None
  <2>1. b \in Seq(Sample)
    BY <1>1, PastFacts, SeqOfSub
  <2>2. None \notin Seq(Sample)
    BY SubmitterAssumption, Zenon
  <2> QED  BY <2>1, <2>2, Zenon
<1>4. Account(k)' = Account(k) /\ Buffer(k)' = b
  BY <1>2, <1>3, Zenon DEF Account, Buffer
<1>5. WorkerInv(k)'
  BY <1>2, <1>4, Zenon DEF WorkerInv, GoodWorker, Device
<1>6. OrderInv(k)'
  <2>1. Of(k)' = Of(k)
    BY <1>2, Zenon DEF OnlyAt, Of
  <2>2. Account(k) \in Seq(Of(k)) /\ Len(Account(k)) <= Room
    BY <1>1, KeyFacts, Zenon
  <2> QED  BY <1>2, <1>4, <2>1, <2>2, Zenon DEF OrderInv, Device
<1>7. AdderInv'
  <2>1. AdderInv
    BY <1>1, Zenon DEF TypeInv
  <2>2. adder.pc = "adding" => adder.smp[1] \in Key
    BY <2>1, SampleFacts, Zenon DEF AdderInv
  <2>3. \A j \in Key : buf[j] # None => buf'[j] # None
    BY <1>2, <1>3, Zenon DEF OnlyAt
  <2> QED  BY <2>1, <2>2, <2>3, Zenon DEF AdderInv
<1>8. /\ TypeInv'
      /\ \A j \in Key \ {k} : Account(j)' = Account(j) /\ Buffer(j)' = Buffer(j)
  BY <1>0, <1>1, <1>2, <1>5, <1>6, <1>7, OneKey, Zenon
<1>9. Held' \subseteq Held
  <2>1. \A r : HeldByAdder(r)' => HeldByAdder(r)
    BY Zenon DEF HeldByAdder
  <2>2. \A j \in Key \ {k} : Buffer(j)' = Buffer(j) /\ worker'[j] = worker[j]
    BY <1>2, <1>8, Zenon DEF OnlyAt
  <2>3. ASSUME NEW r, HeldBy(k, r)'  PROVE  HeldBy(k, r)
    <3>1. (\E i \in DOMAIN b : b[i] = r) \/ \E i \in DOMAIN w.tmp : w.tmp[i] = r
      BY <2>3, <1>2, <1>4, Zenon DEF HeldBy
    <3> QED  BY <3>1, Zenon
  <2> QED  BY <2>1, <2>2, <2>3, HeldGoes, Zenon
<1>10. \A j \in Key : Account(j)' = Account(j)
  BY <1>4, <1>8, Zenon
<1>11. WrittenBy(k, worker'[k])
  BY <1>2, Zenon
<1>12. OrderKept'
  BY <1>0, <1>1, <1>2, <1>9, <1>10, <1>11, OneKeyOrder, Zenon
<1> QED  BY <1>8, <1>12, Zenon DEF IInv

LEMMA CopyAndResetStep ==
  ASSUME IInv, NEW k \in Key, CopyAndReset(k)
  PROVE  IInv'
<1>1. /\ UNCHANGED <<mode, life, epoch, made, adder, chain>> /\ loose' = loose
      /\ UNCHANGED <<mode, life, epoch, made, adder, chain, loose>>
      /\ TypeInv
  BY Zenon DEF CopyAndReset, IInv
<1>2. CASE buf[k] \in {None, <<>>}
  <2> DEFINE w == [NoWorker EXCEPT !.pc = "epoch"]
  <2>1. worker' = [worker EXCEPT ![k] = w] /\ buf' = buf
    BY <1>2, Zenon DEF CopyAndReset, SetWorker
  <2>2. GoodWorker(k, w) /\ WrittenBy(k, w) /\ w.tmp = <<>>
    BY <1>1, GoodIdle, Zenon
  <2> HIDE DEF w
  <2> QED  BY <1>1, <2>1, <2>2, LooseSame, WorkerStep, Zenon
<1>3. CASE buf[k] \notin {None, <<>>}
  <2> DEFINE w == [pc |-> "write", tmp |-> Buffer(k), at |-> 0, try |-> 1]
  <2>1. buf[k] = Buffer(k) /\ Buffer(k) # <<>>
    BY <1>3, Zenon DEF Buffer
  <2>2. worker' = [worker EXCEPT ![k] = w] /\ buf' = [buf EXCEPT ![k] = <<>>]
    BY <1>3, <2>1, Zenon DEF CopyAndReset, SetWorker
  <2>3. /\ Buffer(k) \in Seq(Of(k)) /\ Buffer(k) \in Seq(Sample) /\ Inc(Buffer(k))
    BY <1>1, KeyFacts, Zenon
  <2>4. /\ w \in Worker /\ w.pc = "write" /\ w.tmp = Buffer(k) /\ w.at = 0 /\ w.try = 1
    <3>1. "write" \in Pc /\ 0 \in Nat /\ 1 \in Nat
      BY DEF Pc
    <3> QED  BY <2>3, <3>1, NewWorker, Zenon
  <2> HIDE DEF w
  <2>5. mode.attempts \in Nat \ {0}
    <3>1. mode \in Mode
      BY <1>1, Zenon DEF TypeInv
    <3> QED  BY <3>1, ModeFacts, Zenon
  <2>6. 0 < Len(Buffer(k)) /\ 1 <= mode.attempts
    BY <2>1, <2>3, <2>5
  <2>7. GoodWorker(k, w)
    BY <2>1, <2>4, <2>6 DEF GoodWorker
  <2>8. WrittenBy(k, w)
    BY <2>3, <2>4 DEF WrittenBy, Done
  <2>9. /\ <<>> \in Seq(Of(k)) /\ Len(<<>>) <= Capacity /\ Len(<<>>) < 2 * Capacity
        /\ \A i \in DOMAIN <<>> : FALSE
    BY ConstFacts
  <2>10. Inc(<<>>) /\ Before(w.tmp, <<>>)
    BY <2>9, Zenon DEF Inc, Before
  <2>11. /\ \A i \in DOMAIN <<>> : HeldBy(k, <<>>[i])
         /\ \A i \in DOMAIN w.tmp : HeldBy(k, w.tmp[i])
         /\ w.tmp \in Seq(Of(k)) /\ Inc(w.tmp)
    BY <2>3, <2>4, <2>9, Zenon DEF HeldBy
  <2> QED  BY <1>1, <2>2, <2>7, <2>8, <2>9, <2>10, <2>11, BufferStep, Zenon
<1> QED  BY <1>2, <1>3

LEMMA ConcatInc ==
  ASSUME NEW S, NEW p \in Seq(S), NEW q \in Seq(S), Inc(p), Inc(q), Before(p, q)
  PROVE  Inc(p \o q)
<1>1. /\ Len(p) \in Nat /\ Len(q) \in Nat
      /\ DOMAIN p = 1 .. Len(p) /\ DOMAIN q = 1 .. Len(q)
      /\ DOMAIN (p \o q) = 1 .. Len(p) + Len(q)
      /\ \A i \in 1 .. Len(p) : (p \o q)[i] = p[i]
      /\ \A i \in Len(p) + 1 .. Len(p) + Len(q) : (p \o q)[i] = q[i - Len(p)]
  OBVIOUS
<1> SUFFICES ASSUME NEW i \in DOMAIN (p \o q), NEW j \in DOMAIN (p \o q), i < j
             PROVE  (p \o q)[i][2] < (p \o q)[j][2]
  BY Zenon DEF Inc
<1>2. CASE j <= Len(p)
  <2>1. i \in DOMAIN p /\ j \in DOMAIN p /\ (p \o q)[i] = p[i] /\ (p \o q)[j] = p[j]
    BY <1>1, <1>2
  <2> QED  BY <2>1 DEF Inc
<1>3. CASE ~(j <= Len(p)) /\ i <= Len(p)
  <2>1. /\ i \in DOMAIN p /\ j - Len(p) \in DOMAIN q
        /\ (p \o q)[i] = p[i] /\ (p \o q)[j] = q[j - Len(p)]
    BY <1>1, <1>3
  <2> QED  BY <2>1 DEF Before
<1>4. CASE ~(j <= Len(p)) /\ ~(i <= Len(p))
  <2>1. /\ i - Len(p) \in DOMAIN q /\ j - Len(p) \in DOMAIN q /\ i - Len(p) < j - Len(p)
        /\ (p \o q)[i] = q[i - Len(p)] /\ (p \o q)[j] = q[j - Len(p)]
    BY <1>1, <1>4
  <2> QED  BY <2>1 DEF Inc
<1> QED  BY <1>2, <1>3, <1>4, Zenon

LEMMA PriorityPrependStep ==
  ASSUME IInv, NEW k \in Key, PriorityPrepend(k)
  PROVE  IInv'
<1> DEFINE q == worker[k].tmp
           b == q \o Buffer(k)
<1>1. /\ UNCHANGED <<mode, life, epoch, made, adder, chain, loose>> /\ TypeInv
      /\ worker[k].pc = "prepend"
  BY Zenon DEF PriorityPrepend, IInv
<1>2. worker' = [worker EXCEPT ![k] = NoWorker] /\ buf' = [buf EXCEPT ![k] = b]
  BY <1>1, Zenon DEF PriorityPrepend, Ended, SetWorker, TypeInv, Buffer
<1>3. /\ q \in Seq(Of(k)) /\ Buffer(k) \in Seq(Of(k))
      /\ Inc(q) /\ Inc(Buffer(k)) /\ Before(q, Buffer(k))
  BY <1>1, KeyFacts, Zenon
<1>4. (Device => Len(q) < Capacity) /\ Len(Buffer(k)) <= Capacity
  <2>1. q # <<>>
    <3>1. worker[k].pc \notin {"none", "queued", "epoch"}
      BY <1>1
    <3> QED  BY <1>1, <3>1, WorkerFacts, Zenon
  <2> QED  BY <1>1, <2>1, WorkerFacts, Zenon
<1>5. /\ GoodWorker(k, NoWorker) /\ WrittenBy(k, NoWorker) /\ NoWorker.tmp = <<>>
      /\ <<>> \in Seq(Of(k)) /\ \A i \in DOMAIN <<>> : FALSE
  <2>1. <<>> \in Seq(Of(k))
    OBVIOUS
  <2> QED  BY <1>1, <2>1, GoodNone, Empty, Zenon
<1> HIDE DEF q
<1>6. Inc(b)
  BY <1>3, ConcatInc
<1>7. /\ b \in Seq(Of(k)) /\ Len(b) = Len(q) + Len(Buffer(k))
      /\ Len(q) \in Nat /\ Len(Buffer(k)) \in Nat
      /\ DOMAIN q = 1 .. Len(q) /\ DOMAIN Buffer(k) = 1 .. Len(Buffer(k))
      /\ DOMAIN b = 1 .. Len(q) + Len(Buffer(k))
      /\ \A i \in 1 .. Len(q) : b[i] = q[i]
      /\ \A i \in Len(q) + 1 .. Len(q) + Len(Buffer(k)) : b[i] = Buffer(k)[i - Len(q)]
  BY <1>3
<1> HIDE DEF b
<1>8. Device => Len(b) < 2 * Capacity
  BY <1>4, <1>7, ConstFacts
<1>9. ASSUME NEW i \in DOMAIN b  PROVE  HeldBy(k, b[i])
  <2>1. CASE i <= Len(q)
    <3>1. i \in DOMAIN q /\ b[i] = q[i]
      BY <1>7, <2>1
    <3> QED  BY <3>1, Zenon DEF HeldBy, q
  <2>2. CASE ~(i <= Len(q))
    <3>1. i - Len(q) \in DOMAIN Buffer(k) /\ b[i] = Buffer(k)[i - Len(q)]
      BY <1>7, <2>2
    <3> QED  BY <3>1, Zenon DEF HeldBy
  <2> QED  BY <2>1, <2>2
<1>10. /\ Inc(NoWorker.tmp) /\ Before(NoWorker.tmp, b)
       /\ \A i \in DOMAIN NoWorker.tmp : HeldBy(k, NoWorker.tmp[i])
       /\ NoWorker.tmp \in Seq(Of(k))
       /\ NoWorker.tmp # <<>> => Len(b) <= Capacity
  BY <1>5, Zenon DEF Inc, Before
<1>11. b \in Seq(Of(k))
  BY <1>7, Zenon
<1> QED  BY <1>1, <1>2, <1>5, <1>6, <1>8, <1>9, <1>10, <1>11, BufferStep, Zenon

\* The batch b is executed; the worker may notice.
LEMMA LandStep ==
  ASSUME IInv, NEW k \in Key, NEW b \in Seq(Of(k)), Covered(k, b), Fits(k, b),
         chain' = [chain EXCEPT ![k] = @ \o b],
         UNCHANGED <<mode, life, epoch, made, adder, buf>>, loose' \subseteq loose,
         DOMAIN worker' = Key, \A j \in Key \ {k} : worker'[j] = worker[j],
         NEW w, worker'[k] = w, w.tmp = worker[k].tmp, GoodWorker(k, w),
         \A i \in DOMAIN w.tmp :
           i <= Done(w) => On(k, w.tmp[i]) \/ Full(k) \/ \E m \in DOMAIN b : b[m] = w.tmp[i]
  PROVE  IInv'
<1>1. TypeInv /\ OrderKept
  BY Zenon DEF IInv
<1>2. OnlyAt(k) /\ chain'[k] = chain[k] \o b
  <2>1. /\ life \in {"up", "stopping", "last", "down"}
        /\ DOMAIN buf = Key /\ DOMAIN chain = Key
    BY <1>1, Zenon DEF TypeInv
  <2>2. /\ DOMAIN chain' = Key /\ chain'[k] = chain[k] \o b
        /\ \A j \in Key \ {k} : chain'[j] = chain[j]
    BY <2>1, Zenon
  <2>3. Past' = Past
    BY Zenon DEF Past
  <2> QED  BY <2>1, <2>2, <2>3, Zenon DEF OnlyAt
<1>3. /\ Account(k) = chain[k] /\ Account(k) \in Seq(Of(k))
      /\ Len(Account(k)) + Len(b) <= Room
  <2>1. chain[k] # None /\ Len(chain[k]) + Len(b) <= Room
    BY Zenon DEF Fits
  <2> QED  BY <1>1, <2>1, KeyFacts, Zenon DEF Account
<1> DEFINE a == Account(k) \o b
<1>4. a \in Seq(Of(k)) /\ Len(a) = Len(Account(k)) + Len(b)
  BY <1>3
<1>5. a # None
  <2>1. a \in Seq(Sample)
    BY <1>1, <1>4, PastFacts, SeqOfSub
  <2>2. None \notin Seq(Sample)
    BY SubmitterAssumption, Zenon
  <2> QED  BY <2>1, <2>2, Zenon
<1>6. chain'[k] = a /\ Account(k)' = a /\ Buffer(k)' = Buffer(k)
  BY <1>2, <1>3, <1>5, Zenon DEF Account, Buffer
<1>7. WorkerInv(k)'
  <2>1. w.tmp # <<>> => Len(Buffer(k)) <= Capacity
    BY <1>1, WorkerFacts, Zenon
  <2> QED  BY <1>5, <1>6, <2>1, Zenon DEF WorkerInv, GoodWorker, Device
<1>8. OrderInv(k)'
  <2>1. Of(k)' = Of(k)
    BY <1>2, Zenon DEF OnlyAt, Of
  <2>2. /\ Buffer(k) \in Seq(Of(k)) /\ worker[k].tmp \in Seq(Of(k))
        /\ Inc(worker[k].tmp) /\ Inc(Buffer(k)) /\ Before(worker[k].tmp, Buffer(k))
        /\ Device => Len(Buffer(k)) < 2 * Capacity
    BY <1>1, KeyFacts, Zenon
  <2>3. Len(a) <= Room
    BY <1>3, <1>4, Zenon
  <2> QED  BY <1>4, <1>6, <2>1, <2>2, <2>3, Zenon DEF OrderInv, Device
<1>9. AdderInv'
  BY <1>1, Zenon DEF TypeInv, AdderInv
<1>10. /\ TypeInv'
       /\ \A j \in Key \ {k} : Account(j)' = Account(j) /\ Buffer(j)' = Buffer(j)
  <2>1. \A t \in loose' : t \in loose \/ (t[1] \in Key /\ t[2] \in Seq(Of(t[1])))
    BY Zenon
  <2> QED  BY <1>1, <1>2, <1>7, <1>8, <1>9, <2>1, OneKey, Zenon
<1>11. Held' \subseteq Held
  <2>1. \A r : HeldByAdder(r)' => HeldByAdder(r)
    BY Zenon DEF HeldByAdder
  <2>2. \A j \in Key \ {k} : Buffer(j)' = Buffer(j) /\ worker'[j] = worker[j]
    BY <1>10, Zenon
  <2>3. \A r : HeldBy(k, r)' => HeldBy(k, r)
    BY <1>6, HeldByShrinks, Zenon
  <2> QED  BY <2>1, <2>2, <2>3, HeldGoes, Zenon
<1>12. /\ NotOvertaken' /\ \A t \in loose' : Covered(t[1], t[2])'
       /\ \A j \in Key : (Full(j) => Full(j)') /\ \A r : On(j, r) => On(j, r)'
       /\ \A i \in DOMAIN b : On(k, b[i])'
  <2>1. \A j \in Key \ {k} : Account(j)' = Account(j)
    BY <1>10, Zenon
  <2> QED  BY <1>1, <1>6, <1>11, <2>1, Landed, Zenon
<1>13. ASSUME NEW j \in Key  PROVE  Written(j)'
  <2>1. CASE j = k
    <3>1. ASSUME NEW i \in DOMAIN w.tmp, i <= Done(w)
          PROVE  On(k, w.tmp[i])' \/ Full(k)'
      <4>1. On(k, w.tmp[i]) \/ Full(k) \/ \E m \in DOMAIN b : b[m] = w.tmp[i]
        BY <3>1, Zenon
      <4> QED  BY <4>1, <1>12, Zenon
    <3> QED  BY <3>1, <2>1, Zenon DEF Written, WrittenBy, Done
  <2>2. CASE j # k
    <3>1. worker'[j] = worker[j] /\ WrittenBy(j, worker[j])
      BY <2>2, <1>1, Zenon DEF OrderKept, Written
    <3> QED  BY <3>1, <1>12, Zenon DEF Written, WrittenBy, Done
  <2> QED  BY <2>1, <2>2
<1> QED  BY <1>10, <1>12, <1>13, Zenon DEF IInv, OrderKept

LEMMA ExecuteStep ==
  ASSUME IInv, NEW k \in Key, Execute(k)
  PROVE  IInv'
<1> DEFINE q == worker[k].tmp
           w == [worker[k] EXCEPT !.pc = "executed"]
<1>1. /\ UNCHANGED <<mode, life, epoch, made, adder, buf>> /\ loose' = loose
      /\ TypeInv /\ Written(k) /\ worker[k].pc = "sent"
      /\ worker' = [worker EXCEPT ![k] = w]
  BY Zenon DEF Execute, SetWorker, IInv, OrderKept
<1>2. /\ worker[k] \in Worker /\ worker[k].at \in Nat /\ worker[k].try <= mode.attempts
      /\ worker[k].at < Len(q) /\ q \in Seq(Sample) /\ q # <<>> /\ chain[k] # None
  <2>1. /\ worker[k].pc \notin {"none", "queued", "epoch"}
        /\ worker[k].pc \in {"sent", "executed"}
    BY <1>1
  <2> QED  BY <1>1, <2>1, WorkerFacts, Zenon
<1>3. /\ w \in Worker /\ w.pc = "executed" /\ w.tmp = q
      /\ w.at = worker[k].at /\ w.try = worker[k].try
  <2>1. "executed" \in Pc
    BY DEF Pc
  <2> QED  BY <1>2, <2>1, WorkerAt, Zenon
<1>4. /\ DOMAIN worker' = Key /\ worker'[k] = w
      /\ \A j \in Key \ {k} : worker'[j] = worker[j]
  BY <1>1, Zenon DEF TypeInv
<1>5. /\ Part(k) \in Seq(Of(k)) /\ Len(Part(k)) \in Nat /\ Len(Part(k)) <= Batch
      /\ \A m \in DOMAIN Part(k) : Part(k)[m] = q[worker[k].at + m]
      /\ \A i \in DOMAIN q : worker[k].at < i /\ i <= worker[k].at + Batch =>
           i - worker[k].at \in DOMAIN Part(k)
      /\ Covered(k, Part(k))
  BY <1>1, <1>2, PartFacts, PartCovered, Zenon
<1> HIDE DEF w
<1>6. GoodWorker(k, w)
  BY <1>2, <1>3 DEF GoodWorker
<1>7. ASSUME NEW i \in DOMAIN q, i <= worker[k].at
      PROVE  On(k, q[i]) \/ Full(k)
  <2>1. Done(worker[k]) = worker[k].at
    BY <1>1 DEF Done
  <2> QED  BY <1>1, <1>7, <2>1, Zenon DEF Written, WrittenBy
<1>8. CASE Fits(k, Part(k))
  <2>1. chain' = [chain EXCEPT ![k] = @ \o Part(k)]
    BY <1>8, Zenon DEF Execute
  <2>2. ASSUME NEW i \in DOMAIN w.tmp, i <= Done(w)
        PROVE  On(k, w.tmp[i]) \/ Full(k) \/ \E m \in DOMAIN Part(k) : Part(k)[m] = w.tmp[i]
    <3>1. i \in DOMAIN q /\ w.tmp[i] = q[i] /\ i \in Nat /\ i <= worker[k].at + Batch
      BY <1>2, <1>3, <2>2 DEF Done
    <3>2. CASE i <= worker[k].at
      BY <3>1, <3>2, <1>7, Zenon
    <3>3. CASE ~(i <= worker[k].at)
      <4>1. worker[k].at < i /\ worker[k].at + (i - worker[k].at) = i
        BY <3>1, <3>3, <1>2
      <4> DEFINE m == i - worker[k].at
      <4>2. m \in DOMAIN Part(k) /\ worker[k].at + m = i
        BY <3>1, <4>1, <1>5, Zenon
      <4>3. Part(k)[m] = q[i]
        BY <4>2, <1>5, Zenon
      <4> QED  BY <4>2, <4>3, <3>1, Zenon
    <3> QED  BY <3>2, <3>3
  <2>3. loose' \subseteq loose
    BY <1>1, Zenon
  <2> QED  BY <1>1, <1>3, <1>4, <1>5, <1>6, <1>8, <2>1, <2>2, <2>3, LandStep, Zenon
<1>9. CASE ~Fits(k, Part(k))
  <2>1. chain' = chain
    BY <1>9, Zenon DEF Execute
  <2>2. Full(k)
    <3>1. Account(k) = chain[k] /\ Account(k) \in Seq(Sample)
      BY <1>1, <1>2, KeyFacts, Zenon DEF Account
    <3> QED  BY <1>2, <1>5, <1>9, <3>1, ConstFacts DEF Fits, Full
  <2>3. WrittenBy(k, w)
    BY <2>2, Zenon DEF WrittenBy
  <2> QED  BY <1>1, <1>3, <1>6, <2>1, <2>3, LooseSame, WorkerStep, Zenon
<1> QED  BY <1>8, <1>9

\* Steps about all partitions: what is held only goes, the accounts stay.
LEMMA AllKeys ==
  ASSUME TypeInv, mode' = mode, life' \in {"up", "stopping", "last", "down"},
         epoch' \in Key, made' \in 0 .. MaxSample, AdderInv', Past \subseteq Past',
         DOMAIN buf' = Key, DOMAIN worker' = Key, chain' = chain,
         \A j \in Key : /\ Buffer(j)' \in {Buffer(j), <<>>} /\ WorkerInv(j)'
                        /\ worker'[j].tmp \in {worker[j].tmp, <<>>},
         \A t \in loose' : t \in loose \/ (t[1] \in Key /\ t[2] \in Seq(Of(t[1])))
  PROVE  TypeInv' /\ \A j \in Key : Account(j)' = Account(j)
<1>1. \A j \in Key : Account(j)' = Account(j)
  BY Zenon DEF Account
<1>2. \A j \in Key : OrderInv(j)'
  BY <1>1, OrderShrinks, Zenon
<1>3. ASSUME NEW t \in loose'  PROVE  t[1] \in Key /\ t[2] \in Seq(Of(t[1])')
  <2>1. t[1] \in Key /\ t[2] \in Seq(Of(t[1]))
    BY Zenon DEF TypeInv
  <2>2. Of(t[1]) \subseteq Of(t[1])'
    BY DEF Of
  <2>3. t[2] \in Seq(Of(t[1])')
    BY <2>1, <2>2, SeqOfSub
  <2> QED  BY <2>1, <2>3, Zenon
<1>4. mode' \in Mode /\ DOMAIN chain' = Key
  BY Zenon DEF TypeInv
<1> QED  BY <1>1, <1>2, <1>3, <1>4, Zenon DEF TypeInv

LEMMA AllKeysOrder ==
  ASSUME TypeInv, OrderKept, \A r : HeldByAdder(r)' => HeldByAdder(r),
         \A j \in Key : /\ Buffer(j)' \in {Buffer(j), <<>>}
                        /\ worker'[j].tmp \in {worker[j].tmp, <<>>}
                        /\ WrittenBy(j, worker'[j]) /\ Account(j)' = Account(j),
         \A t \in loose' : t \in loose \/ (t[1] \in Key /\ Covered(t[1], t[2]))
  PROVE  OrderKept'
<1>1. Held' \subseteq Held
  <2>1. HeldMeans'
    BY HeldDef, PTL
  <2>2. \A j \in Key : \A r : HeldBy(j, r)' => HeldBy(j, r)
    BY HeldByShrinks, Zenon
  <2> QED  BY <2>1, <2>2, HeldDef, Zenon DEF HeldMeans
<1>2. ASSUME NEW j \in Key  PROVE  Written(j)'
  <2>1. /\ Full(j)' <=> Full(j)
        /\ \A r : On(j, r)' <=> On(j, r)
    BY OnFacts, Zenon
  <2>2. WrittenBy(j, worker'[j])
    BY Zenon
  <2> QED  BY <2>1, <2>2, Zenon DEF Written, WrittenBy, Done
<1> QED  BY <1>1, <1>2, Quiet, Zenon

LEMMA StillStep ==
  ASSUME IInv, UNCHANGED <<mode, made, adder, buf, worker, chain>>,
         epoch' \in Key, life' \in {"up", "stopping", "last", "down"}, loose' \subseteq loose
  PROVE  IInv'
<1>1. TypeInv /\ OrderKept
  BY Zenon DEF IInv
<1>2. /\ \A j \in Key : /\ Buffer(j)' \in {Buffer(j), <<>>}
                        /\ worker'[j].tmp \in {worker[j].tmp, <<>>}
                        /\ WorkerInv(j)' /\ WrittenBy(j, worker'[j])
      /\ Past \subseteq Past' /\ AdderInv'
      /\ DOMAIN buf' = Key /\ DOMAIN worker' = Key
      /\ made' \in 0 .. MaxSample
  <2>1. ASSUME NEW j \in Key
        PROVE  /\ Buffer(j)' = Buffer(j) /\ WorkerInv(j)' /\ WrittenBy(j, worker'[j])
    <3>1. WorkerInv(j) /\ WrittenBy(j, worker[j])
      BY <1>1, Zenon DEF TypeInv, OrderKept, Written
    <3> QED  BY <3>1, Zenon DEF Buffer, WorkerInv, GoodWorker, Device
  <2>2. Past \subseteq Past'
    BY Zenon DEF Past
  <2> QED  BY <1>1, <2>1, <2>2, Zenon DEF TypeInv, AdderInv
<1>3. \A t \in loose' : t \in loose \/ (t[1] \in Key /\ t[2] \in Seq(Of(t[1])))
  BY Zenon
<1>4. TypeInv' /\ \A j \in Key : Account(j)' = Account(j)
  BY <1>1, <1>2, <1>3, AllKeys, Zenon
<1>5. \A t \in loose' : t \in loose \/ (t[1] \in Key /\ Covered(t[1], t[2]))
  BY Zenon
<1>6. \A r : HeldByAdder(r)' => HeldByAdder(r)
  BY Zenon DEF HeldByAdder
<1>7. OrderKept'
  BY <1>1, <1>2, <1>4, <1>5, <1>6, AllKeysOrder, Zenon
<1> QED  BY <1>4, <1>7, Zenon DEF IInv

LEMMA LateStep ==
  ASSUME IInv, NEW t \in loose, Late(t)
  PROVE  IInv'
<1> DEFINE k == t[1]
           w == worker[k]
<1>1. /\ UNCHANGED <<mode, life, epoch, made, adder, buf, worker>>
      /\ loose' \subseteq loose /\ TypeInv /\ OrderKept
      /\ epoch' \in Key /\ life' \in {"up", "stopping", "last", "down"}
  BY Zenon DEF Late, IInv, TypeInv
<1>2. k \in Key /\ t[2] \in Seq(Of(k)) /\ Covered(k, t[2])
  BY <1>1, Zenon DEF TypeInv, OrderKept
<1>3. /\ DOMAIN worker' = Key /\ worker'[k] = w /\ GoodWorker(k, w) /\ WrittenBy(k, w)
      /\ \A j \in Key \ {k} : worker'[j] = worker[j]
  BY <1>1, <1>2, Zenon DEF TypeInv, OrderKept, WorkerInv, Written
<1>4. CASE chain' = [chain EXCEPT ![k] = @ \o t[2]] /\ Fits(k, t[2])
  <2>1. \A i \in DOMAIN w.tmp :
          i <= Done(w) => On(k, w.tmp[i]) \/ Full(k) \/ \E m \in DOMAIN t[2] : t[2][m] = w.tmp[i]
    BY <1>3, Zenon DEF WrittenBy
  <2> HIDE DEF k
  <2> QED  BY <1>1, <1>2, <1>3, <1>4, <2>1, LandStep, Zenon
<1>5. CASE chain' = chain
  BY <1>1, <1>5, StillStep, Zenon
<1> QED  BY <1>4, <1>5, Zenon DEF Late

LEMMA DieStep ==
  ASSUME IInv, Die
  PROVE  IInv'
<1>1. /\ TypeInv /\ OrderKept /\ mode' = mode /\ chain' = chain /\ epoch' = epoch
      /\ made' = made /\ adder' = NoAdder /\ life' = "down"
  BY Zenon DEF Die, IInv
<1>2. NoAdder.pc = "idle" /\ NoAdder.into = "map" /\ NoAdder \in Adding
  BY ConstFacts DEF NoAdder, Adding, Key
<1>3. AdderInv'
  BY <1>1, <1>2 DEF AdderInv
<1>4. ASSUME NEW j \in Key
      PROVE  /\ Buffer(j)' = <<>> /\ worker'[j] = NoWorker /\ worker'[j].tmp = <<>>
             /\ WorkerInv(j)' /\ WrittenBy(j, worker'[j])
  <2>1. buf'[j] = None /\ worker'[j] = NoWorker
    BY Zenon DEF Die
  <2>2. GoodWorker(j, NoWorker) /\ WrittenBy(j, NoWorker) /\ NoWorker.tmp = <<>>
        /\ NoWorker.pc = "none"
    BY <1>1, GoodNone, IdleWorker, Zenon
  <2>3. Buffer(j)' = <<>>
    BY <2>1, Zenon DEF Buffer
  <2>4. WorkerInv(j)'
    BY <1>1, <2>1, <2>2, Zenon DEF WorkerInv, GoodWorker, Device
  <2> QED  BY <2>1, <2>2, <2>3, <2>4, Zenon
<1>5. Past \subseteq Past'
  <2>1. made \in Nat
    BY <1>1, ConstFacts DEF TypeInv
  <2> QED  BY <1>1, <1>2, <2>1 DEF Past
<1>6. \A t \in loose' :
        t \in loose \/ (t[1] \in Key /\ t[2] \in Seq(Of(t[1])) /\ Covered(t[1], t[2]))
  <2> SUFFICES ASSUME NEW j \in Key, worker[j].pc = "sent"
               PROVE  LET t == <<j, Part(j)>> IN
                      t[1] \in Key /\ t[2] \in Seq(Of(t[1])) /\ Covered(t[1], t[2])
    BY Zenon DEF Die
  <2>1. Written(j)
    BY <1>1, Zenon DEF OrderKept
  <2>2. worker[j].tmp # <<>>
    <3>1. worker[j].pc \notin {"none", "queued", "epoch"}
      OBVIOUS
    <3> QED  BY <1>1, <3>1, WorkerFacts, Zenon
  <2>3. Part(j) \in Seq(Of(j)) /\ Covered(j, Part(j))
    BY <1>1, <2>1, <2>2, PartFacts, PartCovered, Zenon
  <2>4. <<j, Part(j)>>[1] = j /\ <<j, Part(j)>>[2] = Part(j)
    OBVIOUS
  <2> QED  BY <2>3, <2>4, Zenon
<1>7. /\ \A t \in loose' : t \in loose \/ (t[1] \in Key /\ t[2] \in Seq(Of(t[1])))
      /\ \A t \in loose' : t \in loose \/ (t[1] \in Key /\ Covered(t[1], t[2]))
  BY <1>6, Zenon
<1>8. /\ life' \in {"up", "stopping", "last", "down"} /\ epoch' \in Key
      /\ made' \in 0 .. MaxSample /\ DOMAIN buf' = Key /\ DOMAIN worker' = Key
  BY <1>1, Zenon DEF TypeInv, Die
<1>9. TypeInv' /\ \A j \in Key : Account(j)' = Account(j)
  BY <1>1, <1>3, <1>4, <1>5, <1>7, <1>8, AllKeys, Zenon
<1>10. \A r : HeldByAdder(r)' => HeldByAdder(r)
  BY <1>1, <1>2 DEF HeldByAdder
<1>11. OrderKept'
  BY <1>1, <1>4, <1>7, <1>9, <1>10, AllKeysOrder, Zenon
<1> QED  BY <1>9, <1>11, Zenon DEF IInv

LEMMA TickStep ==
  ASSUME IInv, Tick
  PROVE  IInv'
<1>1. /\ TypeInv /\ OrderKept /\ mode' = mode /\ chain' = chain /\ loose' = loose
      /\ UNCHANGED <<epoch, made, adder, buf>>
  BY Zenon DEF Tick, IInv
<1>2. AdderInv' /\ Past \subseteq Past'
  BY <1>1, Zenon DEF TypeInv, AdderInv, Past
<1>3. ASSUME NEW j \in Key
      PROVE  /\ Buffer(j)' = Buffer(j) /\ worker'[j].tmp = <<>>
             /\ WorkerInv(j)' /\ WrittenBy(j, worker'[j])
  <2>1. NoWorker = [NoWorker EXCEPT !.pc = "none"]
    BY DEF NoWorker
  <2>2. PICK p \in {"none", "queued"} : worker'[j] = [NoWorker EXCEPT !.pc = p]
    BY <2>1, Zenon DEF Tick
  <2> DEFINE w == [NoWorker EXCEPT !.pc = p]
  <2>3. GoodWorker(j, w) /\ WrittenBy(j, w) /\ w.tmp = <<>> /\ w.pc = p
    BY <1>1, GoodIdle, Zenon
  <2>4. Buffer(j)' = Buffer(j)
    BY <1>1, Zenon DEF Buffer
  <2> HIDE DEF w
  <2>5. worker'[j] = w
    BY <2>2, Zenon DEF w
  <2>6. WorkerInv(j)'
    BY <1>1, <2>3, <2>5, Zenon DEF WorkerInv, GoodWorker, Device
  <2> QED  BY <2>3, <2>4, <2>5, <2>6, Zenon
<1>4. /\ \A t \in loose' : t \in loose \/ (t[1] \in Key /\ t[2] \in Seq(Of(t[1])))
      /\ \A t \in loose' : t \in loose \/ (t[1] \in Key /\ Covered(t[1], t[2]))
  BY <1>1, Zenon
<1>5. /\ life' \in {"up", "stopping", "last", "down"} /\ epoch' \in Key
      /\ made' \in 0 .. MaxSample /\ DOMAIN buf' = Key /\ DOMAIN worker' = Key
  BY <1>1, Zenon DEF TypeInv, Tick
<1>6. TypeInv' /\ \A j \in Key : Account(j)' = Account(j)
  BY <1>1, <1>2, <1>3, <1>4, <1>5, AllKeys, Zenon
<1>7. \A r : HeldByAdder(r)' => HeldByAdder(r)
  BY <1>1, Zenon DEF HeldByAdder
<1>8. OrderKept'
  BY <1>1, <1>3, <1>4, <1>6, <1>7, AllKeysOrder, Zenon
<1> QED  BY <1>6, <1>8, Zenon DEF IInv

\* A step of the adder that leaves the samples in the buffers alone.
LEMMA AdderStep ==
  ASSUME IInv, UNCHANGED <<mode, life, epoch, worker, chain, loose>>,
         made' \in 0 .. MaxSample, AdderInv', Past \subseteq Past', DOMAIN buf' = Key,
         \A j \in Key : Buffer(j)' = Buffer(j)
  PROVE  /\ TypeInv'
         /\ (\A r : HeldByAdder(r)' => HeldByAdder(r)) => IInv'
<1>1. TypeInv /\ OrderKept
  BY Zenon DEF IInv
<1>2. \A j \in Key : WorkerInv(j)' /\ WrittenBy(j, worker'[j])
  BY <1>1, Zenon DEF TypeInv, OrderKept, Written, WorkerInv, GoodWorker, Device
<1>3. \A t \in loose' : t \in loose \/ (t[1] \in Key /\ t[2] \in Seq(Of(t[1])))
  BY Zenon
<1>4. life' \in {"up", "stopping", "last", "down"} /\ epoch' \in Key /\ DOMAIN worker' = Key
  BY <1>1, Zenon DEF TypeInv
<1>5. TypeInv' /\ \A j \in Key : Account(j)' = Account(j)
  BY <1>1, <1>2, <1>3, <1>4, AllKeys, Zenon
<1>6. \A t \in loose' : t \in loose \/ (t[1] \in Key /\ Covered(t[1], t[2]))
  BY Zenon
<1>7. (\A r : HeldByAdder(r)' => HeldByAdder(r)) => OrderKept'
  BY <1>1, <1>2, <1>5, <1>6, AllKeysOrder, Zenon
<1> QED  BY <1>5, <1>7, Zenon DEF IInv

LEMMA MeasureStep ==
  ASSUME IInv, Measure
  PROVE  IInv'
<1>1. /\ TypeInv /\ UNCHANGED <<mode, life, epoch, worker, chain, loose>> /\ buf' = buf
      /\ adder.pc = "idle" /\ made < mode.samples /\ made' = made + 1
      /\ adder' = [pc |-> "probing", smp |-> <<epoch, made + 1>>, into |-> "map"]
  BY Zenon DEF Measure, IInv
<1>2. made \in Nat /\ made + 1 \in 1 .. MaxSample /\ MaxSample \in Nat
  <2>1. mode \in Mode /\ made \in 0 .. MaxSample
    BY <1>1, Zenon DEF TypeInv
  <2>2. mode.samples \in 0 .. MaxSample
    BY <2>1, ModeFacts, Zenon
  <2> QED  BY <1>1, <2>1, <2>2, ConstFacts
<1>3. made' \in 0 .. MaxSample /\ Past \subseteq Past'
  BY <1>1, <1>2 DEF Past
<1>4. AdderInv'
  <2>1. epoch \in Key
    BY <1>1, Zenon DEF TypeInv
  <2>2. <<epoch, made + 1>> \in Sample /\ <<epoch, made + 1>> \in Key \X (0 .. MaxSample)
    BY <2>1, <1>2 DEF Sample
  <2> QED  BY <1>1, <2>2 DEF AdderInv, Adding
<1>5. \A r : HeldByAdder(r)' => HeldByAdder(r)
  BY <1>1 DEF HeldByAdder
<1>6. DOMAIN buf' = Key /\ \A j \in Key : Buffer(j)' = Buffer(j)
  BY <1>1, Zenon DEF TypeInv, Buffer
<1> QED  BY <1>1, <1>3, <1>4, <1>5, <1>6, AdderStep, Zenon

LEMMA LookUpStep ==
  ASSUME IInv, LookUp
  PROVE  IInv'
<1> DEFINE k == adder.smp[1]
<1>1. /\ TypeInv /\ OrderKept /\ UNCHANGED <<mode, life, epoch, worker, chain, loose>>
      /\ adder.pc = "probing" /\ made' = made
      /\ adder' = [adder EXCEPT !.pc = "adding"]
      /\ buf' = [buf EXCEPT ![k] = IF @ = None THEN <<>> ELSE @]
  BY Zenon DEF LookUp, IInv
<1>2. /\ adder \in Adding /\ adder.into = "map" /\ adder.smp \in Sample
      /\ adder.smp[2] = made /\ k \in Key
  <2>1. AdderInv /\ adder.pc # "adding" /\ adder.pc # "idle"
    BY <1>1 DEF TypeInv
  <2> QED  BY <2>1, SampleFacts, Zenon DEF AdderInv
<1>3. /\ adder' \in Adding /\ adder'.pc = "adding" /\ adder'.smp = adder.smp
      /\ adder'.into = "map"
  BY <1>1, <1>2 DEF Adding
<1>4. DOMAIN buf' = Key /\ buf'[k] # None /\ \A j \in Key : Buffer(j)' = Buffer(j)
  <2>1. /\ DOMAIN buf' = Key /\ \A j \in Key \ {k} : buf'[j] = buf[j]
        /\ buf'[k] = IF buf[k] = None THEN <<>> ELSE buf[k]
    BY <1>1, <1>2, Zenon DEF TypeInv
  <2>2. buf'[k] = Buffer(k) /\ buf'[k] # None
    BY <2>1, ConstFacts, Zenon DEF Buffer
  <2> QED  BY <2>1, <2>2, Zenon DEF Buffer
<1>5. AdderInv'
  BY <1>1, <1>2, <1>3, <1>4, Zenon DEF AdderInv
<1>6. Past \subseteq Past' /\ made' \in 0 .. MaxSample
  BY <1>1, <1>3 DEF Past, TypeInv
<1>7. TypeInv'
  BY <1>1, <1>4, <1>5, <1>6, AdderStep, Zenon
<1>8. \A j \in Key : Account(j)' = Account(j)
  BY <1>1, Zenon DEF Account
<1>9. \A r \in Held' : r \in Held \/ r = adder.smp
  <2>1. HeldMeans'
    BY HeldDef, PTL
  <2>2. \A j \in Key : \A r : HeldBy(j, r)' => HeldBy(j, r)
    BY <1>1, <1>4, HeldByShrinks, Zenon
  <2>3. \A r : HeldByAdder(r)' => r = adder.smp
    BY <1>3, Zenon DEF HeldByAdder
  <2> QED  BY <2>1, <2>2, <2>3, HeldDef, Zenon DEF HeldMeans
\* Whatever was measured before has a smaller number.
<1>10. ASSUME NEW j \in Key, NEW q \in Seq(Of(j)), NEW i \in DOMAIN q
       PROVE  ~(adder.smp[2] < q[i][2])
  <2>1. q[i][2] \in Past /\ made \in Nat
    BY <1>1, PastFacts
  <2> QED  BY <2>1, <1>1, <1>2 DEF Past
<1>11. NotOvertaken'
  <2>1. \A j \in Key : \A i \in DOMAIN Account(j) : ~(adder.smp[2] < Account(j)[i][2])
    BY <1>1, <1>10, KeyFacts, Zenon
  <2> QED  BY <1>1, <1>8, <1>9, <2>1 DEF OrderKept, NotOvertaken
<1>12. ASSUME NEW t \in loose'  PROVE  Covered(t[1], t[2])'
  <2>1. t[1] \in Key /\ t[2] \in Seq(Of(t[1])) /\ Covered(t[1], t[2])
    BY <1>1, Zenon DEF TypeInv, OrderKept
  <2>2. \A m \in DOMAIN t[2] : ~(adder.smp[2] < t[2][m][2])
    BY <2>1, <1>10, Zenon
  <2>3. /\ Full(t[1])' <=> Full(t[1])
        /\ \A r : On(t[1], r)' <=> On(t[1], r)
    BY <2>1, <1>8, OnFacts, Zenon
  <2> QED  BY <2>1, <2>2, <2>3, <1>9, Zenon DEF Covered
<1>13. \A j \in Key : Written(j)'
  BY <1>1, <1>8, Zenon DEF OrderKept, Written, WrittenBy, On, Full, Done
<1> QED  BY <1>7, <1>11, <1>12, <1>13, Zenon DEF IInv, OrderKept

LEMMA AddStep ==
  ASSUME IInv, Add
  PROVE  IInv'
<1>1. /\ TypeInv /\ OrderKept /\ AdderInv
      /\ UNCHANGED <<mode, life, epoch, worker, chain, loose>>
      /\ adder.pc = "adding" /\ made' = made /\ adder' = NoAdder
  BY Zenon DEF Add, IInv, TypeInv
<1>0. /\ adder.smp \in Sample /\ adder.smp[2] = made /\ made \in Nat /\ made > 0
      /\ adder.smp[1] \in Key
  <2>1. adder.pc # "idle"
    BY <1>1
  <2>2. adder.smp \in Sample /\ adder.smp[2] = made
    BY <1>1, <2>1, Zenon DEF AdderInv
  <2> QED  BY <2>2, SampleFacts
<1> PICK k \in Key : k = adder.smp[1]
  BY <1>0, Zenon
<1>2. /\ adder.smp \in Sample /\ adder.smp[2] = made /\ k \in Key /\ made \in Nat
      /\ made > 0
  BY <1>0, Zenon
<1> DEFINE b == Append(Buffer(k), adder.smp)
<1>3. NoAdder.pc = "idle" /\ NoAdder.into = "map" /\ NoAdder \in Adding
  BY ConstFacts DEF NoAdder, Adding, Key
<1>4. AdderInv'
  BY <1>1, <1>3 DEF AdderInv
<1>5. /\ Past \subseteq Past' /\ made \in Past' /\ made' \in 0 .. MaxSample
      /\ \A n \in Past : n \in Nat /\ n < made
  BY <1>1, <1>2, <1>3 DEF Past, TypeInv
<1>6. \A r : ~HeldByAdder(r)'
  BY <1>1, <1>3 DEF HeldByAdder
<1>7. CASE buf' = buf
  <2>1. DOMAIN buf' = Key /\ \A j \in Key : Buffer(j)' = Buffer(j)
    BY <1>1, <1>7, Zenon DEF TypeInv, Buffer
  <2> QED  BY <1>1, <1>4, <1>5, <1>6, <2>1, AdderStep, Zenon
<1>8. CASE adder.into = "map"
  <2>1. /\ buf[k] # None /\ buf[k] = Buffer(k) /\ Len(Buffer(k)) < Capacity
        /\ buf' = [buf EXCEPT ![k] = b]
    <3>1. buf[k] # None
      BY <1>1, <1>8, Zenon DEF AdderInv
    <3>2. Buffer(k) = buf[k]
      BY <3>1, Zenon DEF Buffer
    <3> QED  BY <3>1, <3>2, <1>1, <1>8, Zenon DEF Add
  <2>2. /\ DOMAIN buf' = Key /\ buf'[k] = b /\ \A j \in Key \ {k} : buf'[j] = buf[j]
    BY <2>1, <1>1, <1>2, Zenon DEF TypeInv
  <2>3. /\ Buffer(k) \in Seq(Of(k)) /\ worker[k].tmp \in Seq(Of(k))
        /\ Account(k) \in Seq(Of(k)) /\ Buffer(k) \in Seq(Sample)
        /\ Inc(worker[k].tmp) /\ Inc(Buffer(k)) /\ Before(worker[k].tmp, Buffer(k))
        /\ Len(Account(k)) <= Room
    BY <1>1, <1>2, KeyFacts, Zenon
  <2> DEFINE n == Len(Buffer(k))
  <2>4. /\ b \in Seq(Sample) /\ Len(b) = n + 1 /\ n \in Nat /\ DOMAIN b = 1 .. n + 1
        /\ DOMAIN Buffer(k) = 1 .. n
        /\ \A i \in 1 .. n : b[i] = Buffer(k)[i]
        /\ b[n + 1] = adder.smp
    BY <2>3, <1>2
  <2>5. b # None
    <3>1. None \notin Seq(Sample)
      BY SubmitterAssumption, Zenon
    <3> QED  BY <2>4, <3>1, Zenon
  <2>6. Buffer(k)' = b
    BY <2>2, <2>5, Zenon DEF Buffer
  <2>7. Of(k) \subseteq Of(k)' /\ adder.smp \in Of(k)'
    <3>1. Of(k) \subseteq Of(k)'
      BY <1>5 DEF Of
    <3>2. adder.smp = <<k, made>>
      BY <1>2, SampleFacts
    <3>3. adder.smp \in {k} \X Past'
      BY <3>2, <1>5
    <3> QED  BY <3>1, <3>3, Zenon DEF Of
  <2>8. b \in Seq(Of(k)') /\ worker[k].tmp \in Seq(Of(k)') /\ Account(k) \in Seq(Of(k)')
    <3>1. /\ Buffer(k) \in Seq(Of(k)') /\ worker[k].tmp \in Seq(Of(k)')
          /\ Account(k) \in Seq(Of(k)')
      BY <2>3, <2>7, SeqOfSub
    <3>2. b \in Seq(Of(k)')
      BY <3>1, <2>7
    <3> QED  BY <3>1, <3>2, Zenon
  <2>9. ASSUME NEW q \in Seq(Of(k)), NEW i \in DOMAIN q
        PROVE  q[i][2] < adder.smp[2]
    <3>1. q[i][2] \in Past
      BY <1>1, <1>2, PastFacts
    <3> QED  BY <3>1, <1>2, <1>5
  <2>10. Inc(b)
    <3> SUFFICES ASSUME NEW i \in DOMAIN b, NEW j \in DOMAIN b, i < j
                 PROVE  b[i][2] < b[j][2]
      BY Zenon DEF Inc
    <3> HIDE DEF b, n
    <3>1. i \in 1 .. n /\ (j \in 1 .. n \/ j = n + 1)
      BY <2>4
    <3>2. i \in DOMAIN Buffer(k) /\ b[i] = Buffer(k)[i]
      BY <2>4, <3>1, Zenon
    <3>3. CASE j \in 1 .. n
      BY <2>3, <2>4, <3>2, <3>3, Zenon DEF Inc
    <3>4. CASE j = n + 1
      <4>1. Buffer(k)[i][2] < adder.smp[2]
        BY <2>3, <2>9, <3>2, Zenon
      <4> QED  BY <4>1, <2>4, <3>2, <3>4
    <3> QED  BY <3>1, <3>3, <3>4, Zenon
  <2>11. Before(worker[k].tmp, b)
    <3> SUFFICES ASSUME NEW i \in DOMAIN worker[k].tmp, NEW j \in DOMAIN b
                 PROVE  worker[k].tmp[i][2] < b[j][2]
      BY Zenon DEF Before
    <3> HIDE DEF b, n
    <3>1. j \in 1 .. n \/ j = n + 1
      BY <2>4
    <3>2. CASE j \in 1 .. n
      BY <2>3, <2>4, <3>2, Zenon DEF Before
    <3>3. CASE j = n + 1
      <4>1. worker[k].tmp[i][2] < adder.smp[2]
        BY <2>3, <2>9, Zenon
      <4> QED  BY <4>1, <2>4, <3>3
    <3> QED  BY <3>1, <3>2, <3>3, Zenon
  <2>12. Len(b) <= Capacity /\ Len(b) < 2 * Capacity
    BY <2>1, <2>4, ConstFacts
  <2> HIDE DEF b, n
  <2>13. \A j \in Key : Account(j)' = Account(j)
    BY <1>1, Zenon DEF Account
  <2>14. OrderInv(k)' /\ WorkerInv(k)'
    <3>1. WorkerInv(k)
      BY <1>1, <1>2, Zenon DEF TypeInv
    <3>2. WorkerInv(k)'
      BY <3>1, <1>1, <2>6, <2>12, Zenon DEF WorkerInv, GoodWorker, Device
    <3>3. OrderInv(k)'
      BY <1>1, <1>2, <2>3, <2>6, <2>8, <2>10, <2>11, <2>12, <2>13, Zenon DEF OrderInv
    <3> QED  BY <3>2, <3>3, Zenon
  <2>15. \A j \in Key \ {k} : WorkerInv(j)' /\ OrderInv(j)' /\ Buffer(j)' = Buffer(j)
    BY <1>1, <1>5, <2>2, KeySame, Zenon
  <2>16. ASSUME NEW t \in loose'  PROVE  t[1] \in Key /\ t[2] \in Seq(Of(t[1])')
    <3>1. t[1] \in Key /\ t[2] \in Seq(Of(t[1]))
      BY <1>1, Zenon DEF TypeInv
    <3>2. Of(t[1]) \subseteq Of(t[1])'
      BY <1>5 DEF Of
    <3>3. t[2] \in Seq(Of(t[1])')
      BY <3>1, <3>2, SeqOfSub
    <3> QED  BY <3>1, <3>3, Zenon
  <2>17. TypeInv'
    <3>1. \A j \in Key : WorkerInv(j)' /\ OrderInv(j)'
      BY <2>14, <2>15, Zenon
    <3> QED  BY <1>1, <1>4, <1>5, <2>2, <2>16, <3>1, Zenon DEF TypeInv
  <2>18. Held' \subseteq Held
    <3>1. HeldMeans'
      BY HeldDef, PTL
    <3>2. ASSUME NEW r, HeldBy(k, r)'  PROVE  HeldBy(k, r) \/ HeldByAdder(r)
      <4>1. ASSUME NEW i \in DOMAIN b, b[i] = r  PROVE  HeldBy(k, r) \/ HeldByAdder(r)
        <5>1. i \in 1 .. n \/ i = n + 1
          BY <2>4
        <5>2. CASE i \in 1 .. n
          BY <4>1, <5>2, <2>4, Zenon DEF HeldBy
        <5>3. CASE i = n + 1
          BY <4>1, <5>3, <2>4, <1>1, <1>8, Zenon DEF HeldByAdder
        <5> QED  BY <5>1, <5>2, <5>3, Zenon
      <4> QED  BY <3>2, <4>1, <1>1, <2>6, Zenon DEF HeldBy
    <3>3. ASSUME NEW j \in Key, j # k, NEW r, HeldBy(j, r)'  PROVE  HeldBy(j, r)
      BY <3>3, <1>1, <2>15, Zenon DEF HeldBy
    <3> QED  BY <1>2, <1>6, <3>1, <3>2, <3>3, HeldDef, Zenon DEF HeldMeans
  <2>19. \A j \in Key : Written(j)'
    BY <1>1, <2>13, Zenon DEF OrderKept, Written, WrittenBy, On, Full, Done
  <2>20. \A t \in loose' : t \in loose \/ (t[1] \in Key /\ Covered(t[1], t[2]))
    BY <1>1, Zenon
  <2>21. OrderKept'
    BY <1>1, <2>13, <2>18, <2>19, <2>20, Quiet, Zenon
  <2> QED  BY <2>17, <2>21, Zenon DEF IInv
<1> QED  BY <1>7, <1>8, Zenon DEF Add

-----------------------------------------------------------------------------
(* Every step, and the theorems *)

LEMMA InitHolds == Init => IInv
<1> SUFFICES ASSUME Init  PROVE  IInv
  OBVIOUS
<1>1. /\ mode \in Mode /\ life = "up" /\ epoch = 1 /\ made = 0 /\ adder = NoAdder
      /\ loose = {} /\ DOMAIN buf = Key /\ DOMAIN worker = Key /\ DOMAIN chain = Key
      /\ \A k \in Key : buf[k] = None /\ worker[k] = NoWorker /\ chain[k] = None
  BY Zenon DEF Init
<1>2. NoAdder.pc = "idle" /\ NoAdder.into = "map" /\ NoAdder \in Adding
  BY ConstFacts DEF NoAdder, Adding, Key
<1>3. AdderInv
  BY <1>1, <1>2 DEF AdderInv
<1>4. \A k \in Key : Buffer(k) = <<>> /\ worker[k].tmp = <<>> /\ Account(k) = <<>>
                     /\ worker[k].pc = "none" /\ worker[k].at = 0 /\ worker[k].try = 0
                     /\ worker[k] \in Worker
  BY <1>1, IdleWorker, Zenon DEF Buffer, Account
<1>5. mode.attempts \in Nat
  BY <1>1, ModeFacts
<1>6. ASSUME NEW k \in Key  PROVE  WorkerInv(k)
  BY <1>4, <1>5 DEF WorkerInv, GoodWorker
<1>7. ASSUME NEW k \in Key  PROVE  OrderInv(k)
  <2>1. <<>> \in Seq(Of(k)) /\ Len(<<>>) <= Room /\ Len(<<>>) < 2 * Capacity
    BY ConstFacts
  <2>2. Inc(<<>>) /\ Before(<<>>, <<>>)
    BY Empty, Zenon DEF Inc, Before
  <2> QED  BY <1>4, <2>1, <2>2, Zenon DEF OrderInv
<1>8. TypeInv
  <2>1. epoch \in Key /\ made \in 0 .. MaxSample /\ life \in {"up", "stopping", "last", "down"}
    BY <1>1, ConstFacts DEF Key
  <2> QED  BY <1>1, <1>3, <1>6, <1>7, <2>1, Zenon DEF TypeInv
<1>9. OrderKept
  <2>1. NotOvertaken
    BY <1>4, Empty, Zenon DEF NotOvertaken
  <2>2. \A k \in Key : Written(k)
    BY <1>4, Empty, Zenon DEF Written, WrittenBy
  <2> QED  BY <1>1, <2>1, <2>2, Zenon DEF OrderKept
<1> QED  BY <1>8, <1>9, Zenon DEF IInv

LEMMA NextHolds == IInv /\ [Next]_vars => IInv'
<1> SUFFICES ASSUME IInv, [Next]_vars  PROVE  IInv'
  OBVIOUS
<1>0. epoch \in Key /\ life \in {"up", "stopping", "last", "down"}
  BY Zenon DEF IInv, TypeInv
<1>1. CASE Measure
  BY <1>1, MeasureStep, Zenon
<1>2. CASE Adder
  BY <1>2, LookUpStep, AddStep, Zenon DEF Adder
<1>3. CASE Tick
  BY <1>3, TickStep, Zenon
<1>4. CASE \E k \in Key : Submit(k)
  <2>1. PICK k \in Key : Submit(k)
    BY <1>4, Zenon
  <2>2. CASE CopyAndReset(k) \/ CheckEpoch(k) \/ Write(k) \/ Initialize(k) \/ Execute(k)
    BY <2>2, CopyAndResetStep, CheckEpochStep, WriteStep, InitializeStep, ExecuteStep, Zenon
  <2>3. CASE Confirm(k) \/ CallFails(k) \/ Retry(k) \/ CheckRoom(k) \/ PriorityPrepend(k)
    BY <2>3, ConfirmStep, CallFailsStep, RetryStep, CheckRoomStep, PriorityPrependStep, Zenon
  <2> QED  BY <2>1, <2>2, <2>3, Zenon DEF Submit
<1>5. CASE \E t \in loose : Late(t)
  BY <1>5, LateStep, Zenon
<1>6. CASE Exit \/ Crash
  BY <1>6, DieStep, Zenon DEF Exit, Crash
<1>7. CASE EpochEnds
  <2>1. epoch' \in Key
    BY <1>0, <1>7, ConstFacts DEF EpochEnds, Key
  <2> QED  BY <1>0, <1>7, <2>1, StillStep, Zenon DEF EpochEnds
<1>8. CASE Stop \/ Restart
  <2>1. life' \in {"up", "stopping", "last", "down"}
    BY <1>8 DEF Stop, Restart
  <2> QED  BY <1>0, <1>8, <2>1, StillStep, Zenon DEF Stop, Restart
<1>9. CASE UNCHANGED vars
  BY <1>0, <1>9, StillStep, Zenon DEF vars
<1> QED  BY <1>1, <1>2, <1>3, <1>4, <1>5, <1>6, <1>7, <1>8, <1>9, Zenon DEF Next

LEMMA SubmitterInvariant == Spec => []IInv
BY InitHolds, NextHolds, PTL DEF Spec

\* A sample the agent still holds is not overtaken on its account (NotOvertaken),
\* for every size of batch and account: the worker that takes a partition and
\* writes it in batches, the retries from the first batch, the samples put back
\* in front (submitter.go: SubmitSamples) and the transactions that land after
\* their sender has given up keep the order of the samples.
THEOREM SubmitterNotOvertaken == Spec => []NotOvertaken
<1>1. IInv => NotOvertaken
  BY Zenon DEF IInv, OrderKept
<1> QED  BY <1>1, SubmitterInvariant, PTL

\* The state is well typed and the device agent's buffer of a partition stays
\* below twice its capacity (DeviceBufferBounded): what is put back was tested
\* against the capacity, and while the worker holds it no more than one capacity
\* can be added behind (buffer/memory.go: Add waits, PriorityPrepend does not).
THEOREM SubmitterDeviceBufferBounded == Spec => []DeviceBufferBounded
<1>1. IInv => DeviceBufferBounded
  <2> SUFFICES ASSUME TypeInv  PROVE  DeviceBufferBounded
    BY Zenon DEF IInv
  <2>1. ASSUME NEW k \in Key
        PROVE  /\ buf[k] # None => buf[k] \in Seq({k} \X (1 .. made))
               /\ worker[k].tmp \in Seq({k} \X (1 .. made))
               /\ worker[k].at < Len(worker[k].tmp) \/ worker[k].tmp = <<>>
               /\ worker[k].try \in 0 .. mode.attempts
               /\ chain[k] # None => chain[k] \in Seq({k} \X (1 .. made)) /\ Len(chain[k]) <= Room
               /\ Device => (buf[k] # None => Len(buf[k]) < 2 * Capacity)
    <3>1. /\ Buffer(k) \in Seq(Of(k)) /\ worker[k].tmp \in Seq(Of(k))
          /\ Account(k) \in Seq(Of(k)) /\ Len(Account(k)) <= Room
          /\ Device => Len(Buffer(k)) < 2 * Capacity
      BY KeyFacts, Zenon
    <3>2. Of(k) \subseteq {k} \X (1 .. made)
      BY PastFacts, Zenon
    <3>3. /\ Buffer(k) \in Seq({k} \X (1 .. made)) /\ Account(k) \in Seq({k} \X (1 .. made))
          /\ worker[k].tmp \in Seq({k} \X (1 .. made))
      BY <3>1, <3>2, SeqOfSub
    <3>4. /\ worker[k].at < Len(worker[k].tmp) \/ worker[k].tmp = <<>>
          /\ worker[k].try \in Nat /\ worker[k].try <= mode.attempts
      BY WorkerFacts, Zenon
    <3>5. worker[k].try \in 0 .. mode.attempts
      <4>1. mode \in Mode
        BY Zenon DEF TypeInv
      <4>2. mode.attempts \in Nat
        BY <4>1, ModeFacts
      <4> QED  BY <4>2, <3>4
    <3> QED  BY <3>1, <3>3, <3>4, <3>5, Zenon DEF Buffer, Account
  <2>2. adder.into # "map" => adder.pc = "adding"
    BY Zenon DEF TypeInv, AdderInv
  <2>3. TypeOK
    BY <2>1, <2>2, Zenon DEF TypeInv, AdderInv, TypeOK, Adding
  <2> QED  BY <2>1, <2>3, Zenon DEF DeviceBufferBounded
<1> QED  BY <1>1, SubmitterInvariant, PTL

-----------------------------------------------------------------------------
(* The submitter implements SampleDelivery *)

\* Only the device agent tests for room; a worker that has taken nothing yet has
\* nothing in hand.
GoodPc(p, q, d) ==
  /\ p = "room" => d
  /\ p \in {"none", "queued", "epoch"} => q = <<>>
\* Nothing runs once the agent is down, and no transaction carries more than a
\* batch.
RefInv ==
  /\ life = "down" => adder.pc = "idle" /\ \A k \in Key : worker[k].pc = "none"
  /\ \A k \in Key : GoodPc(worker[k].pc, worker[k].tmp, Device)
  /\ \A t \in loose : Len(t[2]) <= Batch

\* The worker of partition k goes on.
Goes(k) ==
  /\ DOMAIN worker' = Key
  /\ \A j \in Key \ {k} : worker'[j] = worker[j]

LEMMA GoesTo ==
  ASSUME TypeInv, NEW k \in Key, NEW w \in Worker, SetWorker(k, w)
  PROVE  Goes(k) /\ worker'[k] = w
BY Zenon DEF TypeInv, SetWorker, Goes

\* Where a worker may go.
LEMMA SubmitGoes ==
  ASSUME TypeInv, NEW k \in Key, Submit(k)
  PROVE  /\ worker[k].pc # "none" /\ UNCHANGED <<mode, life>>
         /\ adder'.pc = adder.pc
         /\ Goes(k) /\ GoodPc(worker'[k].pc, worker'[k].tmp, Device)
         /\ \/ loose' = loose
            \/ worker[k].pc = "sent" /\ loose' = loose \cup {<<k, Part(k)>>}
<1>1. worker[k].pc # "none" /\ UNCHANGED <<mode, life>>
  BY DEF Submit, CopyAndReset, CheckEpoch, Write, Initialize, Execute, Confirm, CallFails,
         Retry, CheckRoom, PriorityPrepend
<1>2. \/ loose' = loose
      \/ worker[k].pc = "sent" /\ loose' = loose \cup {<<k, Part(k)>>}
  BY Zenon DEF Submit, CopyAndReset, CheckEpoch, Write, Initialize, Execute, Confirm,
         CallFails, Retry, CheckRoom, PriorityPrepend
<1>3. adder'.pc = adder.pc
  <2>1. adder' = adder \/ RemovePartition(k)
    BY Zenon DEF Submit, CopyAndReset, CheckEpoch, Write, Initialize, Execute, Confirm,
           CallFails, Retry, CheckRoom, PriorityPrepend
  <2>2. adder \in Adding
    BY Zenon DEF TypeInv, AdderInv
  <2>3. CASE RemovePartition(k)
    BY <2>2, <2>3 DEF RemovePartition, Adding
  <2> QED  BY <2>1, <2>3, Zenon
<1>4. worker[k] \in Worker
  BY WorkerFacts, Zenon
<1>5. Goes(k) /\ GoodPc(worker'[k].pc, worker'[k].tmp, Device)
  <2> DEFINE Fine(w) == w \in Worker /\ SetWorker(k, w) /\ GoodPc(w.pc, w.tmp, Device)
  <2>0. ASSUME NEW w, Fine(w)
        PROVE  Goes(k) /\ GoodPc(worker'[k].pc, worker'[k].tmp, Device)
    BY <2>0, GoesTo, Zenon
  <2>1. ASSUME NEW p \in Pc, p = "room" => Device, p \notin {"none", "queued", "epoch"},
               SetWorker(k, [worker[k] EXCEPT !.pc = p])
        PROVE  \E w : Fine(w)
    <3> DEFINE w == [worker[k] EXCEPT !.pc = p]
    <3>1. w \in Worker /\ w.pc = p
      BY <1>4, WorkerAt, Zenon
    <3>2. SetWorker(k, w)
      BY <2>1, Zenon
    <3> HIDE DEF w
    <3>3. Fine(w)
      BY <2>1, <3>1, <3>2, Zenon DEF GoodPc
    <3> QED  BY <3>3, Zenon
  <2>2. ASSUME Ended(k)  PROVE  \E w : Fine(w)
    <3>1. NoWorker.pc # "room"
      BY IdleWorker
    <3> QED  BY <2>2, <3>1, IdleWorker, Zenon DEF Ended, GoodPc
  <2> HIDE DEF Fine
  <2>3. Pc = {"none", "queued", "epoch", "write", "rewrite", "init", "sent", "executed",
              "failed", "room", "prepend"}
    BY Zenon DEF Pc
  <2>4. CASE CheckEpoch(k) \/ PriorityPrepend(k)
    BY <2>0, <2>2, <2>4, Zenon DEF CheckEpoch, PriorityPrepend
  <2>5. CASE Write(k) \/ Initialize(k) \/ Execute(k) \/ CallFails(k) \/ CheckRoom(k)
    <3>1. Ended(k) \/ \E p \in Pc \ {"room", "none", "queued", "epoch"} :
                       SetWorker(k, [worker[k] EXCEPT !.pc = p])
      BY <2>3, <2>5 DEF Write, Initialize, Execute, CallFails, CheckRoom
    <3> QED  BY <2>0, <2>1, <2>2, <3>1
  <2>6. CASE Confirm(k)
    <3> DEFINE v == [worker[k] EXCEPT !.pc = "write", !.at = worker[k].at + Batch]
    <3>1. v \in Worker /\ v.pc = "write"
      <4>1. worker[k].at + Batch \in Nat
        BY <1>4, WorkerFields, ConstFacts
      <4> QED  BY <1>4, <4>1, <2>3, Zenon DEF Worker
    <3>2. Ended(k) \/ SetWorker(k, v)
      BY <2>6, Zenon DEF Confirm
    <3> HIDE DEF v
    <3>3. CASE SetWorker(k, v)
      BY <3>1, <3>3, <2>0 DEF Fine, GoodPc
    <3> QED  BY <2>0, <2>2, <3>2, <3>3, Zenon
  <2>7. CASE Retry(k)
    <3> DEFINE v == [worker[k] EXCEPT !.pc = "write", !.at = 0, !.try = worker[k].try + 1]
    <3>1. v \in Worker /\ v.pc = "write"
      <4>1. worker[k].try + 1 \in Nat /\ 0 \in Nat
        BY <1>4, WorkerFields
      <4> QED  BY <1>4, <4>1, <2>3, Zenon DEF Worker
    <3>2. \/ SetWorker(k, v)
          \/ SetWorker(k, [worker[k] EXCEPT !.pc = IF Device THEN "room" ELSE "prepend"])
      BY <2>7, Zenon DEF Retry
    <3> HIDE DEF v
    <3>3. CASE SetWorker(k, v)
      BY <3>1, <3>3, <2>0 DEF Fine, GoodPc
    <3>4. CASE SetWorker(k, [worker[k] EXCEPT !.pc = IF Device THEN "room" ELSE "prepend"])
      <4>1. \E p \in Pc : /\ p = "room" => Device
                          /\ p \notin {"none", "queued", "epoch"}
                          /\ SetWorker(k, [worker[k] EXCEPT !.pc = p])
        BY <2>3, <3>4
      <4> QED  BY <4>1, <2>0, <2>1, Zenon
    <3> QED  BY <3>2, <3>3, <3>4, Zenon
  <2>8. CASE CopyAndReset(k)
    <3>1. CASE buf[k] \in {None, <<>>}
      <4>1. "epoch" \in Pc /\ "epoch" # "room"
        BY <2>3
      <4> DEFINE w == [NoWorker EXCEPT !.pc = "epoch"]
      <4>2. w \in Worker /\ w.pc = "epoch" /\ w.tmp = <<>>
        BY <4>1, IdleWorker, WorkerAt, Zenon
      <4>3. SetWorker(k, w)
        BY <2>8, <3>1, Zenon DEF CopyAndReset
      <4> HIDE DEF w
      <4> QED  BY <4>1, <4>2, <4>3, <2>0, Zenon DEF Fine, GoodPc
    <3>2. CASE buf[k] \notin {None, <<>>}
      <4> DEFINE w == [pc |-> "write", tmp |-> buf[k], at |-> 0, try |-> 1]
      <4>1. buf[k] \in Seq(Sample)
        <5>1. Buffer(k) \in Seq(Sample) /\ Buffer(k) = buf[k]
          BY <3>2, KeyFacts, Zenon DEF Buffer
        <5> QED  BY <5>1, Zenon
      <4>2. "write" \in Pc /\ "write" \notin {"room", "none", "queued", "epoch"} /\ 0 \in Nat /\ 1 \in Nat
        BY <2>3
      <4>3. w \in Worker /\ w.pc = "write"
        BY <4>1, <4>2, NewWorker, Zenon
      <4>4. SetWorker(k, w)
        BY <2>8, <3>2, Zenon DEF CopyAndReset
      <4> HIDE DEF w
      <4> QED  BY <4>2, <4>3, <4>4, <2>0, Zenon DEF Fine, GoodPc
    <3> QED  BY <3>1, <3>2
  <2> QED  BY <2>4, <2>5, <2>6, <2>7, <2>8, Zenon DEF Submit
<1> QED  BY <1>1, <1>2, <1>3, <1>5, Zenon

LEMMA RefStep ==
  ASSUME TypeInv, RefInv, [Next]_vars
  PROVE  RefInv'
<1>0. Batch \in Nat
  BY ConstFacts
<1>1. CASE \E k \in Key : Submit(k)
  <2>1. PICK k \in Key : Submit(k)
    BY <1>1, Zenon
  <2>2. /\ worker[k].pc # "none" /\ UNCHANGED <<mode, life>> /\ adder'.pc = adder.pc
        /\ Goes(k) /\ GoodPc(worker'[k].pc, worker'[k].tmp, Device)
        /\ \/ loose' = loose
           \/ worker[k].pc = "sent" /\ loose' = loose \cup {<<k, Part(k)>>}
    BY <2>1, SubmitGoes, Zenon
  <2>3. life' # "down"
    BY <2>2, Zenon DEF RefInv
  <2>4. \A j \in Key : GoodPc(worker'[j].pc, worker'[j].tmp, Device')
    BY <2>2, Zenon DEF RefInv, Goes, Device
  <2>5. \A t \in loose' : Len(t[2]) <= Batch
    <3>1. CASE worker[k].pc = "sent" /\ loose' = loose \cup {<<k, Part(k)>>}
      <4>1. worker[k].tmp # <<>>
        <5>1. worker[k].pc \notin {"none", "queued", "epoch"}
          BY <3>1
        <5> QED  BY <5>1, WorkerFacts, Zenon
      <4>2. Len(Part(k)) <= Batch
        BY <4>1, PartFacts, Zenon
      <4>3. <<k, Part(k)>>[2] = Part(k)
        OBVIOUS
      <4> QED  BY <3>1, <4>2, <4>3, Zenon DEF RefInv
    <3> QED  BY <2>2, <3>1, Zenon DEF RefInv
  <2> QED  BY <2>3, <2>4, <2>5, Zenon DEF RefInv
<1>2. CASE Exit \/ Crash
  <2>1. /\ mode' = mode /\ adder' = NoAdder /\ \A k \in Key : worker'[k] = NoWorker
        /\ loose' = loose \cup {<<k, Part(k)>> : k \in {j \in Key : worker[j].pc = "sent"}}
    BY <1>2, Zenon DEF Exit, Crash, Die
  <2>2. /\ NoAdder.pc = "idle" /\ NoWorker.pc = "none" /\ NoWorker.pc # "room"
        /\ NoWorker.tmp = <<>>
    BY IdleWorker DEF NoAdder
  <2>3. \A t \in loose' : Len(t[2]) <= Batch
    <3>1. ASSUME NEW k \in Key, worker[k].pc = "sent"
          PROVE  Len(Part(k)) <= Batch /\ <<k, Part(k)>>[2] = Part(k)
      <4>1. worker[k].tmp # <<>>
        <5>1. worker[k].pc \notin {"none", "queued", "epoch"}
          BY <3>1
        <5> QED  BY <5>1, WorkerFacts, Zenon
      <4>2. Len(Part(k)) <= Batch
        BY <4>1, PartFacts, Zenon
      <4> QED  BY <4>2
    <3> QED  BY <2>1, <3>1, Zenon DEF RefInv
  <2> QED  BY <2>1, <2>2, <2>3, Zenon DEF RefInv, GoodPc
<1>3. CASE Tick
  <2>1. /\ mode' = mode /\ loose' = loose /\ life' # "down"
        /\ \A k \in Key : worker'[k] \in {NoWorker, [NoWorker EXCEPT !.pc = "queued"]}
    BY <1>3 DEF Tick
  <2>2. /\ NoWorker.pc # "room" /\ [NoWorker EXCEPT !.pc = "queued"].pc # "room"
        /\ NoWorker.tmp = <<>> /\ [NoWorker EXCEPT !.pc = "queued"].tmp = <<>>
    BY DEF NoWorker
  <2> QED  BY <2>1, <2>2, Zenon DEF RefInv, GoodPc
<1>4. CASE Measure \/ Adder
  <2>1. UNCHANGED <<mode, life, worker, loose>>
    BY <1>4, Zenon DEF Measure, Adder, LookUp, Add
  <2>2. life # "down"
    BY <1>4 DEF Measure, Adder, LookUp, Add, RefInv
  <2> QED  BY <2>1, <2>2, Zenon DEF RefInv, Device
<1>5. CASE \E t \in loose : Late(t)
  <2>1. UNCHANGED <<mode, life, worker, adder>> /\ loose' \subseteq loose
    BY <1>5, Zenon DEF Late
  <2> QED  BY <2>1, Zenon DEF RefInv, Device
<1>6. CASE EpochEnds \/ Stop \/ Restart \/ UNCHANGED vars
  <2>1. UNCHANGED <<mode, worker, adder, loose>> /\ (life' = "down" => life = "down")
    BY <1>6 DEF EpochEnds, Stop, Restart, vars
  <2> QED  BY <2>1, Zenon DEF RefInv, Device
<1> QED  BY <1>1, <1>2, <1>3, <1>4, <1>5, <1>6, Zenon DEF Next

\* A sample the submitter may give up, according to SampleDelivery.
MayGo(r) == Delivery!MayGo(r)

LEMMA MayGoFacts ==
  ASSUME NEW k \in Key, NEW r, r[1] = k
  PROVE  /\ On(k, r) => MayGo(r)
         /\ Full(k) => MayGo(r)
         /\ k < epoch => MayGo(r)
<1>1. [j \in Key |-> Account(j)][k] = Account(k)
  OBVIOUS
<1>2. On(k, r) => MayGo(r)
  BY <1>1 DEF MayGo, Delivery!MayGo, On, Delivery!Range
<1> QED  BY <1>1, <1>2 DEF MayGo, Delivery!MayGo, Full

LEMMA HeldSample == TypeInv => Held \subseteq Sample
<1> SUFFICES ASSUME TypeInv, NEW r \in Held  PROVE  r \in Sample
  BY Zenon
<1>1. CASE HeldByAdder(r)
  <2>1. adder.pc # "idle"
    BY <1>1 DEF HeldByAdder
  <2> QED  BY <1>1, <2>1, Zenon DEF HeldByAdder, TypeInv, AdderInv
<1>2. ASSUME NEW k \in Key, HeldBy(k, r)  PROVE  r \in Sample
  <2>1. Buffer(k) \in Seq(Sample) /\ worker[k].tmp \in Seq(Sample)
    BY KeyFacts, Zenon
  <2> QED  BY <1>2, <2>1 DEF HeldBy
<1> QED  BY <1>1, <1>2, HeldDef, Zenon DEF HeldMeans

\* A step of the running agent that leaves the accounts alone and keeps what it
\* may not give up.
LEMMA HoldStep ==
  ASSUME TypeInv', life # "down", life' # "down", UNCHANGED <<mode, epoch>>,
         \A j \in Key : Account(j)' = Account(j),
         \A j \in Key : \A r : HeldBy(j, r) => MayGo(r) \/ HeldBy(j, r)' \/ HeldByAdder(r)',
         \A r : HeldByAdder(r) => MayGo(r) \/ HeldByAdder(r)' \/ \E j \in Key : HeldBy(j, r)'
  PROVE  Delivery!Hold
<1>1. HeldMeans' /\ (TypeInv => Held \subseteq Sample)'
  BY HeldDef, HeldSample, PTL
<1>2. Held' \subseteq Sample
  BY <1>1, Zenon
<1>3. \A s \in Held \ Held' : MayGo(s)
  BY <1>1, HeldDef, Zenon DEF HeldMeans
<1>4. [j \in Key |-> Account(j)]' = [j \in Key |-> Account(j)]
  OBVIOUS
<1>5. Device' = Device
  BY Zenon DEF Device
<1> QED  BY <1>2, <1>3, <1>4, <1>5, Zenon DEF Delivery!Hold, MayGo

\* What is held of a partition belongs to it.
LEMMA HeldOfKey ==
  ASSUME TypeInv, NEW k \in Key, NEW r, HeldBy(k, r)
  PROVE  r \in Sample /\ r[1] = k
<1>1. Buffer(k) \in Seq(Of(k)) /\ worker[k].tmp \in Seq(Of(k))
  BY KeyFacts, Zenon
<1>2. r \in Of(k)
  BY <1>1 DEF HeldBy
<1> QED  BY <1>2, PastFacts, Zenon

\* The same for a step of one worker.
LEMMA HoldAt ==
  ASSUME TypeInv', NEW k \in Key, life # "down", UNCHANGED <<mode, life, epoch>>,
         \A j \in Key : Account(j)' = Account(j),
         \A j \in Key \ {k} : Buffer(j)' = Buffer(j) /\ worker'[j] = worker[j],
         \A r : HeldBy(k, r) => MayGo(r) \/ HeldBy(k, r)',
         \A r : HeldByAdder(r) => MayGo(r) \/ HeldByAdder(r)'
  PROVE  Delivery!Hold
<1>1. ASSUME NEW j \in Key, NEW r, HeldBy(j, r)
      PROVE  MayGo(r) \/ HeldBy(j, r)' \/ HeldByAdder(r)'
  <2>1. CASE j = k
    BY <1>1, <2>1, Zenon
  <2>2. CASE j # k
    <3>1. Buffer(j)' = Buffer(j) /\ worker'[j] = worker[j]
      BY <2>2, Zenon
    <3> QED  BY <1>1, <3>1, Zenon DEF HeldBy
  <2> QED  BY <2>1, <2>2, Zenon
<1>2. life' # "down" /\ UNCHANGED <<mode, epoch>>
  BY Zenon
<1>3. \A r : HeldByAdder(r) => MayGo(r) \/ HeldByAdder(r)' \/ \E j \in Key : HeldBy(j, r)'
  BY Zenon
<1>4. \A j \in Key : \A r : HeldBy(j, r) => MayGo(r) \/ HeldBy(j, r)' \/ HeldByAdder(r)'
  BY <1>1, Zenon
<1> QED  BY <1>2, <1>3, <1>4, HoldStep, Zenon

\* The buffers and the accounts of the other partitions are left alone.
LEMMA SubmitFrame ==
  ASSUME TypeInv, RefInv, NEW k \in Key, Submit(k)
  PROVE  /\ life # "down" /\ UNCHANGED <<mode, life, epoch>> /\ worker[k].pc # "none"
         /\ \A j \in Key \ {k} : Buffer(j)' = Buffer(j) /\ worker'[j] = worker[j]
         /\ \A j \in Key \ {k} : Account(j)' = Account(j)
<1>1. worker[k].pc # "none" /\ UNCHANGED <<mode, life>> /\ Goes(k)
  BY SubmitGoes, Zenon
<1>2. epoch' = epoch
  BY Zenon DEF Submit, CopyAndReset, CheckEpoch, Write, Initialize, Execute, Confirm, CallFails,
         Retry, CheckRoom, PriorityPrepend
<1>3. DOMAIN buf = Key /\ DOMAIN chain = Key
  BY Zenon DEF TypeInv
<1>4. \E b : buf' = buf \/ buf' = [buf EXCEPT ![k] = b]
  BY Zenon DEF Submit, CopyAndReset, CheckEpoch, Write, Initialize, Execute, Confirm, CallFails,
         Retry, CheckRoom, PriorityPrepend, RemovePartition
<1>5. \E b : chain' = chain \/ chain' = [chain EXCEPT ![k] = b]
  BY Zenon DEF Submit, CopyAndReset, CheckEpoch, Write, Initialize, Execute, Confirm, CallFails,
         Retry, CheckRoom, PriorityPrepend
<1>6. ASSUME NEW j \in Key \ {k}
      PROVE  buf'[j] = buf[j] /\ chain'[j] = chain[j]
  <2>1. buf'[j] = buf[j]
    BY <1>3, <1>4, Zenon
  <2>2. chain'[j] = chain[j]
    BY <1>3, <1>5, Zenon
  <2> QED  BY <2>1, <2>2
<1>7. life # "down"
  BY <1>1, Zenon DEF RefInv
<1> QED  BY <1>1, <1>2, <1>6, <1>7, Zenon DEF Buffer, Account, Goes

\* The worker keeps what it has in hand.
LEMMA KeepsHold ==
  ASSUME TypeInv, TypeInv', RefInv, NEW k \in Key, Submit(k), UNCHANGED <<adder, buf>>,
         Account(k)' = Account(k),
         \A i \in DOMAIN worker[k].tmp :
            MayGo(worker[k].tmp[i]) \/ worker'[k].tmp = worker[k].tmp
  PROVE  Delivery!Hold
<1>1. /\ life # "down" /\ UNCHANGED <<mode, life, epoch>>
      /\ \A j \in Key \ {k} : Buffer(j)' = Buffer(j) /\ worker'[j] = worker[j]
      /\ \A j \in Key : Account(j)' = Account(j)
  BY SubmitFrame, Zenon
<1>2. Buffer(k)' = Buffer(k)
  BY Zenon DEF Buffer
<1>3. \A r : HeldBy(k, r) => MayGo(r) \/ HeldBy(k, r)'
  BY <1>2, Zenon DEF HeldBy
<1>4. \A r : HeldByAdder(r) => MayGo(r) \/ HeldByAdder(r)'
  BY Zenon DEF HeldByAdder
<1> QED  BY <1>1, <1>3, <1>4, HoldAt, Zenon

\* A worker with nothing in hand may end, one that keeps what it has may go on.
LEMMA StayHold ==
  ASSUME TypeInv, TypeInv', RefInv, NEW k \in Key,
         \/ Initialize(k) \/ CallFails(k) \/ Retry(k)
         \/ Write(k) /\ UNCHANGED <<adder, buf>> /\ worker'[k].tmp = worker[k].tmp
         \/ Confirm(k) /\ worker'[k].tmp = worker[k].tmp
         \/ CheckRoom(k) /\ worker'[k].tmp = worker[k].tmp
  PROVE  Delivery!Hold
<1>1. Submit(k)
  BY Zenon DEF Submit
<1>2. UNCHANGED <<adder, buf>>
  BY Zenon DEF Initialize, CallFails, Retry, Confirm, CheckRoom
<1>3. Account(k)' = Account(k)
  <2>1. chain' = chain \/ chain' = [chain EXCEPT ![k] = Account(k)]
    BY Zenon DEF Initialize, CallFails, Retry, Confirm, CheckRoom, Write
  <2>2. DOMAIN chain = Key /\ Account(k) # None
    <3>1. Account(k) \in Seq(Sample) /\ None \notin Seq(Sample) /\ DOMAIN chain = Key
      BY KeyFacts, SubmitterAssumption, Zenon DEF TypeInv
    <3> QED  BY <3>1, Zenon
  <2>3. chain' = chain => Account(k)' = Account(k)
    BY Zenon DEF Account
  <2>4. chain' = [chain EXCEPT ![k] = Account(k)] => chain'[k] = Account(k)
    BY <2>2, Zenon
  <2>5. chain'[k] = Account(k) => Account(k)' = Account(k)
    BY <2>2, Zenon DEF Account
  <2> QED  BY <2>1, <2>3, <2>4, <2>5, Zenon
<1>4. worker'[k].tmp = worker[k].tmp
  <2>1. worker[k] \in Worker /\ DOMAIN worker = Key
    BY WorkerFacts, Zenon DEF TypeInv
  <2>2. ASSUME NEW p, SetWorker(k, [worker[k] EXCEPT !.pc = p])
        PROVE  worker'[k].tmp = worker[k].tmp
    <3>1. worker'[k] = [worker[k] EXCEPT !.pc = p]
      BY <2>1, <2>2, Zenon DEF SetWorker
    <3> QED  BY <2>1, <3>1 DEF Worker
  <2>3. CASE Initialize(k) \/ CallFails(k)
    BY <2>2, <2>3, Zenon DEF Initialize, CallFails
  <2>4. CASE Retry(k)
    <3> DEFINE v == [worker[k] EXCEPT !.pc = "write", !.at = 0, !.try = worker[k].try + 1]
    <3>1. v.tmp = worker[k].tmp
      BY <2>1 DEF Worker
    <3>2. \/ SetWorker(k, v)
          \/ SetWorker(k, [worker[k] EXCEPT !.pc = IF Device THEN "room" ELSE "prepend"])
      BY <2>4, Zenon DEF Retry
    <3> HIDE DEF v
    <3>3. CASE SetWorker(k, v)
      BY <2>1, <3>1, <3>3, Zenon DEF SetWorker
    <3> QED  BY <2>2, <3>2, <3>3, Zenon
  <2> QED  BY <2>3, <2>4, Zenon
<1> QED  BY <1>1, <1>2, <1>3, <1>4, KeepsHold, Zenon

\* Partition k is removed when whatever is held of it may go.
LEMMA RemovalHold ==
  ASSUME TypeInv, TypeInv', RefInv, NEW k \in Key, Submit(k), RemovePartition(k),
         UNCHANGED chain, \A r : r[1] = k => MayGo(r)
  PROVE  Delivery!Hold
<1>1. /\ life # "down" /\ UNCHANGED <<mode, life, epoch>>
      /\ \A j \in Key \ {k} : Buffer(j)' = Buffer(j) /\ worker'[j] = worker[j]
  BY SubmitFrame, Zenon
<1>2. \A j \in Key : Account(j)' = Account(j)
  BY Zenon DEF Account
<1>3. \A r : HeldBy(k, r) => MayGo(r) \/ HeldBy(k, r)'
  BY HeldOfKey, Zenon
<1>4. \A r : HeldByAdder(r) => MayGo(r) \/ HeldByAdder(r)'
  <2>1. adder.smp[1] = k \/ adder' = adder
    BY Zenon DEF RemovePartition
  <2> QED  BY <2>1, Zenon DEF HeldByAdder
<1> QED  BY <1>1, <1>2, <1>3, <1>4, HoldAt, Zenon

LEMMA CheckEpochHold ==
  ASSUME TypeInv, TypeInv', RefInv, NEW k \in Key, CheckEpoch(k)
  PROVE  Delivery!Hold
<1>1. Submit(k) /\ UNCHANGED chain /\ worker[k].pc = "epoch"
  BY Zenon DEF Submit, CheckEpoch
<1>2. CASE k < epoch /\ RemovePartition(k)
  <2>1. \A r : r[1] = k => MayGo(r)
    BY <1>2, MayGoFacts, Zenon
  <2> QED  BY <1>1, <1>2, <2>1, RemovalHold, Zenon
<1>3. CASE UNCHANGED <<buf, adder>>
  <2>1. worker[k].tmp = <<>>
    BY <1>1 DEF RefInv, GoodPc
  <2>2. \A i \in DOMAIN worker[k].tmp : FALSE
    BY <2>1, Empty, Zenon
  <2>3. Account(k)' = Account(k)
    BY <1>1, Zenon DEF Account
  <2> QED  BY <1>1, <1>3, <2>2, <2>3, KeepsHold, Zenon
<1> QED  BY <1>2, <1>3, Zenon DEF CheckEpoch

LEMMA WriteHold ==
  ASSUME TypeInv, TypeInv', RefInv, NEW k \in Key, Write(k)
  PROVE  Delivery!Hold
<1>0. /\ Submit(k) /\ UNCHANGED chain /\ worker[k].pc \in {"write", "rewrite"}
      /\ worker[k] \in Worker /\ DOMAIN worker = Key
  BY WorkerFacts, Zenon DEF Submit, Write, TypeInv
<1>1. CASE chain[k] # None /\ ~Fits(k, Part(k)) /\ RemovePartition(k)
  <2>1. worker[k].tmp # <<>>
    <3>1. worker[k].pc \notin {"none", "queued", "epoch"}
      BY <1>0
    <3> QED  BY <3>1, WorkerFacts, Zenon
  <2>2. Len(Part(k)) \in Nat /\ Len(Part(k)) <= Batch /\ Account(k) = chain[k]
    BY <1>1, <2>1, PartFacts, Zenon DEF Account
  <2>3. Full(k)
    <3>1. Len(Account(k)) \in Nat
      BY KeyFacts
    <3>2. ~(Len(Account(k)) + Len(Part(k)) <= Room)
      BY <1>1, <2>2, Zenon DEF Fits
    <3> QED  BY <3>1, <3>2, <2>2, ConstFacts DEF Full
  <2>4. \A r : r[1] = k => MayGo(r)
    BY <2>3, MayGoFacts, Zenon
  <2> QED  BY <1>0, <1>1, <2>4, RemovalHold, Zenon
<1>2. CASE UNCHANGED <<buf, adder>> /\ \E p : SetWorker(k, [worker[k] EXCEPT !.pc = p])
  <2>1. worker'[k].tmp = worker[k].tmp
    <3>1. \E p : worker'[k] = [worker[k] EXCEPT !.pc = p]
      BY <1>0, <1>2, Zenon DEF SetWorker
    <3> QED  BY <1>0, <3>1 DEF Worker
  <2> QED  BY <1>2, <2>1, StayHold, Zenon
<1>3. \/ chain[k] # None /\ ~Fits(k, Part(k)) /\ RemovePartition(k)
      \/ UNCHANGED <<buf, adder>> /\ \E p : SetWorker(k, [worker[k] EXCEPT !.pc = p])
  <2>1. CASE chain[k] = None
    <3>1. UNCHANGED <<buf, adder>> /\ \E p \in Pc : SetWorker(k, [worker[k] EXCEPT !.pc = p])
      BY <2>1 DEF Write, Fits, Pc
    <3> QED  BY <3>1, Zenon
  <2>2. CASE chain[k] # None /\ ~Fits(k, Part(k))
    BY <2>2 DEF Write
  <2>3. CASE chain[k] # None /\ Fits(k, Part(k))
    <3>1. UNCHANGED <<buf, adder>> /\ SetWorker(k, [worker[k] EXCEPT !.pc = "sent"])
      BY <2>3 DEF Write
    <3> QED  BY <3>1, Zenon
  <2> QED  BY <2>1, <2>2, <2>3, Zenon
<1> QED  BY <1>1, <1>2, <1>3, Zenon

Has(q, r) == \E i \in DOMAIN q : q[i] = r

LEMMA ConcatRange ==
  ASSUME NEW p \in Seq(Sample), NEW q \in Seq(Sample), NEW r
  PROVE  Has(p \o q, r) <=> Has(p, r) \/ Has(q, r)
<1>1. /\ Len(p) \in Nat /\ Len(q) \in Nat
      /\ DOMAIN p = 1 .. Len(p) /\ DOMAIN q = 1 .. Len(q)
      /\ DOMAIN (p \o q) = 1 .. Len(p) + Len(q)
      /\ \A i \in 1 .. Len(p) : (p \o q)[i] = p[i]
      /\ \A i \in 1 .. Len(q) : (p \o q)[Len(p) + i] = q[i]
      /\ \A i \in Len(p) + 1 .. Len(p) + Len(q) : (p \o q)[i] = q[i - Len(p)]
  BY Concat
<1>2. \A i \in DOMAIN p : i \in DOMAIN (p \o q) /\ (p \o q)[i] = p[i]
  BY <1>1
<1>3. \A i \in DOMAIN q : Len(p) + i \in DOMAIN (p \o q) /\ (p \o q)[Len(p) + i] = q[i]
  BY <1>1
<1>4. \A i \in DOMAIN (p \o q) :
         \/ i \in DOMAIN p /\ (p \o q)[i] = p[i]
         \/ i - Len(p) \in DOMAIN q /\ (p \o q)[i] = q[i - Len(p)]
  BY <1>1
<1> QED  BY <1>2, <1>3, <1>4, Zenon DEF Has

LEMMA CopyAndResetHold ==
  ASSUME TypeInv, TypeInv', RefInv, NEW k \in Key, CopyAndReset(k)
  PROVE  Delivery!Hold
<1>1. /\ Submit(k) /\ UNCHANGED <<chain, adder>> /\ worker[k].pc = "queued"
      /\ DOMAIN worker = Key /\ DOMAIN buf = Key
  BY Zenon DEF Submit, CopyAndReset, TypeInv
<1>2. worker[k].tmp = <<>>
  BY <1>1 DEF RefInv, GoodPc
<1>3. \A i \in DOMAIN worker[k].tmp : FALSE
  BY <1>2, Empty, Zenon
<1>4. CASE UNCHANGED buf
  <2>1. Account(k)' = Account(k)
    BY <1>1, Zenon DEF Account
  <2> QED  BY <1>1, <1>3, <1>4, <2>1, KeepsHold, Zenon
<1>5. CASE /\ SetWorker(k, [pc |-> "write", tmp |-> buf[k], at |-> 0, try |-> 1])
           /\ buf[k] # None
  <2>1. worker'[k].tmp = Buffer(k)
    <3>1. worker'[k] = [pc |-> "write", tmp |-> buf[k], at |-> 0, try |-> 1]
      BY <1>1, <1>5, Zenon DEF SetWorker
    <3> QED  BY <1>5, <3>1 DEF Buffer
  <2>2. \A r : HeldBy(k, r) => MayGo(r) \/ HeldBy(k, r)'
    BY <1>3, <2>1, Zenon DEF HeldBy
  <2>3. \A r : HeldByAdder(r) => MayGo(r) \/ HeldByAdder(r)'
    BY <1>1, Zenon DEF HeldByAdder
  <2>4. /\ life # "down" /\ UNCHANGED <<mode, life, epoch>>
        /\ \A j \in Key \ {k} : Buffer(j)' = Buffer(j) /\ worker'[j] = worker[j]
    BY <1>1, SubmitFrame, Zenon
  <2>5. \A j \in Key : Account(j)' = Account(j)
    BY <1>1, Zenon DEF Account
  <2> QED  BY <2>2, <2>3, <2>4, <2>5, HoldAt, Zenon
<1> QED  BY <1>4, <1>5, Zenon DEF CopyAndReset

LEMMA PriorityPrependHold ==
  ASSUME TypeInv, TypeInv', RefInv, NEW k \in Key, PriorityPrepend(k)
  PROVE  Delivery!Hold
<1>1. /\ Submit(k) /\ UNCHANGED <<chain, adder>> /\ DOMAIN buf = Key
  BY Zenon DEF Submit, PriorityPrepend, TypeInv
<1>2. worker[k].tmp \in Seq(Sample) /\ Buffer(k) \in Seq(Sample)
  BY KeyFacts, Zenon
<1>3. Buffer(k)' = worker[k].tmp \o Buffer(k)
  <2>1. buf'[k] = worker[k].tmp \o Buffer(k)
    BY <1>1, Zenon DEF PriorityPrepend, Buffer
  <2>2. worker[k].tmp \o Buffer(k) \in Seq(Sample)
    BY <1>2, Concat
  <2> QED  BY <2>1, <2>2, SubmitterAssumption, Zenon DEF Buffer
<1>4. ASSUME NEW r, HeldBy(k, r)  PROVE  HeldBy(k, r)'
  <2> DEFINE p == worker[k].tmp
             q == Buffer(k)
  <2>1. p \in Seq(Sample) /\ q \in Seq(Sample) /\ Buffer(k)' = p \o q
    BY <1>2, <1>3, Zenon
  <2>2. Has(p, r) \/ Has(q, r)
    BY <1>4, Zenon DEF HeldBy, Has
  <2> HIDE DEF p, q
  <2>3. Has(p \o q, r)
    BY <2>1, <2>2, ConcatRange, Zenon
  <2> QED  BY <2>1, <2>3, Zenon DEF HeldBy, Has
<1>5. \A r : HeldByAdder(r) => MayGo(r) \/ HeldByAdder(r)'
  BY <1>1, Zenon DEF HeldByAdder
<1>6. /\ life # "down" /\ UNCHANGED <<mode, life, epoch>>
      /\ \A j \in Key \ {k} : Buffer(j)' = Buffer(j) /\ worker'[j] = worker[j]
  BY <1>1, SubmitFrame, Zenon
<1>7. \A j \in Key : Account(j)' = Account(j)
  BY <1>1, Zenon DEF Account
<1> QED  BY <1>4, <1>5, <1>6, <1>7, HoldAt, Zenon

\* The last batch has been executed: what was in hand is on the account, or the
\* account is full.
LEMMA ConfirmHold ==
  ASSUME TypeInv, TypeInv', RefInv, NEW k \in Key, Written(k), Confirm(k)
  PROVE  Delivery!Hold
<1>1. /\ Submit(k) /\ UNCHANGED <<chain, adder, buf>> /\ worker[k].pc = "executed"
      /\ worker[k] \in Worker /\ DOMAIN worker = Key /\ worker[k].tmp \in Seq(Of(k))
  BY WorkerFacts, KeyFacts, Zenon DEF Submit, Confirm, TypeInv
<1>2. CASE worker[k].at + Batch >= Len(worker[k].tmp)
  <2>1. ASSUME NEW i \in DOMAIN worker[k].tmp  PROVE  MayGo(worker[k].tmp[i])
    <3>1. worker[k].at \in Nat /\ i \in 1 .. Len(worker[k].tmp) /\ worker[k].tmp[i] \in Of(k)
      BY <1>1, WorkerFields
    <3>2. i <= Done(worker[k])
      <4>1. Done(worker[k]) = worker[k].at + Batch
        BY <1>1, Zenon DEF Done
      <4> QED  BY <3>1, <4>1, <1>2, <1>1, ConstFacts
    <3>3. On(k, worker[k].tmp[i]) \/ Full(k)
      BY <3>2, Zenon DEF Written, WrittenBy
    <3>4. worker[k].tmp[i][1] = k
      BY <3>1, PastFacts, Zenon
    <3> QED  BY <3>3, <3>4, MayGoFacts, Zenon
  <2>2. Account(k)' = Account(k)
    BY <1>1, Zenon DEF Account
  <2> QED  BY <1>1, <2>1, <2>2, KeepsHold, Zenon
<1>3. CASE ~(worker[k].at + Batch >= Len(worker[k].tmp))
  <2>1. worker'[k] = [worker[k] EXCEPT !.pc = "write", !.at = worker[k].at + Batch]
    BY <1>1, <1>3, Zenon DEF Confirm, SetWorker
  <2>2. worker'[k].tmp = worker[k].tmp
    BY <1>1, <2>1 DEF Worker
  <2> QED  BY <2>2, StayHold, Zenon
<1> QED  BY <1>2, <1>3

-----------------------------------------------------------------------------
(* A device agent that gives samples up holds a full buffer of them *)

LOCAL INSTANCE FiniteSetTheorems

LEMMA SampleFinite == IsFiniteSet(Sample)
<1>1. IsFiniteSet(Key) /\ IsFiniteSet(1 .. MaxSample)
  BY ConstFacts, FS_Interval DEF Key
<1> QED  BY <1>1, FS_Product, Zenon DEF Sample

\* As many samples as an increasing sequence has elements.
LEMMA IncCard ==
  ASSUME NEW q \in Seq(Sample), Inc(q), NEW H \in SUBSET Sample,
         \A i \in DOMAIN q : q[i] \in H
  PROVE  Cardinality(H) \in Nat /\ Len(q) <= Cardinality(H)
<1> DEFINE n == Len(q)
           R == {q[i] : i \in 1 .. n}
           f == [i \in 1 .. n |-> q[i]]
<1>1. n \in Nat /\ DOMAIN q = 1 .. n /\ \A i \in 1 .. n : q[i] \in Sample
  OBVIOUS
<1>2. \A i, j \in 1 .. n : q[i] = q[j] => i = j
  <2> SUFFICES ASSUME NEW i \in 1 .. n, NEW j \in 1 .. n, i # j  PROVE  q[i] # q[j]
    BY Zenon
  <2>1. q[i][2] \in Nat /\ q[j][2] \in Nat
    BY <1>1, SampleFacts
  <2>2. (i < j => q[i][2] < q[j][2]) /\ (j < i => q[j][2] < q[i][2])
    BY <1>1, Zenon DEF Inc
  <2>3. i < j \/ j < i
    BY <1>1
  <2> QED  BY <2>1, <2>2, <2>3
<1>3. f \in Bijection(1 .. n, R)
  <2>1. f \in [1 .. n -> R] /\ \A i \in 1 .. n : f[i] = q[i]
    BY Zenon
  <2> HIDE DEF f
  <2> QED  BY <1>2, <2>1, Zenon DEF Bijection, Injection, Surjection, IsInjective
<1>4. ExistsBijection(1 .. n, R)
  BY <1>3, Zenon DEF ExistsBijection
<1>5. Cardinality(R) = n
  BY <1>1, <1>4, FS_CountingElements, Zenon
<1>6. IsFiniteSet(H) /\ R \in SUBSET H
  <2>1. IsFiniteSet(H)
    BY SampleFinite, FS_Subset, Zenon
  <2>2. R \in SUBSET H
    BY <1>1, Zenon
  <2> QED  BY <2>1, <2>2
<1>7. Cardinality(R) <= Cardinality(H) /\ Cardinality(H) \in Nat
  BY <1>6, FS_Subset, FS_CardinalityType, Zenon
<1> QED  BY <1>5, <1>7, Zenon

LEMMA SameCard == \A S : Delivery!Cardinality(S) = Cardinality(S)
BY Zenon DEF Delivery!Cardinality, Cardinality

LEMMA MayGoCard ==
  ASSUME Device, NEW k \in Key, Cardinality({s \in Held : s[1] = k}) >= Capacity,
         NEW r, r[1] = k
  PROVE  MayGo(r)
BY SameCard, Zenon DEF MayGo, Delivery!MayGo, Delivery!HeldOf

LEMMA CheckRoomHold ==
  ASSUME TypeInv, TypeInv', RefInv, NEW k \in Key, CheckRoom(k)
  PROVE  Delivery!Hold
<1> DEFINE p == worker[k].tmp
           q == Buffer(k)
<1>1. /\ Submit(k) /\ UNCHANGED <<chain, adder, buf>> /\ worker[k].pc = "room"
      /\ worker[k] \in Worker /\ DOMAIN worker = Key
  BY WorkerFacts, Zenon DEF Submit, CheckRoom, TypeInv
<1>2. /\ p \in Seq(Sample) /\ q \in Seq(Sample) /\ Inc(p) /\ Inc(q) /\ Before(p, q)
  BY KeyFacts, Zenon
<1>3. CASE Len(q) + Len(p) >= Capacity
  <2> DEFINE H == {s \in Held : s[1] = k}
  <2>1. ASSUME NEW r, Has(p, r) \/ Has(q, r)  PROVE  r \in H
    <3>1. HeldBy(k, r)
      BY <2>1, Zenon DEF HeldBy, Has
    <3>2. r \in Held
      BY <3>1, HeldDef, Zenon DEF HeldMeans
    <3> QED  BY <3>1, <3>2, HeldOfKey, Zenon
  <2>2. H \in SUBSET Sample
    BY HeldSample, Zenon
  <2> HIDE DEF p, q, H
  <2>3. p \o q \in Seq(Sample) /\ Len(p \o q) >= Capacity
    BY <1>2, <1>3, ConstFacts
  <2>4. Inc(p \o q)
    BY <1>2, ConcatInc, Zenon
  <2>5. ASSUME NEW i \in DOMAIN (p \o q)  PROVE  (p \o q)[i] \in H
    <3>1. Has(p \o q, (p \o q)[i])
      BY Zenon DEF Has
    <3> QED  BY <3>1, <1>2, <2>1, ConcatRange, Zenon
  <2>6. Cardinality(H) \in Nat /\ Len(p \o q) <= Cardinality(H)
    BY <2>2, <2>3, <2>4, <2>5, IncCard, Zenon
  <2>7. Len(p \o q) \in Nat
    BY <2>3
  <2>8. Cardinality(H) >= Capacity
    BY <2>3, <2>6, <2>7, ConstFacts
  <2>9. Device
    BY <1>1, Zenon DEF RefInv, GoodPc
  <2>10. ASSUME NEW i \in DOMAIN worker[k].tmp  PROVE  MayGo(worker[k].tmp[i])
    <3>1. HeldBy(k, worker[k].tmp[i])
      BY Zenon DEF HeldBy
    <3>2. worker[k].tmp[i][1] = k
      BY <3>1, HeldOfKey, Zenon
    <3> QED  BY <2>8, <2>9, <3>2, MayGoCard, Zenon DEF H
  <2>11. Account(k)' = Account(k)
    BY <1>1, Zenon DEF Account
  <2> QED  BY <1>1, <2>10, <2>11, KeepsHold, Zenon
<1>4. CASE ~(Len(q) + Len(p) >= Capacity)
  <2>1. (IF buf[k] = None THEN 0 ELSE Len(buf[k])) = Len(q)
    BY DEF Buffer
  <2>2. SetWorker(k, [worker[k] EXCEPT !.pc = "prepend"])
    BY <1>4, <2>1, Zenon DEF CheckRoom
  <2>3. worker'[k] = [worker[k] EXCEPT !.pc = "prepend"]
    BY <1>1, <2>2, Zenon DEF SetWorker
  <2>4. worker'[k].tmp = worker[k].tmp
    BY <1>1, <2>3 DEF Worker
  <2> QED  BY <2>4, StayHold, Zenon
<1> QED  BY <1>3, <1>4

-----------------------------------------------------------------------------
(* Transactions *)

\* Nothing is held that was not, and nothing goes.
LEMMA HeldSame ==
  ASSUME adder' = adder,
         \A j \in Key : Buffer(j)' = Buffer(j) /\ worker'[j].tmp = worker[j].tmp
  PROVE  Held' = Held
<1>1. HeldMeans'
  BY HeldDef, PTL
<1>2. \A r : HeldByAdder(r)' <=> HeldByAdder(r)
  BY Zenon DEF HeldByAdder
<1>3. \A j \in Key : \A r : HeldBy(j, r)' <=> HeldBy(j, r)
  BY Zenon DEF HeldBy
<1>4. \A r : r \in Held' <=> r \in Held
  BY <1>1, <1>2, <1>3, HeldDef, Zenon DEF HeldMeans
<1> QED  BY <1>4, Zenon

Ledger == [k \in Key |-> Account(k)]

\* A batch lands on the account of partition k.
LEMMA LandRecord ==
  ASSUME TypeInv, NEW k \in Key, NEW b \in Seq(Of(k)), Len(b) <= Batch, Fits(k, b),
         chain' = [chain EXCEPT ![k] = chain[k] \o b], UNCHANGED <<mode, life, epoch>>,
         Held' = Held
  PROVE  Delivery!Record
<1>1. Account(k) = chain[k] /\ DOMAIN chain = Key /\ Len(Account(k)) + Len(b) <= Room
  BY Zenon DEF Fits, Account, TypeInv
<1>2. Account(k) \in Seq(Of(k)) /\ Of(k) \subseteq Sample /\ \A r \in Of(k) : r[1] = k
  BY KeyFacts, PastFacts, Zenon
<1> DEFINE c == Account(k) \o b
<1>3. /\ c \in Seq(Of(k)) /\ Len(c) = Len(Account(k)) + Len(b) /\ Len(b) \in Nat
      /\ Len(Account(k)) \in Nat
  BY <1>2
<1>4. Account(k)' = c
  <2>1. chain'[k] = c
    BY <1>1, Zenon
  <2>2. c \in Seq(Sample)
    BY <1>2, <1>3, SeqOfSub
  <2> QED  BY <2>1, <2>2, SubmitterAssumption, Zenon DEF Account
<1>5. \A j \in Key \ {k} : Account(j)' = Account(j)
  BY <1>1, Zenon DEF Account
<1>6. SubSeq(c, 1, Len(Account(k))) = Account(k)
  BY <1>2
<1>7. \A i \in DOMAIN c : c[i][1] = k
  BY <1>2, <1>3
<1>8. Len(c) \in Len(Account(k)) .. Len(Account(k)) + Batch /\ Len(c) <= Room
  BY <1>1, <1>3, ConstFacts
<1> HIDE DEF c
<1>9. /\ DOMAIN Ledger = Key /\ DOMAIN Ledger' = Key
      /\ \A j \in Key : Ledger[j] = Account(j) /\ Ledger'[j] = Account(j)'
  BY Zenon DEF Ledger
<1>10. Device' = Device
  BY Zenon DEF Device
<1>11. /\ \A j \in DOMAIN Ledger \ {k} : Ledger'[j] = Ledger[j]
       /\ Len(Ledger'[k]) \in Len(Ledger[k]) .. Len(Ledger[k]) + Batch /\ Len(Ledger'[k]) <= Room
       /\ SubSeq(Ledger'[k], 1, Len(Ledger[k])) = Ledger[k]
       /\ \A i \in DOMAIN Ledger'[k] : Ledger'[k][i][1] = k
  BY <1>4, <1>5, <1>6, <1>7, <1>8, <1>9, Zenon
<1> QED  BY <1>9, <1>10, <1>11, Zenon DEF Delivery!Record, Ledger

\* The agent does nothing that SampleDelivery sees.
LEMMA Stutter ==
  ASSUME (life' = "down") <=> (life = "down"), UNCHANGED <<mode, epoch, chain>>, Held' = Held
  PROVE  UNCHANGED Delivery!vars
<1>1. Ledger' = Ledger
  <2>1. \A j \in Key : Account(j)' = Account(j)
    BY Zenon DEF Account
  <2> QED  BY <2>1, Zenon DEF Ledger
<1>2. Device' = Device /\ (life' # "down") = (life # "down")
  BY Zenon DEF Device
<1> QED  BY <1>1, <1>2, Zenon DEF Delivery!vars, Ledger

LEMMA ExecuteLands ==
  ASSUME TypeInv, NEW k \in Key, Execute(k)
  PROVE  Delivery!Record \/ UNCHANGED Delivery!vars
<1>1. /\ UNCHANGED <<mode, life, epoch, adder, buf>> /\ worker[k].pc = "sent"
      /\ worker[k] \in Worker /\ DOMAIN worker = Key
  BY WorkerFacts, Zenon DEF Execute, TypeInv
<1>2. Held' = Held
  <2>1. worker' = [worker EXCEPT ![k] = [worker[k] EXCEPT !.pc = "executed"]]
    BY Zenon DEF Execute, SetWorker
  <2>2. [worker[k] EXCEPT !.pc = "executed"].tmp = worker[k].tmp
    BY <1>1 DEF Worker
  <2>3. \A j \in Key : worker'[j].tmp = worker[j].tmp
    BY <1>1, <2>1, <2>2, Zenon
  <2>4. \A j \in Key : Buffer(j)' = Buffer(j)
    BY <1>1, Zenon DEF Buffer
  <2> QED  BY <1>1, <2>3, <2>4, HeldSame, Zenon
<1>3. CASE Fits(k, Part(k))
  <2>1. worker[k].tmp # <<>>
    <3>1. worker[k].pc \notin {"none", "queued", "epoch"}
      BY <1>1
    <3> QED  BY <3>1, WorkerFacts, Zenon
  <2>2. Part(k) \in Seq(Of(k)) /\ Len(Part(k)) <= Batch
    BY <2>1, PartFacts, Zenon
  <2>3. chain' = [chain EXCEPT ![k] = chain[k] \o Part(k)]
    BY <1>3, Zenon DEF Execute
  <2> QED  BY <1>1, <1>2, <1>3, <2>2, <2>3, LandRecord, Zenon
<1>4. CASE ~Fits(k, Part(k))
  <2>1. chain' = chain
    BY <1>4, Zenon DEF Execute
  <2> QED  BY <1>1, <1>2, <2>1, Stutter, Zenon
<1> QED  BY <1>3, <1>4, Zenon

LEMMA LateLands ==
  ASSUME TypeInv, RefInv, NEW t \in loose, Late(t)
  PROVE  Delivery!Record \/ UNCHANGED Delivery!vars
<1>1. UNCHANGED <<mode, life, epoch, adder, buf, worker>>
  BY Zenon DEF Late
<1>2. Held' = Held
  <2>1. \A j \in Key : Buffer(j)' = Buffer(j) /\ worker'[j].tmp = worker[j].tmp
    BY <1>1, Zenon DEF Buffer
  <2> QED  BY <1>1, <2>1, HeldSame, Zenon
<1>3. CASE Fits(t[1], t[2]) /\ chain' = [chain EXCEPT ![t[1]] = chain[t[1]] \o t[2]]
  <2>1. t[1] \in Key /\ t[2] \in Seq(Of(t[1])) /\ Len(t[2]) <= Batch
    BY Zenon DEF TypeInv, RefInv
  <2> QED  BY <1>1, <1>2, <1>3, <2>1, LandRecord, Zenon
<1>4. CASE chain' = chain
  BY <1>1, <1>2, <1>4, Stutter, Zenon
<1> QED  BY <1>3, <1>4, Zenon DEF Late

-----------------------------------------------------------------------------
(* The other steps *)

LEMMA TickStutters ==
  ASSUME TypeInv, RefInv, Tick
  PROVE  UNCHANGED Delivery!vars
<1>1. UNCHANGED <<mode, epoch, adder, buf, chain>> /\ life # "down" /\ life' # "down"
  BY DEF Tick
<1>2. \A j \in Key : worker'[j].tmp = worker[j].tmp
  <2>1. \A j \in Key : /\ worker[j] = NoWorker
                       /\ worker'[j] \in {NoWorker, [NoWorker EXCEPT !.pc = "queued"]}
    BY DEF Tick
  <2>2. [NoWorker EXCEPT !.pc = "queued"].tmp = NoWorker.tmp
    BY DEF NoWorker
  <2> QED  BY <2>1, <2>2, Zenon
<1>3. \A j \in Key : Buffer(j)' = Buffer(j)
  BY <1>1, Zenon DEF Buffer
<1>4. Held' = Held
  BY <1>1, <1>2, <1>3, HeldSame, Zenon
<1> QED  BY <1>1, <1>4, Stutter, Zenon

\* Measuring, looking the partition up and adding only adds to what is held.
LEMMA AdderHolds ==
  ASSUME TypeInv, TypeInv', RefInv, Measure \/ LookUp \/ Add
  PROVE  Delivery!Hold
<1>1. /\ UNCHANGED <<mode, life, epoch, worker, chain>> /\ life # "down"
      /\ DOMAIN buf = Key /\ adder \in Adding
  BY DEF Measure, LookUp, Add, RefInv, TypeInv, AdderInv
<1>2. \A j \in Key : Account(j)' = Account(j)
  BY <1>1, Zenon DEF Account
<1> DEFINE Grows ==
      \A j \in Key : \A r : Has(Buffer(j), r) => Has(Buffer(j)', r)
    Given ==
      \A r : HeldByAdder(r) => HeldByAdder(r)' \/ \E j \in Key : Has(Buffer(j)', r)
<1>3. CASE Grows /\ Given
  <2>1. \A j \in Key : \A r : HeldBy(j, r) => MayGo(r) \/ HeldBy(j, r)' \/ HeldByAdder(r)'
    BY <1>1, <1>3, Zenon DEF HeldBy, Has
  <2>2. \A r : HeldByAdder(r) => MayGo(r) \/ HeldByAdder(r)' \/ \E j \in Key : HeldBy(j, r)'
    BY <1>3, Zenon DEF HeldBy, Has
  <2>3. life # "down" /\ life' # "down" /\ UNCHANGED <<mode, epoch>>
    BY <1>1, Zenon
  <2> QED  BY <1>2, <2>1, <2>2, <2>3, HoldStep, Zenon
<1>4. CASE Measure
  <2>1. adder.pc # "adding" /\ UNCHANGED buf
    BY <1>4 DEF Measure
  <2>2. Grows /\ Given
    BY <2>1, Zenon DEF HeldByAdder, Buffer
  <2> QED  BY <1>3, <2>2, Zenon
<1>5. CASE LookUp
  <2>1. adder.pc # "adding"
    BY <1>5 DEF LookUp
  <2>2. \A j \in Key : Buffer(j)' = Buffer(j)
    <3>1. buf' = [buf EXCEPT ![adder.smp[1]] = IF @ = None THEN <<>> ELSE @]
      BY <1>5, Zenon DEF LookUp
    <3>2. \A j \in Key : buf'[j] = buf[j] \/ (buf[j] = None /\ buf'[j] = <<>>)
      BY <1>1, <3>1
    <3> QED  BY <3>2, Zenon DEF Buffer
  <2>3. Grows /\ Given
    BY <2>1, <2>2, Zenon DEF HeldByAdder
  <2> QED  BY <1>3, <2>3, Zenon
<1>6. CASE Add
  <2> DEFINE k == adder.smp[1]
  <2>1. CASE adder.into # "map"
    <3>1. UNCHANGED buf
      BY <1>6, <2>1, Zenon DEF Add
    <3>2. Grows /\ Given
      BY <2>1, <3>1, Zenon DEF HeldByAdder, Buffer
    <3> QED  BY <1>3, <3>2, Zenon
  <2>2. CASE adder.into = "map"
    <3>1. /\ adder.pc = "adding" /\ adder.smp \in Sample /\ buf[k] # None
          /\ buf' = [buf EXCEPT ![k] = Append(buf[k], adder.smp)]
      BY <1>6, <2>2 DEF Add, TypeInv, AdderInv
    <3>2. PICK m \in Key : m = k
      BY <3>1, SampleFacts
    <3>3. Buffer(m) = buf[m] /\ Buffer(m) \in Seq(Sample)
      BY <3>1, <3>2, KeyFacts, Zenon DEF Buffer
    <3>4. PICK q : q = Buffer(m)
      BY Zenon
    <3>5. /\ Append(q, adder.smp) \in Seq(Sample) /\ Has(Append(q, adder.smp), adder.smp)
          /\ \A r : Has(q, r) => Has(Append(q, adder.smp), r)
      <4>1. q \in Seq(Sample) /\ adder.smp \in Sample
        BY <3>1, <3>3, <3>4, Zenon
      <4>2. /\ Append(q, adder.smp) \in Seq(Sample)
            /\ Len(q) + 1 \in DOMAIN Append(q, adder.smp)
            /\ Append(q, adder.smp)[Len(q) + 1] = adder.smp
            /\ \A i \in DOMAIN q : /\ i \in DOMAIN Append(q, adder.smp)
                                   /\ Append(q, adder.smp)[i] = q[i]
        BY <4>1
      <4> QED  BY <4>2, Zenon DEF Has
    <3>6. Buffer(m)' = Append(q, adder.smp)
      <4>1. buf'[m] = Append(q, adder.smp)
        BY <1>1, <3>1, <3>2, <3>3, <3>4, Zenon
      <4> QED  BY <4>1, <3>5, SubmitterAssumption, Zenon DEF Buffer
    <3>7. \A j \in Key \ {m} : Buffer(j)' = Buffer(j)
      BY <1>1, <3>1, <3>2, Zenon DEF Buffer
    <3>8. Grows /\ Given
      <4>1. Grows
        BY <3>4, <3>5, <3>6, <3>7, Zenon
      <4>2. Given
        BY <3>5, <3>6, Zenon DEF HeldByAdder
      <4> QED  BY <4>1, <4>2
    <3> QED  BY <1>3, <3>8, Zenon
  <2> QED  BY <2>1, <2>2, Zenon
<1> QED  BY <1>4, <1>5, <1>6, Zenon

LEMMA DieLoses ==
  ASSUME TypeInv, Die
  PROVE  Delivery!Die
<1>1. /\ UNCHANGED <<mode, epoch, chain>> /\ life' = "down" /\ adder' = NoAdder
      /\ \A k \in Key : buf'[k] = None /\ worker'[k] = NoWorker
  BY Zenon DEF Die
<1>2. Held' = {}
  <2>0. HeldMeans'
    BY HeldDef, PTL
  <2>1. NoAdder.pc # "adding"
    BY DEF NoAdder
  <2>2. \A k \in Key : Buffer(k)' = <<>> /\ worker'[k].tmp = <<>>
    BY <1>1, IdleWorker, Zenon DEF Buffer
  <2>3. \A k \in Key : \A r : ~HeldBy(k, r)'
    BY <2>2, Empty, Zenon DEF HeldBy
  <2>4. \A r : ~HeldByAdder(r)'
    BY <1>1, <2>1, Zenon DEF HeldByAdder
  <2>5. \A r : r \notin Held'
    BY <2>0, <2>3, <2>4, Zenon DEF HeldMeans
  <2> QED  BY <2>5, Zenon
<1>3. Ledger' = Ledger /\ Device' = Device
  <2>1. \A j \in Key : Account(j)' = Account(j)
    BY <1>1, Zenon DEF Account
  <2> QED  BY <1>1, <2>1, Zenon DEF Ledger, Device
<1> QED  BY <1>1, <1>2, <1>3, Zenon DEF Delivery!Die, Ledger

LEMMA NextDelivers ==
  ASSUME IInv, IInv', RefInv, [Next]_vars
  PROVE  [Delivery!Next]_(Delivery!vars)
<1>0. TypeInv /\ TypeInv' /\ \A k \in Key : Written(k)
  BY Zenon DEF IInv, OrderKept
<1>1. CASE Measure \/ Adder
  <2>1. Delivery!Hold
    BY <1>0, <1>1, AdderHolds, Zenon DEF Adder
  <2> QED  BY <2>1, Zenon DEF Delivery!Next
<1>2. CASE Tick
  BY <1>0, <1>2, TickStutters, Zenon
<1>3. CASE \E k \in Key : Submit(k)
  <2>1. PICK k \in Key : Submit(k)
    BY <1>3, Zenon
  <2>2. Delivery!Hold \/ Delivery!Record \/ UNCHANGED Delivery!vars
    <3>1. CASE CopyAndReset(k) \/ CheckEpoch(k) \/ Write(k) \/ Confirm(k)
      BY <1>0, <3>1, CopyAndResetHold, CheckEpochHold, WriteHold, ConfirmHold, Zenon
    <3>2. CASE Initialize(k) \/ CallFails(k) \/ Retry(k)
      BY <1>0, <3>2, StayHold, Zenon
    <3>3. CASE CheckRoom(k) \/ PriorityPrepend(k)
      BY <1>0, <3>3, CheckRoomHold, PriorityPrependHold, Zenon
    <3>4. CASE Execute(k)
      BY <1>0, <3>4, ExecuteLands, Zenon
    <3> QED  BY <2>1, <3>1, <3>2, <3>3, <3>4, Zenon DEF Submit
  <2> QED  BY <2>2, Zenon DEF Delivery!Next
<1>4. CASE \E t \in loose : Late(t)
  <2>1. Delivery!Record \/ UNCHANGED Delivery!vars
    BY <1>0, <1>4, LateLands, Zenon
  <2> QED  BY <2>1, Zenon DEF Delivery!Next
<1>5. CASE Exit \/ Crash
  <2>1. Delivery!Die
    BY <1>0, <1>5, DieLoses, Zenon DEF Exit, Crash
  <2> QED  BY <2>1, Zenon DEF Delivery!Next
<1>6. CASE EpochEnds \/ Stop \/ Restart \/ UNCHANGED vars
  <2>1. UNCHANGED <<mode, adder, buf, worker, chain>>
    BY <1>6, Zenon DEF EpochEnds, Stop, Restart, vars
  <2>2. Held' = Held
    <3>1. \A j \in Key : Buffer(j)' = Buffer(j) /\ worker'[j].tmp = worker[j].tmp
      BY <2>1, Zenon DEF Buffer
    <3> QED  BY <2>1, <3>1, HeldSame, Zenon
  <2>3. Ledger' = Ledger /\ Device' = Device
    <3>1. \A j \in Key : Account(j)' = Account(j)
      BY <2>1, Zenon DEF Account
    <3> QED  BY <2>1, <3>1, Zenon DEF Ledger, Device
  <2>4. CASE EpochEnds
    <3>1. epoch' = epoch + 1 /\ life' = life
      BY <2>4, Zenon DEF EpochEnds
    <3>2. Delivery!EpochEnds
      BY <3>1, <2>2, <2>3, Zenon DEF Delivery!EpochEnds, Ledger
    <3> QED  BY <3>2, Zenon DEF Delivery!Next
  <2>5. CASE Restart
    <3>1. epoch' = epoch /\ life = "down" /\ life' # "down"
      BY <2>5 DEF Restart
    <3>2. Delivery!Revive
      BY <3>1, <2>2, <2>3, Zenon DEF Delivery!Revive, Ledger
    <3> QED  BY <3>2, Zenon DEF Delivery!Next
  <2>6. CASE Stop \/ UNCHANGED vars
    <3>1. epoch' = epoch /\ ((life' = "down") <=> (life = "down"))
      BY <2>6 DEF Stop, vars
    <3> QED  BY <3>1, <2>1, <2>2, Stutter, Zenon
  <2> QED  BY <1>6, <2>4, <2>5, <2>6, Zenon
<1> QED  BY <1>1, <1>2, <1>3, <1>4, <1>5, <1>6, Zenon DEF Next

LEMMA InitDelivers == Init => RefInv /\ Delivery!Init
<1> SUFFICES ASSUME Init  PROVE  RefInv /\ Delivery!Init
  OBVIOUS
<1>1. /\ life = "up" /\ epoch = 1 /\ adder = NoAdder /\ loose = {}
      /\ \A k \in Key : buf[k] = None /\ worker[k] = NoWorker /\ chain[k] = None
  BY Zenon DEF Init
<1>2. NoAdder.pc # "adding" /\ NoWorker.pc # "room" /\ life # "down"
  BY <1>1, IdleWorker DEF NoAdder
<1>3. RefInv
  BY <1>1, <1>2, IdleWorker, Zenon DEF RefInv, GoodPc
<1>4. \A k \in Key : Buffer(k) = <<>> /\ worker[k].tmp = <<>> /\ Account(k) = <<>>
  BY <1>1, IdleWorker, Zenon DEF Buffer, Account
<1>5. Held = {}
  <2>1. \A k \in Key : \A r : ~HeldBy(k, r)
    BY <1>4, Empty, Zenon DEF HeldBy
  <2>2. \A r : ~HeldByAdder(r)
    BY <1>1, <1>2, Zenon DEF HeldByAdder
  <2> QED  BY <2>1, <2>2, HeldDef, Zenon DEF HeldMeans
<1>6. \A k \in DOMAIN Ledger : Ledger[k] = <<>>
  BY <1>4, Zenon DEF Ledger
<1>7. Device \in BOOLEAN
  BY DEF Device
<1>8. Delivery!Init
  BY <1>1, <1>2, <1>5, <1>6, <1>7 DEF Delivery!Init, Ledger
<1> QED  BY <1>3, <1>8

\* The submitter implements the safety part of SampleDelivery (DeliversSamples,
\* without AllReleased): a sample leaves the agent's hands only once it is on its
\* account, or its account is full, its epoch is over, or a device agent holds a
\* full buffer of its partition, or the agent dies; accounts only grow, by at
\* most a batch of their own samples at a time (submitter.go: SubmitSamples and
\* Tick; buffer/partitioned.go: Remove; write_device_latency_samples.rs).
THEOREM SubmitterImplementsDelivery == Spec => Delivery!Safety
<1>1. IInv /\ RefInv /\ [Next]_vars => RefInv'
  BY RefStep, Zenon DEF IInv
<1>2. Spec => []RefInv
  BY <1>1, InitDelivers, SubmitterInvariant, PTL DEF Spec
<1>3. IInv /\ IInv' /\ RefInv /\ [Next]_vars => [Delivery!Next]_(Delivery!vars)
  BY NextDelivers, Zenon
<1> QED  BY <1>2, <1>3, InitDelivers, SubmitterInvariant, PTL DEF Spec, Delivery!Safety
=============================================================================
