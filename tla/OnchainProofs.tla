---------------------------- MODULE OnchainProofs ----------------------------
(***************************************************************************)
(* Proofs about what is kept on the ledger: the ids and addresses handed   *)
(* out by the resource extensions (Allocator), and the BGP statuses the    *)
(* telemetry agent reports (BgpStatus).                                    *)
(*                                                                         *)
(* The allocators, for every size of range, word and byte: what they hand  *)
(* out was free, they lose nothing, and they report exhaustion only when   *)
(* nothing is left.  The last is about the hint: a scan does not read the  *)
(* words before it, and deallocating an id moves it forward as well as     *)
(* back, so free ids may lie behind it.  They are not lost as long as the  *)
(* word at the hint is never full.                                         *)
(*                                                                         *)
(* The statuses, for any users, queue, retries, grace period and bounds on *)
(* changes and faults: a pending flag always has a task behind it          *)
(* (PendingHasTask), and what the submitter believes it wrote is on the    *)
(* ledger (BeliefIsOnchain).  The second needs that nothing given up on    *)
(* can still land, and that a write the worker is about to report is not   *)
(* undone.                                                                 *)
(***************************************************************************)
EXTENDS Allocator, BgpStatus, FiniteSetTheorems, SequenceTheorems, WellFoundedInduction, TLAPS

-----------------------------------------------------------------------------
(* The allocators *)

Below == {ss \in Nat \X Nat : ss[1] < ss[2]}

\* The order of the naturals is well founded.
LEMMA BelowWellFounded == IsWellFoundedOn(Below, Nat)
  BY NatLessThanWellFounded, Zenon DEF OpToRel, Below

\* A nonempty set of naturals has a least element, and Min is it.
LEMMA MinIsLeast ==
  ASSUME NEW S \in SUBSET Nat, S # {}
  PROVE  Min(S) \in S /\ \A y \in S : Min(S) <= y
<1>1. PICK x \in S : \A y \in S : ~(<<y, x>> \in Below)
  BY WFMin, BelowWellFounded
<1>2. \A y \in S : x <= y
  <2> SUFFICES ASSUME NEW y \in S, ~(x <= y) PROVE FALSE
    OBVIOUS
  <2>1. x \in Nat /\ y \in Nat /\ y < x
    OBVIOUS
  <2>2. <<y, x>> \in Nat \X Nat /\ <<y, x>>[1] < <<y, x>>[2]
    BY <2>1
  <2>3. <<y, x>> \in Below
    BY <2>2, Zenon DEF Below
  <2> QED BY <1>1, <2>3
<1> QED BY <1>2 DEF Min

\* Division finds the unit an offset lies in.
LEMMA UnitOf ==
  ASSUME NEW o \in Nat, NEW b \in Nat \ {0}
  PROVE  o \div b \in Nat /\ o \in Unit(o \div b, b)
<1>1. o \div b \in Nat /\ (o \div b) * b <= o /\ o < (o \div b) * b + b
  OBVIOUS
<1> QED BY <1>1 DEF Unit

\* Multiples of b are b apart.
LEMMA Multiples ==
  ASSUME NEW x \in Int, NEW y \in Int, NEW b \in Nat \ {0}, x * b < y * b + b
  PROVE  x <= y /\ x * b <= y * b
<1>1. (y + 1) * b = y * b + b
  OBVIOUS
<1>2. x < y + 1
  <2> SUFFICES ASSUME x >= y + 1 PROVE FALSE
    OBVIOUS
  <2>1. x * b >= (y + 1) * b
    OBVIOUS
  <2> QED BY <1>1, <2>1
<1> QED BY <1>2

\* A unit that starts below a multiple of its length ends below it.
LEMMA UnitWithin ==
  ASSUME NEW w \in Nat, NEW n \in Nat, NEW b \in Nat \ {0}, n % b = 0, w * b < n
  PROVE  w * b + b <= n
<1>1. n = (n \div b) * b /\ n \div b \in Nat
  OBVIOUS
<1>2. w < n \div b
  <2> SUFFICES ASSUME w >= n \div b PROVE FALSE
    BY <1>1
  <2>1. w * b >= (n \div b) * b
    BY <1>1
  <2> QED BY <1>1, <2>1
<1>3. (w + 1) * b <= (n \div b) * b
  BY <1>1, <1>2
<1> QED BY <1>1, <1>3

\* The byte of a bit lies within the word of that bit.
LEMMA ByteInWord ==
  ASSUME NEW o \in Nat
  PROVE  Unit(o \div ByteBits, ByteBits) \subseteq Unit(o \div WordBits, WordBits)
<1> DEFINE k == WordBits \div ByteBits
           p == o \div ByteBits
           w == o \div WordBits
<1>0. WordBits \in Nat \ {0} /\ ByteBits \in Nat \ {0} /\ WordBits % ByteBits = 0
  BY BitsAssumption
<1>1. k \in Nat /\ WordBits = k * ByteBits
  BY <1>0
<1>2. p \in Nat /\ w \in Nat /\ o \in Unit(p, ByteBits) /\ o \in Unit(w, WordBits)
  BY <1>0, UnitOf
<1>3. p * ByteBits <= o /\ o < p * ByteBits + ByteBits /\ w * WordBits <= o /\ o < w * WordBits + WordBits
  BY <1>0, <1>2 DEF Unit
<1> HIDE DEF k, p, w
<1>4. w * WordBits = (w * k) * ByteBits /\ w * k \in Nat
  BY <1>0, <1>1, <1>2
<1>5. (w * k) * ByteBits <= p * ByteBits
  <2>1. (w * k) * ByteBits < p * ByteBits + ByteBits
    BY <1>0, <1>2, <1>3, <1>4
  <2> QED BY <1>0, <1>2, <1>4, <2>1, Multiples
<1>6. w * WordBits + WordBits = (w * k + k) * ByteBits
  BY <1>0, <1>1, <1>2, <1>4
<1>7. p * ByteBits + ByteBits <= w * WordBits + WordBits
  <2>1. p * ByteBits < (w * k + k) * ByteBits
    BY <1>0, <1>2, <1>3, <1>6
  <2>2. (w * k + k) * ByteBits = (w * k + k - 1) * ByteBits + ByteBits /\ w * k + k - 1 \in Int
    BY <1>0, <1>1, <1>4
  <2>3. p * ByteBits <= (w * k + k - 1) * ByteBits
    BY <1>0, <1>2, <2>1, <2>2, Multiples
  <2> QED BY <1>0, <1>2, <1>6, <2>2, <2>3
<1>8. Unit(p, ByteBits) \subseteq Unit(w, WordBits)
  BY <1>0, <1>2, <1>4, <1>5, <1>7 DEF Unit
<1> QED BY <1>8 DEF p, w

-----------------------------------------------------------------------------
(* Ids.                                                                    *)

IdPool(a) ==
  /\ a \in [base : Int, size : Nat, used : SUBSET Nat, hint : Nat]
  /\ a.used \subseteq 0 .. a.size - 1

\* The range is one of whole words, and the word at the hint is not full.
IdSound(a) ==
  /\ IdPool(a)
  /\ a.size % WordBits = 0
  /\ a.hint = 0 \/ (a.hint * WordBits < a.size /\ ~Full(a, a.hint, WordBits))

\* allocate reports exhaustion only when every id of the range is in use.
THEOREM IdNeverFalselyExhausted ==
  ASSUME NEW a, IdSound(a), a.used # 0 .. a.size - 1
  PROVE  IdFree(a) # {}
<1>0. WordBits \in Nat \ {0} /\ a.size \in Nat /\ a.hint \in Nat /\ a.used \subseteq 0 .. a.size - 1
  BY BitsAssumption DEF IdSound, IdPool
<1>1. CASE a.hint = 0
  <2>1. PICK o \in 0 .. a.size - 1 : o \notin a.used
    BY <1>0
  <2>2. a.hint * WordBits = 0
    BY <1>0, <1>1
  <2> QED BY <2>1, <2>2 DEF IdFree
<1>2. CASE a.hint * WordBits < a.size /\ ~Full(a, a.hint, WordBits)
  <2>1. PICK o \in Unit(a.hint, WordBits) : o \notin a.used
    BY <1>2 DEF Full
  <2>2. a.hint * WordBits + WordBits <= a.size
    BY <1>0, <1>2, UnitWithin DEF IdSound
  <2>3. o \in a.hint * WordBits .. a.size - 1
    BY <1>0, <2>2 DEF Unit
  <2> QED BY <2>1, <2>3 DEF IdFree
<1> QED BY <1>1, <1>2 DEF IdSound

\* The id handed out is one of the range that was not in use.
LEMMA IdFreeMin ==
  ASSUME NEW a, IdPool(a), IdFree(a) # {}
  PROVE  Min(IdFree(a)) \in (0 .. a.size - 1) \ a.used
<1>1. IdFree(a) \in SUBSET Nat /\ IdFree(a) \subseteq (0 .. a.size - 1) \ a.used
  <2>1. a.hint * WordBits \in Nat /\ a.size \in Nat
    BY BitsAssumption DEF IdPool
  <2> QED BY <2>1 DEF IdFree
<1> QED BY <1>1, MinIsLeast

\* allocate takes one free id, and the hint never rests on a full word.
THEOREM IdAllocateSound ==
  ASSUME NEW a, IdSound(a), IdFree(a) # {}
  PROVE  /\ IdSound(IdAllocate(a))
         /\ NextId(a) \notin Held(a)
         /\ IdAllocate(a).used = a.used \cup {NextId(a) - a.base}
<1> DEFINE o == Min(IdFree(a))
           w == o \div WordBits
           b == [a EXCEPT !.used = @ \cup {o}]
           h == IF Full(b, w, WordBits) THEN 0 ELSE w
           c == [b EXCEPT !.hint = h]
<1>0. /\ WordBits \in Nat \ {0} /\ IdPool(a) /\ a.size % WordBits = 0
      /\ a \in [base : Int, size : Nat, used : SUBSET Nat, hint : Nat]
      /\ a.used \subseteq 0 .. a.size - 1
  BY BitsAssumption DEF IdSound, IdPool
<1>1. o \in (0 .. a.size - 1) \ a.used
  BY <1>0, IdFreeMin
<1>2. c = IdAllocate(a)
  BY DEF IdAllocate
<1>2a. NextId(a) = a.base + o
  BY DEF NextId
<1> HIDE DEF o
<1>3. o \in Nat /\ w \in Nat /\ o \in Unit(w, WordBits)
  BY <1>0, <1>1, UnitOf
<1>4. w * WordBits < a.size
  BY <1>0, <1>1, <1>3 DEF Unit
<1> HIDE DEF w
<1>5. h \in Nat
  BY <1>3
<1>6. c.used = a.used \cup {o} /\ c.size = a.size /\ c.base = a.base /\ c.hint = h /\ b.used = a.used \cup {o}
  BY <1>0, <1>5
<1>7. c \in [base : Int, size : Nat, used : SUBSET Nat, hint : Nat]
  <2>1. b \in [base : Int, size : Nat, used : SUBSET Nat, hint : Nat]
    BY <1>0, <1>3
  <2> HIDE DEF b, h
  <2> QED BY <1>5, <2>1
<1>8. IdPool(c)
  BY <1>0, <1>1, <1>6, <1>7 DEF IdPool
<1>9. c.hint = 0 \/ (c.hint * WordBits < c.size /\ ~Full(c, c.hint, WordBits))
  BY <1>4, <1>6 DEF Full
<1>10. IdSound(c)
  BY <1>0, <1>6, <1>8, <1>9 DEF IdSound
<1>11. a.base + o \notin Held(a)
  BY <1>0, <1>1 DEF Held
<1>12. NextId(a) - a.base = o
  <2>1. a.base \in Int
    BY <1>0
  <2> QED BY <1>3, <1>2a, <2>1
<1> HIDE DEF c
<1>13. c.used = a.used \cup {NextId(a) - a.base}
  BY <1>6, <1>12, Zenon
<1>14. IdSound(IdAllocate(a)) /\ IdAllocate(a).used = a.used \cup {NextId(a) - a.base}
  BY <1>2, <1>10, <1>13, Zenon
<1> QED BY <1>2a, <1>11, <1>14, Zenon

\* allocate_specific: it looks at a byte only, but a word cannot fill up unless one of
\* its bytes does.
THEOREM IdAllocateSpecificSound ==
  ASSUME NEW a, IdSound(a), NEW id \in Int, IdSpecificOk(a, id)
  PROVE  IdSound(IdAllocateSpecific(a, id))
<1> DEFINE o == id - a.base
           b == [a EXCEPT !.used = @ \cup {o}]
           h == IF Full(b, o \div ByteBits, ByteBits) THEN 0 ELSE a.hint
           c == [b EXCEPT !.hint = h]
<1>0. /\ WordBits \in Nat \ {0} /\ ByteBits \in Nat \ {0} /\ IdPool(a) /\ a.size % WordBits = 0
      /\ a \in [base : Int, size : Nat, used : SUBSET Nat, hint : Nat]
      /\ a.used \subseteq 0 .. a.size - 1
  BY BitsAssumption DEF IdSound, IdPool
<1>1. o \in (0 .. a.size - 1) \ a.used /\ o \in Nat
  BY <1>0 DEF IdSpecificOk
<1>2. c = IdAllocateSpecific(a, id)
  <2>1. b.hint = a.hint
    BY <1>0
  <2> QED BY <2>1 DEF IdAllocateSpecific
<1> HIDE DEF o
<1>3. h \in Nat
  BY <1>0
<1>4. b \in [base : Int, size : Nat, used : SUBSET Nat, hint : Nat] /\ b.used = a.used \cup {o}
  BY <1>0, <1>1
<1>5. c.used = a.used \cup {o} /\ c.size = a.size /\ c.hint = h
  BY <1>0, <1>3
<1>6. c \in [base : Int, size : Nat, used : SUBSET Nat, hint : Nat]
  <2> HIDE DEF b, h
  <2> QED BY <1>3, <1>4
<1>7. IdPool(c)
  BY <1>0, <1>1, <1>5, <1>6 DEF IdPool
<1>8. ASSUME h # 0, ~Full(a, h, WordBits), Full(c, h, WordBits) PROVE FALSE
  <2>1. h = a.hint /\ ~Full(b, o \div ByteBits, ByteBits)
    BY <1>8
  <2> HIDE DEF h
  <2>2. o \in Unit(h, WordBits)
    BY <1>5, <1>8 DEF Full
  <2>3. o \in Unit(o \div WordBits, WordBits) /\ o \div WordBits \in Nat
    BY <1>0, <1>1, UnitOf
  <2>4. h = o \div WordBits
    <3>1. /\ h * WordBits < (o \div WordBits) * WordBits + WordBits
          /\ (o \div WordBits) * WordBits < h * WordBits + WordBits
      BY <1>0, <1>1, <1>3, <2>2, <2>3 DEF Unit
    <3>2. h <= o \div WordBits /\ o \div WordBits <= h
      BY <1>0, <1>3, <2>3, <3>1, Multiples
    <3> QED BY <1>3, <2>3, <3>2
  <2>5. Unit(o \div ByteBits, ByteBits) \subseteq Unit(h, WordBits)
    BY <1>1, <2>4, ByteInWord
  <2>6. Unit(o \div ByteBits, ByteBits) \subseteq b.used
    BY <1>4, <1>5, <1>8, <2>5 DEF Full
  <2> QED BY <2>1, <2>6 DEF Full
<1>9. c.hint = 0 \/ (c.hint * WordBits < c.size /\ ~Full(c, c.hint, WordBits))
  <2>1. h = 0 \/ (h = a.hint /\ a.hint # 0)
    OBVIOUS
  <2>2. h # 0 => h * WordBits < a.size /\ ~Full(a, h, WordBits)
    BY <2>1 DEF IdSound
  <2> HIDE DEF h
  <2> QED BY <1>5, <1>8, <2>2
<1>10. IdSound(c)
  BY <1>0, <1>5, <1>7, <1>9 DEF IdSound
<1> HIDE DEF c
<1> QED BY <1>2, <1>10

\* deallocate points the hint at the word it frees a bit of, whichever side of the old
\* hint that word is on.
THEOREM IdDeallocateSound ==
  ASSUME NEW a, IdSound(a), NEW id \in Int
  PROVE  /\ IdSound(IdDeallocate(a, id))
         /\ IdDeallocate(a, id).used = a.used \ {id - a.base}
<1> DEFINE o == id - a.base
           h == o \div WordBits
           c == [a EXCEPT !.used = @ \ {o}, !.hint = h]
<1>0. /\ WordBits \in Nat \ {0} /\ IdPool(a) /\ a.size % WordBits = 0
      /\ a \in [base : Int, size : Nat, used : SUBSET Nat, hint : Nat]
      /\ a.used \subseteq 0 .. a.size - 1
  BY BitsAssumption DEF IdSound, IdPool
<1>1. CASE o \notin a.used
  <2>1. IdDeallocate(a, id) = a
    BY <1>1 DEF IdDeallocate
  <2> QED BY <1>1, <2>1
<1>2. CASE o \in a.used
  <2>1. c = IdDeallocate(a, id)
    BY <1>2 DEF IdDeallocate
  <2>2. o \in Nat /\ o < a.size
    BY <1>0, <1>2
  <2> HIDE DEF o
  <2>3. h \in Nat /\ o \in Unit(h, WordBits)
    BY <1>0, <2>2, UnitOf
  <2>4. h * WordBits < a.size
    BY <1>0, <2>2, <2>3 DEF Unit
  <2> HIDE DEF h
  <2>5. /\ c \in [base : Int, size : Nat, used : SUBSET Nat, hint : Nat]
        /\ c.used = a.used \ {o} /\ c.size = a.size /\ c.hint = h
    BY <1>0, <2>3
  <2> HIDE DEF c
  <2>6. IdPool(c)
    BY <1>0, <2>5 DEF IdPool
  <2>7. ~Full(c, h, WordBits)
    BY <2>3, <2>5 DEF Full
  <2>8. IdSound(c)
    BY <1>0, <2>4, <2>5, <2>6, <2>7 DEF IdSound
  <2> QED BY <2>1, <2>5, <2>8 DEF o
<1> QED BY <1>1, <1>2

-----------------------------------------------------------------------------
(* Address blocks, all of one length n.                                    *)

Aligned(a, n) == {o \in 0 .. a.size - n : o % n = 0 /\ Block(o, n) \cap a.used = {}}

IpPool(a) == a \in [base : Int, size : Nat, used : SUBSET Nat, hint : Nat]

\* No free block of length n starts before the word at the hint.
IpSound(a, n) == IpPool(a) /\ \A o \in Aligned(a, n) : a.hint * WordBits <= o

\* A scan from the hint sees every free block.
LEMMA IpFreeIsAligned ==
  ASSUME NEW n \in Nat \ {0}, NEW a, IpSound(a, n)
  PROVE  IpFree(a, n) = Aligned(a, n)
<1>1. a.hint * WordBits \in Nat /\ a.size \in Nat
  BY BitsAssumption DEF IpSound, IpPool
<1>2. ASSUME NEW o \in IpFree(a, n) PROVE o \in Aligned(a, n)
  BY <1>1 DEF IpFree, Aligned
<1>3. ASSUME NEW o \in Aligned(a, n) PROVE o \in IpFree(a, n)
  <2>1. a.hint * WordBits <= o
    BY DEF IpSound
  <2> QED BY <1>1, <2>1 DEF IpFree, Aligned
<1> QED BY <1>2, <1>3

\* allocate reports exhaustion only when a scan of the whole bitmap would.
THEOREM IpNeverFalselyExhausted ==
  ASSUME NEW n \in Nat \ {0}, NEW a, IpSound(a, n), IpFree([a EXCEPT !.hint = 0], n) # {}
  PROVE  IpFree(a, n) # {}
<1> DEFINE z == [a EXCEPT !.hint = 0]
<1>1. z.hint * WordBits = 0 /\ z.size = a.size /\ z.used = a.used
  BY BitsAssumption DEF IpSound, IpPool
<1>2. IpFree(z, n) = Aligned(a, n)
  <2> HIDE DEF z
  <2> QED BY <1>1 DEF IpFree, Aligned
<1> QED BY <1>2, IpFreeIsAligned

\* allocate takes the first free block, overlapping nothing in use, and leaves none
\* before the hint.
THEOREM IpAllocateSound ==
  ASSUME NEW n \in Nat \ {0}, NEW a, IpSound(a, n), IpFree(a, n) # {}
  PROVE  /\ IpSound(IpAllocate(a, n), n)
         /\ Block(NextIp(a, n) - a.base, n) \cap a.used = {}
<1> DEFINE o == Min(IpFree(a, n))
           w == o \div WordBits
           h == IF (w + 1) * WordBits >= a.size THEN 0 ELSE w
           c == [a EXCEPT !.used = @ \cup Block(o, n), !.hint = h]
<1>0. WordBits \in Nat \ {0} /\ a \in [base : Int, size : Nat, used : SUBSET Nat, hint : Nat]
  BY BitsAssumption DEF IpSound, IpPool
<1>1. IpFree(a, n) = Aligned(a, n)
  BY IpFreeIsAligned
<1>2. o \in Aligned(a, n) /\ \A p \in Aligned(a, n) : o <= p
  <2>1. Aligned(a, n) \in SUBSET Nat
    BY <1>0 DEF Aligned
  <2> QED BY <1>1, <2>1, MinIsLeast
<1>3. c = IpAllocate(a, n)
  BY DEF IpAllocate
<1>4. NextIp(a, n) = a.base + o
  BY DEF NextIp
<1> HIDE DEF o
<1>5. o \in Nat /\ Block(o, n) \cap a.used = {} /\ Block(o, n) \subseteq Nat
  BY <1>0, <1>2 DEF Aligned, Block
<1>6. w \in Nat /\ w * WordBits <= o
  <2>1. w \in Nat /\ o \in Unit(w, WordBits)
    BY <1>0, <1>5, UnitOf
  <2> QED BY <1>0, <2>1 DEF Unit
<1> HIDE DEF w
<1>7. h \in Nat /\ h * WordBits <= o
  BY <1>0, <1>5, <1>6
<1> HIDE DEF h
<1>8. IpPool(c) /\ c.used = a.used \cup Block(o, n) /\ c.size = a.size /\ c.hint = h
  BY <1>0, <1>5, <1>7 DEF IpPool
<1> HIDE DEF c
<1>9. ASSUME NEW p \in Aligned(c, n) PROVE c.hint * WordBits <= p
  <2>1. p \in Aligned(a, n) /\ p \in Nat
    BY <1>0, <1>8 DEF Aligned
  <2>2. o <= p
    BY <1>2, <2>1
  <2> QED BY <1>0, <1>5, <1>7, <1>8, <2>1, <2>2
<1>10. IpSound(c, n)
  BY <1>8, <1>9 DEF IpSound
<1>11. NextIp(a, n) - a.base = o
  <2>1. a.base \in Int
    BY <1>0
  <2> QED BY <1>4, <1>5, <2>1
<1>12. Block(NextIp(a, n) - a.base, n) \cap a.used = {}
  BY <1>5, <1>11, Zenon
<1> QED BY <1>3, <1>10, <1>12, Zenon

\* allocate_specific leaves the hint alone and frees nothing.
THEOREM IpAllocateSpecificSound ==
  ASSUME NEW n \in Nat \ {0}, NEW a, IpSound(a, n), NEW ip \in Int, IpSpecificOk(a, ip, n)
  PROVE  IpSound(IpAllocateSpecific(a, ip, n), n)
<1> DEFINE o == ip - a.base
           c == [a EXCEPT !.used = @ \cup Block(o, n)]
<1>0. a \in [base : Int, size : Nat, used : SUBSET Nat, hint : Nat]
  BY DEF IpSound, IpPool
<1>1. c = IpAllocateSpecific(a, ip, n)
  BY DEF IpAllocateSpecific
<1>2. o \in Nat
  BY <1>0 DEF IpSpecificOk
<1> HIDE DEF o
<1>3. Block(o, n) \subseteq Nat
  BY <1>2 DEF Block
<1>4. IpPool(c) /\ c.used = a.used \cup Block(o, n) /\ c.size = a.size /\ c.hint = a.hint
  BY <1>0, <1>3 DEF IpPool
<1> HIDE DEF c
<1>5. Aligned(c, n) \subseteq Aligned(a, n)
  BY <1>4 DEF Aligned
<1>6. IpSound(c, n)
  BY <1>4, <1>5 DEF IpSound
<1> QED BY <1>1, <1>6, Zenon

\* Aligned blocks of one length are the same or apart.
LEMMA BlocksApart ==
  ASSUME NEW n \in Nat \ {0}, NEW o \in Nat, NEW p \in Nat, o % n = 0, p % n = 0, o # p
  PROVE  Block(o, n) \cap Block(p, n) = {}
<1>1. /\ o \div n \in Nat /\ p \div n \in Nat
      /\ o = (o \div n) * n /\ p = (p \div n) * n
  OBVIOUS
<1>2. o + n <= p \/ p + n <= o
  <2> SUFFICES ASSUME p < o + n, o < p + n PROVE FALSE
    OBVIOUS
  <2>1. p \div n <= o \div n /\ o \div n <= p \div n
    BY <1>1, Multiples
  <2> QED BY <1>1, <2>1
<1> QED BY <1>2 DEF Block

\* deallocate moves the hint back, never forward, to the block it frees.
THEOREM IpDeallocateSound ==
  ASSUME NEW n \in Nat \ {0}, NEW a, IpSound(a, n), NEW ip \in Int, (ip - a.base) % n = 0
  PROVE  IpSound(IpDeallocate(a, ip, n), n)
<1> DEFINE o == ip - a.base
           w == o \div WordBits
           h == IF w < a.hint THEN w ELSE a.hint
           c == [a EXCEPT !.used = @ \ Block(o, n), !.hint = h]
<1>0. /\ WordBits \in Nat \ {0} /\ a \in [base : Int, size : Nat, used : SUBSET Nat, hint : Nat]
      /\ o % n = 0
  BY BitsAssumption DEF IpSound, IpPool
<1>1. CASE ~(o \in 0..a.size - n /\ Block(o, n) \subseteq a.used)
  <2>1. IpDeallocate(a, ip, n) = a
    BY <1>1 DEF IpDeallocate
  <2> QED BY <2>1
<1>2. CASE o \in 0..a.size - n /\ Block(o, n) \subseteq a.used
  <2>1. c = IpDeallocate(a, ip, n)
    BY <1>2 DEF IpDeallocate
  <2>2. o \in Nat
    BY <1>2
  <2> HIDE DEF o
  <2>3. w \in Nat /\ w * WordBits <= o
    <3>1. w \in Nat /\ o \in Unit(w, WordBits)
      BY <1>0, <2>2, UnitOf
    <3> QED BY <1>0, <3>1 DEF Unit
  <2> HIDE DEF w
  <2>4. h \in Nat /\ h <= w /\ h <= a.hint
    BY <1>0, <2>3
  <2> HIDE DEF h
  <2>5. h * WordBits <= w * WordBits /\ h * WordBits <= a.hint * WordBits
    BY <1>0, <2>3, <2>4
  <2>6. IpPool(c) /\ c.used = a.used \ Block(o, n) /\ c.size = a.size /\ c.hint = h
    BY <1>0, <2>4 DEF IpPool
  <2> HIDE DEF c
  <2>7. ASSUME NEW p \in Aligned(c, n) PROVE c.hint * WordBits <= p
    <3>1. p \in Nat /\ p % n = 0 /\ p \in 0 .. a.size - n
      BY <1>0, <2>6 DEF Aligned
    <3>2. CASE p = o
      BY <1>0, <2>2, <2>3, <2>4, <2>5, <2>6, <3>2
    <3>3. CASE p # o
      <4>1. Block(o, n) \cap Block(p, n) = {}
        BY <1>0, <2>2, <3>1, <3>3, BlocksApart
      <4>2. Block(p, n) \cap a.used = {}
        BY <2>6, <4>1 DEF Aligned
      <4>3. a.hint * WordBits <= p
        BY <3>1, <4>2 DEF IpSound, Aligned
      <4> QED BY <1>0, <2>4, <2>5, <2>6, <3>1, <4>3
    <3> QED BY <3>2, <3>3
  <2>8. IpSound(c, n)
    BY <2>6, <2>7 DEF IpSound
  <2> QED BY <2>1, <2>8, Zenon
<1> QED BY <1>1, <1>2

-----------------------------------------------------------------------------
(* The reported statuses *)

Snapshot == [active : SUBSET User, chain : [User -> Status]]

Typed ==
  /\ mode.users \subseteq User /\ active \subseteq User /\ pending \subseteq User
  /\ chain \in [User -> Status]
  /\ state \in [User -> UserState \cup {None}]
  /\ tasks \in Seq(Task) /\ Len(tasks) <= QueueCap
  /\ snap # None => snap \in Snapshot
  /\ worker # None => worker \in WorkerState /\ (worker.end = "none" => worker.tries < MaxRetries)
  /\ late \subseteq Task

HasTask(u) ==
  \/ worker # None /\ worker.task.user = u
  \/ \E i \in DOMAIN tasks : tasks[i].user = u

Flags == \A u \in pending : HasTask(u)

Written(u) == state[u] # None /\ state[u].age # "unwritten"
Reporting(u) == worker # None /\ worker.task.user = u /\ worker.end = "ok"

Belief ==
  mode.sure =>
    /\ late = {}
    /\ \A u \in User : Written(u) => chain[u] \in {state[u].status, "unknown"} \/ Reporting(u)
    /\ \A u \in User : Reporting(u) => chain[u] \in {worker.task.status, "unknown"}

\* PendingHasTask and BeliefIsOnchain, strengthened.
IInv == Typed /\ Flags /\ Belief

-----------------------------------------------------------------------------
\* The first state has the invariant.
LEMMA InitIInv == Init => IInv
<1> SUFFICES ASSUME Init PROVE IInv
  OBVIOUS
<1>1. mode.users \subseteq User
  BY StatusAssumption DEF Init
<1>2. Typed
  BY <1>1, StatusAssumption DEF Init, Typed, Status
<1>3. Flags
  BY DEF Init, Flags
<1>4. Belief
  BY DEF Init, Belief, Written, Reporting
<1> QED BY <1>2, <1>3, <1>4 DEF IInv

\* Flags and tasks as they were leave the flags backed.
LEMMA FlagsKept ==
  ASSUME Flags, UNCHANGED <<pending, tasks, worker>> PROVE Flags'
  BY DEF Flags, HasTask

\* Sessions come and go without the submitter.
LEMMA LinkStep == IInv /\ LinkChange => IInv'
<1> SUFFICES ASSUME IInv, LinkChange PROVE IInv'
  OBVIOUS
<1>1. UNCHANGED <<mode, active, chain, state, pending, tasks, snap, worker, late>>
  BY DEF LinkChange
<1> QED BY <1>1 DEF IInv, Typed, Flags, HasTask, Belief, Written, Reporting

\* A user that is activated again keeps its status or starts as unknown.
LEMMA UserStep == IInv /\ UserChange => IInv'
<1> SUFFICES ASSUME IInv, UserChange PROVE IInv'
  OBVIOUS
<1>0. Typed /\ Flags /\ Belief
  BY DEF IInv
<1>1. UNCHANGED <<mode, state, pending, tasks, snap, worker, late>>
  BY DEF UserChange
<1>2. PICK u \in mode.users :
        IF u \in active
        THEN active' = active \ {u} /\ UNCHANGED chain
        ELSE /\ active' = active \cup {u}
             /\ UNCHANGED chain \/ chain' = [chain EXCEPT ![u] = "unknown"]
  BY DEF UserChange
<1>3. active' \subseteq User /\ u \in User
  BY <1>0, <1>2 DEF Typed
<1>4. chain' \in [User -> Status] /\ \A v \in User : chain'[v] \in {chain[v], "unknown"}
  BY <1>0, <1>2, <1>3 DEF Typed, Status
<1>5. Typed'
  BY <1>0, <1>1, <1>3, <1>4 DEF Typed
<1>6. Belief'
  <2>1. \A v \in User : (Written(v)' <=> Written(v)) /\ (Reporting(v)' <=> Reporting(v))
    BY <1>1 DEF Written, Reporting
  <2> QED BY <1>0, <1>1, <1>4, <2>1 DEF Belief
<1> QED BY <1>0, <1>1, <1>5, <1>6, FlagsKept DEF IInv

\* Time makes written entries older, not written ones.
LEMMA ElapseStep == IInv /\ Elapse => IInv'
<1> SUFFICES ASSUME IInv, Elapse PROVE IInv'
  OBVIOUS
<1>0. Typed /\ Flags /\ Belief
  BY DEF IInv
<1>1. UNCHANGED <<mode, active, chain, pending, tasks, snap, worker, late>>
  BY DEF Elapse
<1>2. PICK S \in SUBSET {u \in User : state[u] # None} :
       state' = [u \in User |-> IF state[u] = None THEN None
                 ELSE [state[u] EXCEPT
                        !.age = IF @ = "aging" /\ u \in S THEN "due" ELSE @,
                        !.since = IF @ \in {None, Grace} THEN @ ELSE @ + 1]]
  BY DEF Elapse
<1>3. ASSUME NEW u \in User, state[u] # None
      PROVE  /\ state'[u] \in UserState /\ state'[u].status = state[u].status
             /\ state'[u].age # "unwritten" => state[u].age # "unwritten"
  <2> DEFINE a == IF state[u].age = "aging" /\ u \in S THEN "due" ELSE state[u].age
             s == IF state[u].since \in {None, Grace} THEN state[u].since ELSE state[u].since + 1
  <2>1. state[u] \in UserState
    BY <1>0, <1>3 DEF Typed
  <2>2. state'[u] = [state[u] EXCEPT !.age = a, !.since = s]
    BY <1>2, <1>3
  <2>3. a \in {"unwritten", "fresh", "aging", "due"} /\ (a # "unwritten" => state[u].age # "unwritten")
    BY <2>1 DEF UserState
  <2>4. s \in 0 .. Grace \cup {None}
    BY <2>1, StatusAssumption DEF UserState
  <2> HIDE DEF a, s
  <2> QED BY <2>1, <2>2, <2>3, <2>4 DEF UserState
<1>4. \A u \in User : state[u] = None => state'[u] = None
  BY <1>2
<1>5. state' \in [User -> UserState \cup {None}]
  <2>1. state' = [u \in User |-> state'[u]]
    BY <1>2
  <2>2. \A u \in User : state'[u] \in UserState \cup {None}
    BY <1>3, <1>4
  <2> QED BY <2>1, <2>2
<1>6. Typed'
  BY <1>0, <1>1, <1>5 DEF Typed
<1>7. ASSUME NEW u \in User, Written(u)' PROVE Written(u) /\ state'[u].status = state[u].status
  BY <1>3, <1>4, <1>7 DEF Written
<1>8. Belief'
  <2>1. \A v \in User : Reporting(v)' <=> Reporting(v)
    BY <1>1 DEF Reporting
  <2> QED BY <1>0, <1>1, <1>7, <2>1 DEF Belief
<1> QED BY <1>0, <1>1, <1>6, <1>8, FlagsKept DEF IInv

\* A tick reads the ledger.
LEMMA FetchStep == IInv /\ Fetch => IInv'
<1> SUFFICES ASSUME IInv, Fetch PROVE IInv'
  OBVIOUS
<1>1. UNCHANGED <<mode, active, chain, state, pending, tasks, worker, late>>
  BY DEF Fetch
<1>2. snap' \in Snapshot
  BY DEF Fetch, IInv, Typed, Snapshot
<1>3. Typed'
  BY <1>1, <1>2 DEF IInv, Typed
<1>4. Flags' /\ Belief'
  BY <1>1 DEF IInv, Flags, HasTask, Belief, Written, Reporting
<1> QED BY <1>3, <1>4 DEF IInv

\* What a tick makes of a user: an entry not yet written stays unwritten, one that was
\* keeps its status.
LEMMA JudgeType ==
  ASSUME Typed, snap # None, NEW u \in snap.active, NEW seen
  PROVE  LET j == Judge(u, seen)
         IN  /\ u \in User /\ j.status \in Status /\ j.state \in UserState
             /\ j.state.age # "unwritten" => Written(u) /\ j.state.status = state[u].status
<1> DEFINE us == StateFor(u, snap.chain[u])
           up == IF seen = "up" THEN [us EXCEPT !.since = 0] ELSE us
           ag == IF up.age = "fresh" THEN "aging" ELSE up.age
           st == [up EXCEPT !.age = ag]
<1>1. u \in User /\ snap.chain[u] \in Status
  BY DEF Typed, Snapshot
<1>2. us \in UserState /\ (us.age # "unwritten" => Written(u) /\ us = state[u])
  <2>1. CASE state[u] # None
    BY <1>1, <2>1 DEF StateFor, Typed, Written
  <2>2. CASE state[u] = None
    <3>1. us = [status |-> snap.chain[u], age |-> "unwritten", since |-> None]
      BY <2>2 DEF StateFor
    <3> QED BY <1>1, <3>1 DEF UserState
  <2> QED BY <2>1, <2>2
<1> HIDE DEF us
<1>3. up \in UserState /\ up.age = us.age /\ up.status = us.status
  BY <1>2, StatusAssumption DEF UserState
<1> HIDE DEF up
<1>4. ag \in {"unwritten", "fresh", "aging", "due"} /\ (ag # "unwritten" => up.age # "unwritten")
  BY <1>3 DEF UserState
<1> HIDE DEF ag
<1>5. st \in UserState /\ st.age = ag /\ st.status = up.status
  BY <1>3, <1>4 DEF UserState
<1>6. Judge(u, seen).state = st
  BY DEF Judge, st, ag, up, us
<1>7. Judge(u, seen).status \in Status
  BY DEF Judge, Effective, Status
<1> HIDE DEF st
<1> QED BY <1>1, <1>2, <1>3, <1>4, <1>5, <1>6, <1>7

\* What Apply queues of an order of users, and the tasks it makes of them.
Sent(o) == SubSeq(o, 1, IF Room < Len(o) THEN Room ELSE Len(o))
More(o, j) == [i \in DOMAIN Sent(o) |-> [user |-> Sent(o)[i], status |-> j[Sent(o)[i]].status]]

\* What fits into the queue is queued, and every flag set has its task.
LEMMA QueueType ==
  ASSUME Typed, NEW W \in SUBSET User, NEW o \in Orders(W), NEW j,
         \A u \in W : j[u].status \in Status
  PROVE  /\ tasks \o More(o, j) \in Seq(Task) /\ Len(tasks \o More(o, j)) <= QueueCap
         /\ \A i \in DOMAIN Sent(o) : Sent(o)[i] \in W
         /\ \A i \in DOMAIN tasks :
              \E k \in DOMAIN (tasks \o More(o, j)) : (tasks \o More(o, j))[k] = tasks[i]
         /\ \A i \in DOMAIN Sent(o) :
              \E k \in DOMAIN (tasks \o More(o, j)) : (tasks \o More(o, j))[k].user = Sent(o)[i]
<1> DEFINE n == IF Room < Len(o) THEN Room ELSE Len(o)
           sent == SubSeq(o, 1, n)
           more == [i \in DOMAIN sent |-> [user |-> sent[i], status |-> j[sent[i]].status]]
           all == tasks \o more
<1>0. tasks \in Seq(Task) /\ Len(tasks) \in Nat /\ Len(tasks) <= QueueCap /\ QueueCap \in Nat
  BY StatusAssumption DEF Typed
<1>1. o \in Seq(W) /\ Len(o) \in Nat
  <2>1. Cardinality(W) \in Nat
    BY StatusAssumption, FS_Subset, FS_CardinalityType
  <2>2. o \in [1 .. Cardinality(W) -> W]
    BY DEF Orders
  <2> HIDE DEF n
  <2> QED BY <2>1, <2>2
<1>2. n \in Nat /\ n <= Len(o) /\ Len(tasks) + n <= QueueCap
  BY <1>0, <1>1 DEF Room
<1> HIDE DEF n
<1>3. \A i \in 1 .. n : o[i] \in W
  BY <1>1, <1>2
<1>4. sent \in Seq(W) /\ Len(sent) = n
  BY <1>2, <1>3, SubSeqProperties
<1> HIDE DEF sent
<1>5. DOMAIN sent = 1 .. n /\ \A i \in 1 .. n : sent[i] \in W
  BY <1>4, LenProperties
<1>6. more \in [1 .. n -> Task]
  BY <1>5 DEF Task
<1>7. more \in Seq(Task) /\ Len(more) = n
  BY <1>2, <1>6
<1>8. \A i \in 1 .. n : more[i].user = sent[i]
  BY <1>5
<1> HIDE DEF more
<1>9. /\ all \in Seq(Task) /\ Len(all) = Len(tasks) + n
      /\ \A i \in 1 .. Len(tasks) + n :
           all[i] = IF i <= Len(tasks) THEN tasks[i] ELSE more[i - Len(tasks)]
  BY <1>0, <1>7, ConcatProperties
<1>10. DOMAIN all = 1 .. Len(tasks) + n /\ DOMAIN tasks = 1 .. Len(tasks)
  BY <1>0, <1>9, LenProperties
<1> HIDE DEF all
<1>11. \A i \in DOMAIN tasks : i \in DOMAIN all /\ all[i] = tasks[i]
  BY <1>0, <1>2, <1>9, <1>10
<1>12. \A i \in DOMAIN sent : i + Len(tasks) \in DOMAIN all /\ all[i + Len(tasks)].user = sent[i]
  <2> SUFFICES ASSUME NEW i \in 1 .. n
               PROVE  i + Len(tasks) \in DOMAIN all /\ all[i + Len(tasks)].user = sent[i]
    BY <1>5
  <2>1. i + Len(tasks) \in 1 .. Len(tasks) + n /\ ~(i + Len(tasks) <= Len(tasks))
        /\ i + Len(tasks) - Len(tasks) = i
    BY <1>0, <1>2
  <2>2. all[i + Len(tasks)] = more[i]
    BY <1>9, <2>1
  <2> QED BY <1>8, <1>10, <2>1, <2>2
<1>13. Len(all) <= QueueCap
  BY <1>2, <1>9
<1>14. \A i \in DOMAIN sent : sent[i] \in W
  BY <1>5
<1>15. sent = Sent(o) /\ more = More(o, j)
  BY DEF more, sent, n, Sent, More
<1> QED BY <1>9, <1>11, <1>12, <1>13, <1>14, <1>15 DEF all

\* A tick believes nothing it has not written, and forgets only users that have left.
LEMMA ApplyStep == IInv /\ Apply => IInv'
<1> SUFFICES ASSUME IInv, Apply PROVE IInv'
  OBVIOUS
<1>0. Typed /\ Flags /\ Belief /\ snap # None
  BY DEF IInv, Apply
<1>1. UNCHANGED <<mode, active, chain, worker, late>> /\ snap' = None
  BY DEF Apply
<1>2. PICK bad \in SUBSET {Netns[u] : u \in User} :
       LET j == [u \in snap.active |-> Judge(u, IF Netns[u] \in bad THEN "none" ELSE link[u])]
           want == {u \in snap.active : j[u].submit}
       IN  \E o \in Orders(want) :
             LET sent == SubSeq(o, 1, IF Room < Len(o) THEN Room ELSE Len(o))
             IN  /\ tasks' = tasks \o [i \in DOMAIN sent |->
                                [user |-> sent[i], status |-> j[sent[i]].status]]
                 /\ pending' = (pending \cup {sent[i] : i \in DOMAIN sent}) \ Pruned
                 /\ state' = [u \in User |->
                                IF u \in snap.active THEN j[u].state
                                ELSE IF u \in Pruned THEN None ELSE state[u]]
  BY DEF Apply
<1> DEFINE j == [u \in snap.active |-> Judge(u, IF Netns[u] \in bad THEN "none" ELSE link[u])]
           want == {u \in snap.active : j[u].submit}
<1>3. PICK o \in Orders(want) :
        LET sent == SubSeq(o, 1, IF Room < Len(o) THEN Room ELSE Len(o))
        IN  /\ tasks' = tasks \o [i \in DOMAIN sent |->
                           [user |-> sent[i], status |-> j[sent[i]].status]]
            /\ pending' = (pending \cup {sent[i] : i \in DOMAIN sent}) \ Pruned
            /\ state' = [u \in User |->
                           IF u \in snap.active THEN j[u].state
                           ELSE IF u \in Pruned THEN None ELSE state[u]]
  BY <1>2
<1>4. snap.active \subseteq User
  BY <1>0 DEF Typed, Snapshot
<1>5. ASSUME NEW u \in snap.active
      PROVE  /\ j[u].status \in Status /\ j[u].state \in UserState
             /\ j[u].state.age # "unwritten" => Written(u) /\ j[u].state.status = state[u].status
  <2>1. j[u] = Judge(u, IF Netns[u] \in bad THEN "none" ELSE link[u])
    OBVIOUS
  <2> QED BY <1>0, <2>1, JudgeType
<1> HIDE DEF j
<1>6. want \in SUBSET User /\ \A u \in want : j[u].status \in Status
  BY <1>4, <1>5
<1> HIDE DEF want
<1> DEFINE sent == Sent(o)
<1>7. /\ tasks' \in Seq(Task) /\ Len(tasks') <= QueueCap
      /\ \A i \in DOMAIN sent : sent[i] \in want
      /\ \A i \in DOMAIN tasks : \E k \in DOMAIN tasks' : tasks'[k] = tasks[i]
      /\ \A i \in DOMAIN sent : \E k \in DOMAIN tasks' : tasks'[k].user = sent[i]
  <2>1. tasks' = tasks \o More(o, j)
    BY <1>3 DEF More, Sent
  <2> QED BY <1>0, <1>6, <2>1, QueueType
<1>8. /\ pending' = (pending \cup {sent[i] : i \in DOMAIN sent}) \ Pruned
      /\ state' = [u \in User |->
                     IF u \in snap.active THEN j[u].state
                     ELSE IF u \in Pruned THEN None ELSE state[u]]
  BY <1>3 DEF Sent
<1> HIDE DEF sent
<1>9. pending' \subseteq User
  BY <1>0, <1>6, <1>7, <1>8 DEF Typed
<1>10. state' \in [User -> UserState \cup {None}]
  <2>1. \A u \in User : (IF u \in snap.active THEN j[u].state
                          ELSE IF u \in Pruned THEN None ELSE state[u]) \in UserState \cup {None}
    BY <1>0, <1>5 DEF Typed
  <2> QED BY <1>8, <2>1
<1>11. Typed'
  BY <1>0, <1>1, <1>7, <1>9, <1>10 DEF Typed
<1>12. Flags'
  <2> SUFFICES ASSUME NEW u \in pending' PROVE HasTask(u)'
    BY DEF Flags
  <2>1. u \in pending \/ \E i \in DOMAIN sent : u = sent[i]
    BY <1>8
  <2>2. CASE u \in pending
    <3>1. HasTask(u)
      BY <1>0, <2>2 DEF Flags
    <3> QED BY <1>1, <1>7, <3>1 DEF HasTask
  <2>3. CASE \E i \in DOMAIN sent : u = sent[i]
    BY <1>7, <2>3 DEF HasTask
  <2> QED BY <2>1, <2>2, <2>3
<1>13. ASSUME NEW u \in User, Written(u)' PROVE Written(u) /\ state'[u].status = state[u].status
  <2>1. state'[u] # None /\ state'[u].age # "unwritten"
    BY <1>13 DEF Written
  <2>2. CASE u \in snap.active
    BY <1>5, <1>8, <2>1, <2>2
  <2>3. CASE u \notin snap.active
    BY <1>8, <2>1, <2>3 DEF Written
  <2> QED BY <2>2, <2>3
<1>14. Belief'
  <2>1. \A v \in User : Reporting(v)' <=> Reporting(v)
    BY <1>1 DEF Reporting
  <2> QED BY <1>0, <1>1, <1>13, <2>1 DEF Belief
<1> QED BY <1>11, <1>12, <1>14 DEF IInv

\* The worker takes the first task: the others keep theirs.
LEMMA TakeStep == IInv /\ Take => IInv'
<1> SUFFICES ASSUME IInv, Take PROVE IInv'
  OBVIOUS
<1>0. Typed /\ Flags /\ Belief /\ worker = None /\ tasks # <<>>
  BY DEF IInv, Take
<1>1. /\ UNCHANGED <<mode, active, chain, state, pending, snap, late>>
      /\ worker' = [task |-> Head(tasks), tries |-> 0, end |-> "none"] /\ tasks' = Tail(tasks)
  BY DEF Take
<1>2. tasks \in Seq(Task) /\ Len(tasks) \in Nat \ {0} /\ DOMAIN tasks = 1 .. Len(tasks)
  BY <1>0 DEF Typed
<1>3. /\ Head(tasks) \in Task /\ Head(tasks) = tasks[1]
      /\ tasks' \in Seq(Task) /\ Len(tasks') = Len(tasks) - 1 /\ DOMAIN tasks' = 1 .. Len(tasks) - 1
      /\ \A i \in 1 .. Len(tasks) - 1 : tasks'[i] = tasks[i + 1]
  BY <1>0, <1>1, <1>2, HeadTailProperties
<1>4. worker' \in WorkerState /\ worker'.end = "none" /\ worker'.tries < MaxRetries /\ worker'.task = tasks[1]
  BY <1>1, <1>3, StatusAssumption DEF WorkerState
<1>5. Typed'
  BY <1>0, <1>1, <1>2, <1>3, <1>4, StatusAssumption DEF Typed
<1>6. Flags'
  <2> SUFFICES ASSUME NEW u \in pending PROVE HasTask(u)'
    BY <1>1 DEF Flags
  <2>1. PICK i \in DOMAIN tasks : tasks[i].user = u
    BY <1>0 DEF Flags, HasTask
  <2>2. CASE i = 1
    BY <1>4, <2>1, <2>2, StatusAssumption DEF HasTask
  <2>3. CASE i # 1
    <3>1. i - 1 \in DOMAIN tasks' /\ tasks'[i - 1] = tasks[i]
      BY <1>2, <1>3, <2>3
    <3> QED BY <2>1, <3>1 DEF HasTask
  <2> QED BY <2>2, <2>3
<1>7. Belief'
  <2>1. \A v \in User : ~Reporting(v)' /\ ~Reporting(v)
    BY <1>0, <1>4 DEF Reporting
  <2>2. \A v \in User : Written(v)' <=> Written(v)
    BY <1>1 DEF Written
  <2> QED BY <1>0, <1>1, <2>1, <2>2 DEF Belief
<1> QED BY <1>5, <1>6, <1>7 DEF IInv

\* A write that is final is about to be reported.
LEMMA SubmittedStep == IInv /\ Submitted => IInv'
<1> SUFFICES ASSUME IInv, Submitted PROVE IInv'
  OBVIOUS
<1>0. Typed /\ Flags /\ Belief /\ worker # None /\ worker \in WorkerState
  BY DEF IInv, Submitted, Typed
<1> DEFINE u == worker.task.user
<1>1. /\ UNCHANGED <<mode, active, state, pending, tasks, snap, late>>
      /\ chain' = [chain EXCEPT ![u] = worker.task.status] /\ worker' = [worker EXCEPT !.end = "ok"]
  BY DEF Submitted
<1>2. u \in User /\ worker.task.status \in Status
  BY <1>0 DEF WorkerState, Task
<1>3. chain' \in [User -> Status] /\ chain'[u] = worker.task.status
      /\ \A v \in User \ {u} : chain'[v] = chain[v]
  BY <1>0, <1>1, <1>2 DEF Typed
<1>4. worker' \in WorkerState /\ worker'.task = worker.task /\ worker'.end = "ok"
  BY <1>0, <1>1 DEF WorkerState
<1>5. worker' # None
  BY <1>4, StatusAssumption
<1>6. Typed'
  BY <1>0, <1>1, <1>3, <1>4 DEF Typed
<1>7. Flags'
  BY <1>0, <1>1, <1>4, <1>5 DEF Flags, HasTask
<1>8. Belief'
  <2>1. \A v \in User : Reporting(v)' <=> v = u
    BY <1>4, <1>5 DEF Reporting
  <2>2. worker.end = "none"
    BY DEF Submitted
  <2>3. \A v \in User : (Written(v)' <=> Written(v)) /\ ~Reporting(v)
    BY <1>1, <2>2 DEF Written, Reporting
  <2> HIDE DEF u
  <2> QED BY <1>0, <1>1, <1>3, <1>4, <2>1, <2>3 DEF Belief
<1> QED BY <1>6, <1>7, <1>8 DEF IInv

\* A failing write leaves the ledger, and its transaction loose only if it may land.
LEMMA SubmitFailsStep == IInv /\ SubmitFails => IInv'
<1> SUFFICES ASSUME IInv, SubmitFails PROVE IInv'
  OBVIOUS
<1>0. /\ Typed /\ Flags /\ Belief /\ worker # None /\ worker \in WorkerState
      /\ worker.end = "none" /\ worker.tries < MaxRetries
  BY DEF IInv, SubmitFails, Typed
<1> DEFINE n == worker.tries + 1
           e == IF n = MaxRetries THEN "error" ELSE "none"
<1>1. /\ UNCHANGED <<mode, active, chain, state, pending, tasks, snap>>
      /\ worker' = [worker EXCEPT !.tries = n, !.end = e]
      /\ UNCHANGED late \/ (~mode.sure /\ late' = late \cup {worker.task})
  BY DEF SubmitFails
<1>2. n \in 0 .. MaxRetries /\ (e = "none" => n < MaxRetries) /\ e \in {"none", "error"}
  BY <1>0, StatusAssumption DEF WorkerState
<1> HIDE DEF n, e
<1>3. worker' \in WorkerState /\ worker'.task = worker.task /\ worker'.end = e /\ worker'.tries = n
  BY <1>0, <1>1, <1>2 DEF WorkerState
<1>4. worker' # None
  BY <1>3, StatusAssumption
<1>5. worker.task \in Task
  BY <1>0 DEF WorkerState
<1>6. late' \subseteq Task
  BY <1>0, <1>1, <1>5 DEF Typed
<1>7. Typed'
  BY <1>0, <1>1, <1>2, <1>3, <1>6 DEF Typed
<1>8. Flags'
  BY <1>0, <1>1, <1>3, <1>4 DEF Flags, HasTask
<1>9. Belief'
  <2>1. \A v \in User : (Written(v)' <=> Written(v)) /\ ~Reporting(v) /\ ~Reporting(v)'
    BY <1>0, <1>1, <1>2, <1>3 DEF Written, Reporting
  <2> QED BY <1>0, <1>1, <2>1 DEF Belief
<1> QED BY <1>7, <1>8, <1>9 DEF IInv

\* The worker books what it wrote, and clears the flag whatever came of it.
LEMMA FinishStep == IInv /\ Finish => IInv'
<1> SUFFICES ASSUME IInv, Finish PROVE IInv'
  OBVIOUS
<1>0. /\ Typed /\ Flags /\ Belief /\ worker # None /\ worker \in WorkerState /\ worker.end # "none"
      /\ state \in [User -> UserState \cup {None}]
  BY DEF IInv, Finish, Typed
<1> DEFINE u == worker.task.user
           b == [StateFor(u, "unknown") EXCEPT !.status = worker.task.status, !.age = "fresh"]
<1>1. /\ UNCHANGED <<mode, active, chain, tasks, snap, late>>
      /\ pending' = pending \ {u} /\ worker' = None
      /\ state' = IF worker.end = "error" THEN state ELSE [state EXCEPT ![u] = b]
  BY DEF Finish
<1>2. u \in User /\ worker.task.status \in Status /\ worker.end \in {"ok", "error"}
  BY <1>0 DEF WorkerState, Task
<1>3. StateFor(u, "unknown") \in UserState
  <2>1. CASE state[u] # None
    BY <1>0, <1>2, <2>1 DEF StateFor
  <2>2. CASE state[u] = None
    <3>1. StateFor(u, "unknown") = [status |-> "unknown", age |-> "unwritten", since |-> None]
      BY <2>2 DEF StateFor
    <3> QED BY <3>1 DEF UserState, Status
  <2> QED BY <2>1, <2>2
<1>4. b \in UserState /\ b.status = worker.task.status
  <2> DEFINE f == StateFor(u, "unknown")
  <2>1. f \in UserState
    BY <1>3
  <2> HIDE DEF f
  <2>2. /\ [f EXCEPT !.status = worker.task.status, !.age = "fresh"] \in UserState
        /\ [f EXCEPT !.status = worker.task.status, !.age = "fresh"].status = worker.task.status
    BY <1>2, <2>1 DEF UserState
  <2> QED BY <2>2 DEF f
<1> HIDE DEF b
<1>5. state' \in [User -> UserState \cup {None}]
  BY <1>0, <1>1, <1>2, <1>4
<1>6. Typed'
  BY <1>0, <1>1, <1>5 DEF Typed
<1>7. Flags'
  <2> SUFFICES ASSUME NEW v \in pending, v # u PROVE \E i \in DOMAIN tasks : tasks[i].user = v
    BY <1>1 DEF Flags, HasTask
  <2> QED BY <1>0 DEF Flags, HasTask
<1>8. Belief'
  <2> SUFFICES ASSUME mode.sure, NEW v \in User, Written(v)'
               PROVE  chain[v] \in {state'[v].status, "unknown"}
    BY <1>0, <1>1 DEF Belief, Reporting
  <2>1. CASE worker.end = "error"
    <3>1. state' = state /\ ~Reporting(v)
      BY <1>1, <2>1 DEF Reporting
    <3> QED BY <1>0, <3>1 DEF Belief, Written
  <2>2. CASE worker.end = "ok" /\ v = u
    <3>1. state'[v] = b /\ Reporting(v)
      BY <1>0, <1>1, <1>2, <2>2 DEF Reporting
    <3>2. chain[v] \in {worker.task.status, "unknown"}
      BY <1>0, <3>1 DEF Belief
    <3> QED BY <1>4, <3>1, <3>2
  <2>3. CASE worker.end = "ok" /\ v # u
    <3>1. state'[v] = state[v] /\ ~Reporting(v)
      BY <1>0, <1>1, <1>2, <2>3 DEF Reporting
    <3> QED BY <1>0, <3>1 DEF Belief, Written
  <2> QED BY <1>2, <2>1, <2>2, <2>3
<1> QED BY <1>6, <1>7, <1>8 DEF IInv

\* Nothing lands late where errors mean that nothing was written.
LEMMA LandStep == IInv /\ Land => IInv'
<1> SUFFICES ASSUME IInv, Land PROVE IInv'
  OBVIOUS
<1>0. Typed /\ Flags /\ Belief
  BY DEF IInv
<1>1. PICK t \in late :
        /\ late' = late \ {t}
        /\ UNCHANGED chain \/ chain' = [chain EXCEPT ![t.user] = t.status]
        /\ UNCHANGED <<mode, active, state, pending, tasks, snap, worker>>
  BY DEF Land
<1>2. t \in Task /\ ~mode.sure
  BY <1>0 DEF Typed, Belief
<1>3. chain' \in [User -> Status]
  BY <1>0, <1>1, <1>2 DEF Typed, Task
<1>4. Typed'
  BY <1>0, <1>1, <1>3 DEF Typed
<1>5. Belief'
  BY <1>1, <1>2 DEF Belief
<1> QED BY <1>0, <1>1, <1>4, <1>5, FlagsKept DEF IInv

\* A restart forgets beliefs and flags alike.
LEMMA RestartStep == IInv /\ Restart => IInv'
<1> SUFFICES ASSUME IInv, Restart PROVE IInv'
  OBVIOUS
<1>0. Typed /\ Flags /\ Belief
  BY DEF IInv
<1>1. /\ state' = [u \in User |-> None]
      /\ pending' = {} /\ tasks' = <<>> /\ snap' = None /\ worker' = None
      /\ UNCHANGED <<mode, active, chain>>
      /\ IF worker # None /\ worker.end = "none"
         THEN ~mode.sure /\ late' = late \cup {worker.task}
         ELSE UNCHANGED late
  BY DEF Restart
<1>2. late' \subseteq Task
  <2>1. worker # None => worker.task \in Task
    BY <1>0 DEF Typed, WorkerState
  <2> QED BY <1>0, <1>1, <2>1 DEF Typed
<1>3. Typed'
  BY <1>0, <1>1, <1>2, StatusAssumption DEF Typed
<1>4. Flags'
  BY <1>1 DEF Flags
<1>5. Belief'
  BY <1>0, <1>1 DEF Belief, Written, Reporting
<1> QED BY <1>3, <1>4, <1>5 DEF IInv

\* Every step of the ticks, the worker and their surroundings keeps the invariant.
LEMMA NextIInv == IInv /\ [Next]_vars => IInv'
<1> SUFFICES ASSUME IInv, [Next]_vars PROVE IInv'
  OBVIOUS
<1>1. CASE LinkChange \/ UserChange \/ Elapse
  BY <1>1, LinkStep, UserStep, ElapseStep
<1>2. CASE Fetch \/ Apply
  BY <1>2, FetchStep, ApplyStep
<1>3. CASE Take \/ Submitted \/ SubmitFails \/ Finish
  BY <1>3, TakeStep, SubmittedStep, SubmitFailsStep, FinishStep
<1>4. CASE Land \/ Restart
  BY <1>4, LandStep, RestartStep
<1>5. CASE UNCHANGED vars
  BY <1>5 DEF vars, IInv, Typed, Flags, HasTask, Belief, Written, Reporting
<1> QED BY <1>1, <1>2, <1>3, <1>4, <1>5 DEF Next, Tick, Work

\* The strengthening holds in every state of every behaviour.
THEOREM StatusInvariant == Spec => []IInv
  BY InitIInv, NextIInv, PTL DEF Spec

\* No user is left flagged as pending without a task in the queue or at the worker,
\* however ticks, prunes, full queues, failures and restarts interleave; so the check
\* of pending in tick never keeps a user from being reported for good.
THEOREM StatusPendingHasTask == Spec => []PendingHasTask
<1>1. IInv => PendingHasTask
  <2> SUFFICES ASSUME IInv PROVE PendingHasTask
    OBVIOUS
  <2>1. TypeOK
    BY DEF IInv, Typed, TypeOK
  <2> QED BY <2>1 DEF IInv, Flags, HasTask, PendingHasTask
<1> QED BY <1>1, StatusInvariant, PTL

\* The status userState remembers as written is the one on the ledger, unless the
\* account was made anew or the worker is about to record its write.
THEOREM StatusBeliefIsOnchain == Spec => []BeliefIsOnchain
<1>1. IInv => BeliefIsOnchain
  BY DEF IInv, Belief, Written, Reporting, BeliefIsOnchain
<1> QED BY <1>1, StatusInvariant, PTL
=============================================================================
