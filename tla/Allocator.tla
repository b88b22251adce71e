------------------------------ MODULE Allocator ------------------------------
(***************************************************************************)
(* The two bitmap allocators of the serviceability program                 *)
(* (id_allocator.rs, ip_allocator.rs) and the wrappers every instruction   *)
(* uses (processors/resource/mod.rs).  A bitmap is read in words of        *)
(* WordBits bits from a first-free hint, so an allocator is a record       *)
(*   base   first id or address of the range                               *)
(*   size   number of ids or addresses                                     *)
(*   used   the offsets whose bit is set                                   *)
(*   hint   first_free_index, the word a scan starts from                  *)
(* Ids and addresses are integers; different pools get different bases.    *)
(***************************************************************************)
EXTENDS Integers, FiniteSets, FiniteSetsExt

CONSTANTS
  WordBits,   \* bits of a bitmap word: 64
  ByteBits    \* bits of the byte allocate_specific looks at: 8

ASSUME BitsAssumption ==
  /\ WordBits \in Nat \ {0}
  /\ ByteBits \in 1..WordBits
  /\ WordBits % ByteBits = 0

\* A resource extension account just created for a range of n.
NewPool(base, n) == [base |-> base, size |-> n, used |-> {}, hint |-> 0]

\* The bits of the w-th unit of `bits` bits.
Unit(w, bits) == w * bits .. w * bits + bits - 1

\* The n offsets of the block that starts at o.
Block(o, n) == o .. o + n - 1

\* Every bit of that unit is set: the word is u64::MAX, the byte 0xFF.
Full(a, w, bits) == Unit(w, bits) \subseteq a.used

Held(a) == {a.base + o : o \in a.used}

-----------------------------------------------------------------------------
(* Ids: IdAllocator.                                                       *)

\* The free offsets a scan from the hint meets; words before it are not read.
IdFree(a) == {o \in a.hint * WordBits .. a.size - 1 : o \notin a.used}

\* Mutant: when a word becomes full the hint moves on to the next one.
IdAllocatePastEnd(a) ==
  LET o == Min(IdFree(a))
      w == o \div WordBits
      b == [a EXCEPT !.used = @ \cup {o}]
  IN [b EXCEPT !.hint = IF Full(b, w, WordBits) THEN w + 1 ELSE w]

\* allocate, once it is known to succeed: the id is a.base + Min(IdFree(a)).
IdAllocate(a) ==
  LET o == Min(IdFree(a))
      w == o \div WordBits
      b == [a EXCEPT !.used = @ \cup {o}]
  IN [b EXCEPT !.hint = IF Full(b, w, WordBits) THEN 0 ELSE w]

NextId(a) == a.base + Min(IdFree(a))

IdSpecificOk(a, id) == id - a.base \in (0..a.size - 1) \ a.used

\* allocate_specific: the hint goes back to the start when the byte fills up.
IdAllocateSpecific(a, id) ==
  LET o == id - a.base
      b == [a EXCEPT !.used = @ \cup {o}]
  IN [b EXCEPT !.hint = IF Full(b, o \div ByteBits, ByteBits) THEN 0 ELSE @]

\* deallocate: an id out of range, or not allocated, changes nothing.
IdDeallocate(a, id) ==
  LET o == id - a.base
  IN IF o \in a.used
     THEN [a EXCEPT !.used = @ \ {o}, !.hint = o \div WordBits]
     ELSE a

-----------------------------------------------------------------------------
(* Address blocks of n addresses, n a power of two: IpAllocator.           *)

IpFree(a, n) ==
  {o \in a.hint * WordBits .. a.size - n :
     o % n = 0 /\ Block(o, n) \cap a.used = {}}

\* allocate, once it is known to succeed: the hint wraps after the last word.
IpAllocate(a, n) ==
  LET o == Min(IpFree(a, n))
      w == o \div WordBits
  IN [a EXCEPT !.used = @ \cup Block(o, n),
               !.hint = IF (w + 1) * WordBits >= a.size THEN 0 ELSE w]

NextIp(a, n) == a.base + Min(IpFree(a, n))

IpSpecificOk(a, ip, n) ==
  LET o == ip - a.base
  IN o \in 0..a.size - n /\ o % n = 0 /\ Block(o, n) \cap a.used = {}

\* allocate_specific leaves the hint alone.
IpAllocateSpecific(a, ip, n) == [a EXCEPT !.used = @ \cup Block(ip - a.base, n)]

\* deallocate: only a block whose every bit is set is freed.
IpDeallocate(a, ip, n) ==
  LET o == ip - a.base
      w == o \div WordBits
  IN IF o \in 0..a.size - n /\ Block(o, n) \subseteq a.used
     THEN [a EXCEPT !.used = @ \ Block(o, n),
                    !.hint = IF w < @ THEN w ELSE @]
     ELSE a
=============================================================================
