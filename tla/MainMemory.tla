----------------------------- MODULE MainMemory -----------------------------
(***************************************************************************)
(* The memory of the SM213 simulator (MainMemory.java): an array of        *)
(* ByteCapacity bytes that reads and writes four-byte big-endian integers. *)
(* A memory is the function from the addresses written so far to their     *)
(* bytes; a byte that was never written is 0, as in a new Java array.      *)
(*                                                                         *)
(* Java's int is 32 bits wide and wraps: Add is its +, computed without    *)
(* leaving the range.                                                      *)
(***************************************************************************)
EXTENDS Integers, Sequences

CONSTANT ByteCapacity       \* the capacity given to the constructor

ASSUME CapacityAssumption == ByteCapacity \in Nat \ {0} /\ ByteCapacity <= 2147483647

MaxInt == 2147483647
MinInt == -MaxInt - 1
JavaInt == MinInt..MaxInt
UnsignedByte == 0..255

Add(a, b) ==
  IF a > 0 /\ b > MaxInt - a THEN (a + MinInt) + (b + MinInt)
  ELSE IF a < 0 /\ b < MinInt - a THEN (a - MinInt) + (b - MinInt)
  ELSE a + b

Times4(a) == LET twice == Add(a, a) IN Add(twice, twice)

(* An UnsignedByte read as a signed number. *)
Signed(byte) == IF byte > 127 THEN byte - 256 ELSE byte

(* What a memory can be: bytes, within the array. *)
MemoryOK(mem) ==
  DOMAIN mem \subseteq 0..(ByteCapacity - 1) /\ mem \in [DOMAIN mem -> UnsignedByte]

----------------------------------------------------------------------------

IsAccessAligned(address, length) == address % length = 0

BytesToInteger(bytes) ==
  Signed(bytes[1]) * 16777216 + bytes[2] * 65536 + bytes[3] * 256 + bytes[4]

IntegerToBytes(i) ==
  << (i \div 16777216) % 256, (i \div 65536) % 256, (i \div 256) % 256, i % 256 >>

(* What get and set do before they touch the array.  The sum in the test   *)
(* wraps, so an address close to MaxInt passes it and the array access     *)
(* itself throws.                                                          *)
AddressFault(address, length) ==
  IF Add(address, length) > ByteCapacity \/ address < 0 THEN "InvalidAddress"
  ELSE IF address > ByteCapacity - length THEN "ArrayIndexOutOfBounds"
  ELSE "none"

Get(mem, address, length) ==
  [i \in 1..length |->
     LET a == address + i - 1 IN IF a \in DOMAIN mem THEN mem[a] ELSE 0]

Set(mem, address, bytes) ==
  LET written == address .. (address + Len(bytes) - 1)
  IN [a \in DOMAIN mem \cup written |-> IF a \in written THEN bytes[a - address + 1] ELSE mem[a]]

ReadInteger(mem, address) == BytesToInteger(Get(mem, address, 4))
WriteInteger(mem, address, v) == Set(mem, address, IntegerToBytes(v))

(* readInteger and writeInteger, unlike their Unaligned forms, refuse an   *)
(* address that is not a multiple of four before they look at the array.   *)
AlignedFault(address) ==
  IF IsAccessAligned(address, 4) THEN AddressFault(address, 4) ELSE "InvalidAddress"
=============================================================================
