-------------------------- MODULE SM213Proofs ------------------------------
(***************************************************************************)
(* What the SM213 promises for every int, every address, every capacity    *)
(* and every program: integers come back from memory as they were written, *)
(* no access leaves the array, an instruction has one effect, and S6-if.s  *)
(* and A5-c.s compute what their C does.                                   *)
(***************************************************************************)
EXTENDS SM213, SequenceTheorems, TLAPS

LEMMA Bounds == MaxInt \in Int /\ MinInt \in Int
  BY SMT DEF MaxInt, MinInt

LEMMA InJavaInt ==
  ASSUME NEW i \in Int
  PROVE  i \in JavaInt <=> MinInt <= i /\ i <= MaxInt
  BY SMT, Bounds DEF JavaInt

LEMMA JavaIntIsInt == \A i \in JavaInt : i \in Int
  BY SMT, Bounds DEF JavaInt

(* Java's + never leaves the range of int, and its result differs from the *)
(* sum by 2^32 or not at all.                                              *)
LEMMA AddWraps ==
  ASSUME NEW a \in JavaInt, NEW b \in JavaInt
  PROVE  /\ Add(a, b) \in JavaInt
         /\ a + b \in JavaInt => Add(a, b) = a + b
         /\ a + b > MaxInt => Add(a, b) = a + b - 4294967296
         /\ a + b < MinInt => Add(a, b) = a + b + 4294967296
<1>1. a \in Int /\ b \in Int /\ MinInt <= a /\ a <= MaxInt /\ MinInt <= b /\ b <= MaxInt
  BY JavaIntIsInt, InJavaInt
<1>2. /\ Add(a, b) \in Int /\ a + b \in Int
      /\ MinInt <= Add(a, b) /\ Add(a, b) <= MaxInt
      /\ MinInt <= a + b /\ a + b <= MaxInt => Add(a, b) = a + b
      /\ a + b > MaxInt => Add(a, b) = a + b - 4294967296
      /\ a + b < MinInt => Add(a, b) = a + b + 4294967296
  BY SMT, <1>1 DEF Add, MinInt, MaxInt
<1> QED
  BY <1>2, InJavaInt

(* bytesToInteger makes of the four bytes of integerToBytes the integer    *)
(* they came from (MainMemory.java 47-86): a word in memory is read as it  *)
(* was written, negative ones too.                                         *)
THEOREM IntegerRoundTrip ==
  ASSUME NEW i \in JavaInt
  PROVE  BytesToInteger(IntegerToBytes(i)) = i
<1> DEFINE b1 == (i \div 16777216) % 256
           b2 == (i \div 65536) % 256
           b3 == (i \div 256) % 256
           b4 == i % 256
<1>1. BytesToInteger(IntegerToBytes(i)) = Signed(b1) * 16777216 + b2 * 65536 + b3 * 256 + b4
  BY SMT DEF BytesToInteger, IntegerToBytes
<1>2. i \in Int /\ MinInt <= i /\ i <= MaxInt
  BY JavaIntIsInt, InJavaInt
<1>3. Signed(b1) = i \div 16777216
  BY SMT, <1>2 DEF Signed, MinInt, MaxInt
<1>4. i = 256 * (i \div 256) + b4
  BY SMT, <1>2
<1>5. i \div 256 = 256 * (i \div 65536) + b3
  BY SMT, <1>2
<1>6. i \div 65536 = 256 * (i \div 16777216) + b2
  BY SMT, <1>2
<1>7. /\ i \div 256 \in Int /\ i \div 65536 \in Int /\ i \div 16777216 \in Int
      /\ b2 \in Int /\ b3 \in Int /\ b4 \in Int
  BY SMT, <1>2
<1> HIDE DEF b1, b2, b3, b4
<1> QED
  BY SMT, <1>1, <1>2, <1>3, <1>4, <1>5, <1>6, <1>7

(* get and set check before they touch the array (MainMemory.java 98 and   *)
(* 119): an access they let through lies inside the array, whatever the    *)
(* capacity, and the addresses that throw Java's own exception instead of  *)
(* InvalidAddressException are those whose end wraps around.               *)
THEOREM NoAccessOutside ==
  ASSUME NEW address \in JavaInt, NEW length \in JavaInt,
         0 < length, length <= ByteCapacity
  PROVE  /\ AddressFault(address, length) = "none"
              <=> address >= 0 /\ address + length <= ByteCapacity
         /\ AddressFault(address, length) = "ArrayIndexOutOfBounds"
              <=> address + length > MaxInt
<1>1. /\ address \in Int /\ MinInt <= address /\ address <= MaxInt
      /\ length \in Int /\ MinInt <= length /\ length <= MaxInt
  BY JavaIntIsInt, InJavaInt
<1>2. ByteCapacity \in Int /\ ByteCapacity <= MaxInt
  BY CapacityAssumption, SMT DEF MaxInt
<1>3. /\ Add(address, length) \in Int
      /\ MinInt <= address + length /\ address + length <= MaxInt
           => Add(address, length) = address + length
      /\ address + length > MaxInt => Add(address, length) = address + length - 4294967296
<2>1. address + length \in Int
  BY SMT, <1>1
<2>2. address + length \in JavaInt <=> MinInt <= address + length /\ address + length <= MaxInt
  BY <2>1, InJavaInt
<2> QED
  BY <2>2, AddWraps, JavaIntIsInt
<1>4. CASE address < 0
  BY SMT, <1>1, <1>2, <1>3, <1>4 DEF AddressFault, MinInt, MaxInt
<1>5. CASE address >= 0 /\ address + length > MaxInt
  BY SMT, <1>1, <1>2, <1>3, <1>5 DEF AddressFault, MinInt, MaxInt
<1>6. CASE address >= 0 /\ address + length <= MaxInt
  BY SMT, <1>1, <1>2, <1>3, <1>6 DEF AddressFault, MinInt, MaxInt
<1> QED
  BY SMT, <1>1, <1>4, <1>5, <1>6, Bounds

----------------------------------------------------------------------------
(* The types of the machine, whatever program is in its memory. *)

Stages == {"fetch", "execute", "halt"} \cup Faults
Instructions ==
  [code : 0..15, op0 : 0..15, op1 : 0..15, op2 : 0..15, imm : -128..127, ext : JavaInt]

MachineOK ==
  /\ MemoryOK(mem)
  /\ reg \in [RegisterNumber -> JavaInt]
  /\ pc \in JavaInt
  /\ ins \in Instructions
  /\ status \in Stages

LEMMA SmallInts ==
  ASSUME NEW i \in Int, -128 <= i, i <= 255
  PROVE  i \in JavaInt
  BY SMT, InJavaInt DEF MinInt, MaxInt

LEMMA Times4Type == \A a \in JavaInt : Times4(a) \in JavaInt
  BY AddWraps DEF Times4

LEMMA WordType ==
  ASSUME NEW bytes \in [1..4 -> UnsignedByte]
  PROVE  BytesToInteger(bytes) \in JavaInt
<1>1. \A i \in 1..4 : bytes[i] \in Int /\ 0 <= bytes[i] /\ bytes[i] <= 255
  BY DEF UnsignedByte
<1>2. Signed(bytes[1]) \in Int /\ -128 <= Signed(bytes[1]) /\ Signed(bytes[1]) <= 127
  BY <1>1, SMT DEF Signed
<1>3. /\ BytesToInteger(bytes) \in Int
      /\ MinInt <= BytesToInteger(bytes) /\ BytesToInteger(bytes) <= MaxInt
  BY <1>1, <1>2, SMT DEF BytesToInteger, MinInt, MaxInt
<1>4. QED
  BY <1>3, InJavaInt

LEMMA BytesType ==
  ASSUME NEW i \in JavaInt
  PROVE  IntegerToBytes(i) \in [1..4 -> UnsignedByte] /\ Len(IntegerToBytes(i)) = 4
  BY JavaIntIsInt, SMT DEF IntegerToBytes, UnsignedByte

LEMMA GetType ==
  ASSUME NEW m, MemoryOK(m), NEW address \in Int, NEW length \in Nat
  PROVE  Get(m, address, length) \in [1..length -> UnsignedByte]
  BY SMT DEF Get, MemoryOK, UnsignedByte

LEMMA ReadType ==
  ASSUME NEW m, MemoryOK(m), NEW address \in JavaInt
  PROVE  ReadInteger(m, address) \in JavaInt
<1>1. address \in Int /\ 4 \in Nat
  BY JavaIntIsInt
<1>2. Get(m, address, 4) \in [1..4 -> UnsignedByte]
  BY <1>1, GetType
<1>3. QED
  BY <1>2, WordType DEF ReadInteger

LEMMA WriteType ==
  ASSUME NEW m, MemoryOK(m), NEW address \in JavaInt, NEW v \in JavaInt,
         AddressFault(address, 4) = "none"
  PROVE  MemoryOK(WriteInteger(m, address, v))
<1> DEFINE bytes == IntegerToBytes(v)
           written == address..(address + Len(bytes) - 1)
<1>1. bytes \in [1..4 -> 0..255] /\ Len(bytes) = 4
  BY BytesType DEF UnsignedByte
<1>2. address \in Int /\ 0 <= address /\ address + 4 <= ByteCapacity
  <2>1. address \in Int /\ MinInt <= address /\ address <= MaxInt /\ ByteCapacity \in Int
    BY JavaIntIsInt, InJavaInt, CapacityAssumption
  <2>2. QED
    BY <2>1, SMT DEF AddressFault
<1>3. WriteInteger(m, address, v) = [a \in DOMAIN m \cup written |->
                                     IF a \in written THEN bytes[a - address + 1] ELSE m[a]]
  BY DEF WriteInteger, Set
<1> HIDE DEF bytes
<1>4. \A a \in written : a \in 0..(ByteCapacity - 1) /\ bytes[a - address + 1] \in 0..255
  BY <1>1, <1>2, CapacityAssumption, SMT
<1>5. \A a \in DOMAIN m : a \in 0..(ByteCapacity - 1) /\ m[a] \in 0..255
  BY DEF MemoryOK, UnsignedByte
<1> HIDE DEF written
<1>6. QED
  BY <1>3, <1>4, <1>5 DEF MemoryOK, UnsignedByte

(* Every instruction ends in one way. *)
Ends ==
  \/ \E rd \in RegisterNumber, v \in JavaInt :
       reg' = [reg EXCEPT ![rd] = v] /\ Done /\ UNCHANGED <<mem, pc>>
  \/ \E address \in JavaInt, v \in JavaInt :
       AddressFault(address, 4) = "none" /\ Store(address, v)
  \/ \E target \in JavaInt : Jump(target)
  \/ Nothing
  \/ \E exception \in Faults \cup {"halt"} : Throw(exception)

LEMMA AssignEnds ==
  ASSUME NEW rd, NEW v \in JavaInt, Assign(rd, v)
  PROVE  Ends
  BY DEF Assign, Using, Ends, Faults

LEMMA FaultType ==
  ASSUME NEW address, NEW length
  PROVE  /\ AddressFault(address, length) \in Faults \cup {"none"}
         /\ AlignedFault(address) \in Faults \cup {"none"}
         /\ AlignedFault(address) = "none" => AddressFault(address, 4) = "none"
  BY DEF AddressFault, AlignedFault, Faults

LEMMA StoreEnds ==
  ASSUME NEW address \in JavaInt, NEW v \in JavaInt, NEW fault \in Faults \cup {"none"},
         fault = "none" => AddressFault(address, 4) = "none",
         Access(fault, Store(address, v))
  PROVE  Ends
  BY DEF Access, Ends

LEMMA JumpThroughEnds ==
  ASSUME MachineOK, NEW address \in JavaInt, JumpThrough(address)
  PROVE  Ends
  BY FaultType, ReadType DEF MachineOK, JumpThrough, Access, Ends

LEMMA LoadEnds ==
  ASSUME MachineOK, NEW rd, NEW address \in JavaInt,
         Access(AddressFault(address, 4), Assign(rd, ReadInteger(mem, address)))
  PROVE  Ends
<1>1. CASE AddressFault(address, 4) = "none"
  BY <1>1, AssignEnds, ReadType DEF MachineOK, Access
<1>2. CASE AddressFault(address, 4) # "none"
  BY <1>2, FaultType DEF Access, Ends
<1>3. QED
  BY <1>1, <1>2

LEMMA BitAndType ==
  ASSUME NEW a \in JavaInt, NEW b \in JavaInt
  PROVE  BitAnd(a, b) \in JavaInt
<1>1. ASSUME NEW x, NEW y PROVE ByteAnd(x, y) \in UnsignedByte
  BY SMT DEF ByteAnd, UnsignedByte
<1>2. QED
  BY <1>1, WordType DEF BitAnd

LEMMA ShiftType ==
  ASSUME NEW rd \in 0..15, NEW n \in Int
  PROVE  ShiftLeft(rd, n) \in JavaInt /\ (0 <= n => ShiftRight(rd, n) \in JavaInt)
<1>1. rd \in JavaInt /\ \A a \in JavaInt : Times16(a) \in JavaInt /\ Times256(a) \in JavaInt
  BY SmallInts, Times4Type DEF Times16, Times256
<1>2. ShiftLeft(rd, n) \in JavaInt
  <2> DEFINE by1 == IF n % 2 = 1 THEN Add(rd, rd) ELSE rd
             by2 == IF (n \div 2) % 2 = 1 THEN Times4(by1) ELSE by1
             by4 == IF (n \div 4) % 2 = 1 THEN Times16(by2) ELSE by2
             by8 == IF (n \div 8) % 2 = 1 THEN Times256(by4) ELSE by4
  <2>1. ShiftLeft(rd, n) = IF n > 15 THEN Times256(Times256(by8)) ELSE by8
    BY DEF ShiftLeft
  <2>2. by1 \in JavaInt
    BY <1>1, AddWraps
  <2> HIDE DEF by1
  <2>3. by2 \in JavaInt
    BY <2>2, Times4Type
  <2> HIDE DEF by2
  <2>4. by4 \in JavaInt
    BY <1>1, <2>3
  <2> HIDE DEF by4
  <2>5. by8 \in JavaInt
    BY <1>1, <2>4
  <2> HIDE DEF by8
  <2>6. QED
    BY <1>1, <2>1, <2>5
<1>3. ASSUME 0 <= n PROVE ShiftRight(rd, n) \in 0..15
  BY <1>3, SMT DEF ShiftRight
<1>4. QED
  BY <1>2, <1>3, SmallInts

(* A register, an operand of the instruction: what they make of them.      *)
LEMMA Operands ==
  ASSUME MachineOK
  PROVE  /\ \A r \in RegisterNumber : reg[r] \in JavaInt
         /\ \A i \in 0..15 : i * 4 \in JavaInt /\ 2 * i \in JavaInt
         /\ 2 * ins.imm \in JavaInt /\ 4 * ins.imm \in JavaInt
         /\ ins.op0 \in 0..15 /\ ins.op1 \in 0..15 /\ ins.op2 \in 0..15
         /\ ins.imm \in Int /\ ins.ext \in JavaInt
         /\ pc \in JavaInt /\ Relative \in JavaInt
<1>1. ins.imm \in Int /\ -128 <= ins.imm /\ ins.imm <= 127
  BY SMT DEF MachineOK, Instructions
<1>2. 2 * ins.imm \in JavaInt /\ 4 * ins.imm \in JavaInt
  BY <1>1, InJavaInt, SMT DEF MinInt, MaxInt
<1>3. \A i \in 0..15 : i * 4 \in JavaInt /\ 2 * i \in JavaInt
  BY SmallInts, SMT
<1>4. QED
  BY <1>1, <1>2, <1>3, AddWraps DEF MachineOK, Instructions, Relative

LEMMA ExecuteEnds ==
  ASSUME MachineOK, Execute
  PROVE  Ends
<1>1. CASE LoadImmediate
  BY <1>1, Operands, AssignEnds DEF LoadImmediate
<1>2. CASE LoadBase
  BY <1>2, Operands, AddWraps, LoadEnds DEF LoadBase, Using, Ends, Faults
<1>3. CASE LoadIndexed
  BY <1>3, Operands, AddWraps, Times4Type, LoadEnds DEF LoadIndexed, Using, Ends, Faults
<1>4. CASE StoreBase
  <2> DEFINE address == Add(ins.op1 * 4, reg[ins.op2])
  <2>1. CASE {ins.op2, ins.op0} \subseteq RegisterNumber
    <3>1. address \in JavaInt /\ reg[ins.op0] \in JavaInt
      BY <2>1, Operands, AddWraps
    <3>2. Access(AddressFault(address, 4), Store(address, reg[ins.op0]))
      BY <1>4, <2>1 DEF StoreBase, Using
    <3>3. QED
      BY <3>1, <3>2, FaultType, StoreEnds
  <2>2. QED
    BY <1>4, <2>1 DEF StoreBase, Using, Ends, Faults
<1>5. CASE StoreIndexed
  <2> DEFINE address == Add(reg[ins.op1], Times4(reg[ins.op2]))
  <2>1. CASE {ins.op0, ins.op1, ins.op2} \subseteq RegisterNumber
    <3>1. address \in JavaInt /\ reg[ins.op0] \in JavaInt
      BY <2>1, Operands, AddWraps, Times4Type
    <3>2. Access(AlignedFault(address), Store(address, reg[ins.op0]))
      BY <1>5, <2>1 DEF StoreIndexed, Using
    <3>3. QED
      BY <3>1, <3>2, FaultType, StoreEnds
  <2>2. QED
    BY <1>5, <2>1 DEF StoreIndexed, Using, Ends, Faults
<1>6. ASSUME NEW v, {ins.op1, ins.op2} \subseteq RegisterNumber => v \in JavaInt, FromBoth(v)
      PROVE  Ends
  BY <1>6, AssignEnds DEF FromBoth, Using, Ends, Faults
<1>7. ASSUME NEW v, ins.op2 \in RegisterNumber => v \in JavaInt, FromOne(v)
      PROVE  Ends
  BY <1>7, AssignEnds DEF FromOne, Using, Ends, Faults
<1>8. CASE Move \/ Addition \/ BitwiseAnd
  <2> DEFINE registers == {ins.op1, ins.op2} \subseteq RegisterNumber
  <2>1. registers => /\ Source \in JavaInt
                     /\ Add(Source, Destination) \in JavaInt
                     /\ BitAnd(Source, Destination) \in JavaInt
    BY Operands, AddWraps, BitAndType DEF Source, Destination
  <2>2. QED
    BY <1>6, <1>8, <2>1 DEF Move, Addition, BitwiseAnd
<1>9. CASE Increment \/ IncrementAddress \/ Decrement \/ DecrementAddress \/ BitwiseNot
  <2>1. ins.op2 \in RegisterNumber =>
          /\ Add(Destination, 1) \in JavaInt /\ Add(Destination, 4) \in JavaInt
          /\ Add(Destination, -1) \in JavaInt /\ Add(Destination, -4) \in JavaInt
          /\ -1 - Destination \in JavaInt
    <3> SUFFICES ASSUME ins.op2 \in RegisterNumber, Destination \in JavaInt
                 PROVE  /\ Add(Destination, 1) \in JavaInt /\ Add(Destination, 4) \in JavaInt
                        /\ Add(Destination, -1) \in JavaInt /\ Add(Destination, -4) \in JavaInt
                        /\ -1 - Destination \in JavaInt
      BY Operands DEF Destination
    <3>1. -1 - Destination \in JavaInt
      <4>1. Destination \in Int /\ MinInt <= Destination /\ Destination <= MaxInt
        BY JavaIntIsInt, InJavaInt
      <4>2. -1 - Destination \in Int /\ MinInt <= -1 - Destination /\ -1 - Destination <= MaxInt
        BY <4>1, SMT DEF MinInt, MaxInt
      <4>3. QED
        BY <4>2, InJavaInt
    <3>2. 1 \in JavaInt /\ 4 \in JavaInt /\ -1 \in JavaInt /\ -4 \in JavaInt
      BY SmallInts
    <3>3. QED
      BY <3>1, <3>2, AddWraps
  <2>2. QED
    BY <1>7, <1>9, <2>1
    DEF Increment, IncrementAddress, Decrement, DecrementAddress, BitwiseNot
<1>10. CASE GetPC
  BY <1>10, Operands, AddWraps, AssignEnds DEF GetPC
<1>11. CASE Shift
  <2>1. ins.imm % 32 \in Int /\ 0 <= ins.imm % 32
    BY Operands, SMT
  <2>2. QED
    BY <1>11, <2>1, Operands, ShiftType, AssignEnds DEF Shift
<1>12. CASE AluNothing \/ Nop
  BY <1>12 DEF AluNothing, Nop, Ends
<1>13. CASE Branch \/ JumpImmediate
  BY <1>13, Operands DEF Branch, JumpImmediate, Ends
<1>14. CASE BranchIfEqual \/ BranchIfGreater
  BY <1>14, Operands DEF BranchIfEqual, BranchIfGreater, Using, Ends, Faults
<1>15. CASE JumpIndirect
  BY <1>15, Operands, AddWraps DEF JumpIndirect, Using, Ends, Faults
<1>16. CASE JumpDoubleIndirect
  BY <1>16, Operands, AddWraps, JumpThroughEnds DEF JumpDoubleIndirect, Using, Ends, Faults
<1>17. CASE JumpIndexed
  BY <1>17, Operands, AddWraps, Times4Type, JumpThroughEnds DEF JumpIndexed, Using, Ends, Faults
<1>18. CASE Halt \/ Unknown
  BY <1>18 DEF Halt, Unknown, Ends, Faults
<1>19. QED
  BY <1>1, <1>2, <1>3, <1>4, <1>5, <1>8, <1>9, <1>10, <1>11, <1>12, <1>13, <1>14,
     <1>15, <1>16, <1>17, <1>18 DEF Execute

LEMMA EndsKeep ==
  ASSUME MachineOK, Ends
  PROVE  MachineOK'
<1>1. ASSUME NEW rd \in RegisterNumber, NEW v \in JavaInt,
             reg' = [reg EXCEPT ![rd] = v], Done, UNCHANGED <<mem, pc>>
      PROVE  MachineOK'
  BY <1>1 DEF MachineOK, Done, Stages
<1>2. ASSUME NEW address \in JavaInt, NEW v \in JavaInt,
             AddressFault(address, 4) = "none", Store(address, v)
      PROVE  MachineOK'
  <2>1. MemoryOK(mem)'
    BY <1>2, WriteType DEF MachineOK, Store
  <2>2. QED
    BY <1>2, <2>1 DEF MachineOK, Store, Done, Stages
<1>3. CASE Nothing \/ \E target \in JavaInt : Jump(target)
  BY <1>3 DEF MachineOK, MemoryOK, Nothing, Jump, Done, Stages
<1>4. ASSUME NEW exception \in Faults \cup {"halt"}, Throw(exception) PROVE MachineOK'
  BY <1>4 DEF MachineOK, MemoryOK, Throw, Stages
<1>5. QED
  BY <1>1, <1>2, <1>3, <1>4 DEF Ends

LEMMA DecodeType ==
  ASSUME MachineOK, NEW bytes \in [1..6 -> UnsignedByte]
  PROVE  Decode(bytes) \in Instructions
<1>1. \A i \in 1..6 : bytes[i] \in Int /\ 0 <= bytes[i] /\ bytes[i] <= 255
  BY DEF UnsignedByte
<1>2. /\ bytes[1] \div 16 \in 0..15 /\ bytes[1] % 16 \in 0..15
      /\ bytes[2] \div 16 \in 0..15 /\ bytes[2] % 16 \in 0..15
      /\ Signed(bytes[2]) \in -128..127
  BY <1>1, SMT DEF Signed
<1>3. SubSeq(bytes, 3, 6) \in [1..4 -> UnsignedByte]
  <2> DEFINE long == SubSeq(bytes, 3, 6)
  <2>1. 3 \in Int /\ 6 \in Int /\ \A i \in 3..6 : bytes[i] \in UnsignedByte
    OBVIOUS
  <2>2. long \in Seq(UnsignedByte) /\ Len(long) = IF 3 <= 6 THEN 6 - 3 + 1 ELSE 0
    BY <2>1, SubSeqProperties
  <2> HIDE DEF long
  <2>3. Len(long) = 4
    BY <2>2, SMT
  <2>4. long \in [1..4 -> UnsignedByte]
    BY <2>2, <2>3, LenProperties
  <2>5. QED
    BY <2>4 DEF long
<1>4. BytesToInteger(SubSeq(bytes, 3, 6)) \in JavaInt
  BY <1>3, WordType
<1>5. QED
  BY <1>2, <1>4 DEF Decode, MachineOK, Instructions

LEMMA FetchKeeps ==
  ASSUME MachineOK, Fetch
  PROVE  MachineOK'
<1>1. CASE FetchFault # "none"
  <2>1. Throw(FetchFault) /\ FetchFault \in Faults
    BY <1>1, FaultType DEF Fetch, FetchFault
  <2>2. QED
    BY <2>1 DEF MachineOK, MemoryOK, Throw, Stages
<1>2. CASE FetchFault = "none"
  <2>1. /\ ins' = Decode(Get(mem, pc, 6))
        /\ pc' = pc + (IF IsLong(ins'.code) THEN 6 ELSE 2)
        /\ status' = "execute" /\ UNCHANGED <<mem, reg>>
    BY <1>2 DEF Fetch
  <2>2. pc \in Int /\ 0 <= pc /\ pc + 6 <= ByteCapacity /\ ByteCapacity <= MaxInt
    <3>1. pc \in Int /\ ByteCapacity \in Int /\ ByteCapacity <= MaxInt
      BY JavaIntIsInt, CapacityAssumption, SMT DEF MachineOK, MaxInt
    <3>2. AddressFault(pc, 6) = "none"
      BY <1>2 DEF FetchFault, AddressFault
    <3>3. QED
      BY <3>1, <3>2, SMT DEF AddressFault
  <2>3. pc' \in Int /\ MinInt <= pc' /\ pc' <= MaxInt
    <3>1. pc' = pc + 6 \/ pc' = pc + 2
      BY <2>1
    <3>2. ByteCapacity \in Int
      BY CapacityAssumption
    <3>3. QED
      BY <2>2, <3>1, <3>2, SMT DEF MinInt, MaxInt
  <2>4. ins' \in Instructions
    BY <2>1, <2>2, GetType, DecodeType DEF MachineOK
  <2>5. QED
    BY <2>1, <2>3, <2>4, InJavaInt DEF MachineOK, MemoryOK, Stages
<1>3. QED
  BY <1>1, <1>2

(* Whatever a program is and does, even if it overwrites itself or runs    *)
(* into its data: the machine stays within the array and within the ranges *)
(* of the Java types, so none of its sums means anything but Java's.       *)
THEOREM MachineStaysInRange == CPUSpec => []MachineOK
<1>1. CPUInit /\ MemoryOK(mem) /\ pc \in JavaInt => MachineOK
  BY SmallInts DEF CPUInit, MachineOK, Instructions, Stages
<1>2. MachineOK /\ [Cycle]_cpuVars => MachineOK'
  BY FetchKeeps, ExecuteEnds, EndsKeep DEF Cycle, cpuVars, MachineOK, MemoryOK
<1>3. QED
  BY <1>1, <1>2, PTL DEF CPUSpec

(* What a byte of memory reads as.                                         *)
Byte(m, a) == IF a \in DOMAIN m THEN m[a] ELSE 0

LEMMA WordIs ==
  ASSUME NEW m, NEW address \in Int
  PROVE  /\ ReadInteger(m, address) = BytesToInteger(Get(m, address, 4))
         /\ Get(m, address, 4) = <<Byte(m, address), Byte(m, address + 1),
                                   Byte(m, address + 2), Byte(m, address + 3)>>
  BY SMT DEF ReadInteger, Get, Byte

LEMMA WrittenBytes ==
  ASSUME NEW m, NEW address \in Int, NEW v \in JavaInt, NEW a \in Int
  PROVE  Byte(WriteInteger(m, address, v), a) =
           IF a \in address..(address + 3) THEN IntegerToBytes(v)[a - address + 1] ELSE Byte(m, a)
<1> DEFINE bytes == IntegerToBytes(v)
           written == address..(address + Len(bytes) - 1)
<1>1. Len(bytes) = 4
  BY BytesType
<1>2. WriteInteger(m, address, v) = [b \in DOMAIN m \cup written |->
                                     IF b \in written THEN bytes[b - address + 1] ELSE m[b]]
  BY DEF WriteInteger, Set
<1> HIDE DEF bytes
<1>3. written = address..(address + 3)
  BY <1>1, SMT
<1>4. QED
  BY <1>2, <1>3 DEF Byte, bytes

(* A load reads what the last store to its four bytes wrote, and a store   *)
(* elsewhere does not change it, for any two addresses that do not         *)
(* overlap, aligned or not (readIntegerUnaligned, writeIntegerUnaligned).  *)
THEOREM WordsAreKept ==
  ASSUME NEW m, NEW address \in Int, NEW v \in JavaInt
  PROVE  /\ ReadInteger(WriteInteger(m, address, v), address) = v
         /\ \A other \in Int : (other + 4 <= address \/ address + 4 <= other)
              => ReadInteger(WriteInteger(m, address, v), other) = ReadInteger(m, other)
<1> DEFINE n == WriteInteger(m, address, v)
<1>1. \A a \in Int : Byte(n, a) = IF a \in address..(address + 3)
                                  THEN IntegerToBytes(v)[a - address + 1] ELSE Byte(m, a)
  BY WrittenBytes
<1> HIDE DEF n
<1>2. ReadInteger(n, address) = v
  <2>1. /\ Byte(n, address) = IntegerToBytes(v)[1] /\ Byte(n, address + 1) = IntegerToBytes(v)[2]
        /\ Byte(n, address + 2) = IntegerToBytes(v)[3] /\ Byte(n, address + 3) = IntegerToBytes(v)[4]
    BY <1>1, SMT
  <2>2. Get(n, address, 4) = IntegerToBytes(v)
    BY <2>1, WordIs DEF IntegerToBytes
  <2>3. QED
    BY <2>2, IntegerRoundTrip DEF ReadInteger
<1>3. ASSUME NEW other \in Int, other + 4 <= address \/ address + 4 <= other
      PROVE  ReadInteger(n, other) = ReadInteger(m, other)
  <2>1. /\ Byte(n, other) = Byte(m, other) /\ Byte(n, other + 1) = Byte(m, other + 1)
        /\ Byte(n, other + 2) = Byte(m, other + 2) /\ Byte(n, other + 3) = Byte(m, other + 3)
    BY <1>1, <1>3, SMT
  <2>2. QED
    BY <2>1, WordIs
<1>4. QED
  BY <1>2, <1>3 DEF n

(* What an instruction may do to the machine.                              *)
OneEffect ==
  /\ status' \in Faults => UNCHANGED <<mem, reg, pc, ins>>
  /\ status = "execute" =>
       \/ UNCHANGED <<mem, reg>>
       \/ UNCHANGED <<mem, pc>>
       \/ /\ UNCHANGED <<reg, pc>>
          /\ \E address \in 0..(ByteCapacity - 4) : \A a \in Int :
               a \notin address..(address + 3) => Byte(mem', a) = Byte(mem, a)

(* An instruction changes a register, the program counter or one word      *)
(* within the array, never two of them, and one that throws, in fetch or   *)
(* in execute, has changed nothing: every case of execute reads and checks *)
(* before it sets, and so does fetch.                                      *)
THEOREM InstructionsHaveOneEffect == CPUSpec => [][OneEffect]_cpuVars
<1>1. ASSUME MachineOK, Cycle PROVE OneEffect
  <2>1. CASE Fetch
    BY <2>1, FaultType DEF Fetch, FetchFault, Throw, OneEffect, Faults
  <2>2. ASSUME NEW address \in JavaInt, NEW v \in JavaInt,
               AddressFault(address, 4) = "none", Store(address, v)
        PROVE  OneEffect
    <3>1. address \in Int /\ ByteCapacity \in Int
      BY JavaIntIsInt, CapacityAssumption
    <3>2. address \in 0..(ByteCapacity - 4)
      BY <2>2, <3>1, SMT DEF AddressFault
    <3>3. \A a \in Int : a \notin address..(address + 3) => Byte(mem', a) = Byte(mem, a)
      BY <2>2, <3>1, WrittenBytes DEF Store
    <3>4. QED
      BY <2>2, <3>2, <3>3 DEF Store, Done, OneEffect, Faults
  <2>3. CASE Ends
    BY <2>2, <2>3 DEF Ends, Done, Jump, Nothing, Throw, OneEffect, Faults
  <2>4. QED
    BY <1>1, <2>1, <2>3, ExecuteEnds DEF Cycle
<1>2. MachineOK /\ [Cycle]_cpuVars => [OneEffect]_cpuVars
  BY <1>1
<1>3. QED
  BY <1>2, MachineStaysInRange, PTL DEF CPUSpec


----------------------------------------------------------------------------
(* Running a text: what fetch makes of the halfword at q, when memory m    *)
(* holds the text, and what execute then does.                             *)

HalfAt(m, a) == 256 * Byte(m, a) + Byte(m, a + 1)

Holds(m, text) == \A a \in DOMAIN text : Byte(m, a) = text[a]

Decoded(m, q, i, next) ==
  /\ i.code = HalfAt(m, q) \div 4096 /\ i.op0 = (HalfAt(m, q) \div 256) % 16
  /\ i.op1 = (HalfAt(m, q) \div 16) % 16 /\ i.op2 = HalfAt(m, q) % 16
  /\ i.imm = Signed(HalfAt(m, q) % 256)
  /\ IsLong(i.code) => i.ext = ReadInteger(m, q + 2)
  /\ next = q + (IF IsLong(i.code) THEN 6 ELSE 2)

LEMMA HalfwordsAt ==
  ASSUME NEW base \in Int, NEW hs, NEW a \in base..(base + 2 * Len(hs) - 1),
         NEW k, k = (a - base) \div 2 + 1
  PROVE  /\ a \in DOMAIN Halfwords(base, hs)
         /\ Halfwords(base, hs)[a] = IF (a - base) % 2 = 0 THEN hs[k] \div 256 ELSE hs[k] % 256
  BY DEF Halfwords

LEMMA TextIs ==
  ASSUME NEW m, NEW base \in Int, NEW hs, Holds(m, Halfwords(base, hs)), Len(hs) \in Nat,
         NEW k \in Int, 1 <= k, k <= Len(hs), NEW h \in Int, 0 <= h, h <= 65535, hs[k] = h
  PROVE  HalfAt(m, base + 2 * (k - 1)) = h
<1> DEFINE text == Halfwords(base, hs)
           a == base + 2 * (k - 1)
<1>1. /\ a \in base..(base + 2 * Len(hs) - 1) /\ a + 1 \in base..(base + 2 * Len(hs) - 1)
      /\ k = (a - base) \div 2 + 1 /\ k = ((a + 1) - base) \div 2 + 1
      /\ (a - base) % 2 = 0 /\ ((a + 1) - base) % 2 = 1
  BY SMT
<1> HIDE DEF a, text
<1>2. a \in DOMAIN text /\ text[a] = h \div 256
  BY <1>1, HalfwordsAt DEF text
<1>3. a + 1 \in DOMAIN text /\ text[a + 1] = h % 256
  BY <1>1, HalfwordsAt DEF text
<1>4. Byte(m, a) = h \div 256 /\ Byte(m, a + 1) = h % 256
  BY <1>2, <1>3 DEF Holds, text
<1>5. HalfAt(m, a) = h
  BY <1>4, SMT DEF HalfAt
<1>6. QED
  BY <1>5 DEF a

LEMMA NoFault ==
  ASSUME NEW address \in Int, 0 <= address, NEW length \in 1..6, address + length <= ByteCapacity
  PROVE  AddressFault(address, length) = "none"
<1>1. ByteCapacity \in Int /\ ByteCapacity <= MaxInt
  BY CapacityAssumption DEF MaxInt
<1>2. address \in JavaInt /\ length \in JavaInt /\ address + length \in JavaInt
  BY <1>1, InJavaInt, SMT DEF MinInt, MaxInt
<1>3. Add(address, length) = address + length
  BY <1>2, AddWraps
<1>4. QED
  BY <1>1, <1>3, SMT DEF AddressFault

LEMMA FetchDecodes ==
  ASSUME MachineOK, Fetch, 0 <= pc, pc + 6 <= ByteCapacity
  PROVE  status' = "execute" /\ UNCHANGED <<mem, reg>> /\ Decoded(mem, pc, ins', pc')
<1>1. pc \in Int /\ ins' = Decode(Get(mem, pc, 6)) /\ pc' = pc + (IF IsLong(ins'.code) THEN 6 ELSE 2)
      /\ status' = "execute" /\ UNCHANGED <<mem, reg>>
  <2>1. pc \in Int /\ MinInt <= pc /\ pc <= MaxInt /\ ByteCapacity \in Int /\ ByteCapacity <= MaxInt
    BY JavaIntIsInt, InJavaInt, CapacityAssumption DEF MachineOK, MaxInt
  <2>2. FetchFault = "none"
    BY <2>1, NoFault DEF FetchFault
  <2>3. QED
    BY <2>1, <2>2 DEF Fetch
<1>2. \A i \in 1..6 : Get(mem, pc, 6)[i] = Byte(mem, pc + i - 1)
  BY DEF Get, Byte
<1>3. \A i \in 1..6 : Get(mem, pc, 6)[i] \in UnsignedByte
  <2>1. Get(mem, pc, 6) \in [1..6 -> UnsignedByte]
    BY <1>1, GetType DEF MachineOK
  <2>2. QED
    BY <2>1
<1>4. /\ HalfAt(mem, pc) \div 4096 = Get(mem, pc, 6)[1] \div 16
      /\ (HalfAt(mem, pc) \div 256) % 16 = Get(mem, pc, 6)[1] % 16
      /\ (HalfAt(mem, pc) \div 16) % 16 = Get(mem, pc, 6)[2] \div 16
      /\ HalfAt(mem, pc) % 16 = Get(mem, pc, 6)[2] % 16
      /\ HalfAt(mem, pc) % 256 = Get(mem, pc, 6)[2]
  <2> DEFINE x == Get(mem, pc, 6)[1]
             y == Get(mem, pc, 6)[2]
  <2>1. HalfAt(mem, pc) = 256 * x + y
    BY <1>1, <1>2 DEF HalfAt
  <2>2. x \in Int /\ 0 <= x /\ x <= 255 /\ y \in Int /\ 0 <= y /\ y <= 255
    BY <1>3 DEF UnsignedByte
  <2> HIDE DEF x, y
  <2>3. /\ (256 * x + y) \div 4096 = x \div 16 /\ ((256 * x + y) \div 256) % 16 = x % 16
        /\ ((256 * x + y) \div 16) % 16 = y \div 16 /\ (256 * x + y) % 16 = y % 16
        /\ (256 * x + y) % 256 = y
    BY <2>2, SMT
  <2>4. QED
    BY <2>1, <2>3 DEF x, y
<1>5. BytesToInteger(SubSeq(Get(mem, pc, 6), 3, 6)) = ReadInteger(mem, pc + 2)
  <2>1. \A i \in 1..4 : SubSeq(Get(mem, pc, 6), 3, 6)[i] = Byte(mem, pc + 2 + i - 1)
    BY <1>1, <1>2, <1>3
  <2>2. QED
    BY <1>1, <2>1, WordIs DEF BytesToInteger
<1>6. QED
  BY <1>1, <1>4, <1>5 DEF Decode, Decoded

(* The machine is about to fetch the instruction at q, or to execute it.   *)
Stage(q) ==
  \/ (status = "fetch" /\ pc = q)
  \/ (status = "execute" /\ Decoded(mem, q, ins, pc))

LEMMA StageFetches ==
  ASSUME MachineOK, NEW q, Stage(q), Fetch, 0 <= q, q + 6 <= ByteCapacity
  PROVE  Stage(q)' /\ status' = "execute" /\ UNCHANGED <<mem, reg>>
<1>1. pc = q
  BY DEF Stage, Fetch
<1>2. status' = "execute" /\ UNCHANGED <<mem, reg>> /\ Decoded(mem, pc, ins', pc')
  BY <1>1, FetchDecodes
<1>3. Decoded(mem, q, ins, pc)'
  BY <1>1, <1>2 DEF Decoded, HalfAt, Byte
<1>4. QED
  BY <1>2, <1>3 DEF Stage

LEMMA MachineKept ==
  ASSUME MachineOK, [Next]_vars
  PROVE  MachineOK'
  BY FetchKeeps, ExecuteEnds, EndsKeep DEF Next, Cycle, Stopped, vars, cpuVars, MachineOK, MemoryOK

LEMMA ExecutesIn ==
  ASSUME Execute
  PROVE  status = "execute"
  BY DEF Execute, Executes, LoadImmediate, LoadBase, LoadIndexed, StoreBase, StoreIndexed,
     Move, Addition, BitwiseAnd, Increment, IncrementAddress, Decrement, DecrementAddress,
     BitwiseNot, GetPC, AluNothing, Shift, Branch, BranchIfEqual, BranchIfGreater, JumpImmediate,
     JumpIndirect, JumpDoubleIndirect, JumpIndexed, Halt, Nop, Unknown, Alu

(* An instruction whose operands are registers, case by case.              *)
Sets(rd, v) == reg' = [reg EXCEPT ![rd] = v] /\ status' = "fetch" /\ UNCHANGED <<mem, pc>>
Goes(target) == pc' = target /\ status' = "fetch" /\ UNCHANGED <<mem, reg>>

LEMMA Cases ==
  ASSUME Execute
  PROVE  /\ ins.code = 0 => LoadImmediate
         /\ ins.code = 1 => LoadBase
         /\ ins.code = 3 => StoreBase
         /\ ins.code = 6 => /\ ins.op0 = 0 => Move
                            /\ ins.op0 = 1 => Addition
                            /\ ins.op0 = 3 => Increment
                            /\ ins.op0 = 7 => BitwiseNot
                            /\ ins.op0 = 15 => GetPC
         /\ ins.code = 8 => Branch
         /\ ins.code = 9 => BranchIfEqual
         /\ ins.code = 10 => BranchIfGreater
         /\ ins.code = 11 => JumpImmediate
         /\ ins.code = 12 => JumpIndirect
         /\ ins.code = 14 => JumpIndexed
         /\ ins.code = 15 /\ ins.op0 = 0 => Halt
  BY DEF Execute, LoadImmediate, LoadBase, LoadIndexed, StoreBase, StoreIndexed,
     Move, Addition, BitwiseAnd, Increment, IncrementAddress, Decrement, DecrementAddress,
     BitwiseNot, GetPC, AluNothing, Shift, Branch, BranchIfEqual, BranchIfGreater, JumpImmediate,
     JumpIndirect, JumpDoubleIndirect, JumpIndexed, Halt, Nop, Unknown, Alu, Executes

LEMMA Runs ==
  ASSUME Execute, {ins.op0, ins.op1, ins.op2} \subseteq RegisterNumber
  PROVE  /\ ins.code = 0 => Sets(ins.op0, ins.ext)
         /\ ins.code = 6 => /\ ins.op0 = 0 => Sets(ins.op2, reg[ins.op1])
                            /\ ins.op0 = 1 => Sets(ins.op2, Add(reg[ins.op1], reg[ins.op2]))
                            /\ ins.op0 = 3 => Sets(ins.op2, Add(reg[ins.op2], 1))
                            /\ ins.op0 = 7 => Sets(ins.op2, -1 - reg[ins.op2])
  BY Cases DEF LoadImmediate, Move, Addition, Increment, BitwiseNot, FromBoth, FromOne,
     Source, Destination, Assign, Using, Throw, Done, Sets

LEMMA ProgramCounter ==
  ASSUME Execute, ins.code = 6, ins.op0 = 15, ins.op2 \in RegisterNumber
  PROVE  Sets(ins.op2, Add(pc, 2 * ins.op1))
  BY Cases DEF GetPC, Assign, Using, Done, Sets

LEMMA Jumps ==
  ASSUME Execute, ins.op0 \in RegisterNumber
  PROVE  /\ ins.code = 8 => Goes(Relative)
         /\ ins.code = 9 => Goes(IF reg[ins.op0] = 0 THEN Relative ELSE pc)
         /\ ins.code = 10 => Goes(IF reg[ins.op0] > 0 THEN Relative ELSE pc)
         /\ ins.code = 11 => Goes(ins.ext)
         /\ ins.code = 12 => Goes(Add(reg[ins.op0], 2 * ins.imm))
         /\ ins.code = 15 /\ ins.op0 = 0 => status' = "halt" /\ UNCHANGED <<mem, reg>>
  BY Cases DEF Branch, BranchIfEqual, BranchIfGreater, JumpImmediate, JumpIndirect, Halt,
     Using, Jump, Nothing, Throw, Done, Goes

LEMMA MemoryRuns ==
  ASSUME Execute, {ins.op0, ins.op1, ins.op2} \subseteq RegisterNumber
  PROVE  /\ \A address : ins.code = 1 /\ address = Add(ins.op0 * 4, reg[ins.op1])
                         /\ AddressFault(address, 4) = "none"
              => Sets(ins.op2, ReadInteger(mem, address))
         /\ \A address : ins.code = 3 /\ address = Add(ins.op1 * 4, reg[ins.op2])
                         /\ AddressFault(address, 4) = "none"
              => /\ mem' = WriteInteger(mem, address, reg[ins.op0])
                 /\ status' = "fetch" /\ UNCHANGED <<reg, pc>>
         /\ \A address : ins.code = 14 /\ address = Add(reg[ins.op0], Times4(reg[ins.op1]))
                         /\ AlignedFault(address) = "none"
              => Goes(ReadInteger(mem, address))
  BY Cases DEF LoadBase, StoreBase, JumpIndexed, JumpThrough, Jump, Assign, Store, Using, Access,
     Done, Sets, Goes

LEMMA WordOfHalves ==
  ASSUME NEW m, MemoryOK(m), NEW a \in Int, HalfAt(m, a) < 32768
  PROVE  ReadInteger(m, a) = 65536 * HalfAt(m, a) + HalfAt(m, a + 2)
<1>1. \A i \in Int : Byte(m, i) \in Int /\ 0 <= Byte(m, i) /\ Byte(m, i) <= 255
  BY DEF MemoryOK, UnsignedByte, Byte
<1>2. ReadInteger(m, a) = Signed(Byte(m, a)) * 16777216 + Byte(m, a + 1) * 65536
                            + Byte(m, a + 2) * 256 + Byte(m, a + 3)
  BY WordIs DEF BytesToInteger
<1>3. a + 1 \in Int /\ a + 2 \in Int /\ a + 3 \in Int /\ (a + 2) + 1 = a + 3
  OBVIOUS
<1>4. Signed(Byte(m, a)) = Byte(m, a)
  BY <1>1, <1>3, SMT DEF HalfAt, Signed
<1>5. QED
  BY <1>1, <1>2, <1>3, <1>4, SMT DEF HalfAt

LEMMA S6Text ==
  ASSUME NEW m, MemoryOK(m), Holds(m, S6If)
  PROVE  /\ HalfAt(m, \h100) = 0 /\ ReadInteger(m, \h102) = \h1000
         /\ HalfAt(m, \h106) = \h1000
         /\ HalfAt(m, \h108) = \h100 /\ ReadInteger(m, \h10a) = \h2000
         /\ HalfAt(m, \h10e) = \h1011 /\ HalfAt(m, \h110) = \h6012 /\ HalfAt(m, \h112) = \h6702
         /\ HalfAt(m, \h114) = \h6302 /\ HalfAt(m, \h116) = \h6102 /\ HalfAt(m, \h118) = \ha202
         /\ HalfAt(m, \h11a) = \h6013 /\ HalfAt(m, \h11c) = \h8001 /\ HalfAt(m, \h11e) = \h6003
         /\ HalfAt(m, \h120) = 0 /\ ReadInteger(m, \h122) = \h3000
         /\ HalfAt(m, \h126) = \h3300 /\ HalfAt(m, \h128) = \hf000
<1> DEFINE hs == << 0, 0, \h1000, \h1000, \h100, 0, \h2000, \h1011, \h6012, \h6702, \h6302,
                    \h6102, \ha202, \h6013, \h8001, \h6003, 0, 0, \h3000, \h3300, \hf000 >>
<1>1. S6If = Halfwords(\h100, hs)
  BY DEF S6If
<1>2. Len(hs) = 21
  OBVIOUS
<1>3. /\ hs[1] = 0 /\ hs[2] = 0 /\ hs[3] = \h1000 /\ hs[4] = \h1000
      /\ hs[5] = \h100 /\ hs[6] = 0 /\ hs[7] = \h2000 /\ hs[8] = \h1011
      /\ hs[9] = \h6012 /\ hs[10] = \h6702 /\ hs[11] = \h6302 /\ hs[12] = \h6102
      /\ hs[13] = \ha202 /\ hs[14] = \h6013 /\ hs[15] = \h8001 /\ hs[16] = \h6003
      /\ hs[17] = 0 /\ hs[18] = 0 /\ hs[19] = \h3000 /\ hs[20] = \h3300
      /\ hs[21] = \hf000
  OBVIOUS
<1> HIDE DEF hs
<1>4. ASSUME NEW k \in Int, 1 <= k, k <= 21, NEW h \in Int, 0 <= h, h <= 65535, hs[k] = h
      PROVE  HalfAt(m, \h100 + 2 * (k - 1)) = h
  <2>1. Holds(m, Halfwords(\h100, hs)) /\ \h100 \in Int /\ Len(hs) \in Nat /\ k <= Len(hs)
    BY <1>1, <1>2, <1>4
  <2>2. QED
    BY <1>4, <2>1, TextIs
<1>5. /\ HalfAt(m, \h100) = 0 /\ HalfAt(m, \h102) = 0 /\ HalfAt(m, \h104) = \h1000
      /\ HalfAt(m, \h106) = \h1000 /\ HalfAt(m, \h108) = \h100 /\ HalfAt(m, \h10a) = 0
      /\ HalfAt(m, \h10c) = \h2000 /\ HalfAt(m, \h10e) = \h1011 /\ HalfAt(m, \h110) = \h6012
      /\ HalfAt(m, \h112) = \h6702 /\ HalfAt(m, \h114) = \h6302 /\ HalfAt(m, \h116) = \h6102
      /\ HalfAt(m, \h118) = \ha202 /\ HalfAt(m, \h11a) = \h6013 /\ HalfAt(m, \h11c) = \h8001
      /\ HalfAt(m, \h11e) = \h6003 /\ HalfAt(m, \h120) = 0 /\ HalfAt(m, \h122) = 0
      /\ HalfAt(m, \h124) = \h3000 /\ HalfAt(m, \h126) = \h3300 /\ HalfAt(m, \h128) = \hf000
  BY <1>3, <1>4
<1>6. QED
  BY <1>5, WordOfHalves

----------------------------------------------------------------------------
(* S6-if.s on any two words a and b whose difference is an int.            *)

S6a == Word(loaded, \h1000)
S6b == Word(loaded, \h2000)
Difference == Subtract(S6a, S6b)
Greater == IF Difference > 0 THEN S6a ELSE S6b

(* What the registers hold when the instruction at q runs.                 *)
S6At(q) ==
  \/ q = \h100
  \/ (q = \h106 /\ reg[0] = \h1000)
  \/ (q = \h108 /\ reg[0] = S6a)
  \/ (q = \h10e /\ reg[0] = S6a /\ reg[1] = \h2000)
  \/ (q = \h110 /\ reg[0] = S6a /\ reg[1] = S6b)
  \/ (q = \h112 /\ reg[0] = S6a /\ reg[1] = S6b /\ reg[2] = S6b)
  \/ (q = \h114 /\ reg[0] = S6a /\ reg[1] = S6b /\ reg[2] = -1 - S6b)
  \/ (q = \h116 /\ reg[0] = S6a /\ reg[1] = S6b /\ reg[2] = Add(-1 - S6b, 1))
  \/ (q = \h118 /\ reg[0] = S6a /\ reg[1] = S6b /\ reg[2] = Difference)
  \/ (q = \h11a /\ reg[1] = S6b /\ ~(Difference > 0))
  \/ (q = \h11c /\ reg[3] = S6b /\ ~(Difference > 0))
  \/ (q = \h11e /\ reg[0] = S6a /\ Difference > 0)
  \/ (q = \h120 /\ reg[3] = Greater)
  \/ (q = \h126 /\ reg[3] = Greater /\ reg[0] = \h3000)

(* Until the store at 126 memory is as it was loaded.                      *)
S6Runs ==
  \/ /\ mem = loaded
     /\ \E q \in \h100..\h126 : S6At(q) /\ Stage(q)
  \/ /\ mem = WriteInteger(loaded, \h3000, Greater)
     /\ Stage(\h128) \/ status = "halt"

(* What does not change while the program runs.                            *)
S6Loaded ==
  /\ prog = "S6_if" /\ calls = << >>
  /\ MemoryOK(loaded) /\ Holds(loaded, S6If) /\ DifferenceFits(S6a, S6b)

S6Inv == MachineOK /\ S6Loaded /\ S6Runs

(* One instruction leads from what the registers hold before it to what    *)
(* they hold before the next, the branch at 118 to one of two.             *)
LEMMA S6Execute ==
  ASSUME S6Inv, mem = loaded, NEW q \in \h100..\h126, S6At(q), Decoded(mem, q, ins, pc), Execute,
         \h3004 <= ByteCapacity, UNCHANGED loaded
  PROVE  S6Runs'
<1> USE DEF RegisterNumber, IsLong
<1>1. /\ S6a' = S6a /\ S6b' = S6b /\ Difference' = Difference /\ Greater' = Greater
      /\ S6a = ReadInteger(mem, \h1000) /\ S6b = ReadInteger(mem, \h2000)
  BY DEF S6a, S6b, Difference, Greater, Word
<1>2. ASSUME NEW n \in \h100..\h126, S6At(n)', pc' = n, status' = "fetch", mem' = mem
      PROVE  S6Runs'
  <2>1. Stage(n)'
    BY <1>2 DEF Stage
  <2>2. mem' = loaded'
    BY <1>2
  <2>3. QED
    BY <1>2, <2>1, <2>2 DEF S6Runs
<1> DEFINE Is(code, op0, op1, op2) ==
             ins.code = code /\ ins.op0 = op0 /\ ins.op1 = op1 /\ ins.op2 = op2
<1>3. MemoryOK(mem) /\ Holds(mem, S6If)
  BY DEF S6Inv, S6Loaded
<1>4. \A a \in {\h1000, \h2000, \h3000} : Add(0 * 4, a) = a /\ AddressFault(a, 4) = "none"
  <2>1. ByteCapacity \in Int
    BY CapacityAssumption
  <2>2. QED
    BY <2>1, NoFault, SMT DEF Add, MaxInt, MinInt
<1>5. CASE q = \h100
  <2>1. Is(0, 0, 0, 0) /\ ins.ext = \h1000 /\ pc = \h106
    BY <1>3, <1>5, S6Text DEF Decoded
  <2>2. Sets(0, \h1000)
    BY <2>1, Runs
  <2>3. S6At(\h106)'
    BY <1>1, <2>2 DEF Sets, S6At, S6Inv, MachineOK
  <2>4. QED
    BY <1>2, <2>1, <2>2, <2>3 DEF Sets
<1>6. CASE q = \h108
  <2>1. Is(0, 1, 0, 0) /\ ins.ext = \h2000 /\ pc = \h10e
    BY <1>3, <1>6, S6Text DEF Decoded, Signed
  <2>2. Sets(1, \h2000)
    BY <1>6, <2>1, Runs
  <2>3. S6At(\h10e)'
    BY <1>1, <1>6, <2>2 DEF Sets, S6At, S6Inv, MachineOK
  <2>4. QED
    BY <1>2, <2>1, <2>2, <2>3 DEF Sets
<1>7. CASE q = \h110
  <2>1. Is(6, 0, 1, 2) /\ pc = \h112
    BY <1>3, <1>7, S6Text DEF Decoded, Signed
  <2>2. Sets(2, reg[1])
    BY <1>7, <2>1, Runs
  <2>3. S6At(\h112)'
    BY <1>1, <1>7, <2>2 DEF Sets, S6At, S6Inv, MachineOK
  <2>4. QED
    BY <1>2, <2>1, <2>2, <2>3 DEF Sets
<1>8. CASE q = \h112
  <2>1. Is(6, 7, 0, 2) /\ pc = \h114
    BY <1>3, <1>8, S6Text DEF Decoded, Signed
  <2>2. Sets(2, -1 - reg[2])
    BY <1>8, <2>1, Runs
  <2>3. S6At(\h114)'
    BY <1>1, <1>8, <2>2 DEF Sets, S6At, S6Inv, MachineOK
  <2>4. QED
    BY <1>2, <2>1, <2>2, <2>3 DEF Sets
<1>9. CASE q = \h114
  <2>1. Is(6, 3, 0, 2) /\ pc = \h116
    BY <1>3, <1>9, S6Text DEF Decoded, Signed
  <2>2. Sets(2, Add(reg[2], 1))
    BY <1>9, <2>1, Runs
  <2>3. S6At(\h116)'
    BY <1>1, <1>9, <2>2 DEF Sets, S6At, S6Inv, MachineOK
  <2>4. QED
    BY <1>2, <2>1, <2>2, <2>3 DEF Sets
<1>10. CASE q = \h116
  <2>1. Is(6, 1, 0, 2) /\ pc = \h118
    BY <1>3, <1>10, S6Text DEF Decoded, Signed
  <2>2. Sets(2, Add(reg[0], reg[2]))
    BY <1>10, <2>1, Runs
  <2>3. S6At(\h118)'
    BY <1>1, <1>10, <2>2 DEF Difference, Subtract, Sets, S6At, S6Inv, MachineOK
  <2>4. QED
    BY <1>2, <2>1, <2>2, <2>3 DEF Sets
<1>11. CASE q = \h11a
  <2>1. Is(6, 0, 1, 3) /\ pc = \h11c
    BY <1>3, <1>11, S6Text DEF Decoded, Signed
  <2>2. Sets(3, reg[1])
    BY <1>11, <2>1, Runs
  <2>3. S6At(\h11c)'
    BY <1>1, <1>11, <2>2 DEF Sets, S6At, S6Inv, MachineOK
  <2>4. QED
    BY <1>2, <2>1, <2>2, <2>3 DEF Sets
<1>12. CASE q = \h11e
  <2>1. Is(6, 0, 0, 3) /\ pc = \h120
    BY <1>3, <1>12, S6Text DEF Decoded, Signed
  <2>2. Sets(3, reg[0])
    BY <1>12, <2>1, Runs
  <2>3. S6At(\h120)'
    BY <1>1, <1>12, <2>2 DEF Greater, Sets, S6At, S6Inv, MachineOK
  <2>4. QED
    BY <1>2, <2>1, <2>2, <2>3 DEF Sets
<1>13. CASE q = \h120
  <2>1. Is(0, 0, 0, 0) /\ ins.ext = \h3000 /\ pc = \h126
    BY <1>3, <1>13, S6Text DEF Decoded, Signed
  <2>2. Sets(0, \h3000)
    BY <1>13, <2>1, Runs
  <2>3. S6At(\h126)'
    BY <1>1, <1>13, <2>2 DEF Sets, S6At, S6Inv, MachineOK
  <2>4. QED
    BY <1>2, <2>1, <2>2, <2>3 DEF Sets
<1>14. CASE q = \h106
  <2>1. Is(1, 0, 0, 0) /\ pc = \h108
    BY <1>3, <1>14, S6Text DEF Decoded, Signed
  <2>2. Add(0 * 4, reg[0]) = \h1000 /\ AddressFault(\h1000, 4) = "none"
    BY <1>14, <1>4 DEF S6At
  <2>3. Sets(0, S6a)
    BY <1>1, <2>1, <2>2, MemoryRuns
  <2>4. S6At(\h108)'
    BY <1>1, <2>3 DEF Sets, S6At, S6Inv, MachineOK
  <2>5. QED
    BY <1>2, <2>1, <2>3, <2>4 DEF Sets
<1>15. CASE q = \h10e
  <2>1. Is(1, 0, 1, 1) /\ pc = \h110
    BY <1>3, <1>15, S6Text DEF Decoded, Signed
  <2>2. Add(0 * 4, reg[1]) = \h2000 /\ AddressFault(\h2000, 4) = "none"
    BY <1>4, <1>15 DEF S6At
  <2>3. Sets(1, S6b)
    BY <1>1, <2>1, <2>2, MemoryRuns
  <2>4. S6At(\h110)'
    BY <1>1, <1>15, <2>3 DEF Sets, S6At, S6Inv, MachineOK
  <2>5. QED
    BY <1>2, <2>1, <2>3, <2>4 DEF Sets
<1>16. CASE q = \h118
  <2>1. Is(10, 2, 0, 2) /\ pc = \h11a /\ ins.imm = 2
    BY <1>3, <1>16, S6Text DEF Decoded, Signed
  <2>2. Relative = \h11e
    BY <2>1, SMT DEF Relative, Add, MaxInt, MinInt
  <2>3. Goes(IF Difference > 0 THEN \h11e ELSE \h11a)
    BY <1>16, <2>1, <2>2, Jumps DEF S6At
  <2>4. CASE Difference > 0
    <3>1. S6At(\h11e)'
      BY <1>1, <1>16, <2>3, <2>4 DEF Goes, S6At
    <3>2. QED
      BY <1>2, <2>3, <2>4, <3>1 DEF Goes
  <2>5. CASE ~(Difference > 0)
    <3>1. S6At(\h11a)'
      BY <1>1, <1>16, <2>3, <2>5 DEF Goes, S6At
    <3>2. QED
      BY <1>2, <2>3, <2>5, <3>1 DEF Goes
  <2>6. QED
    BY <2>4, <2>5
<1>17. CASE q = \h11c
  <2>1. Is(8, 0, 0, 1) /\ pc = \h11e /\ ins.imm = 1
    BY <1>3, <1>17, S6Text DEF Decoded, Signed
  <2>2. Relative = \h120
    BY <2>1, SMT DEF Relative, Add, MaxInt, MinInt
  <2>3. Goes(\h120)
    BY <2>1, <2>2, Jumps
  <2>4. S6At(\h120)'
    BY <1>1, <1>17, <2>3 DEF Greater, Goes, S6At
  <2>5. QED
    BY <1>2, <2>3, <2>4 DEF Goes
<1>18. CASE q = \h126
  <2>1. Is(3, 3, 0, 0) /\ pc = \h128
    BY <1>3, <1>18, S6Text DEF Decoded, Signed
  <2>2. Add(0 * 4, reg[0]) = \h3000 /\ AddressFault(\h3000, 4) = "none" /\ reg[3] = Greater
    BY <1>4, <1>18 DEF S6At
  <2>3. mem' = WriteInteger(loaded, \h3000, Greater)' /\ status' = "fetch" /\ pc' = \h128
    BY <1>1, <2>1, <2>2, MemoryRuns
  <2>4. Stage(\h128)'
    BY <2>3 DEF Stage
  <2>5. QED
    BY <2>3, <2>4 DEF S6Runs
<1>19. q \in {\h100, \h106, \h108, \h10e, \h110, \h112, \h114, \h116, \h118, \h11a, \h11c,
              \h11e, \h120, \h126}
  BY DEF S6At
<1>20. QED
  BY <1>5, <1>6, <1>7, <1>8, <1>9, <1>10, <1>11, <1>12, <1>13, <1>14, <1>15, <1>16, <1>17,
     <1>18, <1>19

LEMMA S6TextStays ==
  ASSUME NEW m, Holds(m, S6If), NEW v \in JavaInt
  PROVE  Holds(WriteInteger(m, \h3000, v), S6If)
<1>1. \A a \in DOMAIN S6If : a \in Int /\ a < \h3000
  BY DEF S6If, Halfwords
<1>2. QED
  BY <1>1, WrittenBytes DEF Holds

LEMMA S6Words ==
  ASSUME MemoryOK(loaded), \h3004 <= ByteCapacity
  PROVE  S6a \in JavaInt /\ S6b \in JavaInt /\ Greater \in JavaInt
<1>1. \h1000 \in JavaInt /\ \h2000 \in JavaInt
  BY InJavaInt, SMT DEF MinInt, MaxInt
<1>2. S6a \in JavaInt /\ S6b \in JavaInt
  BY <1>1, ReadType DEF S6a, S6b, Word
<1>3. QED
  BY <1>2 DEF Greater

LEMMA S6Step ==
  ASSUME S6Inv, [Next]_vars, \h3004 <= ByteCapacity
  PROVE  S6Inv'
<1>1. MachineOK'
  BY MachineKept DEF S6Inv
<1>2. UNCHANGED <<prog, loaded>> /\ calls' = << >>
  <2>1. prog \notin DOMAIN Callees
    BY DEF S6Inv, S6Loaded, Callees
  <2>2. ~Enters
    BY <2>1 DEF Enters
  <2>3. QED
    BY <2>2 DEF S6Inv, S6Loaded, Next, vars
<1>3. S6Loaded'
  <2>1. S6a' = S6a /\ S6b' = S6b
    BY <1>2 DEF S6a, S6b
  <2>2. QED
    BY <1>2, <2>1 DEF S6Inv, S6Loaded, MemoryOK, Holds, Byte
<1>4. S6a' = S6a /\ S6b' = S6b /\ Difference' = Difference /\ Greater' = Greater
  BY <1>2 DEF S6a, S6b, Difference, Greater
<1>5. CASE UNCHANGED cpuVars
  <2>1. \A q : S6At(q) => S6At(q)'
    BY <1>4, <1>5 DEF S6At, cpuVars
  <2>2. \A q : Stage(q) => Stage(q)'
    BY <1>5 DEF Stage, Decoded, HalfAt, Byte, cpuVars
  <2>3. CASE mem = loaded /\ \E q \in \h100..\h126 : S6At(q) /\ Stage(q)
    <3>1. PICK q \in \h100..\h126 : S6At(q) /\ Stage(q)
      BY <2>3
    <3>2. S6Runs'
      <4>1. S6At(q)' /\ Stage(q)' /\ mem' = loaded'
        BY <1>2, <1>5, <2>1, <2>2, <2>3, <3>1 DEF cpuVars
      <4>2. QED
        BY <4>1 DEF S6Runs
    <3>3. QED
      BY <1>1, <1>3, <3>2 DEF S6Inv
  <2>4. CASE mem = WriteInteger(loaded, \h3000, Greater) /\ (Stage(\h128) \/ status = "halt")
    <3>1. mem' = WriteInteger(loaded, \h3000, Greater)'
      BY <1>2, <1>4, <1>5, <2>4 DEF cpuVars
    <3>2. Stage(\h128)' \/ status' = "halt"
      BY <1>5, <2>2, <2>4 DEF cpuVars
    <3>3. S6Runs'
      BY <3>1, <3>2 DEF S6Runs
    <3>4. QED
      BY <1>1, <1>3, <3>3 DEF S6Inv
  <2>5. QED
    BY <2>3, <2>4 DEF S6Inv, S6Runs
<1>6. ASSUME NEW q \in \h100..\h128, Stage(q), Fetch PROVE Stage(q)' /\ UNCHANGED <<mem, reg>>
  <2>1. 0 <= q /\ q + 6 <= ByteCapacity
    BY CapacityAssumption
  <2>2. QED
    BY <1>6, <2>1, StageFetches DEF S6Inv
<1>7. CASE Fetch
  <2>1. CASE mem = loaded /\ \E q \in \h100..\h126 : S6At(q) /\ Stage(q)
    <3>1. PICK q \in \h100..\h126 : S6At(q) /\ Stage(q)
      BY <2>1
    <3>2. Stage(q)' /\ UNCHANGED <<mem, reg>>
      BY <1>6, <1>7, <3>1
    <3>3. S6At(q)'
      BY <1>4, <3>1, <3>2 DEF S6At
    <3>4. S6Runs'
      <4>1. mem' = loaded'
        BY <1>2, <2>1, <3>2
      <4>2. QED
        BY <3>2, <3>3, <4>1 DEF S6Runs
    <3>5. QED
      BY <1>1, <1>3, <3>4 DEF S6Inv
  <2>2. CASE mem = WriteInteger(loaded, \h3000, Greater) /\ Stage(\h128)
    <3>1. Stage(\h128)' /\ UNCHANGED <<mem, reg>>
      BY <1>6, <1>7, <2>2
    <3>2. mem' = WriteInteger(loaded, \h3000, Greater)'
      BY <1>2, <1>4, <2>2, <3>1
    <3>3. S6Runs'
      BY <3>1, <3>2 DEF S6Runs
    <3>4. QED
      BY <1>1, <1>3, <3>3 DEF S6Inv
  <2>3. QED
    BY <1>7, <2>1, <2>2 DEF S6Inv, S6Runs, Fetch
<1>8. CASE Execute
  <2>0. status = "execute"
    BY <1>8, ExecutesIn
  <2>1. CASE mem = loaded /\ \E q \in \h100..\h126 : S6At(q) /\ Stage(q)
    <3>1. PICK q \in \h100..\h126 : S6At(q) /\ Stage(q)
      BY <2>1
    <3>2. Decoded(mem, q, ins, pc)
      BY <2>0, <3>1 DEF Stage
    <3>3. S6Runs'
      <4>1. loaded' = loaded /\ S6At(q) /\ mem = loaded
        BY <1>2, <2>1, <3>1
      <4>2. QED
        BY <1>8, <3>2, <4>1, S6Execute
    <3>4. QED
      BY <1>1, <1>3, <3>3 DEF S6Inv
  <2>2. CASE mem = WriteInteger(loaded, \h3000, Greater) /\ Stage(\h128)
    <3>1. Greater \in JavaInt
      BY S6Words DEF S6Inv, S6Loaded
    <3>2. MemoryOK(mem) /\ Holds(mem, S6If)
      BY <2>2, <3>1, S6TextStays DEF S6Inv, S6Loaded, MachineOK
    <3>3. ins.code = 15 /\ ins.op0 = 0 /\ ins.op1 = 0 /\ ins.op2 = 0
      BY <2>0, <2>2, <3>2, S6Text DEF Stage, Decoded
    <3>4. status' = "halt" /\ UNCHANGED <<mem, reg>>
      BY <1>8, <3>3, Jumps DEF RegisterNumber
    <3>5. QED
      BY <1>1, <1>2, <1>3, <1>4, <2>2, <3>4 DEF S6Inv, S6Runs
  <2>3. QED
    BY <2>0, <2>1, <2>2 DEF S6Inv, S6Runs
<1>9. QED
  BY <1>5, <1>7, <1>8 DEF Next, Cycle, Stopped, vars, cpuVars

(* not, inc and add subtract, for every two ints whose difference is one.  *)
LEMMA SubtractFits ==
  ASSUME NEW a \in JavaInt, NEW b \in JavaInt, DifferenceFits(a, b)
  PROVE  Subtract(a, b) = a - b
<1>1. /\ a \in Int /\ MinInt <= a /\ a <= MaxInt
      /\ b \in Int /\ MinInt <= b /\ b <= MaxInt
  BY JavaIntIsInt, InJavaInt
<1>2. -1 - b \in JavaInt /\ 1 \in JavaInt
  <2>1. -1 - b \in Int /\ MinInt <= -1 - b /\ -1 - b <= MaxInt
    BY <1>1, SMT DEF MinInt, MaxInt
  <2>2. QED
    BY <2>1, InJavaInt, SmallInts
<1> DEFINE c == Add(-1 - b, 1)
           d == Add(a, c)
<1>3. c \in Int /\ (c = -b \/ c = -b - 4294967296)
  <2>1. c \in JavaInt
    BY <1>2, AddWraps
  <2>2. -1 - b + 1 = -b /\ MinInt <= -b
    BY <1>1, SMT DEF MinInt, MaxInt
  <2>3. -b \in JavaInt \/ -b > MaxInt
    <3>1. -b \in Int /\ (-b <= MaxInt \/ -b > MaxInt)
      BY <1>1, Bounds, SMT
    <3>2. QED
      BY <2>2, <3>1, InJavaInt
  <2>4. QED
    BY <1>1, <1>2, <2>1, <2>2, <2>3, AddWraps, JavaIntIsInt
<1>4. /\ d \in Int /\ MinInt <= d /\ d <= MaxInt
      /\ (d = a + c \/ d = a + c - 4294967296 \/ d = a + c + 4294967296)
  <2>1. c \in JavaInt
    BY <1>2, AddWraps
  <2>2. a + c \in JavaInt \/ a + c > MaxInt \/ a + c < MinInt
    BY <1>1, <1>3, InJavaInt, SMT, Bounds
  <2>3. d \in JavaInt
    BY <2>1, AddWraps
  <2>4. QED
    BY <2>1, <2>2, <2>3, AddWraps, InJavaInt, JavaIntIsInt
<1>5. Subtract(a, b) = d /\ ((a >= 0) = (b >= 0) \/ (d >= 0) = (a >= 0))
  BY DEF DifferenceFits, Subtract
<1> HIDE DEF c, d
<1>6. QED
  BY <1>1, <1>3, <1>4, <1>5, SMT DEF MinInt, MaxInt

LEMMA MaxOfTwo ==
  ASSUME NEW a \in Int, NEW b \in Int
  PROVE  Max({a, b}) = IF a > b THEN a ELSE b
<1> DEFINE m == IF a > b THEN a ELSE b
<1>1. m \in {a, b} /\ \A y \in {a, b} : m >= y
  OBVIOUS
<1>2. \A x \in {a, b} : (\A y \in {a, b} : x >= y) => x = m
  OBVIOUS
<1> HIDE DEF m
<1>3. Max({a, b}) = m
  BY <1>1, <1>2 DEF Max
<1>4. QED
  BY <1>3 DEF m

LEMMA S6Result ==
  ASSUME S6Inv, \h3004 <= ByteCapacity
  PROVE  Results = Words(\h3000, << Greater >>) /\ Stack = {}
<1>1. S6a \in JavaInt /\ S6b \in JavaInt /\ DifferenceFits(S6a, S6b)
  BY S6Words DEF S6Inv, S6Loaded
<1>2. Difference = S6a - S6b
  BY <1>1, SubtractFits DEF Difference
<1>3. Greater = Max({S6a, S6b})
  BY <1>1, <1>2, MaxOfTwo, JavaIntIsInt DEF Greater
<1>4. Results = Words(\h3000, << Max({S6a, S6b}) >>)
  BY DEF S6Inv, S6Loaded, Results, S6a, S6b
<1>5. Stack = {}
  BY DEF S6Inv, S6Loaded, Stack, Sp
<1>6. QED
  BY <1>3, <1>4, <1>5

LEMMA WordsLaidOut ==
  ASSUME NEW base \in Int, NEW v \in JavaInt
  PROVE  /\ \A a : a \in DOMAIN Words(base, << v >>) <=> a \in Int /\ base <= a /\ a <= base + 3
         /\ \A a \in Int : base <= a /\ a <= base + 3
              => /\ Words(base, << v >>)[a] = IntegerToBytes(v)[a - base + 1]
                 /\ Words(base, << v >>)[a] \in UnsignedByte
<1>1. \A a \in base..(base + 3) : (a - base) \div 4 + 1 = 1 /\ (a - base) % 4 = a - base
  BY SMT
<1>2. Len(<< v >>) = 1 /\ << v >>[1] = v /\ base + 4 * 1 - 1 = base + 3
  OBVIOUS
<1>3. /\ DOMAIN Words(base, << v >>) = base..(base + 3)
      /\ \A a \in base..(base + 3) : Words(base, << v >>)[a] = IntegerToBytes(v)[a - base + 1]
  BY <1>1, <1>2 DEF Words
<1>4. \A a \in base..(base + 3) : a - base + 1 \in 1..4
  OBVIOUS
<1>5. QED
  BY <1>3, <1>4, BytesType

LEMMA OneWord ==
  ASSUME NEW base \in Int, NEW v \in JavaInt, NEW m
  PROVE  /\ \A a \in Int : base <= a /\ a <= base + 3
              => /\ a \in DOMAIN WriteInteger(m, base, v)
                 /\ WriteInteger(m, base, v)[a] = Words(base, << v >>)[a]
         /\ \A a \in DOMAIN WriteInteger(m, base, v) :
              a \in base..(base + 3) \/ (a \in DOMAIN m /\ WriteInteger(m, base, v)[a] = m[a])
<1> DEFINE bytes == IntegerToBytes(v)
           written == base..(base + Len(bytes) - 1)
<1>1. Len(bytes) = 4
  BY BytesType
<1>2. WriteInteger(m, base, v) = [b \in DOMAIN m \cup written |->
                                     IF b \in written THEN bytes[b - base + 1] ELSE m[b]]
  BY DEF WriteInteger, Set
<1> HIDE DEF bytes
<1>3. written = base..(base + 3)
  BY <1>1, SMT
<1> HIDE DEF written
<1>4. \A a \in base..(base + 3) : Words(base, << v >>)[a] = bytes[a - base + 1]
  BY WordsLaidOut DEF bytes
<1>5. QED
  BY <1>2, <1>3, <1>4

(* S6-if loaded into any memory, with any two words that its way of        *)
(* comparing allows for as a and b.                                        *)
S6Init == CPUInit /\ pc = \h100 /\ mem = loaded /\ S6Loaded

S6Spec == S6Init /\ [][Next]_vars

LEMMA S6Invariant == \h3004 <= ByteCapacity /\ S6Spec => []S6Inv
<1> SUFFICES ASSUME \h3004 <= ByteCapacity PROVE S6Spec => []S6Inv
  OBVIOUS
<1>1. S6Init => S6Inv
  <2> SUFFICES ASSUME CPUInit, pc = \h100, mem = loaded, S6Loaded PROVE S6Inv
    BY DEF S6Init
  <2>1. MachineOK
    BY SmallInts, InJavaInt, SMT DEF CPUInit, MachineOK, Instructions, Stages, S6Loaded, MinInt, MaxInt
  <2>2. S6At(\h100) /\ Stage(\h100)
    BY DEF CPUInit, S6At, Stage
  <2>3. S6Runs
    BY <2>2 DEF S6Runs
  <2>4. QED
    BY <2>1, <2>3 DEF S6Inv
<1>2. S6Inv /\ [Next]_vars => S6Inv'
  BY S6Step
<1>3. QED
  BY <1>1, <1>2, PTL DEF S6Spec

(* S6-if.s leaves the greater of a and b in max, as S6-if.c does, for any  *)
(* two ints whose difference is an int, whatever else memory holds.        *)
THEOREM S6LeavesTheGreater == \h3004 <= ByteCapacity /\ S6Spec => []ResultAsInC
<1> SUFFICES ASSUME \h3004 <= ByteCapacity PROVE S6Spec => []ResultAsInC
  OBVIOUS
<1>1. ASSUME S6Inv PROVE ResultAsInC
  <2> SUFFICES ASSUME status = "halt" PROVE \A a \in DOMAIN Results : mem[a] = Results[a]
    BY <1>1 DEF ResultAsInC, S6Inv, S6Loaded
  <2>1. mem = WriteInteger(loaded, \h3000, Greater)
    BY <1>1 DEF S6Inv, S6Runs, Stage
  <2>2. Greater \in JavaInt /\ Results = Words(\h3000, << Greater >>)
    BY <1>1, S6Words, S6Result DEF S6Inv, S6Loaded
  <2>3. QED
    <3>1. \A a \in DOMAIN Results : a \in Int /\ \h3000 <= a /\ a <= \h3000 + 3
      BY <2>2, WordsLaidOut
    <3>2. QED
      BY <2>1, <2>2, <3>1, OneWord
<1>2. QED
  BY <1>1, S6Invariant, PTL

(* At no moment has S6-if.s written a byte outside the four of max: not    *)
(* its text, not a, not b.                                                 *)
THEOREM S6WritesItsResult == \h3004 <= ByteCapacity /\ S6Spec => []OnlyItsOwnMemory
<1> SUFFICES ASSUME \h3004 <= ByteCapacity PROVE S6Spec => []OnlyItsOwnMemory
  OBVIOUS
<1>1. ASSUME S6Inv PROVE OnlyItsOwnMemory
  <2>1. mem = loaded \/ mem = WriteInteger(loaded, \h3000, Greater)
    BY <1>1 DEF S6Inv, S6Runs
  <2>2. Greater \in JavaInt /\ Results = Words(\h3000, << Greater >>) /\ Stack = {}
    BY <1>1, S6Words, S6Result DEF S6Inv, S6Loaded
  <2>3. \A a \in \h3000..(\h3000 + 3) : a \in DOMAIN Results
    BY <2>2, WordsLaidOut
  <2>4. QED
    BY <2>1, <2>2, <2>3, OneWord DEF OnlyItsOwnMemory
<1>2. QED
  BY <1>1, S6Invariant, PTL

LEMMA Overlay ==
  ASSUME NEW f, NEW g
  PROVE  /\ \A a : a \in DOMAIN Over(f, g) <=> a \in DOMAIN f \/ a \in DOMAIN g
         /\ \A a \in DOMAIN f : Over(f, g)[a] = f[a]
         /\ \A a \in DOMAIN g : a \notin DOMAIN f => Over(f, g)[a] = g[a]
  BY DEF Over

LEMMA OverlayIsMemory ==
  ASSUME NEW f, NEW g,
         \A a \in DOMAIN f : a \in 0..(ByteCapacity - 1) /\ f[a] \in UnsignedByte,
         \A a \in DOMAIN g : a \in 0..(ByteCapacity - 1) /\ g[a] \in UnsignedByte
  PROVE  MemoryOK(Over(f, g))
  BY DEF Over, MemoryOK

LEMMA WordRead ==
  ASSUME NEW m, NEW base \in Int, NEW v \in JavaInt,
         \A a \in Int : base <= a /\ a <= base + 3
           => a \in DOMAIN m /\ m[a] = IntegerToBytes(v)[a - base + 1]
  PROVE  ReadInteger(m, base) = v
<1>1. /\ Byte(m, base) = IntegerToBytes(v)[1] /\ Byte(m, base + 1) = IntegerToBytes(v)[2]
      /\ Byte(m, base + 2) = IntegerToBytes(v)[3] /\ Byte(m, base + 3) = IntegerToBytes(v)[4]
  BY SMT DEF Byte
<1>2. Get(m, base, 4) = IntegerToBytes(v)
  BY <1>1, WordIs DEF IntegerToBytes
<1>3. QED
  BY <1>2, IntegerRoundTrip DEF ReadInteger

(* A text is bytes, from its first address on.                             *)
LEMMA HalvesAreBytes ==
  ASSUME NEW h \in Int, 0 <= h, h <= 65535
  PROVE  h \div 256 \in UnsignedByte /\ h % 256 \in UnsignedByte
  BY SMT DEF UnsignedByte

LEMMA HalfwordsLaidOut ==
  ASSUME NEW base \in Int, NEW hs, Len(hs) \in Nat,
         \A k \in 1..Len(hs) : hs[k] \in Int /\ 0 <= hs[k] /\ hs[k] <= 65535
  PROVE  /\ \A a : a \in DOMAIN Halfwords(base, hs)
                     <=> a \in Int /\ base <= a /\ a <= base + 2 * Len(hs) - 1
         /\ \A a \in DOMAIN Halfwords(base, hs) : Halfwords(base, hs)[a] \in UnsignedByte
<1>1. DOMAIN Halfwords(base, hs) = base..(base + 2 * Len(hs) - 1)
  BY DEF Halfwords
<1>3. ASSUME NEW a \in base..(base + 2 * Len(hs) - 1) PROVE Halfwords(base, hs)[a] \in UnsignedByte
  <2> DEFINE k == (a - base) \div 2 + 1
  <2>1. k \in 1..Len(hs)
    BY SMT
  <2>2. Halfwords(base, hs)[a] = IF (a - base) % 2 = 0 THEN hs[k] \div 256 ELSE hs[k] % 256
    BY HalfwordsAt
  <2> HIDE DEF k
  <2>3. hs[k] \in Int /\ 0 <= hs[k] /\ hs[k] <= 65535
    BY <2>1
  <2>4. hs[k] \div 256 \in UnsignedByte /\ hs[k] % 256 \in UnsignedByte
    BY <2>3, HalvesAreBytes
  <2>5. QED
    BY <2>2, <2>4
<1>4. QED
  BY <1>1, <1>3

LEMMA S6TextLaidOut ==
  /\ \A a : a \in DOMAIN S6If <=> a \in Int /\ \h100 <= a /\ a <= \h129
  /\ \A a \in DOMAIN S6If : S6If[a] \in UnsignedByte
<1> DEFINE hs == << 0, 0, \h1000, \h1000, \h100, 0, \h2000, \h1011, \h6012, \h6702, \h6302,
                    \h6102, \ha202, \h6013, \h8001, \h6003, 0, 0, \h3000, \h3300, \hf000 >>
<1>1. S6If = Halfwords(\h100, hs)
  BY DEF S6If
<1>2. Len(hs) = 21 /\ \A k \in 1..21 : hs[k] \in Int /\ 0 <= hs[k] /\ hs[k] <= 65535
  OBVIOUS
<1> HIDE DEF hs
<1>3. \h100 + 2 * 21 - 1 = \h129
  OBVIOUS
<1>4. Len(hs) \in Nat /\ \A k \in 1..Len(hs) : hs[k] \in Int /\ 0 <= hs[k] /\ hs[k] <= 65535
  BY <1>2
<1>5. /\ \A a : a \in DOMAIN Halfwords(\h100, hs)
                  <=> a \in Int /\ \h100 <= a /\ a <= \h100 + 2 * Len(hs) - 1
      /\ \A a \in DOMAIN Halfwords(\h100, hs) : Halfwords(\h100, hs)[a] \in UnsignedByte
  BY <1>4, HalfwordsLaidOut
<1>6. QED
  BY <1>1, <1>2, <1>3, <1>5

LEMMA S6Data ==
  ASSUME NEW a \in JavaInt, NEW b \in JavaInt, \h3004 <= ByteCapacity
  PROVE  LET m == Over(Over(Words(\h1000, << a >>), Words(\h2000, << b >>)), S6If)
         IN  /\ MemoryOK(m) /\ Holds(m, S6If)
             /\ ReadInteger(m, \h1000) = a /\ ReadInteger(m, \h2000) = b
<1> DEFINE wa == Words(\h1000, << a >>)
           wb == Words(\h2000, << b >>)
           data == Over(wa, wb)
           m == Over(data, S6If)
<1>1. /\ \A i : i \in DOMAIN wa <=> i \in Int /\ \h1000 <= i /\ i <= \h1003
      /\ \A i \in Int : \h1000 <= i /\ i <= \h1003
           => wa[i] = IntegerToBytes(a)[i - \h1000 + 1] /\ wa[i] \in UnsignedByte
  BY WordsLaidOut
<1>2. /\ \A i : i \in DOMAIN wb <=> i \in Int /\ \h2000 <= i /\ i <= \h2003
      /\ \A i \in Int : \h2000 <= i /\ i <= \h2003
           => wb[i] = IntegerToBytes(b)[i - \h2000 + 1] /\ wb[i] \in UnsignedByte
  BY WordsLaidOut
<1> HIDE DEF wa, wb
<1>3. /\ \A i : i \in DOMAIN data <=> i \in DOMAIN wa \/ i \in DOMAIN wb
      /\ \A i \in DOMAIN wa : data[i] = wa[i]
      /\ \A i \in DOMAIN wb : data[i] = wb[i]
  BY <1>1, <1>2, Overlay
<1> HIDE DEF data
<1>4. /\ \A i : i \in DOMAIN m <=> i \in DOMAIN data \/ i \in DOMAIN S6If
      /\ \A i \in DOMAIN data : m[i] = data[i]
      /\ \A i \in DOMAIN S6If : m[i] = S6If[i]
  <2>1. \A i \in DOMAIN S6If : i \notin DOMAIN data
    BY <1>1, <1>2, <1>3, S6TextLaidOut
  <2>2. QED
    BY <2>1, Overlay
<1>5. MemoryOK(m)
  <2>1. \A i \in DOMAIN data : i \in 0..(ByteCapacity - 1) /\ data[i] \in UnsignedByte
    BY <1>1, <1>2, <1>3, CapacityAssumption
  <2>2. \A i \in DOMAIN S6If : i \in 0..(ByteCapacity - 1) /\ S6If[i] \in UnsignedByte
    BY S6TextLaidOut, CapacityAssumption
  <2>3. QED
    BY <2>1, <2>2, OverlayIsMemory
<1> HIDE DEF m
<1>6. Holds(m, S6If)
  BY <1>4 DEF Holds, Byte
<1>7. ReadInteger(m, \h1000) = a
  BY <1>1, <1>3, <1>4, WordRead
<1>8. ReadInteger(m, \h2000) = b
  BY <1>2, <1>3, <1>4, WordRead
<1>9. QED
  BY <1>5, <1>6, <1>7, <1>8 DEF m, data, wa, wb

LEMMA S6Numbers ==
  /\ "S6_if" \in DOMAIN Data
  /\ \A d \in Data["S6_if"] : \E a \in Numbers, b \in Numbers :
       DifferenceFits(a, b) /\ d = Over(Words(\h1000, << a >>), Words(\h2000, << b >>))
<1> DEFINE Pairs == { n \in Numbers \X Numbers : DifferenceFits(n[1], n[2]) }
           Laid(ab) == Over(Words(\h1000, << ab[1] >>), Words(\h2000, << ab[2] >>))
<1>1. Data["S6_if"] = { Laid(ab) : ab \in Pairs }
  BY DEF Data
<1>2. \A n \in Pairs : n[1] \in Numbers /\ n[2] \in Numbers /\ DifferenceFits(n[1], n[2])
  OBVIOUS
<1>3. ASSUME NEW d \in Data["S6_if"]
      PROVE  \E a \in Numbers, b \in Numbers :
               DifferenceFits(a, b) /\ d = Over(Words(\h1000, << a >>), Words(\h2000, << b >>))
  <2> HIDE DEF Pairs, Laid
  <2>1. PICK ab \in Pairs : d = Laid(ab)
    BY <1>1
  <2>2. QED
    BY <1>2, <2>1 DEF Laid
<1>4. "S6_if" \in DOMAIN Data
  BY DEF Data
<1> HIDE DEF Pairs, Laid
<1>5. QED
  BY <1>3, <1>4

(* The runs of Spec that load S6-if are such runs: its data are two words  *)
(* whose difference fits, laid over its text.                              *)
THEOREM S6IsRun == \h3004 <= ByteCapacity /\ Spec /\ prog = "S6_if" => S6Spec
<1> SUFFICES ASSUME \h3004 <= ByteCapacity PROVE Spec /\ prog = "S6_if" => S6Spec
  OBVIOUS
<1>1. ASSUME Init, prog = "S6_if" PROVE S6Init
  <2>1. Texts["S6_if"] = S6If /\ StartOfText("S6_if") = \h100
    BY DEF Texts, StartOfText
  <2>2. \A n \in Numbers : n \in JavaInt
    BY InJavaInt, SMT DEF Numbers, MinInt, MaxInt
  <2>3. PICK p \in CoursePrograms :
          \E d \in (IF p \in DOMAIN Data THEN Data[p] ELSE { << >> }) :
            Load(p, Over(d, Texts[p]), StartOfText(p))
    BY <1>1 DEF Init, Load
  <2>4. p = "S6_if"
    BY <1>1, <2>3 DEF Load
  <2>5. \E d \in Data["S6_if"] : Load("S6_if", Over(d, Texts["S6_if"]), StartOfText("S6_if"))
    <3>1. (IF p \in DOMAIN Data THEN Data[p] ELSE { << >> }) = Data["S6_if"]
      BY <2>4, S6Numbers
    <3>2. \E d \in Data["S6_if"] : Load(p, Over(d, Texts[p]), StartOfText(p))
      BY <2>3, <3>1
    <3>3. QED
      BY <2>4, <3>2
  <2>6. PICK d \in Data["S6_if"] : Load("S6_if", Over(d, S6If), \h100)
    BY <2>1, <2>5
  <2>7. PICK a \in Numbers, b \in Numbers :
          DifferenceFits(a, b) /\ d = Over(Words(\h1000, << a >>), Words(\h2000, << b >>))
    BY <2>6, S6Numbers
  <2>8. S6Loaded
    <3>1. loaded = Over(Over(Words(\h1000, << a >>), Words(\h2000, << b >>)), S6If)
      BY <2>6, <2>7 DEF Load
    <3>2. /\ MemoryOK(loaded) /\ Holds(loaded, S6If)
          /\ ReadInteger(loaded, \h1000) = a /\ ReadInteger(loaded, \h2000) = b
      BY <2>2, <3>1, S6Data
    <3>3. QED
      BY <1>1, <2>6, <2>7, <3>2 DEF Load, S6Loaded, S6a, S6b, Word
  <2>9. QED
    BY <1>1, <2>6, <2>8 DEF Init, S6Init, Load
<1>2. QED
  BY <1>1, PTL DEF Spec, S6Spec

----------------------------------------------------------------------------
(* A5-c.s on any three words, whose difference is an int where foo compares *)
(* two of them by subtracting.                                             *)

(* The word whose first half has its sign bit set.                         *)
LEMMA NegativeWordOfHalves ==
  ASSUME NEW m, MemoryOK(m), NEW a \in Int, HalfAt(m, a) >= 32768
  PROVE  ReadInteger(m, a) = 65536 * (HalfAt(m, a) - 65536) + HalfAt(m, a + 2)
<1>1. \A i \in Int : Byte(m, i) \in Int /\ 0 <= Byte(m, i) /\ Byte(m, i) <= 255
  BY DEF MemoryOK, UnsignedByte, Byte
<1>2. ReadInteger(m, a) = Signed(Byte(m, a)) * 16777216 + Byte(m, a + 1) * 65536
                            + Byte(m, a + 2) * 256 + Byte(m, a + 3)
  BY WordIs DEF BytesToInteger
<1>3. a + 1 \in Int /\ a + 2 \in Int /\ a + 3 \in Int /\ (a + 2) + 1 = a + 3
  OBVIOUS
<1>4. Signed(Byte(m, a)) = Byte(m, a) - 256
  BY <1>1, <1>3, SMT DEF HalfAt, Signed
<1>5. QED
  BY <1>1, <1>2, <1>3, <1>4, SMT DEF HalfAt

(* Several words laid out from an address are read one by one.             *)
LEMMA WordsAt ==
  ASSUME NEW base \in Int, NEW ws, Len(ws) \in Nat,
         \A k \in 1..Len(ws) : ws[k] \in JavaInt
  PROVE  /\ \A a : a \in DOMAIN Words(base, ws)
                     <=> a \in Int /\ base <= a /\ a <= base + 4 * Len(ws) - 1
         /\ \A a \in DOMAIN Words(base, ws) : Words(base, ws)[a] \in UnsignedByte
         /\ \A k \in 1..Len(ws), i \in 1..4 :
              Words(base, ws)[base + 4 * (k - 1) + (i - 1)] = IntegerToBytes(ws[k])[i]
<1>1. DOMAIN Words(base, ws) = base..(base + 4 * Len(ws) - 1)
  BY DEF Words
<1>2. ASSUME NEW a \in base..(base + 4 * Len(ws) - 1) PROVE Words(base, ws)[a] \in UnsignedByte
  <2> DEFINE k == (a - base) \div 4 + 1
             i == ((a - base) % 4) + 1
  <2>1. k \in 1..Len(ws) /\ i \in 1..4
    BY SMT
  <2>2. Words(base, ws)[a] = IntegerToBytes(ws[k])[i]
    BY DEF Words
  <2> HIDE DEF k, i
  <2>3. QED
    BY <2>1, <2>2, BytesType
<1>3. ASSUME NEW k \in 1..Len(ws), NEW i \in 1..4
      PROVE  Words(base, ws)[base + 4 * (k - 1) + (i - 1)] = IntegerToBytes(ws[k])[i]
  <2> DEFINE a == base + 4 * (k - 1) + (i - 1)
  <2>1. a \in base..(base + 4 * Len(ws) - 1) /\ (a - base) \div 4 + 1 = k /\ ((a - base) % 4) + 1 = i
    BY SMT
  <2> HIDE DEF a
  <2>2. Words(base, ws)[a] = IntegerToBytes(ws[k])[i]
    BY <2>1 DEF Words
  <2>3. QED
    BY <2>2 DEF a
<1>4. QED
  BY <1>1, <1>2, <1>3

LEMMA WordOfTable ==
  ASSUME NEW m, NEW base \in Int, NEW ws, Len(ws) \in Nat,
         \A k \in 1..Len(ws) : ws[k] \in JavaInt,
         Holds(m, Words(base, ws)), NEW k \in 1..Len(ws)
  PROVE  ReadInteger(m, base + 4 * (k - 1)) = ws[k]
<1> DEFINE a == base + 4 * (k - 1)
<1>1. ASSUME NEW i \in 1..4 PROVE a + (i - 1) \in DOMAIN Words(base, ws)
  <2>1. a + (i - 1) \in Int /\ base <= a + (i - 1) /\ a + (i - 1) <= base + 4 * Len(ws) - 1
    BY SMT
  <2> HIDE DEF a
  <2>2. QED
    BY <2>1, WordsAt
<1>2. \A i \in 1..4 : Byte(m, a + (i - 1)) = IntegerToBytes(ws[k])[i]
  BY <1>1, WordsAt DEF Holds
<1>3. a \in Int
  OBVIOUS
<1> HIDE DEF a
<1>4. /\ Byte(m, a) = IntegerToBytes(ws[k])[1] /\ Byte(m, a + 1) = IntegerToBytes(ws[k])[2]
      /\ Byte(m, a + 2) = IntegerToBytes(ws[k])[3] /\ Byte(m, a + 3) = IntegerToBytes(ws[k])[4]
  <2>1. a + (1 - 1) = a /\ a + (2 - 1) = a + 1 /\ a + (3 - 1) = a + 2 /\ a + (4 - 1) = a + 3
    BY <1>3
  <2>2. QED
    BY <1>2, <2>1
<1>5. Get(m, a, 4) = IntegerToBytes(ws[k])
  BY <1>3, <1>4, WordIs DEF IntegerToBytes
<1>6. ReadInteger(m, a) = ws[k]
  BY <1>5, IntegerRoundTrip DEF ReadInteger
<1>7. QED
  BY <1>6 DEF a

LEMMA A5MainLaidOut ==
  /\ \A a : a \in DOMAIN A5cMain <=> a \in Int /\ 0 <= a /\ a <= \h3d
  /\ \A a \in DOMAIN A5cMain : A5cMain[a] \in UnsignedByte
<1> DEFINE hs == << \h500, 0, \h1028, 0, \hffff, \hfff4, \h6105, 0, 0, \h200, \h1000,
                    \h3005, 0, 0, \h204, \h1000, \h3015, 0, 0, \h208, \h1000, \h3025,
                    \h6f36, \hb000, 0, \h300, \h100, 0, \h20c, \h3001, \hf000 >>
<1>1. A5cMain = Halfwords(0, hs)
  BY DEF A5cMain
<1>2. Len(hs) = 31 /\ \A k \in 1..31 : hs[k] \in Int /\ 0 <= hs[k] /\ hs[k] <= 65535
  OBVIOUS
<1> HIDE DEF hs
<1>3. 0 + 2 * 31 - 1 = \h3d
  OBVIOUS
<1>4. Len(hs) \in Nat /\ \A k \in 1..Len(hs) : hs[k] \in Int /\ 0 <= hs[k] /\ hs[k] <= 65535
  BY <1>2
<1>5. /\ \A a : a \in DOMAIN Halfwords(0, hs)
                  <=> a \in Int /\ 0 <= a /\ a <= 0 + 2 * Len(hs) - 1
      /\ \A a \in DOMAIN Halfwords(0, hs) : Halfwords(0, hs)[a] \in UnsignedByte
  BY <1>4, HalfwordsLaidOut
<1>6. QED
  BY <1>1, <1>2, <1>3, <1>5

LEMMA A5FooLaidOut ==
  /\ \A a : a \in DOMAIN A5cFoo <=> a \in Int /\ \h300 <= a /\ a <= \h329
  /\ \A a \in DOMAIN A5cFoo : A5cFoo[a] \in UnsignedByte
<1> DEFINE hs == << \h1050, \h1151, \h1252, \h300, \hffff, \hfff6, \h6130, \h6003, \h6703,
                    \h6303, \ha337, \h6003, \h400, \hffff, \hfff8, \h6143, \ha331, \h300,
                    0, \h400, \he300 >>
<1>1. A5cFoo = Halfwords(\h300, hs)
  BY DEF A5cFoo
<1>2. Len(hs) = 21 /\ \A k \in 1..21 : hs[k] \in Int /\ 0 <= hs[k] /\ hs[k] <= 65535
  OBVIOUS
<1> HIDE DEF hs
<1>3. \h300 + 2 * 21 - 1 = \h329
  OBVIOUS
<1>4. Len(hs) \in Nat /\ \A k \in 1..Len(hs) : hs[k] \in Int /\ 0 <= hs[k] /\ hs[k] <= 65535
  BY <1>2
<1>5. /\ \A a : a \in DOMAIN Halfwords(\h300, hs)
                  <=> a \in Int /\ \h300 <= a /\ a <= \h300 + 2 * Len(hs) - 1
      /\ \A a \in DOMAIN Halfwords(\h300, hs) : Halfwords(\h300, hs)[a] \in UnsignedByte
  BY <1>4, HalfwordsLaidOut
<1>6. QED
  BY <1>1, <1>2, <1>3, <1>5

LEMMA A5CasesLaidOut ==
  /\ \A a : a \in DOMAIN A5cCases <=> a \in Int /\ \h330 <= a /\ a <= \h38f
  /\ \A a \in DOMAIN A5cCases : A5cCases[a] \in UnsignedByte
<1> DEFINE hs == << \h6112, \h802c, \h6702, \h6302, \h6112, \h8028, \h6702, \h6302, \h6112,
                    \ha204, \h200, 0, 0, \h8003, \h200, 0, 1, \h801c, \h6701, \h6301,
                    \h6121, \ha104, \h200, 0, 0, \h8003, \h200, 0, 1, \h8010, \h6702,
                    \h6302, \h6112, \h9204, \h200, 0, 0, \h8003, \h200, 0, 1, \h8004,
                    \h200, 0, 0, \h8000, \h6020, \hc600 >>
<1>1. A5cCases = Halfwords(\h330, hs)
  BY DEF A5cCases
<1>2. Len(hs) = 48 /\ \A k \in 1..48 : hs[k] \in Int /\ 0 <= hs[k] /\ hs[k] <= 65535
  OBVIOUS
<1> HIDE DEF hs
<1>3. \h330 + 2 * 48 - 1 = \h38f
  OBVIOUS
<1>4. Len(hs) \in Nat /\ \A k \in 1..Len(hs) : hs[k] \in Int /\ 0 <= hs[k] /\ hs[k] <= 65535
  BY <1>2
<1>5. /\ \A a : a \in DOMAIN Halfwords(\h330, hs)
                  <=> a \in Int /\ \h330 <= a /\ a <= \h330 + 2 * Len(hs) - 1
      /\ \A a \in DOMAIN Halfwords(\h330, hs) : Halfwords(\h330, hs)[a] \in UnsignedByte
  BY <1>4, HalfwordsLaidOut
<1>6. QED
  BY <1>1, <1>2, <1>3, <1>5

LEMMA A5TableLaidOut ==
  /\ \A a : a \in DOMAIN A5cTable <=> a \in Int /\ \h400 <= a /\ a <= \h423
  /\ \A a \in DOMAIN A5cTable : A5cTable[a] \in UnsignedByte
  /\ \A m : Holds(m, A5cTable) =>
       /\ ReadInteger(m, \h400) = \h330 /\ ReadInteger(m, \h404) = \h384
       /\ ReadInteger(m, \h408) = \h334 /\ ReadInteger(m, \h40c) = \h384
       /\ ReadInteger(m, \h410) = \h33c /\ ReadInteger(m, \h414) = \h384
       /\ ReadInteger(m, \h418) = \h354 /\ ReadInteger(m, \h41c) = \h384
       /\ ReadInteger(m, \h420) = \h36c
<1> DEFINE ws == << \h330, \h384, \h334, \h384, \h33c, \h384, \h354, \h384, \h36c >>
<1>1. A5cTable = Words(\h400, ws)
  BY DEF A5cTable
<1>2. /\ Len(ws) = 9
      /\ ws[1] = \h330 /\ ws[2] = \h384 /\ ws[3] = \h334 /\ ws[4] = \h384 /\ ws[5] = \h33c
      /\ ws[6] = \h384 /\ ws[7] = \h354 /\ ws[8] = \h384 /\ ws[9] = \h36c
  OBVIOUS
<1> HIDE DEF ws
<1>3. \A k \in 1..9 : ws[k] \in JavaInt
  <2>1. \A i \in Int : 0 <= i /\ i <= \h1000 => i \in JavaInt
    BY InJavaInt, SMT DEF MinInt, MaxInt
  <2>2. QED
    BY <1>2, <2>1
<1>0. Len(ws) \in Nat /\ \A k \in 1..Len(ws) : ws[k] \in JavaInt
  BY <1>2, <1>3
<1>4. ASSUME NEW m, Holds(m, A5cTable), NEW k \in 1..9
      PROVE  ReadInteger(m, \h400 + 4 * (k - 1)) = ws[k]
  <2>1. Holds(m, Words(\h400, ws)) /\ k \in 1..Len(ws) /\ \h400 \in Int
    BY <1>1, <1>2, <1>4
  <2>2. QED
    BY <1>0, <2>1, WordOfTable
<1>5. \h400 + 4 * 9 - 1 = \h423
  OBVIOUS
<1>6a. /\ \A a : a \in DOMAIN Words(\h400, ws) <=> a \in Int /\ \h400 <= a /\ a <= \h400 + 4 * Len(ws) - 1
       /\ \A a \in DOMAIN Words(\h400, ws) : Words(\h400, ws)[a] \in UnsignedByte
  BY <1>0, WordsAt
<1>6. /\ \A a : a \in DOMAIN A5cTable <=> a \in Int /\ \h400 <= a /\ a <= \h423
      /\ \A a \in DOMAIN A5cTable : A5cTable[a] \in UnsignedByte
  BY <1>1, <1>2, <1>5, <1>6a
<1>7. ASSUME NEW m, Holds(m, A5cTable)
      PROVE  /\ ReadInteger(m, \h400) = \h330 /\ ReadInteger(m, \h404) = \h384
             /\ ReadInteger(m, \h408) = \h334 /\ ReadInteger(m, \h40c) = \h384
             /\ ReadInteger(m, \h410) = \h33c /\ ReadInteger(m, \h414) = \h384
             /\ ReadInteger(m, \h418) = \h354 /\ ReadInteger(m, \h41c) = \h384
             /\ ReadInteger(m, \h420) = \h36c
  <2>1. \A k \in 1..9 : ReadInteger(m, \h400 + 4 * (k - 1)) = ws[k]
    BY <1>4, <1>7
  <2>2. QED
    BY <1>2, <2>1
<1>8. QED
  BY <1>6, <1>7

(* The parts of the text lie side by side.                                 *)
LEMMA A5Parts ==
  /\ \A a : a \in DOMAIN A5c <=> \/ a \in DOMAIN A5cMain \/ a \in DOMAIN A5cFoo
                                 \/ a \in DOMAIN A5cCases \/ a \in DOMAIN A5cTable
  /\ \A a \in DOMAIN A5cMain : A5c[a] = A5cMain[a]
  /\ \A a \in DOMAIN A5cFoo : A5c[a] = A5cFoo[a]
  /\ \A a \in DOMAIN A5cCases : A5c[a] = A5cCases[a]
  /\ \A a \in DOMAIN A5cTable : A5c[a] = A5cTable[a]
<1> DEFINE f == Over(A5cMain, A5cFoo)
           g == Over(A5cCases, A5cTable)
<1>1. /\ \A a : a \in DOMAIN f <=> a \in DOMAIN A5cMain \/ a \in DOMAIN A5cFoo
      /\ \A a \in DOMAIN A5cMain : f[a] = A5cMain[a]
      /\ \A a \in DOMAIN A5cFoo : f[a] = A5cFoo[a]
  BY Overlay, A5MainLaidOut, A5FooLaidOut
<1>2. /\ \A a : a \in DOMAIN g <=> a \in DOMAIN A5cCases \/ a \in DOMAIN A5cTable
      /\ \A a \in DOMAIN A5cCases : g[a] = A5cCases[a]
      /\ \A a \in DOMAIN A5cTable : g[a] = A5cTable[a]
  BY Overlay, A5CasesLaidOut, A5TableLaidOut
<1> HIDE DEF f, g
<1>3. A5c = Over(f, g)
  BY DEF A5c, f, g
<1>4. \A a \in DOMAIN g : a \notin DOMAIN f
  BY <1>1, <1>2, A5MainLaidOut, A5FooLaidOut, A5CasesLaidOut, A5TableLaidOut
<1>5. /\ \A a : a \in DOMAIN A5c <=> a \in DOMAIN f \/ a \in DOMAIN g
      /\ \A a \in DOMAIN f : A5c[a] = f[a]
      /\ \A a \in DOMAIN g : A5c[a] = g[a]
  BY <1>3, <1>4, Overlay
<1>6. QED
  BY <1>1, <1>2, <1>5

LEMMA A5Text ==
  ASSUME NEW m, Holds(m, A5c)
  PROVE  Holds(m, A5cMain) /\ Holds(m, A5cFoo) /\ Holds(m, A5cCases) /\ Holds(m, A5cTable)
  BY A5Parts DEF Holds

LEMMA A5MainText ==
  ASSUME NEW m, MemoryOK(m), Holds(m, A5cMain)
  PROVE  /\ HalfAt(m, 0) = \h500 /\ ReadInteger(m, 2) = \h1028 /\ HalfAt(m, 6) = 0
         /\ ReadInteger(m, 8) = -12 /\ HalfAt(m, \hc) = \h6105 /\ HalfAt(m, \he) = 0
         /\ ReadInteger(m, \h10) = \h200 /\ HalfAt(m, \h14) = \h1000
         /\ HalfAt(m, \h16) = \h3005 /\ HalfAt(m, \h18) = 0 /\ ReadInteger(m, \h1a) = \h204
         /\ HalfAt(m, \h1e) = \h1000 /\ HalfAt(m, \h20) = \h3015 /\ HalfAt(m, \h22) = 0
         /\ ReadInteger(m, \h24) = \h208 /\ HalfAt(m, \h28) = \h1000
         /\ HalfAt(m, \h2a) = \h3025 /\ HalfAt(m, \h2c) = \h6f36 /\ HalfAt(m, \h2e) = \hb000
         /\ ReadInteger(m, \h30) = \h300 /\ HalfAt(m, \h34) = \h100
         /\ ReadInteger(m, \h36) = \h20c /\ HalfAt(m, \h3a) = \h3001
         /\ HalfAt(m, \h3c) = \hf000
<1> DEFINE hs == << \h500, 0, \h1028, 0, \hffff, \hfff4, \h6105, 0, 0, \h200, \h1000,
                    \h3005, 0, 0, \h204, \h1000, \h3015, 0, 0, \h208, \h1000, \h3025,
                    \h6f36, \hb000, 0, \h300, \h100, 0, \h20c, \h3001, \hf000 >>
<1>1. A5cMain = Halfwords(0, hs)
  BY DEF A5cMain
<1>2. Len(hs) = 31
  OBVIOUS
<1>3. /\ hs[1] = \h500 /\ hs[2] = 0 /\ hs[3] = \h1028 /\ hs[4] = 0 /\ hs[5] = \hffff
      /\ hs[6] = \hfff4 /\ hs[7] = \h6105 /\ hs[8] = 0 /\ hs[9] = 0 /\ hs[10] = \h200
      /\ hs[11] = \h1000 /\ hs[12] = \h3005 /\ hs[13] = 0 /\ hs[14] = 0 /\ hs[15] = \h204
      /\ hs[16] = \h1000 /\ hs[17] = \h3015 /\ hs[18] = 0 /\ hs[19] = 0 /\ hs[20] = \h208
      /\ hs[21] = \h1000 /\ hs[22] = \h3025 /\ hs[23] = \h6f36 /\ hs[24] = \hb000
      /\ hs[25] = 0 /\ hs[26] = \h300 /\ hs[27] = \h100 /\ hs[28] = 0 /\ hs[29] = \h20c
      /\ hs[30] = \h3001 /\ hs[31] = \hf000
  OBVIOUS
<1> HIDE DEF hs
<1>4. ASSUME NEW k \in Int, 1 <= k, k <= 31, NEW h \in Int, 0 <= h, h <= 65535, hs[k] = h
      PROVE  HalfAt(m, 0 + 2 * (k - 1)) = h
  <2>1. Holds(m, Halfwords(0, hs)) /\ 0 \in Int /\ Len(hs) \in Nat /\ k <= Len(hs)
    BY <1>1, <1>2, <1>4
  <2>2. QED
    BY <1>4, <2>1, TextIs
<1>5. /\ HalfAt(m, 0) = \h500 /\ HalfAt(m, 2) = 0 /\ HalfAt(m, 4) = \h1028
      /\ HalfAt(m, 6) = 0 /\ HalfAt(m, 8) = \hffff /\ HalfAt(m, \ha) = \hfff4
      /\ HalfAt(m, \hc) = \h6105 /\ HalfAt(m, \he) = 0 /\ HalfAt(m, \h10) = 0
      /\ HalfAt(m, \h12) = \h200 /\ HalfAt(m, \h14) = \h1000 /\ HalfAt(m, \h16) = \h3005
      /\ HalfAt(m, \h18) = 0 /\ HalfAt(m, \h1a) = 0 /\ HalfAt(m, \h1c) = \h204
      /\ HalfAt(m, \h1e) = \h1000 /\ HalfAt(m, \h20) = \h3015 /\ HalfAt(m, \h22) = 0
      /\ HalfAt(m, \h24) = 0 /\ HalfAt(m, \h26) = \h208 /\ HalfAt(m, \h28) = \h1000
      /\ HalfAt(m, \h2a) = \h3025 /\ HalfAt(m, \h2c) = \h6f36 /\ HalfAt(m, \h2e) = \hb000
      /\ HalfAt(m, \h30) = 0 /\ HalfAt(m, \h32) = \h300 /\ HalfAt(m, \h34) = \h100
      /\ HalfAt(m, \h36) = 0 /\ HalfAt(m, \h38) = \h20c /\ HalfAt(m, \h3a) = \h3001
      /\ HalfAt(m, \h3c) = \hf000
  BY <1>3, <1>4
<1>6. QED
  BY <1>5, WordOfHalves, NegativeWordOfHalves

LEMMA A5FooText ==
  ASSUME NEW m, MemoryOK(m), Holds(m, A5cFoo)
  PROVE  /\ HalfAt(m, \h300) = \h1050 /\ HalfAt(m, \h302) = \h1151
         /\ HalfAt(m, \h304) = \h1252 /\ HalfAt(m, \h306) = \h300
         /\ ReadInteger(m, \h308) = -10 /\ HalfAt(m, \h30c) = \h6130
         /\ HalfAt(m, \h30e) = \h6003 /\ HalfAt(m, \h310) = \h6703
         /\ HalfAt(m, \h312) = \h6303 /\ HalfAt(m, \h314) = \ha337
         /\ HalfAt(m, \h316) = \h6003 /\ HalfAt(m, \h318) = \h400
         /\ ReadInteger(m, \h31a) = -8 /\ HalfAt(m, \h31e) = \h6143
         /\ HalfAt(m, \h320) = \ha331 /\ HalfAt(m, \h322) = \h300
         /\ ReadInteger(m, \h324) = \h400 /\ HalfAt(m, \h328) = \he300
<1> DEFINE hs == << \h1050, \h1151, \h1252, \h300, \hffff, \hfff6, \h6130, \h6003, \h6703,
                    \h6303, \ha337, \h6003, \h400, \hffff, \hfff8, \h6143, \ha331, \h300,
                    0, \h400, \he300 >>
<1>1. A5cFoo = Halfwords(\h300, hs)
  BY DEF A5cFoo
<1>2. Len(hs) = 21
  OBVIOUS
<1>3. /\ hs[1] = \h1050 /\ hs[2] = \h1151 /\ hs[3] = \h1252 /\ hs[4] = \h300
      /\ hs[5] = \hffff /\ hs[6] = \hfff6 /\ hs[7] = \h6130 /\ hs[8] = \h6003
      /\ hs[9] = \h6703 /\ hs[10] = \h6303 /\ hs[11] = \ha337 /\ hs[12] = \h6003
      /\ hs[13] = \h400 /\ hs[14] = \hffff /\ hs[15] = \hfff8 /\ hs[16] = \h6143
      /\ hs[17] = \ha331 /\ hs[18] = \h300 /\ hs[19] = 0 /\ hs[20] = \h400
      /\ hs[21] = \he300
  OBVIOUS
<1> HIDE DEF hs
<1>4. ASSUME NEW k \in Int, 1 <= k, k <= 21, NEW h \in Int, 0 <= h, h <= 65535, hs[k] = h
      PROVE  HalfAt(m, \h300 + 2 * (k - 1)) = h
  <2>1. Holds(m, Halfwords(\h300, hs)) /\ \h300 \in Int /\ Len(hs) \in Nat /\ k <= Len(hs)
    BY <1>1, <1>2, <1>4
  <2>2. QED
    BY <1>4, <2>1, TextIs
<1>5. /\ HalfAt(m, \h300) = \h1050 /\ HalfAt(m, \h302) = \h1151 /\ HalfAt(m, \h304) = \h1252
      /\ HalfAt(m, \h306) = \h300 /\ HalfAt(m, \h308) = \hffff /\ HalfAt(m, \h30a) = \hfff6
      /\ HalfAt(m, \h30c) = \h6130 /\ HalfAt(m, \h30e) = \h6003 /\ HalfAt(m, \h310) = \h6703
      /\ HalfAt(m, \h312) = \h6303 /\ HalfAt(m, \h314) = \ha337 /\ HalfAt(m, \h316) = \h6003
      /\ HalfAt(m, \h318) = \h400 /\ HalfAt(m, \h31a) = \hffff /\ HalfAt(m, \h31c) = \hfff8
      /\ HalfAt(m, \h31e) = \h6143 /\ HalfAt(m, \h320) = \ha331 /\ HalfAt(m, \h322) = \h300
      /\ HalfAt(m, \h324) = 0 /\ HalfAt(m, \h326) = \h400 /\ HalfAt(m, \h328) = \he300
  BY <1>3, <1>4
<1>6. QED
  BY <1>5, WordOfHalves, NegativeWordOfHalves

LEMMA A5CasesText ==
  ASSUME NEW m, MemoryOK(m), Holds(m, A5cCases)
  PROVE  /\ HalfAt(m, \h330) = \h6112 /\ HalfAt(m, \h332) = \h802c
         /\ HalfAt(m, \h334) = \h6702 /\ HalfAt(m, \h336) = \h6302
         /\ HalfAt(m, \h338) = \h6112 /\ HalfAt(m, \h33a) = \h8028
         /\ HalfAt(m, \h33c) = \h6702 /\ HalfAt(m, \h33e) = \h6302
         /\ HalfAt(m, \h340) = \h6112 /\ HalfAt(m, \h342) = \ha204
         /\ HalfAt(m, \h344) = \h200 /\ ReadInteger(m, \h346) = 0
         /\ HalfAt(m, \h34a) = \h8003 /\ HalfAt(m, \h34c) = \h200
         /\ ReadInteger(m, \h34e) = 1 /\ HalfAt(m, \h352) = \h801c
         /\ HalfAt(m, \h354) = \h6701 /\ HalfAt(m, \h356) = \h6301
         /\ HalfAt(m, \h358) = \h6121 /\ HalfAt(m, \h35a) = \ha104
         /\ HalfAt(m, \h35c) = \h200 /\ ReadInteger(m, \h35e) = 0
         /\ HalfAt(m, \h362) = \h8003 /\ HalfAt(m, \h364) = \h200
         /\ ReadInteger(m, \h366) = 1 /\ HalfAt(m, \h36a) = \h8010
         /\ HalfAt(m, \h36c) = \h6702 /\ HalfAt(m, \h36e) = \h6302
         /\ HalfAt(m, \h370) = \h6112 /\ HalfAt(m, \h372) = \h9204
         /\ HalfAt(m, \h374) = \h200 /\ ReadInteger(m, \h376) = 0
         /\ HalfAt(m, \h37a) = \h8003 /\ HalfAt(m, \h37c) = \h200
         /\ ReadInteger(m, \h37e) = 1 /\ HalfAt(m, \h382) = \h8004
         /\ HalfAt(m, \h384) = \h200 /\ ReadInteger(m, \h386) = 0
         /\ HalfAt(m, \h38a) = \h8000 /\ HalfAt(m, \h38c) = \h6020
         /\ HalfAt(m, \h38e) = \hc600
<1> DEFINE hs == << \h6112, \h802c, \h6702, \h6302, \h6112, \h8028, \h6702, \h6302, \h6112,
                    \ha204, \h200, 0, 0, \h8003, \h200, 0, 1, \h801c, \h6701, \h6301,
                    \h6121, \ha104, \h200, 0, 0, \h8003, \h200, 0, 1, \h8010, \h6702,
                    \h6302, \h6112, \h9204, \h200, 0, 0, \h8003, \h200, 0, 1, \h8004,
                    \h200, 0, 0, \h8000, \h6020, \hc600 >>
<1>1. A5cCases = Halfwords(\h330, hs)
  BY DEF A5cCases
<1>2. Len(hs) = 48
  OBVIOUS
<1>3. /\ hs[1] = \h6112 /\ hs[2] = \h802c /\ hs[3] = \h6702 /\ hs[4] = \h6302
      /\ hs[5] = \h6112 /\ hs[6] = \h8028 /\ hs[7] = \h6702 /\ hs[8] = \h6302
      /\ hs[9] = \h6112 /\ hs[10] = \ha204 /\ hs[11] = \h200 /\ hs[12] = 0 /\ hs[13] = 0
      /\ hs[14] = \h8003 /\ hs[15] = \h200 /\ hs[16] = 0 /\ hs[17] = 1 /\ hs[18] = \h801c
      /\ hs[19] = \h6701 /\ hs[20] = \h6301 /\ hs[21] = \h6121 /\ hs[22] = \ha104
      /\ hs[23] = \h200 /\ hs[24] = 0 /\ hs[25] = 0 /\ hs[26] = \h8003 /\ hs[27] = \h200
      /\ hs[28] = 0 /\ hs[29] = 1 /\ hs[30] = \h8010 /\ hs[31] = \h6702 /\ hs[32] = \h6302
      /\ hs[33] = \h6112 /\ hs[34] = \h9204 /\ hs[35] = \h200 /\ hs[36] = 0 /\ hs[37] = 0
      /\ hs[38] = \h8003 /\ hs[39] = \h200 /\ hs[40] = 0 /\ hs[41] = 1 /\ hs[42] = \h8004
      /\ hs[43] = \h200 /\ hs[44] = 0 /\ hs[45] = 0 /\ hs[46] = \h8000 /\ hs[47] = \h6020
      /\ hs[48] = \hc600
  OBVIOUS
<1> HIDE DEF hs
<1>4. ASSUME NEW k \in Int, 1 <= k, k <= 48, NEW h \in Int, 0 <= h, h <= 65535, hs[k] = h
      PROVE  HalfAt(m, \h330 + 2 * (k - 1)) = h
  <2>1. Holds(m, Halfwords(\h330, hs)) /\ \h330 \in Int /\ Len(hs) \in Nat /\ k <= Len(hs)
    BY <1>1, <1>2, <1>4
  <2>2. QED
    BY <1>4, <2>1, TextIs
<1>5. /\ HalfAt(m, \h330) = \h6112 /\ HalfAt(m, \h332) = \h802c /\ HalfAt(m, \h334) = \h6702
      /\ HalfAt(m, \h336) = \h6302 /\ HalfAt(m, \h338) = \h6112 /\ HalfAt(m, \h33a) = \h8028
      /\ HalfAt(m, \h33c) = \h6702 /\ HalfAt(m, \h33e) = \h6302 /\ HalfAt(m, \h340) = \h6112
      /\ HalfAt(m, \h342) = \ha204 /\ HalfAt(m, \h344) = \h200 /\ HalfAt(m, \h346) = 0
      /\ HalfAt(m, \h348) = 0 /\ HalfAt(m, \h34a) = \h8003 /\ HalfAt(m, \h34c) = \h200
      /\ HalfAt(m, \h34e) = 0 /\ HalfAt(m, \h350) = 1 /\ HalfAt(m, \h352) = \h801c
      /\ HalfAt(m, \h354) = \h6701 /\ HalfAt(m, \h356) = \h6301 /\ HalfAt(m, \h358) = \h6121
      /\ HalfAt(m, \h35a) = \ha104 /\ HalfAt(m, \h35c) = \h200 /\ HalfAt(m, \h35e) = 0
      /\ HalfAt(m, \h360) = 0 /\ HalfAt(m, \h362) = \h8003 /\ HalfAt(m, \h364) = \h200
      /\ HalfAt(m, \h366) = 0 /\ HalfAt(m, \h368) = 1 /\ HalfAt(m, \h36a) = \h8010
      /\ HalfAt(m, \h36c) = \h6702 /\ HalfAt(m, \h36e) = \h6302 /\ HalfAt(m, \h370) = \h6112
      /\ HalfAt(m, \h372) = \h9204 /\ HalfAt(m, \h374) = \h200 /\ HalfAt(m, \h376) = 0
      /\ HalfAt(m, \h378) = 0 /\ HalfAt(m, \h37a) = \h8003 /\ HalfAt(m, \h37c) = \h200
      /\ HalfAt(m, \h37e) = 0 /\ HalfAt(m, \h380) = 1 /\ HalfAt(m, \h382) = \h8004
      /\ HalfAt(m, \h384) = \h200 /\ HalfAt(m, \h386) = 0 /\ HalfAt(m, \h388) = 0
      /\ HalfAt(m, \h38a) = \h8000 /\ HalfAt(m, \h38c) = \h6020 /\ HalfAt(m, \h38e) = \hc600
  BY <1>3, <1>4
<1>6. QED
  BY <1>5, WordOfHalves, NegativeWordOfHalves

----------------------------------------------------------------------------
(* The three words at 200, what the switch of foo makes of the first, and  *)
(* what A5-c.c makes of the three.                                         *)
A5x == Word(loaded, \h200)
A5y == Word(loaded, \h204)
A5z == Word(loaded, \h208)
Negated(v) == Add(-1 - v, 1)
Index == Add(-10, A5x)
FooResult == SwitchFoo(A5x, A5y, A5z)
FooCall == << \h300, A5x, A5y, A5z >>

(* The words that main has pushed.                                         *)
Passes(n) ==
  /\ n >= 1 => Word(mem, \h101c) = A5x
  /\ n >= 2 => Word(mem, \h1020) = A5y
  /\ n >= 3 => Word(mem, \h1024) = A5z

(* What the registers hold when the instruction at q runs: in main before  *)
(* the call,                                                               *)
MainAt(q) ==
  \/ q = \h0
  \/ (q = \h6 /\ reg[5] = \h1028)
  \/ (q = \hc /\ reg[5] = \h1028 /\ reg[0] = -12)
  \/ (q = \he /\ reg[5] = \h101c)
  \/ (q = \h14 /\ reg[5] = \h101c /\ reg[0] = \h200)
  \/ (q = \h16 /\ reg[5] = \h101c /\ reg[0] = A5x)
  \/ (q = \h18 /\ reg[5] = \h101c /\ Passes(1))
  \/ (q = \h1e /\ reg[5] = \h101c /\ Passes(1) /\ reg[0] = \h204)
  \/ (q = \h20 /\ reg[5] = \h101c /\ Passes(1) /\ reg[0] = A5y)
  \/ (q = \h22 /\ reg[5] = \h101c /\ Passes(2))
  \/ (q = \h28 /\ reg[5] = \h101c /\ Passes(2) /\ reg[0] = \h208)
  \/ (q = \h2a /\ reg[5] = \h101c /\ Passes(2) /\ reg[0] = A5z)
  \/ (q = \h2c /\ reg[5] = \h101c /\ Passes(3))
  \/ (q = \h2e /\ reg[5] = \h101c /\ Passes(3) /\ reg[6] = \h34)

(* after it,                                                               *)
Stored == \A a \in \h20c..\h20f : a \in DOMAIN mem /\ mem[a] = Words(\h20c, << FooResult >>)[a]

ReturnAt(q) ==
  \/ (q = \h34 /\ reg[0] = FooResult)
  \/ (q = \h3a /\ reg[0] = FooResult /\ reg[1] = \h20c)
  \/ (q = \h3c /\ Stored)

(* in foo up to the jump through the table,                                *)
FooAt(q) ==
  \/ (q = \h300 /\ Passes(3))
  \/ (q = \h302 /\ Passes(3) /\ reg[0] = A5x)
  \/ (q = \h304 /\ Passes(3) /\ reg[0] = A5x /\ reg[1] = A5y)
  \/ (q = \h306 /\ reg[0] = A5x /\ reg[1] = A5y /\ reg[2] = A5z)
  \/ (q = \h30c /\ reg[0] = A5x /\ reg[1] = A5y /\ reg[2] = A5z /\ reg[3] = -10)
  \/ (q = \h30e /\ reg[0] = Index /\ reg[1] = A5y /\ reg[2] = A5z)
  \/ (q = \h310 /\ reg[0] = Index /\ reg[1] = A5y /\ reg[2] = A5z /\ reg[3] = Index)
  \/ (q = \h312 /\ reg[0] = Index /\ reg[1] = A5y /\ reg[2] = A5z /\ reg[3] = -1 - Index)
  \/ (q = \h314 /\ reg[0] = Index /\ reg[1] = A5y /\ reg[2] = A5z /\ reg[3] = Negated(Index))
  \/ (q = \h316 /\ reg[0] = Index /\ reg[1] = A5y /\ reg[2] = A5z /\ ~(Negated(Index) > 0))
  \/ (q = \h318 /\ reg[0] = Index /\ reg[1] = A5y /\ reg[2] = A5z /\ reg[3] = Index
        /\ ~(Negated(Index) > 0))
  \/ (q = \h31e /\ reg[0] = Index /\ reg[1] = A5y /\ reg[2] = A5z /\ reg[3] = Index /\ reg[4] = -8
        /\ ~(Negated(Index) > 0))
  \/ (q = \h320 /\ reg[0] = Index /\ reg[1] = A5y /\ reg[2] = A5z /\ reg[3] = Add(-8, Index)
        /\ ~(Negated(Index) > 0))
  \/ (q = \h322 /\ reg[0] = Index /\ reg[1] = A5y /\ reg[2] = A5z /\ Index \in 0..8)
  \/ (q = \h328 /\ reg[0] = Index /\ reg[1] = A5y /\ reg[2] = A5z /\ reg[3] = \h400 /\ Index \in 0..8)

(* in its cases,                                                           *)
SumAt(q) ==
  \/ (q = \h330 /\ A5x = 10 /\ reg[1] = A5y /\ reg[2] = A5z)
  \/ (q = \h332 /\ reg[2] = FooResult)
  \/ (q = \h334 /\ A5x = 12 /\ reg[1] = A5y /\ reg[2] = A5z)
  \/ (q = \h336 /\ A5x = 12 /\ reg[1] = A5y /\ reg[2] = -1 - A5z)
  \/ (q = \h338 /\ A5x = 12 /\ reg[1] = A5y /\ reg[2] = Negated(A5z))
  \/ (q = \h33a /\ reg[2] = FooResult)

FirstAt(q) ==
  \/ (q = \h33c /\ A5x = 14 /\ reg[1] = A5y /\ reg[2] = A5z)
  \/ (q = \h33e /\ A5x = 14 /\ reg[1] = A5y /\ reg[2] = -1 - A5z)
  \/ (q = \h340 /\ A5x = 14 /\ reg[1] = A5y /\ reg[2] = Negated(A5z))
  \/ (q = \h342 /\ A5x = 14 /\ reg[2] = Subtract(A5y, A5z))
  \/ (q = \h344 /\ FooResult = 0)
  \/ (q = \h34a /\ reg[2] = FooResult)
  \/ (q = \h34c /\ FooResult = 1)
  \/ (q = \h352 /\ reg[2] = FooResult)

SecondAt(q) ==
  \/ (q = \h354 /\ A5x = 16 /\ reg[1] = A5y /\ reg[2] = A5z)
  \/ (q = \h356 /\ A5x = 16 /\ reg[1] = -1 - A5y /\ reg[2] = A5z)
  \/ (q = \h358 /\ A5x = 16 /\ reg[1] = Negated(A5y) /\ reg[2] = A5z)
  \/ (q = \h35a /\ A5x = 16 /\ reg[1] = Subtract(A5z, A5y))
  \/ (q = \h35c /\ FooResult = 0)
  \/ (q = \h362 /\ reg[2] = FooResult)
  \/ (q = \h364 /\ FooResult = 1)
  \/ (q = \h36a /\ reg[2] = FooResult)

EqualAt(q) ==
  \/ (q = \h36c /\ A5x = 18 /\ reg[1] = A5y /\ reg[2] = A5z)
  \/ (q = \h36e /\ A5x = 18 /\ reg[1] = A5y /\ reg[2] = -1 - A5z)
  \/ (q = \h370 /\ A5x = 18 /\ reg[1] = A5y /\ reg[2] = Negated(A5z))
  \/ (q = \h372 /\ A5x = 18 /\ reg[2] = Subtract(A5y, A5z))
  \/ (q = \h374 /\ FooResult = 0)
  \/ (q = \h37a /\ reg[2] = FooResult)
  \/ (q = \h37c /\ FooResult = 1)
  \/ (q = \h382 /\ reg[2] = FooResult)

(* and where they meet.                                                    *)
EndAt(q) ==
  \/ (q = \h384 /\ FooResult = 0)
  \/ (q = \h38a /\ reg[2] = FooResult)
  \/ (q = \h38c /\ reg[2] = FooResult)
  \/ (q = \h38e /\ reg[0] = FooResult)

InFoo(q) == FooAt(q) \/ SumAt(q) \/ FirstAt(q) \/ SecondAt(q) \/ EqualAt(q) \/ EndAt(q)

AfterCall(q) == reg[5] = \h101c /\ (ReturnAt(q) \/ (reg[6] = \h34 /\ InFoo(q)))

A5At(q) ==
  \/ MainAt(q) /\ calls = << >>
  \/ AfterCall(q) /\ calls = << FooCall >>

(* The program writes the three words it passes and its result.            *)
A5Written == \h101c..\h1027 \cup \h20c..\h20f

A5Memory ==
  /\ \A a \in Int \ A5Written : Byte(mem, a) = Byte(loaded, a)
  /\ \A a \in DOMAIN mem \ A5Written : a \in DOMAIN loaded /\ mem[a] = loaded[a]

A5Loaded ==
  /\ prog = "A5_c" /\ MemoryOK(loaded) /\ Holds(loaded, A5c)
  /\ A5x = 14 => DifferenceFits(A5y, A5z)
  /\ A5x = 16 => DifferenceFits(A5z, A5y)

A5Runs ==
  \/ \E q \in 0..\h38e : A5At(q) /\ Stage(q)
  \/ status = "halt" /\ calls = << FooCall >> /\ reg[5] = \h101c /\ Stored

A5Inv == MachineOK /\ A5Loaded /\ A5Memory /\ A5Runs

----------------------------------------------------------------------------
(* The sums that main and foo make, and the bytes that main writes.         *)

LEMMA SubtractWraps ==
  ASSUME NEW a \in JavaInt, NEW b \in JavaInt
  PROVE  /\ Negated(b) \in JavaInt /\ Add(a, Negated(b)) = Subtract(a, b)
         /\ Subtract(a, b) \in JavaInt /\ (Subtract(a, b) = 0 <=> a - b = 0)
<1>1. /\ a \in Int /\ MinInt <= a /\ a <= MaxInt
      /\ b \in Int /\ MinInt <= b /\ b <= MaxInt
  BY JavaIntIsInt, InJavaInt
<1>2. -1 - b \in JavaInt /\ 1 \in JavaInt
  <2>1. -1 - b \in Int /\ MinInt <= -1 - b /\ -1 - b <= MaxInt
    BY <1>1, SMT DEF MinInt, MaxInt
  <2>2. QED
    BY <2>1, InJavaInt, SmallInts
<1>3. Negated(b) \in JavaInt /\ Subtract(a, b) = Add(a, Negated(b))
  BY <1>2, AddWraps DEF Negated, Subtract
<1>4. Subtract(a, b) \in JavaInt
  BY <1>3, AddWraps
<1>5. Subtract(a, b) = 0 <=> a - b = 0
  BY <1>1, SMT DEF Subtract, Add, MinInt, MaxInt
<1>6. QED
  BY <1>3, <1>4, <1>5

(* foo tests arg0 - 10 and arg0 - 18, which may wrap: the tests let        *)
(* through the numbers from 10 to 18 all the same, and no others.          *)
LEMMA TableIndex ==
  ASSUME NEW x \in JavaInt
  PROVE  LET i == Add(-10, x)
         IN  /\ i \in JavaInt /\ Negated(i) \in JavaInt /\ Add(-8, i) \in JavaInt
             /\ i \in 0..8 <=> ~(Negated(i) > 0) /\ ~(Add(-8, i) > 0)
             /\ i \in 0..8 => x = i + 10
             /\ x \in 10..18 => i = x - 10
<1> DEFINE i == Add(-10, x)
<1>1. /\ x \in Int /\ MinInt <= x /\ x <= MaxInt
  BY JavaIntIsInt, InJavaInt
<1>2. -10 \in JavaInt /\ -8 \in JavaInt
  BY SmallInts
<1>3. i \in JavaInt
  BY <1>2, AddWraps
<1>4. i = x - 10 \/ (i = x - 10 + 4294967296 /\ x < MinInt + 10)
  BY <1>1, SMT DEF Add, MinInt, MaxInt
<1>5. i \in Int /\ MinInt <= i /\ i <= MaxInt
  BY <1>3, JavaIntIsInt, InJavaInt
<1> HIDE DEF i
<1>6. Negated(i) \in JavaInt /\ Add(-8, i) \in JavaInt
  BY <1>2, <1>3, AddWraps, SubtractWraps
<1>7. i \in 0..8 <=> ~(Negated(i) > 0) /\ ~(Add(-8, i) > 0)
  BY <1>5, SMT DEF Negated, Add, MinInt, MaxInt
<1>8. /\ i \in 0..8 => x = i + 10
      /\ x \in 10..18 => i = x - 10
  BY <1>1, <1>4, SMT DEF MinInt, MaxInt
<1>9. QED
  BY <1>3, <1>6, <1>7, <1>8 DEF i

LEMMA A5Words ==
  ASSUME A5Loaded
  PROVE  A5x \in JavaInt /\ A5y \in JavaInt /\ A5z \in JavaInt
<1>1. \h200 \in JavaInt /\ \h204 \in JavaInt /\ \h208 \in JavaInt
  BY InJavaInt, SMT DEF MinInt, MaxInt
<1>2. QED
  BY <1>1, ReadType DEF A5Loaded, A5x, A5y, A5z, Word

(* What each case has to leave.                                            *)
LEMMA FooResults ==
  ASSUME A5Loaded
  PROVE  /\ A5x = 10 => FooResult = Add(A5y, A5z)
         /\ A5x = 12 => FooResult = Subtract(A5y, A5z)
         /\ A5x = 14 => FooResult = IF Subtract(A5y, A5z) > 0 THEN 1 ELSE 0
         /\ A5x = 16 => FooResult = IF Subtract(A5z, A5y) > 0 THEN 1 ELSE 0
         /\ A5x = 18 => FooResult = IF Subtract(A5y, A5z) = 0 THEN 1 ELSE 0
         /\ A5x \notin {10, 12, 14, 16, 18} => FooResult = 0
         /\ FooResult \in JavaInt
<1>1. A5x \in JavaInt /\ A5y \in JavaInt /\ A5z \in JavaInt
  BY A5Words
<1>2. /\ A5x = 14 => Subtract(A5y, A5z) = A5y - A5z
      /\ A5x = 16 => Subtract(A5z, A5y) = A5z - A5y
  BY <1>1, SubtractFits DEF A5Loaded
<1>3. Subtract(A5y, A5z) = 0 <=> A5y - A5z = 0
  BY <1>1, SubtractWraps
<1>4. /\ A5x = 10 => FooResult = Add(A5y, A5z)
      /\ A5x = 12 => FooResult = Subtract(A5y, A5z)
      /\ A5x = 14 => FooResult = IF A5y - A5z > 0 THEN 1 ELSE 0
      /\ A5x = 16 => FooResult = IF A5z - A5y > 0 THEN 1 ELSE 0
      /\ A5x = 18 => FooResult = IF A5y - A5z = 0 THEN 1 ELSE 0
      /\ A5x \notin {10, 12, 14, 16, 18} => FooResult = 0
  BY DEF FooResult, SwitchFoo
<1>5. 0 \in JavaInt /\ 1 \in JavaInt /\ Add(A5y, A5z) \in JavaInt /\ Subtract(A5y, A5z) \in JavaInt
  BY <1>1, SmallInts, AddWraps, SubtractWraps
<1>6. FooResult \in JavaInt
  <2>1. FooResult \in {0, 1, Add(A5y, A5z), Subtract(A5y, A5z)}
    BY <1>4
  <2>2. QED
    BY <1>5, <2>1
<1>7. QED
  BY <1>2, <1>3, <1>4, <1>6

(* The text and the inputs stay in memory, as the program writes neither.  *)
LEMMA A5Stays ==
  ASSUME A5Loaded, A5Memory
  PROVE  /\ Holds(mem, A5cMain) /\ Holds(mem, A5cFoo) /\ Holds(mem, A5cCases) /\ Holds(mem, A5cTable)
         /\ Word(mem, \h200) = A5x /\ Word(mem, \h204) = A5y /\ Word(mem, \h208) = A5z
<1>1. \A a \in DOMAIN A5c : a \in Int \ A5Written
  BY A5Parts, A5MainLaidOut, A5FooLaidOut, A5CasesLaidOut, A5TableLaidOut DEF A5Written
<1>2. Holds(mem, A5c)
  BY <1>1 DEF A5Loaded, A5Memory, Holds
<1>3. ASSUME NEW address \in {\h200, \h204, \h208}
      PROVE  Word(mem, address) = Word(loaded, address)
  <2>1. /\ Byte(mem, address) = Byte(loaded, address)
        /\ Byte(mem, address + 1) = Byte(loaded, address + 1)
        /\ Byte(mem, address + 2) = Byte(loaded, address + 2)
        /\ Byte(mem, address + 3) = Byte(loaded, address + 3)
    BY DEF A5Memory, A5Written
  <2>2. address \in Int
    OBVIOUS
  <2>3. Get(mem, address, 4) = Get(loaded, address, 4)
    BY <2>1, <2>2, WordIs
  <2>4. QED
    BY <2>2, <2>3, WordIs DEF Word
<1>4. QED
  BY <1>2, <1>3, A5Text DEF A5x, A5y, A5z

LEMMA A5StoresTo ==
  ASSUME A5Memory, UNCHANGED loaded, NEW address \in Int, NEW v \in JavaInt,
         \A a \in address..(address + 3) : a \in A5Written, mem' = WriteInteger(mem, address, v)
  PROVE  A5Memory'
<1>1. \A a \in Int \ A5Written : Byte(mem', a) = Byte(mem, a)
  BY WrittenBytes
<1>2. \A a \in DOMAIN mem' \ A5Written : a \in DOMAIN mem /\ mem'[a] = mem[a]
  <2> DEFINE n == WriteInteger(mem, address, v)
  <2>1. \A a \in DOMAIN n : a \in address..(address + 3) \/ (a \in DOMAIN mem /\ n[a] = mem[a])
    BY OneWord
  <2>2. mem' = n
    OBVIOUS
  <2> HIDE DEF n
  <2>3. QED
    BY <2>1, <2>2
<1>3. /\ \A a \in Int \ A5Written : Byte(mem', a) = Byte(loaded, a)
      /\ \A a \in DOMAIN mem' \ A5Written : a \in DOMAIN loaded /\ mem'[a] = loaded[a]
  BY <1>1, <1>2 DEF A5Memory
<1>4. QED
  BY <1>3 DEF A5Memory, Byte

LEMMA A5Stores ==
  ASSUME A5Memory, UNCHANGED loaded, NEW address \in {\h101c, \h1020, \h1024, \h20c},
         NEW v \in JavaInt, mem' = WriteInteger(mem, address, v)
  PROVE  A5Memory'
<1>1. address \in Int /\ \A a \in address..(address + 3) : a \in A5Written
  BY DEF A5Written
<1>2. QED
  BY <1>1, A5StoresTo

LEMMA A5Addresses ==
  ASSUME \h1028 <= ByteCapacity
  PROVE  /\ \A a \in {\h200, \h204, \h208, \h20c} : Add(0, a) = a /\ AddressFault(a, 4) = "none"
         /\ Add(0, \h101c) = \h101c /\ AddressFault(\h101c, 4) = "none"
         /\ Add(4, \h101c) = \h1020 /\ AddressFault(\h1020, 4) = "none"
         /\ Add(8, \h101c) = \h1024 /\ AddressFault(\h1024, 4) = "none"
<1>1. ByteCapacity \in Int
  BY CapacityAssumption
<1>2. \A a \in {\h200, \h204, \h208, \h20c, \h101c, \h1020, \h1024} : AddressFault(a, 4) = "none"
  BY <1>1, NoFault
<1>3. /\ \A a \in {\h200, \h204, \h208, \h20c, \h101c} : Add(0, a) = a
      /\ Add(4, \h101c) = \h1020 /\ Add(8, \h101c) = \h1024
  BY SMT DEF Add, MinInt, MaxInt
<1>4. QED
  BY <1>2, <1>3

----------------------------------------------------------------------------
(* The instruction that runs leads to the next one and stores nothing.      *)
Advances == UNCHANGED mem /\ \E n \in (\h34..\h38e) \ {\h300} : AfterCall(n)' /\ Stage(n)'

LEMMA AfterSet ==
  ASSUME MachineOK, reg[5] = \h101c, reg[6] = \h34, NEW r \in RegisterNumber \ {5, 6}, NEW v,
         Sets(r, v), NEW n \in \h302..\h38e, pc = n, InFoo(n)'
  PROVE  Advances
<1>1. reg'[5] = \h101c /\ reg'[6] = \h34 /\ pc' = n /\ status' = "fetch" /\ UNCHANGED mem
  BY DEF MachineOK, Sets, RegisterNumber
<1>2. n \in (\h34..\h38e) \ {\h300}
  OBVIOUS
<1>3. AfterCall(n)' /\ Stage(n)'
  BY <1>1 DEF AfterCall, Stage
<1>4. QED
  BY <1>1, <1>2, <1>3 DEF Advances

LEMMA AfterJump ==
  ASSUME reg[5] = \h101c, reg[6] = \h34, NEW n \in (\h34..\h38e) \ {\h300}, Goes(n), InFoo(n)' \/ ReturnAt(n)'
  PROVE  Advances
<1>1. reg'[5] = \h101c /\ reg'[6] = \h34 /\ pc' = n /\ status' = "fetch" /\ UNCHANGED mem
  BY DEF Goes
<1>2. AfterCall(n)' /\ Stage(n)'
  BY <1>1 DEF AfterCall, Stage
<1>3. QED
  BY <1>1, <1>2 DEF Advances

LEMMA EndStep ==
  ASSUME MachineOK, A5Loaded, A5Memory, UNCHANGED loaded, Execute, \h1028 <= ByteCapacity,
         reg[5] = \h101c, reg[6] = \h34, NEW q, EndAt(q), Decoded(mem, q, ins, pc)
  PROVE  Advances
<1> USE DEF RegisterNumber, IsLong
<1> DEFINE Is(code, op0, op1, op2) ==
             ins.code = code /\ ins.op0 = op0 /\ ins.op1 = op1 /\ ins.op2 = op2
<1>1. /\ A5x' = A5x /\ A5y' = A5y /\ A5z' = A5z /\ Index' = Index
      /\ FooResult' = FooResult
  BY DEF A5x, A5y, A5z, Index, FooResult
<1>2. /\ MemoryOK(mem) /\ Holds(mem, A5cCases)
      /\ HalfAt(mem, \h384) = \h200 /\ ReadInteger(mem, \h386) = 0
      /\ HalfAt(mem, \h38a) = \h8000 /\ HalfAt(mem, \h38c) = \h6020
      /\ HalfAt(mem, \h38e) = \hc600
  BY A5Stays, A5CasesText DEF MachineOK
<1>3. CASE q = \h384
  <2>1. Is(0, 2, 0, 0) /\ pc = \h38a /\ ins.ext = 0
    BY <1>2, <1>3 DEF Decoded, Signed
  <2>2. Sets(2, 0)
    BY <1>3, <2>1, Runs
  <2>3. EndAt(\h38a)'
    BY <1>1, <1>3, <2>2 DEF Sets, EndAt, Negated, Index, MachineOK
  <2>4. QED
    BY <2>1, <2>2, <2>3, AfterSet DEF InFoo
<1>4. CASE q = \h38a
  <2>1. Is(8, 0, 0, 0) /\ pc = \h38c /\ ins.imm = 0
    BY <1>2, <1>4 DEF Decoded, Signed
  <2>2. Relative = \h38c
    BY <2>1, SMT DEF Relative, Add, MaxInt, MinInt
  <2>3. Goes(\h38c)
    BY <2>1, <2>2, Jumps
  <2>4. EndAt(\h38c)'
    BY <1>1, <1>4, <2>3 DEF Goes, EndAt
  <2>5. QED
    BY <2>3, <2>4, AfterJump DEF InFoo
<1>5. CASE q = \h38c
  <2>1. Is(6, 0, 2, 0) /\ pc = \h38e
    BY <1>2, <1>5 DEF Decoded, Signed
  <2>2. Sets(0, reg[2])
    BY <1>5, <2>1, Runs
  <2>3. EndAt(\h38e)'
    BY <1>1, <1>5, <2>2 DEF Sets, EndAt, Negated, Index, MachineOK
  <2>4. QED
    BY <2>1, <2>2, <2>3, AfterSet DEF InFoo
<1>6. CASE q = \h38e
  <2>1. Is(12, 6, 0, 0) /\ pc = \h390 /\ ins.imm = 0
    BY <1>2, <1>6 DEF Decoded, Signed
  <2>2. Add(\h34, 2 * 0) = \h34
    BY SMT DEF Add, MaxInt, MinInt
  <2>3. Goes(\h34)
    BY <2>1, <2>2, Jumps
  <2>4. ReturnAt(\h34)'
    BY <1>1, <1>6, <2>3 DEF Goes, EndAt, ReturnAt
  <2>5. QED
    BY <2>3, <2>4, AfterJump
<1>7. q \in {\h384, \h38a, \h38c, \h38e}
  BY DEF EndAt
<1>8. QED
  BY <1>3, <1>4, <1>5, <1>6, <1>7

LEMMA SumStep ==
  ASSUME MachineOK, A5Loaded, A5Memory, UNCHANGED loaded, Execute, \h1028 <= ByteCapacity,
         reg[5] = \h101c, reg[6] = \h34, NEW q, SumAt(q), Decoded(mem, q, ins, pc)
  PROVE  Advances
<1> USE DEF RegisterNumber, IsLong
<1> DEFINE Is(code, op0, op1, op2) ==
             ins.code = code /\ ins.op0 = op0 /\ ins.op1 = op1 /\ ins.op2 = op2
<1>1. /\ A5x' = A5x /\ A5y' = A5y /\ A5z' = A5z /\ Index' = Index
      /\ FooResult' = FooResult
  BY DEF A5x, A5y, A5z, Index, FooResult
<1>2. /\ MemoryOK(mem) /\ Holds(mem, A5cCases)
      /\ HalfAt(mem, \h330) = \h6112 /\ HalfAt(mem, \h332) = \h802c
      /\ HalfAt(mem, \h334) = \h6702 /\ HalfAt(mem, \h336) = \h6302
      /\ HalfAt(mem, \h338) = \h6112 /\ HalfAt(mem, \h33a) = \h8028
  BY A5Stays, A5CasesText DEF MachineOK
<1>3. /\ Add(A5y, Negated(A5z)) = Subtract(A5y, A5z)
      /\ Add(A5z, Negated(A5y)) = Subtract(A5z, A5y)
      /\ A5x = 10 => FooResult = Add(A5y, A5z)
      /\ A5x = 12 => FooResult = Subtract(A5y, A5z)
  BY A5Words, SubtractWraps, FooResults
<1>4. CASE q = \h330
  <2>1. Is(6, 1, 1, 2) /\ pc = \h332
    BY <1>2, <1>4 DEF Decoded, Signed
  <2>2. Sets(2, Add(reg[1], reg[2]))
    BY <1>4, <2>1, Runs
  <2>3. SumAt(\h332)'
    BY <1>1, <1>4, <2>2, <1>3 DEF Sets, SumAt, Negated, Index, MachineOK
  <2>4. QED
    BY <2>1, <2>2, <2>3, AfterSet DEF InFoo
<1>5. CASE q = \h332
  <2>1. Is(8, 0, 2, 12) /\ pc = \h334 /\ ins.imm = \h2c
    BY <1>2, <1>5 DEF Decoded, Signed
  <2>2. Relative = \h38c
    BY <2>1, SMT DEF Relative, Add, MaxInt, MinInt
  <2>3. Goes(\h38c)
    BY <2>1, <2>2, Jumps
  <2>4. EndAt(\h38c)'
    BY <1>1, <1>5, <2>3 DEF Goes, SumAt, EndAt
  <2>5. QED
    BY <2>3, <2>4, AfterJump DEF InFoo
<1>6. CASE q = \h334
  <2>1. Is(6, 7, 0, 2) /\ pc = \h336
    BY <1>2, <1>6 DEF Decoded, Signed
  <2>2. Sets(2, -1 - reg[2])
    BY <1>6, <2>1, Runs
  <2>3. SumAt(\h336)'
    BY <1>1, <1>6, <2>2 DEF Sets, SumAt, Negated, Index, MachineOK
  <2>4. QED
    BY <2>1, <2>2, <2>3, AfterSet DEF InFoo
<1>7. CASE q = \h336
  <2>1. Is(6, 3, 0, 2) /\ pc = \h338
    BY <1>2, <1>7 DEF Decoded, Signed
  <2>2. Sets(2, Add(reg[2], 1))
    BY <1>7, <2>1, Runs
  <2>3. SumAt(\h338)'
    BY <1>1, <1>7, <2>2 DEF Sets, SumAt, Negated, Index, MachineOK
  <2>4. QED
    BY <2>1, <2>2, <2>3, AfterSet DEF InFoo
<1>8. CASE q = \h338
  <2>1. Is(6, 1, 1, 2) /\ pc = \h33a
    BY <1>2, <1>8 DEF Decoded, Signed
  <2>2. Sets(2, Add(reg[1], reg[2]))
    BY <1>8, <2>1, Runs
  <2>3. SumAt(\h33a)'
    BY <1>1, <1>8, <2>2, <1>3 DEF Sets, SumAt, Negated, Index, MachineOK
  <2>4. QED
    BY <2>1, <2>2, <2>3, AfterSet DEF InFoo
<1>9. CASE q = \h33a
  <2>1. Is(8, 0, 2, 8) /\ pc = \h33c /\ ins.imm = \h28
    BY <1>2, <1>9 DEF Decoded, Signed
  <2>2. Relative = \h38c
    BY <2>1, SMT DEF Relative, Add, MaxInt, MinInt
  <2>3. Goes(\h38c)
    BY <2>1, <2>2, Jumps
  <2>4. EndAt(\h38c)'
    BY <1>1, <1>9, <2>3 DEF Goes, SumAt, EndAt
  <2>5. QED
    BY <2>3, <2>4, AfterJump DEF InFoo
<1>10. q \in {\h330, \h332, \h334, \h336, \h338, \h33a}
  BY DEF SumAt
<1>11. QED
  BY <1>4, <1>5, <1>6, <1>7, <1>8, <1>9, <1>10

LEMMA FirstStep ==
  ASSUME MachineOK, A5Loaded, A5Memory, UNCHANGED loaded, Execute, \h1028 <= ByteCapacity,
         reg[5] = \h101c, reg[6] = \h34, NEW q, FirstAt(q), Decoded(mem, q, ins, pc)
  PROVE  Advances
<1> USE DEF RegisterNumber, IsLong
<1> DEFINE Is(code, op0, op1, op2) ==
             ins.code = code /\ ins.op0 = op0 /\ ins.op1 = op1 /\ ins.op2 = op2
<1>1. /\ A5x' = A5x /\ A5y' = A5y /\ A5z' = A5z /\ Index' = Index
      /\ FooResult' = FooResult
  BY DEF A5x, A5y, A5z, Index, FooResult
<1>2. /\ MemoryOK(mem) /\ Holds(mem, A5cCases)
      /\ HalfAt(mem, \h33c) = \h6702 /\ HalfAt(mem, \h33e) = \h6302
      /\ HalfAt(mem, \h340) = \h6112 /\ HalfAt(mem, \h342) = \ha204
      /\ HalfAt(mem, \h344) = \h200 /\ ReadInteger(mem, \h346) = 0
      /\ HalfAt(mem, \h34a) = \h8003 /\ HalfAt(mem, \h34c) = \h200
      /\ ReadInteger(mem, \h34e) = 1 /\ HalfAt(mem, \h352) = \h801c
  BY A5Stays, A5CasesText DEF MachineOK
<1>3. /\ Add(A5y, Negated(A5z)) = Subtract(A5y, A5z)
      /\ Add(A5z, Negated(A5y)) = Subtract(A5z, A5y)
      /\ A5x = 14 => FooResult = IF Subtract(A5y, A5z) > 0 THEN 1 ELSE 0
  BY A5Words, SubtractWraps, FooResults
<1>4. CASE q = \h33c
  <2>1. Is(6, 7, 0, 2) /\ pc = \h33e
    BY <1>2, <1>4 DEF Decoded, Signed
  <2>2. Sets(2, -1 - reg[2])
    BY <1>4, <2>1, Runs
  <2>3. FirstAt(\h33e)'
    BY <1>1, <1>4, <2>2 DEF Sets, FirstAt, Negated, Index, MachineOK
  <2>4. QED
    BY <2>1, <2>2, <2>3, AfterSet DEF InFoo
<1>5. CASE q = \h33e
  <2>1. Is(6, 3, 0, 2) /\ pc = \h340
    BY <1>2, <1>5 DEF Decoded, Signed
  <2>2. Sets(2, Add(reg[2], 1))
    BY <1>5, <2>1, Runs
  <2>3. FirstAt(\h340)'
    BY <1>1, <1>5, <2>2 DEF Sets, FirstAt, Negated, Index, MachineOK
  <2>4. QED
    BY <2>1, <2>2, <2>3, AfterSet DEF InFoo
<1>6. CASE q = \h340
  <2>1. Is(6, 1, 1, 2) /\ pc = \h342
    BY <1>2, <1>6 DEF Decoded, Signed
  <2>2. Sets(2, Add(reg[1], reg[2]))
    BY <1>6, <2>1, Runs
  <2>3. FirstAt(\h342)'
    BY <1>1, <1>6, <2>2, <1>3 DEF Sets, FirstAt, Negated, Index, MachineOK
  <2>4. QED
    BY <2>1, <2>2, <2>3, AfterSet DEF InFoo
<1>7. CASE q = \h342
  <2>1. Is(10, 2, 0, 4) /\ pc = \h344 /\ ins.imm = 4
    BY <1>2, <1>7 DEF Decoded, Signed
  <2>2. Relative = \h34c
    BY <2>1, SMT DEF Relative, Add, MaxInt, MinInt
  <2>3. Goes(IF Subtract(A5y, A5z) > 0 THEN \h34c ELSE \h344)
    BY <1>7, <2>1, <2>2, Jumps DEF FirstAt
  <2>4. CASE Subtract(A5y, A5z) > 0
    <3>1. FirstAt(\h34c)'
      BY <1>1, <1>7, <2>3, <2>4, <1>3 DEF Goes, FirstAt
    <3>2. QED
      BY <2>3, <2>4, <3>1, AfterJump DEF InFoo
  <2>5. CASE ~(Subtract(A5y, A5z) > 0)
    <3>1. FirstAt(\h344)'
      BY <1>1, <1>7, <2>3, <2>5, <1>3 DEF Goes, FirstAt
    <3>2. QED
      BY <2>3, <2>5, <3>1, AfterJump DEF InFoo
  <2>6. QED
    BY <2>4, <2>5
<1>8. CASE q = \h344
  <2>1. Is(0, 2, 0, 0) /\ pc = \h34a /\ ins.ext = 0
    BY <1>2, <1>8 DEF Decoded, Signed
  <2>2. Sets(2, 0)
    BY <1>8, <2>1, Runs
  <2>3. FirstAt(\h34a)'
    BY <1>1, <1>8, <2>2 DEF Sets, FirstAt, Negated, Index, MachineOK
  <2>4. QED
    BY <2>1, <2>2, <2>3, AfterSet DEF InFoo
<1>9. CASE q = \h34a
  <2>1. Is(8, 0, 0, 3) /\ pc = \h34c /\ ins.imm = 3
    BY <1>2, <1>9 DEF Decoded, Signed
  <2>2. Relative = \h352
    BY <2>1, SMT DEF Relative, Add, MaxInt, MinInt
  <2>3. Goes(\h352)
    BY <2>1, <2>2, Jumps
  <2>4. FirstAt(\h352)'
    BY <1>1, <1>9, <2>3 DEF Goes, FirstAt
  <2>5. QED
    BY <2>3, <2>4, AfterJump DEF InFoo
<1>10. CASE q = \h34c
  <2>1. Is(0, 2, 0, 0) /\ pc = \h352 /\ ins.ext = 1
    BY <1>2, <1>10 DEF Decoded, Signed
  <2>2. Sets(2, 1)
    BY <1>10, <2>1, Runs
  <2>3. FirstAt(\h352)'
    BY <1>1, <1>10, <2>2 DEF Sets, FirstAt, Negated, Index, MachineOK
  <2>4. QED
    BY <2>1, <2>2, <2>3, AfterSet DEF InFoo
<1>11. CASE q = \h352
  <2>1. Is(8, 0, 1, 12) /\ pc = \h354 /\ ins.imm = \h1c
    BY <1>2, <1>11 DEF Decoded, Signed
  <2>2. Relative = \h38c
    BY <2>1, SMT DEF Relative, Add, MaxInt, MinInt
  <2>3. Goes(\h38c)
    BY <2>1, <2>2, Jumps
  <2>4. EndAt(\h38c)'
    BY <1>1, <1>11, <2>3 DEF Goes, FirstAt, EndAt
  <2>5. QED
    BY <2>3, <2>4, AfterJump DEF InFoo
<1>12. q \in {\h33c, \h33e, \h340, \h342, \h344, \h34a, \h34c, \h352}
  BY DEF FirstAt
<1>13. QED
  BY <1>4, <1>5, <1>6, <1>7, <1>8, <1>9, <1>10, <1>11, <1>12

LEMMA SecondStep ==
  ASSUME MachineOK, A5Loaded, A5Memory, UNCHANGED loaded, Execute, \h1028 <= ByteCapacity,
         reg[5] = \h101c, reg[6] = \h34, NEW q, SecondAt(q), Decoded(mem, q, ins, pc)
  PROVE  Advances
<1> USE DEF RegisterNumber, IsLong
<1> DEFINE Is(code, op0, op1, op2) ==
             ins.code = code /\ ins.op0 = op0 /\ ins.op1 = op1 /\ ins.op2 = op2
<1>1. /\ A5x' = A5x /\ A5y' = A5y /\ A5z' = A5z /\ Index' = Index
      /\ FooResult' = FooResult
  BY DEF A5x, A5y, A5z, Index, FooResult
<1>2. /\ MemoryOK(mem) /\ Holds(mem, A5cCases)
      /\ HalfAt(mem, \h354) = \h6701 /\ HalfAt(mem, \h356) = \h6301
      /\ HalfAt(mem, \h358) = \h6121 /\ HalfAt(mem, \h35a) = \ha104
      /\ HalfAt(mem, \h35c) = \h200 /\ ReadInteger(mem, \h35e) = 0
      /\ HalfAt(mem, \h362) = \h8003 /\ HalfAt(mem, \h364) = \h200
      /\ ReadInteger(mem, \h366) = 1 /\ HalfAt(mem, \h36a) = \h8010
  BY A5Stays, A5CasesText DEF MachineOK
<1>3. /\ Add(A5y, Negated(A5z)) = Subtract(A5y, A5z)
      /\ Add(A5z, Negated(A5y)) = Subtract(A5z, A5y)
      /\ A5x = 16 => FooResult = IF Subtract(A5z, A5y) > 0 THEN 1 ELSE 0
  BY A5Words, SubtractWraps, FooResults
<1>4. CASE q = \h354
  <2>1. Is(6, 7, 0, 1) /\ pc = \h356
    BY <1>2, <1>4 DEF Decoded, Signed
  <2>2. Sets(1, -1 - reg[1])
    BY <1>4, <2>1, Runs
  <2>3. SecondAt(\h356)'
    BY <1>1, <1>4, <2>2 DEF Sets, SecondAt, Negated, Index, MachineOK
  <2>4. QED
    BY <2>1, <2>2, <2>3, AfterSet DEF InFoo
<1>5. CASE q = \h356
  <2>1. Is(6, 3, 0, 1) /\ pc = \h358
    BY <1>2, <1>5 DEF Decoded, Signed
  <2>2. Sets(1, Add(reg[1], 1))
    BY <1>5, <2>1, Runs
  <2>3. SecondAt(\h358)'
    BY <1>1, <1>5, <2>2 DEF Sets, SecondAt, Negated, Index, MachineOK
  <2>4. QED
    BY <2>1, <2>2, <2>3, AfterSet DEF InFoo
<1>6. CASE q = \h358
  <2>1. Is(6, 1, 2, 1) /\ pc = \h35a
    BY <1>2, <1>6 DEF Decoded, Signed
  <2>2. Sets(1, Add(reg[2], reg[1]))
    BY <1>6, <2>1, Runs
  <2>3. SecondAt(\h35a)'
    BY <1>1, <1>6, <2>2, <1>3 DEF Sets, SecondAt, Negated, Index, MachineOK
  <2>4. QED
    BY <2>1, <2>2, <2>3, AfterSet DEF InFoo
<1>7. CASE q = \h35a
  <2>1. Is(10, 1, 0, 4) /\ pc = \h35c /\ ins.imm = 4
    BY <1>2, <1>7 DEF Decoded, Signed
  <2>2. Relative = \h364
    BY <2>1, SMT DEF Relative, Add, MaxInt, MinInt
  <2>3. Goes(IF Subtract(A5z, A5y) > 0 THEN \h364 ELSE \h35c)
    BY <1>7, <2>1, <2>2, Jumps DEF SecondAt
  <2>4. CASE Subtract(A5z, A5y) > 0
    <3>1. SecondAt(\h364)'
      BY <1>1, <1>7, <2>3, <2>4, <1>3 DEF Goes, SecondAt
    <3>2. QED
      BY <2>3, <2>4, <3>1, AfterJump DEF InFoo
  <2>5. CASE ~(Subtract(A5z, A5y) > 0)
    <3>1. SecondAt(\h35c)'
      BY <1>1, <1>7, <2>3, <2>5, <1>3 DEF Goes, SecondAt
    <3>2. QED
      BY <2>3, <2>5, <3>1, AfterJump DEF InFoo
  <2>6. QED
    BY <2>4, <2>5
<1>8. CASE q = \h35c
  <2>1. Is(0, 2, 0, 0) /\ pc = \h362 /\ ins.ext = 0
    BY <1>2, <1>8 DEF Decoded, Signed
  <2>2. Sets(2, 0)
    BY <1>8, <2>1, Runs
  <2>3. SecondAt(\h362)'
    BY <1>1, <1>8, <2>2 DEF Sets, SecondAt, Negated, Index, MachineOK
  <2>4. QED
    BY <2>1, <2>2, <2>3, AfterSet DEF InFoo
<1>9. CASE q = \h362
  <2>1. Is(8, 0, 0, 3) /\ pc = \h364 /\ ins.imm = 3
    BY <1>2, <1>9 DEF Decoded, Signed
  <2>2. Relative = \h36a
    BY <2>1, SMT DEF Relative, Add, MaxInt, MinInt
  <2>3. Goes(\h36a)
    BY <2>1, <2>2, Jumps
  <2>4. SecondAt(\h36a)'
    BY <1>1, <1>9, <2>3 DEF Goes, SecondAt
  <2>5. QED
    BY <2>3, <2>4, AfterJump DEF InFoo
<1>10. CASE q = \h364
  <2>1. Is(0, 2, 0, 0) /\ pc = \h36a /\ ins.ext = 1
    BY <1>2, <1>10 DEF Decoded, Signed
  <2>2. Sets(2, 1)
    BY <1>10, <2>1, Runs
  <2>3. SecondAt(\h36a)'
    BY <1>1, <1>10, <2>2 DEF Sets, SecondAt, Negated, Index, MachineOK
  <2>4. QED
    BY <2>1, <2>2, <2>3, AfterSet DEF InFoo
<1>11. CASE q = \h36a
  <2>1. Is(8, 0, 1, 0) /\ pc = \h36c /\ ins.imm = \h10
    BY <1>2, <1>11 DEF Decoded, Signed
  <2>2. Relative = \h38c
    BY <2>1, SMT DEF Relative, Add, MaxInt, MinInt
  <2>3. Goes(\h38c)
    BY <2>1, <2>2, Jumps
  <2>4. EndAt(\h38c)'
    BY <1>1, <1>11, <2>3 DEF Goes, SecondAt, EndAt
  <2>5. QED
    BY <2>3, <2>4, AfterJump DEF InFoo
<1>12. q \in {\h354, \h356, \h358, \h35a, \h35c, \h362, \h364, \h36a}
  BY DEF SecondAt
<1>13. QED
  BY <1>4, <1>5, <1>6, <1>7, <1>8, <1>9, <1>10, <1>11, <1>12

LEMMA EqualStep ==
  ASSUME MachineOK, A5Loaded, A5Memory, UNCHANGED loaded, Execute, \h1028 <= ByteCapacity,
         reg[5] = \h101c, reg[6] = \h34, NEW q, EqualAt(q), Decoded(mem, q, ins, pc)
  PROVE  Advances
<1> USE DEF RegisterNumber, IsLong
<1> DEFINE Is(code, op0, op1, op2) ==
             ins.code = code /\ ins.op0 = op0 /\ ins.op1 = op1 /\ ins.op2 = op2
<1>1. /\ A5x' = A5x /\ A5y' = A5y /\ A5z' = A5z /\ Index' = Index
      /\ FooResult' = FooResult
  BY DEF A5x, A5y, A5z, Index, FooResult
<1>2. /\ MemoryOK(mem) /\ Holds(mem, A5cCases)
      /\ HalfAt(mem, \h36c) = \h6702 /\ HalfAt(mem, \h36e) = \h6302
      /\ HalfAt(mem, \h370) = \h6112 /\ HalfAt(mem, \h372) = \h9204
      /\ HalfAt(mem, \h374) = \h200 /\ ReadInteger(mem, \h376) = 0
      /\ HalfAt(mem, \h37a) = \h8003 /\ HalfAt(mem, \h37c) = \h200
      /\ ReadInteger(mem, \h37e) = 1 /\ HalfAt(mem, \h382) = \h8004
  BY A5Stays, A5CasesText DEF MachineOK
<1>3. /\ Add(A5y, Negated(A5z)) = Subtract(A5y, A5z)
      /\ Add(A5z, Negated(A5y)) = Subtract(A5z, A5y)
      /\ A5x = 18 => FooResult = IF Subtract(A5y, A5z) = 0 THEN 1 ELSE 0
  BY A5Words, SubtractWraps, FooResults
<1>4. CASE q = \h36c
  <2>1. Is(6, 7, 0, 2) /\ pc = \h36e
    BY <1>2, <1>4 DEF Decoded, Signed
  <2>2. Sets(2, -1 - reg[2])
    BY <1>4, <2>1, Runs
  <2>3. EqualAt(\h36e)'
    BY <1>1, <1>4, <2>2 DEF Sets, EqualAt, Negated, Index, MachineOK
  <2>4. QED
    BY <2>1, <2>2, <2>3, AfterSet DEF InFoo
<1>5. CASE q = \h36e
  <2>1. Is(6, 3, 0, 2) /\ pc = \h370
    BY <1>2, <1>5 DEF Decoded, Signed
  <2>2. Sets(2, Add(reg[2], 1))
    BY <1>5, <2>1, Runs
  <2>3. EqualAt(\h370)'
    BY <1>1, <1>5, <2>2 DEF Sets, EqualAt, Negated, Index, MachineOK
  <2>4. QED
    BY <2>1, <2>2, <2>3, AfterSet DEF InFoo
<1>6. CASE q = \h370
  <2>1. Is(6, 1, 1, 2) /\ pc = \h372
    BY <1>2, <1>6 DEF Decoded, Signed
  <2>2. Sets(2, Add(reg[1], reg[2]))
    BY <1>6, <2>1, Runs
  <2>3. EqualAt(\h372)'
    BY <1>1, <1>6, <2>2, <1>3 DEF Sets, EqualAt, Negated, Index, MachineOK
  <2>4. QED
    BY <2>1, <2>2, <2>3, AfterSet DEF InFoo
<1>7. CASE q = \h372
  <2>1. Is(9, 2, 0, 4) /\ pc = \h374 /\ ins.imm = 4
    BY <1>2, <1>7 DEF Decoded, Signed
  <2>2. Relative = \h37c
    BY <2>1, SMT DEF Relative, Add, MaxInt, MinInt
  <2>3. Goes(IF Subtract(A5y, A5z) = 0 THEN \h37c ELSE \h374)
    BY <1>7, <2>1, <2>2, Jumps DEF EqualAt
  <2>4. CASE Subtract(A5y, A5z) = 0
    <3>1. EqualAt(\h37c)'
      BY <1>1, <1>7, <2>3, <2>4, <1>3 DEF Goes, EqualAt
    <3>2. QED
      BY <2>3, <2>4, <3>1, AfterJump DEF InFoo
  <2>5. CASE ~(Subtract(A5y, A5z) = 0)
    <3>1. EqualAt(\h374)'
      BY <1>1, <1>7, <2>3, <2>5, <1>3 DEF Goes, EqualAt
    <3>2. QED
      BY <2>3, <2>5, <3>1, AfterJump DEF InFoo
  <2>6. QED
    BY <2>4, <2>5
<1>8. CASE q = \h374
  <2>1. Is(0, 2, 0, 0) /\ pc = \h37a /\ ins.ext = 0
    BY <1>2, <1>8 DEF Decoded, Signed
  <2>2. Sets(2, 0)
    BY <1>8, <2>1, Runs
  <2>3. EqualAt(\h37a)'
    BY <1>1, <1>8, <2>2 DEF Sets, EqualAt, Negated, Index, MachineOK
  <2>4. QED
    BY <2>1, <2>2, <2>3, AfterSet DEF InFoo
<1>9. CASE q = \h37a
  <2>1. Is(8, 0, 0, 3) /\ pc = \h37c /\ ins.imm = 3
    BY <1>2, <1>9 DEF Decoded, Signed
  <2>2. Relative = \h382
    BY <2>1, SMT DEF Relative, Add, MaxInt, MinInt
  <2>3. Goes(\h382)
    BY <2>1, <2>2, Jumps
  <2>4. EqualAt(\h382)'
    BY <1>1, <1>9, <2>3 DEF Goes, EqualAt
  <2>5. QED
    BY <2>3, <2>4, AfterJump DEF InFoo
<1>10. CASE q = \h37c
  <2>1. Is(0, 2, 0, 0) /\ pc = \h382 /\ ins.ext = 1
    BY <1>2, <1>10 DEF Decoded, Signed
  <2>2. Sets(2, 1)
    BY <1>10, <2>1, Runs
  <2>3. EqualAt(\h382)'
    BY <1>1, <1>10, <2>2 DEF Sets, EqualAt, Negated, Index, MachineOK
  <2>4. QED
    BY <2>1, <2>2, <2>3, AfterSet DEF InFoo
<1>11. CASE q = \h382
  <2>1. Is(8, 0, 0, 4) /\ pc = \h384 /\ ins.imm = 4
    BY <1>2, <1>11 DEF Decoded, Signed
  <2>2. Relative = \h38c
    BY <2>1, SMT DEF Relative, Add, MaxInt, MinInt
  <2>3. Goes(\h38c)
    BY <2>1, <2>2, Jumps
  <2>4. EndAt(\h38c)'
    BY <1>1, <1>11, <2>3 DEF Goes, EqualAt, EndAt
  <2>5. QED
    BY <2>3, <2>4, AfterJump DEF InFoo
<1>12. q \in {\h36c, \h36e, \h370, \h372, \h374, \h37a, \h37c, \h382}
  BY DEF EqualAt
<1>13. QED
  BY <1>4, <1>5, <1>6, <1>7, <1>8, <1>9, <1>10, <1>11, <1>12

LEMMA TableAddress ==
  ASSUME NEW i \in 0..8, \h1028 <= ByteCapacity
  PROVE  Add(\h400, Times4(i)) = \h400 + 4 * i /\ AlignedFault(\h400 + 4 * i) = "none"
<1>1. ByteCapacity \in Int
  BY CapacityAssumption
<1>2. Times4(i) = 4 * i /\ Add(\h400, 4 * i) = \h400 + 4 * i
  BY SMT DEF Times4, Add, MaxInt, MinInt
<1>3. AddressFault(\h400 + 4 * i, 4) = "none"
  BY <1>1, NoFault
<1>4. (\h400 + 4 * i) % 4 = 0
  BY SMT
<1>5. QED
  BY <1>2, <1>3, <1>4 DEF AlignedFault, IsAccessAligned

LEMMA FooStep ==
  ASSUME MachineOK, A5Loaded, A5Memory, UNCHANGED loaded, Execute, \h1028 <= ByteCapacity,
         reg[5] = \h101c, reg[6] = \h34, NEW q, FooAt(q), Decoded(mem, q, ins, pc)
  PROVE  Advances
<1> USE DEF RegisterNumber, IsLong
<1> DEFINE Is(code, op0, op1, op2) ==
             ins.code = code /\ ins.op0 = op0 /\ ins.op1 = op1 /\ ins.op2 = op2
<1>1. /\ A5x' = A5x /\ A5y' = A5y /\ A5z' = A5z /\ Index' = Index
      /\ FooResult' = FooResult
  BY DEF A5x, A5y, A5z, Index, FooResult
<1>2. /\ MemoryOK(mem) /\ Holds(mem, A5cFoo)
      /\ HalfAt(mem, \h300) = \h1050 /\ HalfAt(mem, \h302) = \h1151
      /\ HalfAt(mem, \h304) = \h1252 /\ HalfAt(mem, \h306) = \h300
      /\ ReadInteger(mem, \h308) = -10 /\ HalfAt(mem, \h30c) = \h6130
      /\ HalfAt(mem, \h30e) = \h6003 /\ HalfAt(mem, \h310) = \h6703
      /\ HalfAt(mem, \h312) = \h6303 /\ HalfAt(mem, \h314) = \ha337
      /\ HalfAt(mem, \h316) = \h6003 /\ HalfAt(mem, \h318) = \h400
      /\ ReadInteger(mem, \h31a) = -8 /\ HalfAt(mem, \h31e) = \h6143
      /\ HalfAt(mem, \h320) = \ha331 /\ HalfAt(mem, \h322) = \h300
      /\ ReadInteger(mem, \h324) = \h400 /\ HalfAt(mem, \h328) = \he300
  BY A5Stays, A5FooText DEF MachineOK
<1>3. /\ Index = Add(-10, A5x)
      /\ Index \in 0..8 <=> ~(Negated(Index) > 0) /\ ~(Add(-8, Index) > 0)
      /\ Index \in 0..8 => A5x = Index + 10
      /\ Index \notin 0..8 => FooResult = 0
      /\ A5x \in {11, 13, 15, 17} => FooResult = 0
  BY A5Words, TableIndex, FooResults DEF Index
<1>4. CASE q = \h300
  <2>1. Is(1, 0, 5, 0) /\ pc = \h302
    BY <1>2, <1>4 DEF Decoded, Signed
  <2>2. Add(0 * 4, reg[5]) = \h101c /\ AddressFault(\h101c, 4) = "none"
    BY A5Addresses
  <2>3. Sets(0, A5x)
    BY <1>4, <2>1, <2>2, MemoryRuns DEF FooAt, Passes, Word
  <2>4. FooAt(\h302)'
    BY <1>1, <1>4, <2>3 DEF Sets, FooAt, Passes, Word, MachineOK
  <2>5. QED
    BY <2>1, <2>3, <2>4, AfterSet DEF InFoo
<1>5. CASE q = \h302
  <2>1. Is(1, 1, 5, 1) /\ pc = \h304
    BY <1>2, <1>5 DEF Decoded, Signed
  <2>2. Add(1 * 4, reg[5]) = \h1020 /\ AddressFault(\h1020, 4) = "none"
    BY A5Addresses
  <2>3. Sets(1, A5y)
    BY <1>5, <2>1, <2>2, MemoryRuns DEF FooAt, Passes, Word
  <2>4. FooAt(\h304)'
    BY <1>1, <1>5, <2>3 DEF Sets, FooAt, Passes, Word, MachineOK
  <2>5. QED
    BY <2>1, <2>3, <2>4, AfterSet DEF InFoo
<1>6. CASE q = \h304
  <2>1. Is(1, 2, 5, 2) /\ pc = \h306
    BY <1>2, <1>6 DEF Decoded, Signed
  <2>2. Add(2 * 4, reg[5]) = \h1024 /\ AddressFault(\h1024, 4) = "none"
    BY A5Addresses
  <2>3. Sets(2, A5z)
    BY <1>6, <2>1, <2>2, MemoryRuns DEF FooAt, Passes, Word
  <2>4. FooAt(\h306)'
    BY <1>1, <1>6, <2>3 DEF Sets, FooAt, Passes, Word, MachineOK
  <2>5. QED
    BY <2>1, <2>3, <2>4, AfterSet DEF InFoo
<1>7. CASE q = \h306
  <2>1. Is(0, 3, 0, 0) /\ pc = \h30c /\ ins.ext = -10
    BY <1>2, <1>7 DEF Decoded, Signed
  <2>2. Sets(3, -10)
    BY <1>7, <2>1, Runs
  <2>3. FooAt(\h30c)'
    BY <1>1, <1>7, <2>2 DEF Sets, FooAt, Negated, Index, MachineOK
  <2>4. QED
    BY <2>1, <2>2, <2>3, AfterSet DEF InFoo
<1>8. CASE q = \h30c
  <2>1. Is(6, 1, 3, 0) /\ pc = \h30e
    BY <1>2, <1>8 DEF Decoded, Signed
  <2>2. Sets(0, Add(reg[3], reg[0]))
    BY <1>8, <2>1, Runs
  <2>3. FooAt(\h30e)'
    BY <1>1, <1>8, <2>2 DEF Sets, FooAt, Negated, Index, MachineOK
  <2>4. QED
    BY <2>1, <2>2, <2>3, AfterSet DEF InFoo
<1>9. CASE q = \h30e
  <2>1. Is(6, 0, 0, 3) /\ pc = \h310
    BY <1>2, <1>9 DEF Decoded, Signed
  <2>2. Sets(3, reg[0])
    BY <1>9, <2>1, Runs
  <2>3. FooAt(\h310)'
    BY <1>1, <1>9, <2>2 DEF Sets, FooAt, Negated, Index, MachineOK
  <2>4. QED
    BY <2>1, <2>2, <2>3, AfterSet DEF InFoo
<1>10. CASE q = \h310
  <2>1. Is(6, 7, 0, 3) /\ pc = \h312
    BY <1>2, <1>10 DEF Decoded, Signed
  <2>2. Sets(3, -1 - reg[3])
    BY <1>10, <2>1, Runs
  <2>3. FooAt(\h312)'
    BY <1>1, <1>10, <2>2 DEF Sets, FooAt, Negated, Index, MachineOK
  <2>4. QED
    BY <2>1, <2>2, <2>3, AfterSet DEF InFoo
<1>11. CASE q = \h312
  <2>1. Is(6, 3, 0, 3) /\ pc = \h314
    BY <1>2, <1>11 DEF Decoded, Signed
  <2>2. Sets(3, Add(reg[3], 1))
    BY <1>11, <2>1, Runs
  <2>3. FooAt(\h314)'
    BY <1>1, <1>11, <2>2 DEF Sets, FooAt, Negated, Index, MachineOK
  <2>4. QED
    BY <2>1, <2>2, <2>3, AfterSet DEF InFoo
<1>12. CASE q = \h314
  <2>1. Is(10, 3, 3, 7) /\ pc = \h316 /\ ins.imm = \h37
    BY <1>2, <1>12 DEF Decoded, Signed
  <2>2. Relative = \h384
    BY <2>1, SMT DEF Relative, Add, MaxInt, MinInt
  <2>3. Goes(IF Negated(Index) > 0 THEN \h384 ELSE \h316)
    BY <1>12, <2>1, <2>2, Jumps DEF FooAt
  <2>4. CASE Negated(Index) > 0
    <3>1. EndAt(\h384)'
      BY <1>1, <1>12, <2>3, <2>4, <1>3 DEF Goes, FooAt, EndAt
    <3>2. QED
      BY <2>3, <2>4, <3>1, AfterJump DEF InFoo
  <2>5. CASE ~(Negated(Index) > 0)
    <3>1. FooAt(\h316)'
      BY <1>1, <1>12, <2>3, <2>5, <1>3 DEF Goes, FooAt
    <3>2. QED
      BY <2>3, <2>5, <3>1, AfterJump DEF InFoo
  <2>6. QED
    BY <2>4, <2>5
<1>13. CASE q = \h316
  <2>1. Is(6, 0, 0, 3) /\ pc = \h318
    BY <1>2, <1>13 DEF Decoded, Signed
  <2>2. Sets(3, reg[0])
    BY <1>13, <2>1, Runs
  <2>3. FooAt(\h318)'
    BY <1>1, <1>13, <2>2 DEF Sets, FooAt, Negated, Index, MachineOK
  <2>4. QED
    BY <2>1, <2>2, <2>3, AfterSet DEF InFoo
<1>14. CASE q = \h318
  <2>1. Is(0, 4, 0, 0) /\ pc = \h31e /\ ins.ext = -8
    BY <1>2, <1>14 DEF Decoded, Signed
  <2>2. Sets(4, -8)
    BY <1>14, <2>1, Runs
  <2>3. FooAt(\h31e)'
    BY <1>1, <1>14, <2>2 DEF Sets, FooAt, Negated, Index, MachineOK
  <2>4. QED
    BY <2>1, <2>2, <2>3, AfterSet DEF InFoo
<1>15. CASE q = \h31e
  <2>1. Is(6, 1, 4, 3) /\ pc = \h320
    BY <1>2, <1>15 DEF Decoded, Signed
  <2>2. Sets(3, Add(reg[4], reg[3]))
    BY <1>15, <2>1, Runs
  <2>3. FooAt(\h320)'
    BY <1>1, <1>15, <2>2 DEF Sets, FooAt, Negated, Index, MachineOK
  <2>4. QED
    BY <2>1, <2>2, <2>3, AfterSet DEF InFoo
<1>16. CASE q = \h320
  <2>1. Is(10, 3, 3, 1) /\ pc = \h322 /\ ins.imm = \h31
    BY <1>2, <1>16 DEF Decoded, Signed
  <2>2. Relative = \h384
    BY <2>1, SMT DEF Relative, Add, MaxInt, MinInt
  <2>3. Goes(IF Add(-8, Index) > 0 THEN \h384 ELSE \h322)
    BY <1>16, <2>1, <2>2, Jumps DEF FooAt
  <2>4. CASE Add(-8, Index) > 0
    <3>1. EndAt(\h384)'
      BY <1>1, <1>16, <2>3, <2>4, <1>3 DEF Goes, FooAt, EndAt
    <3>2. QED
      BY <2>3, <2>4, <3>1, AfterJump DEF InFoo
  <2>5. CASE ~(Add(-8, Index) > 0)
    <3>1. FooAt(\h322)'
      BY <1>1, <1>16, <2>3, <2>5, <1>3 DEF Goes, FooAt
    <3>2. QED
      BY <2>3, <2>5, <3>1, AfterJump DEF InFoo
  <2>6. QED
    BY <2>4, <2>5
<1>17. CASE q = \h322
  <2>1. Is(0, 3, 0, 0) /\ pc = \h328 /\ ins.ext = \h400
    BY <1>2, <1>17 DEF Decoded, Signed
  <2>2. Sets(3, \h400)
    BY <1>17, <2>1, Runs
  <2>3. FooAt(\h328)'
    BY <1>1, <1>17, <2>2 DEF Sets, FooAt, Negated, Index, MachineOK
  <2>4. QED
    BY <2>1, <2>2, <2>3, AfterSet DEF InFoo
<1>18. CASE q = \h328
  <2>1. Is(14, 3, 0, 0) /\ reg[0] = Index /\ reg[3] = \h400 /\ Index \in 0..8
    BY <1>2, <1>18 DEF Decoded, Signed, FooAt
  <2>2. /\ Add(\h400, Times4(Index)) = \h400 + 4 * Index
        /\ AlignedFault(\h400 + 4 * Index) = "none"
    BY <2>1, TableAddress
  <2>3. Goes(ReadInteger(mem, \h400 + 4 * Index))
    BY <2>1, <2>2, MemoryRuns
  <2>4. Holds(mem, A5cTable) /\ reg[1] = A5y /\ reg[2] = A5z
    BY A5Stays, <1>18 DEF FooAt
  <2>5. CASE Index = 0
    <3>1. Goes(\h330)
      BY <2>3, <2>4, <2>5, A5TableLaidOut
    <3>2. SumAt(\h330)'
      BY <1>1, <1>3, <2>4, <2>5, <3>1 DEF Goes, SumAt
    <3>3. QED
      BY <3>1, <3>2, AfterJump DEF InFoo
  <2>6. CASE Index = 1
    <3>1. Goes(\h384)
      BY <2>3, <2>4, <2>6, A5TableLaidOut
    <3>2. EndAt(\h384)'
      BY <1>1, <1>3, <2>4, <2>6, <3>1 DEF Goes, EndAt
    <3>3. QED
      BY <3>1, <3>2, AfterJump DEF InFoo
  <2>7. CASE Index = 2
    <3>1. Goes(\h334)
      BY <2>3, <2>4, <2>7, A5TableLaidOut
    <3>2. SumAt(\h334)'
      BY <1>1, <1>3, <2>4, <2>7, <3>1 DEF Goes, SumAt
    <3>3. QED
      BY <3>1, <3>2, AfterJump DEF InFoo
  <2>8. CASE Index = 3
    <3>1. Goes(\h384)
      BY <2>3, <2>4, <2>8, A5TableLaidOut
    <3>2. EndAt(\h384)'
      BY <1>1, <1>3, <2>4, <2>8, <3>1 DEF Goes, EndAt
    <3>3. QED
      BY <3>1, <3>2, AfterJump DEF InFoo
  <2>9. CASE Index = 4
    <3>1. Goes(\h33c)
      BY <2>3, <2>4, <2>9, A5TableLaidOut
    <3>2. FirstAt(\h33c)'
      BY <1>1, <1>3, <2>4, <2>9, <3>1 DEF Goes, FirstAt
    <3>3. QED
      BY <3>1, <3>2, AfterJump DEF InFoo
  <2>10. CASE Index = 5
    <3>1. Goes(\h384)
      BY <2>3, <2>4, <2>10, A5TableLaidOut
    <3>2. EndAt(\h384)'
      BY <1>1, <1>3, <2>4, <2>10, <3>1 DEF Goes, EndAt
    <3>3. QED
      BY <3>1, <3>2, AfterJump DEF InFoo
  <2>11. CASE Index = 6
    <3>1. Goes(\h354)
      BY <2>3, <2>4, <2>11, A5TableLaidOut
    <3>2. SecondAt(\h354)'
      BY <1>1, <1>3, <2>4, <2>11, <3>1 DEF Goes, SecondAt
    <3>3. QED
      BY <3>1, <3>2, AfterJump DEF InFoo
  <2>12. CASE Index = 7
    <3>1. Goes(\h384)
      BY <2>3, <2>4, <2>12, A5TableLaidOut
    <3>2. EndAt(\h384)'
      BY <1>1, <1>3, <2>4, <2>12, <3>1 DEF Goes, EndAt
    <3>3. QED
      BY <3>1, <3>2, AfterJump DEF InFoo
  <2>13. CASE Index = 8
    <3>1. Goes(\h36c)
      BY <2>3, <2>4, <2>13, A5TableLaidOut
    <3>2. EqualAt(\h36c)'
      BY <1>1, <1>3, <2>4, <2>13, <3>1 DEF Goes, EqualAt
    <3>3. QED
      BY <3>1, <3>2, AfterJump DEF InFoo
  <2>14. QED
    BY <2>1, <2>5, <2>6, <2>7, <2>8, <2>9, <2>10, <2>11, <2>12, <2>13
<1>19. q \in {\h300, \h302, \h304, \h306, \h30c, \h30e, \h310, \h312, \h314, \h316, \h318, \h31e,
               \h320, \h322, \h328}
  BY DEF FooAt
<1>20. QED
  BY <1>4, <1>5, <1>6, <1>7, <1>8, <1>9, <1>10, <1>11, <1>12, <1>13, <1>14, <1>15, <1>16,
     <1>17, <1>18, <1>19

----------------------------------------------------------------------------
(* An instruction of main before the call leads to the next, in order.     *)
Pushes == A5Memory' /\ \E n \in \h0..\h2e : MainAt(n)' /\ Stage(n)'

LEMMA PushesSet ==
  ASSUME A5Memory, UNCHANGED loaded, NEW r, NEW v, Sets(r, v), NEW n \in \h0..\h2e, pc = n, MainAt(n)'
  PROVE  Pushes
<1>1. A5Memory' /\ pc' = n /\ status' = "fetch"
  BY DEF Sets, A5Memory, Byte
<1>2. Stage(n)'
  BY <1>1 DEF Stage
<1>3. QED
  BY <1>1, <1>2 DEF Pushes

LEMMA PushesWord ==
  ASSUME A5Memory, UNCHANGED loaded, NEW address \in {\h101c, \h1020, \h1024}, NEW v \in JavaInt,
         mem' = WriteInteger(mem, address, v), status' = "fetch", UNCHANGED <<reg, pc>>,
         NEW n \in \h0..\h2e, pc = n, MainAt(n)'
  PROVE  Pushes
<1>1. A5Memory'
  BY A5Stores
<1>2. Stage(n)'
  BY DEF Stage
<1>3. QED
  BY <1>1, <1>2 DEF Pushes

LEMMA MainStep ==
  ASSUME MachineOK, A5Loaded, A5Memory, UNCHANGED loaded, Execute, \h1028 <= ByteCapacity,
         NEW q, MainAt(q), Decoded(mem, q, ins, pc)
  PROVE  \/ q # \h2e /\ Pushes
         \/ q = \h2e /\ ins.code = 11 /\ Passes(3) /\ Goes(\h300) /\ AfterCall(\h300)'
<1> USE DEF RegisterNumber, IsLong
<1> DEFINE Is(code, op0, op1, op2) ==
             ins.code = code /\ ins.op0 = op0 /\ ins.op1 = op1 /\ ins.op2 = op2
<1>1. A5x' = A5x /\ A5y' = A5y /\ A5z' = A5z /\ FooResult' = FooResult
  BY DEF A5x, A5y, A5z, FooResult
<1>2. /\ MemoryOK(mem) /\ Holds(mem, A5cMain)
      /\ HalfAt(mem, 0) = \h500 /\ ReadInteger(mem, 2) = \h1028 /\ HalfAt(mem, 6) = 0
      /\ ReadInteger(mem, 8) = -12 /\ HalfAt(mem, \hc) = \h6105 /\ HalfAt(mem, \he) = 0
      /\ ReadInteger(mem, \h10) = \h200 /\ HalfAt(mem, \h14) = \h1000
      /\ HalfAt(mem, \h16) = \h3005 /\ HalfAt(mem, \h18) = 0
      /\ ReadInteger(mem, \h1a) = \h204 /\ HalfAt(mem, \h1e) = \h1000
      /\ HalfAt(mem, \h20) = \h3015 /\ HalfAt(mem, \h22) = 0
      /\ ReadInteger(mem, \h24) = \h208 /\ HalfAt(mem, \h28) = \h1000
      /\ HalfAt(mem, \h2a) = \h3025 /\ HalfAt(mem, \h2c) = \h6f36
      /\ HalfAt(mem, \h2e) = \hb000 /\ ReadInteger(mem, \h30) = \h300
  BY A5Stays, A5MainText DEF MachineOK
<1>3. /\ Add(-12, \h1028) = \h101c /\ Add(\h2e, 2 * 3) = \h34
      /\ Word(mem, \h200) = A5x /\ Word(mem, \h204) = A5y /\ Word(mem, \h208) = A5z
  <2>1. Add(-12, \h1028) = \h101c /\ Add(\h2e, 2 * 3) = \h34
    BY SMT DEF Add, MaxInt, MinInt
  <2>2. QED
    BY <2>1, A5Stays
<1>4. A5x \in JavaInt /\ A5y \in JavaInt /\ A5z \in JavaInt
  BY A5Words
<1>5. CASE q = 0
  <2>1. Is(0, 5, 0, 0) /\ pc = 6 /\ ins.ext = \h1028
    BY <1>2, <1>5 DEF Decoded, Signed
  <2>2. Sets(5, \h1028)
    BY <1>5, <2>1, Runs
  <2>3. MainAt(6)'
    BY <1>1, <1>5, <2>2 DEF Sets, MainAt, Passes, Word, MachineOK
  <2>4. QED
    BY <1>5, <2>1, <2>2, <2>3, PushesSet
<1>6. CASE q = 6
  <2>1. Is(0, 0, 0, 0) /\ pc = \hc /\ ins.ext = -12
    BY <1>2, <1>6 DEF Decoded, Signed
  <2>2. Sets(0, -12)
    BY <1>6, <2>1, Runs
  <2>3. MainAt(\hc)'
    BY <1>1, <1>6, <2>2 DEF Sets, MainAt, Passes, Word, MachineOK
  <2>4. QED
    BY <1>6, <2>1, <2>2, <2>3, PushesSet
<1>7. CASE q = \hc
  <2>1. Is(6, 1, 0, 5) /\ pc = \he
    BY <1>2, <1>7 DEF Decoded, Signed
  <2>2. Sets(5, Add(reg[0], reg[5]))
    BY <1>7, <2>1, Runs
  <2>3. MainAt(\he)'
    BY <1>1, <1>7, <2>2, <1>3 DEF Sets, MainAt, Passes, Word, MachineOK
  <2>4. QED
    BY <1>7, <2>1, <2>2, <2>3, PushesSet
<1>8. CASE q = \he
  <2>1. Is(0, 0, 0, 0) /\ pc = \h14 /\ ins.ext = \h200
    BY <1>2, <1>8 DEF Decoded, Signed
  <2>2. Sets(0, \h200)
    BY <1>8, <2>1, Runs
  <2>3. MainAt(\h14)'
    BY <1>1, <1>8, <2>2 DEF Sets, MainAt, Passes, Word, MachineOK
  <2>4. QED
    BY <1>8, <2>1, <2>2, <2>3, PushesSet
<1>9. CASE q = \h14
  <2>1. Is(1, 0, 0, 0) /\ pc = \h16
    BY <1>2, <1>9 DEF Decoded, Signed
  <2>2. Add(0 * 4, reg[0]) = \h200 /\ AddressFault(\h200, 4) = "none"
    BY A5Addresses, <1>9 DEF MainAt
  <2>3. Sets(0, A5x)
    BY <1>3, <2>1, <2>2, MemoryRuns DEF Word
  <2>4. MainAt(\h16)'
    BY <1>1, <1>9, <2>3 DEF Sets, MainAt, Passes, Word, MachineOK
  <2>5. QED
    BY <1>9, <2>1, <2>3, <2>4, PushesSet
<1>10. CASE q = \h16
  <2>1. Is(3, 0, 0, 5) /\ pc = \h18
    BY <1>2, <1>10 DEF Decoded, Signed
  <2>2. Add(0 * 4, reg[5]) = \h101c /\ AddressFault(\h101c, 4) = "none" /\ reg[0] = A5x
    BY A5Addresses, <1>10 DEF MainAt
  <2>3. mem' = WriteInteger(mem, \h101c, A5x) /\ status' = "fetch" /\ UNCHANGED <<reg, pc>>
    BY <2>1, <2>2, MemoryRuns
  <2>4. ReadInteger(mem', \h101c) = A5x
    BY <1>4, <2>3, WordsAreKept
  <2>5. MainAt(\h18)'
    BY <1>1, <1>10, <2>3, <2>4 DEF MainAt, Passes, Word
  <2>6. QED
    BY <1>4, <1>10, <2>1, <2>3, <2>5, PushesWord
<1>11. CASE q = \h18
  <2>1. Is(0, 0, 0, 0) /\ pc = \h1e /\ ins.ext = \h204
    BY <1>2, <1>11 DEF Decoded, Signed
  <2>2. Sets(0, \h204)
    BY <1>11, <2>1, Runs
  <2>3. MainAt(\h1e)'
    BY <1>1, <1>11, <2>2 DEF Sets, MainAt, Passes, Word, MachineOK
  <2>4. QED
    BY <1>11, <2>1, <2>2, <2>3, PushesSet
<1>12. CASE q = \h1e
  <2>1. Is(1, 0, 0, 0) /\ pc = \h20
    BY <1>2, <1>12 DEF Decoded, Signed
  <2>2. Add(0 * 4, reg[0]) = \h204 /\ AddressFault(\h204, 4) = "none"
    BY A5Addresses, <1>12 DEF MainAt
  <2>3. Sets(0, A5y)
    BY <1>3, <2>1, <2>2, MemoryRuns DEF Word
  <2>4. MainAt(\h20)'
    BY <1>1, <1>12, <2>3 DEF Sets, MainAt, Passes, Word, MachineOK
  <2>5. QED
    BY <1>12, <2>1, <2>3, <2>4, PushesSet
<1>13. CASE q = \h20
  <2>1. Is(3, 0, 1, 5) /\ pc = \h22
    BY <1>2, <1>13 DEF Decoded, Signed
  <2>2. Add(1 * 4, reg[5]) = \h1020 /\ AddressFault(\h1020, 4) = "none" /\ reg[0] = A5y
    BY A5Addresses, <1>13 DEF MainAt
  <2>3. mem' = WriteInteger(mem, \h1020, A5y) /\ status' = "fetch" /\ UNCHANGED <<reg, pc>>
    BY <2>1, <2>2, MemoryRuns
  <2>4. ReadInteger(mem', \h1020) = A5y
    BY <1>4, <2>3, WordsAreKept
  <2>5. ReadInteger(mem', \h101c) = ReadInteger(mem, \h101c)
    BY <1>4, <2>3, WordsAreKept
  <2>6. MainAt(\h22)'
    BY <1>1, <1>13, <2>3, <2>4, <2>5 DEF MainAt, Passes, Word
  <2>7. QED
    BY <1>4, <1>13, <2>1, <2>3, <2>6, PushesWord
<1>14. CASE q = \h22
  <2>1. Is(0, 0, 0, 0) /\ pc = \h28 /\ ins.ext = \h208
    BY <1>2, <1>14 DEF Decoded, Signed
  <2>2. Sets(0, \h208)
    BY <1>14, <2>1, Runs
  <2>3. MainAt(\h28)'
    BY <1>1, <1>14, <2>2 DEF Sets, MainAt, Passes, Word, MachineOK
  <2>4. QED
    BY <1>14, <2>1, <2>2, <2>3, PushesSet
<1>15. CASE q = \h28
  <2>1. Is(1, 0, 0, 0) /\ pc = \h2a
    BY <1>2, <1>15 DEF Decoded, Signed
  <2>2. Add(0 * 4, reg[0]) = \h208 /\ AddressFault(\h208, 4) = "none"
    BY A5Addresses, <1>15 DEF MainAt
  <2>3. Sets(0, A5z)
    BY <1>3, <2>1, <2>2, MemoryRuns DEF Word
  <2>4. MainAt(\h2a)'
    BY <1>1, <1>15, <2>3 DEF Sets, MainAt, Passes, Word, MachineOK
  <2>5. QED
    BY <1>15, <2>1, <2>3, <2>4, PushesSet
<1>16. CASE q = \h2a
  <2>1. Is(3, 0, 2, 5) /\ pc = \h2c
    BY <1>2, <1>16 DEF Decoded, Signed
  <2>2. Add(2 * 4, reg[5]) = \h1024 /\ AddressFault(\h1024, 4) = "none" /\ reg[0] = A5z
    BY A5Addresses, <1>16 DEF MainAt
  <2>3. mem' = WriteInteger(mem, \h1024, A5z) /\ status' = "fetch" /\ UNCHANGED <<reg, pc>>
    BY <2>1, <2>2, MemoryRuns
  <2>4. ReadInteger(mem', \h1024) = A5z
    BY <1>4, <2>3, WordsAreKept
  <2>5. ReadInteger(mem', \h101c) = ReadInteger(mem, \h101c) /\ ReadInteger(mem', \h1020) = ReadInteger(mem, \h1020)
    BY <1>4, <2>3, WordsAreKept
  <2>6. MainAt(\h2c)'
    BY <1>1, <1>16, <2>3, <2>4, <2>5 DEF MainAt, Passes, Word
  <2>7. QED
    BY <1>4, <1>16, <2>1, <2>3, <2>6, PushesWord
<1>17. CASE q = \h2c
  <2>1. Is(6, 15, 3, 6) /\ pc = \h2e
    BY <1>2, <1>17 DEF Decoded, Signed
  <2>2. Sets(6, Add(pc, 2 * 3))
    BY <1>17, <2>1, ProgramCounter
  <2>3. MainAt(\h2e)'
    BY <1>1, <1>17, <2>2, <1>3, <2>1 DEF Sets, MainAt, Passes, Word, MachineOK
  <2>4. QED
    BY <1>17, <2>1, <2>2, <2>3, PushesSet
<1>18. CASE q = \h2e
  <2>1. Is(11, 0, 0, 0) /\ ins.ext = \h300
    BY <1>2, <1>18 DEF Decoded, Signed
  <2>2. Goes(\h300)
    BY <2>1, Jumps
  <2>3. FooAt(\h300)' /\ reg'[5] = \h101c /\ reg'[6] = \h34
    BY <1>1, <1>18, <2>2 DEF Goes, MainAt, FooAt, Passes, Word
  <2>4. QED
    BY <1>18, <2>1, <2>2, <2>3 DEF AfterCall, InFoo, MainAt
<1>19. q \in {0, 6, \hc, \he, \h14, \h16, \h18, \h1e, \h20, \h22, \h28, \h2a, \h2c, \h2e}
  BY DEF MainAt
<1>20. QED
  BY <1>5, <1>6, <1>7, <1>8, <1>9, <1>10, <1>11, <1>12, <1>13, <1>14, <1>15, <1>16,
     <1>17, <1>18, <1>19

(* And after it, to the halt.                                              *)
Returns ==
  /\ A5Memory' /\ reg'[5] = \h101c
  /\ \/ \E n \in \h34..\h3c : ReturnAt(n)' /\ Stage(n)'
     \/ status' = "halt" /\ Stored'

LEMMA ReturnStep ==
  ASSUME MachineOK, A5Loaded, A5Memory, UNCHANGED loaded, Execute, \h1028 <= ByteCapacity,
         reg[5] = \h101c, NEW q, ReturnAt(q), Decoded(mem, q, ins, pc)
  PROVE  Returns
<1> USE DEF RegisterNumber, IsLong
<1> DEFINE Is(code, op0, op1, op2) ==
             ins.code = code /\ ins.op0 = op0 /\ ins.op1 = op1 /\ ins.op2 = op2
<1>1. A5x' = A5x /\ A5y' = A5y /\ A5z' = A5z /\ FooResult' = FooResult
  BY DEF A5x, A5y, A5z, FooResult
<1>2. /\ MemoryOK(mem) /\ Holds(mem, A5cMain)
      /\ HalfAt(mem, \h34) = \h100 /\ ReadInteger(mem, \h36) = \h20c
      /\ HalfAt(mem, \h3a) = \h3001 /\ HalfAt(mem, \h3c) = \hf000
  BY A5Stays, A5MainText DEF MachineOK
<1>3. FooResult \in JavaInt
  BY FooResults
<1>4. CASE q = \h34
  <2>1. Is(0, 1, 0, 0) /\ pc = \h3a /\ ins.ext = \h20c
    BY <1>2, <1>4 DEF Decoded, Signed
  <2>2. Sets(1, \h20c)
    BY <1>4, <2>1, Runs
  <2>3. ReturnAt(\h3a)' /\ reg'[5] = \h101c
    BY <1>1, <1>4, <2>2 DEF Sets, ReturnAt, MachineOK
  <2>4. Stage(\h3a)' /\ A5Memory'
    BY <2>1, <2>2 DEF Sets, Stage, A5Memory, Byte
  <2>5. QED
    BY <2>3, <2>4 DEF Returns
<1>5. CASE q = \h3a
  <2>1. Is(3, 0, 0, 1) /\ pc = \h3c
    BY <1>2, <1>5 DEF Decoded, Signed
  <2>2. Add(0 * 4, reg[1]) = \h20c /\ AddressFault(\h20c, 4) = "none" /\ reg[0] = FooResult
    BY A5Addresses, <1>5 DEF ReturnAt
  <2>3. mem' = WriteInteger(mem, \h20c, FooResult) /\ status' = "fetch" /\ UNCHANGED <<reg, pc>>
    BY <2>1, <2>2, MemoryRuns
  <2>4. A5Memory'
    BY <1>3, <2>3, A5Stores
  <2>5. \A a \in \h20c..\h20f : a \in DOMAIN mem' /\ mem'[a] = Words(\h20c, << FooResult >>)[a]
    BY <1>3, <2>3, OneWord
  <2>6. ReturnAt(\h3c)'
    BY <1>1, <2>5 DEF ReturnAt, Stored
  <2>7. Stage(\h3c)'
    BY <2>1, <2>3 DEF Stage
  <2>8. QED
    BY <2>3, <2>4, <2>6, <2>7 DEF Returns
<1>6. CASE q = \h3c
  <2>1. Is(15, 0, 0, 0)
    BY <1>2, <1>6 DEF Decoded, Signed
  <2>2. status' = "halt" /\ UNCHANGED <<mem, reg>>
    BY <2>1, Jumps
  <2>3. Stored' /\ A5Memory'
    BY <1>1, <1>6, <2>2 DEF ReturnAt, Stored, A5Memory, Byte
  <2>4. QED
    BY <2>2, <2>3 DEF Returns
<1>7. q \in {\h34, \h3a, \h3c}
  BY DEF ReturnAt
<1>8. QED
  BY <1>4, <1>5, <1>6, <1>7

----------------------------------------------------------------------------
(* Only the jump to foo enters a routine.                                  *)
LEMMA A5Callees ==
  /\ "A5_c" \in DOMAIN Callees /\ DOMAIN Callees["A5_c"] = {\h300} /\ Callees["A5_c"][\h300] = 3
  BY DEF Callees

Counts == calls' = IF Enters THEN Append(calls, << pc' >> \o Passed) ELSE calls

LEMMA NoCall ==
  ASSUME Counts, prog = "A5_c", status' # "fetch" \/ pc' # \h300
  PROVE  calls' = calls
<1>1. ~Enters
  BY A5Callees DEF Enters
<1>2. QED
  BY <1>1 DEF Counts

LEMMA ConcatOne ==
  ASSUME NEW S, NEW s \in Seq(S), NEW t \in Seq(S), Len(s) = 1, Len(t) = 3
  PROVE  /\ s \o t \in Seq(S) /\ Len(s \o t) = 4
         /\ (s \o t)[1] = s[1] /\ (s \o t)[2] = t[1] /\ (s \o t)[3] = t[2] /\ (s \o t)[4] = t[3]
<1>1. /\ s \o t \in Seq(S)
      /\ Len(s \o t) = Len(s) + Len(t)
      /\ \A i \in 1 .. Len(s) + Len(t) : (s \o t)[i] = IF i <= Len(s) THEN s[i] ELSE t[i - Len(s)]
  BY ConcatProperties, Zenon
<1> DEFINE u == s \o t
<1>2. \A i \in 1 .. Len(s) + Len(t) : u[i] = IF i <= Len(s) THEN s[i] ELSE t[i - Len(s)]
  BY <1>1
<1> HIDE DEF u
<1>3. \A i \in 1..4 : u[i] = IF i <= 1 THEN s[i] ELSE t[i - 1]
  BY <1>2
<1>4. u[1] = s[1] /\ u[2] = t[1] /\ u[3] = t[2] /\ u[4] = t[3]
  BY <1>3
<1>5. Len(s) + Len(t) = 4
  OBVIOUS
<1>6. QED
  BY <1>1, <1>4, <1>5 DEF u

LEMMA FirstOfFour ==
  ASSUME NEW a, NEW b, NEW c, NEW d
  PROVE  << a >> \o << b, c, d >> = << a, b, c, d >>
<1> DEFINE S == {a, b, c, d}
           s == << a >>
           t == << b, c, d >>
           u == << a, b, c, d >>
<1>1. s \in Seq(S) /\ t \in Seq(S) /\ u \in Seq(S)
  OBVIOUS
<1>2. Len(s) = 1 /\ Len(t) = 3 /\ Len(u) = 4
  OBVIOUS
<1>3. s[1] = a /\ t[1] = b /\ t[2] = c /\ t[3] = d
  OBVIOUS
<1>4. u[1] = a /\ u[2] = b /\ u[3] = c /\ u[4] = d
  OBVIOUS
<1> HIDE DEF S, s, t, u
<1> DEFINE w == s \o t
<1>5. w \in Seq(S) /\ Len(w) = 4
  BY <1>1, <1>2, ConcatOne
<1>6. w[1] = s[1] /\ w[2] = t[1] /\ w[3] = t[2] /\ w[4] = t[3]
  BY <1>1, <1>2, ConcatOne
<1> HIDE DEF w
<1>7. \A i \in 1..4 : w[i] = u[i]
  <2>1. w[1] = u[1] /\ w[2] = u[2] /\ w[3] = u[3] /\ w[4] = u[4]
    BY <1>3, <1>4, <1>6
  <2>2. QED
    BY <2>1
<1>8. w = u
  BY <1>1, <1>2, <1>5, <1>7, SeqEqual
<1>9. QED
  BY <1>8 DEF s, t, u, w

LEMMA FirstCall ==
  ASSUME NEW c
  PROVE  Append(<< >>, c) = << c >>
  OBVIOUS

LEMMA OneCall ==
  ASSUME Counts, prog = "A5_c", calls = << >>, status = "execute", ins.code = 11, Goes(\h300),
         reg[5] = \h101c, Passes(3)
  PROVE  calls' = << FooCall >>
<1>1. pc' = \h300 /\ status' = "fetch"
  BY DEF Goes
<1>2. Enters
  BY <1>1, A5Callees DEF Enters, MaxCalls
<1>3. Passed = [i \in 1..3 |-> Word(mem, \h101c + 4 * (i - 1))]
  BY <1>1, A5Callees DEF Passed
<1>4. /\ \h101c + 4 * (1 - 1) = \h101c /\ \h101c + 4 * (2 - 1) = \h1020
      /\ \h101c + 4 * (3 - 1) = \h1024
  OBVIOUS
<1>5. Passed = << A5x, A5y, A5z >>
  BY <1>3, <1>4 DEF Passes
<1> DEFINE where == pc'
           what == Passed
<1>6. where = \h300 /\ what = << A5x, A5y, A5z >>
  BY <1>1, <1>5
<1> HIDE DEF where, what
<1>7. << where >> \o what = FooCall
  <2>1. << \h300 >> \o << A5x, A5y, A5z >> = FooCall
    BY FirstOfFour DEF FooCall
  <2> HIDE DEF FooCall
  <2>2. QED
    BY <1>6, <2>1
<1>8. << pc' >> \o Passed = FooCall
  BY <1>7 DEF where, what
<1>9. calls' = Append(calls, << pc' >> \o Passed)
  BY <1>2 DEF Counts
<1>10. calls' = Append(<< >>, FooCall)
  BY <1>8, <1>9
<1>11. QED
  BY <1>10, FirstCall

(* Where the next instruction is, the program runs on.                     *)
LEMMA RunsOn ==
  ASSUME NEW n \in 0..\h38e, A5At(n)', Stage(n)'
  PROVE  A5Runs'
  BY DEF A5Runs

LEMMA RunsOnInMain ==
  ASSUME NEW n \in 0..\h38e, MainAt(n)', Stage(n)', calls' = << >>
  PROVE  A5Runs'
<1>1. A5At(n)'
  BY DEF A5At
<1>2. QED
  BY <1>1, RunsOn

LEMMA RunsOnAfterCall ==
  ASSUME NEW n \in 0..\h38e, AfterCall(n)', Stage(n)', calls' = << FooCall >>'
  PROVE  A5Runs'
<1>1. A5At(n)'
  BY DEF A5At
<1>2. QED
  BY <1>1, RunsOn

LEMMA NotTheCall ==
  ASSUME NEW n, Stage(n)', n # \h300
  PROVE  status' # "fetch" \/ pc' # \h300
  BY DEF Stage

LEMMA PushesOn ==
  ASSUME Counts, prog = "A5_c", calls = << >>, Pushes
  PROVE  A5Memory' /\ A5Runs'
<1>1. PICK n \in \h0..\h2e : MainAt(n)' /\ Stage(n)'
  BY DEF Pushes
<1>2. n # \h300 /\ n \in 0..\h38e
  OBVIOUS
<1>3. calls' = << >>
  BY <1>1, <1>2, NotTheCall, NoCall
<1>4. A5Runs'
  BY <1>1, <1>2, <1>3, RunsOnInMain
<1>5. QED
  BY <1>4 DEF Pushes

LEMMA ReturnsOn ==
  ASSUME Counts, prog = "A5_c", calls = << FooCall >>, FooCall' = FooCall, Returns
  PROVE  A5Memory' /\ A5Runs'
<1>1. CASE status' = "halt" /\ Stored'
  <2>1. calls' = << FooCall >>'
    BY <1>1, NoCall
  <2>2. QED
    BY <1>1, <2>1 DEF Returns, A5Runs
<1>2. CASE \E n \in \h34..\h3c : ReturnAt(n)' /\ Stage(n)'
  <2>1. PICK n \in \h34..\h3c : ReturnAt(n)' /\ Stage(n)'
    BY <1>2
  <2>2. n # \h300 /\ n \in 0..\h38e
    OBVIOUS
  <2>3. calls' = << FooCall >>'
    BY <2>1, <2>2, NotTheCall, NoCall
  <2>4. AfterCall(n)'
    BY <2>1 DEF AfterCall, Returns
  <2>5. A5Runs'
    BY <2>1, <2>2, <2>3, <2>4, RunsOnAfterCall
  <2>6. QED
    BY <2>5 DEF Returns
<1>3. QED
  BY <1>1, <1>2 DEF Returns

LEMMA AdvancesOn ==
  ASSUME Counts, prog = "A5_c", calls = << FooCall >>, UNCHANGED loaded, A5Memory, Advances
  PROVE  A5Memory' /\ A5Runs'
<1>1. PICK n \in (\h34..\h38e) \ {\h300} : AfterCall(n)' /\ Stage(n)'
  BY DEF Advances
<1>2. n # \h300 /\ n \in 0..\h38e
  OBVIOUS
<1>3. calls' = << FooCall >>'
  BY <1>1, <1>2, NotTheCall, NoCall DEF FooCall, A5x, A5y, A5z
<1>4. A5Runs'
  BY <1>1, <1>2, <1>3, RunsOnAfterCall
<1>5. A5Memory'
  BY DEF Advances, A5Memory, Byte
<1>6. QED
  BY <1>4, <1>5

LEMMA A5AtKept ==
  ASSUME UNCHANGED <<mem, reg, loaded, calls>>, NEW q, A5At(q)
  PROVE  A5At(q)'
<1>1. /\ A5x' = A5x /\ A5y' = A5y /\ A5z' = A5z /\ Index' = Index
      /\ FooResult' = FooResult /\ FooCall' = FooCall
  BY DEF A5x, A5y, A5z, Index, FooResult, FooCall
<1>2. MainAt(q) => MainAt(q)'
  BY <1>1 DEF MainAt, Passes, Word
<1>3. ReturnAt(q) => ReturnAt(q)'
  BY <1>1 DEF ReturnAt, Stored
<1>4. FooAt(q) => FooAt(q)'
  BY <1>1 DEF FooAt, Passes, Word
<1>5. SumAt(q) => SumAt(q)'
  BY <1>1 DEF SumAt
<1>6. FirstAt(q) => FirstAt(q)'
  BY <1>1 DEF FirstAt
<1>7. SecondAt(q) => SecondAt(q)'
  BY <1>1 DEF SecondAt
<1>8. EqualAt(q) => EqualAt(q)'
  BY <1>1 DEF EqualAt
<1>9. EndAt(q) => EndAt(q)'
  BY <1>1 DEF EndAt
<1>10. InFoo(q) => InFoo(q)'
  BY <1>4, <1>5, <1>6, <1>7, <1>8, <1>9 DEF InFoo
<1>11. QED
  BY <1>1, <1>2, <1>3, <1>10 DEF A5At, AfterCall

LEMMA A5Execute ==
  ASSUME MachineOK, A5Loaded, A5Memory, UNCHANGED loaded, Execute, status = "execute", Counts,
         \h1028 <= ByteCapacity, NEW q, A5At(q), Decoded(mem, q, ins, pc)
  PROVE  A5Memory' /\ A5Runs'
<1>1. FooCall' = FooCall /\ prog = "A5_c"
  BY DEF FooCall, A5x, A5y, A5z, A5Loaded
<1>2. CASE MainAt(q) /\ calls = << >>
  <2>1. CASE Pushes
    BY <1>1, <1>2, <2>1, PushesOn
  <2>2. CASE q = \h2e /\ ins.code = 11 /\ Passes(3) /\ Goes(\h300) /\ AfterCall(\h300)'
    <3>1. reg'[5] = \h101c
      BY <2>2 DEF AfterCall
    <3>2. reg[5] = \h101c /\ pc' = \h300 /\ status' = "fetch" /\ UNCHANGED mem
      BY <2>2, <3>1 DEF Goes
    <3>3. calls' = << FooCall >>
      BY <1>1, <1>2, <2>2, <3>2, OneCall
    <3>4. Stage(\h300)'
      BY <3>2 DEF Stage
    <3>5. \h300 \in 0..\h38e /\ AfterCall(\h300)' /\ calls' = << FooCall >>'
      BY <1>1, <2>2, <3>3
    <3>6. A5Runs'
      BY <3>4, <3>5, RunsOnAfterCall
    <3>7. A5Memory'
      BY <3>2 DEF A5Memory, Byte
    <3>8. QED
      BY <3>6, <3>7
  <2>3. QED
    BY <1>2, <2>1, <2>2, MainStep
<1>3. CASE reg[5] = \h101c /\ ReturnAt(q) /\ calls = << FooCall >>
  <2>1. Returns
    BY <1>3, ReturnStep
  <2>2. QED
    BY <1>1, <1>3, <2>1, ReturnsOn
<1>4. CASE reg[5] = \h101c /\ reg[6] = \h34 /\ InFoo(q) /\ calls = << FooCall >>
  <2>1. Advances
    BY <1>4, FooStep, SumStep, FirstStep, SecondStep, EqualStep, EndStep DEF InFoo
  <2>2. QED
    BY <1>1, <1>4, <2>1, AdvancesOn
<1>5. QED
  BY <1>2, <1>3, <1>4 DEF A5At, AfterCall

LEMMA A5Step ==
  ASSUME A5Inv, [Next]_vars, \h1028 <= ByteCapacity
  PROVE  A5Inv'
<1>1. MachineOK'
  BY MachineKept DEF A5Inv
<1>2. UNCHANGED <<prog, loaded>>
  BY DEF Next, vars
<1>3. A5Loaded' /\ FooCall' = FooCall
  <2>1. A5x' = A5x /\ A5y' = A5y /\ A5z' = A5z
    BY <1>2 DEF A5x, A5y, A5z
  <2>2. QED
    BY <1>2, <2>1 DEF A5Inv, A5Loaded, MemoryOK, Holds, Byte, FooCall
<1>4. CASE UNCHANGED cpuVars
  <2>1. UNCHANGED <<mem, reg, pc, ins, status>>
    BY <1>4 DEF cpuVars
  <2>2. calls' = calls
    BY <2>1 DEF Next, vars, Enters
  <2>3. A5Memory'
    BY <1>2, <2>1 DEF A5Inv, A5Memory, Byte
  <2>4. A5Runs'
    <3>1. CASE \E q \in 0..\h38e : A5At(q) /\ Stage(q)
      <4>1. PICK q \in 0..\h38e : A5At(q) /\ Stage(q)
        BY <3>1
      <4>2. A5At(q)'
        BY <1>2, <2>1, <2>2, <4>1, A5AtKept
      <4>3. Stage(q)'
        BY <2>1, <4>1 DEF Stage, Decoded, HalfAt, Byte
      <4>4. QED
        BY <4>2, <4>3, RunsOn
    <3>2. CASE status = "halt" /\ calls = << FooCall >> /\ reg[5] = \h101c /\ Stored
      BY <1>2, <1>3, <2>1, <2>2, <3>2 DEF A5Runs, Stored, FooResult, A5x, A5y, A5z
    <3>3. QED
      BY <3>1, <3>2 DEF A5Inv, A5Runs
  <2>5. QED
    BY <1>1, <1>3, <2>3, <2>4 DEF A5Inv
<1>5. CASE Fetch
  <2>1. PICK q \in 0..\h38e : A5At(q) /\ Stage(q)
    BY <1>5 DEF A5Inv, A5Runs, Fetch
  <2>2. 0 <= q /\ q + 6 <= ByteCapacity
    BY CapacityAssumption
  <2>3. Stage(q)' /\ status' = "execute" /\ UNCHANGED <<mem, reg>>
    BY <1>5, <2>1, <2>2, StageFetches DEF A5Inv
  <2>4. calls' = calls
    BY <1>2, <2>3, NoCall DEF A5Inv, A5Loaded, Next, vars, Counts
  <2>5. A5At(q)'
    BY <1>2, <2>1, <2>3, <2>4, A5AtKept
  <2>6. A5Memory'
    BY <1>2, <2>3 DEF A5Inv, A5Memory, Byte
  <2>7. A5Runs'
    BY <2>3, <2>5, RunsOn
  <2>8. QED
    BY <1>1, <1>3, <2>6, <2>7 DEF A5Inv
<1>6. CASE Next /\ Execute
  <2>1. status = "execute"
    BY <1>6, ExecutesIn
  <2>2. PICK q \in 0..\h38e : A5At(q) /\ Stage(q)
    BY <2>1 DEF A5Inv, A5Runs
  <2>3. Decoded(mem, q, ins, pc)
    BY <2>1, <2>2 DEF Stage
  <2>4. Counts
    BY <1>6 DEF Next, Counts
  <2>5. A5Memory' /\ A5Runs'
    BY <1>2, <1>6, <2>1, <2>2, <2>3, <2>4, A5Execute DEF A5Inv
  <2>6. QED
    BY <1>1, <1>3, <2>5 DEF A5Inv
<1>7. QED
  BY <1>4, <1>5, <1>6 DEF Next, Cycle, Stopped, vars, cpuVars

(* A5-c loaded into any memory, with any three words, if their difference  *)
(* is an int where foo compares two of them by subtracting.                *)
A5Init == CPUInit /\ pc = 0 /\ mem = loaded /\ calls = << >> /\ A5Loaded

A5Spec == A5Init /\ [][Next]_vars

LEMMA A5Invariant == \h1028 <= ByteCapacity /\ A5Spec => []A5Inv
<1> SUFFICES ASSUME \h1028 <= ByteCapacity PROVE A5Spec => []A5Inv
  OBVIOUS
<1>1. A5Init => A5Inv
  <2> SUFFICES ASSUME CPUInit, pc = 0, mem = loaded, calls = << >>, A5Loaded PROVE A5Inv
    BY DEF A5Init
  <2>1. MachineOK
    BY SmallInts, InJavaInt, SMT DEF CPUInit, MachineOK, Instructions, Stages, A5Loaded, MinInt, MaxInt
  <2>2. A5At(0) /\ Stage(0)
    BY DEF CPUInit, A5At, MainAt, Stage
  <2>3. A5Memory /\ A5Runs
    BY <2>2 DEF A5Memory, A5Runs
  <2>4. QED
    BY <2>1, <2>3 DEF A5Inv
<1>2. A5Inv /\ [Next]_vars => A5Inv'
  BY A5Step
<1>3. QED
  BY <1>1, <1>2, PTL DEF A5Spec

LEMMA A5Results ==
  ASSUME A5Inv
  PROVE  /\ Results = Words(\h20c, << FooResult >>) /\ CallsInC = << FooCall >>
         /\ Stack = \h1000..\h1027 /\ prog \in DOMAIN Sp /\ Sp[prog] = \h1028
         /\ \A a : a \in DOMAIN Results <=> a \in \h20c..\h20f
<1>1. prog = "A5_c"
  BY DEF A5Inv, A5Loaded
<1>2. Results = Words(\h20c, << FooResult >>)
  BY <1>1 DEF Results, FooResult, A5x, A5y, A5z
<1>3. CallsInC = << FooCall >>
  BY <1>1 DEF CallsInC, FooCall, A5x, A5y, A5z
<1>4. prog \in DOMAIN Sp /\ Sp[prog] = \h1028
  BY <1>1 DEF Sp
<1>5. Stack = \h1000..\h1027
  BY <1>4 DEF Stack
<1>6. \A a : a \in DOMAIN Results <=> a \in \h20c..\h20f
  BY <1>2, FooResults, WordsLaidOut DEF A5Inv
<1>7. QED
  BY <1>2, <1>3, <1>4, <1>5, <1>6

LEMMA OneOrNone ==
  ASSUME NEW c
  PROVE  IsPrefix(<< >>, << c >>) /\ IsPrefix(<< c >>, << c >>)
<1>1. Len(<< >>) = 0 /\ Len(<< c >>) = 1
  OBVIOUS
<1>2. SubSeq(<< >>, 1, 0) = << >> /\ SubSeq(<< c >>, 1, 0) = << >>
  OBVIOUS
<1>3. QED
  BY <1>1, <1>2 DEF IsPrefix

(* main of A5-c.s calls foo once, with the three words at 200 as its       *)
(* arguments on the stack, for any three such ints, and halts with the     *)
(* stack pointer below the arguments, which it never pops.                 *)
THEOREM A5CallsFoo == \h1028 <= ByteCapacity /\ A5Spec => []CallsAsInC
<1> SUFFICES ASSUME \h1028 <= ByteCapacity PROVE A5Spec => []CallsAsInC
  OBVIOUS
<1>1. ASSUME A5Inv PROVE CallsAsInC
  <2>1. CallsInC = << FooCall >> /\ prog = "A5_c" /\ Sp[prog] - 12 = \h101c
    BY <1>1, A5Results DEF A5Inv, A5Loaded
  <2>2. calls = << >> \/ calls = << FooCall >>
    BY <1>1 DEF A5Inv, A5Runs, A5At
  <2>3. IsPrefix(calls, CallsInC)
    BY <2>1, <2>2, OneOrNone
  <2>4. status = "halt" => calls = << FooCall >> /\ reg[5] = \h101c
    BY <1>1 DEF A5Inv, A5Runs, Stage
  <2>5. QED
    BY <2>1, <2>3, <2>4 DEF CallsAsInC
<1>2. QED
  BY <1>1, A5Invariant, PTL

(* foo of A5-c.s returns what the switch of A5-c.c does and main leaves it *)
(* in result, for any such ints; the two tests of arg0 before the jump     *)
(* through the table send every other number to the default, those whose   *)
(* difference to 10 or 18 wraps too.                                       *)
THEOREM A5LeavesTheResult == \h1028 <= ByteCapacity /\ A5Spec => []ResultAsInC
<1> SUFFICES ASSUME \h1028 <= ByteCapacity PROVE A5Spec => []ResultAsInC
  OBVIOUS
<1>1. ASSUME A5Inv PROVE ResultAsInC
  <2>1. status = "halt" => Stored
    BY <1>1 DEF A5Inv, A5Runs, Stage
  <2>2. Results = Words(\h20c, << FooResult >>) /\ \A a \in DOMAIN Results : a \in \h20c..\h20f
    BY <1>1, A5Results
  <2>3. QED
    BY <1>1, <2>1, <2>2 DEF ResultAsInC, A5Inv, A5Loaded, Stored
<1>2. QED
  BY <1>1, A5Invariant, PTL

(* At no moment has A5-c.s written a byte outside its stack and result:    *)
(* not its text, not the table it jumps through, not its inputs.           *)
THEOREM A5WritesItsOwn == \h1028 <= ByteCapacity /\ A5Spec => []OnlyItsOwnMemory
<1> SUFFICES ASSUME \h1028 <= ByteCapacity PROVE A5Spec => []OnlyItsOwnMemory
  OBVIOUS
<1>1. ASSUME A5Inv PROVE OnlyItsOwnMemory
  <2>1. \A a \in A5Written : a \in Stack \cup DOMAIN Results
    BY <1>1, A5Results DEF A5Written
  <2>2. \A a \in DOMAIN mem \ A5Written : a \in DOMAIN loaded /\ mem[a] = loaded[a]
    BY <1>1 DEF A5Inv, A5Memory
  <2>3. QED
    BY <2>1, <2>2 DEF OnlyItsOwnMemory
<1>2. QED
  BY <1>1, A5Invariant, PTL

----------------------------------------------------------------------------
LEMMA A5TextIsBytes ==
  /\ \A a : a \in DOMAIN A5c
              <=> /\ a \in Int
                  /\ \/ 0 <= a /\ a <= \h3d
                     \/ \h300 <= a /\ a <= \h329
                     \/ \h330 <= a /\ a <= \h38f
                     \/ \h400 <= a /\ a <= \h423
  /\ \A a \in DOMAIN A5c : A5c[a] \in UnsignedByte
<1>1. \A a : a \in DOMAIN A5c
               <=> /\ a \in Int
                   /\ \/ 0 <= a /\ a <= \h3d
                      \/ \h300 <= a /\ a <= \h329
                      \/ \h330 <= a /\ a <= \h38f
                      \/ \h400 <= a /\ a <= \h423
  BY A5Parts, A5MainLaidOut, A5FooLaidOut, A5CasesLaidOut, A5TableLaidOut
<1>2. ASSUME NEW a \in DOMAIN A5c PROVE A5c[a] \in UnsignedByte
  BY A5Parts, A5MainLaidOut, A5FooLaidOut, A5CasesLaidOut, A5TableLaidOut
<1>3. QED
  BY <1>1, <1>2

LEMMA A5Data ==
  ASSUME NEW x \in JavaInt, NEW y \in JavaInt, NEW z \in JavaInt, \h1028 <= ByteCapacity
  PROVE  LET m == Over(Words(\h200, << x, y, z, 0 >>), A5c)
         IN  /\ MemoryOK(m) /\ Holds(m, A5c)
             /\ ReadInteger(m, \h200) = x /\ ReadInteger(m, \h204) = y
             /\ ReadInteger(m, \h208) = z
<1> DEFINE ws == << x, y, z, 0 >>
           data == Words(\h200, ws)
           m == Over(data, A5c)
<1>1. Len(ws) = 4 /\ ws[1] = x /\ ws[2] = y /\ ws[3] = z /\ ws[4] = 0
  OBVIOUS
<1> HIDE DEF ws
<1>2. 0 \in JavaInt
  BY SmallInts
<1>3. Len(ws) \in Nat /\ \A k \in 1..Len(ws) : ws[k] \in JavaInt
  <2>1. ws[1] \in JavaInt /\ ws[2] \in JavaInt /\ ws[3] \in JavaInt /\ ws[4] \in JavaInt
    BY <1>1, <1>2
  <2>2. QED
    BY <1>1, <2>1
<1>4. /\ \A a : a \in DOMAIN data <=> a \in Int /\ \h200 <= a /\ a <= \h200 + 4 * Len(ws) - 1
      /\ \A a \in DOMAIN data : data[a] \in UnsignedByte
  BY <1>3, WordsAt
<1>5. \h200 + 4 * 4 - 1 = \h20f
  OBVIOUS
<1>6. \A a : a \in DOMAIN data <=> a \in Int /\ \h200 <= a /\ a <= \h20f
  BY <1>1, <1>4, <1>5
<1> HIDE DEF data
<1>7. /\ \A i : i \in DOMAIN m <=> i \in DOMAIN data \/ i \in DOMAIN A5c
      /\ \A i \in DOMAIN data : m[i] = data[i]
      /\ \A i \in DOMAIN A5c : m[i] = A5c[i]
  <2>1. \A i \in DOMAIN A5c : i \notin DOMAIN data
    BY <1>6, A5TextIsBytes
  <2>2. QED
    BY <2>1, Overlay
<1>8. MemoryOK(m)
  <2>1. \A i \in DOMAIN data : i \in 0..(ByteCapacity - 1) /\ data[i] \in UnsignedByte
    BY <1>4, <1>6, CapacityAssumption
  <2>2. \A i \in DOMAIN A5c : i \in 0..(ByteCapacity - 1) /\ A5c[i] \in UnsignedByte
    BY A5TextIsBytes, CapacityAssumption
  <2>3. QED
    BY <2>1, <2>2, OverlayIsMemory
<1> HIDE DEF m
<1>9. Holds(m, A5c)
  BY <1>7 DEF Holds, Byte
<1>10. Holds(m, Words(\h200, ws))
  <2>1. Holds(m, data)
    BY <1>7 DEF Holds, Byte
  <2>2. QED
    BY <2>1 DEF data
<1>11. \A k \in 1..4 : ReadInteger(m, \h200 + 4 * (k - 1)) = ws[k]
  <2>1. ASSUME NEW k \in 1..Len(ws) PROVE ReadInteger(m, \h200 + 4 * (k - 1)) = ws[k]
    BY <1>3, <1>10, WordOfTable
  <2>2. QED
    BY <1>1, <2>1
<1>12. ReadInteger(m, \h200) = x /\ ReadInteger(m, \h204) = y /\ ReadInteger(m, \h208) = z
  <2>1. \h200 + 4 * (1 - 1) = \h200 /\ \h200 + 4 * (2 - 1) = \h204 /\ \h200 + 4 * (3 - 1) = \h208
    OBVIOUS
  <2>2. QED
    BY <1>1, <1>11, <2>1
<1>13. QED
  BY <1>8, <1>9, <1>12 DEF m, data, ws

LEMMA A5Numbers ==
  /\ "A5_c" \in DOMAIN Data
  /\ \A d \in Data["A5_c"] : \E x \in JavaInt, y \in JavaInt, z \in JavaInt :
       DifferenceFits(y, z) /\ DifferenceFits(z, y) /\ d = Words(\h200, << x, y, z, 0 >>)
<1> DEFINE Firsts == 9..19 \cup {\hff, MinInt, MinInt + 10, MaxInt}
           Others == {-1, 0, 2, 5}
           Laid(x, y, z) == Words(\h200, << x, y, z, 0 >>)
<1>1. Data["A5_c"] = { Laid(x, y, z) : x \in Firsts, y \in Others, z \in Others }
  BY DEF Data
<1>2. \A x \in Firsts : x \in JavaInt
  BY InJavaInt, SMT DEF MinInt, MaxInt
<1>3. \A y \in Others : y \in JavaInt
  BY InJavaInt, SMT DEF MinInt, MaxInt
<1>4. \A y, z \in Others : DifferenceFits(y, z)
  BY SMT DEF DifferenceFits, Subtract, Add, MinInt, MaxInt
<1>5. ASSUME NEW d \in Data["A5_c"]
      PROVE  \E x \in JavaInt, y \in JavaInt, z \in JavaInt :
               DifferenceFits(y, z) /\ DifferenceFits(z, y) /\ d = Words(\h200, << x, y, z, 0 >>)
  <2> HIDE DEF Firsts, Others, Laid
  <2>1. PICK x \in Firsts, y \in Others, z \in Others : d = Laid(x, y, z)
    BY <1>1
  <2>2. x \in JavaInt /\ y \in JavaInt /\ z \in JavaInt /\ DifferenceFits(y, z) /\ DifferenceFits(z, y)
    BY <1>2, <1>3, <1>4
  <2>3. QED
    BY <2>1, <2>2 DEF Laid
<1>6. "A5_c" \in DOMAIN Data
  BY DEF Data
<1> HIDE DEF Firsts, Others, Laid
<1>7. QED
  BY <1>5, <1>6

(* The runs of Spec that load A5-c are such runs: its data are three words *)
(* whose differences fit, laid over its text.                              *)
THEOREM A5IsRun == \h1028 <= ByteCapacity /\ Spec /\ prog = "A5_c" => A5Spec
<1> SUFFICES ASSUME \h1028 <= ByteCapacity PROVE Spec /\ prog = "A5_c" => A5Spec
  OBVIOUS
<1>1. ASSUME Init, prog = "A5_c" PROVE A5Init
  <2>1. Texts["A5_c"] = A5c /\ StartOfText("A5_c") = 0
    BY DEF Texts, StartOfText
  <2>2. PICK p \in CoursePrograms :
          \E d \in (IF p \in DOMAIN Data THEN Data[p] ELSE { << >> }) :
            Load(p, Over(d, Texts[p]), StartOfText(p))
    BY <1>1 DEF Init, Load
  <2>3. p = "A5_c"
    BY <1>1, <2>2 DEF Load
  <2>4. \E d \in Data["A5_c"] : Load("A5_c", Over(d, Texts["A5_c"]), StartOfText("A5_c"))
    <3>1. (IF p \in DOMAIN Data THEN Data[p] ELSE { << >> }) = Data["A5_c"]
      BY <2>3, A5Numbers
    <3>2. \E d \in Data["A5_c"] : Load(p, Over(d, Texts[p]), StartOfText(p))
      BY <2>2, <3>1
    <3>3. QED
      BY <2>3, <3>2
  <2>5. PICK d \in Data["A5_c"] : Load("A5_c", Over(d, A5c), 0)
    BY <2>1, <2>4
  <2>6. PICK x \in JavaInt, y \in JavaInt, z \in JavaInt :
          DifferenceFits(y, z) /\ DifferenceFits(z, y) /\ d = Words(\h200, << x, y, z, 0 >>)
    BY <2>5, A5Numbers
  <2>7. A5Loaded
    <3>1. loaded = Over(Words(\h200, << x, y, z, 0 >>), A5c)
      BY <2>5, <2>6 DEF Load
    <3>2. /\ MemoryOK(loaded) /\ Holds(loaded, A5c)
          /\ ReadInteger(loaded, \h200) = x /\ ReadInteger(loaded, \h204) = y
          /\ ReadInteger(loaded, \h208) = z
      BY <3>1, A5Data
    <3>3. QED
      BY <1>1, <2>6, <3>2 DEF A5Loaded, A5x, A5y, A5z, Word
  <2>8. QED
    BY <1>1, <2>5, <2>7 DEF Init, A5Init, Load
<1>2. QED
  BY <1>1, PTL DEF Spec, A5Spec
=============================================================================
