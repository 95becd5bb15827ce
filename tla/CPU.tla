-------------------------------- MODULE CPU --------------------------------
(***************************************************************************)
(* The SM213 processor (CPU.java): fetch decodes the instruction at pc and *)
(* advances pc, execute carries it out.  The two alternate until the       *)
(* machine halts or one of them throws.                                    *)
(***************************************************************************)
EXTENDS MainMemory

VARIABLES
  mem,      \* the bytes written so far
  reg,      \* the eight registers
  pc,       \* the program counter
  ins,      \* insOpCode, insOp0, insOp1, insOp2, insOpImm and insOpExt
  status    \* the stage that runs next, or why the machine stopped

cpuVars == <<mem, reg, pc, ins, status>>

RegisterNumber == 0..7
Faults == {"InvalidAddress", "ArrayIndexOutOfBounds", "InvalidRegister", "InvalidInstruction"}

CPUInit ==
  /\ reg = [r \in RegisterNumber |-> 0]
  /\ ins = [code |-> 0, op0 |-> 0, op1 |-> 0, op2 |-> 0, imm |-> 0, ext |-> 0]
  /\ status = "fetch"

Throw(exception) == status' = exception /\ UNCHANGED <<mem, reg, pc, ins>>

(* fetch.  Opcodes 0 and 0xb are followed by four more bytes, but six      *)
(* bytes are read whatever the opcode.                                     *)
IsLong(code) == code \in {0, 11}

FetchFault ==
  IF AddressFault(pc, 4) # "none" THEN AddressFault(pc, 4) ELSE AddressFault(pc, 6)

Decode(bytes) ==
  LET code == bytes[1] \div 16 IN
  [code |-> code, op0 |-> bytes[1] % 16,
   op1 |-> bytes[2] \div 16, op2 |-> bytes[2] % 16, imm |-> Signed(bytes[2]),
   ext |-> IF IsLong(code) THEN BytesToInteger(SubSeq(bytes, 3, 6)) ELSE ins.ext]

Fetch ==
  /\ status = "fetch"
  /\ IF FetchFault # "none" THEN Throw(FetchFault)
     ELSE /\ ins' = Decode(Get(mem, pc, 6))
          /\ pc' = pc + (IF IsLong(ins'.code) THEN 6 ELSE 2)
          /\ status' = "execute"
          /\ UNCHANGED <<mem, reg>>

----------------------------------------------------------------------------
(* The ways execute ends. *)

Executes(code) == status = "execute" /\ ins.code = code
Done == status' = "fetch" /\ UNCHANGED ins

(* reg.get of every register in regs, then the rest of the case. *)
Using(regs, Rest) ==
  IF regs \subseteq RegisterNumber THEN Rest ELSE Throw("InvalidRegister")

Access(fault, Rest) == IF fault = "none" THEN Rest ELSE Throw(fault)

Assign(rd, v) ==
  Using({rd}, reg' = [reg EXCEPT ![rd] = v] /\ Done /\ UNCHANGED <<mem, pc>>)

Store(address, v) == mem' = WriteInteger(mem, address, v) /\ Done /\ UNCHANGED <<reg, pc>>
Jump(target) == pc' = target /\ Done /\ UNCHANGED <<mem, reg>>
Nothing == Done /\ UNCHANGED <<mem, reg, pc>>

----------------------------------------------------------------------------
(* execute, case by case: loads and stores. *)

LoadImmediate == Executes(0) /\ Assign(ins.op0, ins.ext)

LoadBase ==
  /\ Executes(1)
  /\ Using({ins.op1},
       LET address == Add(ins.op0 * 4, reg[ins.op1]) IN
       Access(AddressFault(address, 4), Assign(ins.op2, ReadInteger(mem, address))))

LoadIndexed ==
  /\ Executes(2)
  /\ Using({ins.op0, ins.op1},
       LET address == Add(reg[ins.op0], Times4(reg[ins.op1])) IN
       Access(AddressFault(address, 4), Assign(ins.op2, ReadInteger(mem, address))))

(* Bug: the offset is not scaled. *)
StoreBaseUnscaled ==
  /\ Executes(3)
  /\ Using({ins.op2, ins.op0},
       LET address == Add(ins.op1, reg[ins.op2]) IN
       Access(AddressFault(address, 4), Store(address, reg[ins.op0])))

StoreBase ==
  /\ Executes(3)
  /\ Using({ins.op2, ins.op0},
       LET address == Add(ins.op1 * 4, reg[ins.op2]) IN
       Access(AddressFault(address, 4), Store(address, reg[ins.op0])))

(* Bug: the registers of source and base are swapped. *)
StoreIndexedSwapped ==
  /\ Executes(4)
  /\ Using({ins.op0, ins.op1, ins.op2},
       LET address == Add(reg[ins.op0], Times4(reg[ins.op2])) IN
       Access(AlignedFault(address), Store(address, reg[ins.op1])))

StoreIndexed ==
  /\ Executes(4)
  /\ Using({ins.op0, ins.op1, ins.op2},
       LET address == Add(reg[ins.op1], Times4(reg[ins.op2])) IN
       Access(AlignedFault(address), Store(address, reg[ins.op0])))

----------------------------------------------------------------------------
(* Arithmetic and logic: opcode 6, the operation in op0. *)

ByteAnd(a, b) ==
  LET Bit(k) == IF (a \div k) % 2 = 1 /\ (b \div k) % 2 = 1 THEN k ELSE 0
  IN Bit(1) + Bit(2) + Bit(4) + Bit(8) + Bit(16) + Bit(32) + Bit(64) + Bit(128)

BitAnd(a, b) == LET x == IntegerToBytes(a) y == IntegerToBytes(b)
                IN BytesToInteger([i \in 1..4 |-> ByteAnd(x[i], y[i])])

Alu(op) == Executes(6) /\ ins.op0 = op
FromBoth(v) == Using({ins.op1, ins.op2}, Assign(ins.op2, v))
FromOne(v) == Using({ins.op2}, Assign(ins.op2, v))

Source == reg[ins.op1]
Destination == reg[ins.op2]

Move == Alu(0) /\ FromBoth(Source)
Addition == Alu(1) /\ FromBoth(Add(Source, Destination))
BitwiseAnd == Alu(2) /\ FromBoth(BitAnd(Source, Destination))
Increment == Alu(3) /\ FromOne(Add(Destination, 1))
IncrementAddress == Alu(4) /\ FromOne(Add(Destination, 4))
Decrement == Alu(5) /\ FromOne(Add(Destination, -1))
DecrementAddress == Alu(6) /\ FromOne(Add(Destination, -4))
BitwiseNot == Alu(7) /\ FromOne(-1 - Destination)
(* Bug: the offset is forgotten, a call returns to itself. *)
GetPCPlain == Alu(15) /\ Assign(ins.op2, pc)

GetPC == Alu(15) /\ Assign(ins.op2, Add(pc, 2 * ins.op1))

AluNothing == Executes(6) /\ ins.op0 \in 8..14 /\ Nothing

(* The case shifts rd itself, the number of the register, and not what the *)
(* register holds; Java takes the distance modulo 32.  Bits are shifted    *)
(* out by steps of 16, 8, 4, 2 and 1.                                      *)
Times16(a) == Times4(Times4(a))
Times256(a) == Times16(Times16(a))

ShiftLeft(rd, n) ==
  LET by1 == IF n % 2 = 1 THEN Add(rd, rd) ELSE rd
      by2 == IF (n \div 2) % 2 = 1 THEN Times4(by1) ELSE by1
      by4 == IF (n \div 4) % 2 = 1 THEN Times16(by2) ELSE by2
      by8 == IF (n \div 8) % 2 = 1 THEN Times256(by4) ELSE by4
  IN IF n > 15 THEN Times256(Times256(by8)) ELSE by8

ShiftRight(rd, n) == IF n > 3 THEN 0 ELSE rd \div << 1, 2, 4, 8 >>[n + 1]

Shift ==
  /\ Executes(7)
  /\ LET n == ins.imm % 32 IN
     Assign(ins.op0, IF ins.imm < 0 THEN ShiftRight(ins.op0, n) ELSE ShiftLeft(ins.op0, n))

----------------------------------------------------------------------------
(* Control. *)

Relative == Add(pc, 2 * ins.imm)

Branch == Executes(8) /\ Jump(Relative)

BranchIfEqual ==
  /\ Executes(9)
  /\ Using({ins.op0}, IF reg[ins.op0] = 0 THEN Jump(Relative) ELSE Nothing)

(* Bug: branches on zero too. *)
BranchIfNotLess ==
  /\ Executes(10)
  /\ Using({ins.op0}, IF reg[ins.op0] >= 0 THEN Jump(Relative) ELSE Nothing)

BranchIfGreater ==
  /\ Executes(10)
  /\ Using({ins.op0}, IF reg[ins.op0] > 0 THEN Jump(Relative) ELSE Nothing)

JumpImmediate == Executes(11) /\ Jump(ins.ext)

JumpIndirect ==
  Executes(12) /\ Using({ins.op0}, Jump(Add(reg[ins.op0], 2 * ins.imm)))

JumpThrough(address) == Access(AlignedFault(address), Jump(ReadInteger(mem, address)))

JumpDoubleIndirect ==
  Executes(13) /\ Using({ins.op0}, JumpThrough(Add(reg[ins.op0], 4 * ins.imm)))

JumpIndexed ==
  /\ Executes(14)
  /\ Using({ins.op0, ins.op1}, JumpThrough(Add(reg[ins.op0], Times4(reg[ins.op1]))))

Halt == Executes(15) /\ ins.op0 = 0 /\ Throw("halt")
Nop == Executes(15) /\ ins.op0 # 0 /\ Nothing
Unknown == Executes(5) /\ Throw("InvalidInstruction")

----------------------------------------------------------------------------

Execute ==
  \/ LoadImmediate \/ LoadBase \/ LoadIndexed \/ StoreBase \/ StoreIndexed
  \/ Move \/ Addition \/ BitwiseAnd \/ Increment \/ IncrementAddress
  \/ Decrement \/ DecrementAddress \/ BitwiseNot \/ GetPC \/ AluNothing \/ Shift
  \/ Branch \/ BranchIfEqual \/ BranchIfGreater \/ JumpImmediate
  \/ JumpIndirect \/ JumpDoubleIndirect \/ JumpIndexed
  \/ Halt \/ Nop \/ Unknown

Cycle == Fetch \/ Execute

(* The processor on its own, whatever is in memory. *)
CPUSpec == CPUInit /\ MemoryOK(mem) /\ pc \in JavaInt /\ [][Cycle]_cpuVars
============================================================================
