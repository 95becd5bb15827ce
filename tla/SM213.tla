------------------------------- MODULE SM213 -------------------------------
(***************************************************************************)
(* The course's SM213 programs, run by the processor of CPU.tla, against   *)
(* the C they translate.  A program is the text its .s file assembles to;  *)
(* the words the file declares as data are its inputs, and Init gives them *)
(* other values as well, as the comments of the files invite.  The         *)
(* assembler is outside the repository.                                    *)
(*                                                                         *)
(* S6-if, A5-a and q4 compare by subtracting: they are run only on numbers *)
(* whose difference is an int (DifferenceFits).                            *)
(***************************************************************************)
EXTENDS CPU, FiniteSets, FiniteSetsExt, SequencesExt

VARIABLES
  prog,     \* the program that was loaded
  loaded,   \* the memory when it was loaded
  calls     \* history: the routines entered, each with the words it was passed

vars == <<cpuVars, prog, loaded, calls>>

(* not, inc and add: how the programs subtract. *)
Subtract(a, b) == Add(a, Add(-1 - b, 1))
DifferenceFits(a, b) == (a >= 0) = (b >= 0) \/ (Subtract(a, b) >= 0) = (a >= 0)

(* Halfwords and words laid out from an address. *)
Halfwords(base, hs) ==
  [a \in base .. (base + 2 * Len(hs) - 1) |->
     LET h == hs[(a - base) \div 2 + 1] IN IF (a - base) % 2 = 0 THEN h \div 256 ELSE h % 256]

Words(base, ws) ==
  [a \in base .. (base + 4 * Len(ws) - 1) |->
     IntegerToBytes(ws[(a - base) \div 4 + 1])[((a - base) % 4) + 1]]

(* One layout over another: @@ of TLC, which the provers do not know. *)
Over(f, g) == [a \in DOMAIN f \cup DOMAIN g |-> IF a \in DOMAIN f THEN f[a] ELSE g[a]]

Word(m, address) == ReadInteger(m, address)
Array(m, base, n) == [i \in 0..(n - 1) |-> Word(m, base + 4 * i)]

----------------------------------------------------------------------------
(* The texts. *)

S5Loop == Halfwords(\h100,
  << 0, 0, 0, \h100, 0, \h1008, \h200, 0, 0, \h400, \hffff, \hfff6,
     \h6005, \h6145, \h9504, \h2103, \h6132, \h6300, \h80f9,                   \* loop
     \h100, 0, \h1000, \h3201, \h3011, \hf000 >>)                            \* end_loop

S5aUnrolled == Halfwords(\h100,
  << 0, 0, 0, \h100, 0, \h1008, \h200, 0, 0 >>
  \o FlattenSeq([i \in 1..10 |-> << \h2103, \h6132, \h6300 >>])
  \o << 0, 0, \h1000, \h3200, \hf000 >>)

S6If == Halfwords(\h100,
  << 0, 0, \h1000, \h1000, \h100, 0, \h2000, \h1011,
     \h6012, \h6702, \h6302, \h6102, \ha202, \h6013, \h8001, \h6003,           \* if
     0, 0, \h3000, \h3300, \hf000 >>)                                        \* end_if

Q4 == Halfwords(\h100,
  << 0, 0, \h1004, \h1000, \h100, 0, \h1008, \h200, 0, \h1000, \h1022,
     \h300, 0, \h11e, \hc300, \h400, \hffff, \hfff6,                          \* bar, foo
     \h6005, \h6145, \h9509, \h2103, \h6026, \h6706, \h6306, \h6136,           \* loop
     \h6300, \ha6f6, \h6032, \h80f4, \h100, 0, \h1000, \h3201, \hf000 >>)

A5a == Halfwords(0,
  << 0, 0, 0, \h6700, \h100, 0, \h1000, \h1011, \h200, 0, \h1004, \h1022,
     \h6702, \h6302, \h920b, \h1013, \h6004, \h6704, \h6304, \h6134, \ha401,
     \h8001, \h6030, \h6401, \h6302, \h80f4, \h100, 0, \h1008, \h3001, \hf000 >>)

A5b ==
  Halfwords(0, << \h500, 0, \h2028, \h6f36, \hb000, 0, \h300, \hf000 >>)
  @@ Words(\h100, << \h1000 >>)
  @@ Halfwords(\h200, << \h1050, \h1151, \h200, 0, \h100, \h1022, \h2213,      \* foo
                        \h6130, \h4021, \hc600 >>)
  @@ Halfwords(\h300,
       << 0, \hffff, \hfff4, \h6105, \h3625, 0, 0, 1, \h3005, 0, 0, 2,         \* bar
          \h3015, 0, \hffff, \hfff8, \h6105, 0, 0, 3, \h3005, 0, 0, 4, \h3015,
          \h6f36, \hb000, 0, \h200, 0, 0, 8, \h6105, \h1051, \h1152,
          0, \hffff, \hfff8, \h6105, \h3105, \h3215, \h6f36, \hb000, 0, \h200,
          0, 0, 8, \h6105, \h1256, 0, 0, \hc, \h6105, \hc600 >>)

A5cMain == Halfwords(0,
  << \h500, 0, \h1028, 0, \hffff, \hfff4, \h6105, 0, 0, \h200, \h1000, \h3005,
     0, 0, \h204, \h1000, \h3015, 0, 0, \h208, \h1000, \h3025,
     \h6f36, \hb000, 0, \h300, \h100, 0, \h20c, \h3001, \hf000 >>)

A5cFoo == Halfwords(\h300,
  << \h1050, \h1151, \h1252, \h300, \hffff, \hfff6, \h6130, \h6003,
     \h6703, \h6303, \ha337, \h6003, \h400, \hffff, \hfff8, \h6143,
     \ha331, \h300, 0, \h400, \he300 >>)

A5cCases == Halfwords(\h330,
  << \h6112, \h802c, \h6702, \h6302, \h6112, \h8028,                       \* 10, 12
     \h6702, \h6302, \h6112, \ha204, \h200, 0, 0, \h8003,                  \* 14
     \h200, 0, 1, \h801c,
     \h6701, \h6301, \h6121, \ha104, \h200, 0, 0, \h8003,                  \* 16
     \h200, 0, 1, \h8010,
     \h6702, \h6302, \h6112, \h9204, \h200, 0, 0, \h8003,                  \* 18
     \h200, 0, 1, \h8004, \h200, 0, 0, \h8000, \h6020, \hc600 >>)

A5cTable == Words(\h400, << \h330, \h384, \h334, \h384, \h33c, \h384, \h354, \h384, \h36c >>)

A5c == Over(Over(A5cMain, A5cFoo), Over(A5cCases, A5cTable))

SBSwitch ==
  Halfwords(\h100,
    << 0, 0, \h1000, \h1000, \h100, \hffff, \hffed, \h6101, \ha101, \h8026,    \* foo
       \h100, \hffff, \hffe9, \h6101, \ha121, \h100, \hffff, \hffec, \h6110,
       \h100, 0, \h800, \he100, \hf000 >>)
  @@ Halfwords(\h140,
       << \h100, 0, \ha, \h8010, \h100, 0, \hb, \h800c, \h100, 0, \hc, \h8008,
          \h100, 0, \hd, \h8004, \h100, 0, \he, \h8000,
          0, 0, \h1004, \h3100, \hb000, 0, \h12e >>)                         \* done
  @@ Words(\h800, << \h140, \h148, \h150, \h158 >>)

S7CallReg ==
  Halfwords(\h100, << \h6f36, \hb000, 0, \h500, \hf000 >>)
  @@ Halfwords(\h500, << \hc600 >>)                                        \* ping

S7CallStack ==
  Halfwords(\h100, << \h500, 0, \h1028, \h6f36, \hb000, 0, \h500, \hf000 >>)
  @@ Halfwords(\h500, << \h6605, \h3605, \h1056, \h6405, \hc600 >>)

S8Locals ==
  Halfwords(\h100, << \h500, 0, \h1028, \h6f36, \hb000, 0, \h200, \hf000 >>)
  @@ Halfwords(\h200, << \h6605, \h3605, \h6f36, \hb000, 0, \h300, \h1056, \h6405, \hc600 >>)
  @@ Halfwords(\h300,
       << \h6605, \h3605, \h6605, \h6605, 0, 0, 0, \h3005, 0, 0, 1, \h3015,  \* b
          \h6405, \h6405, \h1056, \h6405, \hc600 >>)

S9ArgsRegs ==
  Halfwords(\h100, << \h500, 0, \h1028, \h6f36, \hb000, 0, \h200, \hf000 >>)
  @@ Halfwords(\h200,
       << \h6605, \h3605, 0, 0, 1, \h100, 0, 2, \h6f36, \hb000, 0, \h300,   \* foo
          \h100, 0, \h280, \h3001, \h1056, \h6405, \hc600 >>)
  @@ Halfwords(\h300, << \h6110, \hc600 >>)                               \* add

S9ArgsStack ==
  Halfwords(\h100, << \h500, 0, \h1028, \h6f36, \hb000, 0, \h200, \hf000 >>)
  @@ Halfwords(\h200,
       << \h6605, \h3605, 0, 0, 2, \h6605, \h3005, 0, 0, 1, \h6605, \h3005,    \* foo
          \h6f36, \hb000, 0, \h300, \h6405, \h6405, \h100, 0, \h400, \h3001,
          \h1056, \h6405, \hc600 >>)
  @@ Halfwords(\h300, << \h1050, \h1151, \h6110, \hc600 >>)                  \* add

SADynamicCall ==
  Halfwords(\h100, << \h500, 0, \h2028, \h6f36, \hb000, 0, \h200, \hf000 >>)
  @@ Halfwords(\h200,
       << \h6605, \h3605, \h6605, 0, 0, \h500, \h1000, \h3005, \h6f36, \hb000,  \* bar
          0, \h300, \h6405, 0, 0, \h504, \h1000, \h6605, \h3005, \h6f36,
          \hb000, 0, \h300, \h6405, \h1056, \h6405, \hc600 >>)
  @@ Halfwords(\h300,
       << \h6605, \h3605, \h1150, \h6f16, \hd000, \h6f16, \hd001, \h1056,     \* foo
          \h6405, \hc600 >>)
  @@ Halfwords(\h400, << \hc600, \hc600, \hc600, \hc600 >>)
  @@ Words(\h500, << \h1000, \h1008 >>)
  @@ Words(\h1000, << \h400, \h402, \h404, \h402, \h406 >>)

ATests2 ==
  Halfwords(\h100,
    << 0, 0, 0, \h100, 0, \hf, \h200, 0, \h1000, \h300, 0, \h2000, \h3002,
       \h3103, \h6010, \h6110, \h6210, \h6300, \h6500, \h6700, \hff00,
       \h200, 0, 0, \h7108, 0, 0, \h3000, \h4102, \h6402, \h4102, \h6602,
       \h1005, \h1106, \h2527, \h6402, \h8001, \hf000,
       0, 0, \hffff, \h9005, 0, 0, 0, \h9001, \hf000,                        \* jumper
       \ha003, \h6300, \ha001, \hf000, \hb000, 0, \h16e, \hf000,              \* jumper2, 3
       \h6f01, \h6f21, \h200, 0, \h900, \hc200, \hf000 >>)                    \* jumper4
  @@ Halfwords(\h900, << \hf000 >>)
  @@ Words(\h1000, << -1 >>) @@ Words(\h2000, << -1 >>)
  @@ Words(\h3000, << -1, -1, -1, -1, -1 >>)

(* The file of a3 stops where that of a4 goes on with its jumps. *)
ATests2OfA3 ==
  Halfwords(\h146, << \hf000 >>)
  @@ Restrict(ATests2, DOMAIN ATests2 \ (\h146..\h1ff \cup \h900..\h901))

StructArr == Halfwords(\h1000,
  << 0, 0, \h2004, \h100, 0, \h2008, \h200, 0, \h2000, \h1013, \h3300, \h6401, \h6401,
     \h400, 0, \h3000, \h3401, \h1013, \h1033, \h3300, \h6401,
     \h400, 0, \h300c, \h3401, \h1013, \h1033, \h3300, \hf000 >>)

Tests ==
  Halfwords(\h100, << 0, 0, \h1000, \hd000, \hf000 >>)
  @@ Halfwords(\h200, << 0, 0, \h1004, \hd001, \hf000 >>)
  @@ Halfwords(\h250, << \h100, 0, 2, \he010, \hf000 >>)
  @@ Halfwords(\h300, << \h6301, \he010, \hf000 >>)
  @@ Halfwords(\h350, << \h6301, \he010, \hf000 >>)
  @@ Halfwords(\h400, << \hf000 >>)
  @@ Words(\h1000, << \h200, \hfff, \h250, \h300, \h350, \h400 >>)

(* One instruction after ld $x, r0: words no file of the course holds. *)
Stray(x, instruction) ==
  Halfwords(\h100, << 0 >>) @@ Words(\h102, << x >>) @@ Halfwords(\h106, << instruction, \hf000 >>)

----------------------------------------------------------------------------
(* The programs: text, data, entry point, bottom of the stack. *)

Texts ==
  [S5_loop |-> S5Loop, S5a_loop |-> S5aUnrolled, S6_if |-> S6If, q4 |-> Q4,
   A5_a |-> A5a, A5_b |-> A5b, A5_c |-> A5c, SB_switch |-> SBSwitch,
   S7_reg |-> S7CallReg, S7_stack |-> S7CallStack, S8_locals |-> S8Locals,
   S9_regs |-> S9ArgsRegs, S9_args |-> S9ArgsStack, SA_call |-> SADynamicCall,
   struct_arr |-> StructArr, a3_atests2 |-> ATests2OfA3, atests2 |-> ATests2, tests |-> Tests]

CoursePrograms == DOMAIN Texts

Numbers == {MinInt, -1, 0, 1, 2, MaxInt}

Data ==
  [S5_loop |-> { Words(\h1000, << 0, 0, x, 4, 6, 8, 10, 12, 14, 16, 18, y >>) :
                   x, y \in {-1, 2, 20, 1000} },
   S5a_loop |-> { Words(\h1000, << 0, 0, x, 4, 6, 8, 10, 12, 14, 16, 18, y >>) :
                    x, y \in {-1, 2, MaxInt} },
   S6_if |-> { Over(Words(\h1000, << ab[1] >>), Words(\h2000, << ab[2] >>)) :
                 ab \in { n \in Numbers \X Numbers : DifferenceFits(n[1], n[2]) } },
   q4 |-> { Words(\h1000, << 1000000, 0, x, 40, 6, 80, 10, 120, y, 16, 48, 20 >>) :
              x, y \in {-5, 2, 14, 120} },
   A5_a |-> { Words(\h1000, << \h2000, 5, 0 >>) @@ Words(\h2000, << a[1], 4, a[2], 7, a[3] >>) :
                a \in [1..3 -> {-2, 1, 2, 16}] },
   A5_b |-> { Words(\h1000, << 0, 0, x, 0, y, 0, 0, 0, 0, 0 >>) : x, y \in {-3, 0, MaxInt} },
   A5_c |-> { Words(\h200, << x, y, z, 0 >>) :
                x \in 9..19 \cup {\hff, MinInt, MinInt + 10, MaxInt}, y, z \in {-1, 0, 2, 5} },
   SB_switch |-> { Words(\h1000, << i, 0 >>) :
                     i \in 18..25 \cup {MinInt, MinInt + 19, MaxInt} },
   S9_regs |-> { Words(\h280, << 0 >>) },
   S9_args |-> { Words(\h400, << 0 >>) },
   struct_arr |-> { Words(\h2000, << 0, 0, x, 2, 0, 0 >>) @@ Words(\h3000, << y, 4, 5, z, 7, 8, 9 >>) :
                      x, y, z \in {1, -1} }]

StartOfText(p) ==
  CASE p \in {"A5_a", "A5_b", "A5_c"} -> 0
    [] p = "struct_arr" -> \h1000
    [] OTHER -> \h100

(* The routines of a program and how many words each is passed on the stack. *)
Callees ==
  [S7_reg |-> [r \in {\h500} |-> 0], S7_stack |-> [r \in {\h500} |-> 0],
   S8_locals |-> [r \in {\h200, \h300} |-> 0],
   S9_regs |-> [r \in {\h200, \h300} |-> 0],
   S9_args |-> [r \in {\h200, \h300} |-> IF r = \h300 THEN 2 ELSE 0],
   A5_b |-> [r \in {\h200, \h300} |-> IF r = \h200 THEN 2 ELSE 0],
   A5_c |-> [r \in {\h300} |-> 3],
   SA_call |-> [r \in {\h200, \h300, \h400, \h402, \h404, \h406} |->
                  IF r = \h300 THEN 1 ELSE 0],
   tests |-> [r \in {\h200, \h250, \h300, \h350, \h400} |-> 0]]

Strays ==
  { Stray(x, i) :
      x \in {0, -4, 2, ByteCapacity - 4, ByteCapacity - 2, MaxInt - 1},
      i \in {\h5000, \h1001, \h1008, \h1080, \h2001, \h3000, \h4001, \h6800, \h6181,
            \h7102, \h71ff, \h9000, \ha000, \hc000, \hd000, \he000, \hf100} }

Load(p, m, start) == prog = p /\ loaded = m /\ mem = m /\ pc = start /\ calls = << >>

Init ==
  /\ CPUInit
  /\ \/ \E p \in CoursePrograms :
           \E d \in (IF p \in DOMAIN Data THEN Data[p] ELSE { << >> }) :
             Load(p, Over(d, Texts[p]), StartOfText(p))
     \/ \E m \in Strays : Load("stray", m, \h100)

Stopped == status \notin {"fetch", "execute"} /\ UNCHANGED cpuVars

(* The history stops at MaxCalls, one more than any of the programs makes. *)
MaxCalls == 8

(* A jump has just led to a routine of the program. *)
Enters ==
  /\ Len(calls) < MaxCalls
  /\ status = "execute" /\ ins.code \in 11..14 /\ status' = "fetch"
  /\ prog \in DOMAIN Callees /\ pc' \in DOMAIN Callees[prog]

Passed == [i \in 1..Callees[prog][pc'] |-> Word(mem, reg[5] + 4 * (i - 1))]

Next ==
  /\ Cycle \/ Stopped
  /\ calls' = IF Enters THEN Append(calls, << pc' >> \o Passed) ELSE calls
  /\ UNCHANGED <<prog, loaded>>

Spec == Init /\ [][Next]_vars /\ WF_vars(Next)

----------------------------------------------------------------------------
(* What the C of each program leaves in its variables, given what they     *)
(* held before.                                                            *)

Sum(a) == FoldFunction(Add, 0, a)

(* S5a: ten times s += a[i]; i++. *)
UnrolledSum(a) == FoldLeft(LAMBDA s, i : Add(s, a[i]), 0, << 0, 1, 2, 3, 4, 5, 6, 7, 8, 9 >>)

SwitchFoo(arg0, arg1, arg2) ==
  CASE arg0 = 10 -> Add(arg1, arg2)
    [] arg0 = 12 -> Subtract(arg1, arg2)
    [] arg0 = 14 -> IF arg1 - arg2 > 0 THEN 1 ELSE 0
    [] arg0 = 16 -> IF arg2 - arg1 > 0 THEN 1 ELSE 0
    [] arg0 = 18 -> IF arg1 - arg2 = 0 THEN 1 ELSE 0
    [] OTHER -> 0

(* SB-switch.c says the same in three ways: foo, bar and zot. *)
SwitchJ(i) == IF i \in 20..23 THEN i - 10 ELSE 14
SwitchBar(i) ==
  CASE i = 20 -> 10 [] i = 21 -> 11 [] i = 22 -> 12 [] i = 23 -> 13 [] OTHER -> 14
SwitchZot(i) == LET jumpTable == << 10, 11, 12, 13 >>
                IN IF i < 20 \/ i > 23 THEN 14 ELSE jumpTable[i - 20 + 1]

Elements(base, n) == { Word(loaded, base + 4 * i) : i \in 0..(n - 1) }

(* foo (3, 4); foo (1, 2), where foo (x, i) is arr[i] = arr[i] + x. *)
BarLeaves(arr) == [arr EXCEPT ![4] = Add(@, 3), ![2] = Add(@, 1)]

Results ==
  CASE prog = "S5_loop" -> Words(\h1000, << Sum(Array(loaded, \h1008, 10)), 10 >>)
    [] prog = "S5a_loop" -> Words(\h1000, << UnrolledSum(Array(loaded, \h1008, 10)) >>)
    [] prog = "S6_if" -> Words(\h3000, << Max({Word(loaded, \h1000), Word(loaded, \h2000)}) >>)
    [] prog = "q4" -> Words(\h1000, << Min({1000000} \cup Elements(\h1008, 10)) >>)
    [] prog = "A5_a" -> Words(\h1008, << Max({-1} \cup Elements(\h2000, 5)) >>)
    [] prog = "A5_b" -> LET arr == BarLeaves(Array(loaded, \h1000, 10)) IN
                        Words(\h1000, [i \in 1..10 |-> arr[i - 1]])
    [] prog = "A5_c" -> Words(\h20c, << SwitchFoo(Word(loaded, \h200), Word(loaded, \h204),
                                                 Word(loaded, \h208)) >>)
    [] prog = "SB_switch" -> Words(\h1004, << SwitchJ(Word(loaded, \h1000)) >>)
    [] prog = "S8_locals" -> Words(\h1018, << 0, 1 >>)
    [] prog = "S9_regs" -> Words(\h280, << 1 + 2 >>)
    [] prog = "S9_args" -> Words(\h400, << 1 + 2 >>)
    [] prog = "struct_arr" -> Words(\h2004, << Word(loaded, \h300c) >>)
                              @@ Words(\h2010, << \h3000, \h300c >>)
    [] prog \in {"a3_atests2", "atests2"} -> Words(\h1000, << 0 >>) @@ Words(\h2000, << 15 >>)
                           @@ Words(\h3000, << 256, -1, -1, -1, 256 >>)
    [] OTHER -> << >>

(* SA-dynamic-call.c: the methods of an object are those of its class; B   *)
(* has its own ping and the pong of A.  foo calls ping and pong.           *)
NewA == [ping |-> \h400, pong |-> \h402]
NewB == [ping |-> \h404, pong |-> \h402, wiff |-> \h406]
DynamicFoo(object, class) == << << \h300, object >>, << class.ping >>, << class.pong >> >>
DynamicBar == << << \h200 >> >> \o DynamicFoo(\h1000, NewA) \o DynamicFoo(\h1008, NewB)

(* The calls the C of each program makes, with their arguments. *)
CallsInC ==
  CASE prog \in {"S7_reg", "S7_stack"} -> << << \h500 >> >>
    [] prog \in {"S8_locals", "S9_regs"} -> << << \h200 >>, << \h300 >> >>
    [] prog = "S9_args" -> << << \h200 >>, << \h300, 1, 2 >> >>
    [] prog = "A5_b" -> << << \h300 >>, << \h200, 3, 4 >>, << \h200, 1, 2 >> >>
    [] prog = "A5_c" -> << << \h300, Word(loaded, \h200), Word(loaded, \h204), Word(loaded, \h208) >> >>
    [] prog = "SA_call" -> DynamicBar
    [] prog = "tests" -> << << \h200 >>, << \h250 >>, << \h300 >>, << \h350 >>, << \h400 >> >>
    [] OTHER -> << >>

Sp == [S7_stack |-> \h1028, S8_locals |-> \h1028, S9_regs |-> \h1028, S9_args |-> \h1028,
       A5_b |-> \h2028, A5_c |-> \h1028, SA_call |-> \h2028]
Stack == IF prog \in DOMAIN Sp THEN (Sp[prog] - 40)..(Sp[prog] - 1) ELSE {}

----------------------------------------------------------------------------

(* A program that stops has left in its variables what the C it translates *)
(* leaves there, whatever its data were (the .c file of each .s file; the  *)
(* comments of atests2.s and struct_arr.s), in whichever of the three ways *)
(* SB-switch.c is written.                                                 *)
ResultAsInC ==
  prog \in CoursePrograms /\ status = "halt"
    => /\ \A a \in DOMAIN Results : mem[a] = Results[a]
       /\ prog = "SB_switch" =>
            LET i == Word(loaded, \h1000)
            IN Word(mem, \h1004) = SwitchBar(i) /\ Word(mem, \h1004) = SwitchZot(i)

(* At no moment has a program written a byte of its own text, its inputs   *)
(* or memory it does not own: it writes its result variables and the forty *)
(* bytes of its stack (st of CPU.java 132-149).                            *)
OnlyItsOwnMemory ==
  prog \in CoursePrograms
    => \A a \in DOMAIN mem \ (Stack \cup DOMAIN Results) :
         a \in DOMAIN loaded /\ mem[a] = loaded[a]

(* The machine makes the calls of the C and no other, in their order, and  *)
(* every callee finds at the stack pointer the arguments its caller means  *)
(* to pass; calls through a table or an object reach the method its class  *)
(* has.  When the program halts the stack pointer is back where it was     *)
(* (main of A5-c never pops its three arguments).                          *)
CallsAsInC ==
  prog \in CoursePrograms =>
    /\ IsPrefix(calls, CallsInC)
    /\ status = "halt" =>
         /\ calls = CallsInC
         /\ prog \in DOMAIN Sp => reg[5] = Sp[prog] - (IF prog = "A5_c" THEN 12 ELSE 0)

(* Every program of the course reaches its halt: no loop runs for ever, no *)
(* jump goes astray and nothing throws.                                    *)
Halts == prog \in CoursePrograms => <>(status = "halt")
=============================================================================
