--------------------------------- MODULE Ir ---------------------------------
(***************************************************************************)
(* Dezh-IR (dezh-core/src/ir.rs): the static verifier and the interpreter   *)
(* of the agent bytecode.                                                   *)
(*                                                                         *)
(* A program is a sequence of bytes, and a byte is an opcode or an operand  *)
(* depending on where control reaches it.  An immediate or a target is one  *)
(* byte here (8 and 2 in the code).  Words are two's complement numbers of  *)
(* WORD values; what arithmetic and loads produce is any of Sample, so the  *)
(* contents of the linear memory are left out and its bounds are not.       *)
(*                                                                         *)
(* code     the program       caps  the capabilities the host holds         *)
(* vm       pc, operand stack and call stack, and how the run ended:        *)
(*          "run", "ok", a Trap, or "panic"                                 *)
(* effects  the host calls that took effect                                 *)
(***************************************************************************)
EXTENDS Integers, Sequences, FiniteSets

CONSTANTS
  MAX_PROG, STACK_SIZE, CALL_SIZE, MEM_SIZE,
  Programs,     \* the programs that are run, verified or not
  MaxLen,       \* a bound on their lengths
  Caps          \* the capability sets a host may hold

HALT == 0
PUSH == 1
POP == 2
DUP == 3
SWAP == 4
ARITH == 5      \* ADD SUB MUL DIV MOD LT GT EQ
LOAD == 6       \* LOAD8 LOAD64
STORE == 7      \* STORE8 STORE64
JMP == 8
JZ == 9         \* JZ JNZ
CALL == 10
RET == 11
HOSTCALL == 12
WORD == 14      \* 13 is no opcode; as a word it is -1
Byte == 0..WORD - 1
Sample == {0, 1, WORD - 1}

\* The capability of each host call.
HostCap == <<"print", "print", "write", "read">>

VARIABLES code, caps, vm, effects

irVars == <<code, caps, vm, effects>>

Running(pc, stack, calls) == [pc |-> pc, stack |-> stack, calls |-> calls, end |-> "run"]

\* run() with a fresh machine.
IrInit ==
  /\ code \in Programs
  /\ caps \in Caps
  /\ vm = Running(0, <<>>, <<>>)
  /\ effects = {}

-----------------------------------------------------------------------------
(* The verifier.  Offsets count from 0. *)

At(i) == code[i + 1]
Branches == {JMP, JZ, CALL}

\* op_size(); 0 is None.
OpSize(op) ==
  CASE op \in {PUSH, HOSTCALL} \cup Branches -> 2
    [] op > HOSTCALL -> 0
    [] OTHER -> 1

\* Pass 1: the offsets at which the walk finds an instruction.
WalkFrom[i \in 0..MaxLen] ==
  IF i >= Len(code) THEN {}
  ELSE {i} \cup (IF OpSize(At(i)) = 0 \/ i + OpSize(At(i)) > MaxLen THEN {}
                 ELSE WalkFrom[i + OpSize(At(i))])
Starts == WalkFrom[0]

\* Pass 2 without CALL: the mutated form.
TargetsOkButCalls ==
  \A i \in Starts : At(i) \in {JMP, JZ} => At(i + 1) < Len(code) /\ At(i + 1) \in Starts

\* Pass 2: every branch and call lands on an instruction.
TargetsOk ==
  \A i \in Starts : At(i) \in Branches => At(i + 1) < Len(code) /\ At(i + 1) \in Starts

\* verify().
Verified ==
  /\ Len(code) <= MAX_PROG
  /\ \A i \in Starts : OpSize(At(i)) # 0 /\ i + OpSize(At(i)) <= Len(code)
  /\ TargetsOk

-----------------------------------------------------------------------------
(* The interpreter. *)

\* Vm::pop() of n words, Vm::push().
Depth == Len(vm.stack)
Top(n) == vm.stack[Depth - n]
Under(n) == SubSeq(vm.stack, 1, Depth - n)

Trap(trap) == vm' = [vm EXCEPT !.end = trap] /\ UNCHANGED <<code, caps, effects>>

\* Goes on at pc if Vm::push() has room.
Continue(pc, stack, calls) ==
  /\ vm' = IF Len(stack) > STACK_SIZE THEN [vm EXCEPT !.end = "StackOverflow"]
           ELSE Running(pc, stack, calls)
  /\ UNCHANGED <<code, caps, effects>>

\* Pops n words, and then goes on with stack at pc.
Pops(n, pc, stack) ==
  IF Depth < n THEN Trap("StackUnderflow") ELSE Continue(pc, stack, vm.calls)

Negative(v) == v >= WORD \div 2

\* Vm::range(): the sum of address and length is taken in the word's width; a
\* slice that ends before it begins panics.
Range(addr, len) ==
  LET end == (addr + len) % WORD IN
  CASE Negative(addr) \/ end > MEM_SIZE -> "MemOob"
    [] end < addr -> "panic"
    [] OTHER -> "ok"

Here(op) == vm.end = "run" /\ vm.pc < Len(code) /\ At(vm.pc) = op
NextPc == vm.pc + OpSize(At(vm.pc))
Whole == NextPc <= Len(code)

\* run() at the end of the program, at HALT, and at a byte that is no opcode.
Halt ==
  /\ Here(HALT) \/ (vm.end = "run" /\ vm.pc >= Len(code))
  /\ Trap("ok")
Unknown == Here(WORD - 1) /\ Trap("BadOpcode")

Push ==
  /\ Here(PUSH)
  /\ IF Whole THEN Pops(0, NextPc, Append(vm.stack, At(vm.pc + 1))) ELSE Trap("Truncated")
Pop == Here(POP) /\ Pops(1, NextPc, Under(1))
Dup == Here(DUP) /\ Pops(1, NextPc, Append(vm.stack, Top(0)))
Swap == Here(SWAP) /\ Pops(2, NextPc, Under(2) \o <<Top(0), Top(1)>>)

\* DIV and MOD trap on zero; the most negative word divided by -1 panics.
Arith ==
  /\ Here(ARITH)
  /\ \/ \E r \in Sample : Pops(2, NextPc, Append(Under(2), r))
     \/ Depth >= 2 /\ Top(0) = 0 /\ Trap("DivZero")
     \/ Depth >= 2 /\ Top(0) = WORD - 1 /\ Top(1) = WORD \div 2 /\ Trap("panic")

\* The loads and stores of w bytes.
Load(w) ==
  /\ Here(LOAD)
  /\ IF Depth < 1 \/ Range(Top(0), w) = "ok"
     THEN \E v \in Sample : Pops(1, NextPc, Append(Under(1), v))
     ELSE Trap(Range(Top(0), w))
Store(w) ==
  /\ Here(STORE)
  /\ IF Depth < 2 \/ Range(Top(1), w) = "ok" THEN Pops(2, NextPc, Under(2))
     ELSE Trap(Range(Top(1), w))

\* JMP, JZ and JNZ, CALL, RET.
Jump == Here(JMP) /\ IF Whole THEN Pops(0, At(vm.pc + 1), vm.stack) ELSE Trap("Truncated")
JumpIf ==
  /\ Here(JZ)
  /\ IF ~Whole THEN Trap("Truncated")
     ELSE Pops(1, NextPc, Under(1)) \/ Pops(1, At(vm.pc + 1), Under(1))
Call ==
  /\ Here(CALL)
  /\ CASE ~Whole -> Trap("Truncated")
       [] Whole /\ Len(vm.calls) >= CALL_SIZE -> Trap("CallOverflow")
       [] OTHER -> Continue(At(vm.pc + 1), vm.stack, Append(vm.calls, NextPc))
Ret ==
  /\ Here(RET)
  /\ IF vm.calls = <<>> THEN Trap("CallUnderflow")
     ELSE Continue(vm.calls[Len(vm.calls)], vm.stack, SubSeq(vm.calls, 1, Len(vm.calls) - 1))

\* hostcall(): the capability first, then the operands, the range and the host.
\* CAIRN_GET pushes the count it read.
Performs(f, stack) ==
  /\ vm' = Running(NextPc, stack, vm.calls)
  /\ effects' = effects \cup {f}
  /\ UNCHANGED <<code, caps>>
HostCall ==
  LET f == At(vm.pc + 1)
      words == IF f = 0 THEN 1 ELSE 2
  IN
  /\ Here(HOSTCALL)
  /\ CASE ~Whole -> Trap("Truncated")
       [] Whole /\ f > 3 -> Trap("BadOpcode")
       [] Whole /\ f <= 3 /\ HostCap[f + 1] \notin caps -> Trap("MissingCapability")
       [] Whole /\ f <= 3 /\ HostCap[f + 1] \in caps /\ Depth < words -> Trap("StackUnderflow")
       [] OTHER ->
            IF f # 0 /\ Range(Top(1), Top(0)) # "ok" THEN Trap(Range(Top(1), Top(0)))
            ELSE \/ f < 3 /\ Performs(f, Under(words))
                 \/ f = 3 /\ \E n \in 0..Top(0) : Performs(f, Append(Under(2), n))
                 \/ f \in {2, 3} /\ Trap("NoDisk")

IrNext ==
  \/ Halt \/ Unknown \/ Push \/ Pop \/ Dup \/ Swap \/ Arith
  \/ Load(1) \/ Load(2) \/ Store(1) \/ Store(2)
  \/ Jump \/ JumpIf \/ Call \/ Ret \/ HostCall

IrSpec == IrInit /\ [][IrNext]_irVars

-----------------------------------------------------------------------------
(* Properties. *)

\* The verifier's promise: in a program that verify() accepts, control is always at
\* an instruction that the verifier walked over, or at the end, through any jumps,
\* calls and returns; so the run never finds a truncated instruction.
VerifiedStaysOnInstructions ==
  Verified => /\ vm.pc \in Starts \cup {Len(code)}
              /\ vm.end # "Truncated"

=============================================================================
