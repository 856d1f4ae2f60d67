-------------------------------- MODULE Y86 --------------------------------
(***************************************************************************)
(* The Y86 instruction set as a programmer sees it: one instruction after  *)
(* the other, each with its whole effect.  Pipeline.tla, a translation of  *)
(* the five-stage core of core.cpp, is checked against it.                 *)
(*                                                                         *)
(* An instruction takes one address and a word one memory cell.  A word    *)
(* has WordBits bits, in two's complement.                                 *)
(***************************************************************************)
EXTENDS Integers, Sequences

CONSTANTS WordBits,   \* 32
          MemSize,    \* the stack is the addresses 0 .. MemSize - 1
          PcLimit,    \* fetching from here on, or below 0, is an address error
          NULL

Limit == 2 ^ (WordBits - 1)
Words == -Limit .. Limit - 1
Wrap(n) == ((n + Limit) % (2 * Limit)) - Limit

Addrs == 0 .. MemSize - 1

Regs == {"eax", "ebx", "esp", "ebp"}
RNONE == "none"

Icodes == {"halt", "nop", "rrmovl", "irmovl", "rmmovl", "mrmovl", "opl", "jxx",
           "call", "ret", "pushl", "popl", "cmpl", "leave", "syscall", "bad"}

Instr == [icode : Icodes, ifun : 0 .. 6, rA : Regs \cup {RNONE},
          rB : Regs \cup {RNONE}, valC : Words]

Flags == [ZF : BOOLEAN, SF : BOOLEAN, OF : BOOLEAN]

\* Memory that holds no instruction reads as 0, which is halt.
Halt == [icode |-> "halt", ifun |-> 0, rA |-> RNONE, rB |-> RNONE, valC |-> 0]

InstrAt(prog, pc) == IF pc \in DOMAIN prog THEN prog[pc] ELSE Halt

-----------------------------------------------------------------------------
(* addl, subl, andl, xorl: the result, and the flags it sets.              *)

Bit(n, i) == ((n + 2 * Limit) \div (2 ^ i)) % 2

Bitwise2(a, b, one(_)) ==
    CHOOSE w \in Words :
        \A i \in 0 .. WordBits - 1 : Bit(w, i) = 1 <=> one(Bit(a, i) + Bit(b, i))

AndOf(a, b) == Bitwise2(a, b, LAMBDA s : s = 2)
XorOf(a, b) == Bitwise2(a, b, LAMBDA s : s = 1)

\* b op a, without a bound.
Exact(fun, a, b) ==
    CASE fun = 0 -> b + a
      [] fun = 1 -> b - a
      [] fun = 2 -> AndOf(a, b)
      [] fun = 3 -> XorOf(a, b)

FlagsOf(fun, a, b) ==
    [ZF |-> Wrap(Exact(fun, a, b)) = 0,
     SF |-> Wrap(Exact(fun, a, b)) < 0,
     OF |-> Exact(fun, a, b) \notin Words]

\* always, le, l, e, ne, ge, g
Holds(fun, cc) ==
    CASE fun = 0 -> TRUE
      [] fun = 1 -> cc.SF # cc.OF \/ cc.ZF
      [] fun = 2 -> cc.SF # cc.OF
      [] fun = 3 -> cc.ZF
      [] fun = 4 -> ~ cc.ZF
      [] fun = 5 -> cc.SF = cc.OF
      [] fun = 6 -> cc.SF = cc.OF /\ ~ cc.ZF

\* A word can be 1, and the bitwise operations on two of them give one.
ASSUME WordsAssumption ==
    /\ Limit \in Nat \ {0, 1}
    /\ \A a, b \in Words : AndOf(a, b) \in Words /\ XorOf(a, b) \in Words
    /\ NULL \notin Int

-----------------------------------------------------------------------------
(* s is [pc, REG, cc, mem, stat]; each operator gives the state after.     *)

Goto(s, pc) == [s EXCEPT !.pc = pc]

Stop(s, stat) == [s EXCEPT !.stat = stat]

Put(s, r, n) == [s EXCEPT !.REG[r] = n]

\* A load and a store, with whatever else the instruction does: f of the word.
Load(s, a, f(_)) == IF a \in Addrs THEN f(s.mem[a]) ELSE Stop(s, "ADR")

Store(s, a, n) ==
    IF a \in Addrs THEN [s EXCEPT !.mem[a] = n] ELSE Stop(s, "ADR")

PushWord(s, n) ==
    LET a == Wrap(s.REG["esp"] - 1) IN Put(Store(s, a, n), "esp", a)

Effect(s, i) ==
    LET A == s.REG[i.rA]
        B == s.REG[i.rB]
        esp == s.REG["esp"]
        ebp == s.REG["ebp"]
    IN
    CASE i.icode = "nop" -> s
      [] i.icode = "halt" -> Stop(s, "HLT")
      [] i.icode = "bad" -> Stop(s, "INS")
      [] i.icode = "syscall" -> Stop(s, "SYS")
      [] i.icode = "rrmovl" -> IF Holds(i.ifun, s.cc) THEN Put(s, i.rB, A) ELSE s
      [] i.icode = "irmovl" -> Put(s, i.rB, i.valC)
      [] i.icode = "rmmovl" -> Store(s, Wrap(B + i.valC), A)
      [] i.icode = "mrmovl" ->
            Load(s, Wrap(B + i.valC), LAMBDA n : Put(s, i.rA, n))
      [] i.icode = "opl" -> [Put(s, i.rB, Wrap(Exact(i.ifun, A, B)))
                                EXCEPT !.cc = FlagsOf(i.ifun, A, B)]
      [] i.icode = "cmpl" -> [s EXCEPT !.cc = FlagsOf(1, A, B)]
      [] i.icode = "jxx" -> IF Holds(i.ifun, s.cc) THEN Goto(s, i.valC) ELSE s
      [] i.icode = "call" -> Goto(PushWord(s, s.pc), i.valC)
      [] i.icode = "ret" ->
            Load(s, esp, LAMBDA n : Goto(Put(s, "esp", Wrap(esp + 1)), n))
      [] i.icode = "pushl" -> PushWord(s, A)
      [] i.icode = "popl" ->
            Load(s, esp, LAMBDA n : Put(Put(s, "esp", Wrap(esp + 1)), i.rA, n))
      [] i.icode = "leave" ->
            Load(s, ebp, LAMBDA n : Put(Put(s, "esp", Wrap(ebp + 1)), "ebp", n))

\* One instruction.
Step(prog, s) ==
    IF s.pc < 0 \/ s.pc >= PcLimit THEN Stop(s, "ADR")
    ELSE Effect(Goto(s, s.pc + 1), InstrAt(prog, s.pc))

=============================================================================
