------------------------------ MODULE Machine ------------------------------
(***************************************************************************)
(* The execution of a module that IRBuilder has built, from the beginning  *)
(* of main() to its return or to a trap: what LLVM's language reference    *)
(* says of the instructions that occur.  LLVM is external.                 *)
(*                                                                         *)
(* A function that runs is a frame: where control is and which block it    *)
(* came from, the arguments, the results of the instructions executed, the *)
(* contents of the slots, and the call that waits for it.  A pointer is    *)
(* the slot it points to, or, into an array, the slot and the index.       *)
(***************************************************************************)
EXTENDS IRBuilder, Symtab

VARIABLES
    ir,         \* the module
    running,    \* "idle", "run", "ok", "trap" or "beyond" what is modelled
    frames,     \* the functions running, innermost last
    answer      \* what main() returned

vars == <<ir, running, frames, answer>>

Init == running = "idle" /\ frames = <<>> /\ answer = 0

Enter(f, args, call) ==
    [block |-> EntryBlock(ir, f), pos |-> 1, from |-> 0, args |-> args,
     regs |-> NoBindings, cells |-> NoBindings, call |-> call]

Start ==
    /\ running = "idle"
    /\ running' = "run"
    /\ frames' = <<Enter(1, <<>>, 0)>>
    /\ UNCHANGED <<ir, answer>>

-----------------------------------------------------------------------------
Depth == Len(frames)

Top == frames[Depth]

Ins == ir.blocks[Top.block].code[Top.pos]

Executing(op) == running = "run" /\ Ins.op = op

Operand(v) ==
    CASE Kind(v) = "arg"  -> Top.args[Detail(v)]
      [] Kind(v) = "inst" -> Top.regs[Detail(v)]
      [] OTHER            -> Data(v)[Len(Data(v))]

Arg(i) == Operand(Ins.args[i])

Replace(frame) ==
    /\ frames' = [frames EXCEPT ![Depth] = frame]
    /\ UNCHANGED <<ir, running, answer>>

(* The instruction's result is r; control goes to the next one.            *)
Advance(frame, r) == [frame EXCEPT !.regs = Bind(@, Ins.id, r), !.pos = @ + 1]

Goto(b) == Replace([Top EXCEPT !.block = b, !.pos = 1, !.from = Top.block])

ExecAlloca == Executing("alloca") /\ Replace(Advance(Top, <<Ins.id>>))

ExecStore ==
    /\ Executing("store")
    /\ Replace([Top EXCEPT !.cells = Bind(@, Arg(2)[1], Arg(1)), !.pos = @ + 1])

(* A slot that nothing was stored in holds any value; of the numbers two   *)
(* are tried.                                                              *)
Garbage(type) == IF type = PrimType("bool") THEN BOOLEAN ELSE {0, 1}

Contents(slot, type) == IF slot \in DOMAIN Top.cells THEN {Top.cells[slot]}
                                                     ELSE Garbage(type)

ExecLoad ==
    /\ Executing("load")
    /\ LET p == Arg(1)
       IN  \E cell \in Contents(p[1], Ins.type) :
              Replace(Advance(Top, IF Len(p) = 1 THEN cell ELSE cell[p[2] + 1]))

ExecGep == Executing("gep") /\ Replace(Advance(Top, <<Arg(1)[1], Arg(2)>>))

ExecBr == Executing("br") /\ Goto(Ins.to[1])

ExecCondBr == Executing("condbr") /\ Goto(IF Arg(1) THEN Ins.to[1] ELSE Ins.to[2])

ExecPhi ==
    /\ Executing("phi")
    /\ \E i \in DOMAIN Ins.to :
          Ins.to[i] = Top.from /\ Replace(Advance(Top, Arg(i)))

ExecTrap ==
    /\ Executing("trap")
    /\ running' = "trap"
    /\ UNCHANGED <<ir, frames, answer>>

ExecCall ==
    /\ Executing("call")
    /\ frames' = Append(frames, Enter(Detail(Ins.args[1]),
                                      [i \in 1 .. Len(Ins.args) - 1 |-> Arg(i + 1)],
                                      Ins.id))
    /\ UNCHANGED <<ir, running, answer>>

Returned == IF Ins.args = <<>> THEN 0 ELSE Arg(1)

ExecRet ==
    /\ Executing("ret")
    /\ IF Depth = 1
       THEN running' = "ok" /\ answer' = Returned /\ frames' = <<>>
       ELSE LET caller == frames[Depth - 1]
            IN  /\ frames' = Append(SubSeq(frames, 1, Depth - 2),
                                    [caller EXCEPT !.regs = Bind(@, Top.call, Returned),
                                                   !.pos = @ + 1])
                /\ UNCHANGED <<running, answer>>
    /\ UNCHANGED ir

(* A division of integers that no result is defined for traps (SIGFPE);    *)
(* the generator has guarded those by zero.  The doubles here have neither *)
(* infinities nor NaN: where one comes up the execution is not followed.   *)
ExecCompute ==
    /\ running = "run"
    /\ Ins.op \notin {"alloca", "store", "load", "gep", "phi", "trap", "call"} \union Terminators
    /\ LET args    == [i \in DOMAIN Ins.args |-> Constant(Tid(Ins.args[i]), Arg(i))]
           results == Compute(Ins.op, Ins.type, args)
       IN  IF results = {}
           THEN /\ running' = IF Ins.type = PrimType("float") THEN "beyond" ELSE "trap"
                /\ UNCHANGED <<ir, frames, answer>>
           ELSE \E r \in results : Replace(Advance(Top, r))

Exec ==
    \/ ExecAlloca \/ ExecStore \/ ExecLoad \/ ExecGep
    \/ ExecBr \/ ExecCondBr \/ ExecPhi \/ ExecTrap
    \/ ExecCall \/ ExecRet \/ ExecCompute

=============================================================================
