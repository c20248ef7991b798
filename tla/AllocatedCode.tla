--------------------------- MODULE AllocatedCode ----------------------------
(***************************************************************************)
(* From selected instructions to code that runs on registers: the graph of *)
(* Interference is coloured by RegisterAllocation, code that brings the    *)
(* spilled vregs to registers and back is added, and the result runs.      *)
(* Every place, a register or a slot, holds the values of some vregs; what *)
(* is checked is that each instruction finds the values it reads.          *)
(***************************************************************************)
EXTENDS RegisterAllocation, Instructions, CodeFacts

CONSTANTS
  ArgRegisters, ResultRegisters, \* reserved vregs, as in Interference
  CallerSaved,    \* the reserved vregs that are not in callee_saved_registers
  Programs        \* [code, succ, arrives, sse] of the functions that are compiled

VARIABLES
  code, liveout, block, at, livenow,   \* see Interference
  succ,     \* block -> the blocks that may run next
  stage,    \* "connect", "allocate", "spill", "run", "exit" or "panic"
  ip,       \* <<block, tac, n>>: the n-th instruction of the tac runs next
  holds     \* <<place, vreg>>: the current value of the vreg is in the place

walk    == <<block, at, livenow>>
program == <<code, liveout, succ>>
machine == <<stage, ip, holds>>
allVars == <<vars, walk, program, machine>>

Graph == INSTANCE Interference
  WITH IncludeClobbers <- TRUE, IncludeInstrselConstraints <- FALSE

ASSUME RegisterAssumption ==
  /\ {RAX, RCX, RDX} \subseteq 1 .. NumInt
  /\ ArgRegisters \subseteq 1 .. Reserved
  /\ CallerSaved \subseteq ArgRegisters \cup {RAX, RDX} \cup Graph!SseRegisters

-----------------------------------------------------------------------------
(* What the phases before hand over.                                       *)

ClassIn(p, v) == IF v \in p.sse THEN "SSE" ELSE "INT"

(* The values of some code that must be in a register. *)
ForcedIn(c) == UNION {UNION {c[b][i].forced : i \in 1 .. Len(c[b])} : b \in DOMAIN c}

(* The operands of a tac are vregs of the function.  A value only has to   *)
(* be in a register, or prefers one, of its class, and what is subtracted  *)
(* is of the class of the difference.  A move reads one value.  A tac with *)
(* a dst leaves in registers at most that, and is marked so; a call is     *)
(* marked with each register its result is in.                             *)
IsTac(p, tac) ==
  /\ {tac.dst, tac.src1, tac.src2} \subseteq Free \cup {0}
  /\ \A f \in tac.forced : f[1] \in Free /\ f[2] \in ReservedOf(ClassIn(p, f[1]))
  /\ tac.prefers # 0 => tac.prefers \in ReservedOf(ClassIn(p, tac.src1))
  /\ tac.dst # 0 => \A v \in Graph!Subtrahend(tac) : ClassIn(p, v) = ClassIn(p, tac.dst)
  /\ tac.op \in Graph!Moves => tac.src2 = 0 /\ (tac.src1 = 0 \/ tac.ins = {})
  /\ tac.dst # 0 => ~(tac.dst = tac.src1 /\ tac.dst = tac.src2)
  /\ \A o \in tac.outs :
       /\ o \in (1 .. Reserved) \X (1 .. VregCount)
       /\ IF tac.dst = 0 THEN o[2] = o[1] ELSE o[2] = tac.dst /\ <<tac.dst, o[1]>> \in tac.forced
  /\ tac.op = "X_CALL" => \A r \in tac.results : <<tac.dst, r>> \in tac.forced

(* Between two tacs of a block nothing changes a register: no call, no     *)
(* other instruction that uses it, and no vreg is written, but for what a  *)
(* shift is about to shift.                                                *)
Untouched(t, r, j, i) ==
  \A m \in j + 1 .. i - 1 :
    /\ t[m].op # "X_CALL"
    /\ r \notin {o[1] : o \in t[m].outs}
    /\ t[m].dst # 0 => r = RCX /\ Graph!ShiftsMovedValue(t[m + 1], t[m])

(* What a tac reads from a register was put there before it: by a tac that *)
(* uses the register, or as the value of a vreg that must be in it.        *)
IsFed(p, t, i) ==
  \A r \in t[i].ins :
    /\ r \in (1 .. Reserved) \X (1 .. VregCount)
    /\ \E j \in 1 .. i - 1 :
         \/ r \in t[j].outs /\ r[1] = r[2] /\ Untouched(t, r[1], j, i)
         \/ /\ <<r[2], r[1]>> \in ForcedIn(p.code)
            /\ \/ r[2] = t[j].dst /\ Untouched(t, r[1], j, i)
               \/ r[2] \in Operands(t[j]) /\ Untouched(t, r[1], j - 1, i)

(* A register that a tac uses on its own is one that it, or a tac right    *)
(* behind it, is known to use.                                             *)
IsKnown(t, j) ==
  \A o \in t[j].outs : o[1] = o[2] =>
    \E m \in j .. Len(t) :
      /\ m > 1 /\ o[1] \in Graph!UsedRegisters(t[m], t[m - 1])
      /\ \A k \in j + 1 .. m - 1 :
           \/ t[k].dst = 0 /\ Operands(t[k]) = {}
           \/ o[1] = RCX /\ k = m - 1 /\ t[k].src2 = 0 /\ Graph!ShiftsMovedValue(t[m], t[k])

(* Only parameters have values when the function begins, each in its       *)
(* register.                                                               *)
IsProgram(p) ==
  /\ IsFiniteSet(DOMAIN p.code)
  /\ DOMAIN p.code = 0 .. Cardinality(DOMAIN p.code) - 1
  /\ \A b \in DOMAIN p.code :
       /\ Len(p.code[b]) \in Nat \ {0}
       /\ \A i \in 1 .. Len(p.code[b]) :
            /\ IsTac(p, p.code[b][i])
            /\ IsFed(p, p.code[b], i)
            /\ IsKnown(p.code[b], i)
       /\ p.succ[b] \subseteq DOMAIN p.code
  /\ \A v \in Free :
       LiveAfter(p.code, LiveOut(p.code, p.succ), 0, 0, v) =>
         \E a \in p.arrives : a[2] = v /\ <<v, a[1]>> \in ForcedIn(p.code)

ASSUME ProgramAssumption == \A p \in Programs : IsProgram(p)

(* make_preferred_live_range_preg_indexes: the last preference counts.     *)
Preference(c, v) ==
  LET wishes == {w \in Positions(c, DOMAIN c) :
                   c[w[1]][w[2]].src1 = v /\ c[w[1]][w[2]].prefers # 0}
      last == CHOOSE w \in wishes : \A x \in wishes : x[1] < w[1] \/ (x[1] = w[1] /\ x[2] <= w[2])
  IN IF wishes = {} THEN 0 ELSE c[last[1]][last[2]].prefers

Register(r) == <<"reg", PregMap[r - 1]>>

InitProgram(p) ==
  /\ code = p.code
  /\ succ = p.succ
  /\ liveout = LiveOut(p.code, p.succ)
  /\ class = [v \in Free |-> ClassIn(p, v)]
  /\ cost = [v \in Free |-> SpillCost(p.code, {b \in DOMAIN p.code : b \in p.succ[b]}, liveout, v)]
  /\ preferred = [v \in Free |-> Preference(p.code, v)]
  /\ holds = {<<Register(a[1]), a[2]>> : a \in p.arrives}

InitAll ==
  /\ \E p \in Programs : InitProgram(p)
  /\ Graph!InitGraph
  /\ origStack = [v \in Free |-> 0]
  /\ locals = 0
  /\ preg = [v \in Vregs |-> -1]
  /\ stackIndex = [v \in Vregs |-> 0]
  /\ stackCount = 0
  /\ pass = "INT"
  /\ todo = {}
  /\ pc = "order"
  /\ stage = "connect"
  /\ ip = <<0, 1, 1>>

-----------------------------------------------------------------------------
allocator == <<cost, preferred, origStack, locals, preg, stackIndex, stackCount, pass, todo, pc>>

Connect ==
  /\ stage = "connect"
  /\ Graph!ConnectNext
  /\ stage' = IF block' = -1 THEN "allocate" ELSE stage
  /\ UNCHANGED <<allocator, succ, ip, holds>>

AllocateStep ==
  /\ stage = "allocate"
  /\ OrderNodes \/ (\E v \in {u \in todo : IsNext(u)} : ColorVreg(v)) \/ NextPass \/ RemapPregs
  /\ UNCHANGED <<walk, program, machine>>

(* assign_vreg_locations: a value that must be in a register and is not.   *)
ForcedToStack == \E f \in ForcedIn(code) : Spilled(f[1])

AssignVregLocations ==
  /\ stage = "allocate"
  /\ pc = "done"
  /\ stage' = IF ForcedToStack THEN "panic" ELSE "spill"
  /\ UNCHANGED <<vars, walk, program, ip, holds>>

-----------------------------------------------------------------------------
(* Spill code.  An instruction has the places it reads and writes, each    *)
(* with the vreg it means, and places it copies, whatever is in them.      *)
Place(v) == IF Spilled(v) THEN <<"slot", stackIndex[v]>> ELSE <<"reg", preg[v]>>
Copy(from, to) == [op |-> "X_MOV", reads |-> {}, writes |-> {}, from |-> {from}, to |-> {to}]

(* The operands in the places p1, p2 and d.  The template of an operation  *)
(* on its own destination writes its last operand, which is dst by name.   *)
In(tac, p1, p2, d) ==
  LET written == IF tac.dst # 0 /\ tac.src2 = tac.dst THEN p2 ELSE d
      reads   == {o \in {<<p1, tac.src1>>, <<p2, tac.src2>>} : o[2] # 0}
                   \cup {<<Register(r[1]), r[2]>> : r \in tac.ins}
      writes  == {<<written, v>> : v \in Graph!Dst(tac) \ {r[2] : r \in tac.outs}}
                   \cup {<<Register(r[1]), r[2]>> : r \in tac.outs}
  IN  [op |-> tac.op, reads |-> reads, writes |-> writes,
       from |-> IF tac.op \in Graph!Moves THEN {r[1] : r \in reads} ELSE {},
       to   |-> IF tac.op \in Graph!Moves THEN {w[1] : w \in writes} ELSE {}]

(* get_spill_register: r10 and r11, or xmm14 and xmm15. *)
SpillRegister(v, n) == <<"spill", class[v], n>>
OnStack(v) == v # 0 /\ Spilled(v)
Operand(v, n) == IF OnStack(v) THEN SpillRegister(v, n) ELSE IF v = 0 THEN <<>> ELSE Place(v)
Load(v, n) == IF OnStack(v) THEN <<Copy(Place(v), SpillRegister(v, n))>> ELSE <<>>
Store(v, n) == IF OnStack(v) THEN <<Copy(SpillRegister(v, n), Place(v))>> ELSE <<>>

(* A move that one instruction can do, from or to the stack, and one that  *)
(* remove_preg_self_moves and remove_stack_self_moves drop: that one only  *)
(* gives the value in a place another name.                                *)
NeedsNoSpillCode(tac) ==
  /\ tac.op = "X_MOV" /\ tac.dst # 0 /\ tac.src1 # 0
  /\ Spilled(tac.dst) # Spilled(tac.src1) \/ Place(tac.dst) = Place(tac.src1)

(* One turn of add_spill_code's loop.  When src1 is dst, the result is in  *)
(* its first register; the store that brings it home is gone through next, *)
(* and so gets a store of its own, but src2 is not.                        *)
WithSpillCode(tac) ==
  IF NeedsNoSpillCode(tac) THEN <<In(tac, Place(tac.src1), <<>>, Place(tac.dst))>>
  ELSE IF tac.dst = tac.src1 /\ OnStack(tac.dst)
  THEN Load(tac.src1, 1)
         \o <<In(tac, Operand(tac.src1, 1), IF tac.src2 = 0 THEN <<>> ELSE Place(tac.src2), Operand(tac.dst, 1)),
              Copy(SpillRegister(tac.dst, 1), SpillRegister(tac.dst, 2))>>
         \o Store(tac.dst, 2)
  ELSE Load(tac.src1, 1) \o Load(tac.src2, 2)
         \o <<In(tac, Operand(tac.src1, 1), Operand(tac.src2, 2), Operand(tac.dst, 2))>> \o Store(tac.dst, 2)

AddSpillCode ==
  /\ stage = "spill"
  /\ code' = [b \in DOMAIN code |-> [i \in 1 .. Len(code[b]) |-> WithSpillCode(code[b][i])]]
  /\ stage' = "run"
  /\ UNCHANGED <<vars, walk, liveout, succ, ip, holds>>

-----------------------------------------------------------------------------
Now == code[ip[1]][ip[2]][ip[3]]

(* Where the code may go on after an instruction. *)
After(i) ==
  IF i[3] < Len(code[i[1]][i[2]]) THEN {<<i[1], i[2], i[3] + 1>>}
  ELSE IF i[2] < Len(code[i[1]]) THEN {<<i[1], i[2] + 1, 1>>}
  ELSE {<<b, 1, 1>> : b \in succ[i[1]]}

(* A copy brings along every value that is in the place it reads. *)
Moved(i) == {h[2] : h \in {g \in holds : g[1] \in i.from}}

(* A call leaves nothing in the registers its callee may change. *)
Lost(i) == IF i.op = "X_CALL" THEN {Register(r) : r \in CallerSaved} ELSE {}

Run ==
  /\ stage = "run"
  /\ LET vregs  == {w[2] : w \in Now.writes}
         places == {w[1] : w \in Now.writes} \cup Now.to
     IN holds' = {h \in holds : h[2] \notin vregs /\ h[1] \notin places \cup Lost(Now)}
                   \cup Now.writes \cup (Now.to \X (Moved(Now) \ vregs))
  /\ IF After(ip) = {}
     THEN stage' = "exit" /\ UNCHANGED ip
     ELSE ip' \in After(ip) /\ UNCHANGED stage
  /\ UNCHANGED <<vars, walk, program>>

Stopped == stage \in {"exit", "panic"} /\ UNCHANGED allVars

NextAll == Connect \/ AllocateStep \/ AssignVregLocations \/ AddSpillCode \/ Run \/ Stopped

SpecAll == InitAll /\ [][NextAll]_allVars

-----------------------------------------------------------------------------
(* Every instruction finds the current value of each vreg it reads in the  *)
(* place the vreg was given, and what it expects in rax, rdx, cl and the   *)
(* argument registers: no instruction, call or spilled vreg in between     *)
(* has overwritten it, and what is in a slot was brought to the register   *)
(* that is read.                                                           *)
ReadsFindTheirValues == stage = "run" => Now.reads \subseteq holds

(* panic("Unexpectedly spilled a register"): a value that an instruction   *)
(* or the calling convention wants in a register got that register.  The   *)
(* comment at add_ir_call_reg_instructions says its placeholders keep      *)
(* other values out of the argument registers up to the call.              *)
NoForcedSpill == stage # "panic"

(* The graph the allocator starts from is one of those RegisterAllocation  *)
(* is proved correct for: only reserved vregs meet both classes, and a     *)
(* register is only preferred by a vreg of its class.                      *)
HandsOverLegalInput ==
  stage = "allocate" =>
    /\ \A e \in ig : e[1] <= e[2] /\ e[2] \in Free
    /\ \A e \in ig : e[1] <= Reserved \/ class[e[1]] = class[e[2]]
    /\ \A v \in Free : preferred[v] # 0 => preferred[v] \in ReservedOf(class[v])
=============================================================================
