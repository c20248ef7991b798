------------------------------ MODULE SsaForm -------------------------------
(***************************************************************************)
(* Into static single assignment form and out of it: ssa.c,                *)
(* make_globals_and_var_blocks, insert_phi_functions,                      *)
(* rename_phi_function_variables and make_live_ranges.                     *)
(*                                                                         *)
(* A name is a vreg and a subscript.  In this form a tac has the           *)
(* subscripts of its vregs in subs, -1 before they are given, and a phi    *)
(* function those of its arguments in args; pregs has the live_range_preg  *)
(* of its values.                                                          *)
(***************************************************************************)
EXTENDS ControlFlow, CodeFacts, TLC

CONSTANT Offset   \* live_range_reserved_pregs_offset: live ranges come after it

ASSUME OffsetAssumption == Offset \in Nat

VARIABLES
  varBlocks, globals, phis, left, global, work,   \* see PhiInsertion
  code,        \* block -> its tacs
  class,       \* vreg -> "INT" or "SSE", by its type
  calls,       \* rename_vars: [block, child, found] of the calls, the innermost first;
               \* found is what the stacks were, for LeavesStackAsFound
  stack, counters,
  joins,       \* make_live_ranges: where the phi functions are whose names are not joined yet
  setOf,       \* name -> the name whose set it is in
  members      \* name -> the names in its set

insertion == <<varBlocks, globals, phis, left, global, work>>
renaming  == <<calls, stack, counters>>
ranges    == <<joins, setOf, members>>
ssaVars   == <<flowVars, stage, insertion, code, class, renaming, ranges>>

Phi == INSTANCE PhiInsertion

Fields == {"dst", "src1", "src2"}
NoPregs == [dst |-> 0, src1 |-> 0, src2 |-> 0]
NoSubs == [dst |-> -1, src1 |-> -1, src2 |-> -1]

(* Code as the parser makes it: without phi functions, and no value has a  *)
(* subscript yet.                                                          *)
IsUnnamed(t) ==
  \A i \in 1 .. Len(t) :
    /\ t[i].op # "IR_PHI_FUNCTION"
    /\ Fields \cup {"subs"} \subseteq DOMAIN t[i]
    /\ {t[i].dst, t[i].src1, t[i].src2} \subseteq Nat
    /\ t[i].subs = NoSubs

(* Operands do not share a vreg: what an operation reads was loaded into a *)
(* vreg of its own before, and its result is in another.                   *)
HasOperandsApart(tac) ==
  IF tac.op = "IR_MOVE" THEN tac.src2 = 0
  ELSE \A f, g \in Fields : f # g /\ tac[f] = tac[g] => tac[f] = 0

VregsOf(t) == (UNION {{t[i].dst, t[i].src1, t[i].src2} : i \in 1 .. Len(t)}) \ {0}
Reading(b) == {v \in VregsOf(tacs) : \E i \in blocks[b].start .. blocks[b].end :
                 /\ v \in Operands(tacs[i])
                 /\ \A j \in blocks[b].start .. i - 1 : tacs[j].dst # v}
Writing(b) == {tacs[i].dst : i \in blocks[b].start .. blocks[b].end} \ {0}

-----------------------------------------------------------------------------
InitSsa ==
  /\ varBlocks = <<>> /\ globals = {} /\ phis = <<>> /\ left = {} /\ global = 0 /\ work = {}
  /\ code = <<>>
  /\ calls = <<>> /\ stack = <<>> /\ counters = <<>>
  /\ joins = {} /\ setOf = <<>> /\ members = <<>>

MakeGlobalsAndVarBlocks ==
  /\ stage = "globals"
  /\ varBlocks' = [v \in VregsOf(tacs) |-> {b \in Blocks : v \in Writing(b)}]
  /\ globals' = UNION {Reading(b) : b \in Blocks}
  /\ phis' = [b \in Blocks |-> {}]
  /\ left' = globals'
  /\ stage' = "phi"
  /\ UNCHANGED <<flowVars, global, work, code, class, renaming, ranges>>

PlacePhis ==
  /\ stage = "phi"
  /\ Phi!PhiNext
  /\ UNCHANGED <<flowVars, stage, code, class, renaming, ranges>>

(* One argument for each edge to the block, to be given a subscript.       *)
PhiTac(v, b) ==
  [op |-> "IR_PHI_FUNCTION", dst |-> v, src1 |-> 0, src2 |-> 0, label |-> 0, target |-> 0,
   pregs |-> NoPregs, subs |-> NoSubs, args |-> [k \in 1 .. Cardinality(EdgesTo(b)) |-> -1]]
PhiTacs(b) ==
  [k \in 1 .. Cardinality(phis[b]) |->
    PhiTac(CHOOSE v \in phis[b] : Cardinality({u \in phis[b] : u < v}) = k - 1, b)]

InsertPhis ==
  /\ stage = "phi"
  /\ Phi!InsertionDone
  /\ code' = [b \in Blocks |-> PhiTacs(b) \o SubSeq(tacs, blocks[b].start, blocks[b].end)]
  /\ stack' = [v \in VregsOf(tacs) |-> <<>>]
  /\ counters' = [v \in VregsOf(tacs) |-> 0]
  /\ stage' = "rename"
  /\ UNCHANGED <<flowVars, insertion, class, calls, ranges>>

-----------------------------------------------------------------------------
(* rename_vars, for the block b: the tacs are renamed from the first to    *)
(* the last, then the arguments of phi functions in its successors.  The   *)
(* top of a stack comes first.                                             *)
WritesBefore(b, i, v) == Cardinality({j \in 1 .. i - 1 : code[b][j].dst = v})
Writes(b, v) == WritesBefore(b, Len(code[b]) + 1, v)

Unfilled(tac) == tac.op = "IR_PHI_FUNCTION" /\ Contains(tac.args, -1)
ReadsFirst(b, v) ==
  \E i \in 1 .. Len(code[b]) : v \in Operands(code[b][i]) /\ WritesBefore(b, i, v) = 0
PassesOn(b, v) ==
  Writes(b, v) = 0 /\ \E s \in Successors(b) : \E tac \in Range(code[s]) : tac.dst = v /\ Unfilled(tac)

(* safe_stack_top: a vreg that is asked for and was never written gets a   *)
(* subscript as well.                                                      *)
Undefined(b, v) == IF stack[v] = <<>> /\ (ReadsFirst(b, v) \/ PassesOn(b, v)) THEN 1 ELSE 0

(* The top of the stack of v after n writes in b. *)
Top(b, v, n) ==
  IF n > 0 THEN counters[v] + Undefined(b, v) + n - 1
  ELSE IF stack[v] = <<>> THEN counters[v] ELSE Head(stack[v])

Subscripts(b, i) ==
  LET tac == code[b][i]
      read(v) == IF v = 0 THEN -1 ELSE Top(b, v, WritesBefore(b, i, v))
  IN [dst |-> IF tac.dst = 0 THEN -1 ELSE Top(b, tac.dst, WritesBefore(b, i, tac.dst) + 1),
      src1 |-> read(tac.src1), src2 |-> read(tac.src2)]
RenamedBlock(b) == [i \in 1 .. Len(code[b]) |-> [code[b][i] EXCEPT !.subs = Subscripts(b, i)]]

(* For each edge from b the first argument without a subscript is filled:  *)
(* there is no telling which argument is whose.                            *)
Filled(b, s, tac) ==
  LET n == Cardinality({k \in EdgesTo(s) : edges[k][1] = b})
      rank(k) == Cardinality({j \in 1 .. k : tac.args[j] = -1})
  IN IF ~Unfilled(tac) THEN tac
     ELSE [tac EXCEPT !.args = [k \in DOMAIN @ |->
             IF @[k] = -1 /\ rank(k) <= n THEN Top(b, tac.dst, Writes(b, tac.dst)) ELSE @[k]]]

EnterBlock(b, callers) ==
  /\ code' = [c \in Blocks |->
       LET renamed == IF c = b THEN RenamedBlock(b) ELSE code[c]
       IN [i \in 1 .. Len(renamed) |-> Filled(b, c, renamed[i])]]
  /\ counters' = [v \in DOMAIN counters |-> counters[v] + Undefined(b, v) + Writes(b, v)]
  /\ stack' = [v \in DOMAIN stack |->
                 LET n == Undefined(b, v) + Writes(b, v)
                 IN [k \in 1 .. n |-> counters[v] + n - k] \o stack[v]]
  /\ calls' = <<[block |-> b, child |-> -1, found |-> stack]>> \o callers

RenameEntry ==
  /\ stage = "rename"
  /\ calls = <<>>
  /\ EnterBlock(0, <<>>)
  /\ stage' = "renaming"
  /\ UNCHANGED <<flowVars, insertion, class, ranges>>

(* The blocks that the innermost call has still to go into. *)
Children == {b \in Blocks : idom[b] = Head(calls).block /\ b > Head(calls).child}

RenameChild ==
  /\ stage = "renaming"
  /\ calls # <<>>
  /\ \E b \in Children :
       /\ \A c \in Children : b <= c
       /\ EnterBlock(b, <<[Head(calls) EXCEPT !.child = b]>> \o Tail(calls))
  /\ UNCHANGED <<flowVars, stage, insertion, class, ranges>>

(* Slip: the subscripts of phi functions are left on the stack.            *)
LeaveBlockWithPhis ==
  /\ stage = "renaming"
  /\ calls # <<>>
  /\ Children = {}
  /\ LET b == Head(calls).block
         popped(v) == Cardinality({i \in 1 .. Len(code[b]) :
                        code[b][i].dst = v /\ code[b][i].op # "IR_PHI_FUNCTION"})
     IN stack' = [v \in DOMAIN stack |-> SubSeq(stack[v], popped(v) + 1, Len(stack[v]))]
  /\ calls' = Tail(calls)
  /\ UNCHANGED <<flowVars, stage, insertion, code, class, counters, ranges>>

(* Slip: subscripts are given again once they are popped.                  *)
LeaveBlockRestarting ==
  /\ stage = "renaming"
  /\ calls # <<>>
  /\ Children = {}
  /\ LET b == Head(calls).block
     IN /\ stack' = [v \in DOMAIN stack |-> SubSeq(stack[v], Writes(b, v) + 1, Len(stack[v]))]
        /\ counters' = [v \in DOMAIN stack |-> counters[v] - Writes(b, v)]
  /\ calls' = Tail(calls)
  /\ UNCHANGED <<flowVars, stage, insertion, code, class, ranges>>

LeaveBlock ==
  /\ stage = "renaming"
  /\ calls # <<>>
  /\ Children = {}
  /\ stack' = [v \in DOMAIN stack |->
                 SubSeq(stack[v], Writes(Head(calls).block, v) + 1, Len(stack[v]))]
  /\ calls' = Tail(calls)
  /\ UNCHANGED <<flowVars, stage, insertion, code, class, counters, ranges>>

-----------------------------------------------------------------------------
(* make_live_ranges: every name starts in a set of its own, then the sets  *)
(* of the names of a phi function become one, for each phi function.       *)
Name(tac, field) == <<tac[field], tac.subs[field]>>
NamesOf(tac) ==
  {Name(tac, f) : f \in {g \in Fields : tac[g] # 0}}
    \cup (IF tac.op = "IR_PHI_FUNCTION" THEN {<<tac.dst, s>> : s \in Range(tac.args)} ELSE {})
Names(c) == UNION {UNION {NamesOf(c[b][i]) : i \in 1 .. Len(c[b])} : b \in DOMAIN c}
PhisOf(c) == {p \in Positions(c, DOMAIN c) : c[p[1]][p[2]].op = "IR_PHI_FUNCTION"}

MakeSets ==
  /\ stage = "renaming"
  /\ calls = <<>>
  /\ joins' = PhisOf(code)
  /\ setOf' = [n \in Names(code) |-> n]
  /\ members' = [n \in Names(code) |-> {n}]
  /\ stage' = "join"
  /\ UNCHANGED <<flowVars, insertion, code, class, renaming>>

(* Slip: the names that an argument is together with already stay behind.  *)
ArgumentsOnly(phi) == {<<phi.dst, s>> : s \in Range(phi.args)}
WithArguments(phi) == UNION {members[setOf[<<phi.dst, s>>]] : s \in Range(phi.args)}

JoinNames ==
  /\ stage = "join"
  /\ \E p \in joins :
       /\ \A q \in joins : p[1] < q[1] \/ (p[1] = q[1] /\ p[2] <= q[2])
       /\ LET phi == code[p[1]][p[2]]
              set == setOf[Name(phi, "dst")]
              moved == WithArguments(phi)
          IN /\ setOf' = [n \in DOMAIN setOf |-> IF n \in moved THEN set ELSE setOf[n]]
             /\ members' = [members EXCEPT ![set] = @ \cup moved]
       /\ joins' = joins \ {p}
  /\ UNCHANGED <<flowVars, stage, insertion, code, class, renaming>>

(* The sets are numbered by vreg, then subscript, of a name of theirs.     *)
Precedes(m, n) == m[1] < n[1] \/ (m[1] = n[1] /\ m[2] < n[2])
First(set) == CHOOSE m \in set : \A n \in set : ~Precedes(n, m)
LiveRanges ==
  LET firsts == {First(members[setOf[n]]) : n \in DOMAIN setOf}
  IN [n \in DOMAIN setOf |->
        LET first == First(members[setOf[n]])
        IN Offset + 1 + Cardinality({m \in firsts : Precedes(m, first)})]

(* The phi functions, which come first in their block, are removed, and    *)
(* live ranges take the place of vregs (blast_vregs_with_live_ranges).     *)
InRanges(tac, range) ==
  LET of(f) == IF tac[f] = 0 THEN 0 ELSE range[Name(tac, f)]
  IN [op |-> tac.op, dst |-> of("dst"), src1 |-> of("src1"), src2 |-> of("src2"),
      forced |-> {<<of(f), tac.pregs[f]>> : f \in {g \in Fields : tac.pregs[g] # 0}},
      results |-> {}]

MakeLiveRanges ==
  /\ stage = "join"
  /\ joins = {}
  /\ LET range == LiveRanges
     IN /\ code' = [b \in Blocks |->
               LET rest == SubSeq(code[b], Cardinality(phis[b]) + 1, Len(code[b]))
               IN [i \in 1 .. Len(rest) |-> InRanges(rest[i], range)]]
        /\ class' = [r \in Range(range) |-> class[(CHOOSE n \in DOMAIN range : range[n] = r)[1]]]
  /\ stage' = "ranges"
  /\ UNCHANGED <<flowVars, insertion, renaming, ranges>>

SsaNext ==
  \/ FlowNext /\ UNCHANGED <<insertion, code, class, renaming, ranges>>
  \/ MakeGlobalsAndVarBlocks
  \/ PlacePhis
  \/ InsertPhis
  \/ RenameEntry
  \/ RenameChild
  \/ LeaveBlock
  \/ MakeSets
  \/ JoinNames
  \/ MakeLiveRanges

-----------------------------------------------------------------------------
(* The work list of insert_phi_functions ends where the definition of the  *)
(* iterated dominance frontier does: see PhiInsertion.                     *)
PhisAreLeast == stage = "phi" => Phi!PhisAreLeast

(* When rename_vars returns from a block, its caller finds the stacks as   *)
(* it left them, though subscripts are popped by the writes of the block   *)
(* and safe_stack_top pushes some without a write: one such subscript may  *)
(* remain, at the bottom.                                                  *)
LeavesStackAsFound ==
  [][(stage = "renaming" /\ Len(calls') < Len(calls)) =>
       \A v \in DOMAIN stack :
         \/ stack'[v] = Head(calls).found[v]
         \/ Head(calls).found[v] = <<>> /\ Len(stack'[v]) = 1]_ssaVars

(* In the renamed code no name is written twice, and a name that is read   *)
(* and written is written before: earlier in the block, or in a block that *)
(* dominates it.                                                           *)
Writers(n) ==
  {w \in Positions(code, Reached) :
     code[w[1]][w[2]].dst # 0 /\ Name(code[w[1]][w[2]], "dst") = n}
Comes(w, r) == IF w[1] = r[1] THEN w[2] < r[2] ELSE w[1] \in Dominators(r[1])
SingleAssignment ==
  (stage = "renaming" /\ calls = <<>>) =>
    /\ \A n \in Names(code) : Cardinality(Writers(n)) <= 1
    /\ \A b \in Reached : \A i \in DOMAIN code[b] :
         \A f \in {g \in {"src1", "src2"} : code[b][i][g] # 0} :
           \A w \in Writers(Name(code[b][i], f)) : Comes(w, <<b, i>>)
=============================================================================
