----------------------- MODULE MCRegisterAllocation -------------------------
(***************************************************************************)
(* Instances of RegisterAllocation for TLC.                                *)
(***************************************************************************)
EXTENDS RegisterAllocation, TLC

(* Two integer registers (vregs 1, 2), one xmm register (3), three live    *)
(* ranges (4, 5, 6).                                                       *)
MCVregCount == NumInt + NumSse + 3
MCPregMap == (0 :> 0) @@ (1 :> 3) @@ (2 :> 16)

(* All live ranges may interfere with each other, one with itself, and     *)
(* some with a register that is clobbered.                                 *)
MCEdges == {<<1, 4>>, <<3, 4>>, <<4, 5>>, <<4, 6>>, <<5, 6>>, <<6, 6>>}

(* The registers of the real machine, in the order of the reserved vregs:  *)
(* rax rbx rcx rdx rsi rdi r8 r9 r12 r13 r14 r15 xmm0 .. xmm13.            *)
X86IntRegisters == <<0, 1, 2, 3, 4, 5, 8, 9, 12, 13, 14, 15>>
X86PregMap == [i \in 0 .. 25 |-> IF i < 12 THEN X86IntRegisters[i + 1] ELSE 16 + i - 12]

(* rsp, rbp, and r10, r11, xmm14 and xmm15, which spill code and codegen   *)
(* use on their own, are never allocated.                                  *)
ASSUME X86MapAssumption ==
  /\ \A i, j \in DOMAIN X86PregMap : X86PregMap[i] = X86PregMap[j] => i = j
  /\ \A i \in DOMAIN X86PregMap : X86PregMap[i] \notin {6, 7, 10, 11, 30, 31}
=============================================================================
