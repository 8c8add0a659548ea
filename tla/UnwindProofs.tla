---------------------------- MODULE UnwindProofs ----------------------------
(***************************************************************************)
(* Proofs about the unwinder's arithmetic and its use of the stacktrace,   *)
(* for any address width, word size, maps and depth.                       *)
(***************************************************************************)
EXTENDS Unwind, TLAPS

\* u64 arithmetic on two addresses wraps at most once.
LEMMA AddWraps ==
  ASSUME NEW x \in Addr, NEW y \in Addr
  PROVE  /\ Add(x, y) \in Addr
         /\ Add(x, y) = IF x + y < U64 THEN x + y ELSE x + y - U64
<1>1. U64 \in Nat \ {0}
  BY UnwindAssumption
<1>2. CASE x + y < U64
  BY <1>1, <1>2 DEF Add, Addr
<1>3. CASE x + y >= U64
  <2>1. x + y - U64 \in 0 .. U64 - 1
    BY <1>1, <1>3 DEF Addr
  <2>2. (x + y) % U64 = x + y - U64
    BY <1>1, <2>1 DEF Addr
  <2> QED BY <1>1, <1>3, <2>1, <2>2 DEF Add, Addr
<1> QED BY <1>1, <1>2, <1>3 DEF Addr

\* Unsigned subtraction, with and without a borrow.
LEMMA SubWraps ==
  ASSUME NEW x \in Addr, NEW y \in Addr
  PROVE  /\ Sub(x, y) \in Addr
         /\ Sub(x, y) = IF x >= y THEN x - y ELSE x - y + U64
<1>1. U64 \in Nat \ {0}
  BY UnwindAssumption
<1>2. CASE x >= y
  BY <1>1, <1>2 DEF Sub, Addr
<1>3. CASE x < y
  <2>1. x - y + U64 \in 0 .. U64 - 1
    BY <1>1, <1>3 DEF Addr
  <2>2. (x - y) % U64 = x - y + U64
    BY <1>1, <2>1 DEF Addr
  <2> QED BY <1>1, <1>3, <2>1, <2>2 DEF Sub, Addr
<1> QED BY <1>1, <1>2, <1>3 DEF Addr

\* A word that passes access_mem's tests lies inside the captured bytes.
LEMMA CaptureBound ==
  ASSUME NEW sp \in Addr, NEW size \in 0 .. STACK_SIZE, NEW addr \in Addr,
         size > 0, ~(Add(addr, WORD) < addr), InCapture(sp, size, addr)
  PROVE  Sub(addr, sp) >= 0 /\ Sub(addr, sp) + WORD <= size
<1>1. WORD \in Addr /\ size \in Addr
  BY UnwindAssumption DEF Addr
<1>2. Add(addr, WORD) = addr + WORD
  BY <1>1, AddWraps, UnwindAssumption DEF Addr
<1>3. addr >= sp /\ addr + WORD < Add(sp, size)
  BY <1>1, <1>2, AddWraps, UnwindAssumption DEF InCapture, Addr
<1>4. Add(sp, size) <= sp + size
  BY <1>1, AddWraps, UnwindAssumption DEF Addr
<1>5. Sub(addr, sp) = addr - sp
  BY <1>3, SubWraps
<1> QED BY <1>1, <1>3, <1>4, <1>5, AddWraps, UnwindAssumption DEF Addr

\* Adding the load bias and map_ip are inverse.
LEMMA BiasInverse ==
  ASSUME NEW start \in Addr, NEW pgoff \in Addr, NEW file \in Addr
  PROVE  Add(Sub(Sub(Add(start, file), pgoff), start), pgoff) = file
<1> DEFINE a == Add(start, file)
           b == Sub(a, pgoff)
           c == Sub(b, start)
<1>1. a \in Addr /\ a = IF start + file < U64 THEN start + file ELSE start + file - U64
  BY AddWraps
<1>2. b \in Addr /\ b = IF a >= pgoff THEN a - pgoff ELSE a - pgoff + U64
  BY <1>1, SubWraps
<1>3. c \in Addr /\ c = IF b >= start THEN b - start ELSE b - start + U64
  BY <1>2, SubWraps
<1>4. Add(c, pgoff) = IF c + pgoff < U64 THEN c + pgoff ELSE c + pgoff - U64
  BY <1>3, AddWraps
<1> HIDE DEF a, b, c
<1>5. Add(c, pgoff) = file
  BY <1>1, <1>2, <1>3, <1>4, UnwindAssumption DEF Addr
<1> QED BY <1>5 DEF a, b, c

\* A displacement inside the header survives the load bias.
LEMMA BiasKeepsDistance ==
  ASSUME NEW start \in Addr, NEW pgoff \in Addr, NEW off \in Addr, NEW n \in 0 .. HDR_SIZE
  PROVE  Sub(Sub(Add(start, Add(off, n)), pgoff), Sub(Add(start, off), pgoff)) = n
<1> DEFINE f == Add(off, n)
           a == Add(start, f)
           b == Sub(a, pgoff)
           c == Add(start, off)
           d == Sub(c, pgoff)
<1>0. n \in Addr
  BY UnwindAssumption DEF Addr, HDR_SIZE, HDR_FIXED
<1>1. f \in Addr /\ f = IF off + n < U64 THEN off + n ELSE off + n - U64
  BY <1>0, AddWraps
<1>2. a \in Addr /\ a = IF start + f < U64 THEN start + f ELSE start + f - U64
  BY <1>1, AddWraps
<1>3. b \in Addr /\ b = IF a >= pgoff THEN a - pgoff ELSE a - pgoff + U64
  BY <1>2, SubWraps
<1>4. c \in Addr /\ c = IF start + off < U64 THEN start + off ELSE start + off - U64
  BY AddWraps
<1>5. d \in Addr /\ d = IF c >= pgoff THEN c - pgoff ELSE c - pgoff + U64
  BY <1>4, SubWraps
<1>6. Sub(b, d) = IF b >= d THEN b - d ELSE b - d + U64
  BY <1>3, <1>5, SubWraps
<1> HIDE DEF a, b, c, d, f
<1>7. Sub(b, d) = n
  BY <1>0, <1>1, <1>2, <1>3, <1>4, <1>5, <1>6, UnwindAssumption DEF Addr
<1> QED BY <1>7 DEF a, b, c, d, f

\* __dw_read_encoded_value consumes nothing, 4 or 8 bytes, or fails.
LEMMA EncodedSizes == \A e \in 0 .. 255 : EncodedSize(e) \in {-1, 0, 4, 8}
BY DEF EncodedSize

\* dw_read's test against the end of the header never fires: two encoded
\* values of any encoding fit ("A single encoded pointer should not be more
\* than 8 bytes").
THEOREM HeaderFits ==
  \A e1, e2 \in 0 .. 255 :
    unwind_spec_ehframe(e1, e2) =
      IF EncodedSize(e1) < 0 \/ EncodedSize(e2) < 0 THEN -1
      ELSE HDR_FIXED + EncodedSize(e1) + EncodedSize(e2)
BY EncodedSizes DEF unwind_spec_ehframe, ReadEncoded, HDR_FIXED, HDR_SIZE

\* unwind_spec_ehframe fails or ends inside the header it has read.
LEMMA TableInHeader ==
  ASSUME NEW e1 \in 0 .. 255, NEW e2 \in 0 .. 255
  PROVE  unwind_spec_ehframe(e1, e2) \in {-1} \cup (HDR_FIXED .. HDR_SIZE)
BY EncodedSizes DEF unwind_spec_ehframe, ReadEncoded, HDR_FIXED, HDR_SIZE
-----------------------------------------------------------------------------
\* What elf_section_offset returns is 0 or where a .eh_frame_hdr section is.
IsHeader(d, off) == \E k \in 1 .. Len(Section[d]) :
                      Section[d][k].name = ".eh_frame_hdr" /\ off = Section[d][k].sh_offset

LEMMA SectionFound ==
  ASSUME NEW d \in Dso
  PROVE  /\ elf_section_offset(d) \in Addr
         /\ elf_section_offset(d) # 0 => IsHeader(d, elf_section_offset(d))
<1> DEFINE K == elf_section_by_name(d, ".eh_frame_hdr")
           k == CHOOSE j \in K : TRUE
<1>1. CASE K = {}
  BY <1>1, UnwindAssumption DEF elf_section_offset, Addr
<1>2. CASE K # {}
  <2>1. k \in K
    BY <1>2
  <2>2. elf_section_offset(d) = Section[d][k].sh_offset
    BY <1>2 DEF elf_section_offset
  <2> HIDE DEF k
  <2>3. k \in 1 .. Len(Section[d]) /\ Section[d][k].name = ".eh_frame_hdr"
    BY <2>1 DEF elf_section_by_name
  <2>4. Section[d][k].sh_offset \in Addr
    <3>1. Section[d] \in Seq(SectionHeader)
      BY SectionAssumption
    <3>2. Section[d][k] \in SectionHeader
      BY <2>3, <3>1
    <3> QED BY <3>2 DEF SectionHeader
  <2> QED BY <2>2, <2>3, <2>4 DEF IsHeader
<1> QED BY <1>1, <1>2

\* access_reg's tables lead from each of libunwind's numbers to its own field.
LEMMA RegisterTables ==
  ASSUME NEW regnum \in 0 .. Len(unw_regs), InTable(LIBUNWIND__ARCH_REG_ID(regnum))
  PROVE  LET off == pt_regs_offset[LIBUNWIND__ARCH_REG_ID(regnum) + 1]
         IN  off >= 0 /\ off % 8 = 0 /\ pt_regs[off \div 8 + 1] = unw_regs[regnum + 1]
<1>1. Len(unw_regs) = 17 /\ Len(pt_regs_offset) = 24
  BY DEF unw_regs, pt_regs_offset
<1>2. regnum \in 0 .. 16
  BY <1>1 DEF InTable, LIBUNWIND__ARCH_REG_ID
<1> DEFINE id == <<0, 3, 2, 1, 4, 5, 6, 7, 16, 17, 18, 19, 20, 21, 22, 23, 8>>
           off == <<80, 96, 88, 40, 104, 112, 32, 152, 72, 64, 56, 48, 24, 16, 8, 0, 128>>
<1>3. LIBUNWIND__ARCH_REG_ID(regnum) = id[regnum + 1]
  BY <1>2 DEF LIBUNWIND__ARCH_REG_ID
<1>4. pt_regs_offset[id[regnum + 1] + 1] = off[regnum + 1]
  <2>1. /\ pt_regs_offset[1] = 80 /\ pt_regs_offset[4] = 96 /\ pt_regs_offset[3] = 88
        /\ pt_regs_offset[2] = 40 /\ pt_regs_offset[5] = 104 /\ pt_regs_offset[6] = 112
        /\ pt_regs_offset[7] = 32 /\ pt_regs_offset[8] = 152 /\ pt_regs_offset[17] = 72
        /\ pt_regs_offset[18] = 64 /\ pt_regs_offset[19] = 56 /\ pt_regs_offset[20] = 48
        /\ pt_regs_offset[21] = 24 /\ pt_regs_offset[22] = 16 /\ pt_regs_offset[23] = 8
        /\ pt_regs_offset[24] = 0 /\ pt_regs_offset[9] = 128
    BY DEF pt_regs_offset
  <2>2. /\ id[1] = 0 /\ id[2] = 3 /\ id[3] = 2 /\ id[4] = 1 /\ id[5] = 4 /\ id[6] = 5
        /\ id[7] = 6 /\ id[8] = 7 /\ id[9] = 16 /\ id[10] = 17 /\ id[11] = 18 /\ id[12] = 19
        /\ id[13] = 20 /\ id[14] = 21 /\ id[15] = 22 /\ id[16] = 23 /\ id[17] = 8
    OBVIOUS
  <2>3. /\ off[1] = 80 /\ off[2] = 96 /\ off[3] = 88 /\ off[4] = 40 /\ off[5] = 104 /\ off[6] = 112
        /\ off[7] = 32 /\ off[8] = 152 /\ off[9] = 72 /\ off[10] = 64 /\ off[11] = 56 /\ off[12] = 48
        /\ off[13] = 24 /\ off[14] = 16 /\ off[15] = 8 /\ off[16] = 0 /\ off[17] = 128
    OBVIOUS
  <2> HIDE DEF id, off
  <2>4. /\ pt_regs_offset[id[1] + 1] = off[1] /\ pt_regs_offset[id[2] + 1] = off[2]
        /\ pt_regs_offset[id[3] + 1] = off[3] /\ pt_regs_offset[id[4] + 1] = off[4]
        /\ pt_regs_offset[id[5] + 1] = off[5] /\ pt_regs_offset[id[6] + 1] = off[6]
        /\ pt_regs_offset[id[7] + 1] = off[7] /\ pt_regs_offset[id[8] + 1] = off[8]
        /\ pt_regs_offset[id[9] + 1] = off[9] /\ pt_regs_offset[id[10] + 1] = off[10]
        /\ pt_regs_offset[id[11] + 1] = off[11] /\ pt_regs_offset[id[12] + 1] = off[12]
        /\ pt_regs_offset[id[13] + 1] = off[13] /\ pt_regs_offset[id[14] + 1] = off[14]
        /\ pt_regs_offset[id[15] + 1] = off[15] /\ pt_regs_offset[id[16] + 1] = off[16]
        /\ pt_regs_offset[id[17] + 1] = off[17]
    BY <2>1, <2>2, <2>3
  <2>5. PICK n \in {1, 2, 3, 4, 5, 6, 7, 8, 9, 10, 11, 12, 13, 14, 15, 16, 17} : regnum + 1 = n
    BY <1>2
  <2>6. pt_regs_offset[id[n] + 1] = off[n]
    BY <2>4, <2>5, Zenon
  <2> QED BY <2>5, <2>6
<1>5. /\ off[regnum + 1] >= 0 /\ off[regnum + 1] % 8 = 0
      /\ pt_regs[off[regnum + 1] \div 8 + 1] = unw_regs[regnum + 1]
  BY <1>2 DEF pt_regs, unw_regs
<1> QED BY <1>3, <1>4, <1>5

\* While the cursor walks, the frames stored so far are this call's and there
\* is at least one; a finished trace consists of this call's frames.
FramesInv ==
  /\ pc = "step" => i >= 1 /\ i <= depth /\ \A k \in 0 .. i - 1 : ips[k] = calls
  /\ ReportedFramesAreFresh

\* A cached header offset is one.
CachedInv == \A d \in Dso : eho[d] # 0 => IsHeader(d, eho[d])

UnwindInv == TypeOK /\ FramesInv /\ CachedInv /\ StackReadsInCapture /\ TableReadsBack
             /\ RegistersAreTheirs

\* The invariant holds before the first context.
LEMMA UnwindInvInit == Init => UnwindInv
<1> SUFFICES ASSUME Init PROVE UnwindInv
  OBVIOUS
<1>1. uc \in [sp : Addr, size : 0 .. STACK_SIZE] /\ eho \in [Dso -> Addr]
  BY UnwindAssumption DEF Init, Addr
<1>2. /\ pc \in {"idle", "step", "exited"} /\ ret \in {0, 1}
      /\ depth \in 0 .. MaxDepth /\ i \in 0 .. MaxDepth /\ calls \in 0 .. MaxCalls
      /\ ips \in [Slot -> 0 .. MaxCalls]
  BY UnwindAssumption DEF Init
<1>3. aspace \in BOOLEAN
  BY DEF Init
<1>4. TypeOK
  BY <1>1, <1>2, <1>3 DEF TypeOK
<1>5. FramesInv /\ CachedInv /\ StackReadsInCapture /\ TableReadsBack /\ RegistersAreTheirs
  BY DEF Init, FramesInv, CachedInv, ReportedFramesAreFresh, StackReadsInCapture,
         TableReadsBack, RegistersAreTheirs, Nothing
<1> QED BY <1>4, <1>5 DEF UnwindInv

\* Every callback and every step of get_entries keeps the invariant.
LEMMA UnwindInvNext == UnwindInv /\ [Next]_vars => UnwindInv'
<1> SUFFICES ASSUME UnwindInv, [Next]_vars PROVE UnwindInv'
  OBVIOUS
<1> USE UnwindAssumption DEF UnwindInv
<1>1. ASSUME NEW sp \in Sp, NEW size \in 0 .. STACK_SIZE, NEW as \in BOOLEAN,
             NEW init \in BOOLEAN, resolve_callchain(sp, size, as, init)
      PROVE  UnwindInv'
  <2>1. /\ calls \in 0 .. MaxCalls /\ calls < MaxCalls /\ calls' = calls + 1
        /\ uc' = [sp |-> sp, size |-> size] /\ aspace' = (aspace \/ as)
        /\ depth \in 0 .. MaxDepth /\ i \in 0 .. MaxDepth /\ eho' = eho
        /\ ips \in [Slot -> 0 .. MaxCalls]
    BY <1>1 DEF resolve_callchain, TypeOK
  <2>2. uc' \in [sp : Addr, size : 0 .. STACK_SIZE] /\ aspace' \in BOOLEAN
        /\ eho' \in [Dso -> Addr] /\ calls' \in 0 .. MaxCalls
    <3>1. sp \in Addr
      OBVIOUS
    <3>2. (aspace \/ as) \in BOOLEAN
      OBVIOUS
    <3>3. eho \in [Dso -> Addr]
      BY DEF TypeOK
    <3> QED BY <2>1, <3>1, <3>2, <3>3
  <2>3. ASSUME depth < 1, Return(1, depth), UNCHANGED ips
        PROVE  TypeOK' /\ FramesInv'
    <3>1. depth' = depth /\ i' = i /\ pc' = "exited" /\ ret' = 1 /\ ips' = ips
      BY <2>3 DEF Return
    <3> QED BY <2>1, <2>2, <3>1 DEF TypeOK, FramesInv, ReportedFramesAreFresh
  <2>4. ASSUME depth >= 1, ips' = [ips EXCEPT ![0] = calls + 1],
               Return(1, depth) \/ Return(1, 1)
        PROVE  TypeOK' /\ FramesInv'
    <3>1. depth' \in 0 .. MaxDepth /\ i' \in 0 .. MaxDepth /\ pc' = "exited" /\ ret' = 1
      BY <2>1, <2>4 DEF Return
    <3>2. ips' \in [Slot -> 0 .. MaxCalls]
      <4>1. calls + 1 \in 0 .. MaxCalls
        BY <2>1
      <4> QED BY <2>1, <2>4, <4>1
    <3> QED BY <2>1, <2>2, <3>1, <3>2 DEF TypeOK, FramesInv, ReportedFramesAreFresh
  <2>5. ASSUME depth >= 1, ips' = [ips EXCEPT ![0] = calls + 1],
               pc' = "step", i' = 1, UNCHANGED <<depth, ret>>
        PROVE  TypeOK' /\ FramesInv'
    <3>1. i' \in 0 .. MaxDepth /\ 0 \in Slot
      BY <2>1, <2>5 DEF Slot
    <3>2. ips' \in [Slot -> 0 .. MaxCalls] /\ ips'[0] = calls'
      BY <2>1, <2>5, <3>1
    <3>3. TypeOK'
      <4>1. ret' \in {0, 1} /\ depth' \in 0 .. MaxDepth
        BY <2>1, <2>5 DEF TypeOK
      <4> QED BY <2>2, <2>5, <3>1, <3>2, <4>1 DEF TypeOK
    <3>4. FramesInv'
      BY <2>1, <2>5, <3>1, <3>2 DEF FramesInv, ReportedFramesAreFresh
    <3> QED BY <3>3, <3>4
  <2>6. TypeOK' /\ FramesInv'
    <3>1. \/ depth < 1 /\ Return(1, depth) /\ UNCHANGED ips
          \/ /\ depth >= 1 /\ ips' = [ips EXCEPT ![0] = calls + 1]
             /\ Return(1, depth) \/ Return(1, 1)
          \/ /\ depth >= 1 /\ ips' = [ips EXCEPT ![0] = calls + 1]
             /\ pc' = "step" /\ i' = 1 /\ UNCHANGED <<depth, ret>>
      <4>1. depth < 1 \/ depth >= 1
        BY <2>1
      <4>2. depth >= 1 => ~(depth < 1)
        BY <2>1
      <4> QED BY <1>1, <4>1, <4>2, Zenon DEF resolve_callchain
    <3> QED BY <3>1, <2>3, <2>4, <2>5
  <2>7. StackReadsInCapture' /\ TableReadsBack' /\ RegistersAreTheirs'
    BY <1>1 DEF resolve_callchain, Nothing, StackReadsInCapture, TableReadsBack, RegistersAreTheirs
  <2>8. CachedInv'
    BY <2>1 DEF CachedInv
  <2> QED BY <2>6, <2>7, <2>8
<1>2. ASSUME NEW addr \in Addr, NEW write \in BOOLEAN, access_mem(addr, write)
      PROVE  UnwindInv'
  <2>1. TypeOK'
    BY <1>2 DEF access_mem, TypeOK
  <2>2. FramesInv'
    BY <1>2 DEF access_mem, FramesInv, ReportedFramesAreFresh
  <2>3. uc.sp \in Addr /\ uc.size \in 0 .. STACK_SIZE
    BY DEF TypeOK
  <2>4. \/ out'.from \in {"zero", "none", "dso"}
        \/ /\ out' = [from |-> "stack", off |-> Sub(addr, uc.sp)]
           /\ uc.size > 0 /\ ~(Add(addr, WORD) < addr) /\ InCapture(uc.sp, uc.size, addr)
    BY <1>2, <2>3 DEF access_mem, ReadWord, Zero, Nothing
  <2>5. StackReadsInCapture'
    BY <1>2, <2>3, <2>4, CaptureBound DEF access_mem, StackReadsInCapture
  <2>6. TableReadsBack' /\ RegistersAreTheirs'
    BY <2>4 DEF TableReadsBack, RegistersAreTheirs
  <2>7. CachedInv'
    BY <1>2 DEF access_mem, CachedInv
  <2> QED BY <2>1, <2>2, <2>5, <2>6, <2>7
<1>3. ASSUME NEW ip \in Ip, NEW e1 \in Encoding, NEW e2 \in Encoding,
             NEW elf \in BOOLEAN, NEW whole \in BOOLEAN,
             find_proc_info(ip, e1, e2, elf, whole)
      PROVE  UnwindInv'
  <2>1. FramesInv'
    BY <1>3 DEF find_proc_info, FramesInv, ReportedFramesAreFresh
  <2>2. CASE find_map(ip) = {}
    <3>1. out' = Nothing /\ eho' = eho /\ TypeOK'
      BY <1>3, <2>2 DEF find_proc_info, TypeOK
    <3> QED BY <2>1, <3>1 DEF CachedInv, Nothing, StackReadsInCapture, TableReadsBack,
                              RegistersAreTheirs
  <2>3. CASE find_map(ip) # {}
    <3> DEFINE Off(q)   == IF eho[q.dso] # 0 THEN eho[q.dso]
                           ELSE IF elf THEN elf_section_offset(q.dso) ELSE 0
               table    == unwind_spec_ehframe(e1, e2)
    <3>1. PICK q \in find_map(ip) :
            /\ eho' = [eho EXCEPT ![q.dso] = Off(q)]
            /\ out' = IF Off(q) = 0 \/ ~whole \/ table < 0 THEN Nothing
                      ELSE [from |-> "table", map |-> q,
                            segbase |-> Sub(Add(q.start, Off(q)), q.pgoff),
                            table_data |-> Sub(Add(q.start, Add(Off(q), table)), q.pgoff),
                            file |-> Add(Off(q), table)]
      BY <1>3, <2>3 DEF find_proc_info
    <3>2. q.start \in Addr /\ q.pgoff \in Addr /\ q.dso \in Dso
      BY <3>1 DEF find_map
    <3>3. Off(q) \in Addr /\ (Off(q) # 0 => IsHeader(q.dso, Off(q)))
      BY <3>2, SectionFound DEF TypeOK, CachedInv, Addr
    <3>4. TypeOK'
      BY <1>3, <3>1, <3>2, <3>3 DEF find_proc_info, TypeOK
    <3>5. table \in {-1} \cup (HDR_FIXED .. HDR_SIZE)
      BY TableInHeader
    <3> HIDE DEF Off, table
    <3>8. CachedInv'
      BY <3>1, <3>2, <3>3 DEF CachedInv, TypeOK
    <3>6. CASE Off(q) = 0 \/ ~whole \/ table < 0
      BY <2>1, <3>1, <3>4, <3>6, <3>8
         DEF Nothing, StackReadsInCapture, TableReadsBack, RegistersAreTheirs
    <3>7. CASE ~(Off(q) = 0 \/ ~whole \/ table < 0)
      <4>1. table \in HDR_FIXED .. HDR_SIZE /\ table \in 0 .. HDR_SIZE /\ table \in Addr
        BY <3>5, <3>7 DEF HDR_FIXED, HDR_SIZE, Addr
      <4>2. Add(Off(q), table) \in Addr
        BY <3>3, <4>1, AddWraps
      <4>3. map_ip(q, out'.table_data) = out'.file
        BY <3>1, <3>2, <3>7, <4>2, BiasInverse DEF map_ip
      <4>4. Sub(out'.table_data, out'.segbase) = table
        <5>1. /\ out'.table_data = Sub(Add(q.start, Add(Off(q), table)), q.pgoff)
              /\ out'.segbase = Sub(Add(q.start, Off(q)), q.pgoff)
          BY <3>1, <3>7
        <5>2. Sub(Sub(Add(q.start, Add(Off(q), table)), q.pgoff),
                  Sub(Add(q.start, Off(q)), q.pgoff)) = table
          BY <3>2, <3>3, <4>1, BiasKeepsDistance
        <5> QED BY <5>1, <5>2
      <4>5. out'.from = "table" /\ out'.map = q
        BY <3>1, <3>7
      <4>6. map_ip(q, out'.segbase) = Off(q)
        BY <3>1, <3>2, <3>3, <3>7, BiasInverse DEF map_ip
      <4>7. TableReadsBack'
        BY <3>3, <3>7, <4>1, <4>3, <4>4, <4>5, <4>6 DEF TableReadsBack, IsHeader
      <4> QED BY <2>1, <3>4, <3>8, <4>5, <4>7 DEF StackReadsInCapture, RegistersAreTheirs
    <3> QED BY <3>6, <3>7
  <2> QED BY <2>2, <2>3
<1>4. CASE StoreFrame
  <2>1. TypeOK'
    BY <1>4 DEF StoreFrame, TypeOK, Slot, FramesInv
  <2>2. FramesInv'
    BY <1>4 DEF StoreFrame, TypeOK, Slot, FramesInv, ReportedFramesAreFresh
  <2>3. CachedInv'
    BY <1>4 DEF StoreFrame, CachedInv
  <2> QED BY <1>4, <2>1, <2>2, <2>3
          DEF StoreFrame, Nothing, StackReadsInCapture, TableReadsBack, RegistersAreTheirs
<1>5. ASSUME NEW found \in BOOLEAN, EndOfFrames(found) PROVE UnwindInv'
  <2>1. TypeOK'
    BY <1>5 DEF EndOfFrames, Return, TypeOK
  <2>2. FramesInv'
    BY <1>5 DEF EndOfFrames, Return, TypeOK, FramesInv, ReportedFramesAreFresh
  <2>3. CachedInv'
    BY <1>5 DEF EndOfFrames, CachedInv
  <2> QED BY <1>5, <2>1, <2>2, <2>3
          DEF EndOfFrames, Nothing, StackReadsInCapture, TableReadsBack, RegistersAreTheirs
<1>6. CASE UNCHANGED vars
  <2>1. TypeOK' /\ FramesInv' /\ CachedInv'
    BY <1>6 DEF vars, TypeOK, FramesInv, CachedInv, ReportedFramesAreFresh
  <2> QED BY <1>6, <2>1 DEF vars, StackReadsInCapture, TableReadsBack, RegistersAreTheirs
<1>7. ASSUME NEW regnum \in 0 .. Len(unw_regs), NEW write \in BOOLEAN, access_reg(regnum, write)
      PROVE  UnwindInv'
  <2>1. /\ pc = "step" /\ pc' \in {"step", "exited"}
        /\ UNCHANGED <<depth, ips, i, calls, uc, aspace, ret, eho>>
    BY <1>7 DEF access_reg
  <2>2. TypeOK' /\ FramesInv' /\ CachedInv'
    BY <2>1 DEF TypeOK, FramesInv, CachedInv, ReportedFramesAreFresh
  <2> DEFINE id == LIBUNWIND__ARCH_REG_ID(regnum)
  <2>3. CASE ~write /\ InTable(id)
    <3>1. out' = [from |-> "reg", regnum |-> regnum, off |-> pt_regs_offset[id + 1]]
      BY <1>7, <2>3 DEF access_reg
    <3>2. RegistersAreTheirs'
      BY <2>3, <3>1, RegisterTables DEF RegistersAreTheirs
    <3> QED BY <2>2, <3>1, <3>2 DEF StackReadsInCapture, TableReadsBack
  <2>4. CASE ~(~write /\ InTable(id))
    <3>1. out' = Nothing
      BY <1>7, <2>4 DEF access_reg
    <3> QED BY <2>2, <3>1 DEF Nothing, StackReadsInCapture, TableReadsBack, RegistersAreTheirs
  <2> QED BY <2>3, <2>4
<1>8. CASE unsupported
  <2>1. TypeOK' /\ FramesInv' /\ CachedInv'
    BY <1>8 DEF unsupported, TypeOK, FramesInv, CachedInv, ReportedFramesAreFresh
  <2> QED BY <1>8, <2>1
          DEF unsupported, Nothing, StackReadsInCapture, TableReadsBack, RegistersAreTheirs
<1> QED BY <1>1, <1>2, <1>3, <1>4, <1>5, <1>6, <1>7, <1>8 DEF Next, unw_step

\* The invariant holds whatever libunwind asks and answers.
THEOREM UnwindInvariant == Spec => []UnwindInv
BY UnwindInvInit, UnwindInvNext, PTL DEF Spec

\* get_entries keeps st->depth within the caller's array and never writes past
\* it, for every MaxDepth (0 included) and any sequence of contexts.
THEOREM WritesStayInArray == Spec => []TypeOK
BY UnwindInvariant, PTL DEF UnwindInv

\* access_mem reads only captured bytes, for every width of the address space.
THEOREM StackReadsAreCaptured == Spec => []StackReadsInCapture
BY UnwindInvariant, PTL DEF UnwindInv

\* No stale frame is reported by a successful get_entries.
THEOREM FramesAreFresh == Spec => []ReportedFramesAreFresh
BY UnwindInvariant, PTL DEF UnwindInv, FramesInv

\* The unwind table's address leads back to its place in the file.
THEOREM TablesReadBack == Spec => []TableReadsBack
BY UnwindInvariant, PTL DEF UnwindInv

\* access_reg returns the register that was asked for.
THEOREM RegistersMatch == Spec => []RegistersAreTheirs
BY UnwindInvariant, PTL DEF UnwindInv

\* st->depth never grows: a short trace shortens all later ones.
THEOREM DepthShrinks == Spec => DepthNeverGrows
<1>1. UnwindInv /\ [Next]_vars => [depth' <= depth]_vars
  <2> SUFFICES ASSUME UnwindInv, Next PROVE depth' <= depth
    BY DEF vars
  <2>1. depth \in Nat /\ i \in Nat /\ (pc = "step" => i <= depth)
    BY UnwindAssumption DEF UnwindInv, TypeOK, FramesInv
  <2> QED BY <2>1
          DEF Next, unw_step, StoreFrame, EndOfFrames, Return, resolve_callchain,
              access_mem, find_proc_info, access_reg, unsupported
<1> QED BY <1>1, UnwindInvariant, PTL DEF Spec, DepthNeverGrows
=============================================================================
