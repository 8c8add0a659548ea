------------------------------- MODULE Unwind -------------------------------
(***************************************************************************)
(* Unwinding one captured context after another (unwind_libunwind.c):      *)
(* get_entries drives libunwind's cursor and fills the caller's            *)
(* stacktrace; while unw_step runs, libunwind calls back for memory        *)
(* (access_mem), registers (access_reg) and unwind tables (find_proc_info). *)
(*                                                                         *)
(* libunwind itself is external: during a step it makes any callbacks, at  *)
(* any addresses, and then says whether there is one more frame. Memory    *)
(* words have no contents here, only a provenance: a place in the captured *)
(* stack or an offset in a dso.                                            *)
(***************************************************************************)
EXTENDS Integers, Sequences

CONSTANTS
  U64,         \* 2^64: addresses are 0 .. U64 - 1 and wrap around
  WORD,        \* sizeof(unw_word_t)
  STACK_SIZE,  \* bytes of stack a context can hold
  Sp,          \* stack pointers a context can carry
  Ip,          \* code addresses libunwind asks about
  Map,         \* the thread's maps: records [start, end, pgoff, dso]
  Section,     \* dso -> the sections of its file, in order: name and sh_offset
  Encoding,    \* pointer encodings a header can use (bytes)
  MaxDepth,    \* the caller's first st->depth and the length of st->ips
  MaxCalls     \* bound on resolved contexts

\* struct eh_frame_hdr: four bytes and enc[2].
HDR_FIXED == 4
HDR_SIZE == HDR_FIXED + 16

Addr == 0 .. U64 - 1
Dso == {q.dso : q \in Map}

ASSUME UnwindAssumption ==
  /\ U64 \in Nat /\ WORD \in Nat \ {0} /\ STACK_SIZE \in Nat /\ MaxDepth \in Nat
  /\ MaxCalls \in Nat
  /\ HDR_SIZE < U64 /\ WORD < U64 /\ STACK_SIZE < U64 /\ Sp \subseteq Addr /\ Ip \subseteq Addr
  /\ Map \subseteq [start : Addr, end : Addr, pgoff : Addr, dso : Dso]
  /\ Encoding \subseteq 0 .. 255

SectionHeader == [name : STRING, sh_offset : Addr]

ASSUME SectionAssumption == Section \in [Dso -> Seq(SectionHeader)]

VARIABLES
  pc,      \* idle, step (unw_step is running), exited (the caller called exit)
  depth,   \* st->depth
  ips,     \* st->ips: for each slot the number of the call that wrote it
  i,       \* get_entries' index of the next slot
  calls,   \* contexts resolved so far
  uc,      \* the context being resolved: sp and size
  aspace,  \* thread->addr_space exists
  ret,     \* return value of the last get_entries: 0 or an error
  out,     \* what the last callback handed to libunwind
  eho      \* dso->data.eh_frame_hdr_offset of every dso

vars == <<pc, depth, ips, i, calls, uc, aspace, ret, out, eho>>

Slot == 0 .. MaxDepth - 1
Nothing == [from |-> "none"]
Zero == [from |-> "zero"]

Init ==
  /\ pc = "idle" /\ depth = MaxDepth /\ ips = [k \in Slot |-> 0] /\ i = 0
  /\ calls = 0 /\ uc = [sp |-> 0, size |-> 0] /\ aspace = FALSE /\ ret = 0
  /\ out = Nothing /\ eho = [d \in Dso |-> 0]
-----------------------------------------------------------------------------
(***************************************************************************)
(* Addresses.                                                              *)
(***************************************************************************)
Add(x, y) == (x + y) % U64
Sub(x, y) == (x - y) % U64

\* Mutant: the file offset of the map is left out.
Mutant_map_ip(q, ip) == Sub(ip, q.start)

map_ip(q, ip) == Add(Sub(ip, q.start), q.pgoff)

find_map(ip) == {q \in Map : q.start <= ip /\ ip < q.end}

\* Mutant: only the first byte of the word is tested.
Mutant_InCapture(sp, size, addr) == ~(addr < sp \/ addr >= Add(sp, size))

\* The word at addr comes from the captured stack: access_mem's two tests.
InCapture(sp, size, addr) ==
  ~(addr < sp \/ Add(addr, WORD) >= Add(sp, size))

\* The outcomes of access_mem(addr) for a read. A word of a dso is delivered
\* when the whole word could be read from the file; otherwise *valp is 0. An address whose
\* word wraps around is refused and *valp is left alone.
ReadWord(sp, size, addr) ==
  IF size <= 0 THEN {Zero}
  ELSE IF Add(addr, WORD) < addr THEN {Nothing}
  ELSE IF InCapture(sp, size, addr)
  THEN {[from |-> "stack", off |-> Sub(addr, sp)]}
  ELSE {Zero} \cup {[from |-> "dso", dso |-> q.dso, off |-> map_ip(q, addr)] :
                      q \in find_map(addr)}

(***************************************************************************)
(* .eh_frame_hdr: two encoded values behind four bytes.                    *)
(***************************************************************************)
\* Bytes that __dw_read_encoded_value consumes, -1 for -EINVAL.
EncodedSize(enc) ==
  IF enc = 255 THEN 0
  ELSE IF enc = 0 THEN 8
  ELSE IF (enc \div 16) % 8 \notin {0, 1} THEN -1
  ELSE LET format == IF enc % 8 = 0 THEN (enc % 16) + 3 ELSE enc % 16
       IN  CASE format \in {3, 11} -> 4
             [] format \in {4, 12} -> 8
             [] OTHER -> -1

\* dw_read at position pos of the header, with its test against the end; a
\* value of no bytes is not read.
ReadEncoded(pos, enc) ==
  LET n == EncodedSize(enc)
  IN  IF n < 0 \/ pos + n > HDR_SIZE THEN -1 ELSE pos + n

\* Offset of the binary search table in the header, -1 for an error.
unwind_spec_ehframe(e1, e2) ==
  LET p == ReadEncoded(HDR_FIXED, e1)
  IN  IF p < 0 THEN -1 ELSE ReadEncoded(p, e2)

\* elf_section_by_name stops at the first section of that name.
elf_section_by_name(d, name) ==
  {k \in 1 .. Len(Section[d]) :
     Section[d][k].name = name /\ \A l \in 1 .. k - 1 : Section[d][l].name # name}

\* 0 when there is none.
elf_section_offset(d) ==
  IF elf_section_by_name(d, ".eh_frame_hdr") = {} THEN 0
  ELSE Section[d][CHOOSE k \in elf_section_by_name(d, ".eh_frame_hdr") : TRUE].sh_offset

(***************************************************************************)
(* Registers: libunwind's number, the library's enum x86_regs, the offset  *)
(* in struct pt_regs.                                                      *)
(***************************************************************************)
\* UNW_X86_64_RAX .. UNW_X86_64_RIP are 0 .. 16.
unw_regs == <<"ax", "dx", "cx", "bx", "si", "di", "bp", "sp",
              "r8", "r9", "r10", "r11", "r12", "r13", "r14", "r15", "ip">>

\* The fields of struct pt_regs, 8 bytes each.
pt_regs == <<"r15", "r14", "r13", "r12", "bp", "bx", "r11", "r10", "r9", "r8", "ax",
             "cx", "dx", "si", "di", "orig_ax", "ip", "cs", "flags", "sp", "ss">>

\* Mutant: libunwind's numbers are taken for the library's.
Mutant_LIBUNWIND__ARCH_REG_ID(regnum) == regnum

\* The members of enum x86_regs by number; -EINVAL for other registers.
LIBUNWIND__ARCH_REG_ID(regnum) ==
  IF regnum \in 0 .. 16
  THEN <<0, 3, 2, 1, 4, 5, 6, 7, 16, 17, 18, 19, 20, 21, 22, 23, 8>>[regnum + 1]
  ELSE -22

\* Byte offsets by member of enum x86_regs; ds, es, fs and gs have none.
pt_regs_offset ==
  <<80, 40, 88, 96, 104, 112, 32, 152, 128, 144, 136, 160, -1, -1, -1, -1,
    72, 64, 56, 48, 24, 16, 8, 0>>

\* assert(idx < ARRAY_SIZE(pt_regs_offset)) compares as size_t, where -22 is
\* larger than every index.
InTable(idx) == idx \in 0 .. Len(pt_regs_offset) - 1
-----------------------------------------------------------------------------
(***************************************************************************)
(* The callbacks libunwind makes while unw_step runs.                      *)
(***************************************************************************)
access_mem(addr, write) ==
  /\ pc = "step"
  /\ out' \in IF write THEN {Zero} ELSE ReadWord(uc.sp, uc.size, addr)
  /\ UNCHANGED <<pc, depth, ips, i, calls, uc, aspace, ret, eho>>

\* The section offset is looked up (elf_section_offset, which may fail) until
\* it is known; the header is then read, which fails if the file is short.
find_proc_info(ip, e1, e2, elf, whole) ==
  /\ pc = "step"
  /\ IF find_map(ip) = {} THEN out' = Nothing /\ UNCHANGED eho
     ELSE \E q \in find_map(ip) :
            LET off   == IF eho[q.dso] # 0 THEN eho[q.dso]
                         ELSE IF elf THEN elf_section_offset(q.dso) ELSE 0
                table == unwind_spec_ehframe(e1, e2)
            IN  /\ eho' = [eho EXCEPT ![q.dso] = off]
                /\ out' = IF off = 0 \/ ~whole \/ table < 0 THEN Nothing
                         ELSE [from |-> "table", map |-> q,
                               segbase |-> Sub(Add(q.start, off), q.pgoff),
                               table_data |-> Sub(Add(q.start, Add(off, table)), q.pgoff),
                               file |-> Add(off, table)]
  /\ UNCHANGED <<pc, depth, ips, i, calls, uc, aspace, ret>>

\* A write is ignored; a register that is not in the table ends the program.
access_reg(regnum, write) ==
  /\ pc = "step"
  /\ LET id == LIBUNWIND__ARCH_REG_ID(regnum)
     IN  IF write THEN out' = Nothing /\ UNCHANGED pc
         ELSE IF ~InTable(id) THEN out' = Nothing /\ pc' = "exited"
         ELSE /\ out' = [from |-> "reg", regnum |-> regnum, off |-> pt_regs_offset[id + 1]]
              /\ UNCHANGED pc
  /\ UNCHANGED <<depth, ips, i, calls, uc, aspace, ret, eho>>

\* access_fpreg, resume, get_proc_name: -UNW_EINVAL.
unsupported ==
  /\ pc = "step" /\ out' = Nothing
  /\ UNCHANGED <<pc, depth, ips, i, calls, uc, aspace, ret, eho>>
-----------------------------------------------------------------------------
(***************************************************************************)
(* get_entries and its caller: bpf_unwind_ctx__resolve_callchain is called *)
(* in a loop with one stacktrace, and the program exits on an error.       *)
(***************************************************************************)
Return(r, d) ==
  /\ ret' = r /\ depth' = d
  /\ pc' = IF r = 0 THEN "idle" ELSE "exited"
  /\ UNCHANGED i

\* Entry of get_entries. as: the address space exists or can be created;
\* init: unw_init_remote succeeds.
resolve_callchain(sp, size, as, init) ==
  /\ pc = "idle" /\ calls < MaxCalls
  /\ calls' = calls + 1
  /\ uc' = [sp |-> sp, size |-> size]
  /\ aspace' = (aspace \/ as)
  /\ IF depth < 1 THEN Return(1, depth) /\ UNCHANGED ips
     ELSE /\ ips' = [ips EXCEPT ![0] = calls + 1]
          /\ \/ /\ ~aspace' /\ Return(1, depth)
             \/ /\ aspace' /\ ~init /\ Return(1, 1)
             \/ /\ aspace' /\ init
                /\ pc' = "step" /\ i' = 1 /\ UNCHANGED <<depth, ret>>
  /\ out' = Nothing /\ UNCHANGED eho

\* Mutant: one slot too many.
Mutant_StoreFrame ==
  /\ pc = "step" /\ i <= depth
  /\ ips' = [ips EXCEPT ![i] = calls] /\ i' = i + 1
  /\ out' = Nothing
  /\ UNCHANGED <<pc, depth, calls, uc, aspace, ret, eho>>

\* unw_step finds a frame and there is room: it is stored. The code ignores
\* what unw_get_reg returns; that it writes the slot is an assumption on
\* libunwind, which has just located the frame's ip.
StoreFrame ==
  /\ pc = "step" /\ i < depth
  /\ ips' = [ips EXCEPT ![i] = calls] /\ i' = i + 1
  /\ out' = Nothing
  /\ UNCHANGED <<pc, depth, calls, uc, aspace, ret, eho>>

\* Mutant: st->depth is left as the caller set it.
Mutant_EndOfFrames(found) ==
  /\ pc = "step" /\ (found => i >= depth)
  /\ Return(0, depth)
  /\ out' = Nothing
  /\ UNCHANGED <<ips, calls, uc, aspace, eho>>

\* unw_step finds no frame, or there is no room for it: st->depth = i.
EndOfFrames(found) ==
  /\ pc = "step" /\ (found => i >= depth)
  /\ Return(0, i)
  /\ out' = Nothing
  /\ UNCHANGED <<ips, calls, uc, aspace, eho>>

unw_step == StoreFrame \/ \E found \in BOOLEAN : EndOfFrames(found)

Next ==
  \/ \E sp \in Sp, size \in 0 .. STACK_SIZE, as, init \in BOOLEAN :
       resolve_callchain(sp, size, as, init)
  \/ \E addr \in Addr, write \in BOOLEAN : access_mem(addr, write)
  \/ \E ip \in Ip, e1, e2 \in Encoding, elf, whole \in BOOLEAN :
       find_proc_info(ip, e1, e2, elf, whole)
  \/ \E regnum \in 0 .. Len(unw_regs), write \in BOOLEAN : access_reg(regnum, write)
  \/ unsupported
  \/ unw_step

Spec == Init /\ [][Next]_vars
-----------------------------------------------------------------------------
\* Every variable stays in its range; in particular st->depth never exceeds
\* the number of slots and the index never passes st->depth, so that get_entries
\* writes inside st->ips whatever unw_step answers, call after call.
TypeOK ==
  /\ pc \in {"idle", "step", "exited"}
  /\ depth \in 0 .. MaxDepth /\ i \in 0 .. MaxDepth
  /\ ips \in [Slot -> 0 .. MaxCalls] /\ calls \in 0 .. MaxCalls
  /\ uc \in [sp : Addr, size : 0 .. STACK_SIZE]
  /\ aspace \in BOOLEAN /\ ret \in {0, 1}
  /\ eho \in [Dso -> Addr]

\* access_mem hands out only words that lie inside the captured bytes, even
\* when sp + size or addr + 8 wraps around the address space.
StackReadsInCapture ==
  out.from = "stack" => out.off >= 0 /\ out.off + WORD <= uc.size

\* When a trace is reported (get_entries returned 0), each of its st->depth
\* addresses was written by this call: no frame of an earlier context shows up
\* in it, although st->ips is never cleared.
ReportedFramesAreFresh ==
  pc = "idle" /\ calls > 0 => \A k \in 0 .. depth - 1 : ips[k] = calls

\* The binary search table that find_proc_info hands to libunwind begins inside
\* the header that was read, and if libunwind reads it back through the same
\* map, access_dso_mem reads the file at the place the table is at: the
\* conversion to an address and map_ip undo each other modulo 2^64. The header
\* is the dso's .eh_frame_hdr, also when its offset was cached long before.
TableReadsBack ==
  out.from = "table" =>
    /\ map_ip(out.map, out.table_data) = out.file
    /\ Sub(out.table_data, out.segbase) \in HDR_FIXED .. HDR_SIZE
    /\ \E k \in 1 .. Len(Section[out.map.dso]) :
         /\ Section[out.map.dso][k].name = ".eh_frame_hdr"
         /\ map_ip(out.map, out.segbase) = Section[out.map.dso][k].sh_offset

\* Through the two tables libunwind gets the captured value of the register it
\* asked for: libunwind's order, the enum's and the struct's all differ.
RegistersAreTheirs ==
  out.from = "reg" =>
    /\ out.off >= 0 /\ out.off % 8 = 0
    /\ pt_regs[out.off \div 8 + 1] = unw_regs[out.regnum + 1]

\* A trace that comes out short makes every later one short: get_entries reads
\* st->depth as the capacity and overwrites it with the number of frames.
DepthNeverGrows == [][depth' <= depth]_vars
=============================================================================
