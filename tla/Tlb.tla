---------------------------------- MODULE Tlb ----------------------------------
(***************************************************************************)
(* The TLBs of a core (mmu.v) and the CSRs through which software refills  *)
(* them (aurora_x_core.v).  The core has two, i_mmu for fetches and d_mmu  *)
(* for loads and stores; both get the same refills on the same edges and   *)
(* so always have the same contents, which is kept once here.              *)
(*                                                                         *)
(* One step is one edge of the core's clock.  MEM writes one of the CSRs   *)
(* or none of them; a write that is held in MEM is written again, and the  *)
(* writes of the two threads, which share these CSRs, come in any order.   *)
(* A page is va[38:12], a frame the physical page; the three permission    *)
(* bits are the set of the accesses they allow.                            *)
(***************************************************************************)
EXTENDS Naturals, Sequences

CONSTANTS
  TLB_ENTRIES,   \* a power of two as large as replace_idx: 32
  Page,          \* virtual pages
  Frame,         \* physical pages
  Rights         \* permission bits that software writes

Access == {"fetch", "load", "store"}

ASSUME TlbAssumption ==
  /\ TLB_ENTRIES \in Nat \ {0}
  /\ Page \subseteq Nat /\ 0 \in Page
  /\ Frame \subseteq Nat /\ 0 \in Frame
  /\ Rights \subseteq SUBSET Access /\ {} \in Rights

VARIABLES
  csr_satp,               \* its bit 0
  csr_tlb_update_vpn,
  csr_tlb_update_ppn,
  csr_tlb_update_flags,   \* its bits 2:0
  tlb_update_en_pulse,
  tlb,                    \* tlb[i]: valid, vpn, ppn, rights of entry i
  replace_idx

vars == <<csr_satp, csr_tlb_update_vpn, csr_tlb_update_ppn, csr_tlb_update_flags,
          tlb_update_en_pulse, tlb, replace_idx>>

Slots == 0 .. TLB_ENTRIES - 1

Entry == [valid : BOOLEAN, vpn : Page, ppn : Frame, rights : Rights]

(* No refill before its flags are written; vpn and ppn have no reset.      *)
Init ==
  /\ csr_satp = FALSE
  /\ csr_tlb_update_vpn \in Page
  /\ csr_tlb_update_ppn \in Frame
  /\ csr_tlb_update_flags = {}
  /\ tlb_update_en_pulse = FALSE
  /\ tlb = [i \in Slots |-> [valid |-> FALSE, vpn |-> 0, ppn |-> 0, rights |-> {}]]
  /\ replace_idx = 0

-----------------------------------------------------------------------------
(* The lookup                                                              *)

Matches(p) == {i \in Slots : tlb[i].valid /\ tlb[i].vpn = p}

(* The loop goes on behind a hit, so the last one counts.                  *)
hit_idx(p) == CHOOSE i \in Matches(p) : \A j \in Matches(p) : j <= i

tlb_miss(p) == csr_satp /\ Matches(p) = {}

page_fault(p, a) ==
  csr_satp /\ Matches(p) # {} /\ a \notin tlb[hit_idx(p)].rights

pa(p) ==
  IF ~csr_satp THEN p ELSE IF Matches(p) = {} THEN 0 ELSE tlb[hit_idx(p)].ppn

-----------------------------------------------------------------------------
(* The edge                                                                *)

(* mutant: the index stays.                                                *)
SameIndex == replace_idx

NextIndex == IF replace_idx = TLB_ENTRIES - 1 THEN 0 ELSE replace_idx + 1

Refill ==
  [valid |-> TRUE, vpn |-> csr_tlb_update_vpn, ppn |-> csr_tlb_update_ppn,
   rights |-> csr_tlb_update_flags]

TlbEdge ==
  IF tlb_update_en_pulse
    THEN tlb' = [tlb EXCEPT ![replace_idx] = Refill] /\ replace_idx' = NextIndex
    ELSE UNCHANGED <<tlb, replace_idx>>

WriteSatp ==
  /\ csr_satp' \in BOOLEAN /\ tlb_update_en_pulse' = FALSE
  /\ UNCHANGED <<csr_tlb_update_vpn, csr_tlb_update_ppn, csr_tlb_update_flags>>

WriteVpn ==
  /\ csr_tlb_update_vpn' \in Page /\ tlb_update_en_pulse' = FALSE
  /\ UNCHANGED <<csr_satp, csr_tlb_update_ppn, csr_tlb_update_flags>>

WritePpn ==
  /\ csr_tlb_update_ppn' \in Frame /\ tlb_update_en_pulse' = FALSE
  /\ UNCHANGED <<csr_satp, csr_tlb_update_vpn, csr_tlb_update_flags>>

(* Bit 3 of the flags asks for the refill.                                 *)
WriteFlags ==
  /\ csr_tlb_update_flags' \in Rights /\ tlb_update_en_pulse' \in BOOLEAN
  /\ UNCHANGED <<csr_satp, csr_tlb_update_vpn, csr_tlb_update_ppn>>

WriteElse ==
  /\ tlb_update_en_pulse' = FALSE
  /\ UNCHANGED <<csr_satp, csr_tlb_update_vpn, csr_tlb_update_ppn, csr_tlb_update_flags>>

Next == TlbEdge /\ (WriteSatp \/ WriteVpn \/ WritePpn \/ WriteFlags \/ WriteElse)

Spec == Init /\ [][Next]_vars

-----------------------------------------------------------------------------
(* Properties                                                              *)

TypeOK ==
  /\ csr_satp \in BOOLEAN
  /\ csr_tlb_update_vpn \in Page
  /\ csr_tlb_update_ppn \in Frame
  /\ csr_tlb_update_flags \in Rights
  /\ tlb_update_en_pulse \in BOOLEAN
  /\ tlb \in [Slots -> Entry]
  /\ replace_idx \in Slots

(* The ring read from the newest entry back.                               *)
Full == tlb[TLB_ENTRIES - 1].valid
Depth == IF Full THEN TLB_ENTRIES ELSE replace_idx

SlotOf(k) == IF k <= replace_idx THEN replace_idx - k ELSE replace_idx + TLB_ENTRIES - k

MappingOf(e) == [vpn |-> e.vpn, ppn |-> e.ppn, rights |-> e.rights]

Recent == [k \in 1 .. Depth |-> MappingOf(tlb[SlotOf(k)])]

Pending == IF tlb_update_en_pulse THEN <<MappingOf(Refill)>> ELSE <<>>

(* What a stage that asks for page p in kind a sees on the three outputs.  *)
Outcome(p, a) ==
  IF tlb_miss(p) THEN <<"missed">>
  ELSE IF page_fault(p, a) THEN <<"refused">> ELSE <<"passed", pa(p)>>

Window ==
  INSTANCE RefillWindow
    WITH Capacity <- TLB_ENTRIES, on <- csr_satp,
         page <- csr_tlb_update_vpn, frame <- csr_tlb_update_ppn,
         pending <- Pending, recent <- Recent,
         answer <- [p \in Page |-> [a \in Access |-> Outcome(p, a)]]

(* The TLB answers from the last TLB_ENTRIES refills of a reset core, by   *)
(* the page, frame and permissions in the CSRs when each was asked for:    *)
(* RefillWindow says what that comes to.                                   *)
AnswersFromWindow == Window!Spec
=============================================================================
