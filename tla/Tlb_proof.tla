------------------------------- MODULE Tlb_proof -------------------------------
(***************************************************************************)
(* The proofs about Tlb, for any number of entries, pages, frames and      *)
(* permissions.                                                            *)
(***************************************************************************)
EXTENDS Tlb, TLAPS, WellFoundedInduction

(* Entries are valid from the first one up to the index, or all of them:   *)
(* so a refill replaces the oldest, and none is wasted while one is free.  *)
FilledInOrder == \A i \in Slots : tlb[i].valid <=> i < replace_idx \/ Full

IInv == TypeOK /\ FilledInOrder

LEMMA InitIInv == Init => IInv
<1> SUFFICES ASSUME Init PROVE IInv
  OBVIOUS
<1>1. 0 \in Slots /\ TLB_ENTRIES - 1 \in Slots /\ \A i \in Slots : ~(i < 0)
  BY TlbAssumption DEF Slots
<1>2. [valid |-> FALSE, vpn |-> 0, ppn |-> 0, rights |-> {}] \in Entry
  BY TlbAssumption DEF Entry
<1>3. TypeOK
  BY <1>1, <1>2, TlbAssumption DEF Init, TypeOK
<1>4. \A i \in Slots : ~tlb[i].valid
  BY DEF Init
<1>5. FilledInOrder
  BY <1>1, <1>4 DEF Init, FilledInOrder, Full
<1> QED
  BY <1>3, <1>5 DEF IInv

(* Each kind of cycle keeps the types of the CSRs.                         *)
LEMMA NextTypes ==
  ASSUME TypeOK, [Next]_vars
  PROVE  TypeOK'
<1>1. Refill \in Entry
  BY DEF TypeOK, Refill, Entry
<1>2. CASE Next
  <2>1. tlb' \in [Slots -> Entry] /\ replace_idx' \in Slots
    BY <1>1, <1>2, TlbAssumption DEF Next, TlbEdge, NextIndex, TypeOK, Slots
  <2>2. /\ csr_satp' \in BOOLEAN
        /\ csr_tlb_update_vpn' \in Page
        /\ csr_tlb_update_ppn' \in Frame
        /\ csr_tlb_update_flags' \in Rights
        /\ tlb_update_en_pulse' \in BOOLEAN
    BY <1>2 DEF Next, WriteSatp, WriteVpn, WritePpn, WriteFlags, WriteElse, TypeOK
  <2> QED
    BY <2>1, <2>2 DEF TypeOK
<1>3. CASE UNCHANGED vars
  BY <1>3 DEF TypeOK, vars
<1> QED
  BY <1>2, <1>3

(* A refill makes the entry at the index valid and goes on to the next.    *)
LEMMA NextIInv ==
  ASSUME IInv, [Next]_vars
  PROVE  IInv'
<1>1. TypeOK'
  BY NextTypes DEF IInv
<1>2. FilledInOrder'
  <2>1. CASE Next /\ tlb_update_en_pulse
    <3>1. /\ replace_idx \in Slots
          /\ tlb' = [tlb EXCEPT ![replace_idx] = Refill]
          /\ replace_idx' = NextIndex
          /\ Refill.valid
      BY <2>1 DEF IInv, TypeOK, Next, TlbEdge, Refill
    <3>2. \A i \in Slots : tlb'[i].valid <=> i = replace_idx \/ tlb[i].valid
      BY <3>1 DEF IInv, TypeOK
    <3>3. TLB_ENTRIES - 1 \in Slots
      BY TlbAssumption DEF Slots
    <3>4. Full' <=> replace_idx = TLB_ENTRIES - 1 \/ Full
      BY <3>2, <3>3 DEF Full
    <3>5. ASSUME NEW i \in Slots
          PROVE  tlb'[i].valid <=> i < replace_idx' \/ Full'
      <4>1. tlb'[i].valid <=> i = replace_idx \/ i < replace_idx \/ Full
        BY <3>2 DEF IInv, FilledInOrder
      <4> QED
        BY <3>1, <3>4, <4>1, TlbAssumption DEF NextIndex, Slots
    <3> QED
      BY <3>5 DEF FilledInOrder
  <2>2. CASE UNCHANGED <<tlb, replace_idx>>
    BY <2>2 DEF IInv, FilledInOrder, Full
  <2> QED
    BY <2>1, <2>2 DEF Next, TlbEdge, vars
<1> QED
  BY <1>1, <1>2 DEF IInv

(* All entries before the index are valid and none behind it, until all    *)
(* are: so the index is always at the oldest, or at a free one.            *)
THEOREM TlbInvariance == Spec => []IInv
<1>1. Init => IInv
  BY InitIInv
<1>2. IInv /\ [Next]_vars => IInv'
  BY NextIInv
<1> QED
  BY <1>1, <1>2, PTL DEF Spec

(* The registers and entries have the values they are meant to have.       *)
THEOREM TlbTypeCorrect == Spec => []TypeOK
<1>1. IInv => TypeOK
  BY DEF IInv
<1> QED
  BY <1>1, TlbInvariance, PTL

-----------------------------------------------------------------------------
(* The lookup                                                              *)

(* A nonempty set of slots has a last one.                                 *)
LEMMA LastSlot ==
  ASSUME NEW W \in SUBSET Slots, W # {}
  PROVE  (CHOOSE i \in W : \A j \in W : j <= i) \in W
<1> DEFINE n == TLB_ENTRIES - 1
           T == {n - i : i \in W}
           R == {x \in Nat \X Nat : x[1] < x[2]}
<1>1. n \in Nat /\ W \subseteq 0 .. n
  BY TlbAssumption DEF Slots
<1> HIDE DEF n
<1>2. T \subseteq Nat /\ T # {}
  BY <1>1
<1>3. PICK t \in T : \A u \in T : ~(<<u, t>> \in R)
  <2>1. R = OpToRel(<, Nat)
    BY Zenon DEF OpToRel
  <2>2. IsWellFoundedOn(R, Nat)
    BY <2>1, NatLessThanWellFounded, Zenon
  <2> HIDE DEF R, T
  <2> QED
    BY <1>2, <2>2, WFMin, Zenon
<1>4. \A u \in T : ~(u < t)
  <2>1. \A a, b \in Nat : a < b => <<a, b>> \in R
    OBVIOUS
  <2> HIDE DEF R, T
  <2> QED
    BY <1>2, <1>3, <2>1
<1>5. PICK i \in W : t = n - i
  BY <1>3
<1>6. \A j \in W : j <= i
  <2>1. \A j \in W : n - j \in T
    OBVIOUS
  <2> HIDE DEF T
  <2> QED
    BY <1>1, <1>4, <1>5, <2>1
<1> QED
  BY <1>5, <1>6

(* A hit is in an entry that matches.                                      *)
LEMMA HitMatches ==
  ASSUME NEW p, Matches(p) # {}
  PROVE  hit_idx(p) \in Matches(p)
<1>1. Matches(p) \in SUBSET Slots
  BY DEF Matches
<1> QED
  BY <1>1, LastSlot DEF hit_idx

(* The ring: the entries that are valid are those read back from the       *)
(* index, each of them once.                                               *)
LEMMA RingBack ==
  ASSUME IInv
  PROVE  /\ Depth \in 0 .. TLB_ENTRIES
         /\ \A k \in 1 .. Depth : SlotOf(k) \in Slots /\ tlb[SlotOf(k)].valid
         /\ \A i \in Slots : tlb[i].valid => \E k \in 1 .. Depth : SlotOf(k) = i
<1>1. replace_idx \in Slots /\ FilledInOrder /\ TLB_ENTRIES \in Nat \ {0}
  BY TlbAssumption DEF IInv, TypeOK
<1>2. Depth \in 0 .. TLB_ENTRIES
  BY <1>1 DEF Depth, Slots
<1>3. ASSUME NEW k \in 1 .. Depth
      PROVE  SlotOf(k) \in Slots /\ tlb[SlotOf(k)].valid
  <2>1. SlotOf(k) \in Slots /\ (SlotOf(k) < replace_idx \/ Full)
    BY <1>1 DEF SlotOf, Slots, Depth
  <2> QED
    BY <1>1, <2>1 DEF FilledInOrder
<1>4. ASSUME NEW i \in Slots, tlb[i].valid
      PROVE  \E k \in 1 .. Depth : SlotOf(k) = i
  <2> DEFINE age == IF i < replace_idx THEN replace_idx - i
                    ELSE replace_idx + TLB_ENTRIES - i
  <2>1. i < replace_idx \/ Full
    BY <1>1, <1>4 DEF FilledInOrder
  <2>2. age \in 1 .. Depth /\ SlotOf(age) = i
    BY <1>1, <2>1 DEF SlotOf, Slots, Depth
  <2> QED
    BY <2>2
<1> QED
  BY <1>2, <1>3, <1>4

(* The window holds for a page the mappings of the entries that match.     *)
LEMMA WindowEntries ==
  ASSUME IInv, NEW p \in Page
  PROVE  Window!InWindow(p) = {MappingOf(tlb[i]) : i \in Matches(p)}
<1>1. DOMAIN Recent = 1 .. Depth
  BY DEF Recent
<1>2. \A k \in 1 .. Depth : Recent[k] = MappingOf(tlb[SlotOf(k)])
  BY DEF Recent
<1>3. \A i : MappingOf(tlb[i]).vpn = tlb[i].vpn
  BY DEF MappingOf
<1>4. ASSUME NEW m \in Window!InWindow(p)
      PROVE  m \in {MappingOf(tlb[i]) : i \in Matches(p)}
  <2>1. PICK k \in 1 .. Depth : m = Recent[k] /\ m.vpn = p
    BY <1>1 DEF Window!InWindow
  <2>2. SlotOf(k) \in Matches(p)
    BY <1>2, <1>3, <2>1, RingBack DEF Matches
  <2> QED
    BY <1>2, <2>1, <2>2
<1>5. ASSUME NEW i \in Matches(p)
      PROVE  MappingOf(tlb[i]) \in Window!InWindow(p)
  <2>1. i \in Slots /\ tlb[i].valid /\ tlb[i].vpn = p
    BY DEF Matches
  <2>2. PICK k \in 1 .. Depth : SlotOf(k) = i
    BY <2>1, RingBack
  <2> QED
    BY <1>1, <1>2, <1>3, <2>1, <2>2 DEF Window!InWindow
<1> QED
  BY <1>4, <1>5

(* What the outputs say agrees with the window.                            *)
AllAnswered == \A p \in Page : Window!Answered(p)

LEMMA OutputsAgree == IInv => AllAnswered
<1> SUFFICES ASSUME IInv, NEW p \in Page
             PROVE  Window!Answered(p)
  BY DEF AllAnswered
<1> DEFINE out == [a \in Access |-> Outcome(p, a)]
<1>1. CASE ~csr_satp
  <2>1. \A a \in Access : Outcome(p, a) = <<"passed", p>>
    BY <1>1 DEF Outcome, tlb_miss, page_fault, pa
  <2> QED
    BY <1>1, <2>1 DEF Window!Answered, Window!Passed
<1>2. CASE csr_satp /\ Matches(p) = {}
  <2>1. \A a \in Access : Outcome(p, a) = <<"missed">>
    BY <1>2 DEF Outcome, tlb_miss
  <2>2. Window!InWindow(p) = {}
    BY <1>2, WindowEntries
  <2> QED
    BY <1>2, <2>1, <2>2 DEF Window!Answered, Window!Missed
<1>3. CASE csr_satp /\ Matches(p) # {}
  <2> DEFINE e == tlb[hit_idx(p)]
  <2>1. hit_idx(p) \in Matches(p)
    BY <1>3, HitMatches
  <2>2. MappingOf(e) \in Window!InWindow(p)
    BY <2>1, WindowEntries
  <2>3. \A a \in Access : Outcome(p, a) = IF a \in e.rights THEN <<"passed", e.ppn>>
                                          ELSE <<"refused">>
    BY <1>3 DEF Outcome, tlb_miss, page_fault, pa
  <2>4. out = Window!ByMapping(MappingOf(e))
    BY <2>3 DEF Window!ByMapping, MappingOf, Window!Passed, Window!Refused
  <2> QED
    BY <1>3, <2>2, <2>4 DEF Window!Answered
<1> QED
  BY <1>1, <1>2, <1>3 DEF IInv, TypeOK

-----------------------------------------------------------------------------
(* The refinement, step by step                                            *)

LEMMA InitWindow == Init => Window!Init
<1> SUFFICES ASSUME Init PROVE Window!Init
  OBVIOUS
<1>1. IInv
  BY InitIInv
<1>2. \A p \in Page : Window!Answered(p)
  BY <1>1, OutputsAgree DEF AllAnswered
<1>3. Depth = 0
  <2>1. TLB_ENTRIES - 1 \in Slots
    BY TlbAssumption DEF Slots
  <2> QED
    BY <2>1 DEF Init, Depth, Full
<1>4. Recent = <<>>
  BY <1>3 DEF Recent
<1> QED
  BY <1>2, <1>4 DEF Init, Window!Init, Pending

(* A write of a CSR is what software does in the window: the refill that   *)
(* it asks for has the page and the frame that are in their CSRs then.     *)
LEMMA SoftwareStep ==
  ASSUME IInv, Next
  PROVE  Window!Software
<1>1. CASE WriteSatp
  BY <1>1 DEF WriteSatp, Window!Software, Pending
<1>2. CASE WriteVpn
  BY <1>2 DEF WriteVpn, Window!Software, Pending
<1>3. CASE WritePpn
  BY <1>3 DEF WritePpn, Window!Software, Pending
<1>4. CASE WriteFlags /\ tlb_update_en_pulse'
  <2>1. Pending' = <<[vpn |-> csr_tlb_update_vpn, ppn |-> csr_tlb_update_ppn,
                      rights |-> csr_tlb_update_flags']>>
    BY <1>4 DEF WriteFlags, Pending, MappingOf, Refill
  <2> QED
    BY <1>4, <2>1 DEF WriteFlags, Window!Software
<1>5. CASE WriteFlags /\ ~tlb_update_en_pulse'
  BY <1>5 DEF WriteFlags, Window!Software, Pending, IInv, TypeOK
<1>6. CASE WriteElse
  BY <1>6 DEF WriteElse, Window!Software, Pending, IInv, TypeOK
<1> QED
  BY <1>1, <1>2, <1>3, <1>4, <1>5, <1>6 DEF Next

(* Read back from the index, a refill comes first and all others move one  *)
(* place on; the last of a full ring is gone.                              *)
LEMMA RecentStep ==
  ASSUME IInv, Next, tlb_update_en_pulse
  PROVE  Recent' = Window!Push(MappingOf(Refill))
<1> DEFINE N == TLB_ENTRIES
           m == MappingOf(Refill)
<1>1. /\ replace_idx \in Slots /\ N \in Nat \ {0} /\ FilledInOrder
      /\ tlb \in [Slots -> Entry]
      /\ tlb' = [tlb EXCEPT ![replace_idx] = Refill]
      /\ replace_idx' = IF replace_idx = N - 1 THEN 0 ELSE replace_idx + 1
      /\ Refill.valid
  BY TlbAssumption DEF IInv, TypeOK, Next, TlbEdge, NextIndex, Refill
<1>2. Depth' = Window!Least(N, Depth + 1)
  <2>1. Full' <=> replace_idx = N - 1 \/ Full
    BY <1>1 DEF Full, Slots
  <2> QED
    BY <1>1, <2>1 DEF Depth, Window!Least, Slots
<1>3. Depth \in 0 .. N /\ \A k \in 1 .. Depth : SlotOf(k) \in Slots
  BY RingBack
<1>4. Len(Recent) = Depth
  BY <1>3 DEF Recent
<1>5. ASSUME NEW k \in 1 .. Depth'
      PROVE  MappingOf(tlb[SlotOf(k)])' = IF k = 1 THEN m ELSE Recent[k - 1]
  <2>1. CASE k = 1
    <3>1. SlotOf(1)' = replace_idx
      BY <1>1 DEF SlotOf, Slots
    <3>2. tlb'[SlotOf(k)'] = Refill
      BY <1>1, <2>1, <3>1
    <3> QED
      BY <2>1, <3>2 DEF MappingOf
  <2>2. CASE k # 1
    <3>1. k - 1 \in 1 .. Depth /\ k \in 2 .. N
      BY <1>2, <1>3, <2>2, <1>1 DEF Window!Least
    <3>2. SlotOf(k)' = SlotOf(k - 1) /\ SlotOf(k - 1) # replace_idx
      BY <1>1, <3>1 DEF SlotOf, Slots
    <3>3. SlotOf(k - 1) \in Slots
      BY <1>3, <3>1
    <3>4. tlb'[SlotOf(k)'] = tlb[SlotOf(k - 1)]
      BY <1>1, <3>2, <3>3
    <3>5. Recent[k - 1] = MappingOf(tlb[SlotOf(k - 1)])
      BY <3>1 DEF Recent
    <3> QED
      BY <2>2, <3>4, <3>5 DEF MappingOf
  <2> QED
    BY <2>1, <2>2
<1>6. Recent' = [k \in 1 .. Depth' |-> MappingOf(tlb[SlotOf(k)])']
  BY DEF Recent
<1> QED
  BY <1>2, <1>4, <1>5, <1>6 DEF Window!Push

(* A refill changes the answers of no page but its own and that of the     *)
(* mapping which it replaces.                                              *)
LEMMA OthersKept ==
  ASSUME IInv, Next, tlb_update_en_pulse, csr_satp' = csr_satp,
         NEW p \in Page \ Window!Disturbed(MappingOf(Refill)), NEW a \in Access
  PROVE  Outcome(p, a)' = Outcome(p, a)
<1>1. /\ replace_idx \in Slots /\ FilledInOrder /\ TLB_ENTRIES \in Nat \ {0}
      /\ tlb \in [Slots -> Entry]
      /\ tlb' = [tlb EXCEPT ![replace_idx] = Refill]
  BY TlbAssumption DEF IInv, TypeOK, Next, TlbEdge
<1>2. Refill.vpn # p
  BY DEF Window!Disturbed, MappingOf
<1>3. ~(tlb[replace_idx].valid /\ tlb[replace_idx].vpn = p)
  <2> SUFFICES ASSUME tlb[replace_idx].valid
               PROVE  tlb[replace_idx].vpn # p
    OBVIOUS
  <2>1. Full
    BY <1>1 DEF FilledInOrder, Slots
  <2>2. Depth = TLB_ENTRIES /\ SlotOf(TLB_ENTRIES) = replace_idx
    BY <1>1, <2>1 DEF Depth, SlotOf, Slots
  <2>3. Len(Recent) = TLB_ENTRIES /\ Recent[TLB_ENTRIES] = MappingOf(tlb[replace_idx])
    BY <1>1, <2>2 DEF Recent
  <2> QED
    BY <2>3 DEF Window!Disturbed, MappingOf
<1>4. Matches(p)' = Matches(p) /\ \A i \in Matches(p) : tlb'[i] = tlb[i]
  BY <1>1, <1>2, <1>3 DEF Matches
<1>5. hit_idx(p)' = hit_idx(p)
  BY <1>4 DEF hit_idx
<1>6. Matches(p) # {} => tlb'[hit_idx(p)'] = tlb[hit_idx(p)]
  BY <1>4, <1>5, HitMatches
<1>7. /\ tlb_miss(p)' = tlb_miss(p)
      /\ page_fault(p, a)' = page_fault(p, a)
      /\ pa(p)' = pa(p)
  BY <1>4, <1>6 DEF tlb_miss, page_fault, pa
<1> QED
  BY <1>7 DEF Outcome

(* What the edge does to the window and to the answers.                    *)
LEMMA SettleStep ==
  ASSUME IInv, Next
  PROVE  Window!Settle
<1> DEFINE answer == [p \in Page |-> [a \in Access |-> Outcome(p, a)]]
<1>1. CASE ~tlb_update_en_pulse
  <2>1. UNCHANGED <<tlb, replace_idx>>
    BY <1>1 DEF Next, TlbEdge
  <2>2. UNCHANGED Recent
    BY <2>1 DEF Recent, Depth, Full, SlotOf
  <2>3. csr_satp' = csr_satp => UNCHANGED answer
    BY <2>1 DEF Outcome, tlb_miss, page_fault, pa, hit_idx, Matches
  <2> QED
    BY <1>1, <2>2, <2>3 DEF Window!Settle, Pending
<1>2. CASE tlb_update_en_pulse
  <2>1. Pending # <<>> /\ Pending[1] = MappingOf(Refill)
    BY <1>2 DEF Pending
  <2>2. csr_satp' = csr_satp =>
          \A p \in Page \ Window!Disturbed(MappingOf(Refill)) : answer'[p] = answer[p]
    BY <1>2, OthersKept
  <2> QED
    BY <1>2, <2>1, <2>2, RecentStep DEF Window!Settle
<1> QED
  BY <1>1, <1>2 DEF IInv, TypeOK

(* The TLB answers from the last TLB_ENTRIES refills, however the writes   *)
(* of its CSRs follow on each other and whatever is in it twice.           *)
THEOREM TlbRefinement == Spec => AnswersFromWindow
<1>1. IInv /\ AllAnswered' /\ [Next]_vars => [Window!Next]_(Window!vars)
  <2> SUFFICES ASSUME IInv, AllAnswered', [Next]_vars
               PROVE  [Window!Next]_(Window!vars)
    OBVIOUS
  <2>1. CASE Next
    BY <2>1, SoftwareStep, SettleStep DEF Window!Next, AllAnswered
  <2>2. CASE UNCHANGED vars
    <3>1. UNCHANGED <<Recent, Pending, Refill>>
      BY <2>2 DEF vars, Recent, Depth, Full, SlotOf, Pending, Refill
    <3>2. UNCHANGED [p \in Page |-> [a \in Access |-> Outcome(p, a)]]
      BY <2>2 DEF vars, Outcome, tlb_miss, page_fault, pa, hit_idx, Matches
    <3> QED
      BY <2>2, <3>1, <3>2 DEF vars, Window!vars
  <2> QED
    BY <2>1, <2>2
<1> QED
  BY <1>1, InitWindow, OutputsAgree, TlbInvariance, PTL
     DEF Spec, AnswersFromWindow, Window!Spec
=============================================================================
