----------------------------- MODULE RefillWindow -----------------------------
(***************************************************************************)
(* What a software-managed TLB promises: it answers from the last Capacity *)
(* mappings that software has handed over, each of them as software had    *)
(* set page and frame at that moment.  A page among them is never missed,  *)
(* any other is always missed, and a mapping that Capacity others have     *)
(* followed is forgotten.  When a page is there more than once, the answer *)
(* is by any one of its mappings, and stays so until one of that page      *)
(* comes or goes.  There are no slots and no indices here.                 *)
(*                                                                         *)
(* One step is one clock cycle; a mapping counts from the cycle after the  *)
(* one in which it was handed over.                                        *)
(***************************************************************************)
EXTENDS Naturals, Sequences

CONSTANTS Capacity, Page, Frame, Access, Rights

VARIABLES
  on,       \* addresses are translated
  page,     \* the page and ...
  frame,    \* ... the frame that the next mapping is made of
  pending,  \* the mapping handed over in the last cycle, if any
  recent,   \* the last mappings, newest first
  answer    \* answer[p][a]: what an access of kind a to page p gets

vars == <<on, page, frame, pending, recent, answer>>

Mapping == [vpn : Page, ppn : Frame, rights : Rights]

Passed(p) == <<"passed", p>>
Missed == <<"missed">>
Refused == <<"refused">>

ByMapping(m) == [a \in Access |-> IF a \in m.rights THEN Passed(m.ppn) ELSE Refused]

InWindow(p) == {m \in {recent[k] : k \in DOMAIN recent} : m.vpn = p}

(* The answers for page p agree with the window.                           *)
Answered(p) ==
  \/ ~on /\ answer[p] = [a \in Access |-> Passed(p)]
  \/ on /\ InWindow(p) = {} /\ answer[p] = [a \in Access |-> Missed]
  \/ on /\ \E m \in InWindow(p) : answer[p] = ByMapping(m)

Init ==
  /\ on = FALSE /\ page \in Page /\ frame \in Frame
  /\ pending = <<>> /\ recent = <<>>
  /\ \A p \in Page : Answered(p)

(* What software does in a cycle.                                          *)
Software ==
  \/ pending' = <<>> /\ on' \in BOOLEAN /\ UNCHANGED <<page, frame>>
  \/ pending' = <<>> /\ page' \in Page /\ UNCHANGED <<on, frame>>
  \/ pending' = <<>> /\ frame' \in Frame /\ UNCHANGED <<on, page>>
  \/ /\ \E r \in Rights : pending' = <<[vpn |-> page, ppn |-> frame, rights |-> r]>>
     /\ UNCHANGED <<on, page, frame>>

Least(a, b) == IF a < b THEN a ELSE b

(* The last mappings when m comes.                                         *)
Push(m) ==
  [k \in 1 .. Least(Capacity, Len(recent) + 1) |-> IF k = 1 THEN m ELSE recent[k - 1]]

(* The pages whose mappings change when m comes: its own, and that of the  *)
(* mapping it pushes out.                                                  *)
Disturbed(m) ==
  {m.vpn} \cup (IF Len(recent) = Capacity THEN {recent[Capacity].vpn} ELSE {})

Settle ==
  IF pending = <<>>
    THEN /\ UNCHANGED recent
         /\ on' = on => UNCHANGED answer
    ELSE /\ recent' = Push(pending[1])
         /\ on' = on => \A p \in Page \ Disturbed(pending[1]) : answer'[p] = answer[p]

Next ==
  /\ Software
  /\ Settle
  /\ \A p \in Page : Answered(p)'

Spec == Init /\ [][Next]_vars
=============================================================================
