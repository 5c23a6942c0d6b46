----------------------------- MODULE SerialMemory -----------------------------
(***************************************************************************)
(* What the memory system promises the cores: one memory.  Every core has  *)
(* at most one access outstanding; a load returns what the memory holds at *)
(* the moment it completes, and a store changes the memory exactly once,   *)
(* between its issue and its completion.  There are no caches, no bus and  *)
(* no latencies here.                                                      *)
(*                                                                         *)
(* One step is one clock cycle, in which any number of accesses complete   *)
(* and at most one store takes effect; loads that complete in that cycle   *)
(* still see the old contents.                                             *)
(***************************************************************************)
CONSTANTS Cores, Addrs, Vals, Invalid, Request

VARIABLES
  mem,     \* mem[a]: the contents of address a
  req,     \* req[c]: the access core c asks for
  rdata,   \* rdata[c]: what the last access of c returned
  done     \* done[c]: the store of c has taken effect

vars == <<mem, req, rdata, done>>

Init ==
  /\ mem \in [Addrs -> Vals]
  /\ req \in [Cores -> {r \in Request : r.op = "none"}]
  /\ rdata = [c \in Cores |-> Invalid]
  /\ done = [c \in Cores |-> FALSE]

(* R: the cores whose access completes; each may ask for another.          *)
Complete(R) ==
  /\ \A c \in R : req[c].op = "write" => done[c]
  /\ \A c \in Cores \ R : req'[c] = req[c]
  /\ req' \in [Cores -> Request]
  /\ rdata' = [c \in Cores |->
                 IF c \notin R THEN rdata[c]
                 ELSE IF req[c].op = "read" THEN mem[req[c].addr] ELSE Invalid]

(* The store of w takes effect.                                            *)
Perform(w) ==
  /\ req[w].op = "write" /\ ~done[w]
  /\ mem' = [mem EXCEPT ![req[w].addr] = req[w].data]

Next ==
  \E R \in SUBSET Cores :
    /\ Complete(R)
    /\ \/ /\ UNCHANGED mem
          /\ done' = [c \in Cores |-> c \notin R /\ done[c]]
       \/ \E w \in Cores \ R :
            /\ Perform(w)
            /\ done' = [c \in Cores |-> c \notin R /\ (done[c] \/ c = w)]

Spec == Init /\ [][Next]_vars
=============================================================================
