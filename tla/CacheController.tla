--------------------------- MODULE CacheController ---------------------------
(***************************************************************************)
(* The controller that l1_cache.v, l2_cache.v and l3_cache.v share: a      *)
(* direct-mapped, write-through cache without write allocation, driven by  *)
(* a three-state machine.  Every operator below is one of its wires or     *)
(* one of its registers' next values, as a function of the state register, *)
(* the line array, the request on the upstream port and the answer on the  *)
(* downstream port.                                                        *)
(*                                                                         *)
(* The line array is a function from addresses: lines[a] is the data of    *)
(* the valid line whose tag and index are those of a, and Invalid when     *)
(* there is none.  An address here is one 64-bit word (addr[63:3]).        *)
(***************************************************************************)
CONSTANTS
  Addrs,     \* word addresses of the shared memory
  Vals,      \* 64-bit words, told apart only by being equal or not
  Invalid    \* the contents of a line whose valid bit is 0

ASSUME InvalidAssumption == Invalid \notin Vals

State == {"IDLE", "FETCH", "WRITE"}

Lines == [Addrs -> Vals \cup {Invalid}]

(* What a port can carry: re and we are never both set, and write data is  *)
(* looked at only with we.  The address lines carry something even when no *)
(* access is requested.                                                    *)
Request == [op : {"none", "read"}, addr : Addrs, data : {Invalid}]
             \cup [op : {"write"}, addr : Addrs, data : Vals]

Hit(lines, a) == lines[a] # Invalid

(* A fill replaces whatever the line of that index held.                   *)
Fill(lines, index, a, v) ==
  [b \in Addrs |-> IF b = a THEN v
                   ELSE IF index[b] = index[a] THEN Invalid ELSE lines[b]]

(* mem_re, mem_we, mem_addr, mem_write_data                                *)
Downstream(st, lines, r) ==
  [op   |-> IF st = "FETCH" THEN "read"
            ELSE IF st = "WRITE" THEN "write"
            ELSE IF r.op = "read" /\ Hit(lines, r.addr) THEN "none" ELSE r.op,
   addr |-> r.addr,
   data |-> r.data]

PostedWriteReady(st, lines, r, ready) ==   \* mutant: a write hit is answered at once
  IF st = "IDLE"
    THEN IF r.op = "none" THEN TRUE ELSE Hit(lines, r.addr) \/ (r.op = "write" /\ ready)
    ELSE ready

(* bus_ready of L2 and L3, ~stall of L1: a read miss is never answered in  *)
(* the cycle that detects it, even when the level below is ready then.     *)
Ready(st, lines, r, ready) ==
  IF st = "IDLE"
    THEN IF r.op = "read" THEN Hit(lines, r.addr) ELSE r.op = "write" => ready
    ELSE ready

ReadData(st, lines, r, data) ==
  IF st = "FETCH" THEN data ELSE lines[r.addr]

HitFetches(st, lines, r, ready) ==   \* mutant: a read hit is not told from a miss
  IF st = "IDLE"
    THEN IF r.op = "read" THEN "FETCH"
         ELSE IF r.op = "write" /\ ~ready THEN "WRITE" ELSE "IDLE"
    ELSE IF ready THEN "IDLE" ELSE st

NextState(st, lines, r, ready) ==
  IF st = "IDLE"
    THEN IF r.op = "read" /\ ~Hit(lines, r.addr) THEN "FETCH"
         ELSE IF r.op = "write" /\ ~ready THEN "WRITE" ELSE "IDLE"
    ELSE IF ready THEN "IDLE" ELSE st

FillOnly(st, lines, index, r, ready, data) ==   \* mutant: a write hit leaves the line
  IF st = "FETCH" /\ ready THEN Fill(lines, index, r.addr, data) ELSE lines

(* A write hit updates the line in the first cycle of the access, before   *)
(* the level below has accepted the data.                                  *)
NextLines(st, lines, index, r, ready, data) ==
  IF st = "FETCH" /\ ready
    THEN Fill(lines, index, r.addr, data)
    ELSE IF st = "IDLE" /\ r.op = "write" /\ Hit(lines, r.addr)
      THEN [lines EXCEPT ![r.addr] = r.data]
      ELSE lines
=============================================================================
