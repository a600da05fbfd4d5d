------------------------------- MODULE DciLog -------------------------------
(***************************************************************************)
(* The log of downlink control information shared by the two threads of    *)
(* dci_copa_rx.cc (struct ngscope_dci_CA_t, ngscope_dci.cc): a ring buffer *)
(* per cell, the window of TTIs all cells have logged, and the time of the *)
(* most recent retransmission per cell and direction.  The thread of       *)
(* ngscope_dci_recv.cc inserts what NG-Scope sends; the main thread copies *)
(* the log when it finds a new retransmission (ngscope_client.cc).  Each   *)
(* of these holds dci_mutex throughout and is one step.                    *)
(*                                                                         *)
(* A DCI is the millisecond it is about, counted from before the first, so *)
(* that 0 means none, and whether it announces a retransmission.  Block    *)
(* sizes belong to the module Client; PRB counts and curr_time are stored *)
(* by the code but not read.                                               *)
(***************************************************************************)
EXTENDS TTI, Sequences

CONSTANTS
  NumLog,      \* NOF_LOG_DCI: entries of a ring buffer
  NumCells,    \* MAX_NOF_RF_DEV
  FirstMs,     \* the millisecond of the first DCI
  LastMs,      \* bound: the last millisecond
  MaxSkew,     \* bound: milliseconds one cell can be ahead of another
  ReTxMs,      \* bound: the milliseconds that may bring a retransmission
  Garbage      \* what a read of dci[-1].tti may return

ASSUME DciLogAssumption ==
  /\ NumLog \in Nat \ {0}
  /\ NumCells \in Nat \ {0}
  /\ FirstMs \in Nat \ {0} /\ LastMs \in Nat /\ MaxSkew \in Nat
  /\ ReTxMs \subseteq Nat /\ Garbage \subseteq Nat

Cells == 0 .. NumCells - 1
Directions == {"dl", "ul"}

VARIABLES
  header, nof_logged_dci, dci,   \* the ring buffer of each cell
  recent_reTx,                   \* per direction and cell, 0 before the first
  nof_cell, ca_ready, ca_header, ca_tail,
  seen_reTx,     \* the main thread's recent_dl_reTx_us and recent_ul_reTx_us
  new_reTx,      \* what its last look announced, per direction
  dci_all,       \* its copy of the log
  log            \* history: the last NumLog DCIs of each cell, oldest first

logVars == <<header, nof_logged_dci, dci, recent_reTx, nof_cell, ca_ready,
             ca_header, ca_tail, log>>
clientVars == <<seen_reTx, new_reTx, dci_all>>
vars == <<logVars, clientVars>>

DCI == [ms : Nat, reTx : SUBSET Directions]
NoDCI == [ms |-> 0, reTx |-> {}]

tti(d) == wrap_tti(d.ms)

(* ngscope_dci_CA_init and the start of echo_packets, which allocates the  *)
(* copies without a value: a cell's is read only after it was copied, and  *)
(* the empty sequence stands for what it is before.                        *)
Init ==
  /\ header = [c \in Cells |-> 0]
  /\ nof_logged_dci = [c \in Cells |-> 0]
  /\ dci = [c \in Cells |-> [i \in 0 .. NumLog - 1 |-> NoDCI]]
  /\ recent_reTx = [x \in Directions |-> [c \in Cells |-> 0]]
  /\ nof_cell = 1
  /\ ca_ready = FALSE
  /\ ca_header = 0
  /\ ca_tail = 0
  /\ seen_reTx = [x \in Directions |-> [c \in Cells |-> 0]]
  /\ new_reTx = {}
  /\ dci_all = [c \in Cells |-> <<>>]
  /\ log = [c \in Cells |-> <<>>]
-----------------------------------------------------------------------------
(* find_dci_cell_tail, of the ring buffers after an insertion. *)
find_dci_cell_tail(c) ==
  tti(dci'[c][(header'[c] - nof_logged_dci'[c] + NumLog) % NumLog])

(* The newest TTI of a cell: (header - 1) % NOF_LOG_DCI is -1 in C when    *)
(* the header has come round to 0.                                         *)
HeaderTTIs(c) ==
  IF header'[c] = 0 THEN Garbage ELSE {tti(dci'[c][header'[c] - 1])}

(* Mutant: the window ends with the newest TTI of any cell. *)
CaHeaderMax(hs) == wrap_tti(max_in_array(unwrap_tti_array(hs)))

(* The newest TTI that all cells have. *)
CaHeader(hs) == wrap_tti(min_in_array(unwrap_tti_array(hs)))

(* The TTI after the oldest one of the cell that reaches back least; the   *)
(* tails are not unwrapped.                                                *)
CaTail(ts) == wrap_tti(max_in_array(ts) + 1)

ca_update_header ==
  LET used == 0 .. nof_cell - 1
  IN  IF ca_ready
        THEN /\ \E hs \in [used -> Garbage \cup 0 .. MaxTTI - 1] :
                  /\ \A c \in used : hs[c] \in HeaderTTIs(c)
                  /\ ca_header' = CaHeader(hs)
             /\ ca_tail' = CaTail([c \in used |-> find_dci_cell_tail(c)])
             /\ UNCHANGED ca_ready
        ELSE /\ ca_ready' = \A c \in used : header'[c] # 0
             /\ UNCHANGED <<ca_header, ca_tail>>

LastN(s) == IF Len(s) <= NumLog THEN s ELSE SubSeq(s, Len(s) - NumLog + 1, Len(s))

(* Mutant: the count goes on after the ring is full. *)
LoggedUncapped(n) == n + 1

(* The number of entries in a ring that had n, after an insertion. *)
Logged(n) == IF n < NumLog THEN n + 1 ELSE n

(* ngscope_dci_CA_insert *)
Insert(c, d) ==
  /\ dci' = [dci EXCEPT ![c][header[c]] = d]
  /\ header' = [header EXCEPT ![c] = (@ + 1) % NumLog]
  /\ nof_logged_dci' = [nof_logged_dci EXCEPT ![c] = Logged(@)]
  /\ recent_reTx' = [x \in Directions |->
                       IF x \in d.reTx THEN [recent_reTx[x] EXCEPT ![c] = d.ms]
                                       ELSE recent_reTx[x]]
  /\ ca_update_header
  /\ log' = [log EXCEPT ![c] = LastN(Append(@, d))]
  /\ UNCHANGED nof_cell

(* The millisecond of the cell's newest DCI. *)
Newest(c) == IF log[c] = <<>> THEN FirstMs - 1 ELSE log[c][Len(log[c])].ms

(* recv_one_dci: the next DCI of a cell NG-Scope decodes, or a later one   *)
(* when datagrams were lost; it may announce both retransmissions.         *)
RecvDci ==
  /\ \E c \in Cells, reTx \in SUBSET Directions, lost \in 0 .. LastMs :
       LET ms == Newest(c) + 1 + lost
       IN  /\ ms <= LastMs
           /\ \A o \in Cells \ {c} : ms <= Newest(o) + MaxSkew
           /\ reTx # {} => ms \in ReTxMs
           /\ Insert(c, [ms |-> ms, reTx |-> reTx])
  /\ UNCHANGED clientVars

(* recv_config.  NG-Scope has at least one radio front end and at most as  *)
(* many as there is room for; recv_config itself takes any number it says. *)
RecvConfig ==
  /\ nof_cell' \in 1 .. NumCells
  /\ nof_cell' # nof_cell
  /\ UNCHANGED <<header, nof_logged_dci, dci, recent_reTx, ca_ready, ca_header,
                 ca_tail, log, seen_reTx, new_reTx, dci_all>>
-----------------------------------------------------------------------------
(* Mutant: a full ring is copied from one entry too far on. *)
ExtractShifted(c) ==
  [i \in 1 .. nof_logged_dci[c] |->
     dci[c][IF nof_logged_dci[c] < NumLog THEN i - 1 ELSE (header[c] + i) % NumLog]]

(* ngscope_dci_extract_single_cell: the ring, oldest entry first. *)
ngscope_dci_extract_single_cell(c) ==
  [i \in 1 .. nof_logged_dci[c] |->
     dci[c][IF nof_logged_dci[c] < NumLog THEN i - 1
                                          ELSE (header[c] + i - 1) % NumLog]]

(* ngscope_dci_new_dl_reTx and its uplink twin: is the most recent         *)
(* retransmission of some cell not the one seen?  The first one a cell has *)
(* is not new.                                                             *)
Differs(x) ==
  {c \in 0 .. nof_cell - 1 :
     seen_reTx[x][c] # 0 /\ seen_reTx[x][c] # recent_reTx[x][c]}

(* What the look leaves in seen_reTx: all cells' when one was new (the     *)
(* copy that follows), else only the first ones.                           *)
SeenAfter(x) ==
  [c \in Cells |->
     IF c < nof_cell /\ (Differs(x) # {} \/ seen_reTx[x][c] = 0)
       THEN recent_reTx[x][c]
       ELSE seen_reTx[x][c]]

(* The copy of the log, of the cells in use. *)
Copied == [c \in Cells |-> IF c < nof_cell THEN ngscope_dci_extract_single_cell(c)
                                          ELSE dci_all[c]]

(* Mutant: only a downlink retransmission makes a copy. *)
CopyForDownlink ==
  /\ new_reTx' = {x \in Directions : Differs(x) # {}}
  /\ seen_reTx' = [x \in Directions |-> SeenAfter(x)]
  /\ dci_all' = IF "dl" \in new_reTx' THEN Copied ELSE dci_all
  /\ UNCHANGED logVars

(* copy_dci_data_from_struct, when a packet has arrived. *)
CopyDciData ==
  /\ new_reTx' = {x \in Directions : Differs(x) # {}}
  /\ seen_reTx' = [x \in Directions |-> SeenAfter(x)]
  /\ dci_all' = IF new_reTx' # {} THEN Copied ELSE dci_all
  /\ UNCHANGED logVars

Next == RecvDci \/ RecvConfig \/ CopyDciData

Spec == Init /\ [][Next]_vars
-----------------------------------------------------------------------------
(* Ring indices, counts and copies have their types.                       *)
TypeOK ==
  /\ header \in [Cells -> 0 .. NumLog - 1]
  /\ nof_logged_dci \in [Cells -> 0 .. NumLog]
  /\ dci \in [Cells -> [0 .. NumLog - 1 -> DCI]]
  /\ recent_reTx \in [Directions -> [Cells -> Nat]]
  /\ nof_cell \in 1 .. NumCells
  /\ ca_ready \in BOOLEAN
  /\ ca_header \in 0 .. MaxTTI - 1
  /\ ca_tail \in 0 .. MaxTTI - 1
  /\ seen_reTx \in [Directions -> [Cells -> Nat]]
  /\ new_reTx \subseteq Directions
  /\ dci_all \in [Cells -> Seq(DCI)]
  /\ log \in [Cells -> Seq(DCI)]

(* What extract_single_cell unrolls from the ring is the last NumLog DCIs  *)
(* of the cell in the order they came, before, at and after the wrap.      *)
ExtractIsRecent ==
  \A c \in Cells : ngscope_dci_extract_single_cell(c) = log[c]

(* A retransmission the main thread is told of is in the copy it gets with *)
(* the news, unless NumLog later DCIs have pushed it out of the log.       *)
AnnouncedIsCopied ==
  [][\A x \in Directions : \A c \in Differs(x) :
       seen_reTx'[x][c] # seen_reTx[x][c] =>
         \/ \E i \in DOMAIN dci_all'[c] :
              dci_all'[c][i].ms = recent_reTx[x][c] /\ x \in dci_all'[c][i].reTx
         \/ \A i \in DOMAIN log[c] : log[c][i].ms > recent_reTx[x][c]]_vars

InUse == 0 .. nof_cell - 1

(* No DCI is missing among the logged ones of the cells in use, and there  *)
(* are milliseconds that all of them have logged.                          *)
Common ==
  /\ \A c \in InUse :
       /\ log[c] # <<>>
       /\ \A i \in 1 .. Len(log[c]) - 1 : log[c][i + 1].ms = log[c][i].ms + 1
  /\ \A c, o \in InUse : log[c][1].ms < Newest(o)

(* The oldest TTIs of the cells lie on one side of the wrap. *)
TailsTogether ==
  \A c, o \in InUse : log[c][1].ms \div MaxTTI = log[o][1].ms \div MaxTTI

(* extract_ca_trace looks up the ends of the window in every cell and      *)
(* walks from one to the other: every TTI from ca_tail to ca_header is     *)
(* logged in every cell in use.                                            *)
WindowLogged ==
  \A c \in InUse, i \in 0 .. tti_to_idx(ca_header, ca_tail) :
    \E k \in DOMAIN log[c] : tti(log[c][k]) = wrap_tti(ca_tail + i)

(* ca_update_header leaves a window that all cells have logged, while no   *)
(* ring is exactly at its wrap, where the code reads dci[-1], and the      *)
(* tails, which it compares without unwrapping, do not straddle theirs.    *)
InsertKeepsWindow ==
  [][(log' # log /\ ca_ready /\ Common' /\ TailsTogether'
       /\ \A c \in 0 .. nof_cell - 1 : header'[c] # 0) => WindowLogged']_vars

(* The note in ca_update_header that the header is a TTI, at all times.    *)
HeaderIsTTI ==
  [][(log' # log /\ ca_ready /\ Common' /\ TailsTogether') => WindowLogged']_vars

=============================================================================
