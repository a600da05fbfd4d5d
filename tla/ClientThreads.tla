--------------------------- MODULE ClientThreads ---------------------------
(***************************************************************************)
(* The two threads around the log of DciLog, from start to exit: the main  *)
(* thread of dci_copa_rx.cc (or of test_dci_recv.cc, which only waits) and *)
(* ngscope_dci_recv_udp_thread.  They share, without dci_mutex, the flags  *)
(* go_exit and sock_ready, the log files and the initialisation of the log.*)
(*                                                                         *)
(* The thread blocks in recvfrom and sees go_exit only when a datagram has *)
(* come, which holds some messages, each looked at unless go_exit is set;  *)
(* the main thread never blocks but in pthread_join.                       *)
(***************************************************************************)
EXTENDS DciLog

CONSTANTS
  Programs,  \* of "dci_copa_rx" and "test_dci_recv", those that run
  Signals    \* may the user press Ctrl-C?

ASSUME ClientThreadsAssumption ==
  /\ Programs \subseteq {"dci_copa_rx", "test_dci_recv"}
  /\ Signals \in BOOLEAN

VARIABLES
  program,
  main,         \* "waiting" for sock_ready, "looping", "joining" or "ended"
  receiver,     \* the thread: "starting", "connecting" or "receiving" (in
                \* recvfrom or at the next message of a datagram), or "ended"
  go_exit,
  sock_ready,
  nof_cli_req,  \* requests for a connection
  files_open    \* ngscope_debug_client_fd_init .. fd_close

threadVars == <<program, main, receiver, go_exit, sock_ready, nof_cli_req, files_open>>
allVars == <<vars, threadVars>>

(* Both programs open the files and create the thread. *)
Start ==
  /\ Init
  /\ program \in Programs
  /\ main = IF program = "dci_copa_rx" THEN "waiting" ELSE "joining"
  /\ receiver = "starting"
  /\ go_exit = FALSE /\ sock_ready = FALSE /\ nof_cli_req = 0
  /\ files_open = TRUE
-----------------------------------------------------------------------------
(* The thread's part. *)

(* ngscope_dci_CA_init (which is DciLog's Init), socket and bind. *)
StartReceiver ==
  /\ receiver = "starting"
  /\ receiver' = IF go_exit THEN "ended" ELSE "connecting"
  /\ sock_ready' = go_exit
  /\ UNCHANGED <<vars, program, main, go_exit, nof_cli_req, files_open>>

(* Mutant: the connection is waited for whatever happens. *)
ConnectOverNoExit(n) == n >= 2

(* The end of the loop that builds the connection. *)
ConnectOver(n) == go_exit \/ n >= 2

(* A datagram that may be a request; after the loop the socket is ready,   *)
(* connection or not.                                                      *)
Connect ==
  /\ receiver = "connecting"
  /\ nof_cli_req' \in {nof_cli_req, nof_cli_req + 1}
  /\ sock_ready' = ConnectOver(nof_cli_req')
  /\ receiver' = CASE ~sock_ready' -> "connecting"
                   [] sock_ready' /\ go_exit -> "ended"
                   [] OTHER -> "receiving"
  /\ UNCHANGED <<vars, program, main, go_exit, files_open>>

(* A datagram arrives after go_exit was set, or has another message. *)
Leave ==
  /\ receiver = "receiving" /\ go_exit
  /\ receiver' = "ended"
  /\ UNCHANGED <<vars, program, main, go_exit, sock_ready, nof_cli_req, files_open>>

(* A message, or a datagram with an unknown preamble or too few bytes,     *)
(* which is dropped.                                                       *)
Message ==
  /\ receiver = "receiving" /\ ~go_exit
  /\ RecvDci \/ RecvConfig \/ UNCHANGED vars
  /\ UNCHANGED threadVars

(* NG-Scope's message to exit. *)
ExitMessage ==
  /\ receiver = "receiving" /\ ~go_exit
  /\ go_exit' = TRUE
  /\ receiver' = "ended"
  /\ UNCHANGED <<vars, program, main, sock_ready, nof_cli_req, files_open>>
-----------------------------------------------------------------------------
(* The main thread's part. *)

(* Mutant: the main thread goes on after its sleep. *)
WaitOverAnyhow == TRUE

WaitOver == go_exit \/ sock_ready

(* The loop that waits for sock_ready, and NAT punching. *)
Wait ==
  /\ main = "waiting" /\ WaitOver
  /\ main' = IF go_exit THEN "joining" ELSE "looping"
  /\ UNCHANGED <<vars, program, receiver, go_exit, sock_ready, nof_cli_req, files_open>>

(* A round of the main loop, which does not block. *)
Round ==
  /\ main = "looping"
  /\ CopyDciData \/ UNCHANGED vars
  /\ main' = IF go_exit THEN "joining" ELSE "looping"
  /\ UNCHANGED <<program, receiver, go_exit, sock_ready, nof_cli_req, files_open>>

(* pthread_join, and the files are closed. *)
Join ==
  /\ main = "joining" /\ receiver = "ended"
  /\ main' = "ended"
  /\ files_open' = FALSE
  /\ UNCHANGED <<vars, program, receiver, go_exit, sock_ready, nof_cli_req>>

(* sig_int_handler, which only dci_copa_rx installs. *)
SigInt ==
  /\ Signals /\ program = "dci_copa_rx" /\ main # "ended"
  /\ ~go_exit
  /\ go_exit' = TRUE
  /\ UNCHANGED <<vars, program, main, receiver, sock_ready, nof_cli_req, files_open>>

ThreadsNext ==
  \/ StartReceiver
  \/ Connect
  \/ Message
  \/ ExitMessage
  \/ Leave
  \/ Wait
  \/ Round
  \/ Join
  \/ SigInt

ThreadsSpec == Start /\ [][ThreadsNext]_allVars

(* The thread in recvfrom is woken by whatever comes. *)
Woken == Leave \/ (Connect /\ UNCHANGED nof_cli_req)

(* The threads are scheduled, and something comes from NG-Scope, which     *)
(* reports every subframe.                                                 *)
FairThreadsSpec ==
  /\ ThreadsSpec
  /\ WF_allVars(StartReceiver) /\ WF_allVars(Woken)
  /\ WF_allVars(Wait) /\ WF_allVars(Round) /\ WF_allVars(Join)
-----------------------------------------------------------------------------
(* The state of the log and of the threads has its type.                   *)
ThreadsTypeOK ==
  /\ TypeOK
  /\ program \in Programs
  /\ main \in {"waiting", "looping", "joining", "ended"}
  /\ receiver \in {"starting", "connecting", "receiving", "ended"}
  /\ go_exit \in BOOLEAN /\ sock_ready \in BOOLEAN /\ files_open \in BOOLEAN
  /\ nof_cli_req \in 0 .. 2

(* What the threads share without a mutex has one user at a time, whenever *)
(* Ctrl-C and the message to exit come: the thread has its log files until *)
(* it ends, and the main thread does not read the log, with or without     *)
(* dci_mutex, while the thread initialises it without.                     *)
SharedInLifetime ==
  /\ receiver # "ended" => files_open
  /\ main = "looping" => receiver # "starting"

(* The program ends after Ctrl-C or NG-Scope's message, also during the    *)
(* building of the connection, although one thread blocks in recvfrom and  *)
(* the other in pthread_join.                                              *)
ExitEnds == go_exit ~> main = "ended"

=============================================================================
