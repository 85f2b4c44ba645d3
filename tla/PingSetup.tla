------------------------------ MODULE PingSetup ------------------------------
(***************************************************************************)
(* What the four ping programs do before the first request and after the   *)
(* last report: ping_addr_init with its memory blocks and its raw socket,  *)
(* bind_socket_interface (socket_set in ping_main.c), get_ip_address, and  *)
(* ping_addr_free.  Any call to the system may fail.                       *)
(***************************************************************************)
EXTENDS Integers, Sequences

CONSTANT PingProgs   \* subset of {"ping2", "ping3", "ping_client", "ping_main"}

ASSUME SetupAssumption == PingProgs \subseteq {"ping2", "ping3", "ping_client", "ping_main"}

VARIABLES
  supc,       \* "idle", a step of the program's order, "ready", "freed", "exit"
  suprog,
  blocks,     \* memory blocks held
  fds,        \* descriptors open: "raw", and "temp" within a step
  has,        \* of the socket: "nonblock", "bound"; "ip": the own address is known
  printed     \* a failure was printed

suvars == <<supc, suprog, blocks, fds, has, printed>>

(* The steps each program takes; only ping2.c and ping_main.c have an      *)
(* interface.                                                              *)
Steps ==
  [ping2       |-> <<"alloc", "socket", "bind", "table", "address", "ready">>,
   ping3       |-> <<"alloc", "socket", "table", "ready">>,
   ping_client |-> <<"alloc", "socket", "table", "ready">>,
   ping_main   |-> <<"alloc", "socket", "table", "bind", "address", "ready">>]

Following(step) ==
  LET s == Steps[suprog] IN s[1 + CHOOSE n \in DOMAIN s : s[n] = step]

Does(step) == \E n \in DOMAIN Steps[suprog] : Steps[suprog][n] = step

Start ==
  /\ supc = "idle"
  /\ suprog' \in PingProgs
  /\ supc' = "alloc"
  /\ UNCHANGED <<blocks, fds, has, printed>>

Proceed(step) == supc' = Following(step) /\ UNCHANGED suprog
Exit          == supc' = "exit" /\ printed' = TRUE /\ UNCHANGED suprog

-----------------------------------------------------------------------------
(* ping_addr_init                                                          *)

AllocPtr ==
  /\ supc = "alloc"
  /\ \/ Proceed("alloc") /\ blocks' = {"ptr"} /\ UNCHANGED printed
     \/ Exit /\ UNCHANGED blocks
  /\ UNCHANGED <<fds, has>>

(* ping_socket_creat: the buffers, the time to live and O_NONBLOCK (not in *)
(* ping3.c) are set as far as it goes; the second fcntl fails silently.    *)
OpenSocket ==
  /\ supc = "socket"
  /\ Proceed("socket") /\ fds' = {"raw"} /\ UNCHANGED blocks
  /\ \/ suprog # "ping3" /\ has' = has \cup {"nonblock"}
     \/ UNCHANGED has
  /\ printed' \in {printed, TRUE}

(* ping_main.c returns NULL, the others exit.                              *)
SocketFails ==
  /\ supc = "socket"
  /\ Exit
  /\ blocks' = IF suprog = "ping_main" THEN {} ELSE blocks
  /\ UNCHANGED <<fds, has>>

(* When the second block cannot be had the first one is given back, and    *)
(* test() exits; the socket stays open.                                    *)
AllocTable ==
  /\ supc = "table"
  /\ \/ Proceed("table") /\ blocks' = blocks \cup {"table"} /\ UNCHANGED printed
     \/ Exit /\ blocks' = {}
  /\ UNCHANGED <<fds, has>>

-----------------------------------------------------------------------------
(* bind_socket_interface and get_ip_address open a socket of their own for *)
(* one ioctl.                                                              *)

Asking == {"bind", "address"}

(* ping2.c goes on when it cannot bind, and not without its address;       *)
(* ping_main.c the other way round, as long as it gets the socket.         *)
GoOnOrExit(step, opened) ==
  IF <<suprog, step, opened>> \in {<<"ping2", "address", TRUE>>, <<"ping2", "address", FALSE>>,
                                   <<"ping_main", "bind", FALSE>>}
  THEN Exit
  ELSE Proceed(step) /\ printed' = TRUE

OpenTemp ==
  /\ \E step \in Asking :
       /\ supc = step /\ "temp" \notin fds
       /\ \/ fds' = fds \cup {"temp"} /\ UNCHANGED <<supc, suprog, printed>>
          \/ GoOnOrExit(step, FALSE) /\ UNCHANGED fds
  /\ UNCHANGED <<blocks, has>>

LeftOpen == fds              \* fault: return without close(sfd)
Closed   == fds \ {"temp"}

AskFails ==
  /\ \E step \in Asking : supc = step /\ "temp" \in fds /\ GoOnOrExit(step, TRUE)
  /\ fds' = Closed
  /\ UNCHANGED <<blocks, has>>

(* SO_BINDTODEVICE may still be refused.                                   *)
Bind ==
  /\ supc = "bind" /\ "temp" \in fds
  /\ Proceed("bind") /\ fds' = fds \ {"temp"}
  /\ \/ has' = has \cup {"bound"} /\ UNCHANGED printed
     \/ printed' = TRUE /\ UNCHANGED has
  /\ UNCHANGED blocks

GetAddress ==
  /\ supc = "address" /\ "temp" \in fds
  /\ Proceed("address") /\ fds' = fds \ {"temp"}
  /\ has' = has \cup {"ip"}
  /\ UNCHANGED <<blocks, printed>>

-----------------------------------------------------------------------------
(* ping_addr_free, which ping_main.c does not have.                        *)
ping_addr_free ==
  /\ supc = "ready" /\ suprog # "ping_main"
  /\ fds' = fds \ {"raw"} /\ blocks' = {}
  /\ supc' = "freed"
  /\ UNCHANGED <<suprog, has, printed>>

SetupInit ==
  /\ supc = "idle" /\ suprog = "ping3"
  /\ blocks = {} /\ fds = {} /\ has = {} /\ printed = FALSE

SetupEnds ==
  /\ supc \in {"freed", "exit"} \/ (supc = "ready" /\ suprog = "ping_main")
  /\ UNCHANGED suvars

SetupNext ==
  \/ Start \/ AllocPtr \/ OpenSocket \/ SocketFails \/ AllocTable
  \/ OpenTemp \/ AskFails \/ Bind \/ GetAddress \/ ping_addr_free \/ SetupEnds

SetupSpec == SetupInit /\ [][SetupNext]_suvars

-----------------------------------------------------------------------------
(* Whichever calls fail: a program that comes to its first request has the *)
(* socket, both blocks and no other descriptor, ping2 knows its address,   *)
(* and a binding or an address it misses was reported; one that gives up   *)
(* says so and leaves no temporary descriptor; after ping_addr_free        *)
(* nothing is left.                                                        *)
SetupSound ==
  /\ supc = "ready" =>
       /\ fds = {"raw"} /\ blocks = {"ptr", "table"}
       /\ suprog = "ping2" => "ip" \in has
       /\ ~printed => (Does("bind") => "bound" \in has) /\ (Does("address") => "ip" \in has)
  /\ supc = "exit"  => printed /\ "temp" \notin fds
  /\ supc = "freed" => fds = {} /\ blocks = {}
=============================================================================
