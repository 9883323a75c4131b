------------------------------- MODULE Server -------------------------------
(***************************************************************************)
(* The server: src/server/server.c under the event loop of                 *)
(* src/server/main.c.  epoll_wait() reports a batch of events, each with   *)
(* the address of an epoll_context inside a struct server_client; the      *)
(* handlers of a batch run one behind the other and free and allocate such *)
(* structs while later events of the batch are still to be handled.        *)
(***************************************************************************)
EXTENDS Integers, Sequences, FiniteSets

CONSTANTS
  Structs,    \* addresses malloc() may give to a struct server_client
  Fds,        \* descriptors accept() may give
  Listener,   \* server->epctx, the context of the listening socket
  NoFd, NoPtr,
  Batch,      \* ARRAY_SIZE(events) in main(), 16 there
  Backlog,    \* listen(server_fd, 5)
  MaxPeers,   \* bound: connections that wait or are open
  Faults      \* calls that may fail: "accept", "memory", "add"

\* MCDaemons assumes it of the instance.
ServerAssumption ==
  /\ Listener \notin Structs /\ NoPtr \notin Structs \cup {Listener} /\ NoFd \notin Fds
  /\ Batch \in Nat \ {0} /\ Backlog \in Nat /\ MaxPeers \in Nat
  /\ Faults \subseteq {"accept", "memory", "add"}

VARIABLES
  mem,      \* of every address: "free", "live", or "leaked"
  fdOf,     \* client->fd
  list,     \* server->clients
  sock,     \* of every descriptor: "free", "up", "eof" or "reset"
  watch,    \* the epoll set: ev.data.ptr of every descriptor
  backlog,  \* connections that wait to be accepted
  events    \* events[i..ret-1] in main(): <<descriptor, data.ptr, flags>>

vars == <<mem, fdOf, list, sock, watch, backlog, events>>

Init ==
  /\ mem = [c \in Structs |-> "free"]
  /\ fdOf = [c \in Structs |-> NoFd]
  /\ list = {}
  /\ sock = [f \in Fds |-> "free"]
  /\ watch = [f \in Fds |-> NoPtr]
  /\ backlog = 0
  /\ events = <<>>

-----------------------------------------------------------------------------
(* the peers *)

Connect ==
  /\ backlog < Backlog
  /\ backlog + Cardinality({f \in Fds : sock[f] # "free"}) < MaxPeers
  /\ backlog' = backlog + 1
  /\ UNCHANGED <<mem, fdOf, list, sock, watch, events>>

Leave(f) ==
  /\ \/ sock[f] = "up" /\ sock' = [sock EXCEPT ![f] = "eof"]
     \/ sock[f] \in {"up", "eof"} /\ sock' = [sock EXCEPT ![f] = "reset"]
  /\ UNCHANGED <<mem, fdOf, list, watch, backlog, events>>

-----------------------------------------------------------------------------
(* main(): epoll_wait() *)

\* What may be reported; a connection that is up has data or not.
Ready ==
  {<<NoFd, Listener, {"IN"}>> : x \in {0} \cap 0..(backlog - 1)}
  \cup {<<f, watch[f], {"IN"}>> : f \in {g \in Fds : watch[g] # NoPtr /\ sock[g] \in {"up", "eof"}}}
  \cup {<<f, watch[f], fl>> : f \in {g \in Fds : watch[g] # NoPtr /\ sock[g] = "reset"},
                              fl \in {{"IN", "ERR"}, {"ERR"}}}

\* No descriptor is reported twice.
Wait ==
  /\ events = <<>>
  /\ \E n \in 1..Batch : \E b \in [1..n -> Ready] :
       /\ \A i, j \in 1..n : i # j => b[i][1] # b[j][1]
       /\ events' = b
  /\ UNCHANGED <<mem, fdOf, list, sock, watch, backlog>>

-----------------------------------------------------------------------------
(* server.c *)

\* Mutant: the struct is freed but stays in the list.
FreedKeepList(c) ==
  /\ mem' = [mem EXCEPT ![c] = "free"]
  /\ fdOf' = [fdOf EXCEPT ![c] = NoFd]
  /\ sock' = [sock EXCEPT ![fdOf[c]] = "free"]
  /\ watch' = [watch EXCEPT ![fdOf[c]] = NoPtr]
  /\ UNCHANGED list

\* disconnect_client()
Disconnect(c) ==
  /\ mem' = [mem EXCEPT ![c] = "free"]
  /\ fdOf' = [fdOf EXCEPT ![c] = NoFd]
  /\ list' = list \ {c}
  /\ sock' = [sock EXCEPT ![fdOf[c]] = "free"]
  /\ watch' = [watch EXCEPT ![fdOf[c]] = NoPtr]

\* Mutant: one client that hangs up ends all of them.
HandleClientAll(c, flags) ==
  IF "ERR" \in flags
  THEN /\ mem' = [d \in Structs |-> IF d \in list THEN "free" ELSE mem[d]]
       /\ fdOf' = [d \in Structs |-> NoFd]
       /\ list' = {}
       /\ sock' = [f \in Fds |-> "free"]
       /\ watch' = [f \in Fds |-> NoPtr]
  ELSE UNCHANGED <<mem, fdOf, list, sock, watch>>

\* Mutant: only an error ends the connection.
HandleClientErrorOnly(c, flags) ==
  IF "ERR" \in flags THEN Disconnect(c) ELSE UNCHANGED <<mem, fdOf, list, sock, watch>>

\* handle_client(): dw_get_packet() fails when it finds the connection closed.
HandleClient(c, flags) ==
  IF \/ "IN" \in flags /\ sock[fdOf[c]] \in {"eof", "reset"}
     \/ "ERR" \in flags
  THEN Disconnect(c)
  ELSE UNCHANGED <<mem, fdOf, list, sock, watch>>

\* new_client() with every call successful; the peer may have left already.
Accepted(c, f) ==
  /\ backlog > 0
  /\ backlog' = backlog - 1
  /\ mem' = [mem EXCEPT ![c] = "live"]
  /\ fdOf' = [fdOf EXCEPT ![c] = f]
  /\ list' = list \cup {c}
  /\ \E s \in {"up", "eof", "reset"} : sock' = [sock EXCEPT ![f] = s]
  /\ watch' = [watch EXCEPT ![f] = c]

\* malloc() of the struct fails.
NoMemory == "memory" \in Faults /\ UNCHANGED <<mem, fdOf, list, sock, watch, backlog>>

\* accept() fails: the struct is not freed.
AcceptFails(c) ==
  /\ "accept" \in Faults
  /\ mem' = [mem EXCEPT ![c] = "leaked"]
  /\ UNCHANGED <<fdOf, list, sock, watch, backlog>>

\* dw_init_packet() fails: the connection is closed, the struct is not freed.
NoContext(c) ==
  /\ "memory" \in Faults
  /\ backlog > 0
  /\ backlog' = backlog - 1
  /\ mem' = [mem EXCEPT ![c] = "leaked"]
  /\ UNCHANGED <<fdOf, list, sock, watch>>

\* EPOLL_CTL_ADD fails: disconnect_client() undoes it all.
AddFails ==
  /\ "add" \in Faults
  /\ backlog > 0
  /\ backlog' = backlog - 1
  /\ UNCHANGED <<mem, fdOf, list, sock, watch>>

\* handle_server() and new_client()
HandleServer ==
  \/ NoMemory
  \/ \E c \in Structs : mem[c] = "free" /\ (AcceptFails(c) \/ NoContext(c))
  \/ \E c \in Structs, f \in Fds :
       mem[c] = "free" /\ sock[f] = "free" /\ (Accepted(c, f) \/ AddFails)

\* main(): the next event of the batch
Handle ==
  /\ events # <<>>
  /\ LET e == Head(events)
     IN  IF e[2] = Listener THEN HandleServer
         ELSE HandleClient(e[2], e[3]) /\ UNCHANGED backlog
  /\ events' = Tail(events)

Next == (\E f \in Fds : Leave(f)) \/ Connect \/ Wait \/ Handle

Spec == Init /\ [][Next]_vars

\* The loop is one thread whose handlers return; epoll keeps the descriptors
\* that are ready in a queue, so that each is reported again and again.
Fairness ==
  /\ WF_vars(Handle)
  /\ \A f \in Fds \cup {NoFd} :
       SF_vars(Wait /\ \E i \in DOMAIN events' : events'[i][1] = f)

-----------------------------------------------------------------------------
(* properties *)

TypeOK ==
  /\ mem \in [Structs -> {"free", "live", "leaked"}]
  /\ fdOf \in [Structs -> Fds \cup {NoFd}]
  /\ list \subseteq Structs
  /\ sock \in [Fds -> {"free", "up", "eof", "reset"}]
  /\ watch \in [Fds -> Structs \cup {NoPtr}]
  /\ backlog \in 0..Backlog
  /\ events \in Seq((Fds \cup {NoFd}) \X (Structs \cup {Listener})
                    \X SUBSET {"IN", "ERR"})
  /\ Len(events) <= Batch

(***************************************************************************)
(* No event of the batch points into a struct that a handler of the same   *)
(* batch has freed, nor into one that was freed and allocated again for    *)
(* another connection: main() reads epctx->callback through that pointer.  *)
(***************************************************************************)
BatchFresh ==
  \A i \in DOMAIN events :
    LET f == events[i][1]
        c == events[i][2]
    IN  c # Listener => f \in Fds /\ mem[c] = "live" /\ fdOf[c] = f /\ watch[f] = c

(***************************************************************************)
(* list, epoll set, descriptors and structs are four views of the same     *)
(* connections, on every error exit of new_client() too.                   *)
(***************************************************************************)
ViewsAgree ==
  /\ list = {c \in Structs : mem[c] = "live"}
  /\ \A c \in Structs : IF c \in list THEN fdOf[c] \in Fds /\ watch[fdOf[c]] = c
                        ELSE fdOf[c] = NoFd
  /\ \A f \in Fds : IF sock[f] = "free" THEN watch[f] = NoPtr
                    ELSE watch[f] \in list /\ fdOf[watch[f]] = f

(***************************************************************************)
(* A connection whose peer has left is taken down in the end, although the *)
(* others keep the loop busy and a batch has only room for some of them.   *)
(***************************************************************************)
Released == \A f \in Fds : sock[f] \in {"eof", "reset"} ~> sock[f] = "free"
=============================================================================
