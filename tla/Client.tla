------------------------------- MODULE Client -------------------------------
(***************************************************************************)
(* The connection of the client to the server: src/client/client.c under   *)
(* the event loop of src/client/main.c, with its one retry timer, its one  *)
(* epoll_context and the descriptors the kernel hands out.  The packets    *)
(* that dw_get_packet() returns are in module Packet; here a read succeeds *)
(* or finds the connection closed.                                         *)
(*                                                                         *)
(* An event is collected by epoll_wait() in one step and handled in a      *)
(* later one: the peer acts in between.  Other threads of the process (the *)
(* logger) open and close descriptors at any time.                         *)
(***************************************************************************)
EXTENDS FiniteSets

CONSTANTS
  Fds,      \* descriptors the kernel has
  NoFd,     \* client->fd = 0, a NULL dpctx
  Faults    \* calls that may fail: "socket", "connect", "immediate", "add",
            \* "memory", "mod"; "immediate" is connect() returning 0

ASSUME ClientAssumption ==
  /\ NoFd \notin Fds
  /\ Faults \subseteq {"socket", "connect", "immediate", "add", "memory", "mod"}

VARIABLES
  fd, dpctx,    \* of struct DwClient; dpctx is the descriptor it reads
  callback,     \* client->epctx->callback
  timer,        \* client->timer->state
  sock,         \* of every descriptor: "free", "other", or the client's socket
  watch,        \* the epoll set: "none", "out" or "in" for every descriptor
  event         \* the event in main()'s hands: <<>> or <<descriptor, flags>>

vars == <<fd, dpctx, callback, timer, sock, watch, event>>

\* A socket of the client is connecting, up, refused (an error is pending),
\* closed by the peer, or reset.
Open == {"connecting", "up", "refused", "eof", "reset"}

Init ==
  /\ fd = NoFd /\ dpctx = NoFd
  /\ callback = "none"
  /\ timer = "enqueued"     \* init_client()
  /\ sock = [f \in Fds |-> "free"]
  /\ watch = [f \in Fds |-> "none"]
  /\ event = <<>>

-----------------------------------------------------------------------------
(* the kernel, the peer and the other threads *)

Turn(f, from, to) == sock[f] = from /\ sock' = [sock EXCEPT ![f] = to]

Peer(f) ==
  /\ \/ Turn(f, "connecting", "up") \/ Turn(f, "connecting", "refused")
     \/ Turn(f, "up", "eof") \/ Turn(f, "up", "reset") \/ Turn(f, "eof", "reset")
  /\ UNCHANGED <<fd, dpctx, callback, timer, watch, event>>

\* They leave the client a descriptor; "socket" in Faults is the case that not.
OtherThread(f) ==
  /\ \/ /\ Turn(f, "free", "other")
        /\ \E g, h \in Fds : g # h /\ sock'[g] # "other" /\ sock'[h] # "other"
     \/ Turn(f, "other", "free")
  /\ UNCHANGED <<fd, dpctx, callback, timer, watch, event>>

\* What epoll reports of a watched descriptor; errors need not be asked for.
Reported(f) ==
  CASE watch[f] = "out" /\ sock[f] \in {"up", "eof"} -> {{"OUT"}}
    [] watch[f] = "out" /\ sock[f] \in {"refused", "reset"} -> {{"OUT", "ERR"}, {"ERR"}}
    [] watch[f] = "in" /\ sock[f] \in {"up", "eof"} -> {{"IN"}}
    [] watch[f] = "in" /\ sock[f] = "reset" -> {{"IN", "ERR"}, {"ERR"}}
    [] OTHER -> {}

\* epoll_wait() in main()
Wait(f) ==
  /\ event = <<>>
  /\ \E flags \in Reported(f) : event' = <<f, flags>>
  /\ UNCHANGED <<fd, dpctx, callback, timer, sock, watch>>

-----------------------------------------------------------------------------
(* client.c; close() takes a descriptor out of the epoll set *)

Closed(f) ==
  /\ sock' = [sock EXCEPT ![f] = "free"]
  /\ watch' = [watch EXCEPT ![f] = "none"]

\* Mutant: the timer is not set.
DisconnectNoTimer ==
  /\ Closed(dpctx)
  /\ fd' = NoFd /\ dpctx' = NoFd
  /\ UNCHANGED <<callback, timer>>

\* disconnect_server()
Disconnect ==
  /\ Closed(dpctx)
  /\ fd' = NoFd /\ dpctx' = NoFd
  /\ timer' = "enqueued"
  /\ UNCHANGED callback

\* connected_server() on descriptor f.  EPOLL_CTL_MOD fails when f was never
\* added; the new callback stays.
Connected(f) ==
  \/ /\ "memory" \in Faults
     /\ Closed(f)
     /\ UNCHANGED <<dpctx, callback>>
  \/ /\ watch[f] = "none" \/ "mod" \in Faults
     /\ callback' = "handle_data"
     /\ Closed(f)
     /\ UNCHANGED dpctx
  \/ /\ watch[f] # "none"
     /\ callback' = "handle_data"
     /\ watch' = [watch EXCEPT ![f] = "in"]
     /\ dpctx' = f
     /\ UNCHANGED sock

\* Mutant: the socket stays open.
RetryNoClose ==
  /\ watch' = [watch EXCEPT ![fd] = "none"]
  /\ timer' = "enqueued"
  /\ UNCHANGED <<fd, dpctx, callback, sock>>

\* connecting_server(), label retry
Retry ==
  /\ Closed(fd)
  /\ timer' = "enqueued"
  /\ UNCHANGED <<fd, dpctx, callback>>

\* connecting_server(): SO_ERROR is asked now, not when the event was collected.
Connecting ==
  /\ callback = "connecting_server"
  /\ IF "OUT" \in event[2] /\ sock[fd] \in {"up", "eof"}
     THEN Connected(fd) /\ UNCHANGED <<fd, timer>>
     ELSE Retry

\* Mutant: the dpctx is freed but not forgotten.
HandleDataDangling ==
  /\ callback = "handle_data"
  /\ IF "IN" \in event[2] /\ sock[dpctx] \in {"eof", "reset"}
     THEN /\ Closed(dpctx)
          /\ timer' = "enqueued"
          /\ UNCHANGED <<fd, dpctx, callback>>
     ELSE IF "ERR" \in event[2] THEN Disconnect
     ELSE UNCHANGED <<fd, dpctx, callback, timer, sock, watch>>

\* handle_data(): dw_get_packet() fails when it finds the connection closed.
HandleData ==
  /\ callback = "handle_data"
  /\ IF \/ "IN" \in event[2] /\ sock[dpctx] \in {"eof", "reset"}
        \/ "ERR" \in event[2]
     THEN Disconnect
     ELSE UNCHANGED <<fd, dpctx, callback, timer, sock, watch>>

\* main(): epctx->callback(&events[i], epctx->data)
Handle ==
  /\ event # <<>>
  /\ Connecting \/ HandleData
  /\ event' = <<>>

-----------------------------------------------------------------------------
(* try_connect_server(), the callback of the timer *)

NoSocket ==
  /\ "socket" \in Faults
  /\ UNCHANGED <<fd, dpctx, callback, sock, watch>>

\* Mutant: the socket of the last attempt is closed here, to be sure.
PendingCloseOld(f) ==
  /\ fd' = f
  /\ sock' = [g \in Fds |-> IF g = f THEN "connecting" ELSE IF g = fd THEN "free" ELSE sock[g]]
  /\ callback' = "connecting_server"
  /\ watch' = [watch EXCEPT ![f] = "out"]
  /\ UNCHANGED dpctx

\* connect() is in progress; EPOLL_CTL_ADD may fail.
Pending(f) ==
  /\ fd' = f
  /\ sock' = [sock EXCEPT ![f] = "connecting"]
  /\ callback' = "connecting_server"
  /\ \/ watch' = [watch EXCEPT ![f] = "out"]
     \/ "add" \in Faults /\ UNCHANGED watch
  /\ UNCHANGED dpctx

\* connect() fails at once: neither closed nor tried again.
ConnectError(f) ==
  /\ "connect" \in Faults
  /\ fd' = f
  /\ sock' = [sock EXCEPT ![f] = "refused"]
  /\ UNCHANGED <<dpctx, callback, watch>>

\* connect() returns 0: the descriptor is not in the epoll set.
Immediate(f) ==
  /\ "immediate" \in Faults
  /\ fd' = f
  /\ Connected(f)

\* process_timer() runs when no event is left; the timer is out of the queue.
TryConnect ==
  /\ event = <<>>
  /\ timer = "enqueued" /\ timer' = "inactive"
  /\ \/ NoSocket
     \/ \E f \in Fds : sock[f] = "free" /\ (Pending(f) \/ ConnectError(f) \/ Immediate(f))
  /\ UNCHANGED event

Next ==
  \/ \E f \in Fds : Peer(f) \/ OtherThread(f) \/ Wait(f)
  \/ Handle
  \/ TryConnect

Spec == Init /\ [][Next]_vars

\* The loop is one thread whose handlers return, and a connection attempt ends
\* one way or the other: TCP gives up.
Fairness ==
  /\ \A f \in Fds : WF_vars(Wait(f)) /\ WF_vars(sock[f] = "connecting" /\ Peer(f))
  /\ WF_vars(Handle)
  /\ WF_vars(TryConnect)

-----------------------------------------------------------------------------
(* properties *)

\* The types of the state; the proofs need dpctx to be a context that exists.
TypeOK ==
  /\ fd \in Fds \cup {NoFd}
  /\ dpctx \in {f \in Fds : sock[f] \in Open} \cup {NoFd}
  /\ callback \in {"none", "connecting_server", "handle_data"}
  /\ timer \in {"enqueued", "inactive"}
  /\ sock \in [Fds -> Open \cup {"free", "other"}]
  /\ watch \in [Fds -> {"none", "out", "in"}]
  /\ event \in {<<>>} \cup (Fds \X SUBSET {"OUT", "IN", "ERR"})

(***************************************************************************)
(* The one epoll_context is shared by all connections, its callback is     *)
(* changed under way, and events wait to be handled: still the callback    *)
(* that runs is the one of the descriptor's state, connecting_server()     *)
(* before there is a dpctx and handle_data() only with the dpctx that      *)
(* reads the descriptor the event came from; a dpctx is never a freed one. *)
(***************************************************************************)
CallbackFits ==
  /\ \A f \in Fds : watch[f] # "none" =>
       /\ f = fd /\ sock[f] \in Open
       /\ watch[f] = "out" => callback = "connecting_server" /\ dpctx = NoFd
       /\ watch[f] = "in" => callback = "handle_data" /\ dpctx = f
  /\ event # <<>> => watch[event[1]] # "none"
  /\ dpctx # NoFd => watch[dpctx] = "in"

(***************************************************************************)
(* The client never has two sockets, however often it reconnects, and      *)
(* never loses one: an open socket is client->fd.                          *)
(***************************************************************************)
OneSocket == \A f \in Fds : sock[f] \in Open => f = fd

(***************************************************************************)
(* The retry timer is never set while there is a connection or an attempt: *)
(* try_connect_server() would overwrite client->fd and the callback.       *)
(***************************************************************************)
RetryOnlyWhenDown ==
  timer = "enqueued" =>
    /\ \A f \in Fds : sock[f] \notin Open /\ watch[f] = "none"
    /\ dpctx = NoFd /\ event = <<>>

(***************************************************************************)
(* close() and the epoll calls never hit a descriptor that has been closed *)
(* and given to another thread meanwhile: client->fd and the dpctx may be  *)
(* stale, but nothing uses them then.                                      *)
(***************************************************************************)
OthersUntouched ==
  [][Handle \/ TryConnect => \A f \in Fds : sock[f] = "other" => sock'[f] = "other"]_vars

(***************************************************************************)
(* As long as the client is not connected it tries again and again: after  *)
(* a refusal, a reset, a close by the server, in any order.                *)
(***************************************************************************)
KeepsTrying == []<>(\E f \in Fds : watch[f] = "in") \/ []<><<TryConnect>>_vars
=============================================================================
