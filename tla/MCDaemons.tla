----------------------------- MODULE MCDaemons -----------------------------
\* The server and the log daemon share no state: in a behaviour one of the two
\* runs and the other does nothing.
EXTENDS Logd

CONSTANTS Structs, Fds, Listener, NoFd, NoPtr, Batch, Backlog, MaxPeers, ServerFaults

VARIABLES mem, fdOf, list, sock, watch, backlog, events

Srv == INSTANCE Server WITH Faults <- ServerFaults

ASSUME ServerConstants == Srv!ServerAssumption

srvVars == <<mem, fdOf, list, sock, watch, backlog, events>>
MCvars == <<vars, srvVars>>

MCInit == Init /\ Srv!Init

LogdNext == Next /\ UNCHANGED srvVars
LogdSpec == MCInit /\ [][LogdNext]_MCvars /\ Fairness

ServerNext == Srv!Next /\ UNCHANGED vars
ServerSpec == MCInit /\ [][ServerNext]_MCvars /\ Srv!Fairness

BatchFresh == Srv!BatchFresh
ViewsAgree == Srv!ViewsAgree
Released == Srv!Released
=============================================================================
