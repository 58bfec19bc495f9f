-------------------------------- MODULE Mdns --------------------------------
(***************************************************************************)
(* The mDNS server of each device: its UDP pcb on port 5353, its interface *)
(* list (one interface, the default one), the multicast groups joined on   *)
(* that interface, and the packets lwIP hands to it.  The devices share    *)
(* the port, the groups with their use counts and lwIP's heap.  Each step  *)
(* is one section under the core lock or the unlocked code between two.    *)
(***************************************************************************)
EXTENDS Integers, FiniteSets

CONSTANTS
  Devices,
  PcbMax,    \* MEMP_NUM_UDP_PCB
  PbufMax,   \* pbufs that fit in MEM_SIZE
  UseMax     \* bound on the use counts, which are u8_t

VARIABLES
  pc,       \* where the device's platform init, publish or deinit is
  socket,   \* ctx->socket: "null", "open", "bound", "receiving"
  listed,   \* the interface is in ctx->netifList
  port,     \* ctx->port is set
  use,      \* use count of the group of each IP version on the interface
  held      \* pbufs given to packet_received and not freed

vars == <<pc, socket, listed, port, use, held>>

Init ==
  /\ pc = [d \in Devices |-> "off"]
  /\ socket = [d \in Devices |-> "null"]
  /\ listed = [d \in Devices |-> FALSE]
  /\ port = [d \in Devices |-> FALSE]
  /\ use = [v4 |-> 0, v6 |-> 0]
  /\ held = 0

Go(d, from, to) == pc[d] = from /\ pc' = [pc EXCEPT ![d] = to]

SetSocket(d, s) == socket' = [socket EXCEPT ![d] = s]

-----------------------------------------------------------------------------
\* nabto_device_platform_init ignores the result of nm_mdns_lwip_init and goes
\* on to nm_mdns_lwip_add_netif.
AddNetif(d, from) == Go(d, from, "join4")

\* nm_mdns_lwip_init up to udp_new_ip_type.
New(d) ==
  /\ pc[d] = "off"
  /\ \/ /\ Cardinality({e \in Devices : socket[e] # "null"}) < PcbMax
        /\ Go(d, "off", "bind") /\ SetSocket(d, "open")
     \/ /\ Cardinality({e \in Devices : socket[e] # "null"}) >= PcbMax
        /\ AddNetif(d, "off") /\ SetSocket(d, "null")
  /\ listed' = [listed EXCEPT ![d] = FALSE]
  /\ port' = [port EXCEPT ![d] = FALSE]
  /\ UNCHANGED <<use, held>>

\* udp_bind fails when another pcb has the port.
Bind(d) ==
  /\ IF \E e \in Devices : socket[e] \in {"bound", "receiving"}
     THEN AddNetif(d, "bind") /\ UNCHANGED socket
     ELSE Go(d, "bind", "recv") /\ SetSocket(d, "bound")
  /\ UNCHANGED <<listed, port, use, held>>

StartRecv(d) ==
  /\ AddNetif(d, "recv") /\ SetSocket(d, "receiving")
  /\ UNCHANGED <<listed, port, use, held>>

\* igmp_joingroup_netif and mld6_joingroup_netif: a group in use is counted
\* once more, a new one needs memory.
Joined(v, ok) ==
  /\ use[v] < UseMax
  /\ use[v] > 0 => ok
  /\ use' = IF ok THEN [use EXCEPT ![v] = @ + 1] ELSE use

\* join_groups, and the append of nm_mdns_lwip_add_netif.
JoinV4(d) ==
  /\ \E ok \in BOOLEAN :
       Joined("v4", ok) /\ Go(d, "join4", IF ok THEN "join6" ELSE "ready")
  /\ UNCHANGED <<socket, listed, port, held>>

JoinV6(d) ==
  /\ \E ok \in BOOLEAN :
       /\ Joined("v6", ok) /\ Go(d, "join6", "ready")
       /\ listed' = [listed EXCEPT ![d] = ok]
  /\ UNCHANGED <<socket, port, held>>

\* publish_service: the port is set and announce sends to both groups.  The
\* pbufs of send_packet are freed by send_packet; unpublish_service is empty.
Publish(d) ==
  /\ Go(d, "ready", "ready")
  /\ port' = [port EXCEPT ![d] = TRUE]
  /\ UNCHANGED <<socket, listed, use, held>>

\* nm_mdns_lwip_deinit, nm_mdns_lwip_remove_netif and leave_groups.
Remove(d) ==
  /\ Go(d, "ready", IF listed[d] THEN "leave4" ELSE "off")
  /\ SetSocket(d, "null")
  /\ listed' = [listed EXCEPT ![d] = FALSE]
  /\ UNCHANGED <<port, use, held>>

Left(v) == use' = [use EXCEPT ![v] = IF @ = 0 THEN 0 ELSE @ - 1]

LeaveV4(d) ==
  Go(d, "leave4", "leave6") /\ Left("v4") /\ UNCHANGED <<socket, listed, port, held>>

LeaveV6(d) ==
  Go(d, "leave6", "off") /\ Left("v6") /\ UNCHANGED <<socket, listed, port, held>>

\* packet_received, in the lwIP thread with the core lock held throughout: the
\* packet is copied, answered if it is a question and a port is set, and the
\* callback is registered again.  Nothing frees the packet.
PacketReceived(d) ==
  /\ socket[d] = "receiving" /\ held < PbufMax
  /\ held' = held + 1
  /\ UNCHANGED <<pc, socket, listed, port, use>>

Next ==
  \E d \in Devices :
    \/ New(d) \/ Bind(d) \/ StartRecv(d) \/ JoinV4(d) \/ JoinV6(d)
    \/ Publish(d) \/ Remove(d) \/ LeaveV4(d) \/ LeaveV6(d)
    \/ PacketReceived(d)

Spec == Init /\ [][Next]_vars

-----------------------------------------------------------------------------
\* udp.h says that the receive callback frees the pbuf: between callbacks the
\* server holds none.
PacketsFreed == held = 0
=============================================================================
