---------------------------- MODULE MCRtOffload -----------------------------
(* An instance of RtOffload for TLC: a chip that reports failures of layer *)
(* 4 where the first one does not, a frame whose layer 4 is not evaluated  *)
(* and one whose layer 3 has no checksum, packets that need both layers,   *)
(* layer 4, none or a large send with a header offset below 128 or above.  *)
EXTENDS MCRtSettings, RtOffload, TLC

CONSTANTS q1, q2

QueueSymmetry == Permutations({q1, q2})

LaterChip == {"RTL8168E"}

Good(l3, l4) == [layer3 |-> l3, layer4 |-> l4, badCrc |-> FALSE, bad3 |-> FALSE, bad4 |-> FALSE]

FramesFew ==
  {[Good("IPv4", "Udp") EXCEPT !.bad3 = TRUE, !.bad4 = TRUE],
   [Good("IPv6", "Tcp") EXCEPT !.bad4 = TRUE, !.badCrc = TRUE]}

Plain(l3, l4, h) ==
  [layer3 |-> l3, layer4 |-> l4, need3 |-> FALSE, need4 |-> FALSE, header |-> h, mss |-> 0]

PacketsFew ==
  {Plain("IPv4", "Udp", 34),
   [Plain("IPv4", "Tcp", 74) EXCEPT !.need3 = TRUE, !.need4 = TRUE],
   [Plain("IPv6", "Tcp", 638) EXCEPT !.need4 = TRUE],
   [Plain("IPv6", "Tcp", 127) EXCEPT !.mss = 16383],
   [Plain("IPv6", "Tcp", 134) EXCEPT !.mss = 1440]}

OffloadsAll == {{}, {"Ip", "Tcp", "LSOv4", "LSOv6"}}
=============================================================================
