----------------------------- MODULE MCUdpQueue -----------------------------
(***************************************************************************)
(* Instances of UdpQueue: chunks of 2 bytes, at most 3 to a message.       *)
(***************************************************************************)
EXTENDS UdpQueue

CONSTANTS alice, bob, carol

Msg(from, to, bytes, reliable) ==
    [src |-> from, dst |-> to, size |-> bytes, robust |-> reliable]

\* One robust message of three chunks, the last one short.
RobustTraffic == {Msg(alice, bob, 5, TRUE)}

\* A robust message of one chunk and a quick one of two.
LiveTraffic == {Msg(alice, bob, 1, TRUE), Msg(alice, bob, 3, FALSE)}

\* Two senders to bob, a robust and a quick one, whose messages have the same
\* number and as many chunks.
SendersTraffic == {Msg(alice, bob, 3, TRUE), Msg(carol, bob, 3, FALSE)}

\* What docs/api/reference.md says of robust messages, without the exception
\* that AckedMeansDelivered names: what was acknowledged was delivered.  It is
\* violated (udp_crowded.cfg).
NothingAckedIsLost ==
    \A n \in Nodes : \A id \in con[n].acked : id \in con[id.dst].delivered

\* The same for insert_chunk: all of a message is from one sender.  It is
\* violated as well.
NothingIsMixed ==
    \A n \in Nodes : \A i \in DOMAIN con[n].in_queue :
        LET d == con[n].in_queue[i] IN
        \A k \in DOMAIN d.parts : d.parts[k].src = d.ep
=============================================================================
