---------------------------- MODULE SocketListener ----------------------------
(* The receiving half of a socket (net/socket/v2/ReceivingSocket): the thread  *)
(* of SocketPool completes one async_receive at a time, pushes the packet into *)
(* a single-producer single-consumer ring and arms the next receive; the       *)
(* scanner's poller pops packets from another thread.  The ring is Boost's     *)
(* lock-free spsc_queue, so a push and a pop are each one step.                *)
EXTENDS Naturals, Sequences

CONSTANTS
    Packet,         \* what a received packet tells apart (set by the user)
    BufferSize      \* MaxBufferSize(): how many packets the ring holds

ASSUME BufferSizeAssumption == BufferSize \in Nat \ {0}

VARIABLE m_packetBuffer

ListenerTypeOK == m_packetBuffer \in Seq(Packet)

ListenerInit == m_packetBuffer = << >>

(* Mutant: a ring that grows. *)
HandleReceiveUnbounded(p) == m_packetBuffer' = Append(m_packetBuffer, p)

(* A receive completes with packet p: m_packetBuffer.push(p), whose result is  *)
(* ignored, so a packet that finds the ring full is lost.  A receive that      *)
(* fails only arms the next one and changes nothing.                           *)
HandleReceive(p) ==
    m_packetBuffer' = IF Len(m_packetBuffer) < BufferSize
                      THEN Append(m_packetBuffer, p)
                      ELSE m_packetBuffer

(* nextReceivedPacket() returning packet p *)
NextReceivedPacket(p) ==
    /\ m_packetBuffer # << >>
    /\ p = Head(m_packetBuffer)
    /\ m_packetBuffer' = Tail(m_packetBuffer)

(* nextReceivedPacket() returning std::nullopt *)
NoReceivedPacket ==
    /\ m_packetBuffer = << >>
    /\ UNCHANGED m_packetBuffer
=============================================================================
