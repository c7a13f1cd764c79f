------------------------------- MODULE Packet -------------------------------
(***************************************************************************)
(* gnet's packets on the wire: MsgSerialize (Pack, Unpack), and the reader *)
(* of conn.go that cuts the byte stream of a connection into messages, in  *)
(* both of its modes.  A connection may end after any byte.  A uint32 is   *)
(* Width bytes of base Base, a byte is a number below Base.                *)
(***************************************************************************)
EXTENDS Naturals, SequencesExt

CONSTANTS
    Base, Width,    \* 256 and 4
    Ids,            \* message ids in use
    MaxPacketSize,  \* global.Conf.MaxPacketSize
    Modes,          \* values of global.Conf.UseMsgSerializer
    MaxData,        \* bound: bytes of data a sender may hand over
    MaxSent         \* bound: messages sent

PacketAssumption ==
    /\ {Base, Width, MaxPacketSize, MaxData, MaxSent} \subseteq Nat \ {0}
    /\ Base > 1 /\ MaxPacketSize < Base ^ Width
    /\ Ids \subseteq 0 .. Base ^ Width - 1
    /\ Modes \subseteq BOOLEAN

VARIABLES
    useMsgSerializer,
    wire,       \* bytes sent and not yet read
    ended,      \* no more bytes will come
    rpc, head,  \* the reader's place; the message whose body it waits for
    sent, got   \* messages handed to SendPacket and to the request handler

vars == <<useMsgSerializer, wire, ended, rpc, head, sent, got>>

Msg(len, id, data) == [len |-> len, id |-> id, data |-> data]

\* NewMsg: uint32(len(data)).
NewMsg(id, data) == Msg(Len(data) % (Base ^ Width), id, data)

NoMsg == Msg(0, 0, <<>>)

Init ==
    /\ useMsgSerializer \in Modes
    /\ wire = <<>> /\ ended = FALSE
    /\ rpc = "head" /\ head = NoMsg
    /\ sent = <<>> /\ got = <<>>

-----------------------------------------------------------------------------
(* MsgSerialize *)

GetHeadLen == 2 * Width

\* binary.Write and binary.Read of a uint32, least significant byte first.
PutUint32(n) == [k \in 1 .. Width |-> (n \div (Base ^ (k - 1))) % Base]

(* As if the most significant byte came first. *)
Uint32BigEndian(bytes) == FoldLeft(LAMBDA acc, b : acc * Base + b, 0, bytes)

Uint32(bytes) == FoldRight(LAMBDA b, acc : acc * Base + b, bytes, 0)

Pack(msg) == PutUint32(msg.len) \o PutUint32(msg.id) \o msg.data

\* The head of a packet; its data is read afterwards.
Unpack(packet) ==
    Msg(Uint32(SubSeq(packet, 1, Width)), Uint32(SubSeq(packet, Width + 1, 2 * Width)), <<>>)

(* As if the largest packet were already too large. *)
OverflowAtLimit(msg) == msg.len >= MaxPacketSize

Overflow(msg) == msg.len > MaxPacketSize

-----------------------------------------------------------------------------
(* The two ends of a connection *)

SendPacket ==
    /\ ~ended /\ Len(sent) < MaxSent
    /\ \E id \in Ids, data \in SeqOf(0 .. Base - 1, MaxData) :
           /\ sent' = Append(sent, NewMsg(id, data))
           /\ wire' = wire \o Pack(NewMsg(id, data))
    /\ UNCHANGED <<useMsgSerializer, ended, rpc, head, got>>

\* The peer closes or fails; the last bytes may never have left it.
End ==
    /\ ~ended /\ ended' = TRUE
    /\ \E n \in 0 .. Len(wire) : wire' = SubSeq(wire, 1, n)
    /\ UNCHANGED <<useMsgSerializer, rpc, head, sent, got>>

Rest(n) == SubSeq(wire, n + 1, Len(wire))

Deliver(msg, data) == got' = Append(got, [msg EXCEPT !.data = data])

\* io.ReadFull of the head, Unpack, and the decision whether a body follows.
ReadHead ==
    LET msg == Unpack(SubSeq(wire, 1, GetHeadLen)) IN
    /\ useMsgSerializer /\ rpc = "head"
    /\ Len(wire) >= GetHeadLen
    /\ wire' = Rest(GetHeadLen)
    /\ \/ /\ Overflow(msg)
          /\ rpc' = "stopped" /\ UNCHANGED <<head, got>>
       \/ /\ ~Overflow(msg) /\ msg.len > 0
          /\ rpc' = "body" /\ head' = msg /\ got' = got
       \/ /\ ~Overflow(msg) /\ msg.len = 0
          /\ Deliver(msg, <<>>) /\ UNCHANGED <<rpc, head>>
    /\ UNCHANGED <<useMsgSerializer, ended, sent>>

\* io.ReadFull of the body.
ReadBody ==
    /\ rpc = "body" /\ Len(wire) >= head.len
    /\ Deliver(head, SubSeq(wire, 1, head.len))
    /\ wire' = Rest(head.len)
    /\ rpc' = "head" /\ head' = NoMsg
    /\ UNCHANGED <<useMsgSerializer, ended, sent>>

(* As if the bytes behind the buffer's end were dropped. *)
ReadRawDrop ==
    /\ ~useMsgSerializer /\ rpc = "head" /\ wire # <<>>
    /\ \E n \in 1 .. MaxPacketSize :
           /\ n <= Len(wire)
           /\ Deliver(Msg(n, 0, <<>>), SubSeq(wire, 1, n))
    /\ wire' = <<>>
    /\ UNCHANGED <<useMsgSerializer, ended, rpc, head, sent>>

\* Without the serializer a message is whatever one Read returns, with id 0.
ReadRaw ==
    /\ ~useMsgSerializer /\ rpc = "head" /\ wire # <<>>
    /\ \E n \in 1 .. MaxPacketSize :
           /\ n <= Len(wire)
           /\ Deliver(Msg(n, 0, <<>>), SubSeq(wire, 1, n))
           /\ wire' = Rest(n)
    /\ UNCHANGED <<useMsgSerializer, ended, rpc, head, sent>>

\* The stream ends before the bytes the reader waits for.
ReadFails ==
    /\ ended
    /\ CASE rpc = "head" -> IF useMsgSerializer THEN Len(wire) < GetHeadLen ELSE wire = <<>>
         [] rpc = "body" -> Len(wire) < head.len
         [] OTHER -> FALSE
    /\ rpc' = "stopped"
    /\ UNCHANGED <<useMsgSerializer, wire, ended, head, sent, got>>

Stopped == rpc = "stopped" /\ UNCHANGED vars

Next == SendPacket \/ End \/ ReadHead \/ ReadBody \/ ReadRaw \/ ReadFails \/ Stopped

Spec == Init /\ [][Next]_vars

-----------------------------------------------------------------------------
(* Properties *)

\* The wire holds digits, and a message that was handed on has the length of its data.
TypeOK ==
    /\ rpc \in {"head", "body", "stopped"}
    /\ \A k \in DOMAIN wire : wire[k] \in 0 .. Base - 1
    /\ \A k \in DOMAIN got : got[k].len = Len(got[k].data) /\ got[k].len <= MaxPacketSize

\* With the serializer the request handler gets the messages that were sent, in
\* their order, each with its own id, length and data: a body is never taken for
\* a head, and a packet cut off by the end of the connection is not delivered.
Framing ==
    useMsgSerializer => IsPrefix(got, sent)

\* The reader stops for a reason: while the connection lives, it is the first
\* message above MaxPacketSize, and everything before it was delivered.
StopsAtOverflow ==
    useMsgSerializer /\ rpc = "stopped" /\ ~ended =>
        /\ Len(got) < Len(sent)
        /\ Len(sent[Len(got) + 1].data) > MaxPacketSize

\* Without the serializer no byte is lost or moved: what the messages hold,
\* and what is still to be read, is the stream of packets, up to its end.
RawKeepsBytes ==
    ~useMsgSerializer =>
        LET read == FlattenSeq([k \in DOMAIN got |-> got[k].data])
            all == FlattenSeq([k \in DOMAIN sent |-> Pack(sent[k])])
        IN  IsPrefix(read \o wire, all) /\ (ended \/ read \o wire = all)
=============================================================================
