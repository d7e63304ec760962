------------------------------ MODULE Framing -------------------------------
(* The framings the transports put on a connection: VMess chunks and AEAD  *)
(* chunks behind the VMess headers, gun (gRPC over HTTP/2), the            *)
(* v2ray-plugin mux, simple-obfs HTTP and TLS, VMess HTTP, WebSocket       *)
(* messages and Trojan packets.  One end writes with the writer of the     *)
(* code, the other reads with its reader; what the server side alone does  *)
(* (answering the opening message, stripping ours) is external.            *)
(*                                                                         *)
(* The wire is a sequence of cells: a cell stands for one byte of payload  *)
(* or for one header field.  A Read of the connection underneath returns   *)
(* any non-empty part of what has arrived (io.ReadFull all it asks for),   *)
(* and the reader blocks when that is not there; it is the only consumer,  *)
(* so a Read of the framing is one step.                                   *)
EXTENDS Naturals, Sequences, FiniteSets, SequencesExt

CONSTANTS
  Codecs,      \* the framings of this instance
  chunkSize,   \* cells of a chunk (vmess/chunk.go, simple-obfs/tls.go)
  Overhead,    \* cells an AEAD seal adds
  maxLength,   \* payload cells of one Trojan packet
  CountWidth,  \* width of the AEAD chunk counter, uint16 in the code
  Addrs,       \* destinations of Trojan packets
  MaxSent,     \* bound: payload cells written in one behaviour
  MaxBuf       \* bound: the largest buffer handed to Read

ASSUME FramingAssumption ==
  /\ Codecs \subseteq {"chunk", "aead", "gun", "mux", "obfshttp", "obfstls", "http", "ws", "trojan"}
  /\ {chunkSize, Overhead, maxLength, CountWidth, MaxSent, MaxBuf} \subseteq Nat \ {0}
  /\ Overhead < chunkSize
  /\ 0 \in Addrs

VARIABLES
  codec,  \* the framing of this connection ("none" before it is opened)
  up,     \* TRUE: from this program to the server; FALSE: the other way
  sent,   \* payload the writer was given, in order
  wire,   \* cells written and not read
  got,    \* payload the reader returned, in order
  wr,     \* writer: first (firstRequest, otb, whandshake), count, the server's respV
  rd,     \* reader: first (firstResponse, received), remain, buf, count, addr (rAddr)
  ended,  \* the writer's side is gone: nothing more arrives
  down    \* the reader reported an error

framingVars == <<codec, up, sent, wire, got, wr, rd, ended, down>>

Cell(kind, n) == [k |-> kind, v |-> n, a |-> 0]
Payload(n, a) == [i \in 1..n |-> [k |-> "pay", v |-> Len(sent) + i, a |-> a]]
Least(a, b)   == IF a <= b THEN a ELSE b
Take(s, n)    == SubSeq(s, 1, n)
Beyond(s, n)  == SubSeq(s, n + 1, Len(s))
Slices(s, m)  == [i \in 1..((Len(s) + m - 1) \div m) |-> SubSeq(s, (i - 1) * m + 1, Least(i * m, Len(s)))]

-----------------------------------------------------------------------------
(* Writers: the cells a Write of b puts on the connection.                   *)

(* chunkWriter.Write: pieces of at most chunkSize, each behind its length. *)
ChunkWrite(b) == FlattenSeq([i \in DOMAIN Slices(b, chunkSize) |->
  LET p == Slices(b, chunkSize)[i] IN <<Cell("size", Len(p))>> \o p])

(* aeadWriter.Write: every piece sealed under the next value of the counter. *)
AeadWrite(b) == FlattenSeq([i \in DOMAIN Slices(b, chunkSize - Overhead) |->
  LET p == Slices(b, chunkSize - Overhead)[i]
  IN  <<Cell("size", Len(p) + Overhead)>> \o p
      \o [j \in 1..Overhead |-> Cell("tag", (wr.count + i - 1) % 2^CountWidth)]])

(* gun.Conn.Write: gRPC header, 0x0A, the length as a uvarint, the payload. *)
GunWrite(b) == <<Cell("grpc", Len(b) + 2), Cell("uvarint", Len(b))>> \o b

(* Mux.Write: a Keep frame carrying data. *)
MuxWrite(b) == <<Cell("metalen", 4), Cell("id", 0), Cell("keep", 0), Cell("data", 1), Cell("size", Len(b))>> \o b

(* TLSObfs.Write and write: application records of at most chunkSize. *)
TlsRecords(b) == FlattenSeq([i \in DOMAIN Slices(b, chunkSize) |->
  LET p == Slices(b, chunkSize)[i] IN <<Cell("record", 0), Cell("size", Len(p))>> \o p])

(* makeClientHelloMsg: the first piece travels as the session ticket. *)
ClientHello(p) == <<Cell("hello", Len(p)), Cell("ticket", Len(p))>> \o p \o <<Cell("name", 0)>>

(* websocketConn.Write: one binary message. *)
WsWrite(b) == <<Cell("msg", Len(b))>> \o b

(* WritePacket and writePacket: every piece repeats the address and has a  *)
(* length of its own.                                                      *)
TrojanWrite(b) == FlattenSeq([i \in DOMAIN Slices(b, maxLength) |->
  LET p == Slices(b, maxLength)[i]
  IN  <<Cell("addr", p[1].a), Cell("size", Len(p)), Cell("crlf", 0)>> \o p])

Framed(b) ==
  CASE codec = "chunk"   -> ChunkWrite(b)
    [] codec = "aead"    -> AeadWrite(b)
    [] codec = "gun"     -> GunWrite(b)
    [] codec = "mux"     -> MuxWrite(b)
    [] codec = "obfstls" -> TlsRecords(b)
    [] codec = "ws"      -> WsWrite(b)
    [] codec = "trojan"  -> TrojanWrite(b)
    [] OTHER             -> b

(* The opening message of this program, sent before or with the first Write. *)

(* vmess sendRequest, Trojan's WriteHeader, NewMux's metadata: a header. *)
sendRequest(b) == <<Cell("request", 0)>> \o Framed(b)
WriteHeader(b) == <<Cell("header", 0)>> \o Framed(b)
NewMux(b)      == <<Cell("metadata", 0)>> \o Framed(b)
(* HTTPObfs.Write, httpConn.Write: a request whose body starts with b. *)
HTTPObfsWrite(b) == <<Cell("head", 0), Cell("blank", 0)>> \o b
httpConnWrite(b) == <<Cell("head", 0), Cell("blank", 0)>> \o b
(* Fault: what does not fit into the ClientHello is forgotten. *)
TLSObfsWriteShort(b) == ClientHello(Take(b, Least(chunkSize, Len(b))))
(* TLSObfs.write: a first piece hidden in the ClientHello, the rest behind it. *)
TLSObfsWrite(b) ==
  LET n == Least(chunkSize, Len(b)) IN ClientHello(Take(b, n)) \o Framed(Beyond(b, n))

Opening(b) ==
  CASE codec \in {"chunk", "aead"} -> sendRequest(b)
    [] codec = "trojan"   -> WriteHeader(b)
    [] codec = "mux"      -> NewMux(b)
    [] codec = "obfshttp" -> HTTPObfsWrite(b)
    [] codec = "http"     -> httpConnWrite(b)
    [] codec = "obfstls"  -> TLSObfsWrite(b)
    [] OTHER              -> Framed(b)

(* The server's first message, whose layout the readers below expect. *)
ServerOpening(b) ==
  CASE codec \in {"chunk", "aead"}    -> <<Cell("response", wr.respV)>> \o Framed(b)
    [] codec \in {"obfshttp", "http"} -> <<Cell("head", 0), Cell("blank", 0)>> \o b
    [] codec = "obfstls"              -> <<Cell("serverhello", 0)>> \o Framed(b)
    [] OTHER                          -> Framed(b)

-----------------------------------------------------------------------------
(* Readers.  A Read with a buffer of b cells ends in one of a set of       *)
(* outcomes: cells consumed, payload returned, the reader's next state and *)
(* whether it reports an error.  An empty set: the call blocks.            *)

Outcome(n, out, r) == [take |-> n, out |-> out, rd |-> r, err |-> FALSE]
Broken(n)          == [take |-> n, out |-> <<>>, rd |-> rd, err |-> TRUE]

(* n cells from offset o on, by io.ReadFull; and what one Conn.Read may give. *)
Full(o, n) == {n} \cap {m \in {n} : o + m <= Len(wire)}
Some(o, n) == {m \in 1..n : o + m <= Len(wire)}
Cells(o, n) == SubSeq(wire, o + 1, o + n)

(* The leftover of a chunk is served first (buf, offset). *)
FromBuf(b) == LET n == Least(b, Len(rd.buf))
              IN  {Outcome(0, Take(rd.buf, n), [rd EXCEPT !.buf = Beyond(rd.buf, n)])}

(* chunkReader.Read: a chunk that does not fit is buffered. *)
ChunkRead(o, b) ==
  IF rd.buf # <<>> THEN FromBuf(b)
  ELSE {Outcome(o + 1 + n, Take(Cells(o + 1, n), Least(b, n)), [rd EXCEPT !.buf = Beyond(Cells(o + 1, n), Least(b, n))]) :
          n \in UNION {Full(o + 1, wire[i].v) : i \in Full(0, o + 1)}}

(* aeadReader.Read: the whole chunk is opened under the reader's own counter. *)
AeadRead(o, b) ==
  IF rd.buf # <<>> THEN FromBuf(b)
  ELSE {LET real == Cells(o + 1, n - Overhead)
            r    == [rd EXCEPT !.count = (rd.count + 1) % 2^CountWidth, !.buf = Beyond(real, Least(b, Len(real)))]
        IN  IF wire[o + 1 + n] = Cell("tag", rd.count)
            THEN Outcome(o + 1 + n, Take(real, Least(b, Len(real))), r)
            ELSE Broken(o + 1 + n) :
          n \in UNION {Full(o + 1, wire[i].v) : i \in Full(0, o + 1)}}

(* The rest of a frame of which `remain' cells are still on the wire: read *)
(* in full (gun, TLSObfs) or as much as comes (Mux, WebSocket, Trojan).    *)
Rest(ns) == {Outcome(n, Cells(0, n), [rd EXCEPT !.remain = rd.remain - n]) : n \in ns}

(* gun.Conn.Read *)
GunRead(b) ==
  IF rd.remain > 0 THEN Rest(Full(0, Least(rd.remain, b)))
  ELSE {Outcome(2 + n, Cells(2, n), [rd EXCEPT !.remain = wire[2].v - n]) :
          n \in UNION {Full(2, Least(b, wire[i].v)) : i \in Full(0, 2)}}

(* TLSObfs.Read and read: a record that does not fit is read in part; an   *)
(* end of the connection in front of the length is a read of nothing, no   *)
(* error.                                                                  *)
TlsRead(o, b) ==
  IF rd.remain > 0 THEN Rest(Full(0, Least(rd.remain, b)))
  ELSE {Outcome(o + 2 + n, Cells(o + 2, n), [rd EXCEPT !.remain = wire[o + 2].v - n]) :
          n \in UNION {IF wire[i].v > b THEN Some(o + 2, b) ELSE Full(o + 2, wire[i].v) : i \in Full(0, o + 2)}}
       \cup {Outcome(n, <<>>, rd) : n \in {m \in Full(0, o + 1) : ended /\ Len(wire) = m}}

(* Mux.Read: frames in front that keep the session alive or carry no data  *)
(* are passed over; the two status bytes, taken by one Conn.Read, arrive   *)
(* together.                                                               *)
Idle == 4 * Cardinality({j \in 0..Len(wire) : \A i \in 0..j :
              4 * i + 4 <= Len(wire) /\ (wire[4 * i + 3].k = "alive" \/ wire[4 * i + 4].k # "data")})
MuxRead(b) ==
  IF rd.remain > 0 THEN Rest(Some(0, Least(rd.remain, b)))
  ELSE {Outcome(Idle + 5 + n, Cells(Idle + 5, n), [rd EXCEPT !.remain = wire[Idle + 5].v - n]) :
          n \in UNION {Some(Idle + 5, Least(b, wire[i].v)) : i \in Full(0, Idle + 5)}}

(* websocketConn.getReader: the next message. *)
getReader(b) ==
  {Outcome(1 + n, Cells(1, n), [rd EXCEPT !.remain = wire[1].v - n]) :
     n \in UNION {Some(1, Least(b, wire[i].v)) : i \in Full(0, 1)}}
(* websocketConn.Read: the rest of a message first. *)
WsRead(b) == IF rd.remain > 0 THEN Rest(Some(0, Least(rd.remain, b))) ELSE getReader(b)

(* Fault: the address of a packet read in part is not remembered. *)
ReadPacketForgets(b) ==
  {Outcome(3 + n, [i \in 1..n |-> [wire[3 + i] EXCEPT !.a = wire[1].v]], [rd EXCEPT !.remain = wire[2].v - n]) :
     n \in UNION {Full(3, Least(b, wire[i - 1].v)) : i \in Full(0, 3)}}
(* ReadPacket: a packet, its address and what does not fit into the buffer. *)
ReadPacket(b) ==
  IF Len(wire) >= 2 /\ wire[2].v > maxLength THEN {Broken(2)}
  ELSE {Outcome(3 + n, [i \in 1..n |-> [wire[3 + i] EXCEPT !.a = wire[1].v]],
                [rd EXCEPT !.remain = wire[2].v - n, !.addr = wire[1].v]) :
          n \in UNION {Full(3, Least(b, wire[i - 1].v)) : i \in Full(0, 3)}}
(* PacketConn.ReadFrom: the rest of the last packet under the address      *)
(* remembered for it, or the next packet.                                  *)
ReadFrom(b) ==
  IF rd.remain = 0 THEN ReadPacket(b)
  ELSE {[o EXCEPT !.out = [i \in DOMAIN o.out |-> [o.out[i] EXCEPT !.a = rd.addr]]] :
          o \in Rest(Some(0, Least(rd.remain, b)))}

(* HTTPObfs.Read: the first answer must hold the blank line in what one    *)
(* Read of the connection returns; what it holds beyond the caller's       *)
(* buffer is kept.                                                         *)
ObfsHttpRead(b) ==
  IF rd.buf # <<>> THEN FromBuf(b)
  ELSE IF rd.first
       THEN {IF n < 2 THEN Broken(n)
             ELSE Outcome(n, Take(Cells(2, n - 2), Least(b, n - 2)), [rd EXCEPT !.buf = Beyond(Cells(2, n - 2), Least(b, n - 2))]) :
               n \in Some(0, Len(wire))}
       ELSE {Outcome(n, Cells(0, n), rd) : n \in Some(0, b)}

(* httpConn.Read: start line and header are read off, then the buffered body. *)
HttpRead(b) == LET o == IF rd.first THEN 2 ELSE 0
               IN  {Outcome(o + n, Cells(o, n), rd) : n \in Some(o, b)}

(* vmess recvResponse: the cells of the response header; its respV must be ours. *)
recvResponse == IF rd.first THEN 1 ELSE 0
Refused == rd.first /\ Len(wire) >= 1 /\ wire[1].v # 0
(* vmess Conn.Read: the response, once, in front. *)
VmessRead(b) ==
  IF Refused THEN {Broken(1)}
  ELSE IF codec = "chunk" THEN ChunkRead(recvResponse, b) ELSE AeadRead(recvResponse, b)

Outcomes(b) ==
  CASE codec \in {"chunk", "aead"} -> VmessRead(b)
    [] codec = "gun"      -> GunRead(b)
    [] codec = "mux"      -> MuxRead(b)
    [] codec = "obfshttp" -> ObfsHttpRead(b)
    [] codec = "obfstls"  -> TlsRead(IF rd.first THEN 1 ELSE 0, b)
    [] codec = "http"     -> HttpRead(b)
    [] codec = "ws"       -> WsRead(b)
    [] codec = "trojan"   -> ReadFrom(b)

-----------------------------------------------------------------------------
FramingInit ==
  /\ codec = "none" /\ up = FALSE
  /\ sent = <<>> /\ wire = <<>> /\ got = <<>>
  /\ wr = [first |-> TRUE, count |-> 0, respV |-> 0]
  /\ rd = [first |-> TRUE, remain |-> 0, buf |-> <<>>, count |-> 0, addr |-> 0]
  /\ ended = FALSE /\ down = FALSE

(* A connection of some framing, watched in one of its two directions. *)
OpenFraming(c, dir, respV) ==
  /\ codec = "none" /\ codec' = c /\ up' = dir
  /\ respV # 0 => ~dir /\ c \in {"chunk", "aead"}
  /\ wr' = [wr EXCEPT !.respV = respV]
  /\ UNCHANGED <<sent, wire, got, rd, ended, down>>

(* A Write of n payload cells (to address a, for packets). *)
Write(n, a) ==
  /\ codec # "none" /\ ~ended /\ Len(sent) + n <= MaxSent
  /\ a # 0 => codec = "trojan"
  /\ LET b == Payload(n, a)
     IN  /\ sent' = sent \o b
         /\ wire' = wire \o (CASE wr.first /\ up  -> Opening(b)
                               [] wr.first /\ ~up -> ServerOpening(b)
                               [] ~wr.first       -> Framed(b))
         /\ wr' = [wr EXCEPT !.first = FALSE,
                             !.count = IF codec = "aead" THEN (@ + Len(Slices(b, chunkSize - Overhead))) % 2^CountWidth ELSE @]
  /\ UNCHANGED <<codec, up, got, rd, ended, down>>

(* The server's keep-alive frame, which the mux client passes over. *)
KeepAlive ==
  /\ codec = "mux" /\ ~up /\ ~ended /\ wr.count = 0
  /\ wire' = wire \o <<Cell("metalen", 4), Cell("id", 0), Cell("alive", 0), Cell("none", 0)>>
  /\ wr' = [wr EXCEPT !.count = 1]
  /\ UNCHANGED <<codec, up, sent, got, rd, ended, down>>

(* A Read of this program's reader (behind the server's stripping, going up). *)
Read(b) ==
  /\ codec # "none" /\ ~down
  /\ up => ~rd.first
  /\ \E o \in Outcomes(b) :
       /\ wire' = Beyond(wire, o.take)
       /\ got' = got \o o.out
       /\ rd' = [o.rd EXCEPT !.first = FALSE]
       /\ down' = o.err
  /\ UNCHANGED <<codec, up, sent, wr, ended>>

(* The server takes this program's opening message off. *)
Accepted ==
  IF codec \in {"chunk", "aead", "mux", "trojan"} THEN Full(0, 1)
  ELSE IF codec \in {"obfshttp", "http"} THEN Full(0, 2)
  ELSE IF codec = "obfstls" THEN UNION {Full(0, wire[i].v + 3) : i \in Full(0, 2)}
  ELSE {0}
ServerAccept ==
  /\ codec # "none" /\ up /\ rd.first /\ ~down
  /\ \E n \in Accepted :
       /\ wire' = Beyond(wire, n)
       /\ got' = got \o SelectSeq(Take(wire, n), LAMBDA c : c.k = "pay")
  /\ rd' = [rd EXCEPT !.first = FALSE]
  /\ UNCHANGED <<codec, up, sent, wr, ended, down>>

(* The connection is cut: some of what was written never arrives. *)
Cut ==
  /\ codec # "none" /\ ~ended
  /\ \E n \in 0..Len(wire) : wire' = Take(wire, n)
  /\ ended' = TRUE
  /\ UNCHANGED <<codec, up, sent, got, wr, rd, down>>

(* A Read that cannot be served any more reports the end of the connection. *)
ReadEnds ==
  /\ codec # "none" /\ ended /\ ~down
  /\ IF up /\ rd.first THEN Accepted = {} ELSE Outcomes(MaxBuf) = {}
  /\ down' = TRUE
  /\ UNCHANGED <<codec, up, sent, wire, got, wr, rd, ended>>

(* The relay's own reads, into its large buffer. *)
ReadSome == Read(MaxBuf) \/ ServerAccept \/ ReadEnds

FramingNext ==
  \/ \E c \in Codecs, dir \in BOOLEAN, respV \in {0, 1} : OpenFraming(c, dir, respV)
  \/ \E n \in 1..MaxSent, a \in Addrs : Write(n, a)
  \/ KeepAlive
  \/ \E b \in 1..MaxBuf : Read(b)
  \/ ServerAccept
  \/ Cut
  \/ ReadEnds

(* The relay reads as long as the connection stands (tunnel/connection.go). *)
FramingFairness == WF_framingVars(ReadSome)

FramingSpec == FramingInit /\ [][FramingNext]_framingVars /\ FramingFairness

-----------------------------------------------------------------------------
(* Implementation: the framing is transparent.  Whatever the sizes of the  *)
(* writes and of the buffers, the segmentation of the connection, the      *)
(* splitting of a write over chunks and the remainders the readers keep,   *)
(* the reader returns exactly the payload written, with its address, in    *)
(* order.                                                                  *)
Transparent == INSTANCE ByteStream WITH Items <- [k : {"pay"}, v : 1..MaxSent, a : Addrs]
FramingIsTransparent == Transparent!StreamSpec

(* Liveness: no Read into a large buffer waits for cells that will not     *)
(* come while payload is outstanding: everything written is returned,      *)
(* unless the reader reports an error.                                     *)
Delivered == []<>(got = sent \/ down)
=============================================================================
