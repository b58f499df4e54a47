--------------------------------- MODULE Wire ---------------------------------
(***************************************************************************)
(* Messages on a connection: protocol/message.go, the compressors and the   *)
(* gzip buffers of util/compress.go, and the pooled buffers of BufferPool.  *)
(* Goroutines encode their messages into pooled buffers, write them to one  *)
(* connection and return the buffers; a reader decodes the stream.          *)
(*                                                                         *)
(* The unit of the stream is a cell: the header, a length, or one element   *)
(* of a name, of the metadata or of the payload.  A byte of the header is   *)
(* the set of its bits, so | is union, &^ difference and & intersection.    *)
(***************************************************************************)
EXTENDS BufferPool, Sequences, FiniteSetsExt, TLC

CONSTANTS
    Nil,
    Writers,            \* goroutines that send
    Drafts,             \* what they send: records of the fields of a message
    Gzippers,           \* writers that may ask for gzip
    ZipBufs,            \* the buffers of spBuffer
    MaxMessageLength,   \* 0 is no limit
    MaxSends            \* bound on the number of messages

VARIABLES
    wpc,        \* where each writer is
    draft,      \* the fields its message was made from
    msg,        \* its message
    payload,    \* the payload slice: cells of its own, or those of a gzip buffer
    buf,        \* the buffer it encoded into
    mem,        \* contents of the pooled buffers
    zmem,       \* contents of the gzip buffers
    zfree,      \* gzip buffers in spBuffer
    stream,     \* cells written and not yet read
    due,        \* the fields of the messages in the stream, in order
    open,       \* the connection is up
    cut,        \* a frame was cut by a deadline and the connection left open
    rm,         \* the reader's message
    last,       \* outcome of the last Decode, with the fields it was due
    sends

ASSUME NilAssumption == Nil \notin Bufs

encVars == <<wpc, draft, msg, payload, buf>>
zipVars == <<zmem, zfree>>
readVars == <<rm, last>>
vars == <<poolVars, encVars, zipVars, readVars, mem, stream, due, open, cut, sends>>

-----------------------------------------------------------------------------
(* The header.  h[1] is the version, b2 and b3 are h[2] and h[3].           *)

Bits(n, k) == {i \in 0..(k - 1) : (n \div 2^i) % 2 = 1}
Value(bits) == LET w == [i \in 0..7 |-> IF i \in bits THEN 2^i ELSE 0]
               IN  w[0] + w[1] + w[2] + w[3] + w[4] + w[5] + w[6] + w[7]
Shift(bits, k) == {i + k : i \in bits} \cap 0..7

magicNumber == 8
Header0 == [magic |-> magicNumber, version |-> 0, b2 |-> {}, b3 |-> {}, seq |-> 0]

CheckMagicNumber(h) == h.magic = magicNumber
SetVersion(h, v) == [h EXCEPT !.version = v]
MessageType(h) == Value(Shift(h.b2 \cap {7}, -7))
SetMessageType(h, mt) == [h EXCEPT !.b2 = @ \cup Shift(Bits(mt, 8), 7)]
IsHeartbeat(h) == 6 \in h.b2
SetHeartbeat(h, hb) == [h EXCEPT !.b2 = IF hb THEN @ \cup {6} ELSE @ \ {6}]
IsOneway(h) == 5 \in h.b2
SetOneway(h, oneway) == [h EXCEPT !.b2 = IF oneway THEN @ \cup {5} ELSE @ \ {5}]
CompressType(h) == Value(Shift(h.b2 \cap 2..4, -2))
SetCompressType(h, ct) == [h EXCEPT !.b2 = (@ \ (2..4)) \cup (Shift(Bits(ct, 8), 2) \cap 2..4)]
MessageStatusType(h) == Value(h.b2 \cap 0..1)
SetMessageStatusType(h, mt) == [h EXCEPT !.b2 = (@ \ (0..1)) \cup (Bits(mt, 8) \cap 0..1)]
SerializeType(h) == Value(Shift(h.b3 \cap 4..7, -4))
SetSerializeType(h, st) == [h EXCEPT !.b3 = (@ \ (4..7)) \cup Shift(Bits(st, 8), 4)]
SetSeq(h, n) == [h EXCEPT !.seq = n]

-----------------------------------------------------------------------------
(* Messages.  ServicePath, ServiceMethod and Payload are sequences of cells,*)
(* Metadata is a function from keys to values.                              *)

NoMeta == [k \in {} |-> <<>>]
NewMessage == [header |-> Header0, path |-> <<>>, method |-> <<>>, meta |-> NoMeta,
               payload |-> <<>>, data |-> <<>>]

Reset_KeepsMeta(m) == [NewMessage EXCEPT !.header.magic = m.header.magic, !.meta = m.meta]

(* Reset keeps the allocated data and the magic number.                     *)
Reset(m) == [NewMessage EXCEPT !.header.magic = m.header.magic]

(* How a user of the package fills in a message, in the order of            *)
(* client.send and Server.SendMessage.                                      *)
Compose(f) ==
    LET h1 == SetMessageType(SetVersion(Header0, f.version), f.type)
        h2 == SetSerializeType(SetSeq(h1, f.seq), f.serialize)
        h3 == SetOneway(SetHeartbeat(h2, f.heartbeat), f.oneway)
        h4 == SetMessageStatusType(SetCompressType(h3, f.compress), f.status)
    IN  [NewMessage EXCEPT !.header = h4, !.path = f.path, !.method = f.method,
                           !.meta = f.meta, !.payload = f.payload]

(* The fields of a message as its getters show them.                        *)
Fields(m) ==
    [version |-> m.header.version, type |-> MessageType(m.header), seq |-> m.header.seq,
     serialize |-> SerializeType(m.header), heartbeat |-> IsHeartbeat(m.header),
     oneway |-> IsOneway(m.header), compress |-> CompressType(m.header),
     status |-> MessageStatusType(m.header), path |-> m.path, method |-> m.method,
     meta |-> m.meta, payload |-> m.payload]

-----------------------------------------------------------------------------
(* Compression.  Compressors holds None and Gzip.  A gzip stream carries a  *)
(* checksum: it can be undone only when every cell of it is in place.       *)

None == 0
Gzip == 1
Supported(ct) == ct \in {None, Gzip}
Zipped(p) == [i \in 1..(Len(p) + 1) |-> <<"gzip", p, i>>]
Payloads == {f.payload : f \in Drafts}
IsZipped(cells) == \E p \in Payloads : cells = Zipped(p)
Unzip(cells) == CHOOSE p \in Payloads : cells = Zipped(p)

(* copy(data[at:], cells) for one piece after the other: a later piece      *)
(* covers an earlier one, and what no piece covers stays.                   *)
CopyAll(data, pieces) ==
    [i \in 1..Len(data) |->
        LET over == {k \in 1..Len(pieces) : i - pieces[k].at \in 1..Len(pieces[k].cells)}
        IN  IF over = {} THEN data[i] ELSE pieces[Max(over)].cells[i - pieces[Max(over)].at]]

Piece(at, cells) == [at |-> at, cells |-> cells]

(* A payload slice: the writer's own cells, or the first n cells of a gzip  *)
(* buffer, which Zip has already returned to spBuffer.                      *)
Own(cells) == [zip |-> Nil, cells |-> cells, n |-> Len(cells)]
InZip(z, n) == [zip |-> z, cells |-> <<>>, n |-> n]
Cells(p) == IF p.zip = Nil THEN p.cells ELSE SubSeq(zmem[p.zip], 1, p.n)

-----------------------------------------------------------------------------
(* Encoding.                                                                *)

HeaderL == 1
LenL == 1

(* encodeMetadata ranges over a map: any order of the keys.                 *)
KeyOrders(meta) == Injection(1..Cardinality(DOMAIN meta), DOMAIN meta)

encodeMetadata(meta, keys) ==
    LET cells[i \in 0..Len(keys)] ==
            IF i = 0
               THEN <<>>
               ELSE cells[i - 1] \o <<Len(keys[i])>> \o keys[i]
                                 \o <<Len(meta[keys[i]])>> \o meta[keys[i]]
    IN  cells[Len(keys)]

(* The layout EncodeSlicePointer writes into data, at computed offsets.     *)
Layout(m, meta, pay, data) ==
    LET spL == Len(m.path)
        smL == Len(m.method)
        totalL == (LenL + spL) + (LenL + smL) + (LenL + Len(meta)) + (LenL + Len(pay))
        spStart == HeaderL + LenL
        smStart == spStart + LenL + spL
        metaStart == smStart + LenL + smL
        payLoadStart == metaStart + LenL + Len(meta)
    IN  CopyAll(data, <<Piece(0, <<m.header>>), Piece(HeaderL, <<totalL>>),
                        Piece(spStart, <<spL>>), Piece(spStart + LenL, m.path),
                        Piece(smStart, <<smL>>), Piece(smStart + LenL, m.method),
                        Piece(metaStart, <<Len(meta)>>), Piece(metaStart + LenL, meta),
                        Piece(payLoadStart, <<Len(pay)>>), Piece(payLoadStart + LenL, pay)>>)

EncodedLen(m, meta, pay) ==
    HeaderL + LenL + (LenL + Len(m.path)) + (LenL + Len(m.method)) + (LenL + Len(meta)) + (LenL + Len(pay))

Pieces_Short(m, meta, pay) ==
    <<m.header>> \o <<(LenL + Len(m.path)) + (LenL + Len(m.method)) + (LenL + Len(meta)) + Len(pay)>>
    \o <<Len(m.path)>> \o m.path \o <<Len(m.method)>> \o m.method
    \o <<Len(meta)>> \o meta \o <<Len(pay)>> \o pay

(* What the second encoder writes, piece after piece.                       *)
Pieces(m, meta, pay) ==
    <<m.header>>
    \o <<(LenL + Len(m.path)) + (LenL + Len(m.method)) + (LenL + Len(meta)) + (LenL + Len(pay))>>
    \o <<Len(m.path)>> \o m.path \o <<Len(m.method)>> \o m.method
    \o <<Len(meta)>> \o meta \o <<Len(pay)>> \o pay

(* WriteTo: the second encoder. It has written the header when it finds     *)
(* that the compressor is unknown or Zip fails, and then gives up.          *)
WriteTo(m, meta, pay, zipFails) ==
    LET ct == CompressType(m.header) IN
    IF ct # None /\ (~Supported(ct) \/ zipFails)
    THEN [err |-> IF Supported(ct) THEN "zip" ELSE "ErrUnsupportedCompressor", cells |-> <<m.header>>]
    ELSE [err |-> Nil, cells |-> Pieces(m, meta, pay)]

-----------------------------------------------------------------------------
(* Decoding.  A result holds the error (Nil for none) and the message as    *)
(* far as it was filled in.                                                 *)

Failed(m, err) == [err |-> err, m |-> m]

(* Decode recovers from slicing beyond data and then returns a nil error.   *)
Panicked(m) == Failed(m, Nil)

(* A length at n and the cells that follow it.                              *)
Field(data, n) ==
    IF n + LenL <= Len(data) /\ n + LenL + data[n + 1] <= Len(data)
    THEN [ok |-> TRUE, cells |-> SubSeq(data, n + LenL + 1, n + LenL + data[n + 1]),
          end |-> n + LenL + data[n + 1]]
    ELSE [ok |-> FALSE, cells |-> <<>>, end |-> Len(data)]

(* decodeMetadata: pairs of key and value until the cells are used up; a    *)
(* pair that is not complete is ErrMetaKVMissing. A length is one cell: a   *)
(* frame that ends within a length is not told apart.                       *)
decodeMetadata(cells) ==
    LET pairs[n \in 0..Len(cells)] ==
            IF n = Len(cells) THEN [ok |-> TRUE, meta |-> NoMeta]
            ELSE LET k == Field(cells, n)
                     v == Field(cells, k.end)
                 IN  IF ~k.ok \/ ~v.ok THEN [ok |-> FALSE, meta |-> NoMeta]
                     ELSE [ok |-> pairs[v.end].ok, meta |-> pairs[v.end].meta @@ (k.cells :> v.cells)]
    IN  pairs[0]

(* The part of Decode after the frame has been read into data.              *)
Parse(m0, data) ==
    LET sp == Field(data, 0)
        sm == Field(data, sp.end)
        me == Field(data, sm.end)
        meta == decodeMetadata(me.cells)
        pay == SubSeq(data, me.end + LenL + 1, Len(data))
        m == [m0 EXCEPT !.data = data]
        m1 == [m EXCEPT !.path = sp.cells]
        m2 == [m1 EXCEPT !.method = sm.cells]
        m3 == IF me.cells = <<>> THEN m2 ELSE [m2 EXCEPT !.meta = meta.meta]
        m4 == [m3 EXCEPT !.payload = pay]
        ct == CompressType(m.header)
    IN  CASE ~sp.ok -> Panicked(m)
          [] sp.ok /\ ~sm.ok -> Panicked(m1)
          [] sm.ok /\ ~me.ok -> Panicked(m2)
          [] me.ok /\ ~meta.ok -> Failed(m3, "ErrMetaKVMissing")
          [] me.ok /\ meta.ok /\ me.end + LenL > Len(data) -> Panicked(m3)
          [] OTHER ->
                IF ct = None THEN Failed(m4, Nil)
                ELSE IF ~Supported(ct) THEN Failed(m4, "ErrUnsupportedCompressor")
                ELSE IF ~IsZipped(pay) THEN Failed([m4 EXCEPT !.payload = <<>>], "unzip")
                ELSE Failed([m4 EXCEPT !.payload = Unzip(pay)], Nil)

(* The frame at the head of the stream has arrived completely.              *)
Arrived == Len(stream) >= HeaderL + LenL /\ Len(stream) >= HeaderL + LenL + stream[HeaderL + 1]

(* Decode into m: header, total length, limit, frame, parse.  Only a closed *)
(* connection ends a read before all cells have arrived.                    *)
DecodeInto(m) ==
    LET m1 == [m EXCEPT !.header = Head(stream)]
    IN  IF stream = <<>> THEN Failed(m, "EOF")
        ELSE IF ~CheckMagicNumber(Head(stream)) THEN Failed(m, "wrong magic number")
        ELSE IF Len(stream) < HeaderL + LenL THEN Failed(m1, "EOF")
        ELSE IF MaxMessageLength > 0 /\ stream[HeaderL + 1] > MaxMessageLength
             THEN Failed(m1, "ErrMessageTooLong")
        ELSE IF ~Arrived THEN Failed(m1, "EOF")
        ELSE Parse(m1, SubSeq(stream, HeaderL + LenL + 1, HeaderL + LenL + stream[HeaderL + 1]))

-----------------------------------------------------------------------------
Init ==
    /\ PoolInit
    /\ wpc = [w \in Writers |-> "idle"]
    /\ draft = [w \in Writers |-> Nil]
    /\ msg = [w \in Writers |-> NewMessage]
    /\ payload = [w \in Writers |-> Own(<<>>)]
    /\ buf = [w \in Writers |-> Nil]
    /\ mem = [b \in Bufs |-> <<>>]
    /\ zmem = [z \in ZipBufs |-> <<>>]
    /\ zfree = ZipBufs
    /\ stream = <<>> /\ due = <<>> /\ open = TRUE /\ cut = FALSE
    /\ rm = NewMessage
    /\ last = [err |-> Nil, got |-> Nil, want |-> Nil]
    /\ sends = 0

(* A goroutine makes a message (client.send, handleRequest, SendMessage).   *)
Make(w, f) ==
    /\ wpc[w] = "idle" /\ sends < MaxSends
    /\ f.compress # Gzip \/ w \in Gzippers
    /\ sends' = sends + 1
    /\ draft' = [draft EXCEPT ![w] = f]
    /\ msg' = [msg EXCEPT ![w] = Compose(f)]
    /\ wpc' = [wpc EXCEPT ![w] = "zip"]
    /\ UNCHANGED <<poolVars, payload, buf, mem, zipVars, stream, due, open, cut, readVars>>

(* GzipCompressor.Zip: the gzip stream is written into a buffer of          *)
(* spBuffer; the deferred call has put that buffer back when the slice of   *)
(* it is returned.                                                          *)
GzipZip(w, z) ==
    LET out == Zipped(msg[w].payload) IN
    /\ z \in zfree
    /\ zmem' = [zmem EXCEPT ![z] = out \o SubSeq(@, Len(out) + 1, Len(@))]
    /\ payload' = [payload EXCEPT ![w] = InZip(z, Len(out))]
    /\ UNCHANGED <<msg, zfree>>

(* The first part of EncodeSlicePointer: compression, or none of it when    *)
(* the compressor is unknown or fails, which the header then says.          *)
Compress(w) ==
    LET m == msg[w]
        ct == CompressType(m.header)
    IN
    /\ wpc[w] = "zip"
    /\ \/ /\ ct = None
          /\ payload' = [payload EXCEPT ![w] = Own(m.payload)]
          /\ UNCHANGED <<msg, zipVars>>
       \/ /\ ct # None      \* unknown, or Zip fails
          /\ msg' = [msg EXCEPT ![w].header = SetCompressType(@, None)]
          /\ payload' = [payload EXCEPT ![w] = Own(m.payload)]
          /\ UNCHANGED zipVars
       \/ /\ ct = Gzip
          /\ \E z \in ZipBufs : GzipZip(w, z)
    /\ wpc' = [wpc EXCEPT ![w] = "encode"]
    /\ UNCHANGED <<poolVars, draft, buf, mem, stream, due, open, cut, readVars, sends>>

(* The second part: a buffer of the pool, with whatever it held before, and *)
(* the pieces copied to their offsets.                                      *)
EncodeSlicePointer(w, b) ==
    LET m == msg[w]
        pay == Cells(payload[w])
    IN
    /\ wpc[w] = "encode"
    /\ \E keys \in KeyOrders(m.meta) :
          LET meta == encodeMetadata(m.meta, keys)
              l == EncodedLen(m, meta, pay)
          IN  /\ Get(l, b)
              /\ LET dirty == IF cap[b] = 0 THEN [i \in 1..cap'[b] |-> 0] ELSE mem[b]
                     data == Layout(m, meta, pay, SubSeq(dirty, 1, l))
                 IN  mem' = [mem EXCEPT ![b] = data \o SubSeq(dirty, l + 1, Len(dirty))]
    /\ buf' = [buf EXCEPT ![w] = b]
    /\ wpc' = [wpc EXCEPT ![w] = "write"]
    /\ UNCHANGED <<draft, msg, payload, zipVars, stream, due, open, cut, readVars, sends>>

(* What the fields should be at the other end: those the message was made   *)
(* with, without compression when there was none.                           *)
Promised(w) ==
    IF payload[w].zip = Nil THEN [draft[w] EXCEPT !.compress = None] ELSE draft[w]

(* conn.Write: the slice is written as a whole, or the connection breaks    *)
(* after a part of it, or a deadline passes after a part of it: nobody      *)
(* closes the connection then, and the next frame follows the cut one.      *)
(* From there on the cells have no meaning for the reader and are left out. *)
(* On a broken connection nothing is written.                               *)
Write(w) ==
    LET data == SubSeq(mem[buf[w]], 1, slice[buf[w]]) IN
    /\ wpc[w] = "write"
    /\ \/ /\ open /\ ~cut
          /\ stream' = stream \o data
          /\ due' = Append(due, Promised(w))
          /\ UNCHANGED <<open, cut>>
       \/ /\ open
          /\ \E n \in IF cut THEN {0} ELSE 0..(Len(data) - 1) : stream' = stream \o SubSeq(data, 1, n)
          /\ open' = FALSE
          /\ UNCHANGED <<due, cut>>
       \/ /\ open
          /\ cut' \in {cut, TRUE}
          /\ UNCHANGED <<stream, due, open>>
       \/ ~open /\ UNCHANGED <<stream, due, open, cut>>
    /\ wpc' = [wpc EXCEPT ![w] = "put"]
    /\ UNCHANGED <<poolVars, draft, msg, payload, buf, mem, zipVars, readVars, sends>>

(* PutData, after the write has returned.                                   *)
PutData(w) ==
    /\ wpc[w] = "put"
    /\ Put(buf[w])
    /\ mem' = [mem EXCEPT ![buf[w]] = IF cap'[buf[w]] = 0 THEN <<>> ELSE @]
    /\ wpc' = [wpc EXCEPT ![w] = "idle"]
    /\ draft' = [draft EXCEPT ![w] = Nil]
    /\ msg' = [msg EXCEPT ![w] = NewMessage]
    /\ payload' = [payload EXCEPT ![w] = Own(<<>>)]
    /\ buf' = [buf EXCEPT ![w] = Nil]
    /\ UNCHANGED <<zipVars, stream, due, open, cut, readVars, sends>>

(* Read, and Decode into a message that was reset: the next frame, or the   *)
(* error that a closed connection or a limit gives.  After an error the     *)
(* reader stops and closes the connection.                                  *)
Read(m) ==
    LET r == DecodeInto(m)
        n == HeaderL + LenL + Len(r.m.data)
    IN
    /\ last.err = Nil
    /\ Arrived \/ ~open
    /\ rm' = r.m
    /\ last' = [err |-> r.err, got |-> Fields(r.m),
                want |-> IF due = <<>> THEN Nil ELSE Head(due)]
    /\ IF r.err = Nil
       THEN /\ stream' = SubSeq(stream, n + 1, Len(stream))
            /\ due' = IF due = <<>> THEN due ELSE Tail(due)
            /\ UNCHANGED open
       ELSE stream' = <<>> /\ due' = <<>> /\ open' = FALSE
    /\ UNCHANGED <<poolVars, encVars, mem, zipVars, cut, sends>>

(* The reader has come to the frame that was cut: Decode takes cells of it  *)
(* and of what follows for a message, or finds an error.                    *)
Misread ==
    /\ last.err = Nil /\ cut /\ stream = <<>>
    /\ \E err \in {Nil, "garbled"} :
          /\ last' = [err |-> err, got |-> "garbled", want |-> Nil]
          /\ open' = (open /\ err = Nil)
    /\ UNCHANGED <<poolVars, encVars, mem, zipVars, rm, stream, due, cut, sends>>

(* Nobody keeps what the pools hold.                                        *)
Forget(b) ==
    /\ Collect(b)
    /\ mem' = [mem EXCEPT ![b] = <<>>]
    /\ UNCHANGED <<encVars, zipVars, stream, due, open, cut, readVars, sends>>

Next ==
    \/ \E w \in Writers :
          \/ \E f \in Drafts : Make(w, f)
          \/ Compress(w)
          \/ \E b \in Bufs : EncodeSlicePointer(w, b)
          \/ Write(w)
          \/ PutData(w)
    \/ Read(NewMessage)
    \/ Read(Reset(rm))
    \/ Misread
    \/ \E b \in Bufs : Forget(b)

Spec == Init /\ [][Next]_vars

-----------------------------------------------------------------------------
(* Every message that was written whole, before any frame was cut by a      *)
(* deadline, is read field by field as it was sent, in the order of the     *)
(* writes: header bits do not disturb one another, lengths and offsets      *)
(* agree with Decode, nothing of an earlier use of the pooled buffer, of    *)
(* the reader's message or of another writer's message is left in it; it is *)
(* refused only when it is longer than MaxMessageLength. Beyond these       *)
(* messages the reader accepts nothing: a frame that a broken connection    *)
(* cut off is an EOF or too long. Only after a write that its deadline cut, *)
(* which leaves the connection open (server.go:396-418, client.go:594-613), *)
(* is anything possible.                                                    *)
ReadsWhatWasSent ==
    /\ last.want # Nil =>
          last.err = "ErrMessageTooLong" \/ (last.err = Nil /\ last.got = last.want)
    /\ last.want = Nil /\ last.got # Nil => cut \/ last.err \in {"EOF", "ErrMessageTooLong"}

(* The two encoders write the same cells for every message that WriteTo     *)
(* encodes; where it gives up after the header, because the compressor is   *)
(* unknown or fails (message.go:306-315), EncodeSlicePointer writes what    *)
(* WriteTo writes for the message without compression (message.go:243-254). *)
EncodersAgree ==
    \A w \in Writers : wpc[w] = "write" =>
        LET m == Compose(draft[w])
            plain == [m EXCEPT !.header = SetCompressType(@, None)]
            pay == Cells(payload[w])
        IN  \E keys \in KeyOrders(m.meta) :
                LET meta == encodeMetadata(m.meta, keys)
                    r == WriteTo(m, meta, pay, payload[w].zip = Nil)
                IN  SubSeq(mem[buf[w]], 1, slice[buf[w]]) =
                        IF r.err = Nil THEN r.cells ELSE WriteTo(plain, meta, pay, FALSE).cells

(* From Get to PutData a writer holds a buffer that is marked as in use and *)
(* that no other writer holds.                                              *)
HoldInv ==
    /\ wpc \in [Writers -> {"idle", "zip", "encode", "write", "put"}]
    /\ buf \in [Writers -> Bufs \cup {Nil}]
    /\ \A w \in Writers :
        /\ wpc[w] \in {"write", "put"} => buf[w] \in Bufs /\ slice[buf[w]] # 0
        /\ wpc[w] \notin {"write", "put"} => buf[w] = Nil
        /\ \A v \in Writers : v # w /\ buf[w] # Nil => buf[v] # buf[w]

(* Nobody encodes into a buffer that another goroutine has not yet written  *)
(* out, and no buffer is sliced beyond its capacity, whatever the order of  *)
(* the Gets and Puts of all goroutines.                                     *)
BufferInv == PoolInv /\ HoldInv
=============================================================================
