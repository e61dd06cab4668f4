# TLA+ models of the cfops SFTP wire layer

The Go sources of this repository that hold program logic are the vendored
`pkg/sftp` file `src/Godeps/_workspace/src/github.com/pkg/sftp/packet.go`
(828 lines). The other three source files (`src/unnamed/part_000`,
`part_001` and `xchapter7x/goutil/wercker.yml`) are wercker CI pipelines.
`packet.go` is the codec and framing layer of an SFTP-style protocol, and
`spec.md` describes it. The server loop (`server.go`), the client
(`client.go`) and the `ssh_FXP_*` tag constants (`sftp.go`) are not under
`src/`. Where a model needs them, it takes them from `spec.md` and the map
in `PROJECT.json` marks those definitions `spec_modelled`.

## Inventory

| Component | Code | State | Operations |
|---|---|---|---|
| Primitive codec | `marshalUint32/64/String`, `unmarshalUint32/64/String` and the `...Safe` variants (22-110) | none (pure) | encode to big-endian bytes; decode unchecked (panics when short) or checked (`shortPacketError`) |
| Packet catalog | 25 packet structs with `MarshalBinary`/`UnmarshalBinary` (159-806) | none (pure) | marshal: the tag byte, then the fields in declared order; unmarshal: the fields in order, stopping at the first error |
| Framing layer | `sendPacket`, `recvPacket` (112-157) | the byte stream | send: a 4-byte length, then the payload, as two Writes; receive: `io.ReadFull` of 4 bytes, then of `l` bytes, then `b[0]`, `b[1:]` |
| Concurrent sender | `Server.sendPacket` (133-138) | `svr.outMutex`, the output stream | lock, marshal, write the frame, unlock (deferred) |
| Status/attributes encoder | reflective `marshal` (34-65), used by NAME (449-483) and SETSTAT/FSETSTAT (682-708); `marshalStatus` and `marshalFileInfo` are not under `src/` | none | encode `interface{}` attributes by type switch or reflection; panic on unknown types |
| StatVFS | `TotalSpace`, `FreeSpace` (808-828) | none | uint64 products |
| Dispatch and server loop | not under `src/` (from spec.md §2 and §5) | connection | decode by type byte, run the handler in a goroutine, answer through `Server.sendPacket` |

How the parts interact: recvPacket takes one frame off the inbound stream. The
receiver dispatches on its type byte to an `UnmarshalBinary`. A handler
goroutine produces a response. The response's `MarshalBinary` builds the
payload, and `Server.sendPacket` writes it as a frame while holding
`outMutex`. Many responders share the output stream and its mutex.

What is hard here:

- **Concurrency.** Responders write concurrently. A frame is two Writes,
  so the mutex must cover both.
- **Partial failure.** A Write can fail after it has put part of its bytes
  on the stream, which leaves a torn frame.
- **Adversarial input.** The peer controls every length field: the frame
  length, string lengths and data lengths.
- **Error paths.** Every error path has to release the mutex.

What makes each part correct:

- **Codec and catalog.** Decode inverts encode, and trailing bytes are
  tolerated. No input reads out of bounds. A truncated payload is never
  accepted as the packet that was sent. The tag matches the kind.
- **Framing and sender.** The reader gets exactly the completed frames,
  whole and in order, and eventually all of them. It fails only when the
  sender's transport failed. No responder waits forever. No peer input
  makes `recvPacket` panic.
- **Server.** It implements a request-reply service (`RpcService`). Every
  answer carries the Id of a pending request that was read, and no Id is
  answered twice. Every request whose Id parses is eventually answered
  unless the connection failed, including a request that did not decode.
- **Reflective marshal.** It writes the leaves of a value in order and
  panics only on types it cannot handle.

## Modules

- `SftpCodec.tla` (pure operators) covers the primitive codec and the
  packet catalog.
  - **Decode results.** Every decode returns `[err, v, rest]`. `err` is one
    of `NoErr`, `ShortPacket`, `Truncated` (DATA's "truncated packet") and
    `Panic`, the Go runtime panic of an index or slice past the end.
    Buffers come from `make([]byte, l)`, so capacity equals length and
    `GoSplit` panics exactly where Go would.
  - **Layout.** Each packet kind is a `Layout` entry: its fields in
    declared order, each with the codec that its MarshalBinary and
    UnmarshalBinary use.
  - **Encode and decode.** `Marshal` folds `EncodeField` over the layout,
    starting from `MarshalTag[kind]`. `MarshalTag` is the tag that the code
    really writes: STAT writes LSTAT and REALPATH writes READLINK.
    `Unmarshal` runs `DecodeFields` and stops at the first error.
    `DecodePayload` is the receiver's dispatch on the type byte, modelled
    from the spec with the standard `Registry` numbers.
  - **Integers.** TLC integers are 32-bit signed, so uint32 values stay
    below 2^31 and bytes inside decoded integers stay below 128. A uint64
    is the pair `[hi, lo]`, which is how `marshalUint64` splits it. Byte
    order and length discipline are what the properties check. The sign
    bit plays no part in the code.
- `MCSftpCodec.tla` drives the catalog.
  - **State.** A packet `pkt` and the payload that the receiver decodes.
  - **Actions.** `Encode(p)` encodes any packet built from small field
    values: two values per field, chosen so that each uint32 has four
    distinct bytes (`0x01020304`). `Truncate` drops the last byte.
    `AppendJunk(x)` adds up to `MaxJunk` trailing bytes.
  - **Length skew.** `LengthSkews` lets a WRITE/DATA `Length` be that much
    below `len(Data)`. It is {0} in the round-trip run and {0, 1} in the
    length run.
- `SftpFraming.tla` models the framing layer and the concurrent sender.
  - **Responders.** Each responder is a goroutine in `Server.sendPacket`:
    `Lock`, `WriteHdr`, `WriteBody`, `Unlock`. The unlock is the deferred
    release.
  - **Write failures.** Any Write may fail (`WriteFails`). It puts a prefix
    of its bytes on the stream and the transport stays failed (`broken`).
  - **Reader.** The reader is `recvPacket` in a loop: `RecvHeader` and
    `RecvBody` are its two `io.ReadFull` calls, and `RecvEOF` is
    end-of-stream mid-read.
  - **Spec-modelled steps.** `CloseConn`, the server closing the connection
    once all responders have returned or the transport failed, comes from
    the spec. So does `Terminated`, the end of the connection.
  - **History.** `sent` records the responders whose whole frame is on the
    stream.
- `FrameChannel.tla` is the abstract promise of the framing layer: an
  atomic channel of whole messages that may fail. `SftpFraming` maps onto
  it as `msgs <- payloads of sent`, `delivered <- received` and
  `up <- ~broken`, and it is checked as the property `ChannelRefinement`.
- `SftpMarshal.tla` covers the reflective `marshal` and the packets built
  on it.
  - **Values.** A Go value is a record `[t, v]` of its dynamic type and its
    contents. The types are the nil interface, the five cases of the type
    switch, struct and slice (whose `v` is the sequence of fields or
    elements), and kinds the switch does not handle: `int` and `FileMode`,
    a named uint32 that does not match `case uint32`.
  - **Operators.** `ReflectMarshal` is `marshal`, and `MarshalEach` is its
    field/element loop, which stops at a panic. `MarshalName` and
    `NameAttrMarshal` are the NAME packet. `MarshalAttrsPacket` is
    SETSTAT/FSETSTAT with a typed Attrs: the fixed fields as the catalog
    encodes them, then `marshal(b, p.Attrs)`. `RawBytes` is the `[]byte`
    that their UnmarshalBinary stores in Attrs.
  - **Spec-modelled.** `MarshalFileInfo` (attrs.go) comes from spec.md
    4.4: flags, then SIZE and PERMISSIONS.
- `MCSftpMarshal.tla` picks one packet per state from about 4,200. They are
  NAME packets with up to two entries of up to two attributes, and
  SETSTAT/FSETSTAT packets whose Attrs is any value up to two levels of
  struct/slice nesting with two fields each. The values are built from
  every case of the type switch, nil and the two unhandled kinds. It checks
  the code against a reference definition: the leaves of the value, depth
  first, each in wire form.
- `SftpAttrs.tla` is the peer's side of a NAME response. client.go and
  attrs.go are not under `src/`, so it is taken from spec.md 4.4 and 6.
  - `UnmarshalAttrs` reads the flags word, then each flagged field in the
    canonical order (size, uid/gid, permissions, atime/mtime).
  - `UnmarshalName` reads the Id, the count and then that many entries of
    name, long name and attributes.
  - Every read is one of the codec's checked decodes.
- `MCSftpNameWire.tla` composes the code's NAME encoder (`MarshalName`) with
  these decoders. Its packets have up to three entries, with empty or
  one-byte names and long names. In `MCSftpNameWire.cfg` each entry's Attrs
  is one os.FileInfo of size 0 or 2^32 + 3, which is what a directory
  listing sends. In `MCSftpNameWire_attrs.cfg` the Attrs are up to two
  values of any type that `marshal` handles, in up to two entries.
- `SftpStatVFS.tla` models `TotalSpace` and `FreeSpace`. A uint64 product is
  computed on the eight bytes of each factor (`MulMod64`, schoolbook with
  `Carry`) and keeps the low eight bytes, which is Go's wrap modulo 2^64.
  `MCSftpStatVFS.tla` enumerates statvfs replies with `Bavail <= Bfree <=
  Blocks`. It uses a 4 KiB and a 2^32-byte fragment, and counts of 0, 1000
  and 2^32.
- `SftpServer.tla` composes the codec with the sender, following spec.md 5
  and 7, because server.go is not under `src/`.
  - **Reader loop.** `ReadRequest` decodes the next inbound frame with
    `DecodePayload`. A request that decodes is dispatched to a handler
    goroutine. One that does not is answered with a STATUS for its Id when
    `unmarshalUint32Safe` recovers the Id, and otherwise closes the
    connection. `EndOfInput` is io.EOF at a frame boundary.
  - **Handlers.** `Handle` does the work without the lock and returns a
    reply or a StatusError.
  - **Sender.** `Lock`, `SendFrame` and `Unlock` are `Server.sendPacket`.
    A frame write is atomic here, which `ChannelRefinement` justifies. It
    may fail, and it always fails once the connection is closed.
  - **Refinement.** `RpcService.tla` is the contract the server promises
    its peer. Requests arrive with Ids (`Request`). Each pending request is
    answered once, in any order, while the connection is up (`Answer`).
    The connection may fail (`Fail`). Weak fairness on `Answer` makes every
    pending request eventually answered while the connection stays up.
    `SftpServer` maps onto it as follows:
    - a request is pending when its Id parses, the reader has taken it, and
      no answer carries the Id yet;
    - the answers are the Ids on the output stream;
    - the connection is up while no write failed and the reader has not
      closed it.

    `RpcRefinement` checks this mapping. It assumes, as the protocol does,
    that the peer's request Ids are distinct.
  - **Precomputation.** `DecodeOf` and `IdField` tabulate the decoder over
    the stream's payloads so that TLC evaluates them once.
- `MCSftpServer.tla` uses two streams of five frames, with Ids 1-5:
  - an OPEN, an LSTAT and a well-formed CLOSE;
  - an EXTENDED statvfs request. packet.go has no `UnmarshalBinary` for
    it, so the reader answers it with a STATUS for its Id;
  - in the first stream, a READ truncated inside its handle (a decode
    error with a parsable Id);
  - in the second, a CLOSE cut off inside its Id. It closes the connection
    before the well-formed CLOSE behind it is read.
- `MCSftpFraming.tla` sets up three responders. Their payloads are a HANDLE,
  a DATA and a HANDLE response as `Marshal` encodes them (10, 9 and 9
  bytes).

## Runs

| Run | Checks | Result |
|---|---|---|
| `codec_roundtrip` (`MCSftpCodec.cfg`, MaxJunk 4) | `TypeOK`, `DecodeInvertsEncode`, `NoPanic`, `TruncationNeverMisread` | pass, 7,420 states: every decodable kind round-trips (with up to 4 trailing bytes for closed layouts); no truncation or padding reads out of bounds; a truncated closed layout fails with `shortPacketError`/"truncated packet", and an open one (INIT extensions, SETSTAT attributes) only loses part of its last field |
| `codec_tags` (`MCSftpCodec_tags.cfg`) | `KindPreserved` | violation: STAT is encoded with the LSTAT tag (packet.go:319), and REALPATH with the READLINK tag (442) |
| `framing_concurrent` (`MCSftpFraming.cfg`, 3 responders) | `TypeOK`, `ReaderFailsOnlyAfterBreak`, `ChannelRefinement`, `EveryResponderReturns` | pass, 7,715 states: with partial failing writes at every point, the reader gets exactly the completed frames, whole and in lock order, and eventually all of them; it fails mid-frame only after a write failed; every responder returns |
| `framing_zero_length` (`MCSftpFraming_zero.cfg`) | `RecvNeverPanics` | violation: a frame of length 0 makes `recvPacket` index `b[0]` of an empty slice (packet.go:156) |
| `marshal_reflect` (`MCSftpMarshal.cfg`) | `MarshalMatchesReference`, `ForwardStable` | pass, 4,233 states: `marshal`, NAME and typed SETSTAT/FSETSTAT write exactly the leaves of the value depth first, skip nil interfaces, and panic exactly when a leaf is of an unhandled type (an `int`, or `os.FileMode`, which does not match `case uint32`); a SETSTAT that marshals decodes to its fixed fields and re-marshals from the `[]byte` Attrs to the same bytes |
| `server_dispatch` (`MCSftpServer.cfg`) | `RpcRefinement` | pass, 68,011 states, about 50 s. Whatever order the handlers finish in and whichever writes fail, the server implements `RpcService`: no answer is duplicated or unrequested, and every request whose Id parses, including the truncated READ and the undecodable EXTENDED, is eventually answered unless a write failed or the connection closed |
| `name_wire` (`MCSftpNameWire.cfg`) | `NameReadBack` | pass, 585 states: the peer reads back every NAME whose entries each carry one os.FileInfo. The Id, the count, each name and long name, and each size and permission set come back, with no byte left over |
| `name_attrs` (`MCSftpNameWire_attrs.cfg`) | `NameNeverMisread` | violation: an entry with empty Attrs, followed by one with an os.FileInfo, is marshalled with no flags word (packet.go:459). The peer reads the second entry's name length as the first entry's flags and decodes the whole frame without error, but with the wrong names and attributes |
| `codec_length` (`MCSftpCodec_length.cfg`, Length may be len(Data) - 1) | `DeclaredLengthMatchesData` | violation: WRITE MarshalBinary writes `Length` and then all of `Data` (packet.go:611), so the frame carries a byte the peer does not count; DATA slices `Data[:Length]` (770) and keeps the two consistent |
| `statvfs_overflow` (`MCSftpStatVFS.cfg`) | `FreeSpaceWithinTotal` | violation: Frsize = Blocks = 2^32 wraps `TotalSpace` to 0 while `FreeSpace` is 1000 * 2^32 (packet.go:824) |

Each property of a passing run has a mutant in `PROJECT.json`: a plausible
fault in the mapped code that TLC shows the property catches. The mutants
are:

- little-endian decoding;
- a string length that is not checked;
- a DATA length that is not checked;
- a byte that is not narrowed;
- a responder that ignores the mutex;
- a header length that counts the header;
- a failed write that returns without unlocking;
- a reader that over-reads by one byte;
- a struct/slice loop that stops one field short;
- a type switch without `case uint8`;
- a frame write that is repeated after it succeeded.

**Bounds.** Three responders are enough for two of them to contend while a
third's write fails. The frames are 10, 9 and 9 bytes
long with different Ids, so a frame read from a misaligned offset shows. A write may fail after any prefix of its
bytes, so every torn-frame position is explored. For the codec, every kind
is built from two values per field. Every truncation point of every encoded
packet is reached, and so are all junk suffixes of up to 4 bytes over
{0, 1}, which is a whole uint32 or string length field. For the reflective
marshal, two levels of nesting with two fields reach a panic inside a
nested struct, a nil inside a struct, and a `[]byte` inside a struct. These
are every path through the recursion. For the server, five frames let up to four
handlers race for outMutex while another frame takes the STATUS or the
close path, and a well-formed request queued behind a close is never read. A write may fail at any point, including after
the connection closed.

**Fairness.** Weak fairness holds for every write, unlock, close and read
step, because the Go scheduler runs runnable goroutines. Strong fairness
holds for `Lock`, because `outMutex` is only intermittently free and
`sync.Mutex` switches to starvation mode, handing the lock to a waiter
after 1 ms. The server model assumes the same fairness for its reader
goroutine, its handlers and its sender.

## Not modelled (yet)

- STATUS: there is no code under `src/` for either side of it
  (`marshalStatus` and the client's decoder). Modelled from spec.md alone,
  the encoder and decoder would only be checked against each other.
- `marshalFileInfo` is reduced to the SIZE and PERMISSIONS fields of
  spec.md 4.4.
- WRITE/DATA with `Length` above `len(Data)`. Whether DATA's
  `Data[:Length]` panics or reads stale bytes depends on `cap(Data)`,
  which the callers in server.go set.
- The handlers' filesystem work: it is a nondeterministic reply or
  StatusError.
- The 4 GiB allocation in `recvPacket`: memory is not a model concern.
  spec.md 4.2 prescribes reading the length and then allocating that many
  bytes.
- The wrap of `uint32(len(bb))` in `sendPacket` for payloads of 4 GiB or
  more. TLC integers are 32-bit, and a payload of 2^32 bytes is out of
  reach.

- The debug dumps.
- The CI pipelines.

## Plan

1. (done) `SftpCodec` with `MCSftpCodec`: the primitive codec and the packet
   catalog, as round trip, bounds safety and truncation runs, and the tag
   aliasing finding.
2. (done) `SftpFraming` with `FrameChannel`: the concurrent sender and
   recvPacket, the refinement to the atomic channel, liveness, and the
   zero-length-frame finding.
3. (done) `SftpServer`, composing `SftpFraming` with the codec. It covers:
   - the single reader loop (spec.md §5), which decodes each inbound frame
     by tag and dispatches handler goroutines;
   - responses that echo the request Id, sent through `Server.sendPacket`
     out of request order;
   - decode errors that turn into a STATUS for the recovered Id, and a
     connection close when the Id cannot be parsed.

   Its properties: every request with a parsable Id gets exactly one
   response with its Id; no response is sent for an Id never requested;
   and the server stops after a framing error. The request loop is
   `spec_modelled`.
4. (done except the capacity `l`) Catalog completion:
   - the NAME packet and the reflective `marshal`, as an operator over a
     small type universe, with a run in which an unsupported Attrs type
     panics;
   - a property that `MarshalBinary` of WRITE and DATA with
     `Length != len(Data)` never encodes a frame that decodes to different
     data (expected violation at packet.go:611/770);
   - the precomputed capacity `l` against the actual length (statvfs and
     SETSTAT under-count; this affects allocation only).
5. (done) StatVFS: `TotalSpace`/`FreeSpace` with `% 2^64` over boundary values.
6. (done for attributes and NAME, not for STATUS) The attributes decoder
   from spec.md §4.4 (`spec_modelled`): flags first, then the optional
   fields in a fixed order, consuming exactly the flagged fields. It is
   composed with the code's NAME encoder, which gives the `name_attrs`
   finding.
7. (done) A larger server instance: five frames, including an EXTENDED
   request with no decoder, and a connection close while handlers are
   mid-write.
8. (done) `RpcService`, the request-reply contract, with `SftpServer` shown
   to refine it.
