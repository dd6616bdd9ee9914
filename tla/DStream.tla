------------------------------ MODULE DStream ------------------------------
(***************************************************************************)
(* Reading VaptVupt frames (vv_decoder.c): vv_decompress_flags, which has  *)
(* all bytes at once and reads frame after frame, and the stream decoder   *)
(* vv_dstream, which is handed the bytes of one frame in chunks and keeps  *)
(* what it cannot use yet in a buffer that it compacts and grows.          *)
(*                                                                         *)
(* Input is a sequence of elements: headers, blocks and footers, each of a *)
(* few wire units; a unit is <<element, position>>.  A unit of output is   *)
(* [elem, unit, undone]: which unit of which block, and how often a branch *)
(* filter has been undone on it.  What blocks decode to is VVBlock's part: *)
(* here a block decodes or is damaged.                                     *)
(***************************************************************************)
EXTENDS Integers, Sequences

CONSTANTS
  Streams,       \* the sequences of elements that may be handed over
  Chunks,        \* sizes of the chunks they come in
  Capacities,    \* room for output
  MaxBlock,      \* VV_MAX_BLOCK_SIZE, 2^20
  FirstBuffer,   \* initial in_cap, 65536
  MaxResets      \* bound: times a stream is used again

\* Wire units of a header, a block header, the coded size after it, a footer.
HeaderLen == 2
BlockLen  == 1
SizeLen   == 1
FooterLen == 2

VARIABLES
  elements,   \* what is handed over since the last reset
  fed,        \* units of it handed over
  room,       \* dst_cap
  stream,     \* the vv_dstream_t, see Fresh
  ret,        \* what the last call returned
  resets
vars == <<elements, fed, room, stream, ret, resets>>

-----------------------------------------------------------------------------
(* Elements. *)

Elements ==
  [kind : {"header"}, fault : {"none", "magic", "other"}, sum : BOOLEAN, filter : BOOLEAN]
  \cup [kind : {"block"}, type : {"raw", "rle", "coded", "unknown"}, size : Nat, coded : Nat,
        last : BOOLEAN, good : BOOLEAN]
  \cup [kind : {"footer"}, magic : BOOLEAN, right : BOOLEAN]

\* What decoders take for a frame: a header, h, blocks up to one marked the last,
\* k, and a footer if the header asks for a checksum.
FrameHasLast(elems, h, k) ==
  /\ \A j \in h + 1 .. k : elems[j].kind = "block" /\ (elems[j].last <=> j = k)
  /\ elems[h].sum => k < Len(elems) /\ elems[k + 1].kind = "footer"

ASSUME DStreamAssumption ==
  /\ MaxBlock \in Nat /\ FirstBuffer \in Nat \ {0} /\ MaxResets \in Nat
  /\ Chunks \subseteq Nat /\ Capacities \subseteq Nat
  /\ Streams \subseteq Seq(Elements)
  /\ \A elems \in Streams :
       /\ elems # <<>> /\ elems[1].kind = "header"
       /\ \A h \in DOMAIN elems :
            elems[h].kind = "header" => \E k \in h + 1 .. Len(elems) : FrameHasLast(elems, h, k)

\* Units of a block behind its header; a coded one begins with its size.
BlockData(e) ==
  CASE e.type = "raw"     -> e.size
    [] e.type = "rle"     -> 1
    [] e.type = "coded"   -> SizeLen + e.coded
    [] e.type = "unknown" -> 0

\* Units of an element on the wire.
LengthOf(e) ==
  CASE e.kind = "header" -> HeaderLen
    [] e.kind = "block"  -> BlockLen + BlockData(e)
    [] e.kind = "footer" -> FooterLen

Cells(k, n) == [i \in 1 .. n |-> <<k, i>>]

\* The units of the first k elements.
Wires(elems) ==
  LET wire[k \in 0 .. Len(elems)] ==
        IF k = 0 THEN <<>> ELSE wire[k - 1] \o Cells(k, LengthOf(elems[k]))
  IN  wire

WireOf(elems) == Wires(elems)[Len(elems)]

\* What a block decodes to.
DataOf(elems, k) ==
  [i \in 1 .. elems[k].size |->
     [elem |-> k, unit |-> IF elems[k].type = "rle" THEN 1 ELSE i, undone |-> 0]]

\* Mutant: the filter is undone on all output so far.
UndoAll(header, out, start) ==
  IF header.filter THEN [i \in DOMAIN out |-> [out[i] EXCEPT !.undone = @ + 1]] ELSE out

\* The branch filter of a frame is undone on its output, from start on.
Undo(header, out, start) ==
  [i \in DOMAIN out |->
     IF header.filter /\ i > start THEN [out[i] EXCEPT !.undone = @ + 1] ELSE out[i]]

\* What is wrong with a block header for the room left: nothing, or the error.
BlockFault(e, left) ==
  IF e.size > MaxBlock \/ e.size > left THEN "overflow"
  ELSE IF e.type = "unknown" THEN "corrupt" ELSE "none"

\* The output of the frame whose header is element h, as checksummed.
FrameData(elems, h, upto) ==
  LET data[i \in 0 .. upto - h] ==
        IF i = 0 THEN <<>>
        ELSE data[i - 1] \o (IF elems[h + i].kind = "block" THEN DataOf(elems, h + i) ELSE <<>>)
  IN  data[upto - h]

\* Whether a footer is that of a frame with this output.
FooterFits(elems, k, header, output) == elems[k].right /\ output = FrameData(elems, header, k)

-----------------------------------------------------------------------------
(* vv_decompress_flags on the first n units. *)

\* at: what comes next, element k; head: the header of the frame; start: where
\* its output begins; left: units not read yet.
Reading(code, at, k, head, start, out, left) ==
  [code |-> code, at |-> at, k |-> k, head |-> head, start |-> start, out |-> out, left |-> left]

Stop(d, code) == Reading(code, d.at, d.k, d.head, d.start, d.out, d.left)

Past(elems, d, at, head, start, out) ==
  Reading("on", at, d.k + 1, head, start, out, d.left - LengthOf(elems[d.k]))

\* At the end of a frame the branch filter is undone; another frame may follow.
CloseFrame(elems, d, out) ==
  Past(elems, d, "header", d.head, d.start, Undo(elems[d.head], out, d.start))

TakeHeader(elems, d) ==
  LET e == elems[d.k]
  IN  IF d.left = 0 /\ d.k > 1 THEN Stop(d, "ok")
      ELSE IF d.left < HeaderLen THEN Stop(d, "corrupt")
      ELSE IF e.kind # "header" \/ e.fault = "magic" THEN Stop(d, "magic")
      ELSE IF e.fault # "none" THEN Stop(d, "corrupt")
      ELSE Past(elems, d, "block", d.k, Len(d.out), d.out)

TakeBlock(elems, d, cap) ==
  LET e == elems[d.k]
      fault == BlockFault(e, cap - Len(d.out))
      more == d.out \o DataOf(elems, d.k)
  IN  IF d.left < BlockLen THEN Stop(d, "corrupt")
      ELSE IF fault # "none" THEN Stop(d, fault)
      ELSE IF d.left < LengthOf(e) \/ ~e.good THEN Stop(d, "corrupt")
      ELSE IF ~e.last THEN Past(elems, d, "block", d.head, d.start, more)
      ELSE IF elems[d.head].sum THEN Past(elems, d, "footer", d.head, d.start, more)
      ELSE CloseFrame(elems, d, more)

TakeFooter(elems, d, skipSum) ==
  IF \/ d.left < FooterLen \/ ~elems[d.k].magic
     \/ /\ ~skipSum
        /\ ~FooterFits(elems, d.k, d.head, SubSeq(d.out, d.start + 1, Len(d.out)))
  THEN Stop(d, "corrupt")
  ELSE CloseFrame(elems, d, d.out)

ReadElement(elems, d, cap, skipSum) ==
  CASE d.at = "header" -> TakeHeader(elems, d)
    [] d.at = "block"  -> TakeBlock(elems, d, cap)
    [] d.at = "footer" -> TakeFooter(elems, d, skipSum)

ReadOn(elems, d, cap, skipSum) ==
  IF d.code = "on" THEN ReadElement(elems, d, cap, skipSum) ELSE d

\* After each element: there are no more than elems to read.
ReadUpTo(elems, n, cap, skipSum) ==
  LET read[i \in 0 .. Len(elems) + 1] ==
        IF i = 0 THEN Reading("on", "header", 1, 0, 0, <<>>, n)
        ELSE ReadOn(elems, read[i - 1], cap, skipSum)
  IN  read

Decompress(elems, n, cap, skipSum) ==
  LET d == ReadUpTo(elems, n, cap, skipSum)[Len(elems) + 1]
  IN  [code |-> d.code, out |-> IF d.code = "ok" THEN d.out ELSE <<>>]

-----------------------------------------------------------------------------
(* The stream decoder. *)

\* state, in_buf (in_cap units long), in_pos, in_len, the header, the output in
\* dst, and the output in the running checksum; histories:
\* why, the first error, and used, the units of whole elements taken.
Fresh(buffer) ==
  [state |-> "header", buf |-> buffer, pos |-> 0, len |-> 0, head |-> 0,
   out |-> <<>>, summed |-> <<>>, why |-> "none", used |-> 0]

Unread(s) == SubSeq(s.buf, s.pos + 1, s.pos + s.len)

\* dstream_reserve: size, doubled until it is enough.
Grown(size, need) ==
  LET doubled[i \in 0 .. need] == IF i = 0 THEN size ELSE 2 * doubled[i - 1]
      enough == {i \in 0 .. need : need <= doubled[i]}
  IN  doubled[CHOOSE i \in enough : \A j \in enough : i <= j]

\* dstream_append: the unread units move to the front if the new ones do not fit
\* behind them, and the buffer grows if that is not enough.
AppendInput(s, units) ==
  LET n == Len(units)
      moved == s.pos > 0 /\ n > Len(s.buf) - (s.pos + s.len)
      pos == IF moved THEN 0 ELSE s.pos
      old == IF moved THEN Unread(s) \o SubSeq(s.buf, s.len + 1, Len(s.buf)) ELSE s.buf
      size == IF n > Len(s.buf) - (pos + s.len) THEN Grown(Len(s.buf), s.len + n) ELSE Len(s.buf)
  IN  [s EXCEPT !.pos = pos, !.len = @ + n,
                !.buf = [i \in 1 .. size |-> IF i \in pos + s.len + 1 .. pos + s.len + n
                                             THEN units[i - (pos + s.len)]
                                             ELSE IF i <= Len(old) THEN old[i] ELSE <<0, 0>>]]

\* dstream_consume.
Consumed(s, n) ==
  IF n >= s.len THEN [s EXCEPT !.pos = 0, !.len = 0]
  ELSE [s EXCEPT !.pos = @ + n, !.len = @ - n]

\* dstream_finish: the filter is undone once, and the frame is done.
Finish(elems, s) ==
  [s EXCEPT !.state = "done", !.out = Undo(elems[s.head], @, 0)]

\* The element that the unread units begin with, if any.
NextElement(s) == IF Unread(s) = <<>> THEN 0 ELSE Unread(s)[1][1]

\* Whether the unread units begin with n units of one of this kind.
BeginsWith(elems, s, kind, n) ==
  LET k == NextElement(s)
  IN  k # 0 /\ elems[k].kind = kind /\ SubSeq(Unread(s), 1, n) = Cells(k, n)

Waits(s) == [s |-> s, ret |-> "more"]
FailsWith(s, code) == [s |-> [s EXCEPT !.state = "error", !.why = code], ret |-> code]
Goes(s) == [s |-> s, ret |-> IF s.state = "done" THEN "done" ELSE "on"]

HeaderTurn(elems, s) ==
  LET e == elems[NextElement(s)]
  IN  IF s.len < HeaderLen THEN Waits(s)
      ELSE IF ~BeginsWith(elems, s, "header", HeaderLen) \/ e.fault = "magic" THEN FailsWith(s, "magic")
      ELSE IF e.fault # "none" THEN FailsWith(s, "corrupt")
      ELSE Goes([Consumed(s, HeaderLen) EXCEPT !.state = "block", !.head = NextElement(s),
                                               !.used = @ + HeaderLen])

\* The block's output is in dst and in the checksum.
Decoded(elems, s) ==
  LET k == NextElement(s)
  IN  [Consumed(s, LengthOf(elems[k])) EXCEPT
         !.out = @ \o DataOf(elems, k), !.used = @ + LengthOf(elems[k]),
         !.summed = IF elems[s.head].sum THEN @ \o DataOf(elems, k) ELSE @]

BlockTurn(elems, s, cap) ==
  LET e == elems[NextElement(s)]
      fault == BlockFault(e, cap - Len(s.out))
  IN  IF s.len < BlockLen THEN Waits(s)
      ELSE IF ~BeginsWith(elems, s, "block", BlockLen) THEN FailsWith(s, "corrupt")
      ELSE IF fault # "none" THEN FailsWith(s, fault)
      ELSE IF s.len < LengthOf(e) THEN Waits(s)
      ELSE IF ~BeginsWith(elems, s, "block", LengthOf(e)) \/ ~e.good THEN FailsWith(s, "corrupt")
      ELSE IF ~e.last THEN Goes(Decoded(elems, s))
      ELSE IF elems[s.head].sum THEN Goes([Decoded(elems, s) EXCEPT !.state = "footer"])
      ELSE Goes(Finish(elems, Decoded(elems, s)))

FooterTurn(elems, s) ==
  LET k == NextElement(s)
  IN  IF s.len < FooterLen THEN Waits(s)
      ELSE IF ~BeginsWith(elems, s, "footer", FooterLen) \/ ~elems[k].magic
              \/ ~FooterFits(elems, k, s.head, s.summed) THEN FailsWith(s, "corrupt")
      ELSE Goes(Finish(elems, Consumed(s, FooterLen)))

\* One turn of the state machine of vv_dstream_decompress_chunk: the stream
\* after it, and what it returns or "on" to go on.
Turn(elems, s, cap) ==
  CASE s.state = "header" -> HeaderTurn(elems, s)
    [] s.state = "block"  -> BlockTurn(elems, s, cap)
    [] s.state = "footer" -> FooterTurn(elems, s)

\* Turn after turn, each but the last of which uses up an element.
Again(elems, t, cap) == IF t.ret = "on" THEN Turn(elems, t.s, cap) ELSE t

Turns(elems, s, cap) ==
  LET turns[i \in 0 .. Len(elems) + 1] ==
        IF i = 0 THEN [s |-> s, ret |-> "on"] ELSE Again(elems, turns[i - 1], cap)
  IN  turns[Len(elems) + 1]

Init ==
  /\ elements \in Streams
  /\ room \in Capacities
  /\ fed = 0
  /\ stream = Fresh([i \in 1 .. FirstBuffer |-> <<0, 0>>])
  /\ ret = "none"
  /\ resets = 0

\* A call with the next n units.  All of a chunk counts as consumed, whatever
\* the frame needs of it; memory for a larger buffer may be missing.
Call(n) ==
  /\ fed + n <= Len(WireOf(elements))
  /\ \/ /\ stream.state = "error"
        /\ ret' = "corrupt"
        /\ UNCHANGED <<stream, fed>>
     \/ /\ stream.state = "done"
        /\ ret' = "done"
        /\ UNCHANGED <<stream, fed>>
     \/ /\ stream.state \notin {"error", "done"}
        /\ fed' = fed + n
        /\ LET given == AppendInput(stream, SubSeq(WireOf(elements), fed + 1, fed + n))
           IN  \/ LET t == Turns(elements, given, room) IN stream' = t.s /\ ret' = t.ret
               \/ /\ Len(given.buf) > Len(stream.buf)
                  /\ stream' = [stream EXCEPT !.state = "error", !.why = "memory"]
                  /\ ret' = "memory"
  /\ UNCHANGED <<elements, room, resets>>

\* Mutant: the running checksum goes on after a reset.
ResetGoesOn ==
  /\ resets < MaxResets
  /\ resets' = resets + 1
  /\ stream' = [Fresh(stream.buf) EXCEPT !.summed = stream.summed]
  /\ fed' = 0
  /\ ret' = "none"
  /\ elements' \in Streams
  /\ room' \in Capacities

\* vv_dstream_reset, at any time, and another frame into another buffer.
Reset ==
  /\ resets < MaxResets
  /\ resets' = resets + 1
  /\ stream' = Fresh(stream.buf)
  /\ fed' = 0
  /\ ret' = "none"
  /\ elements' \in Streams
  /\ room' \in Capacities

Next == (\E n \in Chunks : Call(n)) \/ Reset

Spec == Init /\ [][Next]_vars

-----------------------------------------------------------------------------

\* Elements of the first frame, and where it ends: those after it are never
\* looked at.
FirstFrame(elems) ==
  LET last == CHOOSE k \in 2 .. Len(elems) : FrameHasLast(elems, 1, k)
  IN  IF elems[1].sum THEN last + 1 ELSE last

FrameEnd == Len(Wires(elements)[FirstFrame(elements)])

DStreamTypeOK ==
  /\ stream.state \in {"header", "block", "footer", "done", "error"}
  /\ stream.pos + stream.len <= Len(stream.buf)
  /\ Len(stream.out) <= room
  /\ ret \in {"none", "more", "done", "corrupt", "magic", "overflow", "memory"}

\* The unread part of the buffer is what was handed over and not used: compacting
\* and growing lose, repeat or reorder nothing (vv_decoder.c:958-1003).
UnreadIsWhatIsLeft ==
  stream.state \notin {"done", "error"} =>
    Unread(stream) = SubSeq(WireOf(elements), stream.used + 1, fed)

\* PROPERTY: however a frame is cut into chunks, and whatever was decoded before
\* a reset, the stream ends as the decoder that has all at once: done with the
\* same output when the frame is whole, the same error as soon as there is one,
\* and asking for more only while what it has would be truncated
\* (vv_decoder.c:712-858, 914-1167).
ChunksDoNotMatter ==
  LET seen == IF fed < FrameEnd THEN fed ELSE FrameEnd
      whole == Decompress(elements, seen, room, FALSE)
  IN  /\ CASE stream.state = "done"  -> whole = [code |-> "ok", out |-> stream.out]
           [] stream.state = "error" -> stream.why \in {"memory", whole.code}
           [] OTHER                  -> whole.code = "corrupt"
      /\ UnreadIsWhatIsLeft

\* The same output, of elements that stand by elements later.
Shift(out, by) == [i \in DOMAIN out |-> [out[i] EXCEPT !.elem = @ + by]]

\* PROPERTY: frames that follow each other decode as each would alone: the
\* filter of one leaves the output of another as it is, and the checksum of each
\* is over its own output (vv_decoder.c:712-858).
FramesStandAlone ==
  LET n == Len(WireOf(elements))
      first == FirstFrame(elements)
      rest == SubSeq(elements, first + 1, Len(elements))
      all == Decompress(elements, n, room, FALSE)
      one == Decompress(elements, FrameEnd, room, FALSE)
      two == Decompress(rest, n - FrameEnd, room - Len(one.out), FALSE)
  IN  rest # <<>> /\ one.code = "ok" =>
        /\ all.code = two.code
        /\ all.code = "ok" => all.out = one.out \o Shift(two.out, first)
=============================================================================
