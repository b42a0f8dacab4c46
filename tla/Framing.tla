------------------------------ MODULE Framing ------------------------------
(***************************************************************************)
(* The frames of the chat protocol and the two decoders of the repository: *)
(* the frame loop of ChatServer::onRead over a Buffer (include/Buffer.hpp) *)
(* and Wire::take of the desktop client (qt-client/protocol.h).            *)
(*                                                                         *)
(* The unit is the 32-bit word, as every header field is one: a frame is   *)
(* <<length, Magic, type>> and the payload words, and its length counts    *)
(* the words behind it.  A word is a number whatever field it fills, so a  *)
(* decoder that loses its place reads wrong numbers here too.  Neither     *)
(* decoder looks at a part of a word, so a stream cut inside a word is     *)
(* handled as one cut before it.                                           *)
(***************************************************************************)
EXTENDS Naturals, Sequences, SequencesExt

CONSTANTS
    MaxPayload,     \* longest payload, in words
    Magic           \* a number no frame has as its length

ASSUME FramingAssumption ==
    /\ MaxPayload \in Nat
    /\ Magic \in Nat /\ Magic > MaxPayload + 2

HeaderSize == 3
MaxFrameSize == HeaderSize + MaxPayload

Pack(type, payload) == <<2 + Len(payload), Magic, type>> \o payload

LengthOK(length) == length \in 2 .. MaxPayload + 2

----------------------------------------------------------------------------
(* Buffer: data_ with the indices of the first byte to read and the first  *)
(* byte to write.                                                          *)

EmptyBuffer == [data |-> <<>>, readIndex |-> 0, writeIndex |-> 0]

ReadableBytes(b) == b.writeIndex - b.readIndex
Peek(b) == SubSeq(b.data, b.readIndex + 1, b.writeIndex)

\* Overwrites from writeIndex_ on; what is left of data_ behind is stale.
BufferAppend(b, words) ==
    [b EXCEPT
        !.data = SubSeq(@, 1, b.writeIndex) \o words
                   \o SubSeq(@, b.writeIndex + Len(words) + 1, Len(@)),
        !.writeIndex = @ + Len(words)]

Retrieve(b, n) ==
    IF n >= ReadableBytes(b) THEN [b EXCEPT !.readIndex = 0, !.writeIndex = 0]
    ELSE [b EXCEPT !.readIndex = @ + n]

----------------------------------------------------------------------------
(* One round of a decoder: "more" when it waits for bytes, "error", or     *)
(* "frame" with the frame it has taken and the bytes behind it.            *)

More(rest) == [kind |-> "more", frame |-> <<>>, rest |-> rest]
Error(rest) == [kind |-> "error", frame |-> <<>>, rest |-> rest]
Taken(frame, rest) == [kind |-> "frame", frame |-> frame, rest |-> rest]

\* Wire::take: the length as soon as it is there, then the magic.
Take(buffer) ==
    CASE Len(buffer) < 1 -> More(buffer)
      [] Len(buffer) >= 1 /\ ~LengthOK(buffer[1]) -> Error(buffer)
      [] Len(buffer) = 1 /\ LengthOK(buffer[1]) -> More(buffer)
      [] OTHER ->
            IF buffer[2] # Magic THEN Error(buffer)
            ELSE IF Len(buffer) < buffer[1] + 1 THEN More(buffer)
            ELSE Taken(SubSeq(buffer, 1, buffer[1] + 1),
                       SubSeq(buffer, buffer[1] + 2, Len(buffer)))

\* The frame loop of onRead: the length when the header is complete, the magic
\* when the frame is, after it has been consumed.
TakeFromBuffer(b) ==
    LET p == Peek(b)
    IN  CASE ReadableBytes(b) < HeaderSize -> More(b)
          [] OTHER ->
                IF ~LengthOK(p[1]) THEN Error(b)
                ELSE IF ReadableBytes(b) < p[1] + 1 THEN More(b)
                ELSE LET rest == Retrieve(b, p[1] + 1)
                     IN  IF p[2] # Magic THEN Error(rest)
                         ELSE Taken(SubSeq(p, 1, p[1] + 1), rest)

----------------------------------------------------------------------------
(* What a stream of words means, independently of how it is decoded.       *)

IsFrame(s) ==
    /\ Len(s) >= HeaderSize
    /\ s[1] = Len(s) - 1
    /\ Len(s) <= MaxFrameSize
    /\ s[2] = Magic

\* Some frame begins with s, or s with some frame.
MayBeFrame(s) ==
    /\ Len(s) >= 1 => LengthOK(s[1])
    /\ Len(s) >= 2 => s[2] = Magic

StartsWithFrame(s) == \E n \in 1 .. Len(s) : IsFrame(SubSeq(s, 1, n))

\* frames is a beginning of what the stream means.
Reads(frames, stream) ==
    /\ \A k \in DOMAIN frames : IsFrame(frames[k])
    /\ IsPrefix(FlattenSeq(frames), stream)

\* What the stream holds behind the frames.
Behind(frames, stream) ==
    SubSeq(stream, Len(FlattenSeq(frames)) + 1, Len(stream))
============================================================================
