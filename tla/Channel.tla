------------------------------ MODULE Channel -------------------------------
(***************************************************************************)
(* A connection: frames (protocol.cpp: encode_frame, decode_frame) over a  *)
(* byte stream (transport.cpp: FrameChannel, Socket).  Several threads     *)
(* send on one channel; the stream may be cut into pieces anywhere, and a  *)
(* send may fail after part of a frame is out.                             *)
(*                                                                         *)
(* The stream is a sequence of words, one for each header field and one    *)
(* for each unit of the payload.                                           *)
(***************************************************************************)
EXTENDS Integers, Sequences, SequencesExt

CONSTANTS Senders,         \* threads that send on the channel
          Sizes,           \* payload sizes they try to send
          MaxFrames,       \* model bound: frames sent by one thread
          max_frame_bytes, \* the Limits field, in words
          Chunk            \* the most one send or recv moves, in words

ASSUME ChannelAssumption == max_frame_bytes \in Nat /\ Chunk \in Nat \ {0} /\ Sizes \subseteq Nat

\* Nobody holds the mutex.
None == "none"
ASSUME SendersAssumption == None \notin Senders

VARIABLES
    lock,        \* the sender that holds write_mutex_, None
    unsent,      \* what is left of each sender's encoded frame; <<>> when it is not sending
    attempts,    \* frames each sender has passed to send
    begun,       \* frames in the order their first word went out, whole or not
    torn,        \* position in begun of the first frame that was cut short, 0 if none
    pipe,        \* words written and not yet received
    inbound,     \* inbound_
    closed,      \* closed_
    delivered,   \* frames receive has returned
    receiver     \* "open", "failed" once receive has returned a decoding error

sending == <<lock, unsent, attempts, begun, torn, closed>>
receiving == <<inbound, delivered, receiver>>
vars == <<sending, pipe, receiving>>

-----------------------------------------------------------------------------
(* Frames.  One sent by thread s as its n-th, with a payload of k words.   *)

Frame(s, n, k) == [sender |-> s, number |-> n, payload |-> [i \in 1..k |-> <<"payload", s, n, i>>]]

header_words == 9
\* The header with its checksum zeroed.  The identities, type and flags are one word.
HeaderOf(frame) ==
    <<<<"magic">>, <<"version">>, <<"header_bytes">>, <<"type", frame.sender, frame.number>>,
      <<"length", Len(frame.payload)>>, <<"sequence", frame.sender, frame.number>>,
      <<"reserved", 0>>, <<"checksum", 0>>, <<"trailer", 0>>>>
\* crc32c over header and payload; different contents have different checksums.
Checksum(header, payload) == <<"checksum", header, payload>>

encode_frame(frame) ==
    [HeaderOf(frame) EXCEPT ![8] = Checksum(HeaderOf(frame), frame.payload)] \o frame.payload
\* Mutant: only the payload is held against the bound.
Encodable_payload(frame) == Len(frame.payload) <= max_frame_bytes
\* encode_frame refuses what exceeds the configured maximum.
Encodable(frame) == header_words + Len(frame.payload) <= max_frame_bytes

\* DecodeStatus, the checks in the code's order.  A frame is cut between two fields, and a word
\* in the place of a type or a length fails there; in the code its bytes may pass for a legal
\* one, and the checksum refuses the frame once it is complete.
decode_frame(buffer) ==
    IF Len(buffer) < header_words THEN "need_more_data"
    ELSE IF \/ buffer[1] # <<"magic">> \/ buffer[2] # <<"version">> \/ buffer[3] # <<"header_bytes">>
            \/ buffer[4][1] # "type" \/ buffer[5][1] # "length"
            \/ header_words + buffer[5][2] > max_frame_bytes
            \/ buffer[7] # <<"reserved", 0>> \/ buffer[9] # <<"trailer", 0>>
      THEN "failed"
    ELSE IF Len(buffer) < header_words + buffer[5][2] THEN "need_more_data"
    ELSE IF buffer[8] # Checksum([SubSeq(buffer, 1, header_words) EXCEPT ![8] = <<"checksum", 0>>],
                                 SubSeq(buffer, header_words + 1, header_words + buffer[5][2]))
      THEN "failed"
    ELSE "complete"

Consumed(buffer) == header_words + buffer[5][2]
FrameIn(buffer) ==
    [sender |-> buffer[4][2], number |-> buffer[4][3],
     payload |-> SubSeq(buffer, header_words + 1, Consumed(buffer))]

-----------------------------------------------------------------------------

Init ==
    /\ lock = None /\ unsent = [s \in Senders |-> <<>>] /\ attempts = [s \in Senders |-> 0]
    /\ begun = <<>> /\ torn = 0 /\ closed = FALSE /\ pipe = <<>> /\ inbound = <<>>
    /\ delivered = <<>> /\ receiver = "open"

\* send: the frame is encoded before the mutex is taken.
Send(s, k) ==
    LET frame == Frame(s, attempts[s] + 1, k)
    IN /\ unsent[s] = <<>> /\ attempts[s] < MaxFrames
       /\ Encodable(frame)
       /\ attempts' = [attempts EXCEPT ![s] = @ + 1]
       /\ unsent' = [unsent EXCEPT ![s] = encode_frame(frame)]
       /\ UNCHANGED <<lock, begun, torn, closed, pipe, receiving>>

\* Mutant: the mutex is not taken.
Acquire_unlocked(s) ==
    /\ unsent[s] # <<>> /\ lock # s
    /\ lock' = s
    /\ UNCHANGED <<unsent, attempts, begun, torn, closed, pipe, receiving>>

Acquire(s) ==
    /\ unsent[s] # <<>> /\ lock = None /\ ~closed
    /\ lock' = s
    /\ UNCHANGED <<unsent, attempts, begun, torn, closed, pipe, receiving>>

\* send finds the channel closed.
SendRefused(s) ==
    /\ unsent[s] # <<>> /\ lock = None /\ closed
    /\ unsent' = [unsent EXCEPT ![s] = <<>>]
    /\ UNCHANGED <<lock, attempts, begun, torn, closed, pipe, receiving>>

Untouched(s) == unsent[s][1] = <<"magic">>

\* One iteration of send_all: the socket takes n words; the mutex is released after the last.
Write(s) ==
    /\ lock = s
    /\ begun' = IF Untouched(s) THEN Append(begun, FrameIn(unsent[s])) ELSE begun
    /\ \E n \in 1..Chunk :
          /\ n <= Len(unsent[s])
          /\ pipe' = pipe \o SubSeq(unsent[s], 1, n)
          /\ unsent' = [unsent EXCEPT ![s] = SubSeq(@, n + 1, Len(@))]
    /\ lock' = IF unsent'[s] = <<>> THEN None ELSE s
    /\ UNCHANGED <<attempts, torn, closed, receiving>>

\* send returns the socket's error and the rest of the frame is dropped; the channel stays open.
WriteFails(s) ==
    /\ lock = s
    /\ lock' = None
    /\ unsent' = [unsent EXCEPT ![s] = <<>>]
    /\ torn' = IF torn = 0 /\ ~Untouched(s) THEN Len(begun) ELSE torn
    /\ UNCHANGED <<attempts, begun, closed, pipe, receiving>>

\* close waits for the mutex; what the peer has not received yet may be lost.
Close ==
    /\ lock = None /\ ~closed
    /\ closed' = TRUE
    /\ \E n \in 0..Len(pipe) : pipe' = SubSeq(pipe, 1, n)
    /\ UNCHANGED <<lock, unsent, attempts, begun, torn, receiving>>

\* Mutant: the whole buffer is dropped with the frame.
ReceiveFrame_rest ==
    /\ receiver = "open" /\ decode_frame(inbound) = "complete"
    /\ delivered' = Append(delivered, FrameIn(inbound))
    /\ inbound' = <<>>
    /\ UNCHANGED <<sending, pipe, receiver>>

\* receive returns the frame at the head of the buffer.
ReceiveFrame ==
    /\ receiver = "open" /\ decode_frame(inbound) = "complete"
    /\ delivered' = Append(delivered, FrameIn(inbound))
    /\ inbound' = SubSeq(inbound, Consumed(inbound) + 1, Len(inbound))
    /\ UNCHANGED <<sending, pipe, receiver>>

\* receive takes what the stream has when no whole frame is there.
ReceiveSome ==
    /\ receiver = "open" /\ decode_frame(inbound) = "need_more_data"
    /\ Len(inbound) <= max_frame_bytes
    /\ \E n \in 1..Chunk :
          /\ n <= Len(pipe)
          /\ inbound' = inbound \o SubSeq(pipe, 1, n)
          /\ pipe' = SubSeq(pipe, n + 1, Len(pipe))
    /\ UNCHANGED <<sending, delivered, receiver>>

\* receive returns an error: the buffer cannot start a frame, or holds too much for one.
ReceiveFails ==
    /\ receiver = "open"
    /\ \/ decode_frame(inbound) = "failed"
       \/ decode_frame(inbound) = "need_more_data" /\ Len(inbound) > max_frame_bytes
    /\ receiver' = "failed"
    /\ UNCHANGED <<sending, pipe, inbound, delivered>>

Next ==
    \/ \E s \in Senders : \/ \E k \in Sizes : Send(s, k)
                          \/ Acquire(s) \/ SendRefused(s) \/ Write(s) \/ WriteFails(s)
    \/ Close \/ ReceiveFrame \/ ReceiveSome \/ ReceiveFails

\* A thread inside send runs on, and the reader thread keeps calling receive.
Fairness == /\ \A s \in Senders : WF_vars(Write(s) \/ WriteFails(s))
            /\ WF_vars(ReceiveFrame) /\ WF_vars(ReceiveSome)

Spec == Init /\ [][Next]_vars
FairSpec == Spec /\ Fairness

-----------------------------------------------------------------------------
(* Properties. *)

\* However threads, pieces and failed sends interleave, receive only ever returns frames that
\* were sent, unchanged, each once and in the order they went out, and nothing from the first
\* one that was cut short on, although the channel goes on accepting frames behind it.
DeliveredIntact ==
    /\ IsPrefix(delivered, begun)
    /\ torn # 0 => Len(delivered) < torn

\* Traffic that was not cut short is never refused: frames up to the maximum size pass in any
\* pieces, and the bound on the inbound buffer never turns away a frame that decode_frame would
\* have accepted.
NoFalseRefusal == receiver = "failed" => torn # 0

\* Every frame handed to the socket arrives, unless one was cut short or the channel is closed:
\* the receive loop never waits for bytes when a whole frame is in its buffer.
Delivery ==
    \A n \in 1..(MaxFrames * 2) :
        Len(begun) >= n ~> (Len(delivered) >= n \/ torn # 0 \/ closed)
=============================================================================
