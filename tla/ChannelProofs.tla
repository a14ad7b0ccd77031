--------------------------- MODULE ChannelProofs ---------------------------
(***************************************************************************)
(* What a connection promises, for any number of threads, any sizes and    *)
(* any number of frames.  The argument is about the position of every word *)
(* in the stream: frame k of those that went out starts behind start[k]    *)
(* words, and up to the first cut every word is the one its frame has      *)
(* there.                                                                  *)
(*                                                                         *)
(* The second part is about the state file, which is read word by word in  *)
(* the same way: a file with a word written over never loads.              *)
(***************************************************************************)
EXTENDS Channel, SequenceTheorems, TLAPS

\* The frames that threads send.
FrameSet ==
    [sender : Senders, number : Nat, payload : Seq({"payload"} \X Senders \X Nat \X Nat)]

Size(f) == Len(encode_frame(f))

\* The words of the stream.
Words == UNION {{encode_frame(f)[j] : j \in 1..Size(f)} : f \in FrameSet}

-----------------------------------------------------------------------------
(* Encodings. *)

\* A sequence of nine words.
LEMMA NineWords ==
    ASSUME NEW a, NEW b, NEW c, NEW d, NEW e, NEW f, NEW g, NEW h, NEW i
    PROVE  LET w == <<a, b, c, d, e, f, g, h, i>>
           IN w \in Seq({a, b, c, d, e, f, g, h, i}) /\ Len(w) = 9
<1> DEFINE W == {a, b, c, d, e, f, g, h, i}
<1>1. a \in W /\ b \in W /\ c \in W /\ d \in W /\ e \in W /\ f \in W /\ g \in W /\ h \in W /\ i \in W
  OBVIOUS
<1> HIDE DEF W
<1>2. <<a, b, c, d, e, f, g, h, i>> \in Seq(W) /\ Len(<<a, b, c, d, e, f, g, h, i>>) = 9
  BY <1>1
<1> QED
  BY <1>2 DEF W

\* A sequence that starts with nine words.
LEMMA NineWordsAndMore ==
    ASSUME NEW P, NEW p \in Seq(P),
           NEW a, NEW b, NEW c, NEW d, NEW e, NEW f, NEW g, NEW h, NEW i
    PROVE  LET w == <<a, b, c, d, e, f, g, h, i>> \o p
           IN /\ Len(p) \in Nat /\ Len(w) = 9 + Len(p)
              /\ w[1] = a /\ w[2] = b /\ w[3] = c /\ w[4] = d /\ w[5] = e /\ w[6] = f
              /\ w[7] = g /\ w[8] = h /\ w[9] = i
              /\ \A n \in 1..Len(p) : w[9 + n] = p[n]
<1> DEFINE t == <<a, b, c, d, e, f, g, h, i>>
           S == {a, b, c, d, e, f, g, h, i}
<1>1. Len(t) = 9
  BY NineWords
<1>0. t \in Seq(S)
  BY NineWords
<1>2. /\ t[1] = a /\ t[2] = b /\ t[3] = c /\ t[4] = d /\ t[5] = e /\ t[6] = f
      /\ t[7] = g /\ t[8] = h /\ t[9] = i
  OBVIOUS
<1> HIDE DEF t, S
<1>3. /\ Len(p) \in Nat /\ Len(t \o p) = 9 + Len(p)
      /\ \A n \in 1..9 : (t \o p)[n] = t[n]
      /\ \A n \in 1..Len(p) : (t \o p)[9 + n] = p[n]
  <2>1. /\ Len(p) \in Nat /\ Len(t \o p) = Len(t) + Len(p)
        /\ \A n \in 1..Len(t) : (t \o p)[n] = t[n]
        /\ \A n \in 1..Len(p) : (t \o p)[Len(t) + n] = p[n]
    BY <1>0
  <2> QED
    BY <1>1, <2>1
<1>4. /\ (t \o p)[1] = a /\ (t \o p)[2] = b /\ (t \o p)[3] = c /\ (t \o p)[4] = d
      /\ (t \o p)[5] = e /\ (t \o p)[6] = f /\ (t \o p)[7] = g /\ (t \o p)[8] = h
      /\ (t \o p)[9] = i
  BY <1>2, <1>3
<1> QED
  BY <1>3, <1>4 DEF t

\* Nine words, the eighth of which is written again.
LEMMA NineWordsExcept ==
    ASSUME NEW a, NEW b, NEW c, NEW d, NEW e, NEW f, NEW g, NEW h, NEW i, NEW x
    PROVE  [<<a, b, c, d, e, f, g, h, i>> EXCEPT ![8] = x] = <<a, b, c, d, e, f, g, x, i>>
OBVIOUS

\* The header with its checksum, and the payload.
LEMMA Encoding ==
    ASSUME NEW f
    PROVE  encode_frame(f) =
             <<<<"magic">>, <<"version">>, <<"header_bytes">>, <<"type", f.sender, f.number>>,
               <<"length", Len(f.payload)>>, <<"sequence", f.sender, f.number>>,
               <<"reserved", 0>>, Checksum(HeaderOf(f), f.payload), <<"trailer", 0>>>> \o f.payload
<1> DEFINE x == Checksum(HeaderOf(f), f.payload)
<1>1. encode_frame(f) = [HeaderOf(f) EXCEPT ![8] = x] \o f.payload
  BY DEF encode_frame
<1> HIDE DEF x
<1>2. [HeaderOf(f) EXCEPT ![8] = x] =
        <<<<"magic">>, <<"version">>, <<"header_bytes">>, <<"type", f.sender, f.number>>,
          <<"length", Len(f.payload)>>, <<"sequence", f.sender, f.number>>,
          <<"reserved", 0>>, x, <<"trailer", 0>>>>
  <2> DEFINE a == <<"magic">>
             b == <<"version">>
             c == <<"header_bytes">>
             d == <<"type", f.sender, f.number>>
             e == <<"length", Len(f.payload)>>
             g == <<"sequence", f.sender, f.number>>
             r == <<"reserved", 0>>
             z == <<"checksum", 0>>
             t == <<"trailer", 0>>
  <2>1. HeaderOf(f) = <<a, b, c, d, e, g, r, z, t>>
    BY DEF HeaderOf
  <2> HIDE DEF a, b, c, d, e, g, r, z, t
  <2>2. [HeaderOf(f) EXCEPT ![8] = x] = <<a, b, c, d, e, g, r, x, t>>
    BY <2>1, NineWordsExcept
  <2> QED
    BY <2>2, Zenon DEF a, b, c, d, e, g, r, t
<1> QED
  BY <1>1, <1>2, Zenon DEF x

\* The words of an encoding, by position.
LEMMA EncodedWords ==
    ASSUME NEW f \in FrameSet
    PROVE  LET w == encode_frame(f)
           IN /\ Len(f.payload) \in Nat /\ Size(f) = 9 + Len(f.payload)
              /\ w[1] = <<"magic">> /\ w[2] = <<"version">> /\ w[3] = <<"header_bytes">>
              /\ w[4] = <<"type", f.sender, f.number>> /\ w[5] = <<"length", Len(f.payload)>>
              /\ w[6] = <<"sequence", f.sender, f.number>> /\ w[7] = <<"reserved", 0>>
              /\ w[8] = Checksum(HeaderOf(f), f.payload) /\ w[9] = <<"trailer", 0>>
              /\ \A i \in 1..Len(f.payload) : w[9 + i] = f.payload[i]
<1>1. f.payload \in Seq({"payload"} \X Senders \X Nat \X Nat)
  BY DEF FrameSet
<1>2. LET w == encode_frame(f)
      IN /\ Len(f.payload) \in Nat /\ Len(w) = 9 + Len(f.payload)
         /\ w[1] = <<"magic">> /\ w[2] = <<"version">> /\ w[3] = <<"header_bytes">>
         /\ w[4] = <<"type", f.sender, f.number>> /\ w[5] = <<"length", Len(f.payload)>>
         /\ w[6] = <<"sequence", f.sender, f.number>> /\ w[7] = <<"reserved", 0>>
         /\ w[8] = Checksum(HeaderOf(f), f.payload) /\ w[9] = <<"trailer", 0>>
         /\ \A i \in 1..Len(f.payload) : w[9 + i] = f.payload[i]
  <2> DEFINE p == f.payload
             d == <<"type", f.sender, f.number>>
             e == <<"length", Len(f.payload)>>
             g == <<"sequence", f.sender, f.number>>
             x == Checksum(HeaderOf(f), f.payload)
             w == encode_frame(f)
  <2>1. w = <<<<"magic">>, <<"version">>, <<"header_bytes">>, d, e, g, <<"reserved", 0>>, x,
              <<"trailer", 0>>>> \o p
    BY Encoding, Zenon
  <2>2. p \in Seq({"payload"} \X Senders \X Nat \X Nat)
    BY <1>1
  <2> HIDE DEF p, d, e, g, x, w
  <2>3. /\ Len(p) \in Nat /\ Len(w) = 9 + Len(p)
        /\ w[1] = <<"magic">> /\ w[2] = <<"version">> /\ w[3] = <<"header_bytes">>
        /\ w[4] = d /\ w[5] = e /\ w[6] = g /\ w[7] = <<"reserved", 0>> /\ w[8] = x
        /\ w[9] = <<"trailer", 0>>
        /\ \A i \in 1..Len(p) : w[9 + i] = p[i]
    <3> DEFINE a == <<"magic">>
               b == <<"version">>
               c == <<"header_bytes">>
               r == <<"reserved", 0>>
               t == <<"trailer", 0>>
    <3>1. w = <<a, b, c, d, e, g, r, x, t>> \o p
      BY <2>1
    <3> HIDE DEF a, b, c, r, t
    <3>2. /\ Len(p) \in Nat /\ Len(w) = 9 + Len(p)
          /\ w[1] = a /\ w[2] = b /\ w[3] = c /\ w[4] = d /\ w[5] = e /\ w[6] = g /\ w[7] = r
          /\ w[8] = x /\ w[9] = t /\ \A i \in 1..Len(p) : w[9 + i] = p[i]
      BY <2>2, <3>1, NineWordsAndMore
    <3> QED
      BY <3>2, Zenon DEF a, b, c, r, t
  <2> QED
    BY <2>3, Zenon DEF p, d, e, g, x, w
<1> QED
  BY <1>2, Zenon DEF Size

\* An encoding is a sequence of words.
LEMMA EncodingType ==
    ASSUME NEW f \in FrameSet
    PROVE  encode_frame(f) \in Seq(Words) /\ Size(f) \in Nat /\ Size(f) >= 9
<1> DEFINE w == encode_frame(f)
<1>1. Len(f.payload) \in Nat /\ Size(f) = 9 + Len(f.payload)
  BY EncodedWords
<1>2. \A j \in 1..Size(f) : w[j] \in Words
  BY DEF Words
<1>3. f.payload \in Seq({"payload"} \X Senders \X Nat \X Nat)
  BY DEF FrameSet
<1>4. PICK S : w \in Seq(S)
  <2> DEFINE h == <<<<"magic">>, <<"version">>, <<"header_bytes">>, <<"type", f.sender, f.number>>,
                    <<"length", Len(f.payload)>>, <<"sequence", f.sender, f.number>>,
                    <<"reserved", 0>>, Checksum(HeaderOf(f), f.payload), <<"trailer", 0>>>>
  <2>1. w = h \o f.payload
    BY Encoding, Zenon
  <2>2. PICK H : h \in Seq(H)
    BY NineWords, Zenon
  <2> HIDE DEF h, w
  <2>3. h \o f.payload \in Seq(H \cup ({"payload"} \X Senders \X Nat \X Nat))
    BY <1>3, <2>2
  <2> QED
    BY <2>1, <2>3
<1>5. Len(w) = Size(f)
  BY DEF Size
<1> HIDE DEF w
<1>6. w \in Seq(Words)
  BY <1>1, <1>2, <1>4, <1>5
<1> QED
  BY <1>1, <1>6 DEF w

\* Where the first word and where the checksum of a frame may stand.
LEMMA WordTags ==
    ASSUME NEW f \in FrameSet, NEW j \in 1..Size(f)
    PROVE  /\ j # 1 => encode_frame(f)[j][1] # "magic"
           /\ j # 8 => encode_frame(f)[j][1] # "checksum"
<1> DEFINE w == encode_frame(f)
<1>1. /\ Len(f.payload) \in Nat /\ Size(f) = 9 + Len(f.payload)
      /\ \A i \in 1..Len(f.payload) : w[9 + i] = f.payload[i]
  BY EncodedWords
<1>2. /\ w[1][1] = "magic" /\ w[2][1] = "version" /\ w[3][1] = "header_bytes"
      /\ w[4][1] = "type" /\ w[5][1] = "length" /\ w[6][1] = "sequence"
      /\ w[7][1] = "reserved" /\ w[8][1] = "checksum" /\ w[9][1] = "trailer"
  BY EncodedWords DEF Checksum
<1>3. \A i \in 1..Len(f.payload) : f.payload[i][1] = "payload"
  BY DEF FrameSet
<1> HIDE DEF w
<1>4. CASE j > 9
  <2>1. PICK i \in 1..Len(f.payload) : j = 9 + i
    BY <1>1, <1>4
  <2>2. w[j][1] = "payload"
    BY <1>1, <1>3, <2>1
  <2> QED
    BY <2>2 DEF w
<1>5. CASE j <= 9
  <2>1. j = 1 \/ j = 2 \/ j = 3 \/ j = 4 \/ j = 5 \/ j = 6 \/ j = 7 \/ j = 8 \/ j = 9
    BY <1>1, <1>5
  <2>2. (j # 1 => w[j][1] # "magic") /\ (j # 8 => w[j][1] # "checksum")
    BY <1>2, <2>1
  <2> QED
    BY <2>2 DEF w
<1> QED
  BY <1>1, <1>4, <1>5

\* A word that checks contents is the checksum of the frame that has them.
LEMMA ChecksumWord ==
    ASSUME NEW h, NEW p, Checksum(h, p) \in Words
    PROVE  \E f \in FrameSet : h = HeaderOf(f) /\ p = f.payload
<1>1. PICK f \in FrameSet : \E j \in 1..Size(f) : Checksum(h, p) = encode_frame(f)[j]
  BY DEF Words
<1>2. PICK j \in 1..Size(f) : Checksum(h, p) = encode_frame(f)[j]
  BY <1>1
<1>3. Checksum(h, p)[1] = "checksum"
  BY DEF Checksum
<1>4. j = 8
  BY <1>2, <1>3, WordTags
<1>5. Checksum(h, p) = Checksum(HeaderOf(f), f.payload)
  BY <1>2, <1>4, EncodedWords
<1>6. h = HeaderOf(f) /\ p = f.payload
  BY <1>5 DEF Checksum
<1> QED
  BY <1>6

\* The words of s are those of the encoding of f, as far as s goes.
Begins(s, f) == \A j \in 1..Size(f) : j <= Len(s) => s[j] = encode_frame(f)[j]

\* Nine words and their fields.
LEMMA HeaderWords ==
    ASSUME NEW f
    PROVE  LET h == HeaderOf(f)
           IN /\ h[1] = <<"magic">> /\ h[2] = <<"version">> /\ h[3] = <<"header_bytes">>
              /\ h[4] = <<"type", f.sender, f.number>> /\ h[5] = <<"length", Len(f.payload)>>
              /\ h[6] = <<"sequence", f.sender, f.number>> /\ h[7] = <<"reserved", 0>>
              /\ h[8] = <<"checksum", 0>> /\ h[9] = <<"trailer", 0>>
BY DEF HeaderOf

\* The header of a buffer whose first nine words are those of a frame.
LEMMA HeaderIn ==
    ASSUME NEW f \in FrameSet, NEW s \in Seq(Words), Begins(s, f), Len(s) >= 9
    PROVE  [SubSeq(s, 1, 9) EXCEPT ![8] = <<"checksum", 0>>] = HeaderOf(f)
<1> DEFINE w == encode_frame(f)
<1>1. Size(f) \in Nat /\ Size(f) >= 9 /\ Len(s) \in Nat
  BY EncodingType
<1>2. \A j \in 1..9 : s[j] = w[j]
  BY <1>1 DEF Begins
<1>3. SubSeq(s, 1, 9) = <<s[1], s[2], s[3], s[4], s[5], s[6], s[7], s[8], s[9]>>
  <2>1. /\ Len(SubSeq(s, 1, 9)) = 9
        /\ \A j \in 1..9 : SubSeq(s, 1, 9)[j] = s[j]
    BY <1>1
  <2> DEFINE t == <<s[1], s[2], s[3], s[4], s[5], s[6], s[7], s[8], s[9]>>
             T == {s[1], s[2], s[3], s[4], s[5], s[6], s[7], s[8], s[9]}
  <2>2. t \in Seq(T) /\ Len(t) = 9
    BY NineWords
  <2>3. \A j \in 1..9 : t[j] = s[j]
    OBVIOUS
  <2>4. SubSeq(s, 1, 9) \in Seq(Words)
    BY <1>1
  <2> HIDE DEF t, T
  <2>5. SubSeq(s, 1, 9) = t
    BY <2>1, <2>2, <2>3, <2>4, SeqEqual
  <2> QED
    BY <2>5 DEF t
<1>4. [SubSeq(s, 1, 9) EXCEPT ![8] = <<"checksum", 0>>]
        = <<s[1], s[2], s[3], s[4], s[5], s[6], s[7], <<"checksum", 0>>, s[9]>>
  <2> DEFINE x == <<"checksum", 0>>
  <2> HIDE DEF x
  <2>1. [SubSeq(s, 1, 9) EXCEPT ![8] = x]
          = <<s[1], s[2], s[3], s[4], s[5], s[6], s[7], x, s[9]>>
    BY <1>3, NineWordsExcept
  <2> QED
    BY <2>1 DEF x
<1>5. /\ s[1] = w[1] /\ s[2] = w[2] /\ s[3] = w[3] /\ s[4] = w[4] /\ s[5] = w[5]
      /\ s[6] = w[6] /\ s[7] = w[7] /\ s[9] = w[9]
  BY <1>2
<1> HIDE DEF w
<1>6. HeaderOf(f) = <<w[1], w[2], w[3], w[4], w[5], w[6], w[7], <<"checksum", 0>>, w[9]>>
  BY EncodedWords, Zenon DEF HeaderOf, w
<1> QED
  BY <1>4, <1>5, <1>6, Zenon

\* decode_frame accepts the encoding of a frame that may be sent, as soon as it is there, and
\* waits for it until then.
LEMMA DecodesFrame ==
    ASSUME NEW f \in FrameSet, Encodable(f), NEW s \in Seq(Words), Begins(s, f)
    PROVE  /\ Len(s) < Size(f) => decode_frame(s) = "need_more_data"
           /\ Len(s) >= Size(f) => /\ decode_frame(s) = "complete"
                                   /\ Consumed(s) = Size(f) /\ FrameIn(s) = f
<1> DEFINE w == encode_frame(f)
           n == Len(f.payload)
<1>1. n \in Nat /\ Size(f) = 9 + n /\ Len(s) \in Nat /\ 9 + n <= max_frame_bytes
  BY EncodedWords DEF Encodable, header_words
<1>2. CASE Len(s) < 9
  BY <1>1, <1>2 DEF decode_frame, header_words
<1>3. CASE Len(s) >= 9
  <2>1. \A j \in 1..9 : s[j] = w[j]
    BY <1>1, <1>3 DEF Begins
  <2>2. /\ s[1] = <<"magic">> /\ s[2] = <<"version">> /\ s[3] = <<"header_bytes">>
        /\ s[4] = <<"type", f.sender, f.number>> /\ s[5] = <<"length", n>>
        /\ s[7] = <<"reserved", 0>> /\ s[8] = Checksum(HeaderOf(f), f.payload)
        /\ s[9] = <<"trailer", 0>>
    BY <2>1, EncodedWords
  <2>3. /\ s[4][1] = "type" /\ s[4][2] = f.sender /\ s[4][3] = f.number
        /\ s[5][1] = "length" /\ s[5][2] = n
    BY <2>2
  <2>4. CASE Len(s) < 9 + n
    <3>1. decode_frame(s) = "need_more_data"
      BY <1>1, <1>3, <2>2, <2>3, <2>4, ChannelAssumption DEF decode_frame, header_words
    <3> QED
      BY <1>1, <2>4, <3>1
  <2>5. CASE Len(s) >= 9 + n
    <3>1. SubSeq(s, 10, 9 + n) = f.payload
      <4>1. f.payload \in Seq({"payload"} \X Senders \X Nat \X Nat)
        BY DEF FrameSet
      <4>2. \A i \in 1..n : s[9 + i] = f.payload[i]
        BY <1>1, <2>5, EncodedWords DEF Begins
      <4>3. /\ SubSeq(s, 10, 9 + n) \in Seq(Words) /\ Len(SubSeq(s, 10, 9 + n)) = n
            /\ \A i \in 1..n : SubSeq(s, 10, 9 + n)[i] = s[9 + i]
        BY <1>1, <2>5
      <4> QED
        BY <4>1, <4>2, <4>3, SeqEqual
    <3>2. [SubSeq(s, 1, 9) EXCEPT ![8] = <<"checksum", 0>>] = HeaderOf(f)
      BY <1>3, HeaderIn
    <3>0. header_words = 9 /\ header_words + 1 = 10 /\ header_words + s[5][2] = 9 + n
      BY <2>3 DEF header_words
    <3>3. decode_frame(s) = "complete"
      <4>1. s[8] = Checksum([SubSeq(s, 1, header_words) EXCEPT ![8] = <<"checksum", 0>>],
                            SubSeq(s, header_words + 1, header_words + s[5][2]))
        BY <2>2, <3>0, <3>1, <3>2
      <4>2. ~(Len(s) < header_words) /\ ~(header_words + s[5][2] > max_frame_bytes)
            /\ ~(Len(s) < header_words + s[5][2])
        BY <1>1, <1>3, <2>5, <3>0, ChannelAssumption
      <4> QED
        BY <2>2, <2>3, <4>1, <4>2, Zenon DEF decode_frame
    <3>4. Consumed(s) = 9 + n
      BY <2>3 DEF Consumed, header_words
    <3>5. FrameIn(s) = [sender |-> f.sender, number |-> f.number, payload |-> f.payload]
      BY <2>3, <3>0, <3>1, <3>4 DEF FrameIn
    <3>6. FrameIn(s) = f
      BY <3>5 DEF FrameSet
    <3> QED
      BY <1>1, <2>5, <3>3, <3>4, <3>6
  <2> QED
    BY <1>1, <2>4, <2>5
<1> QED
  BY <1>1, <1>2, <1>3

\* What decode_frame accepts is the whole encoding of a frame that was sent: the checksum in the
\* buffer was computed by a sender, over exactly these words.
LEMMA CompleteIsFrame ==
    ASSUME NEW s \in Seq(Words), decode_frame(s) = "complete"
    PROVE  \E f \in FrameSet : Size(f) <= Len(s) /\ Begins(s, f)
<1> DEFINE h == [SubSeq(s, 1, 9) EXCEPT ![8] = <<"checksum", 0>>]
           p == SubSeq(s, 10, 9 + s[5][2])
<1>1. Len(s) \in Nat /\ Len(s) >= 9 /\ ~(Len(s) < 9 + s[5][2]) /\ s[8] = Checksum(h, p)
  <2>1. /\ ~(Len(s) < header_words) /\ ~(Len(s) < header_words + s[5][2])
        /\ s[8] = Checksum([SubSeq(s, 1, header_words) EXCEPT ![8] = <<"checksum", 0>>],
                           SubSeq(s, header_words + 1, header_words + s[5][2]))
    BY DEF decode_frame
  <2>2. header_words = 9 /\ header_words + 1 = 10
    BY DEF header_words
  <2>3. s[8] = Checksum(h, p)
    BY <2>1, <2>2
  <2> QED
    BY <2>1, <2>2, <2>3
<1>2. s[8] \in Words
  BY <1>1
<1>3. PICK f \in FrameSet : h = HeaderOf(f) /\ p = f.payload
  <2> HIDE DEF h, p
  <2> QED
    BY <1>1, <1>2, ChecksumWord
<1>4. /\ h[1] = s[1] /\ h[2] = s[2] /\ h[3] = s[3] /\ h[4] = s[4] /\ h[5] = s[5]
      /\ h[6] = s[6] /\ h[7] = s[7] /\ h[9] = s[9]
  <2> DEFINE t == SubSeq(s, 1, 9)
  <2>1. Len(t) = 9 /\ t \in Seq(Words) /\ \A j \in 1..9 : t[j] = s[j]
    BY <1>1
  <2> HIDE DEF t
  <2>2. \A j \in 1..9 : j # 8 => [t EXCEPT ![8] = <<"checksum", 0>>][j] = t[j]
    BY <2>1
  <2>3. \A j \in 1..9 : j # 8 => h[j] = s[j]
    BY <2>1, <2>2 DEF t
  <2> HIDE DEF h
  <2> QED
    BY <2>3
<1> DEFINE w == encode_frame(f)
           n == Len(f.payload)
<1>5. /\ s[1] = w[1] /\ s[2] = w[2] /\ s[3] = w[3] /\ s[4] = w[4] /\ s[5] = w[5]
      /\ s[6] = w[6] /\ s[7] = w[7] /\ s[9] = w[9]
  <2> DEFINE g == HeaderOf(f)
  <2>1. /\ g[1] = w[1] /\ g[2] = w[2] /\ g[3] = w[3] /\ g[4] = w[4] /\ g[5] = w[5]
        /\ g[6] = w[6] /\ g[7] = w[7] /\ g[9] = w[9]
    <3> HIDE DEF w, g
    <3>1. /\ w[1] = <<"magic">> /\ w[2] = <<"version">> /\ w[3] = <<"header_bytes">>
          /\ w[4] = <<"type", f.sender, f.number>> /\ w[5] = <<"length", Len(f.payload)>>
          /\ w[6] = <<"sequence", f.sender, f.number>> /\ w[7] = <<"reserved", 0>>
          /\ w[9] = <<"trailer", 0>>
      BY EncodedWords, Zenon DEF w
    <3>2. /\ g[1] = <<"magic">> /\ g[2] = <<"version">> /\ g[3] = <<"header_bytes">>
          /\ g[4] = <<"type", f.sender, f.number>> /\ g[5] = <<"length", Len(f.payload)>>
          /\ g[6] = <<"sequence", f.sender, f.number>> /\ g[7] = <<"reserved", 0>>
          /\ g[9] = <<"trailer", 0>>
      BY HeaderWords, Zenon DEF g
    <3> QED
      BY <3>1, <3>2
  <2> HIDE DEF g, w, h
  <2> QED
    BY <1>3, <1>4, <2>1 DEF g
<1>6. s[8] = w[8]
  BY <1>1, <1>3, EncodedWords
<1>7. n \in Nat /\ Size(f) = 9 + n /\ s[5][2] = n
  BY <1>5, EncodedWords
<1>8. \A i \in 1..n : s[9 + i] = w[9 + i]
  <2>1. \A i \in 1..n : p[i] = s[9 + i]
    BY <1>1, <1>7
  <2>2. \A i \in 1..n : w[9 + i] = f.payload[i]
    BY EncodedWords
  <2> QED
    BY <1>3, <2>1, <2>2
<1> HIDE DEF w, n, h, p
<1>9. ASSUME NEW j \in 1..Size(f) PROVE s[j] = w[j]
  <2>1. CASE j > 9
    <3>1. PICK i \in 1..n : j = 9 + i
      BY <1>7, <2>1
    <3> QED
      BY <1>8, <3>1
  <2>2. CASE j <= 9
    <3>1. j = 1 \/ j = 2 \/ j = 3 \/ j = 4 \/ j = 5 \/ j = 6 \/ j = 7 \/ j = 8 \/ j = 9
      BY <1>7, <2>2
    <3> QED
      BY <1>5, <1>6, <3>1
  <2> QED
    BY <1>7, <2>1, <2>2
<1>10. Size(f) <= Len(s)
  BY <1>1, <1>7
<1> QED
  BY <1>9, <1>10 DEF Begins, w

-----------------------------------------------------------------------------
(* The layout of the stream.                                               *)
(*                                                                         *)
(*   frames  what went out;                                                *)
(*   c       the position of the first frame that is not delivered;        *)
(*   s       the words that are on their way or in the buffer;             *)
(*   cut     the first frame that was cut short, 0 if none;                *)
(*   shut    the channel is closed, so the end of s may be missing;        *)
(*   rest    how much the thread that is writing has left to write.        *)

\* Frame k occupies the words behind start[k].
Offsets(frames, start) ==
    /\ \A k \in Nat : start[k] \in Nat
    /\ \A k \in 1..Len(frames) :
          frames[k] \in FrameSet /\ Encodable(frames[k]) /\ start[k + 1] = start[k] + Size(frames[k])
    /\ \A k, l \in 1..(Len(frames) + 1) : k <= l => start[k] <= start[l]

\* Behind base words, s has the words of the frames, up to position e.
OnPlan(frames, start, s, base, e) ==
    \A i \in 1..Len(s), k \in 1..Len(frames) : \A j \in 1..Size(frames[k]) :
        base + i = start[k] + j /\ base + i <= e => s[i] = encode_frame(frames[k])[j]

\* Up to e the stream is what the frames say.  Without a cut, that is all of it, and whoever is
\* writing completes it.  With one, e lies inside the frame that was cut, and what comes behind
\* it, if anything does, is the beginning of a frame.
Fits(start, e, b, s, c, cut, shut, rest) ==
    LET end == start[c] + Len(s)
    IN /\ cut = 0 => /\ e = start[b + 1] /\ end + rest <= e
                     /\ ~shut => end + rest = e
       /\ cut # 0 => /\ c <= cut /\ start[cut] < e /\ e < start[cut + 1]
                     /\ e < end => s[e - start[c] + 1] = <<"magic">>
                     /\ ~shut => e <= end /\ (e = end => rest = 0)

Laid(start, e, frames, s, c, cut, shut, rest) ==
    /\ e \in Nat /\ c \in Nat \ {0} /\ cut \in Nat /\ rest \in Nat
    /\ Len(frames) \in Nat /\ s \in Seq(Words)
    /\ c <= Len(frames) + 1 /\ cut <= Len(frames)
    /\ Offsets(frames, start)
    /\ OnPlan(frames, start, s, start[c], e)
    /\ Fits(start, e, Len(frames), s, c, cut, shut, rest)

\* Up to a cut, the next words are the next frame, which has begun.
LEMMA NextFrame ==
    ASSUME NEW start, NEW e, NEW frames, NEW s, NEW c, NEW cut, NEW shut, NEW rest,
           Laid(start, e, frames, s, c, cut, shut, rest), Len(s) > 0, cut = 0 \/ c < cut
    PROVE  /\ c <= Len(frames) /\ frames[c] \in FrameSet /\ Encodable(frames[c])
           /\ Begins(s, frames[c]) /\ start[c + 1] <= e
<1>1. PICK b \in Nat : b = Len(frames)
  BY DEF Laid
<1>2. PICK n \in Nat : n = Len(s)
  BY DEF Laid
<1>3. /\ e \in Nat /\ c \in Nat \ {0} /\ cut \in Nat /\ rest \in Nat
      /\ c <= b + 1 /\ cut <= b /\ n > 0
      /\ Offsets(frames, start) /\ OnPlan(frames, start, s, start[c], e)
      /\ Fits(start, e, b, s, c, cut, shut, rest)
  BY <1>1, <1>2 DEF Laid
<1>0. \A k \in Nat : start[k] \in Nat
  BY <1>3 DEF Offsets
<1>4. \A k \in 1..b : frames[k] \in FrameSet /\ Encodable(frames[k])
                       /\ start[k + 1] = start[k] + Size(frames[k])
  BY <1>1, <1>3 DEF Offsets
<1>5. \A k, l \in 1..(b + 1) : k <= l => start[k] <= start[l]
  BY <1>1, <1>3 DEF Offsets
<1>6. c <= b
  <2>1. CASE cut = 0
    <3>1. start[c] + n + rest <= start[b + 1]
      BY <1>2, <1>3, <2>1 DEF Fits
    <3>2. start[c] \in Nat /\ c # b + 1
      BY <1>0, <1>3, <3>1
    <3> QED
      BY <1>3, <3>2
  <2>2. CASE c < cut
    BY <1>3, <2>2
  <2> QED
    BY <2>1, <2>2
<1>7. frames[c] \in FrameSet /\ Encodable(frames[c]) /\ start[c + 1] = start[c] + Size(frames[c])
  <2>1. c \in 1..b
    BY <1>3, <1>6
  <2> QED
    BY <1>4, <2>1
<1>8. Size(frames[c]) \in Nat
  BY <1>7, EncodingType
<1>9. start[c + 1] <= e
  <2>1. CASE cut = 0
    <3>1. e = start[b + 1]
      BY <2>1, <1>3 DEF Fits
    <3>2. c + 1 \in 1..(b + 1) /\ b + 1 \in 1..(b + 1) /\ c + 1 <= b + 1
      BY <1>3, <1>6
    <3> QED
      BY <1>5, <3>1, <3>2
  <2>2. CASE c < cut
    <3>1. start[cut] < e /\ start[cut] \in Nat /\ start[c + 1] \in Nat
      BY <1>0, <1>3, <2>2 DEF Fits
    <3>2. c + 1 \in 1..(b + 1) /\ cut \in 1..(b + 1) /\ c + 1 <= cut
      BY <1>3, <2>2
    <3>3. start[c + 1] <= start[cut]
      BY <1>5, <3>2
    <3> QED
      BY <1>3, <3>1, <3>3
  <2> QED
    BY <2>1, <2>2
<1> DEFINE f == frames[c]
           x == start[c]
<1>10. x \in Nat /\ x + Size(f) <= e /\ Size(f) \in Nat
  BY <1>0, <1>3, <1>7, <1>8, <1>9
<1>11. c \in 1..b
  BY <1>3, <1>6
<1> HIDE DEF f, x
<1>12. ASSUME NEW j \in 1..Size(f), j <= n PROVE s[j] = encode_frame(f)[j]
  <2>1. x + j <= e /\ j \in 1..n
    BY <1>3, <1>10, <1>12
  <2> QED
    BY <1>1, <1>2, <1>3, <1>11, <2>1 DEF OnPlan, f, x
<1> QED
  BY <1>1, <1>2, <1>6, <1>7, <1>9, <1>12 DEF Begins, f

\* Nothing is accepted at a cut: what is left of the frame is too short for its length, and the
\* frame behind it begins with a word that no frame has inside.
LEMMA AtTheCut ==
    ASSUME NEW start, NEW e, NEW frames, NEW s, NEW c, NEW shut, NEW rest,
           Laid(start, e, frames, s, c, c, shut, rest),
           NEW t \in Seq(Words), Len(t) <= Len(s), \A j \in 1..Len(t) : t[j] = s[j]
    PROVE  decode_frame(t) # "complete"
<1> SUFFICES ASSUME decode_frame(t) = "complete" PROVE FALSE
  OBVIOUS
<1>1. PICK f \in FrameSet : Size(f) <= Len(t) /\ Begins(t, f)
  BY CompleteIsFrame
<1>2. PICK n \in Nat : n = Len(s)
  BY DEF Laid
<1>3. PICK l \in Nat : l = Len(t)
  OBVIOUS
<1>4. PICK z \in Nat : z = Size(f) /\ z >= 9
  BY EncodingType
<1>5. z <= l /\ l <= n
  BY <1>1, <1>2, <1>3, <1>4
<1>6. \A j \in 1..z : s[j] = encode_frame(f)[j]
  <2>1. ASSUME NEW j \in 1..z PROVE s[j] = encode_frame(f)[j]
    <3>1. j \in 1..l /\ j \in 1..Size(f) /\ j <= Len(t)
      BY <1>3, <1>4, <1>5
    <3>2. t[j] = encode_frame(f)[j]
      BY <1>1, <3>1 DEF Begins
    <3> QED
      BY <1>3, <3>1, <3>2
  <2> QED
    BY <2>1
<1>7. PICK b \in Nat : b = Len(frames)
  BY DEF Laid
<1>8. /\ e \in Nat /\ c \in 1..b
      /\ Offsets(frames, start) /\ OnPlan(frames, start, s, start[c], e)
      /\ Fits(start, e, b, s, c, c, shut, rest)
  BY <1>7 DEF Laid
<1> DEFINE g == frames[c]
<1>9. g \in FrameSet /\ start[c] \in Nat /\ start[c + 1] = start[c] + Size(g)
  BY <1>7, <1>8 DEF Offsets
<1>10. PICK x \in Nat : x = start[c]
  BY <1>9
<1>11. PICK y \in Nat : y = Size(g)
  BY <1>9, EncodingType
<1>12. x < e /\ e < x + y
  BY <1>8, <1>9, <1>10, <1>11 DEF Fits
<1>13. PICK m \in Nat : e = x + m /\ m >= 1 /\ m < y
  <2>1. e - x \in Nat /\ e = x + (e - x) /\ e - x >= 1 /\ e - x < y
    BY <1>8, <1>12
  <2> QED
    BY <2>1
<1> HIDE DEF g
<1>14. \A j \in 1..m : j <= n => s[j] = encode_frame(g)[j]
  <2>1. ASSUME NEW j \in 1..m, j <= n PROVE s[j] = encode_frame(g)[j]
    <3>1. x + j <= e /\ j \in 1..n /\ j \in 1..y
      BY <1>13, <2>1
    <3> QED
      BY <1>2, <1>7, <1>8, <1>10, <1>11, <3>1 DEF OnPlan, g
  <2> QED
    BY <2>1
<1>15. z <= m
  <2> SUFFICES ASSUME m < z PROVE FALSE
    BY <1>4
  <2>1. m < n /\ e < x + n /\ m + 1 \in 1..z /\ m + 1 # 1
    BY <1>5, <1>8, <1>13
  <2>2. e - x + 1 = m + 1
    BY <1>13
  <2>3. s[m + 1] = <<"magic">>
    <3>1. e < start[c] + Len(s) /\ c # 0
      BY <1>2, <1>8, <1>10, <2>1
    <3>2. s[e - start[c] + 1] = <<"magic">>
      BY <1>8, <3>1 DEF Fits
    <3> QED
      BY <1>10, <2>2, <3>2
  <2>4. encode_frame(f)[m + 1] = <<"magic">>
    BY <1>6, <2>1, <2>3
  <2>5. encode_frame(f)[m + 1][1] # "magic"
    BY <1>4, <2>1, WordTags
  <2> QED
    BY <2>4, <2>5
<1>16. encode_frame(f)[5] = encode_frame(g)[5]
  <2>1. 5 \in 1..z /\ 5 \in 1..m /\ 5 <= n
    BY <1>4, <1>5, <1>15
  <2> QED
    BY <1>6, <1>14, <2>1
<1>17. Len(f.payload) = Len(g.payload)
  BY <1>9, <1>16, EncodedWords DEF g
<1>18. z = y
  BY <1>4, <1>9, <1>11, <1>17, EncodedWords DEF g
<1> QED
  BY <1>13, <1>15, <1>18

\* close may lose the end of the stream.
LEMMA LaidCloses ==
    ASSUME NEW start, NEW e, NEW frames, NEW s, NEW c, NEW cut, NEW shut, NEW rest,
           Laid(start, e, frames, s, c, cut, shut, rest),
           NEW t \in Seq(Words), Len(t) <= Len(s), \A j \in 1..Len(t) : t[j] = s[j]
    PROVE  Laid(start, e, frames, t, c, cut, TRUE, rest)
<1>1. PICK n \in Nat : n = Len(s)
  BY DEF Laid
<1>2. PICK l \in Nat : l = Len(t)
  OBVIOUS
<1>3. PICK x \in Nat : x = start[c]
  BY DEF Laid, Offsets
<1>4. l <= n
  BY <1>1, <1>2
<1>5. e \in Nat /\ rest \in Nat
  BY DEF Laid
<1>6. OnPlan(frames, start, t, start[c], e)
  <2>1. ASSUME NEW i \in 1..l PROVE i \in 1..n /\ t[i] = s[i]
    BY <1>2, <1>4, <2>1
  <2>2. OnPlan(frames, start, s, start[c], e)
    BY DEF Laid
  <2> QED
    BY <1>1, <1>2, <2>1, <2>2 DEF OnPlan
<1>7. Fits(start, e, Len(frames), t, c, cut, TRUE, rest)
  <2>1. Fits(start, e, Len(frames), s, c, cut, shut, rest)
    BY DEF Laid
  <2>2. CASE cut = 0
    <3>1. e = start[Len(frames) + 1] /\ x + n + rest <= e
      BY <1>1, <1>3, <2>1, <2>2 DEF Fits
    <3>2. x + l + rest <= e
      BY <1>4, <1>5, <3>1
    <3> QED
      BY <1>2, <1>3, <2>2, <3>1, <3>2 DEF Fits
  <2>3. CASE cut # 0
    <3>1. /\ c <= cut /\ start[cut] < e /\ e < start[cut + 1]
          /\ e < x + n => s[e - x + 1] = <<"magic">>
      BY <1>1, <1>3, <2>1, <2>3 DEF Fits
    <3>2. x <= e
      <4>1. c \in 1..(Len(frames) + 1) /\ cut \in 1..(Len(frames) + 1) /\ Offsets(frames, start)
            /\ start[cut] \in Nat
        BY <2>3, <3>1 DEF Laid, Offsets
      <4>2. x <= start[cut]
        BY <1>3, <3>1, <4>1 DEF Offsets
      <4> QED
        BY <1>5, <3>1, <4>1, <4>2
    <3>3. e < x + l => t[e - x + 1] = <<"magic">>
      <4> SUFFICES ASSUME e < x + l PROVE t[e - x + 1] = <<"magic">>
        OBVIOUS
      <4>1. e - x + 1 \in 1..l /\ e < x + n
        BY <1>4, <1>5, <3>2
      <4> QED
        BY <1>2, <3>1, <4>1
    <3> QED
      BY <1>2, <1>3, <2>3, <3>1, <3>3 DEF Fits
  <2> QED
    BY <2>2, <2>3
<1> QED
  BY <1>6, <1>7 DEF Laid

\* A send that fails inside a frame cuts it, unless an earlier one is cut already.
LEMMA LaidStops ==
    ASSUME NEW start, NEW e, NEW frames, NEW s, NEW c, NEW cut, NEW rest, Len(frames) > 0,
           Laid(start, e, frames, s, c, cut, FALSE, rest),
           rest > 0, rest < Size(frames[Len(frames)])
    PROVE  \E z : Laid(start, z, frames, s, c, IF cut = 0 THEN Len(frames) ELSE cut, FALSE, 0)
<1>1. PICK b \in Nat : b = Len(frames)
  BY DEF Laid
<1>2. PICK n \in Nat : n = Len(s)
  BY DEF Laid
<1>3. /\ e \in Nat /\ c \in Nat \ {0} /\ cut \in Nat /\ rest \in Nat /\ s \in Seq(Words)
      /\ c <= b + 1 /\ cut <= b
      /\ Offsets(frames, start) /\ OnPlan(frames, start, s, start[c], e)
      /\ Fits(start, e, b, s, c, cut, FALSE, rest)
  BY <1>1 DEF Laid
<1>4. CASE cut # 0
  <2>1. Fits(start, e, b, s, c, cut, FALSE, 0)
    BY <1>3, <1>4 DEF Fits
  <2>2. Laid(start, e, frames, s, c, cut, FALSE, 0)
    BY <1>1, <1>3, <2>1 DEF Laid
  <2> QED
    BY <1>4, <2>2
<1>5. CASE cut = 0
  <2>1. b \in 1..b
    BY <1>1
  <2>2. frames[b] \in FrameSet /\ start[b + 1] = start[b] + Size(frames[b])
    BY <1>1, <1>3, <2>1 DEF Offsets
  <2>3. PICK y \in Nat : y = Size(frames[b])
    BY <2>2, EncodingType
  <2>4. PICK v \in Nat : v = start[b]
    BY <1>3 DEF Offsets
  <2>5. PICK x \in Nat : x = start[c]
    BY <1>3 DEF Offsets
  <2>6. x + n + rest = v + y /\ e = v + y
    BY <1>2, <1>3, <1>5, <2>2, <2>3, <2>4, <2>5 DEF Fits
  <2> DEFINE z == x + n
  <2>7. z \in Nat /\ v < z /\ z < v + y /\ z <= e
    BY <1>1, <1>3, <2>3, <2>6
  <2>8. c <= b
    <3>1. c # b + 1
      BY <1>3, <2>2, <2>3, <2>4, <2>5, <2>6
    <3> QED
      BY <1>3, <3>1
  <2> HIDE DEF z
  <2>9. OnPlan(frames, start, s, start[c], z)
    <3>1. ASSUME NEW i \in 1..n, x + i <= z PROVE x + i <= e
      BY <1>3, <2>7, <3>1
    <3> QED
      BY <1>2, <1>3, <2>5, <3>1 DEF OnPlan
  <2>10. Fits(start, z, b, s, c, b, FALSE, 0)
    <3>1. start[c] + Len(s) = z
      BY <1>2, <2>5 DEF z
    <3>2. b # 0 /\ ~(z < z) /\ z <= z
      BY <1>1, <2>7
    <3>3. start[b] < z /\ z < start[b + 1]
      BY <2>2, <2>3, <2>4, <2>7
    <3> QED
      BY <2>8, <3>1, <3>2, <3>3 DEF Fits
  <2>11. Laid(start, z, frames, s, c, b, FALSE, 0)
    <3>1. b <= b /\ 0 \in Nat
      OBVIOUS
    <3> QED
      BY <1>1, <1>3, <2>7, <2>9, <2>10, <3>1 DEF Laid
  <2> QED
    BY <1>1, <1>5, <2>11
<1> QED
  BY <1>4, <1>5

\* receive takes the next frame off the stream.
LEMMA LaidDelivers ==
    ASSUME NEW start, NEW e, NEW frames, NEW s, NEW c, NEW cut, NEW shut, NEW rest,
           Laid(start, e, frames, s, c, cut, shut, rest), cut = 0 \/ c < cut, c <= Len(frames),
           Size(frames[c]) <= Len(s),
           NEW t \in Seq(Words), Len(s) = Size(frames[c]) + Len(t),
           \A j \in 1..Len(t) : t[j] = s[Size(frames[c]) + j]
    PROVE  Laid(start, e, frames, t, c + 1, cut, shut, rest)
<1>1. PICK b \in Nat : b = Len(frames)
  BY DEF Laid
<1>2. PICK n \in Nat : n = Len(s)
  BY DEF Laid
<1>3. /\ e \in Nat /\ c \in Nat \ {0} /\ cut \in Nat /\ rest \in Nat /\ s \in Seq(Words)
      /\ c <= b /\ cut <= b
      /\ Offsets(frames, start) /\ OnPlan(frames, start, s, start[c], e)
      /\ Fits(start, e, b, s, c, cut, shut, rest)
  BY <1>1 DEF Laid
<1>4. c \in 1..b /\ c + 1 \in Nat \ {0} /\ c + 1 <= b + 1
  BY <1>3
<1>5. frames[c] \in FrameSet /\ start[c + 1] = start[c] + Size(frames[c])
  BY <1>1, <1>3, <1>4 DEF Offsets
<1>6. PICK y \in Nat : y = Size(frames[c])
  BY <1>5, EncodingType
<1>7. PICK x \in Nat : x = start[c]
  BY <1>3 DEF Offsets
<1>8. PICK l \in Nat : l = Len(t)
  OBVIOUS
<1>9. n = y + l /\ start[c + 1] = x + y
  BY <1>2, <1>5, <1>6, <1>7, <1>8
<1>10. \A j \in 1..l : y + j \in 1..n /\ t[j] = s[y + j]
  BY <1>6, <1>8, <1>9
<1>11. OnPlan(frames, start, t, start[c + 1], e)
  <2>1. ASSUME NEW i \in 1..l, NEW k \in 1..b, NEW j \in 1..Size(frames[k]),
               x + y + i = start[k] + j, x + y + i <= e
        PROVE  t[i] = encode_frame(frames[k])[j]
    <3>1. y + i \in 1..n /\ t[i] = s[y + i]
      BY <1>10
    <3>2. x + (y + i) = x + y + i
      OBVIOUS
    <3>3. s[y + i] = encode_frame(frames[k])[j]
      BY <1>1, <1>2, <1>3, <1>7, <2>1, <3>1, <3>2 DEF OnPlan
    <3> QED
      BY <3>1, <3>3
  <2> QED
    BY <1>1, <1>8, <1>9, <2>1 DEF OnPlan
<1>12. Fits(start, e, b, t, c + 1, cut, shut, rest)
  <2>1. start[c] + Len(s) = x + n /\ start[c + 1] + Len(t) = x + n
    <3>1. (x + y) + l = x + n
      BY <1>9
    <3> QED
      BY <1>2, <1>7, <1>8, <1>9, <3>1, Zenon
  <2>2. CASE cut = 0
    BY <1>3, <2>1, <2>2 DEF Fits
  <2>3. CASE cut # 0
    <3>1. c < cut
      BY <2>3
    <3>2. start[c + 1] <= start[cut]
      <4>1. c + 1 \in 1..(b + 1) /\ cut \in 1..(b + 1) /\ c + 1 <= cut
        BY <1>3, <3>1
      <4> QED
        BY <1>1, <1>3, <4>1 DEF Offsets
    <3>3. PICK v \in Nat : v = start[cut]
      BY <1>3 DEF Offsets
    <3>4. x + y < e
      <4>1. v < e
        BY <1>3, <2>3, <3>3 DEF Fits
      <4> QED
        BY <1>3, <1>9, <3>2, <3>3, <4>1
    <3>5. e < x + n => t[e - (x + y) + 1] = <<"magic">>
      <4> SUFFICES ASSUME e < x + n PROVE t[e - (x + y) + 1] = <<"magic">>
        OBVIOUS
      <4>1. s[e - x + 1] = <<"magic">>
        BY <1>3, <1>7, <2>1, <2>3 DEF Fits
      <4>2. PICK j \in 1..l : j = e - (x + y) + 1
        BY <1>3, <1>9, <3>4
      <4>3. y + j = e - x + 1
        <5>1. e \in Nat
          BY <1>3
        <5> QED
          BY <4>2, <5>1
      <4> QED
        BY <1>10, <4>1, <4>2, <4>3
    <3>6. c + 1 <= cut
      BY <1>3, <3>1
    <3> QED
      BY <1>3, <1>9, <2>1, <2>3, <3>5, <3>6 DEF Fits
  <2> QED
    BY <2>2, <2>3
<1> QED
  BY <1>1, <1>3, <1>4, <1>11, <1>12 DEF Laid

\* What ends before the new words ends before their end.
LEMMA Beyond ==
    ASSUME NEW e \in Nat, NEW x \in Nat, NEW q \in Nat, NEW n \in Nat \ {0}, e <= x + q
    PROVE  e < x + (q + n) /\ e <= x + (q + n) /\ e # x + (q + n)
<1>1. e < x + (q + n)
  OBVIOUS
<1> QED
  BY <1>1

\* A further piece of a frame.
LEMMA LaidGoesOn ==
    ASSUME NEW start, NEW e, NEW frames, NEW s, NEW c, NEW cut, NEW rest, Len(frames) > 0,
           Laid(start, e, frames, s, c, cut, FALSE, rest),
           NEW n \in Nat \ {0}, n <= rest, rest < Size(frames[Len(frames)]),
           NEW t \in Seq(Words), Len(t) = Len(s) + n, \A j \in 1..Len(s) : t[j] = s[j],
           \A j \in 1..n : t[Len(s) + j] = encode_frame(frames[Len(frames)])
                                              [Size(frames[Len(frames)]) - rest + j]
    PROVE  Laid(start, e, frames, t, c, cut, FALSE, rest - n)
<1>1. PICK b \in Nat : b = Len(frames)
  BY DEF Laid
<1>2. PICK q \in Nat : q = Len(s)
  BY DEF Laid
<1>3. /\ c \in Nat \ {0} /\ cut \in Nat /\ s \in Seq(Words)
      /\ c <= b + 1 /\ cut <= b
      /\ Offsets(frames, start) /\ OnPlan(frames, start, s, start[c], e)
      /\ Fits(start, e, b, s, c, cut, FALSE, rest)
  BY <1>1 DEF Laid
<1>0. e \in Nat /\ rest \in Nat
  BY DEF Laid
<1>4. b \in 1..b /\ b + 1 \in 1..(b + 1)
  BY <1>1
<1>5. frames[b] \in FrameSet /\ start[b + 1] = start[b] + Size(frames[b])
  BY <1>1, <1>3, <1>4 DEF Offsets
<1>6. PICK y \in Nat : y = Size(frames[b])
  BY <1>5, EncodingType
<1>7. PICK x \in Nat : x = start[c]
  BY <1>3 DEF Offsets
<1>8. PICK v \in Nat : v = start[b] /\ start[b + 1] = v + y
  BY <1>3, <1>5, <1>6 DEF Offsets
<1>9. rest < y /\ rest > 0 /\ rest - n \in Nat
  BY <1>0, <1>1, <1>6
<1>10. \A k \in 1..b : k # b => start[k] \in Nat /\ start[k] + Size(frames[k]) <= v
  <2>1. ASSUME NEW k \in 1..b, k # b PROVE start[k] \in Nat /\ start[k] + Size(frames[k]) <= v
    <3>1. start[k + 1] = start[k] + Size(frames[k])
      BY <1>1, <1>3 DEF Offsets
    <3>2. k + 1 \in 1..(b + 1) /\ b \in 1..(b + 1) /\ k + 1 <= b
      BY <2>1
    <3>3. start[k + 1] <= v
      BY <1>1, <1>3, <1>8, <3>2 DEF Offsets
    <3>4. start[k] \in Nat
      BY <1>3 DEF Offsets
    <3> QED
      BY <3>1, <3>3, <3>4
  <2> QED
    BY <2>1
<1>11. \A k \in 1..b : Size(frames[k]) \in Nat
  BY <1>1, <1>3, EncodingType DEF Offsets
<1>12. \A j \in 1..n : t[q + j] = encode_frame(frames[b])[y - rest + j]
  BY <1>1, <1>2, <1>6
<1>13. OnPlan(frames, start, t, start[c], e)
  <2>1. ASSUME NEW i \in 1..(q + n), NEW k \in 1..b, NEW j \in 1..Size(frames[k]),
               x + i = start[k] + j, x + i <= e
        PROVE  t[i] = encode_frame(frames[k])[j]
    <3>1. CASE i <= q
      <4>1. i \in 1..q /\ t[i] = s[i]
        BY <1>2, <3>1
      <4> QED
        BY <1>1, <1>2, <1>3, <1>7, <2>1, <4>1 DEF OnPlan
    <3>2. CASE i > q
      <4>1. PICK p \in 1..n : i = q + p
        <5>1. i - q \in 1..n /\ i = q + (i - q)
          BY <3>2
        <5> QED
          BY <5>1
      <4>2. cut = 0
        <5>1. cut # 0 => e <= x + q
          BY <1>2, <1>3, <1>7 DEF Fits
        <5>2. x + i > x + q
          BY <3>2
        <5> QED
          BY <1>0, <2>1, <5>1, <5>2
      <4>3. x + q + rest = v + y
        BY <1>2, <1>3, <1>7, <1>8, <4>2 DEF Fits
      <4>4. x + i > v
        BY <1>0, <1>9, <3>2, <4>3
      <4>5. k = b
        <5> SUFFICES ASSUME k # b PROVE FALSE
          OBVIOUS
        <5>1. PICK w \in Nat : w = start[k]
          BY <1>10
        <5>2. PICK r \in Nat : r = Size(frames[k])
          BY <1>11
        <5>3. w + r <= v /\ j <= r /\ x + i = w + j
          BY <1>10, <2>1, <5>1, <5>2
        <5> QED
          BY <4>4, <5>3
      <4>6. x + i = v + j
        BY <1>8, <2>1, <4>5
      <4>7. j = y - rest + p
        BY <1>0, <4>1, <4>3, <4>6
      <4> QED
        BY <1>12, <4>1, <4>5, <4>7
    <3> QED
      BY <3>1, <3>2
  <2> QED
    BY <1>1, <1>2, <1>7, <2>1 DEF OnPlan
<1>14. Fits(start, e, b, t, c, cut, FALSE, rest - n)
  <2>1. CASE cut = 0
    <3>1. e = start[b + 1] /\ x + q + rest = e
      BY <1>2, <1>3, <1>7, <2>1 DEF Fits
    <3>2. x + (q + n) + (rest - n) = e /\ x + (q + n) + (rest - n) <= e
      BY <1>0, <3>1
    <3> QED
      BY <1>2, <1>7, <2>1, <3>1, <3>2 DEF Fits
  <2>2. CASE cut # 0
    <3>1. /\ c <= cut /\ start[cut] < e /\ e < start[cut + 1]
          /\ e < x + q => s[e - x + 1] = <<"magic">>
          /\ e <= x + q /\ (e = x + q => rest = 0)
      BY <1>2, <1>3, <1>7, <2>2 DEF Fits
    <3>2. e < x + q /\ e < x + (q + n) /\ e <= x + (q + n) /\ e # x + (q + n)
      <4>1. e <= x + q /\ e # x + q
        BY <1>9, <3>1
      <4>2. e < x + q
        BY <1>0, <4>1
      <4> QED
        BY <1>0, <4>1, <4>2, Beyond
    <3>3. x <= e
      <4>1. c \in 1..(b + 1) /\ cut \in 1..(b + 1) /\ start[cut] \in Nat
        BY <1>3, <2>2 DEF Offsets
      <4>2. x <= start[cut]
        BY <1>1, <1>3, <1>7, <3>1, <4>1 DEF Offsets
      <4> QED
        BY <1>0, <3>1, <4>1, <4>2
    <3>4. e - x + 1 \in 1..q
      BY <1>0, <3>2, <3>3
    <3>5. t[e - x + 1] = <<"magic">>
      BY <1>2, <3>1, <3>2, <3>4
    <3> QED
      BY <1>2, <1>7, <2>2, <3>1, <3>2, <3>5 DEF Fits
  <2> QED
    BY <2>1, <2>2
<1> QED
  BY <1>0, <1>1, <1>3, <1>9, <1>13, <1>14 DEF Laid

\* The offsets of one more frame.
LEMMA OneMoreOffset ==
    ASSUME NEW frames, NEW start, Len(frames) \in Nat, Offsets(frames, start),
           NEW f \in FrameSet, Encodable(f), NEW more, Len(more) = Len(frames) + 1,
           \A k \in 1..Len(frames) : more[k] = frames[k], more[Len(frames) + 1] = f
    PROVE  \E next : /\ Offsets(more, next)
                     /\ \A k \in 1..(Len(frames) + 1) : next[k] = start[k]
<1>1. PICK b \in Nat : b = Len(frames)
  OBVIOUS
<1>2. PICK z \in Nat : z = Size(f)
  BY EncodingType
<1> DEFINE next == [k \in Nat |-> IF k = b + 2 THEN start[b + 1] + z ELSE start[k]]
<1>3. \A k \in Nat : start[k] \in Nat
  BY DEF Offsets
<1>4. \A k \in Nat : next[k] \in Nat
  BY <1>3
<1>5. \A k \in 1..(b + 1) : next[k] = start[k]
  <2>1. \A k \in 1..(b + 1) : k \in Nat /\ k # b + 2
    OBVIOUS
  <2> QED
    BY <2>1
<1>6. next[b + 2] = start[b + 1] + z
  <2>1. b + 2 \in Nat
    OBVIOUS
  <2> QED
    BY <2>1
<1> HIDE DEF next
<1>7. ASSUME NEW k \in 1..(b + 1)
      PROVE  more[k] \in FrameSet /\ Encodable(more[k]) /\ next[k + 1] = next[k] + Size(more[k])
  <2>1. CASE k = b + 1
    <3>1. k + 1 = b + 2 /\ b + 1 \in 1..(b + 1) /\ more[b + 1] = f
      BY <1>1, <2>1
    <3> QED
      BY <1>2, <1>5, <1>6, <2>1, <3>1
  <2>2. CASE k # b + 1
    <3>1. k \in 1..b /\ k + 1 \in 1..(b + 1)
      BY <2>2
    <3>2. more[k] = frames[k] /\ frames[k] \in FrameSet /\ Encodable(frames[k])
          /\ start[k + 1] = start[k] + Size(frames[k])
      BY <1>1, <3>1 DEF Offsets
    <3> QED
      BY <1>5, <3>1, <3>2
  <2> QED
    BY <2>1, <2>2
<1>8. ASSUME NEW k \in 1..(b + 2), NEW l \in 1..(b + 2), k <= l PROVE next[k] <= next[l]
  <2>1. \A i, j \in 1..(b + 1) : i <= j => next[i] <= next[j]
    BY <1>1, <1>5 DEF Offsets
  <2>2. next[b + 1] <= next[b + 2]
    <3>1. next[b + 1] = start[b + 1] /\ start[b + 1] \in Nat
      BY <1>3, <1>5
    <3> QED
      BY <1>6, <3>1
  <2>3. CASE l # b + 2
    <3>1. k \in 1..(b + 1) /\ l \in 1..(b + 1)
      BY <1>8, <2>3
    <3> QED
      BY <1>8, <2>1, <3>1
  <2>4. CASE l = b + 2 /\ k # b + 2
    <3>1. k \in 1..(b + 1) /\ b + 1 \in 1..(b + 1) /\ k <= b + 1
      BY <2>4
    <3>2. next[k] <= next[b + 1]
      BY <2>1, <3>1
    <3>3. next[k] \in Nat /\ next[b + 1] \in Nat /\ next[b + 2] \in Nat
      BY <1>4
    <3> QED
      BY <2>2, <2>4, <3>2, <3>3
  <2>5. CASE l = b + 2 /\ k = b + 2
    <3>1. next[b + 2] \in Nat
      BY <1>4
    <3> QED
      BY <2>5, <3>1
  <2> QED
    BY <2>3, <2>4, <2>5
<1>9. (b + 1) + 1 = b + 2
  OBVIOUS
<1>10. Offsets(more, next)
  BY <1>1, <1>4, <1>7, <1>8, <1>9 DEF Offsets
<1> QED
  BY <1>1, <1>5, <1>10

\* One more frame, and the words of its first piece.
FrameAdded(more, frames, f) ==
    /\ Len(more) = Len(frames) + 1 /\ more[Len(frames) + 1] = f
    /\ \A k \in 1..Len(frames) : more[k] = frames[k]
WordsAdded(t, s, n, f) ==
    /\ t \in Seq(Words) /\ Len(t) = Len(s) + n /\ \A j \in 1..Len(s) : t[j] = s[j]
    /\ \A j \in 1..n : t[Len(s) + j] = encode_frame(f)[j]

\* The first piece of a frame.
LEMMA LaidBegins ==
    ASSUME NEW start, NEW e, NEW frames, NEW s, NEW c, NEW cut,
           Laid(start, e, frames, s, c, cut, FALSE, 0),
           NEW f \in FrameSet, Encodable(f), NEW more, FrameAdded(more, frames, f),
           NEW n \in Nat \ {0}, n <= Size(f), NEW t, WordsAdded(t, s, n, f)
    PROVE  \E next, z : Laid(next, z, more, t, c, cut, FALSE, Size(f) - n)
<1>a. /\ Len(more) = Len(frames) + 1 /\ more[Len(frames) + 1] = f
      /\ \A k \in 1..Len(frames) : more[k] = frames[k]
  BY DEF FrameAdded
<1>b. /\ t \in Seq(Words) /\ Len(t) = Len(s) + n /\ \A j \in 1..Len(s) : t[j] = s[j]
      /\ \A j \in 1..n : t[Len(s) + j] = encode_frame(f)[j]
  BY DEF WordsAdded
<1> USE <1>a, <1>b
<1>1. PICK b \in Nat : b = Len(frames)
  BY DEF Laid
<1>2. PICK q \in Nat : q = Len(s)
  BY DEF Laid
<1>3. /\ c \in Nat \ {0} /\ cut \in Nat /\ s \in Seq(Words)
      /\ c <= b + 1 /\ cut <= b
      /\ Offsets(frames, start) /\ OnPlan(frames, start, s, start[c], e)
      /\ Fits(start, e, b, s, c, cut, FALSE, 0)
  BY <1>1 DEF Laid
<1>4. e \in Nat
  BY DEF Laid
<1>5. PICK y \in Nat : y = Size(f)
  BY EncodingType
<1>6. PICK next : Offsets(more, next) /\ \A k \in 1..(b + 1) : next[k] = start[k]
  BY <1>1, <1>3, OneMoreOffset
<1>7. c \in 1..(b + 1) /\ b + 1 \in 1..(b + 1)
  BY <1>3
<1>8. PICK x \in Nat : x = start[c] /\ next[c] = x
  BY <1>3, <1>6, <1>7 DEF Offsets
<1>0. \A k \in Nat : start[k] \in Nat
  BY <1>3 DEF Offsets
<1>9. PICK v \in Nat : v = start[b + 1] /\ next[b + 1] = v
  <2>1. start[b + 1] \in Nat /\ next[b + 1] = start[b + 1]
    BY <1>0, <1>6, <1>7
  <2> QED
    BY <2>1
<1>10. next[b + 2] = v + y
  <2>1. b + 1 \in 1..Len(more) /\ (b + 1) + 1 = b + 2 /\ more[b + 1] = f
    BY <1>1, <1>7
  <2> QED
    BY <1>5, <1>6, <1>9, <2>1 DEF Offsets
<1>11. \A k \in 1..b : more[k] = frames[k] /\ next[k] = start[k] /\ next[k] \in Nat
                       /\ next[k] + Size(more[k]) <= v /\ Size(more[k]) \in Nat
  <2>1. ASSUME NEW k \in 1..b
        PROVE  more[k] = frames[k] /\ next[k] = start[k] /\ next[k] \in Nat
               /\ next[k] + Size(more[k]) <= v /\ Size(more[k]) \in Nat
    <3>1. k \in 1..(b + 1) /\ k + 1 \in 1..(b + 1) /\ k + 1 <= b + 1
      OBVIOUS
    <3>2. more[k] = frames[k] /\ next[k] = start[k] /\ next[k + 1] = start[k + 1]
      BY <1>1, <1>6, <3>1
    <3>3. frames[k] \in FrameSet /\ start[k + 1] = start[k] + Size(frames[k]) /\ start[k] \in Nat
      BY <1>1, <1>3 DEF Offsets
    <3>4. start[k + 1] <= v
      BY <1>1, <1>3, <1>7, <1>9, <3>1 DEF Offsets
    <3>5. Size(frames[k]) \in Nat
      BY <3>3, EncodingType
    <3> QED
      BY <3>2, <3>3, <3>4, <3>5
  <2> QED
    BY <2>1
<1>12. \A j \in 1..n : t[q + j] = encode_frame(f)[j]
  BY <1>2
<1>13. y - n \in Nat
  BY <1>5
<1> DEFINE z == IF cut = 0 THEN v + y ELSE e
<1>14. z \in Nat
  BY <1>4
<1>15. cut = 0 => e = v /\ x + q = v
  <2> SUFFICES ASSUME cut = 0 PROVE e = v /\ x + q = v
    OBVIOUS
  <2>1. e = v /\ x + q + 0 = e
    BY <1>2, <1>3, <1>8, <1>9 DEF Fits
  <2> QED
    BY <2>1
<1>16. cut # 0 => e <= x + q /\ e < v /\ x <= e
  <2> SUFFICES ASSUME cut # 0 PROVE e <= x + q /\ e < v /\ x <= e
    OBVIOUS
  <2>1. e <= x + q /\ e < start[cut + 1] /\ start[cut] < e /\ c <= cut
    BY <1>2, <1>3, <1>8 DEF Fits
  <2>2. cut \in 1..(b + 1) /\ cut + 1 \in 1..(b + 1) /\ cut + 1 <= b + 1
    BY <1>3
  <2>3. start[cut + 1] <= v /\ start[cut + 1] \in Nat /\ start[cut] \in Nat
    <3>1. start[cut + 1] <= v
      BY <1>1, <1>3, <1>7, <1>9, <2>2 DEF Offsets
    <3>2. start[cut + 1] \in Nat /\ start[cut] \in Nat
      BY <1>0, <2>2
    <3> QED
      BY <3>1, <3>2
  <2>4. x <= start[cut]
    BY <1>1, <1>3, <1>7, <1>8, <2>1, <2>2 DEF Offsets
  <2> QED
    BY <1>4, <2>1, <2>3, <2>4
<1> HIDE DEF z
<1>17. OnPlan(more, next, t, next[c], z)
  <2>1. ASSUME NEW i \in 1..(q + n), NEW k \in 1..(b + 1), NEW j \in 1..Size(more[k]),
               x + i = next[k] + j, x + i <= z
        PROVE  t[i] = encode_frame(more[k])[j]
    <3>1. CASE k # b + 1
      <4>1. k \in 1..b
        BY <3>1
      <4>2. PICK w \in Nat : w = next[k] /\ w = start[k]
        BY <1>11, <4>1
      <4>3. PICK r \in Nat : r = Size(more[k])
        BY <1>11, <4>1
      <4>4. x + i <= v
        <5>1. w + r <= v /\ j <= r /\ x + i = w + j
          BY <1>11, <2>1, <4>1, <4>2, <4>3
        <5> QED
          BY <5>1
      <4>5. x + i <= e
        BY <1>15, <2>1, <4>4 DEF z
      <4>6. i <= q
        BY <1>4, <1>15, <1>16, <4>5
      <4>7. i \in 1..q /\ t[i] = s[i]
        BY <1>2, <4>6
      <4>8. s[i] = encode_frame(frames[k])[j]
        <5>1. more[k] = frames[k]
          BY <1>11, <4>1
        <5>2. x + i = start[k] + j /\ j \in 1..Size(frames[k])
          BY <2>1, <4>2, <5>1
        <5> QED
          BY <1>1, <1>2, <1>3, <1>8, <4>1, <4>5, <4>7, <5>2 DEF OnPlan
      <4> QED
        BY <1>11, <4>1, <4>7, <4>8
    <3>2. CASE k = b + 1
      <4>1. x + i = v + j /\ more[k] = f /\ j \in Nat \ {0}
        BY <1>1, <1>9, <2>1, <3>2
      <4>2. cut = 0
        BY <1>4, <1>16, <2>1, <4>1 DEF z
      <4>3. i = q + j /\ j \in 1..n
        BY <1>15, <4>1, <4>2
      <4> QED
        BY <1>12, <4>1, <4>3
    <3> QED
      BY <3>1, <3>2
  <2> QED
    BY <1>1, <1>2, <1>8, <2>1 DEF OnPlan
<1>18. Fits(next, z, b + 1, t, c, cut, FALSE, y - n)
  <2>0. (b + 1) + 1 = b + 2 /\ next[c] + Len(t) = x + (q + n)
    BY <1>2, <1>8
  <2>1. CASE cut = 0
    <3>1. z = next[b + 2] /\ x + (q + n) + (y - n) = z /\ x + (q + n) + (y - n) <= z
      BY <1>10, <1>15, <2>1 DEF z
    <3> QED
      BY <2>0, <2>1, <3>1 DEF Fits
  <2>2. CASE cut # 0
    <3>0. z = e
      BY <2>2 DEF z
    <3>1. /\ c <= cut /\ start[cut] < e /\ e < start[cut + 1]
          /\ e < x + q => s[e - x + 1] = <<"magic">>
      BY <1>2, <1>3, <1>8, <2>2 DEF Fits
    <3>2. cut \in 1..(b + 1) /\ cut + 1 \in 1..(b + 1)
      BY <1>3, <2>2
    <3>3. next[cut] < e /\ e < next[cut + 1]
      BY <1>6, <3>1, <3>2
    <3>4. e <= x + q
      BY <1>16, <2>2
    <3>5. e < x + (q + n) /\ e <= x + (q + n) /\ e # x + (q + n)
      BY <1>4, <3>4, Beyond
    <3>6. t[e - x + 1] = <<"magic">>
      <4>1. CASE e < x + q
        <5>1. e - x + 1 \in 1..q
          BY <1>4, <1>16, <2>2, <4>1
        <5> QED
          BY <1>2, <3>1, <4>1, <5>1
      <4>2. CASE e = x + q
        <5>1. e - x + 1 = q + 1 /\ 1 \in 1..n
          BY <4>2
        <5>2. t[q + 1] = encode_frame(f)[1]
          BY <1>12, <5>1
        <5> QED
          BY <5>1, <5>2, EncodedWords
      <4>3. e < x + q \/ e = x + q
        BY <1>4, <3>4
      <4> QED
        BY <4>1, <4>2, <4>3
    <3> QED
      BY <1>8, <2>0, <2>2, <3>0, <3>1, <3>3, <3>5, <3>6 DEF Fits
  <2> QED
    BY <2>1, <2>2
<1>19. Laid(next, z, more, t, c, cut, FALSE, y - n)
  <2>1. b + 1 \in Nat /\ c <= (b + 1) + 1 /\ cut <= b + 1
    BY <1>3
  <2> QED
    BY <1>1, <1>3, <1>6, <1>13, <1>14, <1>17, <1>18, <2>1 DEF Laid
<1> QED
  BY <1>5, <1>19

-----------------------------------------------------------------------------
(* Pieces of sequences. *)

\* Two sequences, one behind the other.
LEMMA Joined ==
    ASSUME NEW W, NEW a \in Seq(W), NEW p \in Seq(W)
    PROVE  /\ a \o p \in Seq(W) /\ Len(a) \in Nat /\ Len(p) \in Nat
           /\ Len(a \o p) = Len(a) + Len(p)
           /\ \A j \in 1..Len(a) : (a \o p)[j] = a[j]
           /\ \A j \in 1..Len(p) : (a \o p)[Len(a) + j] = p[j]
OBVIOUS

\* The first n and the other elements of a sequence.
LEMMA Parts ==
    ASSUME NEW W, NEW u \in Seq(W), NEW n \in Nat, n <= Len(u)
    PROVE  /\ SubSeq(u, 1, n) \in Seq(W) /\ Len(SubSeq(u, 1, n)) = n
           /\ \A j \in 1..n : SubSeq(u, 1, n)[j] = u[j]
           /\ SubSeq(u, n + 1, Len(u)) \in Seq(W) /\ Len(SubSeq(u, n + 1, Len(u))) = Len(u) - n
           /\ \A j \in 1..(Len(u) - n) : SubSeq(u, n + 1, Len(u))[j] = u[n + j]
OBVIOUS

\* The stream with n more words.
LEMMA StreamGrows ==
    ASSUME NEW W, NEW a \in Seq(W), NEW p \in Seq(W), NEW u \in Seq(W), NEW n \in Nat, n <= Len(u)
    PROVE  LET s == a \o p
               t == a \o (p \o SubSeq(u, 1, n))
           IN /\ s \in Seq(W) /\ t \in Seq(W) /\ Len(t) = Len(s) + n
              /\ \A j \in 1..Len(s) : t[j] = s[j]
              /\ \A j \in 1..n : t[Len(s) + j] = u[j]
<1> DEFINE v == SubSeq(u, 1, n)
           r == p \o v
           s == a \o p
           t == a \o r
<1>1. v \in Seq(W) /\ Len(v) = n /\ \A j \in 1..n : v[j] = u[j]
  BY Parts
<1> HIDE DEF v
<1>2. /\ r \in Seq(W) /\ Len(p) \in Nat /\ Len(r) = Len(p) + n
      /\ \A j \in 1..Len(p) : r[j] = p[j]
      /\ \A j \in 1..n : r[Len(p) + j] = v[j]
  <2>1. /\ p \o v \in Seq(W) /\ Len(p) \in Nat /\ Len(v) \in Nat
        /\ Len(p \o v) = Len(p) + Len(v)
        /\ \A j \in 1..Len(p) : (p \o v)[j] = p[j]
        /\ \A j \in 1..Len(v) : (p \o v)[Len(p) + j] = v[j]
    <3>1. v \in Seq(W)
      BY <1>1
    <3> QED
      BY <3>1
  <2> QED
    BY <1>1, <2>1
<1> HIDE DEF r
<1>3. /\ t \in Seq(W) /\ Len(a) \in Nat /\ Len(t) = Len(a) + Len(r)
      /\ \A j \in 1..Len(a) : t[j] = a[j]
      /\ \A j \in 1..Len(r) : t[Len(a) + j] = r[j]
  <2>1. /\ a \o r \in Seq(W) /\ Len(a) \in Nat /\ Len(r) \in Nat
        /\ Len(a \o r) = Len(a) + Len(r)
        /\ \A j \in 1..Len(a) : (a \o r)[j] = a[j]
        /\ \A j \in 1..Len(r) : (a \o r)[Len(a) + j] = r[j]
    <3>1. r \in Seq(W)
      BY <1>2
    <3> QED
      BY <3>1
  <2> QED
    BY <1>2, <2>1
<1>4. /\ s \in Seq(W) /\ Len(s) = Len(a) + Len(p)
      /\ \A j \in 1..Len(a) : s[j] = a[j]
      /\ \A j \in 1..Len(p) : s[Len(a) + j] = p[j]
  BY Joined
<1> HIDE DEF s, t
<1>5. PICK x \in Nat : x = Len(a)
  BY <1>3
<1>6. PICK y \in Nat : y = Len(p)
  BY <1>2
<1>7. Len(r) = y + n /\ Len(t) = x + (y + n) /\ Len(s) = x + y
  BY <1>2, <1>3, <1>4, <1>5, <1>6
<1>8. Len(t) = Len(s) + n
  BY <1>7
<1>9. ASSUME NEW j \in 1..(x + y) PROVE t[j] = s[j]
  <2>1. CASE j <= x
    <3>1. j \in 1..x
      BY <2>1
    <3> QED
      BY <1>3, <1>4, <1>5, <3>1
  <2>2. CASE j > x
    <3>1. PICK i \in 1..y : j = x + i
      <4>1. j - x \in 1..y /\ j = x + (j - x)
        BY <2>2
      <4> QED
        BY <4>1
    <3>2. i \in 1..(y + n)
      OBVIOUS
    <3>3. t[x + i] = r[i]
      BY <1>3, <1>5, <1>7, <3>2
    <3>4. r[i] = p[i] /\ s[x + i] = p[i]
      BY <1>2, <1>4, <1>5, <1>6
    <3> QED
      BY <3>1, <3>3, <3>4
  <2> QED
    BY <2>1, <2>2
<1>10. ASSUME NEW j \in 1..n PROVE t[(x + y) + j] = u[j]
  <2>1. y + j \in 1..(y + n) /\ x + (y + j) = (x + y) + j
    OBVIOUS
  <2>2. t[x + (y + j)] = r[y + j]
    BY <1>3, <1>5, <1>7, <2>1
  <2>3. r[y + j] = u[j]
    BY <1>1, <1>2, <1>6
  <2> QED
    BY <2>1, <2>2, <2>3
<1>11. s \in Seq(W) /\ t \in Seq(W)
  BY <1>3, <1>4
<1> QED
  BY <1>7, <1>8, <1>9, <1>10, <1>11 DEF s, t, r, v

\* The stream without its end.
LEMMA StreamEnds ==
    ASSUME NEW W, NEW a \in Seq(W), NEW p \in Seq(W), NEW n \in Nat, n <= Len(p)
    PROVE  LET s == a \o p
               t == a \o SubSeq(p, 1, n)
           IN t \in Seq(W) /\ Len(t) <= Len(s) /\ \A j \in 1..Len(t) : t[j] = s[j]
<1> DEFINE v == SubSeq(p, 1, n)
           s == a \o p
           t == a \o v
<1>1. v \in Seq(W) /\ Len(v) = n /\ \A j \in 1..n : v[j] = p[j]
  BY Parts
<1> HIDE DEF v
<1>2. /\ t \in Seq(W) /\ Len(a) \in Nat /\ Len(t) = Len(a) + n
      /\ \A j \in 1..Len(a) : t[j] = a[j]
      /\ \A j \in 1..n : t[Len(a) + j] = v[j]
  <2>1. /\ a \o v \in Seq(W) /\ Len(a) \in Nat /\ Len(v) \in Nat
        /\ Len(a \o v) = Len(a) + Len(v)
        /\ \A j \in 1..Len(a) : (a \o v)[j] = a[j]
        /\ \A j \in 1..Len(v) : (a \o v)[Len(a) + j] = v[j]
    <3>1. v \in Seq(W)
      BY <1>1
    <3> QED
      BY <3>1
  <2> QED
    BY <1>1, <2>1
<1>3. /\ s \in Seq(W) /\ Len(p) \in Nat /\ Len(s) = Len(a) + Len(p)
      /\ \A j \in 1..Len(a) : s[j] = a[j]
      /\ \A j \in 1..Len(p) : s[Len(a) + j] = p[j]
  BY Joined
<1> HIDE DEF s, t
<1>4. PICK x \in Nat : x = Len(a)
  BY <1>2
<1>5. PICK y \in Nat : y = Len(p) /\ n <= y
  BY <1>3
<1>6. Len(t) = x + n /\ Len(s) = x + y
  BY <1>2, <1>3, <1>4, <1>5
<1>7. Len(t) <= Len(s)
  BY <1>5, <1>6
<1>8. ASSUME NEW j \in 1..(x + n) PROVE t[j] = s[j]
  <2>1. CASE j <= x
    <3>1. j \in 1..x
      BY <2>1
    <3> QED
      BY <1>2, <1>3, <1>4, <3>1
  <2>2. CASE j > x
    <3>1. PICK i \in 1..n : j = x + i
      <4>1. j - x \in 1..n /\ j = x + (j - x)
        BY <2>2
      <4> QED
        BY <4>1
    <3>2. i \in 1..y
      BY <1>5
    <3>3. t[x + i] = v[i] /\ v[i] = p[i]
      BY <1>1, <1>2, <1>4
    <3>4. s[x + i] = p[i]
      BY <1>3, <1>4, <1>5, <3>2
    <3> QED
      BY <3>1, <3>3, <3>4
  <2> QED
    BY <2>1, <2>2
<1> QED
  BY <1>2, <1>6, <1>7, <1>8 DEF s, t, v

\* Words that move from one end of the connection to the other.
LEMMA StreamMoves ==
    ASSUME NEW W, NEW a \in Seq(W), NEW p \in Seq(W), NEW n \in Nat, n <= Len(p)
    PROVE  (a \o SubSeq(p, 1, n)) \o SubSeq(p, n + 1, Len(p)) = a \o p
<1> DEFINE v == SubSeq(p, 1, n)
           w == SubSeq(p, n + 1, Len(p))
<1>1. /\ v \in Seq(W) /\ Len(v) = n /\ \A j \in 1..n : v[j] = p[j]
      /\ w \in Seq(W) /\ Len(w) = Len(p) - n /\ \A j \in 1..(Len(p) - n) : w[j] = p[n + j]
  BY Parts
<1> HIDE DEF v, w
<1>2. v \o w = p
  <2>1. PICK y \in Nat : y = Len(p) /\ n <= y
    OBVIOUS
  <2>2. /\ v \o w \in Seq(W) /\ Len(v \o w) = n + Len(w)
        /\ \A j \in 1..n : (v \o w)[j] = v[j]
        /\ \A j \in 1..Len(w) : (v \o w)[n + j] = w[j]
    <3>1. /\ v \o w \in Seq(W) /\ Len(v) \in Nat /\ Len(w) \in Nat
          /\ Len(v \o w) = Len(v) + Len(w)
          /\ \A j \in 1..Len(v) : (v \o w)[j] = v[j]
          /\ \A j \in 1..Len(w) : (v \o w)[Len(v) + j] = w[j]
      <4>1. v \in Seq(W) /\ w \in Seq(W)
        BY <1>1
      <4> QED
        BY <4>1
    <3> QED
      BY <1>1, <3>1
  <2>3. Len(v \o w) = y
    BY <1>1, <2>1, <2>2
  <2>4. ASSUME NEW j \in 1..y PROVE (v \o w)[j] = p[j]
    <3>1. CASE j <= n
      <4>1. j \in 1..n
        BY <3>1
      <4> QED
        BY <1>1, <2>2, <4>1
    <3>2. CASE j > n
      <4>1. PICK i \in 1..(y - n) : j = n + i
        <5>1. j - n \in 1..(y - n) /\ j = n + (j - n)
          BY <3>2
        <5> QED
          BY <5>1
      <4> QED
        BY <1>1, <2>1, <2>2, <4>1
    <3>3. j <= n \/ j > n
      OBVIOUS
    <3> QED
      BY <3>1, <3>2, <3>3, Zenon
  <2> QED
    BY <2>1, <2>2, <2>3, <2>4, SeqEqual
<1>3. (a \o v) \o w = a \o (v \o w)
  BY <1>1, ConcatAssociative
<1> QED
  BY <1>2, <1>3 DEF v, w

\* The stream without its first m words.
LEMMA StreamTaken ==
    ASSUME NEW W, NEW a \in Seq(W), NEW p \in Seq(W), NEW m \in Nat, m <= Len(a)
    PROVE  LET s == a \o p
               t == SubSeq(a, m + 1, Len(a)) \o p
           IN /\ t \in Seq(W) /\ Len(s) = m + Len(t)
              /\ \A j \in 1..Len(t) : t[j] = s[m + j]
<1> DEFINE v == SubSeq(a, m + 1, Len(a))
           s == a \o p
           t == v \o p
<1>1. v \in Seq(W) /\ Len(v) = Len(a) - m /\ \A j \in 1..(Len(a) - m) : v[j] = a[m + j]
  BY Parts
<1> HIDE DEF v
<1>2. /\ t \in Seq(W) /\ Len(v) \in Nat /\ Len(t) = Len(v) + Len(p)
      /\ \A j \in 1..Len(v) : t[j] = v[j]
      /\ \A j \in 1..Len(p) : t[Len(v) + j] = p[j]
  <2>1. /\ v \o p \in Seq(W) /\ Len(v) \in Nat /\ Len(p) \in Nat
        /\ Len(v \o p) = Len(v) + Len(p)
        /\ \A j \in 1..Len(v) : (v \o p)[j] = v[j]
        /\ \A j \in 1..Len(p) : (v \o p)[Len(v) + j] = p[j]
    <3>1. v \in Seq(W)
      BY <1>1
    <3> QED
      BY <3>1
  <2> QED
    BY <1>1, <2>1
<1>3. /\ Len(a) \in Nat /\ Len(p) \in Nat /\ Len(s) = Len(a) + Len(p)
      /\ \A j \in 1..Len(a) : s[j] = a[j]
      /\ \A j \in 1..Len(p) : s[Len(a) + j] = p[j]
  BY Joined
<1> HIDE DEF s, t
<1>4. PICK x \in Nat : x = Len(a) /\ m <= x
  BY <1>3
<1>5. PICK y \in Nat : y = Len(p)
  BY <1>3
<1>6. PICK l \in Nat : l = x - m /\ Len(v) = l
  BY <1>1, <1>4
<1>7. Len(t) = l + y /\ Len(s) = x + y /\ x = l + m
  BY <1>2, <1>3, <1>4, <1>5, <1>6
<1>8. Len(s) = m + Len(t)
  BY <1>7
<1>9. ASSUME NEW j \in 1..(l + y) PROVE t[j] = s[m + j]
  <2>1. CASE j <= l
    <3>1. j \in 1..l /\ m + j \in 1..x
      BY <1>7, <2>1
    <3> QED
      BY <1>1, <1>2, <1>3, <1>4, <1>6, <3>1
  <2>2. CASE j > l
    <3>1. PICK i \in 1..y : j = l + i
      <4>1. j - l \in 1..y /\ j = l + (j - l)
        BY <2>2
      <4> QED
        BY <4>1
    <3>2. m + j = x + i
      BY <1>7, <3>1
    <3>3. t[l + i] = p[i] /\ s[x + i] = p[i]
      BY <1>2, <1>3, <1>4, <1>5, <1>6
    <3> QED
      BY <3>1, <3>2, <3>3
  <2> QED
    BY <2>1, <2>2
<1> QED
  BY <1>2, <1>7, <1>8, <1>9 DEF s, t, v

-----------------------------------------------------------------------------
(* The threads that send, and the invariant. *)

\* Nothing of u has gone out.
Whole(u) == \E f \in FrameSet : Encodable(f) /\ u = encode_frame(f)

\* u is what is left of f, of which at least a word has gone out.
LeftOf(u, f) ==
    \E m \in Nat : m > 0 /\ m < Size(f) /\ u = SubSeq(encode_frame(f), m + 1, Size(f))

\* What the holder of the mutex has left to write of a frame it has begun.
Rest == IF lock # None /\ ~Untouched(lock) THEN Len(unsent[lock]) ELSE 0

\* One thread writes at a time, and what it has left completes the frame that went out last.
SendersInv ==
    /\ lock \in Senders \cup {None} /\ closed \in BOOLEAN /\ (closed => lock = None)
    /\ DOMAIN unsent = Senders /\ attempts \in [Senders -> Nat]
    /\ \A s \in Senders : lock # s => unsent[s] = <<>> \/ Whole(unsent[s])
    /\ \A s \in Senders :
          lock = s => \/ Whole(unsent[s])
                      \/ Len(begun) > 0 /\ LeftOf(unsent[s], begun[Len(begun)])

StreamInv ==
    \E start, e : Laid(start, e, begun, inbound \o pipe, Len(delivered) + 1, torn, closed, Rest)

ReceiverInv ==
    /\ inbound \in Seq(Words) /\ pipe \in Seq(Words)
    /\ begun \in Seq(FrameSet) /\ delivered \in Seq(FrameSet)
    /\ \A k \in 1..Len(delivered) : delivered[k] = begun[k]
    /\ receiver = "failed" => torn # 0

\* Where the threads, the stream and the receiver are, together.
ChannelInv == SendersInv /\ StreamInv /\ ReceiverInv

\* An encoding that has not begun.
LEMMA WholeEncoding ==
    ASSUME NEW f \in FrameSet, Encodable(f), NEW u, u = encode_frame(f)
    PROVE  /\ u \in Seq(Words) /\ Len(u) = Size(f) /\ Len(u) > 0 /\ u # <<>>
           /\ u[1] = <<"magic">> /\ FrameIn(u) = f
<1>1. u \in Seq(Words) /\ Size(f) \in Nat /\ Size(f) >= 9
  BY EncodingType
<1>2. Len(u) = Size(f)
  BY DEF Size
<1>3. Len(u) > 0 /\ u # <<>>
  BY <1>1, <1>2
<1>4. Begins(u, f)
  BY DEF Begins
<1>5. Len(u) >= Size(f)
  BY <1>1, <1>2
<1>6. FrameIn(u) = f
  BY <1>1, <1>4, <1>5, DecodesFrame
<1>7. u[1] = <<"magic">>
  BY EncodedWords
<1> QED
  BY <1>1, <1>2, <1>3, <1>6, <1>7

\* What is left of an encoding that has begun.
LEMMA LeftEncoding ==
    ASSUME NEW f \in FrameSet, NEW m \in Nat, m > 0, m < Size(f),
           NEW u, u = SubSeq(encode_frame(f), m + 1, Size(f))
    PROVE  /\ u \in Seq(Words) /\ Len(u) = Size(f) - m /\ Len(u) > 0 /\ u # <<>>
           /\ u[1] # <<"magic">>
           /\ \A j \in 1..(Size(f) - m) : u[j] = encode_frame(f)[m + j]
<1> DEFINE w == encode_frame(f)
<1>1. w \in Seq(Words) /\ Size(f) \in Nat /\ Len(w) = Size(f)
  BY EncodingType DEF Size
<1> HIDE DEF w
<1>2. /\ u \in Seq(Words) /\ Len(u) = Size(f) - m
      /\ \A j \in 1..(Size(f) - m) : u[j] = w[m + j]
  BY <1>1, Parts DEF w
<1>3. Len(u) > 0
  BY <1>1, <1>2
<1>4. u # <<>>
  <2>1. Len(<<>>) = 0 /\ ~(0 > 0)
    OBVIOUS
  <2> QED
    BY <1>3, <2>1, Zenon
<1>5. 1 \in 1..(Size(f) - m) /\ m + 1 \in 1..Size(f) /\ m + 1 # 1
  BY <1>1
<1>6. u[1] = w[m + 1]
  BY <1>2, <1>5
<1>7. w[m + 1][1] # "magic"
  BY <1>5, WordTags DEF w
<1>8. u[1] # <<"magic">>
  <2>1. <<"magic">>[1] = "magic"
    OBVIOUS
  <2> QED
    BY <1>6, <1>7, <2>1, Zenon
<1> QED
  BY <1>2, <1>3, <1>4, <1>8 DEF w

\* What is left of what is left.
LEMMA LeftOfLeft ==
    ASSUME NEW f \in FrameSet, NEW m \in Nat, NEW n \in Nat, m + n <= Size(f),
           NEW u, u = SubSeq(encode_frame(f), m + 1, Size(f))
    PROVE  SubSeq(u, n + 1, Len(u)) = SubSeq(encode_frame(f), (m + n) + 1, Size(f))
<1> DEFINE w == encode_frame(f)
           v == SubSeq(u, n + 1, Len(u))
           x == SubSeq(w, (m + n) + 1, Size(f))
<1>1. w \in Seq(Words)
  BY EncodingType
<1>2. PICK z \in Nat : z = Size(f) /\ Len(w) = z
  BY EncodingType DEF Size
<1>3. m + n <= z /\ m <= z /\ n <= z - m /\ z - m \in Nat /\ m + n \in Nat
  BY <1>2
<1> HIDE DEF w
<1>4. /\ u \in Seq(Words) /\ Len(u) = z - m
      /\ \A j \in 1..(z - m) : u[j] = w[m + j]
  BY <1>1, <1>2, <1>3, Parts DEF w
<1>5. /\ v \in Seq(Words) /\ Len(v) = (z - m) - n
      /\ \A j \in 1..((z - m) - n) : v[j] = u[n + j]
  <2>1. /\ v \in Seq(Words) /\ Len(v) = Len(u) - n
        /\ \A j \in 1..(Len(u) - n) : v[j] = u[n + j]
    <3>1. u \in Seq(Words) /\ n <= Len(u)
      BY <1>3, <1>4
    <3> QED
      BY <3>1, Parts
  <2> QED
    BY <1>4, <2>1
<1>6. /\ x \in Seq(Words) /\ Len(x) = z - (m + n)
      /\ \A j \in 1..(z - (m + n)) : x[j] = w[(m + n) + j]
  BY <1>1, <1>2, <1>3, Parts
<1> HIDE DEF v, x
<1>7. PICK l \in Nat : l = z - (m + n) /\ l = (z - m) - n
  BY <1>3
<1>8. ASSUME NEW j \in 1..l PROVE v[j] = x[j]
  <2>1. n + j \in 1..(z - m) /\ m + (n + j) = (m + n) + j
    BY <1>3, <1>7
  <2>2. v[j] = w[m + (n + j)]
    BY <1>4, <1>5, <1>7, <2>1
  <2>3. x[j] = w[(m + n) + j]
    BY <1>6, <1>7
  <2> QED
    BY <2>1, <2>2, <2>3
<1>9. v = x
  BY <1>5, <1>6, <1>7, <1>8, SeqEqual
<1> QED
  BY <1>9 DEF v, x, w

\* Rest in terms of what the holder of the mutex does.
LEMMA RestOfHolder ==
    ASSUME ChannelInv
    PROVE  /\ lock = None => Rest = 0
           /\ \A s \in Senders : lock = s /\ Whole(unsent[s]) => Rest = 0 /\ Untouched(s)
           /\ \A s \in Senders : lock = s /\ ~Whole(unsent[s]) => ~Untouched(s)
<1>1. lock = None => Rest = 0
  BY DEF Rest
<1>2. ASSUME NEW s \in Senders, lock = s, Whole(unsent[s]) PROVE Rest = 0 /\ Untouched(s)
  <2>1. PICK f \in FrameSet : Encodable(f) /\ unsent[s] = encode_frame(f)
    BY <1>2 DEF Whole
  <2>2. unsent[s][1] = <<"magic">>
    BY <2>1, WholeEncoding
  <2> QED
    BY <1>2, <2>2 DEF Untouched, Rest
<1>3. ASSUME NEW s \in Senders, lock = s, ~Whole(unsent[s]) PROVE ~Untouched(s)
  <2>1. Len(begun) > 0 /\ LeftOf(unsent[s], begun[Len(begun)])
    BY <1>3 DEF ChannelInv, SendersInv
  <2>2. begun[Len(begun)] \in FrameSet
    BY <2>1 DEF ChannelInv, ReceiverInv
  <2>3. PICK m \in Nat : /\ m > 0 /\ m < Size(begun[Len(begun)])
                         /\ unsent[s] = SubSeq(encode_frame(begun[Len(begun)]), m + 1,
                                               Size(begun[Len(begun)]))
    BY <2>1 DEF LeftOf
  <2>4. unsent[s][1] # <<"magic">>
    BY <2>2, <2>3, LeftEncoding
  <2> QED
    BY <2>4 DEF Untouched
<1> QED
  BY <1>1, <1>2, <1>3

\* A frame that a thread sends.
LEMMA FrameType ==
    ASSUME NEW s \in Senders, NEW n \in Nat, NEW k \in Nat
    PROVE  Frame(s, n, k) \in FrameSet
<1>1. [i \in 1..k |-> <<"payload", s, n, i>>] \in Seq({"payload"} \X Senders \X Nat \X Nat)
  <2>1. \A i \in 1..k : <<"payload", s, n, i>> \in {"payload"} \X Senders \X Nat \X Nat
    OBVIOUS
  <2> QED
    BY <2>1
<1> QED
  BY <1>1 DEF Frame, FrameSet

LEMMA ChannelInit == Init => ChannelInv
<1> SUFFICES ASSUME Init PROVE ChannelInv
  OBVIOUS
<1>1. /\ lock = None /\ unsent = [s \in Senders |-> <<>>] /\ attempts = [s \in Senders |-> 0]
      /\ begun = <<>> /\ torn = 0 /\ closed = FALSE /\ pipe = <<>> /\ inbound = <<>>
      /\ delivered = <<>> /\ receiver = "open"
  BY DEF Init
<1>2. SendersInv
  BY <1>1, SendersAssumption DEF SendersInv
<1>3. ReceiverInv
  BY <1>1 DEF ReceiverInv
<1>4. StreamInv
  <2> DEFINE start == [k \in Nat |-> 0]
  <2>1. Rest = 0
    BY <1>1 DEF Rest
  <2>2. inbound \o pipe = <<>> /\ Len(begun) = 0 /\ Len(delivered) + 1 = 1
    BY <1>1
  <2>3. Laid(start, 0, begun, <<>>, 1, 0, FALSE, 0)
    <3>1. start[1] = 0 /\ \A k \in Nat : start[k] = 0
      OBVIOUS
    <3> HIDE DEF start
    <3>2. Len(<<>>) = 0 /\ <<>> \in Seq(Words) /\ 1..0 = {}
      OBVIOUS
    <3>3. Offsets(begun, start)
      <4>1. \A k \in 1..1 : k \in Nat /\ start[k] = 0
        BY <3>1
      <4> QED
        BY <2>2, <3>1, <4>1 DEF Offsets
    <3>4. OnPlan(begun, start, <<>>, start[1], 0)
      BY <3>2 DEF OnPlan
    <3>5. Fits(start, 0, 0, <<>>, 1, 0, FALSE, 0)
      BY <3>1, <3>2 DEF Fits
    <3>6. 0 \in Nat /\ 1 \in Nat \ {0} /\ 1 <= 0 + 1 /\ 0 <= 0
      OBVIOUS
    <3>7. Len(begun) = 0
      BY <2>2
    <3> QED
      BY <3>2, <3>3, <3>4, <3>5, <3>6, <3>7, Zenon DEF Laid
  <2> QED
    BY <1>1, <2>1, <2>2, <2>3 DEF StreamInv
<1> QED
  BY <1>2, <1>3, <1>4 DEF ChannelInv

LEMMA SendKeeps ==
    ASSUME ChannelInv, NEW s \in Senders, NEW k \in Sizes, Send(s, k)
    PROVE  ChannelInv'
<1> DEFINE f == Frame(s, attempts[s] + 1, k)
<1>1. /\ unsent[s] = <<>> /\ Encodable(f)
      /\ attempts' = [attempts EXCEPT ![s] = @ + 1]
      /\ unsent' = [unsent EXCEPT ![s] = encode_frame(f)]
      /\ UNCHANGED <<lock, begun, torn, closed, pipe, inbound, delivered, receiver>>
  BY DEF Send, receiving
<1>2. DOMAIN unsent = Senders /\ attempts \in [Senders -> Nat]
  BY DEF ChannelInv, SendersInv
<1>3. f \in FrameSet
  BY <1>2, FrameType, ChannelAssumption
<1> HIDE DEF f
<1>4. Whole(encode_frame(f))
  BY <1>1, <1>3 DEF Whole
<1>5. lock # s
  <2> SUFFICES ASSUME lock = s PROVE FALSE
    OBVIOUS
  <2>1. CASE Whole(unsent[s])
    BY <1>1, <2>1, WholeEncoding DEF Whole
  <2>2. CASE ~Whole(unsent[s])
    <3>1. Len(begun) > 0 /\ LeftOf(unsent[s], begun[Len(begun)])
      BY <2>2 DEF ChannelInv, SendersInv
    <3>2. begun[Len(begun)] \in FrameSet
      BY <3>1 DEF ChannelInv, ReceiverInv
    <3> QED
      BY <1>1, <3>1, <3>2, LeftEncoding DEF LeftOf
  <2> QED
    BY <2>1, <2>2
<1>6. \A t \in Senders : unsent'[t] = IF t = s THEN encode_frame(f) ELSE unsent[t]
  BY <1>1, <1>2
<1>7. SendersInv'
  <2>1. attempts' \in [Senders -> Nat]
    BY <1>1, <1>2
  <2>2. DOMAIN unsent' = Senders
    BY <1>1, <1>2
  <2>3. \A t \in Senders : lock' # t => unsent'[t] = <<>> \/ Whole(unsent'[t])
    BY <1>1, <1>4, <1>6 DEF ChannelInv, SendersInv
  <2>4. \A t \in Senders : lock' = t => \/ Whole(unsent'[t])
                                        \/ Len(begun) > 0 /\ LeftOf(unsent'[t], begun[Len(begun)])
    <3> SUFFICES ASSUME NEW t \in Senders, lock' = t
                 PROVE  \/ Whole(unsent'[t])
                        \/ Len(begun) > 0 /\ LeftOf(unsent'[t], begun[Len(begun)])
      OBVIOUS
    <3>1. lock = t /\ unsent'[t] = unsent[t]
      BY <1>1, <1>5, <1>6
    <3>2. Whole(unsent[t]) \/ (Len(begun) > 0 /\ LeftOf(unsent[t], begun[Len(begun)]))
      BY <3>1 DEF ChannelInv, SendersInv
    <3> QED
      BY <3>1, <3>2, Zenon
  <2>5. lock' \in Senders \cup {None} /\ closed' \in BOOLEAN /\ (closed' => lock' = None)
    BY <1>1 DEF ChannelInv, SendersInv
  <2> QED
    BY <1>1, <2>1, <2>2, <2>3, <2>4, <2>5 DEF SendersInv
<1>8. Rest' = Rest
  <2>1. lock # None => unsent'[lock] = unsent[lock]
    BY <1>5, <1>6 DEF ChannelInv, SendersInv
  <2> QED
    BY <1>1, <2>1 DEF Rest, Untouched
<1>9. StreamInv' /\ ReceiverInv'
  BY <1>1, <1>8 DEF ChannelInv, StreamInv, ReceiverInv
<1> QED
  BY <1>7, <1>9 DEF ChannelInv

LEMMA AcquireKeeps ==
    ASSUME ChannelInv, NEW s \in Senders, Acquire(s)
    PROVE  ChannelInv'
<1>1. /\ unsent[s] # <<>> /\ lock = None /\ ~closed /\ lock' = s
      /\ UNCHANGED <<unsent, attempts, begun, torn, closed, pipe, inbound, delivered, receiver>>
  BY DEF Acquire, receiving
<1>2. lock # s
  BY <1>1, SendersAssumption
<1>3. Whole(unsent[s])
  BY <1>1, <1>2 DEF ChannelInv, SendersInv
<1>4. SendersInv'
  <2>1. DOMAIN unsent' = Senders /\ attempts' \in [Senders -> Nat] /\ lock' \in Senders
        /\ closed' \in BOOLEAN /\ ~closed'
    BY <1>1 DEF ChannelInv, SendersInv
  <2>2. \A t \in Senders : lock' # t => unsent'[t] = <<>> \/ Whole(unsent'[t])
    <3>1. ASSUME NEW t \in Senders PROVE unsent[t] = <<>> \/ Whole(unsent[t])
      <4>1. lock # t
        BY <1>1, SendersAssumption
      <4> QED
        BY <4>1 DEF ChannelInv, SendersInv
    <3> QED
      BY <1>1, <3>1
  <2>3. \A t \in Senders : lock' = t => Whole(unsent'[t])
    BY <1>1, <1>3
  <2> QED
    BY <2>1, <2>2, <2>3 DEF SendersInv
<1>5. Rest = 0
  BY <1>1 DEF Rest
<1>6. Rest' = 0
  <2>1. unsent[s][1] = <<"magic">>
    BY <1>3, WholeEncoding DEF Whole
  <2> QED
    BY <1>1, <2>1 DEF Rest, Untouched
<1>7. StreamInv' /\ ReceiverInv'
  BY <1>1, <1>5, <1>6 DEF ChannelInv, StreamInv, ReceiverInv
<1> QED
  BY <1>4, <1>7 DEF ChannelInv

LEMMA SendRefusedKeeps ==
    ASSUME ChannelInv, NEW s \in Senders, SendRefused(s)
    PROVE  ChannelInv'
<1>1. /\ lock = None /\ unsent' = [unsent EXCEPT ![s] = <<>>]
      /\ UNCHANGED <<lock, attempts, begun, torn, closed, pipe, inbound, delivered, receiver>>
  BY DEF SendRefused, receiving
<1>2. DOMAIN unsent = Senders
  BY DEF ChannelInv, SendersInv
<1>3. \A t \in Senders : unsent'[t] = IF t = s THEN <<>> ELSE unsent[t]
  BY <1>1, <1>2
<1>4. SendersInv'
  <2>1. DOMAIN unsent' = Senders
    BY <1>1, <1>2
  <2>2. /\ lock' \in Senders \cup {None} /\ closed' \in BOOLEAN /\ (closed' => lock' = None)
        /\ attempts' \in [Senders -> Nat]
    BY <1>1 DEF ChannelInv, SendersInv
  <2>3. \A t \in Senders : lock # t
    BY <1>1, SendersAssumption
  <2>4. \A t \in Senders : unsent'[t] = <<>> \/ Whole(unsent'[t])
    BY <1>3, <2>3 DEF ChannelInv, SendersInv
  <2> QED
    BY <1>1, <2>1, <2>2, <2>3, <2>4 DEF SendersInv
<1>5. Rest = 0 /\ Rest' = 0
  BY <1>1 DEF Rest
<1>6. StreamInv' /\ ReceiverInv'
  BY <1>1, <1>5 DEF ChannelInv, StreamInv, ReceiverInv
<1> QED
  BY <1>4, <1>6 DEF ChannelInv

LEMMA CloseKeeps ==
    ASSUME ChannelInv, Close
    PROVE  ChannelInv'
<1>1. /\ lock = None /\ closed' = TRUE
      /\ UNCHANGED <<lock, unsent, attempts, begun, torn, inbound, delivered, receiver>>
  BY DEF Close, receiving
<1>2. PICK n \in 0..Len(pipe) : pipe' = SubSeq(pipe, 1, n)
  BY DEF Close
<1>3. inbound \in Seq(Words) /\ pipe \in Seq(Words)
  BY DEF ChannelInv, ReceiverInv
<1>4. n \in Nat /\ n <= Len(pipe)
  BY <1>3
<1>5. pipe' \in Seq(Words)
  BY <1>2, <1>3, <1>4, Parts
<1>6. SendersInv'
  BY <1>1 DEF ChannelInv, SendersInv
<1>7. Rest = 0 /\ Rest' = 0
  BY <1>1 DEF Rest
<1>8. PICK start, e :
        Laid(start, e, begun, inbound \o pipe, Len(delivered) + 1, torn, closed, Rest)
  BY DEF ChannelInv, StreamInv
<1>9. Laid(start, e, begun, inbound \o SubSeq(pipe, 1, n), Len(delivered) + 1, torn, TRUE, Rest)
  <2> DEFINE s == inbound \o pipe
             t == inbound \o SubSeq(pipe, 1, n)
  <2>1. t \in Seq(Words) /\ Len(t) <= Len(s) /\ \A j \in 1..Len(t) : t[j] = s[j]
    BY <1>3, <1>4, StreamEnds
  <2> HIDE DEF s, t
  <2>2. Laid(start, e, begun, t, Len(delivered) + 1, torn, TRUE, Rest)
    BY <1>8, <2>1, LaidCloses DEF s
  <2> QED
    BY <2>2 DEF t
<1>10. StreamInv'
  BY <1>1, <1>2, <1>7, <1>9 DEF StreamInv
<1>11. ReceiverInv'
  BY <1>1, <1>5 DEF ChannelInv, ReceiverInv
<1> QED
  BY <1>6, <1>10, <1>11 DEF ChannelInv

LEMMA ReceiveSomeKeeps ==
    ASSUME ChannelInv, ReceiveSome
    PROVE  ChannelInv'
<1>1. UNCHANGED <<lock, unsent, attempts, begun, torn, closed, delivered, receiver>>
  BY DEF ReceiveSome, sending
<1>2. PICK n \in 1..Chunk : /\ n <= Len(pipe) /\ inbound' = inbound \o SubSeq(pipe, 1, n)
                            /\ pipe' = SubSeq(pipe, n + 1, Len(pipe))
  BY DEF ReceiveSome
<1>3. inbound \in Seq(Words) /\ pipe \in Seq(Words)
  BY DEF ChannelInv, ReceiverInv
<1>4. n \in Nat
  BY ChannelAssumption
<1>5. SubSeq(pipe, 1, n) \in Seq(Words) /\ pipe' \in Seq(Words)
  BY <1>2, <1>3, <1>4, Parts
<1>6. inbound' \in Seq(Words)
  BY <1>2, <1>3, <1>5
<1>7. inbound' \o pipe' = inbound \o pipe
  BY <1>2, <1>3, <1>4, StreamMoves
<1>8. SendersInv'
  BY <1>1 DEF ChannelInv, SendersInv
<1>9. Rest' = Rest
  BY <1>1 DEF Rest, Untouched
<1>10. StreamInv'
  BY <1>1, <1>7, <1>9 DEF ChannelInv, StreamInv
<1>11. ReceiverInv'
  BY <1>1, <1>5, <1>6 DEF ChannelInv, ReceiverInv
<1> QED
  BY <1>8, <1>10, <1>11 DEF ChannelInv

\* What is in the buffer is the beginning of the stream.
LEMMA BufferIsAhead ==
    ASSUME NEW a \in Seq(Words), NEW p \in Seq(Words)
    PROVE  /\ Len(a) \in Nat /\ Len(a) <= Len(a \o p)
           /\ \A j \in 1..Len(a) : a[j] = (a \o p)[j]
<1>1. /\ Len(a) \in Nat /\ Len(p) \in Nat /\ Len(a \o p) = Len(a) + Len(p)
      /\ \A j \in 1..Len(a) : (a \o p)[j] = a[j]
  BY Joined
<1>2. Len(a) <= Len(a \o p)
  BY <1>1
<1> QED
  BY <1>1, <1>2

\* Up to a cut, decode_frame waits for the next frame or accepts it.
LEMMA BufferDecodes ==
    ASSUME NEW start, NEW e, NEW frames, NEW c, NEW cut, NEW shut, NEW rest,
           NEW a \in Seq(Words), NEW p \in Seq(Words),
           Laid(start, e, frames, a \o p, c, cut, shut, rest), cut = 0 \/ c < cut, Len(a) > 0
    PROVE  /\ c <= Len(frames) /\ frames[c] \in FrameSet
           /\ Size(frames[c]) \in Nat /\ Size(frames[c]) <= max_frame_bytes
           /\ \/ decode_frame(a) = "need_more_data" /\ Len(a) < Size(frames[c])
              \/ /\ decode_frame(a) = "complete" /\ Size(frames[c]) <= Len(a)
                 /\ Consumed(a) = Size(frames[c]) /\ FrameIn(a) = frames[c]
<1> DEFINE s == a \o p
           f == frames[c]
<1>1. Len(a) \in Nat /\ Len(a) <= Len(s) /\ \A j \in 1..Len(a) : a[j] = s[j]
  BY BufferIsAhead
<1>2. Len(s) > 0
  <2>1. Len(s) \in Nat
    BY DEF Laid
  <2> QED
    BY <1>1, <2>1
<1> HIDE DEF s
<1>3. c <= Len(frames) /\ f \in FrameSet /\ Encodable(f) /\ Begins(s, f)
  BY <1>2, NextFrame DEF s
<1>4. Size(f) \in Nat /\ Size(f) <= max_frame_bytes
  BY <1>3, EncodedWords DEF Encodable, header_words
<1> HIDE DEF f
<1>5. Begins(a, f)
  <2> SUFFICES ASSUME NEW j \in 1..Size(f), j <= Len(a) PROVE a[j] = encode_frame(f)[j]
    BY DEF Begins
  <2>1. j \in 1..Len(a)
    BY <1>1, <1>4
  <2>2. j <= Len(s)
    <3>1. Len(s) \in Nat
      BY DEF Laid, s
    <3> QED
      BY <1>1, <1>4, <3>1
  <2>3. s[j] = encode_frame(f)[j]
    BY <1>3, <2>2 DEF Begins
  <2> QED
    BY <1>1, <2>1, <2>3
<1>6. /\ Len(a) < Size(f) => decode_frame(a) = "need_more_data"
      /\ Len(a) >= Size(f) => /\ decode_frame(a) = "complete"
                              /\ Consumed(a) = Size(f) /\ FrameIn(a) = f
  BY <1>3, <1>5, DecodesFrame
<1>7. Len(a) < Size(f) \/ (Len(a) >= Size(f) /\ Size(f) <= Len(a))
  BY <1>1, <1>4
<1> QED
  BY <1>3, <1>4, <1>6, <1>7, Zenon DEF f

LEMMA ReceiveFrameKeeps ==
    ASSUME ChannelInv, ReceiveFrame
    PROVE  ChannelInv'
<1>1. /\ receiver = "open" /\ decode_frame(inbound) = "complete"
      /\ delivered' = Append(delivered, FrameIn(inbound))
      /\ inbound' = SubSeq(inbound, Consumed(inbound) + 1, Len(inbound))
      /\ UNCHANGED <<lock, unsent, attempts, begun, torn, closed, pipe, receiver>>
  BY DEF ReceiveFrame, sending
<1>2. PICK start, e :
        Laid(start, e, begun, inbound \o pipe, Len(delivered) + 1, torn, closed, Rest)
  BY DEF ChannelInv, StreamInv
<1>3. /\ inbound \in Seq(Words) /\ pipe \in Seq(Words)
      /\ begun \in Seq(FrameSet) /\ delivered \in Seq(FrameSet)
      /\ \A k \in 1..Len(delivered) : delivered[k] = begun[k]
  BY DEF ChannelInv, ReceiverInv
<1>4. PICK d \in Nat : d = Len(delivered)
  BY <1>3
<1>5. Len(inbound) > 0
  <2>1. Len(inbound) \in Nat /\ ~(Len(inbound) < 9)
    BY <1>1, <1>3 DEF decode_frame, header_words
  <2> QED
    BY <2>1
<1>6. torn = 0 \/ d + 1 < torn
  <2>1. torn \in Nat /\ (torn # 0 => d + 1 <= torn)
    BY <1>2, <1>4 DEF Laid, Fits
  <2>2. d + 1 # torn
    <3> SUFFICES ASSUME d + 1 = torn PROVE FALSE
      OBVIOUS
    <3>1. Laid(start, e, begun, inbound \o pipe, torn, torn, closed, Rest)
      BY <1>2, <1>4
    <3>2. /\ Len(inbound) <= Len(inbound \o pipe)
          /\ \A j \in 1..Len(inbound) : inbound[j] = (inbound \o pipe)[j]
      BY <1>3, BufferIsAhead
    <3> QED
      BY <1>1, <1>3, <3>1, <3>2, AtTheCut
  <2> QED
    BY <2>1, <2>2
<1> DEFINE f == begun[d + 1]
<1>7. /\ d + 1 <= Len(begun) /\ f \in FrameSet /\ Size(f) \in Nat
      /\ Size(f) <= Len(inbound) /\ Consumed(inbound) = Size(f) /\ FrameIn(inbound) = f
  <2>1. Laid(start, e, begun, inbound \o pipe, d + 1, torn, closed, Rest)
    BY <1>2, <1>4
  <2>2. decode_frame(inbound) # "need_more_data"
    BY <1>1
  <2> QED
    BY <1>1, <1>3, <1>5, <1>6, <2>1, <2>2, BufferDecodes
<1> HIDE DEF f
<1>8. inbound' = SubSeq(inbound, Size(f) + 1, Len(inbound)) /\ delivered' = Append(delivered, f)
  BY <1>1, <1>7
<1>9. inbound' \in Seq(Words)
  BY <1>3, <1>7, <1>8, Parts
<1>10. delivered' \in Seq(FrameSet) /\ Len(delivered') = d + 1
  BY <1>3, <1>4, <1>7, <1>8
<1>11. \A k \in 1..(d + 1) : delivered'[k] = begun[k]
  <2> SUFFICES ASSUME NEW k \in 1..(d + 1) PROVE delivered'[k] = begun[k]
    OBVIOUS
  <2>1. CASE k = d + 1
    BY <1>3, <1>4, <1>7, <1>8, <2>1 DEF f
  <2>2. CASE k # d + 1
    <3>1. k \in 1..d
      BY <2>2
    <3>2. delivered'[k] = delivered[k]
      BY <1>3, <1>4, <1>7, <1>8, <3>1
    <3> QED
      BY <1>3, <1>4, <3>1, <3>2
  <2> QED
    BY <2>1, <2>2
<1>12. Laid(start, e, begun, inbound' \o pipe, (d + 1) + 1, torn, closed, Rest)
  <2> DEFINE s == inbound \o pipe
             t == SubSeq(inbound, Size(f) + 1, Len(inbound)) \o pipe
  <2>1. t \in Seq(Words) /\ Len(s) = Size(f) + Len(t) /\ \A j \in 1..Len(t) : t[j] = s[Size(f) + j]
    <3>1. PICK z \in Nat : z = Size(f) /\ z <= Len(inbound)
      BY <1>7
    <3> DEFINE r == SubSeq(inbound, z + 1, Len(inbound)) \o pipe
    <3>2. r \in Seq(Words) /\ Len(s) = z + Len(r) /\ \A j \in 1..Len(r) : r[j] = s[z + j]
      <4>1. inbound \in Seq(Words) /\ pipe \in Seq(Words) /\ z <= Len(inbound)
        BY <1>3, <3>1
      <4> QED
        BY <4>1, StreamTaken
    <3> QED
      BY <3>1, <3>2
  <2> HIDE DEF s, t
  <2>2. Size(f) <= Len(s)
    <3>1. Len(t) \in Nat
      BY <2>1
    <3> QED
      BY <1>7, <2>1, <3>1
  <2>3. Laid(start, e, begun, s, d + 1, torn, closed, Rest)
    BY <1>2, <1>4 DEF s
  <2>4. Laid(start, e, begun, t, (d + 1) + 1, torn, closed, Rest)
    BY <1>6, <1>7, <2>1, <2>2, <2>3, LaidDelivers DEF f
  <2> QED
    BY <1>8, <2>4 DEF t
<1>13. SendersInv'
  BY <1>1 DEF ChannelInv, SendersInv
<1>14. Rest' = Rest
  BY <1>1 DEF Rest, Untouched
<1>15. StreamInv'
  BY <1>1, <1>10, <1>12, <1>14 DEF StreamInv
<1>16. ReceiverInv'
  BY <1>1, <1>3, <1>9, <1>10, <1>11 DEF ReceiverInv
<1> QED
  BY <1>13, <1>15, <1>16 DEF ChannelInv

LEMMA ReceiveFailsKeeps ==
    ASSUME ChannelInv, ReceiveFails
    PROVE  ChannelInv'
<1>1. /\ \/ decode_frame(inbound) = "failed"
         \/ decode_frame(inbound) = "need_more_data" /\ Len(inbound) > max_frame_bytes
      /\ UNCHANGED <<lock, unsent, attempts, begun, torn, closed, pipe, inbound, delivered>>
  BY DEF ReceiveFails, sending
<1>2. PICK start, e :
        Laid(start, e, begun, inbound \o pipe, Len(delivered) + 1, torn, closed, Rest)
  BY DEF ChannelInv, StreamInv
<1>3. inbound \in Seq(Words) /\ pipe \in Seq(Words) /\ Len(inbound) \in Nat
  BY DEF ChannelInv, ReceiverInv
<1>4. torn # 0
  <2> SUFFICES ASSUME torn = 0 PROVE FALSE
    OBVIOUS
  <2>1. CASE Len(inbound) > 0
    <3>1. PICK z \in Nat : /\ z <= max_frame_bytes
                           /\ \/ decode_frame(inbound) = "need_more_data" /\ Len(inbound) < z
                              \/ decode_frame(inbound) = "complete"
      BY <1>2, <1>3, <2>1, BufferDecodes
    <3> QED
      BY <1>1, <1>3, <3>1, ChannelAssumption
  <2>2. CASE ~(Len(inbound) > 0)
    <3>1. Len(inbound) = 0
      BY <1>3, <2>2
    <3>2. decode_frame(inbound) = "need_more_data"
      BY <3>1 DEF decode_frame, header_words
    <3> QED
      BY <1>1, <3>1, <3>2, ChannelAssumption
  <2> QED
    BY <2>1, <2>2
<1>5. SendersInv'
  BY <1>1 DEF ChannelInv, SendersInv
<1>6. Rest' = Rest
  BY <1>1 DEF Rest, Untouched
<1>7. StreamInv'
  BY <1>1, <1>6 DEF ChannelInv, StreamInv
<1>8. ReceiverInv'
  BY <1>1, <1>4 DEF ChannelInv, ReceiverInv
<1> QED
  BY <1>5, <1>7, <1>8 DEF ChannelInv

LEMMA WriteFailsKeeps ==
    ASSUME ChannelInv, NEW s \in Senders, WriteFails(s)
    PROVE  ChannelInv'
<1>1. /\ lock = s /\ lock' = None /\ unsent' = [unsent EXCEPT ![s] = <<>>]
      /\ torn' = IF torn = 0 /\ ~Untouched(s) THEN Len(begun) ELSE torn
      /\ UNCHANGED <<attempts, begun, closed, pipe, inbound, delivered, receiver>>
  BY DEF WriteFails, receiving
<1>2. DOMAIN unsent = Senders /\ closed = FALSE /\ attempts \in [Senders -> Nat]
  BY <1>1, SendersAssumption DEF ChannelInv, SendersInv
<1>3. \A t \in Senders : unsent'[t] = IF t = s THEN <<>> ELSE unsent[t]
  BY <1>1, <1>2
<1>4. SendersInv'
  <2>1. DOMAIN unsent' = Senders /\ attempts' \in [Senders -> Nat] /\ closed' = FALSE
    BY <1>1, <1>2
  <2>2. \A t \in Senders : lock' # t
    BY <1>1, SendersAssumption
  <2>3. \A t \in Senders : unsent'[t] = <<>> \/ Whole(unsent'[t])
    BY <1>1, <1>3 DEF ChannelInv, SendersInv
  <2> QED
    BY <1>1, <2>1, <2>2, <2>3 DEF SendersInv
<1>5. Rest' = 0
  BY <1>1 DEF Rest
<1>6. PICK start, e :
        Laid(start, e, begun, inbound \o pipe, Len(delivered) + 1, torn, FALSE, Rest)
  BY <1>2 DEF ChannelInv, StreamInv
<1>7. /\ \E z : Laid(start, z, begun, inbound \o pipe, Len(delivered) + 1, torn', FALSE, 0)
      /\ receiver = "failed" => torn' # 0
  <2>1. CASE Whole(unsent[s])
    <3>1. Rest = 0 /\ Untouched(s)
      BY <1>1, <2>1, RestOfHolder
    <3>2. torn' = torn
      BY <1>1, <3>1
    <3>3. receiver = "failed" => torn' # 0
      BY <3>2 DEF ChannelInv, ReceiverInv
    <3> QED
      BY <1>6, <3>1, <3>2, <3>3
  <2>2. CASE ~Whole(unsent[s])
    <3>1. Len(begun) > 0 /\ LeftOf(unsent[s], begun[Len(begun)])
      BY <1>1, <2>2 DEF ChannelInv, SendersInv
    <3>2. PICK f \in FrameSet : f = begun[Len(begun)]
      BY <3>1 DEF ChannelInv, ReceiverInv
    <3>3. PICK m \in Nat : m > 0 /\ m < Size(f) /\ unsent[s] = SubSeq(encode_frame(f), m + 1, Size(f))
      BY <3>1, <3>2 DEF LeftOf
    <3>4. ~Untouched(s)
      BY <1>1, <2>2, RestOfHolder
    <3>5. Rest = Size(f) - m
      <4>1. Rest = Len(unsent[s])
        BY <1>1, <3>4, SendersAssumption DEF Rest
      <4> QED
        BY <3>3, <4>1, LeftEncoding
    <3>6. Rest > 0 /\ Rest < Size(f)
      <4>1. Size(f) \in Nat
        BY EncodingType
      <4> QED
        BY <3>3, <3>5, <4>1
    <3>7. torn' = IF torn = 0 THEN Len(begun) ELSE torn
      BY <1>1, <3>4
    <3>8. \E z : Laid(start, z, begun, inbound \o pipe, Len(delivered) + 1,
                      IF torn = 0 THEN Len(begun) ELSE torn, FALSE, 0)
      BY <1>6, <3>1, <3>2, <3>6, LaidStops
    <3>9. torn' # 0
      BY <3>1, <3>7
    <3> QED
      BY <3>7, <3>8, <3>9
  <2> QED
    BY <2>1, <2>2
<1>8. StreamInv'
  BY <1>1, <1>2, <1>5, <1>7 DEF StreamInv
<1>9. ReceiverInv'
  BY <1>1, <1>7 DEF ChannelInv, ReceiverInv
<1> QED
  BY <1>4, <1>8, <1>9 DEF ChannelInv

\* After a write, m words of the frame that went out last are out.
LEMMA AfterWrite ==
    ASSUME ChannelInv, NEW s \in Senders, lock = s,
           NEW f \in FrameSet, NEW m \in Nat, m > 0, m <= Size(f),
           NEW v, v = SubSeq(encode_frame(f), m + 1, Size(f)),
           unsent' = [unsent EXCEPT ![s] = v],
           lock' = IF unsent'[s] = <<>> THEN None ELSE s,
           Len(begun') > 0, begun'[Len(begun')] = f, UNCHANGED <<attempts, closed>>
    PROVE  SendersInv' /\ Rest' = Size(f) - m
<1>1. DOMAIN unsent = Senders /\ closed = FALSE /\ attempts \in [Senders -> Nat]
  BY SendersAssumption DEF ChannelInv, SendersInv
<1>2. \A t \in Senders : unsent'[t] = IF t = s THEN v ELSE unsent[t]
  BY <1>1
<1>3. PICK z \in Nat : z = Size(f) /\ Len(encode_frame(f)) = z
  BY EncodingType DEF Size
<1>4. unsent'[s] = v
  BY <1>2
<1>5. \A t \in Senders : t # s => unsent'[t] = <<>> \/ Whole(unsent'[t])
  BY <1>2 DEF ChannelInv, SendersInv
<1>6. DOMAIN unsent' = Senders /\ attempts' \in [Senders -> Nat] /\ closed' = FALSE
  BY <1>1
<1>7. CASE m = z
  <2>1. v = <<>>
    <3>1. encode_frame(f) \in Seq(Words)
      BY EncodingType
    <3> QED
      BY <1>3, <1>7, <3>1
  <2>2. lock' = None
    BY <1>4, <2>1
  <2>3. Rest' = 0
    BY <2>2 DEF Rest
  <2>4. SendersInv'
    <3>1. \A t \in Senders : lock' # t
      BY <2>2, SendersAssumption
    <3>2. \A t \in Senders : unsent'[t] = <<>> \/ Whole(unsent'[t])
      BY <1>4, <1>5, <2>1
    <3> QED
      BY <1>6, <2>2, <3>1, <3>2 DEF SendersInv
  <2> QED
    BY <1>3, <1>7, <2>3, <2>4
<1>8. CASE m < z
  <2>1. Len(v) = z - m /\ v # <<>> /\ v[1] # <<"magic">>
    <3>1. m < Size(f)
      BY <1>3, <1>8
    <3>2. Len(v) = Size(f) - m /\ v # <<>> /\ v[1] # <<"magic">>
      BY <3>1, LeftEncoding
    <3> QED
      BY <1>3, <3>2
  <2>2. lock' = s /\ lock' # None
    BY <1>4, <2>1, SendersAssumption
  <2>3. Rest' = z - m
    BY <1>4, <2>1, <2>2 DEF Rest, Untouched
  <2>4. LeftOf(v, f)
    BY <1>3, <1>8 DEF LeftOf
  <2>5. SendersInv'
    <3>1. \A t \in Senders : lock' # t => unsent'[t] = <<>> \/ Whole(unsent'[t])
      BY <1>5, <2>2
    <3>2. \A t \in Senders :
             lock' = t => Len(begun') > 0 /\ LeftOf(unsent'[t], begun'[Len(begun')])
      BY <1>4, <2>2, <2>4
    <3> QED
      BY <1>6, <2>2, <3>1, <3>2 DEF SendersInv
  <2> QED
    BY <1>3, <2>3, <2>5
<1> QED
  BY <1>3, <1>7, <1>8

LEMMA WriteKeeps ==
    ASSUME ChannelInv, NEW s \in Senders, Write(s)
    PROVE  ChannelInv'
<1>1. /\ lock = s
      /\ begun' = IF Untouched(s) THEN Append(begun, FrameIn(unsent[s])) ELSE begun
      /\ lock' = IF unsent'[s] = <<>> THEN None ELSE s
      /\ UNCHANGED <<attempts, torn, closed, inbound, delivered, receiver>>
  BY DEF Write, receiving
<1> DEFINE u == unsent[s]
<1>2. PICK n \in 1..Chunk : /\ n <= Len(u) /\ pipe' = pipe \o SubSeq(u, 1, n)
                            /\ unsent' = [unsent EXCEPT ![s] = SubSeq(u, n + 1, Len(u))]
  BY DEF Write
<1>3. n \in Nat \ {0}
  BY ChannelAssumption
<1>4. /\ inbound \in Seq(Words) /\ pipe \in Seq(Words)
      /\ begun \in Seq(FrameSet) /\ delivered \in Seq(FrameSet)
      /\ \A k \in 1..Len(delivered) : delivered[k] = begun[k]
      /\ receiver = "failed" => torn # 0
  BY DEF ChannelInv, ReceiverInv
<1>5. closed = FALSE
  BY <1>1, SendersAssumption DEF ChannelInv, SendersInv
<1>6. PICK start, e :
        Laid(start, e, begun, inbound \o pipe, Len(delivered) + 1, torn, FALSE, Rest)
  BY <1>5 DEF ChannelInv, StreamInv
<1>7. PICK b \in Nat : b = Len(begun) /\ Len(delivered) <= b
  <2>1. Len(begun) \in Nat /\ Len(delivered) \in Nat
    BY <1>4
  <2>2. Len(delivered) + 1 <= Len(begun) + 1
    BY <1>6 DEF Laid
  <2> QED
    BY <2>1, <2>2
<1> HIDE DEF u
<1> DEFINE r == inbound \o pipe
           t == inbound \o (pipe \o SubSeq(u, 1, n))
<1>8. ASSUME u \in Seq(Words)
      PROVE  /\ r \in Seq(Words) /\ t \in Seq(Words) /\ Len(t) = Len(r) + n
             /\ \A j \in 1..Len(r) : t[j] = r[j]
             /\ \A j \in 1..n : t[Len(r) + j] = u[j]
  <2>1. inbound \in Seq(Words) /\ pipe \in Seq(Words) /\ n \in Nat /\ n <= Len(u)
    BY <1>2, <1>3, <1>4
  <2> QED
    BY <1>8, <2>1, StreamGrows
<1>9. ASSUME u \in Seq(Words) PROVE pipe' \in Seq(Words)
  <2>1. SubSeq(u, 1, n) \in Seq(Words)
    BY <1>2, <1>3, <1>9, Parts
  <2> QED
    BY <1>2, <1>4, <2>1
<1> HIDE DEF r, t
<1>10. CASE Whole(unsent[s])
  <2>1. Rest = 0 /\ Untouched(s)
    BY <1>1, <1>10, RestOfHolder
  <2>2. PICK f \in FrameSet : Encodable(f) /\ u = encode_frame(f)
    BY <1>10 DEF Whole, u
  <2>3. u \in Seq(Words) /\ Len(u) = Size(f) /\ FrameIn(u) = f
    BY <2>2, WholeEncoding
  <2>4. begun' = Append(begun, f)
    BY <1>1, <2>1, <2>3 DEF u
  <2>5. /\ begun' \in Seq(FrameSet) /\ Len(begun') = b + 1 /\ begun'[b + 1] = f
        /\ \A k \in 1..b : begun'[k] = begun[k]
    BY <1>4, <1>7, <2>4
  <2>6. \A j \in 1..n : t[Len(r) + j] = encode_frame(f)[j]
    BY <1>8, <2>2, <2>3
  <2>7. \E next, z : Laid(next, z, begun', t, Len(delivered) + 1, torn, FALSE, Size(f) - n)
    <3>1. Laid(start, e, begun, r, Len(delivered) + 1, torn, FALSE, 0)
      BY <1>6, <2>1 DEF r
    <3>2. Len(begun') = Len(begun) + 1 /\ begun'[Len(begun) + 1] = f
          /\ \A k \in 1..Len(begun) : begun'[k] = begun[k]
      BY <1>7, <2>5
    <3>3. n <= Size(f)
      BY <1>2, <2>3
    <3>4. /\ t \in Seq(Words) /\ Len(t) = Len(r) + n
          /\ \A j \in 1..Len(r) : t[j] = r[j]
      BY <1>8, <2>3
    <3>5. PICK more : more = begun'
      OBVIOUS
    <3>6. /\ Len(more) = Len(begun) + 1 /\ more[Len(begun) + 1] = f
          /\ \A k \in 1..Len(begun) : more[k] = begun[k]
      BY <3>2, <3>5
    <3>7. Encodable(f)
      BY <2>2
    <3>8. \E next, z : Laid(next, z, more, t, Len(delivered) + 1, torn, FALSE, Size(f) - n)
      <4>1. PICK c : c = Len(delivered) + 1
        OBVIOUS
      <4>2. Laid(start, e, begun, r, c, torn, FALSE, 0)
        BY <3>1, <4>1
      <4>3. \E next, z : Laid(next, z, more, t, c, torn, FALSE, Size(f) - n)
        <5>1. n \in Nat \ {0} /\ n <= Size(f)
          BY <1>3, <3>3
        <5>2. FrameAdded(more, begun, f)
          BY <3>6 DEF FrameAdded
        <5>3. WordsAdded(t, r, n, f)
          BY <2>6, <3>4 DEF WordsAdded
        <5> QED
          BY <3>7, <4>2, <5>1, <5>2, <5>3, LaidBegins
      <4> QED
        BY <4>1, <4>3
    <3> QED
      BY <3>5, <3>8
  <2>8. SendersInv' /\ Rest' = Size(f) - n
    <3>1. Len(begun') > 0 /\ begun'[Len(begun')] = f
      BY <1>7, <2>5
    <3>2. SubSeq(u, n + 1, Len(u)) = SubSeq(encode_frame(f), n + 1, Size(f))
      BY <2>2, <2>3
    <3>3. unsent' = [unsent EXCEPT ![s] = SubSeq(encode_frame(f), n + 1, Size(f))]
      BY <1>2, <3>2
    <3>4. n \in Nat /\ n > 0 /\ n <= Size(f)
      BY <1>2, <1>3, <2>3
    <3> QED
      BY <1>1, <3>1, <3>3, <3>4, AfterWrite
  <2>9. StreamInv'
    <3>1. inbound' \o pipe' = t
      BY <1>1, <1>2 DEF t
    <3> QED
      BY <1>1, <1>5, <2>7, <2>8, <3>1 DEF StreamInv
  <2>10. ReceiverInv'
    <3>1. \A k \in 1..Len(delivered) : delivered[k] = begun'[k]
      <4>1. \A k \in 1..Len(delivered) : k \in 1..b
        <5>1. Len(delivered) \in Nat
          BY <1>4
        <5> QED
          BY <1>7, <5>1
      <4> QED
        BY <1>4, <2>5, <4>1
    <3>2. pipe' \in Seq(Words)
      BY <1>9, <2>3
    <3> QED
      BY <1>1, <1>4, <2>5, <3>1, <3>2 DEF ReceiverInv
  <2> QED
    BY <2>8, <2>9, <2>10 DEF ChannelInv
<1>11. CASE ~Whole(unsent[s])
  <2>1. Len(begun) > 0 /\ LeftOf(u, begun[Len(begun)])
    BY <1>1, <1>11 DEF ChannelInv, SendersInv, u
  <2>2. PICK f \in FrameSet : f = begun[Len(begun)]
    BY <1>4, <2>1
  <2>3. PICK m \in Nat : m > 0 /\ m < Size(f) /\ u = SubSeq(encode_frame(f), m + 1, Size(f))
    BY <2>1, <2>2 DEF LeftOf
  <2>4. ~Untouched(s)
    BY <1>1, <1>11, RestOfHolder
  <2>5. PICK z \in Nat : z = Size(f)
    BY EncodingType
  <2>6. /\ u \in Seq(Words) /\ Len(u) = z - m
        /\ \A j \in 1..(z - m) : u[j] = encode_frame(f)[m + j]
    BY <2>3, <2>5, LeftEncoding
  <2>7. Rest = z - m
    BY <1>1, <2>4, <2>6, SendersAssumption DEF Rest, u
  <2>8. begun' = begun
    BY <1>1, <2>4
  <2>9. n <= z - m /\ m < z
    BY <1>2, <2>3, <2>5, <2>6
  <2>10. z - m < z /\ z - (z - m) = m /\ (z - m) - n = z - (m + n)
    BY <1>3, <2>3, <2>9
  <2>11. Laid(start, e, begun, t, Len(delivered) + 1, torn, FALSE, z - (m + n))
    <3>1. Laid(start, e, begun, r, Len(delivered) + 1, torn, FALSE, z - m)
      BY <1>6, <2>7 DEF r
    <3>2. /\ t \in Seq(Words) /\ Len(t) = Len(r) + n
          /\ \A j \in 1..Len(r) : t[j] = r[j]
          /\ \A j \in 1..n : t[Len(r) + j] = u[j]
      BY <1>8, <2>6
    <3>3. \A j \in 1..n : t[Len(r) + j] = encode_frame(f)[Size(f) - (z - m) + j]
      <4> SUFFICES ASSUME NEW j \in 1..n
                   PROVE  t[Len(r) + j] = encode_frame(f)[Size(f) - (z - m) + j]
        OBVIOUS
      <4>1. j \in 1..(z - m)
        BY <1>3, <2>9
      <4>2. t[Len(r) + j] = encode_frame(f)[m + j]
        BY <2>6, <3>2, <4>1
      <4> QED
        BY <2>5, <2>10, <4>2
    <3>4. z - m < Size(f)
      BY <2>5, <2>10
    <3>5. Laid(start, e, begun, t, Len(delivered) + 1, torn, FALSE, (z - m) - n)
      BY <1>3, <2>1, <2>2, <2>9, <3>1, <3>2, <3>3, <3>4, LaidGoesOn
    <3> QED
      BY <2>10, <3>5
  <2>12. SendersInv' /\ Rest' = z - (m + n)
    <3>1. m + n \in Nat /\ m + n > 0 /\ m + n <= z
      BY <1>3, <2>9
    <3>2. SubSeq(u, n + 1, Len(u)) = SubSeq(encode_frame(f), (m + n) + 1, Size(f))
      <4>1. n \in Nat /\ m + n <= Size(f) /\ u = SubSeq(encode_frame(f), m + 1, Size(f))
        BY <1>3, <2>3, <2>5, <3>1
      <4> QED
        BY <4>1, LeftOfLeft
    <3>3. unsent' = [unsent EXCEPT ![s] = SubSeq(encode_frame(f), (m + n) + 1, Size(f))]
      BY <1>2, <3>2
    <3>4. Len(begun') > 0 /\ begun'[Len(begun')] = f
      BY <2>1, <2>2, <2>8
    <3>5. PICK l \in Nat : l = m + n
      BY <3>1
    <3>6. SendersInv' /\ Rest' = Size(f) - l
      <4>1. l > 0 /\ l <= Size(f)
        BY <2>5, <3>1, <3>5
      <4>2. unsent' = [unsent EXCEPT ![s] = SubSeq(encode_frame(f), l + 1, Size(f))]
        BY <3>3, <3>5
      <4> QED
        BY <1>1, <3>4, <4>1, <4>2, AfterWrite
    <3> QED
      BY <2>5, <3>5, <3>6
  <2>13. StreamInv'
    <3>1. inbound' \o pipe' = t
      BY <1>1, <1>2 DEF t
    <3> QED
      BY <1>1, <1>5, <2>8, <2>11, <2>12, <3>1 DEF StreamInv
  <2>14. ReceiverInv'
    <3>1. pipe' \in Seq(Words)
      BY <1>9, <2>6
    <3> QED
      BY <1>1, <1>4, <2>8, <3>1 DEF ReceiverInv
  <2> QED
    BY <2>12, <2>13, <2>14 DEF ChannelInv
<1> QED
  BY <1>10, <1>11

-----------------------------------------------------------------------------

LEMMA ChannelStep == ChannelInv /\ [Next]_vars => ChannelInv'
<1> SUFFICES ASSUME ChannelInv, [Next]_vars PROVE ChannelInv'
  OBVIOUS
<1>1. CASE \E s \in Senders : \E k \in Sizes : Send(s, k)
  BY <1>1, SendKeeps
<1>2. CASE \E s \in Senders : Acquire(s) \/ SendRefused(s) \/ Write(s) \/ WriteFails(s)
  BY <1>2, AcquireKeeps, SendRefusedKeeps, WriteKeeps, WriteFailsKeeps
<1>3. CASE Close \/ ReceiveFrame \/ ReceiveSome \/ ReceiveFails
  BY <1>3, CloseKeeps, ReceiveFrameKeeps, ReceiveSomeKeeps, ReceiveFailsKeeps
<1>4. CASE UNCHANGED vars
  <2>1. UNCHANGED <<lock, unsent, attempts, begun, torn, closed, pipe, inbound, delivered, receiver>>
    BY <1>4 DEF vars, sending, receiving
  <2>2. SendersInv'
    BY <2>1 DEF ChannelInv, SendersInv
  <2>3. Rest' = Rest
    BY <2>1 DEF Rest, Untouched
  <2>4. StreamInv'
    BY <2>1, <2>3 DEF ChannelInv, StreamInv
  <2>5. ReceiverInv'
    BY <2>1 DEF ChannelInv, ReceiverInv
  <2> QED
    BY <2>2, <2>4, <2>5 DEF ChannelInv
<1> QED
  BY <1>1, <1>2, <1>3, <1>4 DEF Next

\* The stream, the threads and the receiver stay together through every step: whatever is on its
\* way is what went out, in order, and, up to the first cut, complete or being completed
\* (FrameChannel::send, receive, close).
THEOREM StreamIsFaithful == Spec => []ChannelInv
<1>1. Init => ChannelInv
  BY ChannelInit
<1>2. ChannelInv /\ [Next]_vars => ChannelInv'
  BY ChannelStep
<1> QED
  BY <1>1, <1>2, PTL DEF Spec

LEMMA FaithfulIsIntact == ChannelInv => DeliveredIntact /\ NoFalseRefusal
<1> SUFFICES ASSUME ChannelInv PROVE DeliveredIntact /\ NoFalseRefusal
  OBVIOUS
<1>1. PICK start, e :
        Laid(start, e, begun, inbound \o pipe, Len(delivered) + 1, torn, closed, Rest)
  BY DEF ChannelInv, StreamInv
<1>2. /\ begun \in Seq(FrameSet) /\ delivered \in Seq(FrameSet)
      /\ \A k \in 1..Len(delivered) : delivered[k] = begun[k]
  BY DEF ChannelInv, ReceiverInv
<1>3. Len(delivered) \in Nat /\ Len(begun) \in Nat
  BY <1>2
<1>4. Len(delivered) <= Len(begun)
  <2>1. Len(delivered) + 1 <= Len(begun) + 1
    BY <1>1 DEF Laid
  <2> QED
    BY <1>3, <2>1
<1>5. IsPrefix(delivered, begun)
  <2>1. delivered = SubSeq(begun, 1, Len(delivered))
    <3>1. PICK d \in Nat : d = Len(delivered) /\ d <= Len(begun)
      BY <1>3, <1>4
    <3>2. /\ SubSeq(begun, 1, d) \in Seq(FrameSet) /\ Len(SubSeq(begun, 1, d)) = d
          /\ \A j \in 1..d : SubSeq(begun, 1, d)[j] = begun[j]
      BY <1>2, <3>1, Parts
    <3> QED
      BY <1>2, <3>1, <3>2, SeqEqual
  <2> QED
    BY <1>2, <1>4, <2>1 DEF IsPrefix
<1>6. torn # 0 => Len(delivered) < torn
  <2> SUFFICES ASSUME torn # 0 PROVE Len(delivered) < torn
    OBVIOUS
  <2>1. torn \in Nat /\ Len(delivered) + 1 <= torn
    BY <1>1 DEF Laid, Fits
  <2> QED
    BY <1>3, <2>1
<1>7. NoFalseRefusal
  BY DEF ChannelInv, ReceiverInv, NoFalseRefusal
<1> QED
  BY <1>5, <1>6, <1>7 DEF DeliveredIntact

\* However many threads send however many frames of whatever sizes, in whatever pieces, receive
\* returns them unchanged, once, in order and only up to the first that was cut
\* (FrameChannel::receive, decode_frame).
THEOREM FramesArriveIntact == Spec => []DeliveredIntact
BY StreamIsFaithful, FaithfulIsIntact, PTL

\* receive reports an error only behind a frame that was cut short, whatever the limits are
\* (FrameChannel::receive, decode_frame).
THEOREM RefusalsAreJustified == Spec => []NoFalseRefusal
BY StreamIsFaithful, FaithfulIsIntact, PTL
-----------------------------------------------------------------------------
(* The other container: the state file.                                    *)

Container == INSTANCE StateFile

\* Eight words, their checksum and a payload.
PartsOf(file, T, h, c, p) ==
    /\ h \in Seq(T) /\ Len(h) = 8 /\ c \in T /\ p \in Seq(T)
    /\ file = h \o <<c>> \o p

LEMMA FileParts ==
    ASSUME NEW T, NEW h, NEW c, NEW p, NEW file, PartsOf(file, T, h, c, p)
    PROVE  /\ file \in Seq(T) /\ Len(p) \in Nat /\ Len(file) = 9 + Len(p)
           /\ \A n \in 1..8 : file[n] = h[n]
           /\ file[9] = c
           /\ \A n \in 1..Len(p) : file[9 + n] = p[n]
<1>0. h \in Seq(T) /\ Len(h) = 8 /\ c \in T /\ p \in Seq(T) /\ file = h \o <<c>> \o p
  BY DEF PartsOf
<1> DEFINE front == h \o <<c>>
<1>1. /\ front \in Seq(T) /\ Len(front) = 9 /\ front[9] = c
      /\ \A n \in 1..8 : front[n] = h[n]
  <2> DEFINE t == <<c>>
  <2>1. t \in Seq(T) /\ Len(t) = 1 /\ t[1] = c
    BY <1>0
  <2> HIDE DEF t
  <2>2. h \o t \in Seq(T)
    BY <1>0, <2>1
  <2>3. /\ Len(h \o t) = Len(h) + Len(t)
        /\ \A n \in 1..Len(h) + Len(t) :
              (h \o t)[n] = IF n <= Len(h) THEN h[n] ELSE t[n - Len(h)]
    BY <1>0, <2>1, ConcatProperties, Zenon
  <2>4. /\ 9 \in 1..Len(h) + Len(t) /\ ~(9 <= Len(h)) /\ 9 - Len(h) = 1
        /\ \A n \in 1..8 : n \in 1..Len(h) + Len(t) /\ n <= Len(h)
    BY <1>0, <2>1
  <2>5. (h \o t)[9] = c
    BY <2>1, <2>3, <2>4
  <2>6. \A n \in 1..8 : (h \o t)[n] = h[n]
    BY <2>3, <2>4
  <2>7. front = h \o t
    BY DEF t
  <2> QED
    BY <1>0, <2>1, <2>2, <2>3, <2>5, <2>6, <2>7
<1> HIDE DEF front
<1>2. /\ front \o p \in Seq(T) /\ Len(p) \in Nat /\ Len(front \o p) = 9 + Len(p)
      /\ \A n \in 1..9 : (front \o p)[n] = front[n]
      /\ \A n \in 1..Len(p) : (front \o p)[9 + n] = p[n]
  <2>1. front \o p \in Seq(T)
    BY <1>0, <1>1
  <2>2. PICK m \in Nat : m = Len(p)
    BY <1>0
  <2>3. /\ Len(front \o p) = 9 + m
        /\ \A n \in 1..9 + m : (front \o p)[n] = IF n <= 9 THEN front[n] ELSE p[n - 9]
    <3>1. /\ Len(front \o p) = Len(front) + Len(p)
          /\ \A n \in 1..Len(front) + Len(p) :
                (front \o p)[n] = IF n <= Len(front) THEN front[n] ELSE p[n - Len(front)]
      BY <1>0, <1>1, ConcatProperties, Zenon
    <3> QED
      BY <1>1, <2>2, <3>1, Zenon
  <2>4. \A n \in 1..m : 9 + n \in 1..(9 + m) /\ ~(9 + n <= 9) /\ (9 + n) - 9 = n
    BY <2>2
  <2>5. \A n \in 1..9 : n \in 1..(9 + m) /\ n <= 9
    BY <2>2
  <2>6. \A n \in 1..m : (front \o p)[9 + n] = p[n]
    BY <2>3, <2>4
  <2>7. \A n \in 1..9 : (front \o p)[n] = front[n]
    BY <2>3, <2>5
  <2> QED
    BY <2>1, <2>2, <2>3, <2>6, <2>7
<1>3. file = front \o p
  BY <1>0 DEF front
<1> QED
  BY <1>1, <1>2, <1>3

\* No two contents share a checksum, and none shares a digest.
LEMMA ChecksumsTell ==
    ASSUME NEW x, NEW y
    PROVE  Container!Crc(x) = Container!Crc(y) => x = y
BY DEF Container!Crc

\* The words that say what the payload is.
Describes(w, payload, count) ==
    /\ w[1] = Container!persistence_magic
    /\ w[2] = Container!persistence_format_version
    /\ w[4] = <<"number", Len(payload)>> /\ w[5] = Container!Crc(payload)
    /\ w[6] = <<"number", count>> /\ w[7] = Container!Digest(payload)

\* The words of a header.
IsHeader(h, T, payload, count) ==
    /\ h = Container!Header(payload, count)
    /\ h \in Seq(T) /\ Len(h) = 8 /\ Describes(h, payload, count)

LEMMA StateHeader ==
    ASSUME NEW payload, NEW count
    PROVE  \E words, header : IsHeader(header, words, payload, count)
<1> DEFINE a == Container!persistence_magic
           b == Container!persistence_format_version
           c == <<"flags", 0>>
           d == <<"number", Len(payload)>>
           e == Container!Crc(payload)
           f == <<"number", count>>
           g == Container!Digest(payload)
           i == <<"reserved", 0>>
           T == {a, b, c, d, e, f, g, i}
<1>1. Container!Header(payload, count) = <<a, b, c, d, e, f, g, i>>
  BY Zenon DEF Container!Header, Container!Words32
<1>2. a \in T /\ b \in T /\ c \in T /\ d \in T /\ e \in T /\ f \in T /\ g \in T /\ i \in T
  OBVIOUS
<1> HIDE DEF a, b, c, d, e, f, g, i, T
<1>3. <<a, b, c, d, e, f, g, i>> \in Seq(T) /\ Len(<<a, b, c, d, e, f, g, i>>) = 8
  BY <1>2
<1>4. /\ <<a, b, c, d, e, f, g, i>>[1] = a /\ <<a, b, c, d, e, f, g, i>>[2] = b
      /\ <<a, b, c, d, e, f, g, i>>[4] = d /\ <<a, b, c, d, e, f, g, i>>[5] = e
      /\ <<a, b, c, d, e, f, g, i>>[6] = f /\ <<a, b, c, d, e, f, g, i>>[7] = g
  OBVIOUS
<1> DEFINE h == Container!Header(payload, count)
<1>5. h[1] = a /\ h[2] = b /\ h[4] = d /\ h[5] = e /\ h[6] = f /\ h[7] = g
  BY <1>1, <1>4
<1>6. h \in Seq(T) /\ Len(h) = 8
  BY <1>1, <1>3
<1>7. /\ h = Container!Header(payload, count) /\ a = Container!persistence_magic
      /\ b = Container!persistence_format_version /\ d = <<"number", Len(payload)>>
      /\ e = Container!Crc(payload) /\ f = <<"number", count>> /\ g = Container!Digest(payload)
  BY Zenon DEF a, b, d, e, f, g, h
<1> HIDE DEF h
<1>8. IsHeader(h, T, payload, count)
  BY <1>5, <1>6, <1>7 DEF IsHeader, Describes
<1> QED
  BY <1>8

\* What read_state_file asks of a file, for the argument.
LEMMA LoadedNeeds ==
    ASSUME NEW file, NEW bytes, NEW records, Container!read_state_file(file, bytes, records).ok
    PROVE  /\ Len(file) >= 9
           /\ file[9] = Container!Crc(SubSeq(file, 1, 8))
           /\ Len(file) = 9 + file[4][2]
           /\ Container!Crc(SubSeq(file, 10, Len(file))) = file[5]
BY DEF Container!read_state_file, Container!header_words

\* The words of a state file.
IsFile(file, h, T, payload, count) ==
    /\ IsHeader(h, T, payload, count) /\ file = Container!write_state_file(payload, count)
    /\ file \in Seq(T) /\ Len(payload) \in Nat /\ Len(file) = 9 + Len(payload)
    /\ \A n \in 1..8 : file[n] = h[n]
    /\ file[9] = Container!Crc(h)
    /\ \A n \in 1..Len(payload) : file[9 + n] = payload[n]
    /\ Describes(file, payload, count)

LEMMA FileWords ==
    ASSUME NEW S, NEW payload \in Seq(S), NEW count
    PROVE  \E words, header, written : IsFile(written, header, words, payload, count)
<1>0. PICK U, h : IsHeader(h, U, payload, count)
  BY StateHeader, Zenon
<1>1. /\ h = Container!Header(payload, count)
      /\ h \in Seq(U) /\ Len(h) = 8 /\ Describes(h, payload, count)
  BY <1>0 DEF IsHeader
<1> DEFINE c == Container!Crc(h)
           T == U \cup S \cup {c}
           file == h \o <<c>> \o payload
<1>2. h \in Seq(T) /\ payload \in Seq(T) /\ c \in T
  BY <1>1
<1> HIDE DEF T
<1>3. file = Container!write_state_file(payload, count)
  BY <1>1 DEF Container!write_state_file
<1> HIDE DEF c
<1>4. /\ file \in Seq(T) /\ Len(payload) \in Nat /\ Len(file) = 9 + Len(payload)
      /\ \A n \in 1..8 : file[n] = h[n]
      /\ file[9] = c
      /\ \A n \in 1..Len(payload) : file[9 + n] = payload[n]
  <2>1. PartsOf(file, T, h, c, payload)
    BY <1>1, <1>2 DEF PartsOf
  <2> HIDE DEF file
  <2> QED
    BY <2>1, FileParts
<1> HIDE DEF file
<1>5. /\ file[1] = h[1] /\ file[2] = h[2] /\ file[4] = h[4] /\ file[5] = h[5]
      /\ file[6] = h[6] /\ file[7] = h[7]
  BY <1>4
<1>6. Describes(file, payload, count)
  BY <1>1, <1>5 DEF Describes
<1>7. file[9] = Container!Crc(h)
  BY <1>4 DEF c
<1>8. IsHeader(h, T, payload, count)
  BY <1>1, <1>2 DEF IsHeader
<1>9. IsFile(file, h, T, payload, count)
  BY <1>3, <1>4, <1>6, <1>7, <1>8 DEF IsFile
<1> QED
  BY <1>9

\* Equal in every place, a payload and what follows the header are equal.
LEMMA SameWords ==
    ASSUME NEW T, NEW S, NEW file \in Seq(T), NEW p \in Seq(S), NEW k \in Nat,
           Len(file) = k + Len(p), \A n \in 1..Len(p) : file[k + n] = p[n]
    PROVE  SubSeq(file, k + 1, Len(file)) = p
<1>1. Len(p) \in Nat /\ Len(file) \in Nat
  OBVIOUS
<1>2. /\ SubSeq(file, k + 1, Len(file)) \in Seq(T)
      /\ Len(SubSeq(file, k + 1, Len(file))) = Len(file) - k
      /\ \A j \in 1..(Len(file) - k) : SubSeq(file, k + 1, Len(file))[j] = file[k + j]
  BY <1>1, Parts
<1>3. Len(file) - k = Len(p)
  BY <1>1
<1> DEFINE u == SubSeq(file, k + 1, Len(file))
<1>4. /\ u \in Seq(T) /\ Len(u) = Len(p) /\ \A j \in 1..Len(p) : u[j] = p[j]
  BY <1>2, <1>3
<1> HIDE DEF u
<1>5. u = p
  BY <1>4
<1> QED
  BY <1>5 DEF u

\* A word written over another.
LEMMA WordWrittenOver ==
    ASSUME NEW T, NEW s \in Seq(T), NEW i \in DOMAIN s, NEW w
    PROVE  LET r == [s EXCEPT ![i] = w]
           IN /\ r \in Seq(T \cup {w}) /\ Len(r) = Len(s) /\ r[i] = w
              /\ \A j \in DOMAIN s : j # i => r[j] = s[j]
OBVIOUS

\* Whatever the state is and whatever damages its file: a state within the limits is read back as
\* it was written, and a file that was cut, extended by a word or damaged in one place is not
\* read at all (write_state_file, read_state_file).
THEOREM StateFileIsSealed ==
    ASSUME NEW S, NEW payload \in Seq(S), NEW record_count \in Nat,
           NEW max_bytes \in Nat, Len(payload) <= max_bytes,
           NEW max_records \in Nat, record_count <= max_records, NEW words
    PROVE  Container!Sealed(payload, record_count, max_bytes, max_records, words)
<1> DEFINE Loaded(f) == Container!read_state_file(f, max_bytes, max_records)
<1>1. PICK T, h, file : IsFile(file, h, T, payload, record_count)
  BY FileWords
<1>2. /\ file = Container!write_state_file(payload, record_count)
      /\ file \in Seq(T) /\ Len(payload) \in Nat /\ Len(file) = 9 + Len(payload)
      /\ \A n \in 1..8 : file[n] = h[n]
      /\ file[9] = Container!Crc(h)
      /\ \A n \in 1..Len(payload) : file[9 + n] = payload[n]
      /\ Describes(file, payload, record_count)
      /\ h \in Seq(T) /\ Len(h) = 8
  BY <1>1 DEF IsFile, IsHeader
<1>3. PICK size \in Nat : size = Len(payload) /\ Len(file) = 9 + size
  BY <1>2
<1>4. SubSeq(file, 1, 8) = h
  <2>1. /\ SubSeq(file, 1, 8) \in Seq(T) /\ Len(SubSeq(file, 1, 8)) = 8
        /\ \A j \in 1..8 : SubSeq(file, 1, 8)[j] = file[j]
    BY <1>2, <1>3, Parts
  <2> QED
    BY <1>2, <2>1, SeqEqual
<1>5. SubSeq(file, 10, Len(file)) = payload
  <2>1. SubSeq(file, 9 + 1, Len(file)) = payload
    BY <1>2, SameWords
  <2> QED
    BY <2>1
<1>6. file[4][2] = size /\ file[6][2] = record_count
  BY <1>2, <1>3 DEF Describes
<1>7. Loaded(file) = [ok |-> TRUE, payload |-> payload]
  <2>1. /\ Len(file) >= 9 /\ Len(file) <= 9 + max_bytes
        /\ file[4][2] <= max_bytes /\ Len(file) = 9 + file[4][2] /\ file[6][2] <= max_records
    BY <1>3, <1>6
  <2>2. /\ file[1] = Container!persistence_magic
        /\ file[2] = Container!persistence_format_version
        /\ file[9] = Container!Crc(SubSeq(file, 1, 8))
        /\ Container!Crc(payload) = file[5] /\ Container!Digest(payload) = file[7]
    BY <1>2, <1>4 DEF Describes
  <2> DEFINE checks ==
               /\ Len(file) >= 9 /\ Len(file) <= 9 + max_bytes
               /\ file[1] = Container!persistence_magic
               /\ file[2] = Container!persistence_format_version
               /\ file[9] = Container!Crc(SubSeq(file, 1, 8))
               /\ file[4][2] <= max_bytes /\ Len(file) = 9 + file[4][2]
               /\ file[6][2] <= max_records
               /\ Container!Crc(payload) = file[5] /\ Container!Digest(payload) = file[7]
  <2>3. checks = TRUE
    BY <2>1, <2>2, Zenon
  <2>4. 9 - 1 = 8 /\ 9 + 1 = 10
    OBVIOUS
  <2>5. Loaded(file) = [ok |-> checks, payload |-> payload]
    BY <1>5, <2>4, Zenon DEF Container!read_state_file, Container!header_words
  <2> HIDE DEF checks
  <2> QED
    BY <2>3, <2>5
<1> HIDE DEF Loaded
<1>8. ASSUME NEW f, Loaded(f).ok
      PROVE  /\ Len(f) >= 9 /\ f[9] = Container!Crc(SubSeq(f, 1, 8))
             /\ Len(f) = 9 + f[4][2] /\ Container!Crc(SubSeq(f, 10, Len(f))) = f[5]
  BY <1>8, LoadedNeeds DEF Loaded
<1>9. ASSUME NEW n \in 0..(Len(file) - 1) PROVE ~Loaded(SubSeq(file, 1, n)).ok
  <2> DEFINE f == SubSeq(file, 1, n)
  <2>1. n \in Nat /\ n <= Len(file) /\ n < 9 + size
    BY <1>3
  <2>2. Len(f) = n /\ \A j \in 1..n : f[j] = file[j]
    BY <1>2, <2>1, Parts
  <2> HIDE DEF f
  <2> SUFFICES ASSUME Loaded(f).ok PROVE FALSE
    BY DEF f
  <2>3. n >= 9 /\ n = 9 + f[4][2]
    BY <1>8, <2>2
  <2>4. f[4] = file[4]
    BY <2>1, <2>2, <2>3
  <2> QED
    BY <1>6, <2>1, <2>3, <2>4
<1>10. ASSUME NEW w \in words PROVE ~Loaded(Append(file, w)).ok
  <2> DEFINE f == Append(file, w)
             U == T \cup {w}
  <2>1. file \in Seq(U) /\ w \in U
    BY <1>2
  <2> HIDE DEF U
  <2>2. Len(f) = Len(file) + 1 /\ \A j \in 1..Len(file) : f[j] = file[j]
    BY <2>1, AppendProperties
  <2> HIDE DEF f
  <2> SUFFICES ASSUME Loaded(f).ok PROVE FALSE
    BY DEF f
  <2>3. f[4] = file[4] /\ Len(f) = 10 + size
    BY <1>3, <2>2
  <2>4. Len(f) = 9 + f[4][2]
    BY <1>8
  <2> QED
    BY <1>6, <2>3, <2>4
<1>11. ASSUME NEW w \in words, NEW i \in DOMAIN file, w # file[i]
       PROVE  ~Loaded([file EXCEPT ![i] = w]).ok
  <2> DEFINE f == [file EXCEPT ![i] = w]
             U == T \cup {w}
  <2>0. i \in Nat /\ 1 <= i /\ i <= 9 + size /\ DOMAIN file = 1..(9 + size)
    BY <1>2, <1>3
  <2>1. /\ f \in Seq(U) /\ Len(f) = 9 + size /\ f[i] = w
        /\ \A j \in 1..(9 + size) : j # i => f[j] = file[j]
    BY <1>2, <1>3, <2>0, WordWrittenOver
  <2> HIDE DEF f, U
  <2> SUFFICES ASSUME Loaded(f).ok PROVE FALSE
    BY DEF f
  <2>2. /\ f[9] = Container!Crc(SubSeq(f, 1, 8))
        /\ Container!Crc(SubSeq(f, 10, Len(f))) = f[5]
    BY <1>8
  <2>3. \A j \in 1..8 : SubSeq(f, 1, 8)[j] = f[j]
    BY <2>1, Parts
  <2>4. \A j \in 1..size : SubSeq(f, 10, Len(f))[j] = f[9 + j]
    <3>1. \A j \in 1..(Len(f) - 9) : SubSeq(f, 9 + 1, Len(f))[j] = f[9 + j]
      BY <2>1, Parts
    <3> QED
      BY <2>1, <3>1
  <2>5. CASE i <= 8
    <3>1. f[9] = Container!Crc(h)
      BY <1>2, <2>1, <2>5
    <3>2. h = SubSeq(f, 1, 8)
      BY <2>2, <3>1, ChecksumsTell
    <3>3. h[i] = file[i] /\ SubSeq(f, 1, 8)[i] = f[i]
      <4>1. i \in 1..8
        BY <2>0, <2>5
      <4> QED
        BY <1>2, <2>3, <4>1
    <3> QED
      BY <1>11, <2>1, <3>2, <3>3
  <2>6. CASE i = 9
    <3>1. SubSeq(f, 1, 8) = h
      <4>1. SubSeq(f, 1, 8) \in Seq(U) /\ Len(SubSeq(f, 1, 8)) = 8
        BY <2>1, Parts
      <4>2. h \in Seq(U)
        BY <1>2 DEF U
      <4>3. \A j \in 1..8 : SubSeq(f, 1, 8)[j] = h[j]
        BY <1>2, <2>1, <2>3, <2>6
      <4> QED
        BY <1>2, <4>1, <4>2, <4>3, SeqEqual
    <3> QED
      BY <1>2, <1>11, <2>1, <2>2, <2>6, <3>1
  <2>7. CASE i > 9
    <3>1. f[5] = Container!Crc(payload)
      <4>1. f[5] = file[5]
        BY <2>1, <2>7
      <4> QED
        BY <1>2, <4>1 DEF Describes
    <3>2. SubSeq(f, 10, Len(f)) = payload
      BY <2>2, <3>1, ChecksumsTell
    <3>3. PICK k \in 1..size : i = 9 + k
      <4>1. i - 9 \in 1..size /\ i = 9 + (i - 9)
        BY <2>0, <2>7
      <4> QED
        BY <4>1
    <3>4. payload[k] = file[i] /\ SubSeq(f, 10, Len(f))[k] = f[i]
      BY <1>2, <1>3, <2>4, <3>3
    <3> QED
      BY <1>11, <2>1, <3>2, <3>4
  <2> QED
    BY <2>0, <2>5, <2>6, <2>7
<1> QED
  BY <1>2, <1>7, <1>9, <1>10, <1>11 DEF Container!Sealed, Loaded

=============================================================================
