---------------------------- MODULE FramingProofs ----------------------------
(***************************************************************************)
(* What becomes of the bytes clients send, for buffers, messages and       *)
(* clients of any size and number: none is handled for another client,     *)
(* none is lost, repeated or overtaken, and whole reads give whole         *)
(* messages.                                                               *)
(***************************************************************************)
EXTENDS Framing, SequenceTheorems, TLAPS

Messages == Seq(Byte \cup {Zero, Junk})

(* The type invariant, with the domains of the functions. *)
StreamTypes ==
  /\ sent \in [Client -> Seq(Kind)]
  /\ incoming \in [Client -> Seq(Byte)]
  /\ DOMAIN handled = Client
  /\ \A c \in Client : handled[c] \in Seq(Messages)
  /\ recvBuf \in [Slots -> Byte \cup {Zero}]
  /\ client \in Client \cup {Nobody}
  /\ readBytes \in 0 .. maxRecvBufLen
  /\ currentOffset \in Nat
  /\ cut \subseteq Client

(* A stream holds its client's bytes, and the buffer those of the client     *)
(* whose messages are handled: of nobody, between two of them.               *)
StreamsOwn ==
  \A c \in Client : \A i \in DOMAIN incoming[c] : incoming[c][i].from = c

BufferOwn == \A i \in Slots : recvBuf[i].from \in {client, Nobody}

OwnInv == StreamTypes /\ StreamsOwn /\ BufferOwn /\ NothingOfOthers

LEMMA InitOwn == Init => OwnInv
<1> SUFFICES ASSUME Init PROVE OwnInv
  OBVIOUS
<1>1. StreamTypes
  BY FramingAssumption DEF Init, StreamTypes
<1>2. StreamsOwn /\ NothingOfOthers
  BY DEF Init, StreamsOwn, NothingOfOthers
<1>3. BufferOwn
  BY DEF Init, BufferOwn, Zero
<1> QED BY <1>1, <1>2, <1>3 DEF OwnInv

(* A packet is a sequence of its sender's bytes. *)
LEMMA PacketOwn ==
  ASSUME NEW c \in Client, NEW n \in Nat, NEW kind \in Kind
  PROVE  /\ packet(c, n, kind) \in Seq(Byte)
         /\ \A i \in 1 .. Len(packet(c, n, kind)) : packet(c, n, kind)[i].from = c
<1>1. size[kind] \in Nat
  BY FramingAssumption
<1>2. \A i \in 1 .. size[kind] :
        [from |-> c, number |-> n, at |-> i, kind |-> kind] \in Byte
  BY <1>1 DEF Byte
<1> QED BY <1>1, <1>2 DEF packet

LEMMA PeerSendOwn ==
  ASSUME OwnInv, NEW c \in Client, PeerSend(c)
  PROVE  OwnInv'
<1>1. PICK kind \in Kind :
        /\ sent' = [sent EXCEPT ![c] = Append(@, kind)]
        /\ incoming' = [incoming EXCEPT ![c] = @ \o packet(c, Len(sent[c]) + 1, kind)]
  BY DEF PeerSend
<1> DEFINE p == packet(c, Len(sent[c]) + 1, kind)
<1>2. /\ StreamTypes /\ StreamsOwn /\ BufferOwn /\ NothingOfOthers
      /\ incoming[c] \in Seq(Byte) /\ sent[c] \in Seq(Kind)
  BY DEF OwnInv, StreamTypes
<1>3. /\ p \in Seq(Byte)
      /\ \A i \in 1 .. Len(p) : p[i].from = c
  <2>1. Len(sent[c]) + 1 \in Nat
    BY <1>2
  <2> QED BY <2>1, PacketOwn
<1> HIDE DEF p
<1>4. incoming' = [incoming EXCEPT ![c] = incoming[c] \o p]
  BY <1>1 DEF p
<1>5. /\ incoming[c] \o p \in Seq(Byte)
      /\ \A i \in DOMAIN (incoming[c] \o p) : (incoming[c] \o p)[i].from = c
  <2>1. \A i \in 1 .. Len(incoming[c]) : incoming[c][i].from = c
    BY <1>2 DEF StreamsOwn
  <2>2. incoming[c] \o p \in Seq(Byte)
    BY <1>2, <1>3
  <2>3. Len(incoming[c] \o p) = Len(incoming[c]) + Len(p)
    BY <1>2, <1>3
  <2>4. ASSUME NEW i \in 1 .. Len(incoming[c]) + Len(p)
        PROVE  (incoming[c] \o p)[i].from = c
    <3>1. CASE i <= Len(incoming[c])
      <4>1. (incoming[c] \o p)[i] = incoming[c][i] /\ i \in 1 .. Len(incoming[c])
        BY <1>2, <1>3, <3>1
      <4> QED BY <2>1, <4>1
    <3>2. CASE ~(i <= Len(incoming[c]))
      <4>1. /\ (incoming[c] \o p)[i] = p[i - Len(incoming[c])]
            /\ i - Len(incoming[c]) \in 1 .. Len(p)
        BY <1>2, <1>3, <3>2
      <4> QED BY <1>3, <4>1
    <3> QED BY <3>1, <3>2
  <2>5. DOMAIN (incoming[c] \o p) = 1 .. Len(incoming[c]) + Len(p)
    BY <2>2, <2>3
  <2> QED BY <2>2, <2>4, <2>5
<1>6. StreamTypes'
  <2>1. UNCHANGED <<recvBuf, client, readBytes, currentOffset, handled, cut>>
    BY DEF PeerSend
  <2>2. Append(sent[c], kind) \in Seq(Kind)
    BY <1>2
  <2>3. sent' \in [Client -> Seq(Kind)]
    BY <1>1, <1>2, <2>2 DEF StreamTypes
  <2>4. incoming' \in [Client -> Seq(Byte)]
    BY <1>2, <1>4, <1>5 DEF StreamTypes
  <2> QED BY <1>2, <2>1, <2>3, <2>4 DEF StreamTypes
<1>7. StreamsOwn'
  BY <1>2, <1>4, <1>5 DEF StreamsOwn, StreamTypes
<1>8. BufferOwn' /\ NothingOfOthers'
  BY <1>2 DEF BufferOwn, NothingOfOthers, PeerSend
<1> QED BY <1>6, <1>7, <1>8 DEF OwnInv

LEMMA ReadOwn ==
  ASSUME OwnInv, NEW c \in Client, Read(c)
  PROVE  OwnInv'
<1>1. PICK n \in 1 .. Len(incoming[c]) :
        /\ n <= maxRecvBufLen /\ readBytes' = n
        /\ recvBuf' = [i \in Slots |-> IF i <= n THEN incoming[c][i] ELSE recvBuf[i]]
        /\ incoming' = [incoming EXCEPT ![c] = SubSeq(@, n + 1, Len(@))]
        /\ cut' \subseteq cut \cup {c}
  BY DEF Read
<1>2. /\ client = Nobody /\ client' = c /\ currentOffset' = 0
      /\ UNCHANGED <<sent, handled>>
  BY DEF Read
<1>3. /\ StreamTypes /\ StreamsOwn /\ BufferOwn /\ NothingOfOthers
      /\ incoming[c] \in Seq(Byte)
  BY DEF OwnInv, StreamTypes
<1>4. \A i \in Slots : i <= n => /\ incoming[c][i] \in Byte
                                 /\ incoming[c][i].from = c
  <2>1. \A i \in Slots : i <= n => i \in 1 .. Len(incoming[c])
    BY <1>3, FramingAssumption DEF Slots
  <2> QED BY <1>3, <2>1 DEF StreamsOwn
<1>5. BufferOwn'
  BY <1>1, <1>2, <1>3, <1>4 DEF BufferOwn
<1> DEFINE rest == SubSeq(incoming[c], n + 1, Len(incoming[c]))
<1>6. /\ rest \in Seq(Byte)
      /\ \A i \in DOMAIN rest : rest[i].from = c
  <2>1. /\ Len(incoming[c]) \in Nat /\ n \in Nat /\ n <= Len(incoming[c])
        /\ \A i \in 1 .. Len(incoming[c]) : incoming[c][i].from = c /\ incoming[c][i] \in Byte
    BY <1>3 DEF StreamsOwn
  <2>2. /\ DOMAIN rest = 1 .. Len(incoming[c]) - n
        /\ Len(rest) = Len(incoming[c]) - n
        /\ \A i \in 1 .. Len(incoming[c]) - n : rest[i] = incoming[c][i + n]
    BY <1>3, <2>1
  <2>3. \A i \in 1 .. Len(incoming[c]) - n : i + n \in 1 .. Len(incoming[c])
    BY <2>1
  <2>4. rest \in Seq(Byte)
    BY <1>3, <2>1
  <2> HIDE DEF rest
  <2> QED BY <2>1, <2>2, <2>3, <2>4
<1> HIDE DEF rest
<1>7. incoming' = [incoming EXCEPT ![c] = rest]
  BY <1>1 DEF rest
<1>8. StreamsOwn'
  BY <1>3, <1>6, <1>7 DEF StreamsOwn, StreamTypes
<1>9. StreamTypes'
  <2>1. readBytes' \in 0 .. maxRecvBufLen /\ cut' \subseteq Client
    BY <1>1, <1>3, FramingAssumption DEF StreamTypes
  <2> QED BY <1>1, <1>2, <1>3, <1>4, <1>6, <1>7, <2>1 DEF StreamTypes
<1>10. NothingOfOthers'
  BY <1>2, <1>3 DEF NothingOfOthers
<1> QED BY <1>5, <1>8, <1>9, <1>10 DEF OwnInv

(* Every size a message may be taken to have is a positive number. *)
LEMMA MessageSize ==
  ASSUME OwnInv, client \in Client, NEW messageSize \in messageSizes(currentOffset)
  PROVE  messageSize \in Nat \ {0}
<1>1. /\ StreamTypes
      /\ \A i \in Nat : at(i) \in Byte \cup {Zero, Junk}
      /\ \A kind \in Kind : size[kind] \in Nat \ {0}
  BY FramingAssumption DEF OwnInv, at, StreamTypes
<1>2. CASE TypeAt(currentOffset)
  <2> DEFINE b == at(currentOffset + 1)
  <2>1. currentOffset + 1 \in Nat
    BY <1>1 DEF StreamTypes
  <2>2. b \in Byte \cup {Zero, Junk}
    BY <1>1, <2>1
  <2>3. b.from \in Client
    BY <1>2 DEF TypeAt
  <2> HIDE DEF b
  <2>4. b.kind \in Kind
    BY <2>2, <2>3, FramingAssumption DEF Byte, Zero, Junk
  <2> QED BY <1>2, <2>4, FramingAssumption DEF messageSizes, b
<1>3. CASE ~TypeAt(currentOffset)
  BY <1>3, FramingAssumption DEF messageSizes
<1> QED BY <1>2, <1>3

LEMMA HandleMessageOwn ==
  ASSUME OwnInv, HandleMessage
  PROVE  OwnInv'
<1>1. PICK messageSize \in messageSizes(currentOffset) :
        /\ handled' = [handled EXCEPT ![client] =
                         Append(@, message(currentOffset, messageSize))]
        /\ currentOffset' = currentOffset + messageSize
  BY DEF HandleMessage
<1> DEFINE m == message(currentOffset, messageSize)
<1>2. /\ client \in Client
      /\ UNCHANGED <<sent, incoming, recvBuf, client, readBytes, cut>>
      /\ StreamTypes /\ StreamsOwn /\ BufferOwn /\ NothingOfOthers
  BY DEF HandleMessage, OwnInv, StreamTypes
<1>3. \A i \in Nat : /\ at(i) \in Byte \cup {Zero, Junk}
                     /\ at(i).from \in {client, Nobody}
  BY <1>2 DEF at, BufferOwn, StreamTypes, Junk
<1>4. messageSize \in Nat
  BY <1>2, MessageSize
<1>5. /\ m \in [1 .. messageSize -> Byte \cup {Zero, Junk}]
      /\ \A i \in DOMAIN m : m[i].from \in {client, Nobody}
  <2>1. \A i \in 1 .. messageSize : currentOffset + i \in Nat
    BY <1>2, <1>4 DEF StreamTypes
  <2> QED BY <1>3, <2>1 DEF message
<1> DEFINE new == Append(handled[client], m)
<1>6. m \in Messages
  BY <1>4, <1>5 DEF Messages
<1> HIDE DEF m
<1>7. /\ new \in Seq(Messages)
      /\ \A n \in DOMAIN new : new[n] = m \/ (n \in DOMAIN handled[client] /\ new[n] = handled[client][n])
  <2>1. handled[client] \in Seq(Messages)
    BY <1>2 DEF StreamTypes
  <2> QED BY <1>6, <2>1
<1> HIDE DEF new
<1>8. handled' = [handled EXCEPT ![client] = new]
  BY <1>1 DEF new, m
<1>9. StreamTypes'
  BY <1>1, <1>2, <1>4, <1>7, <1>8 DEF StreamTypes
<1>10. NothingOfOthers'
  <2> SUFFICES ASSUME NEW c \in Client, NEW n \in DOMAIN handled'[c],
                      NEW i \in DOMAIN handled'[c][n]
               PROVE  handled'[c][n][i].from \in {c, Nobody}
    BY DEF NothingOfOthers
  <2>1. CASE c = client
    <3>1. handled'[c] = new
      BY <1>2, <1>8, <2>1 DEF StreamTypes
    <3> QED BY <1>2, <1>5, <1>7, <2>1, <3>1 DEF NothingOfOthers
  <2>2. CASE c # client
    BY <1>2, <1>8, <2>2 DEF NothingOfOthers, StreamTypes
  <2> QED BY <2>1, <2>2
<1>11. StreamsOwn' /\ BufferOwn'
  BY <1>2 DEF StreamsOwn, BufferOwn
<1> QED BY <1>9, <1>10, <1>11 DEF OwnInv

LEMMA ClientDoneOwn ==
  ASSUME OwnInv, ClientDone
  PROVE  OwnInv'
<1>1. /\ client' = Nobody
      /\ recvBuf' = [i \in Slots |-> Zero]
      /\ UNCHANGED <<sent, incoming, readBytes, currentOffset, handled, cut>>
  BY DEF ClientDone
<1>2. StreamTypes'
  BY <1>1 DEF OwnInv, StreamTypes
<1>3. BufferOwn'
  BY <1>1 DEF BufferOwn, Zero
<1>4. StreamsOwn' /\ NothingOfOthers'
  BY <1>1 DEF OwnInv, StreamsOwn, NothingOfOthers
<1> QED BY <1>2, <1>3, <1>4 DEF OwnInv

LEMMA OwnInvariant == Spec => []OwnInv
<1>1. Init => OwnInv
  BY InitOwn
<1>2. OwnInv /\ [Next]_vars => OwnInv'
  <2>1. ASSUME OwnInv, UNCHANGED vars PROVE OwnInv'
    BY <2>1 DEF vars, OwnInv, StreamTypes, StreamsOwn, BufferOwn, NothingOfOthers
  <2> QED BY <2>1, PeerSendOwn, ReadOwn, HandleMessageOwn, ClientDoneOwn DEF Next
<1> QED BY <1>1, <1>2, PTL DEF Spec

(* Every buffer, stream and handled message holds bytes, and the count of    *)
(* what was read stays within the buffer.                                    *)
THEOREM FramingTyped == Spec => []FramingTypeOK
<1>1. OwnInv => FramingTypeOK
  BY DEF OwnInv, StreamTypes, FramingTypeOK, Messages
<1> QED BY <1>1, OwnInvariant, PTL

(* The buffer is cleared between two clients, so whatever is cut short or   *)
(* misread, what is handled for a client holds no byte of another.          *)
THEOREM BufferSeparatesClients == Spec => []NothingOfOthers
<1>1. OwnInv => NothingOfOthers
  BY DEF OwnInv
<1> QED BY <1>1, OwnInvariant, PTL
-----------------------------------------------------------------------------
(* What is still to be handled for a client, as one stream: the bytes left   *)
(* in the buffer, if they are its own, and those not read yet.               *)
Left(c) ==
  IF client = c /\ currentOffset < readBytes THEN readBytes - currentOffset ELSE 0

RestLen(c) == Left(c) + Len(incoming[c])

RestAt(c, i) ==
  IF i <= Left(c) THEN recvBuf[currentOffset + i] ELSE incoming[c][i - Left(c)]

(* A step that moves bytes of c at most from the stream to the buffer. *)
SameRest(c) ==
  /\ RestLen(c)' = RestLen(c)
  /\ \A i \in 1 .. RestLen(c) : RestAt(c, i)' = RestAt(c, i)
  /\ sent'[c] = sent[c]
  /\ handled'[c] = handled[c]

LEMMA RestTypes ==
  ASSUME OwnInv, NEW c \in Client
  PROVE  /\ incoming[c] \in Seq(Byte) /\ Len(incoming[c]) \in Nat
         /\ Left(c) \in Nat /\ RestLen(c) \in Nat
         /\ \A i \in 1 .. Left(c) : currentOffset + i \in Slots /\ currentOffset + i <= readBytes
<1>1. /\ incoming[c] \in Seq(Byte) /\ Len(incoming[c]) \in Nat
      /\ readBytes \in 0 .. maxRecvBufLen /\ currentOffset \in Nat /\ maxRecvBufLen \in Nat
  BY FramingAssumption DEF OwnInv, StreamTypes
<1>2. /\ Left(c) \in Nat
      /\ \A i \in 1 .. Left(c) : currentOffset + i \in 1 .. readBytes
  BY <1>1 DEF Left
<1> QED BY <1>1, <1>2 DEF RestLen, Slots

LEMMA SendView ==
  ASSUME OwnInv, NEW c \in Client, NEW kind \in Kind,
         sent' = [sent EXCEPT ![c] = Append(@, kind)],
         incoming' = [incoming EXCEPT ![c] = @ \o packet(c, Len(sent[c]) + 1, kind)],
         UNCHANGED <<recvBuf, client, readBytes, currentOffset, handled>>
  PROVE  /\ \A d \in Client \ {c} : SameRest(d)
         /\ handled'[c] = handled[c]
         /\ RestLen(c)' = RestLen(c) + size[kind]
         /\ \A i \in 1 .. RestLen(c) : RestAt(c, i)' = RestAt(c, i)
         /\ \A i \in RestLen(c) + 1 .. RestLen(c) + size[kind] :
              RestAt(c, i)' = [from |-> c, number |-> Len(sent[c]) + 1,
                               at |-> i - RestLen(c), kind |-> kind]
<1> DEFINE p == packet(c, Len(sent[c]) + 1, kind)
<1>1. /\ size[kind] \in Nat
      /\ sent \in [Client -> Seq(Kind)] /\ incoming \in [Client -> Seq(Byte)]
      /\ DOMAIN handled = Client /\ Len(sent[c]) + 1 \in Nat
  <2>1. sent[c] \in Seq(Kind)
    BY DEF OwnInv, StreamTypes
  <2> QED BY <2>1, FramingAssumption DEF OwnInv, StreamTypes
<1>2. /\ p \in Seq(Byte) /\ Len(p) = size[kind]
      /\ \A i \in 1 .. size[kind] :
           p[i] = [from |-> c, number |-> Len(sent[c]) + 1, at |-> i, kind |-> kind]
  <2>1. p \in Seq(Byte)
    BY <1>1, PacketOwn
  <2>2. DOMAIN p = 1 .. size[kind]
    BY DEF packet
  <2>3. Len(p) = size[kind]
    BY <1>1, <2>1, <2>2
  <2> QED BY <2>1, <2>3 DEF packet
<1>3. incoming' = [incoming EXCEPT ![c] = incoming[c] \o p]
  OBVIOUS
<1> HIDE DEF p
<1>4. \A d \in Client : Left(d)' = Left(d)
  BY DEF Left
<1>5. ASSUME NEW d \in Client \ {c} PROVE SameRest(d)
  <2>1. incoming'[d] = incoming[d] /\ sent'[d] = sent[d]
    BY <1>1, <1>3
  <2> QED BY <1>4, <2>1 DEF SameRest, RestLen, RestAt
<1>6. incoming'[c] = incoming[c] \o p
  BY <1>1, <1>3
<1>7. /\ Len(incoming[c]) \in Nat /\ Left(c) \in Nat
      /\ Len(incoming'[c]) = Len(incoming[c]) + size[kind]
      /\ \A i \in 1 .. Len(incoming[c]) : incoming'[c][i] = incoming[c][i]
      /\ \A i \in 1 .. size[kind] : incoming'[c][Len(incoming[c]) + i] = p[i]
  <2>1. incoming[c] \in Seq(Byte)
    BY <1>1
  <2>2. Len(incoming[c]) \in Nat /\ Left(c) \in Nat
    BY RestTypes
  <2>3. /\ Len(incoming[c] \o p) = Len(incoming[c]) + size[kind]
        /\ \A i \in 1 .. Len(incoming[c]) : (incoming[c] \o p)[i] = incoming[c][i]
        /\ \A i \in 1 .. size[kind] : (incoming[c] \o p)[Len(incoming[c]) + i] = p[i]
    <3>1. ASSUME NEW s \in Seq(Byte)
          PROVE  /\ Len(s \o p) = Len(s) + size[kind]
                 /\ \A i \in 1 .. Len(s) : (s \o p)[i] = s[i]
                 /\ \A i \in 1 .. size[kind] : (s \o p)[Len(s) + i] = p[i]
      BY <1>2
    <3> QED BY <2>1, <3>1
  <2> QED BY <1>6, <2>2, <2>3
<1>8. RestLen(c)' = RestLen(c) + size[kind]
  BY <1>1, <1>4, <1>7 DEF RestLen
<1>9. ASSUME NEW i \in 1 .. RestLen(c) PROVE RestAt(c, i)' = RestAt(c, i)
  <2>1. CASE i <= Left(c)
    BY <1>4, <2>1 DEF RestAt
  <2>2. CASE ~(i <= Left(c))
    <3>1. i - Left(c) \in 1 .. Len(incoming[c])
      BY <1>7, <2>2 DEF RestLen
    <3> QED BY <1>4, <1>7, <2>2, <3>1 DEF RestAt
  <2> QED BY <2>1, <2>2
<1>10. ASSUME NEW i \in RestLen(c) + 1 .. RestLen(c) + size[kind]
       PROVE  RestAt(c, i)' = p[i - RestLen(c)]
  <2>1. /\ ~(i <= Left(c))
        /\ i - RestLen(c) \in 1 .. size[kind]
        /\ i - Left(c) = Len(incoming[c]) + (i - RestLen(c))
    BY <1>1, <1>7 DEF RestLen
  <2>2. RestAt(c, i)' = incoming'[c][i - Left(c)]
    BY <1>4, <2>1 DEF RestAt
  <2> QED BY <1>7, <2>1, <2>2
<1>11. \A i \in RestLen(c) + 1 .. RestLen(c) + size[kind] :
         RestAt(c, i)' = [from |-> c, number |-> Len(sent[c]) + 1,
                          at |-> i - RestLen(c), kind |-> kind]
  <2>1. \A i \in RestLen(c) + 1 .. RestLen(c) + size[kind] : i - RestLen(c) \in 1 .. size[kind]
    BY <1>1, <1>7 DEF RestLen
  <2> QED BY <1>2, <1>10, <2>1
<1>12. handled'[c] = handled[c]
  OBVIOUS
<1> QED BY <1>5, <1>8, <1>9, <1>11, <1>12

LEMMA ReadView ==
  ASSUME OwnInv, NEW c \in Client, Read(c)
  PROVE  \A d \in Client : SameRest(d)
<1>1. PICK n \in 1 .. Len(incoming[c]) :
        /\ n <= maxRecvBufLen /\ readBytes' = n
        /\ recvBuf' = [i \in Slots |-> IF i <= n THEN incoming[c][i] ELSE recvBuf[i]]
        /\ incoming' = [incoming EXCEPT ![c] = SubSeq(@, n + 1, Len(@))]
  BY DEF Read
<1>2. /\ client = Nobody /\ client' = c /\ currentOffset' = 0
      /\ UNCHANGED <<sent, handled>>
  BY DEF Read
<1>3. /\ incoming \in [Client -> Seq(Byte)] /\ incoming[c] \in Seq(Byte)
      /\ Len(incoming[c]) \in Nat /\ n \in Nat /\ maxRecvBufLen \in Nat
  BY RestTypes, FramingAssumption DEF OwnInv, StreamTypes
<1>4. \A d \in Client : Left(d) = 0
  BY <1>2, FramingAssumption DEF Left
<1>5. ASSUME NEW d \in Client, d # c PROVE SameRest(d)
  <2>1. Left(d)' = 0 /\ incoming'[d] = incoming[d]
    BY <1>1, <1>2, <1>3, <1>5 DEF Left
  <2> QED BY <1>2, <1>4, <2>1 DEF SameRest, RestLen, RestAt
<1>6. /\ Len(incoming'[c]) = Len(incoming[c]) - n
      /\ \A i \in 1 .. Len(incoming[c]) - n : incoming'[c][i] = incoming[c][i + n]
  <2>1. incoming'[c] = SubSeq(incoming[c], n + 1, Len(incoming[c]))
    BY <1>1, <1>3
  <2> QED BY <1>3, <2>1
<1>7. Left(c)' = n
  BY <1>1, <1>2, <1>3 DEF Left
<1>8. RestLen(c)' = RestLen(c) /\ RestLen(c) = Len(incoming[c])
  BY <1>3, <1>4, <1>6, <1>7 DEF RestLen
<1>9. ASSUME NEW i \in 1 .. RestLen(c) PROVE RestAt(c, i)' = RestAt(c, i)
  <2>1. RestAt(c, i) = incoming[c][i]
    BY <1>3, <1>4, <1>8 DEF RestAt
  <2>2. CASE i <= n
    <3>1. i \in Slots /\ 0 + i = i
      BY <1>1, <1>3, <1>8, <2>2 DEF Slots
    <3>2. RestAt(c, i)' = recvBuf'[i]
      BY <1>2, <1>7, <2>2, <3>1 DEF RestAt
    <3> QED BY <1>1, <2>1, <2>2, <3>1, <3>2
  <2>3. CASE ~(i <= n)
    <3>1. i - n \in 1 .. Len(incoming[c]) - n /\ i - n + n = i
      BY <1>3, <1>8, <2>3
    <3>2. RestAt(c, i)' = incoming'[c][i - n]
      BY <1>7, <2>3 DEF RestAt
    <3> QED BY <1>6, <2>1, <3>1, <3>2
  <2> QED BY <2>2, <2>3
<1> QED BY <1>2, <1>5, <1>8, <1>9 DEF SameRest

LEMMA DoneView ==
  ASSUME OwnInv, ClientDone
  PROVE  \A d \in Client : SameRest(d)
<1> TAKE d \in Client
<1>1. Left(d) = 0
  <2>1. readBytes \in Int /\ currentOffset \in Int
    BY DEF OwnInv, StreamTypes
  <2> QED BY <2>1 DEF ClientDone, Left
<1>2. Left(d)' = 0
  BY FramingAssumption DEF ClientDone, Left
<1>3. Len(incoming[d]) \in Nat
  BY RestTypes
<1> QED BY <1>1, <1>2, <1>3 DEF ClientDone, SameRest, RestLen, RestAt

(* A message takes its bytes from the stream, as far as they were read. *)
LEMMA HandleView ==
  ASSUME OwnInv, NEW c \in Client, client = c, currentOffset < readBytes,
         NEW k \in Nat \ {0}, NEW t \in Nat,
         t = IF k <= Left(c) THEN k ELSE Left(c),
         currentOffset' = currentOffset + k,
         handled' = [handled EXCEPT ![c] = Append(@, message(currentOffset, k))],
         UNCHANGED <<sent, incoming, recvBuf, client, readBytes>>
  PROVE  /\ \A d \in Client \ {c} : SameRest(d)
         /\ t \in 1 .. Left(c) /\ Left(c)' = Left(c) - t
         /\ RestLen(c)' = RestLen(c) - t
         /\ \A i \in 1 .. RestLen(c) - t : RestAt(c, i)' = RestAt(c, i + t)
         /\ \A i \in 1 .. Left(c) : at(currentOffset + i) = RestAt(c, i)
<1>1. /\ incoming[c] \in Seq(Byte) /\ Len(incoming[c]) \in Nat
      /\ Left(c) \in Nat /\ RestLen(c) \in Nat
      /\ \A i \in 1 .. Left(c) : currentOffset + i \in Slots
  BY RestTypes
<1>2. /\ readBytes \in Nat /\ currentOffset \in Nat /\ DOMAIN handled = Client
  BY FramingAssumption DEF OwnInv, StreamTypes
<1>3. Left(c) = readBytes - currentOffset /\ Left(c) > 0
  BY <1>2 DEF Left
<1>4. t \in 1 .. Left(c) /\ Left(c)' = Left(c) - t
  BY <1>2, <1>3 DEF Left
<1>5. RestLen(c)' = RestLen(c) - t
  BY <1>1, <1>3, <1>4 DEF RestLen
<1>6. ASSUME NEW d \in Client \ {c} PROVE SameRest(d)
  <2>1. Left(d) = 0 /\ Left(d)' = 0 /\ handled'[d] = handled[d]
    BY <1>2 DEF Left
  <2> QED BY <2>1 DEF SameRest, RestLen, RestAt
<1>7. ASSUME NEW i \in 1 .. RestLen(c) - t
      PROVE  RestAt(c, i)' = RestAt(c, i + t)
  <2>1. CASE i <= Left(c) - t
    <3>1. t = k /\ currentOffset + k + i = currentOffset + (i + t) /\ i + t <= Left(c)
      BY <1>1, <1>2, <1>4, <2>1
    <3> QED BY <1>4, <2>1, <3>1 DEF RestAt
  <2>2. CASE ~(i <= Left(c) - t)
    <3>1. ~(i + t <= Left(c)) /\ i - (Left(c) - t) = i + t - Left(c)
      BY <1>1, <1>4, <2>2
    <3>2. RestAt(c, i)' = incoming[c][i - (Left(c) - t)]
      BY <1>4, <2>2 DEF RestAt
    <3>3. PICK j \in Int : j = i + t
      BY <1>1, <1>4
    <3>4. RestAt(c, j) = incoming[c][j - Left(c)]
      BY <1>1, <3>1, <3>3 DEF RestAt
    <3>5. i - (Left(c) - t) = j - Left(c)
      BY <1>1, <1>4, <3>3
    <3>6. RestAt(c, i + t) = RestAt(c, j)
      BY <3>3
    <3> QED BY <3>2, <3>4, <3>5, <3>6
  <2> QED BY <2>1, <2>2
<1>8. \A i \in 1 .. Left(c) : at(currentOffset + i) = RestAt(c, i)
  BY <1>1 DEF at, RestAt
<1> QED BY <1>4, <1>5, <1>6, <1>7, <1>8

-----------------------------------------------------------------------------
(* Beyond what was read the buffer is empty. *)
FillerEmpty == client # Nobody => \A i \in Slots : i > readBytes => recvBuf[i].from = Nobody

Before(a, b) == Earlier(<<a.number, a.at>>, <<b.number, b.at>>)

(* The bytes of the stream, and those handled, were sent. *)
RestSent(c) == \A i \in 1 .. RestLen(c) : RestAt(c, i) \in SentBytes(c)

HandledSent(c) ==
  \A n \in DOMAIN handled[c] : \A i \in DOMAIN handled[c][n] :
    handled[c][n][i].from = c => handled[c][n][i] \in SentBytes(c)

(* Each byte sent is in the stream or was handled. *)
NothingLost(c) ==
  \A b \in SentBytes(c) :
    \/ \E i \in 1 .. RestLen(c) : RestAt(c, i) = b
    \/ \E n \in DOMAIN handled[c] : \E i \in DOMAIN handled[c][n] : handled[c][n][i] = b

(* The stream is in order, what was handled came before it, and in order.    *)
RestOrdered(c) ==
  \A i, j \in 1 .. RestLen(c) : i < j => Before(RestAt(c, i), RestAt(c, j))

HandledFirst(c) ==
  \A n \in DOMAIN handled[c] : \A i \in DOMAIN handled[c][n] :
    handled[c][n][i].from = c =>
      \A j \in 1 .. RestLen(c) : Before(handled[c][n][i], RestAt(c, j))

HandledOrdered(c) ==
  \A n, m \in DOMAIN handled[c] :
    \A i \in DOMAIN handled[c][n], j \in DOMAIN handled[c][m] :
      (/\ handled[c][n][i].from = c
       /\ handled[c][m][j].from = c
       /\ Earlier(<<n, i>>, <<m, j>>)) => Before(handled[c][n][i], handled[c][m][j])

Once(c) ==
  /\ RestSent(c) /\ HandledSent(c) /\ NothingLost(c)
  /\ RestOrdered(c) /\ HandledFirst(c) /\ HandledOrdered(c)

OnceInv == OwnInv /\ FillerEmpty /\ \A c \in Client : Once(c)

LEMMA SentBytesAre ==
  ASSUME OwnInv, NEW c \in Client, NEW b
  PROVE  b \in SentBytes(c) <=>
           \E n \in 1 .. Len(sent[c]) : \E i \in 1 .. size[sent[c][n]] :
             b = [from |-> c, number |-> n, at |-> i, kind |-> sent[c][n]]
<1>1. DOMAIN sent[c] = 1 .. Len(sent[c])
  BY DEF OwnInv, StreamTypes
<1>2. ASSUME NEW n \in 1 .. Len(sent[c])
      PROVE  b \in Range(packet(c, n, sent[c][n])) <=>
               \E i \in 1 .. size[sent[c][n]] :
                 b = [from |-> c, number |-> n, at |-> i, kind |-> sent[c][n]]
  BY DEF Range, packet
<1>3. b \in SentBytes(c) <=> \E n \in 1 .. Len(sent[c]) : b \in Range(packet(c, n, sent[c][n]))
  BY <1>1, Zenon DEF SentBytes
<1> QED BY <1>2, <1>3

LEMMA SentGrows ==
  ASSUME OwnInv, NEW c \in Client, NEW kind \in Kind,
         sent' = [sent EXCEPT ![c] = Append(@, kind)]
  PROVE  /\ SentBytes(c) \subseteq SentBytes(c)'
         /\ \A b \in SentBytes(c)' :
              \/ b \in SentBytes(c)
              \/ \E i \in 1 .. size[kind] :
                   b = [from |-> c, number |-> Len(sent[c]) + 1, at |-> i, kind |-> kind]
         /\ \A i \in 1 .. size[kind] :
              [from |-> c, number |-> Len(sent[c]) + 1, at |-> i, kind |-> kind] \in SentBytes(c)'
<1> DEFINE p(n, k) == Range(packet(c, n, k))
<1>1. /\ sent[c] \in Seq(Kind) /\ Len(sent[c]) \in Nat
      /\ sent'[c] = Append(sent[c], kind)
  BY DEF OwnInv, StreamTypes
<1>2. /\ DOMAIN sent[c] = 1 .. Len(sent[c]) /\ DOMAIN sent'[c] = 1 .. Len(sent[c]) + 1
      /\ sent'[c][Len(sent[c]) + 1] = kind
      /\ \A n \in 1 .. Len(sent[c]) : sent'[c][n] = sent[c][n]
      /\ 1 .. Len(sent[c]) + 1 = (1 .. Len(sent[c])) \cup {Len(sent[c]) + 1}
  BY <1>1
<1>3. SentBytes(c) = UNION {p(n, sent[c][n]) : n \in DOMAIN sent[c]}
  BY DEF SentBytes
<1>4. SentBytes(c)' = UNION {p(n, sent'[c][n]) : n \in DOMAIN sent'[c]}
  BY DEF SentBytes
<1>5. \A b : b \in p(Len(sent[c]) + 1, kind) <=>
        \E i \in 1 .. size[kind] :
          b = [from |-> c, number |-> Len(sent[c]) + 1, at |-> i, kind |-> kind]
  BY DEF Range, packet
<1> HIDE DEF p
<1>6. SentBytes(c)' = SentBytes(c) \cup p(Len(sent[c]) + 1, kind)
  <2>1. ASSUME NEW b PROVE b \in SentBytes(c)' <=> \E n \in 1 .. Len(sent[c]) + 1 : b \in p(n, sent'[c][n])
    BY <1>2, <1>4, Zenon
  <2>2. ASSUME NEW b PROVE b \in SentBytes(c) <=> \E n \in 1 .. Len(sent[c]) : b \in p(n, sent[c][n])
    BY <1>2, <1>3, Zenon
  <2> QED BY <1>2, <2>1, <2>2, Zenon
<1> QED BY <1>5, <1>6

LEMMA OnceKept ==
  ASSUME NEW c \in Client, Once(c), SameRest(c)
  PROVE  Once(c)'
<1>1. SentBytes(c)' = SentBytes(c)
  BY DEF SameRest, SentBytes
<1>2. /\ RestLen(c)' = RestLen(c) /\ handled'[c] = handled[c]
      /\ \A i \in 1 .. RestLen(c) : RestAt(c, i)' = RestAt(c, i)
  BY DEF SameRest
<1>3. RestSent(c)' /\ HandledSent(c)'
  BY <1>1, <1>2 DEF Once, RestSent, HandledSent
<1>4. NothingLost(c)'
  BY <1>1, <1>2 DEF Once, NothingLost
<1>5. RestOrdered(c)' /\ HandledFirst(c)' /\ HandledOrdered(c)'
  BY <1>1, <1>2 DEF Once, RestOrdered, HandledFirst, HandledOrdered, Before
<1> QED BY <1>3, <1>4, <1>5 DEF Once

LEMMA PeerSendOnce ==
  ASSUME OnceInv, NEW c \in Client, PeerSend(c)
  PROVE  \A d \in Client : Once(d)'
<1>1. PICK kind \in Kind :
        /\ sent' = [sent EXCEPT ![c] = Append(@, kind)]
        /\ incoming' = [incoming EXCEPT ![c] = @ \o packet(c, Len(sent[c]) + 1, kind)]
        /\ UNCHANGED <<recvBuf, client, readBytes, currentOffset, handled>>
  BY DEF PeerSend
<1> DEFINE L == RestLen(c)
           new(i) == [from |-> c, number |-> Len(sent[c]) + 1, at |-> i, kind |-> kind]
<1>2. OwnInv /\ Once(c) /\ \A d \in Client : Once(d)
  BY DEF OnceInv
<1>3. /\ \A d \in Client \ {c} : SameRest(d)
      /\ handled'[c] = handled[c]
      /\ RestLen(c)' = L + size[kind]
      /\ \A i \in 1 .. L : RestAt(c, i)' = RestAt(c, i)
      /\ \A i \in L + 1 .. L + size[kind] : RestAt(c, i)' = new(i - L)
  BY <1>1, <1>2, SendView
<1>4. L \in Nat /\ size[kind] \in Nat /\ Len(sent[c]) \in Nat
  <2>1. sent[c] \in Seq(Kind)
    BY <1>2 DEF OwnInv, StreamTypes
  <2> QED BY <1>2, <2>1, RestTypes, FramingAssumption
<1>5. /\ SentBytes(c) \subseteq SentBytes(c)'
      /\ \A b \in SentBytes(c)' : b \in SentBytes(c) \/ \E i \in 1 .. size[kind] : b = new(i)
      /\ \A i \in 1 .. size[kind] : new(i) \in SentBytes(c)'
  BY <1>1, <1>2, SentGrows
<1>6. \A b \in SentBytes(c), i \in 1 .. size[kind] : Before(b, new(i))
  <2> SUFFICES ASSUME NEW b \in SentBytes(c), NEW i \in 1 .. size[kind]
               PROVE  Before(b, new(i))
    OBVIOUS
  <2>1. b.number < Len(sent[c]) + 1
    BY <1>2, <1>4, SentBytesAre
  <2> QED BY <2>1 DEF Before, Earlier
<1>7. \A i, j \in 1 .. size[kind] : i < j => Before(new(i), new(j))
  BY DEF Before, Earlier
<1> HIDE DEF L, new
<1>8. RestSent(c)'
  <2> SUFFICES ASSUME NEW i \in 1 .. L + size[kind] PROVE RestAt(c, i)' \in SentBytes(c)'
    BY <1>3 DEF RestSent
  <2>1. CASE i <= L
    BY <1>2, <1>3, <1>4, <1>5, <2>1 DEF Once, RestSent, L
  <2>2. CASE ~(i <= L)
    BY <1>3, <1>4, <1>5, <2>2
  <2> QED BY <2>1, <2>2
<1>9. HandledSent(c)'
  BY <1>2, <1>3, <1>5 DEF Once, HandledSent
<1>10. NothingLost(c)'
  <2> SUFFICES ASSUME NEW b \in SentBytes(c)'
               PROVE  \/ \E i \in 1 .. L + size[kind] : RestAt(c, i)' = b
                      \/ \E n \in DOMAIN handled[c] :
                           \E i \in DOMAIN handled[c][n] : handled[c][n][i] = b
    BY <1>3 DEF NothingLost
  <2>1. CASE b \in SentBytes(c)
    BY <1>2, <1>3, <1>4, <2>1 DEF Once, NothingLost, L
  <2>2. CASE b \notin SentBytes(c)
    <3>1. PICK i \in 1 .. size[kind] : b = new(i)
      BY <1>5, <2>2
    <3>2. PICK j \in Int : j = L + i
      BY <1>4
    <3>3. j \in L + 1 .. L + size[kind] /\ j \in 1 .. L + size[kind] /\ j - L = i
      BY <1>4, <3>2
    <3>4. RestAt(c, j)' = new(i)
      BY <1>3, <3>3
    <3> QED BY <3>1, <3>3, <3>4
  <2> QED BY <2>1, <2>2
<1>11. RestOrdered(c)'
  <2> SUFFICES ASSUME NEW i \in 1 .. L + size[kind], NEW j \in 1 .. L + size[kind], i < j
               PROVE  Before(RestAt(c, i)', RestAt(c, j)')
    BY <1>3 DEF RestOrdered, Before
  <2>1. CASE j <= L
    BY <1>2, <1>3, <1>4, <2>1 DEF Once, RestOrdered, L
  <2>2. CASE i <= L /\ ~(j <= L)
    <3>1. RestAt(c, i)' \in SentBytes(c)
      BY <1>2, <1>3, <1>4, <2>2 DEF Once, RestSent, L
    <3>2. j - L \in 1 .. size[kind] /\ RestAt(c, j)' = new(j - L)
      BY <1>3, <1>4, <2>2
    <3> QED BY <1>6, <3>1, <3>2
  <2>3. CASE ~(i <= L)
    <3>1. /\ i - L \in 1 .. size[kind] /\ RestAt(c, i)' = new(i - L)
          /\ j - L \in 1 .. size[kind] /\ RestAt(c, j)' = new(j - L) /\ i - L < j - L
      BY <1>3, <1>4, <2>3
    <3> QED BY <1>7, <3>1
  <2> QED BY <1>4, <2>1, <2>2, <2>3
<1>12. HandledFirst(c)'
  <2> SUFFICES ASSUME NEW n \in DOMAIN handled[c], NEW i \in DOMAIN handled[c][n],
                      handled[c][n][i].from = c, NEW j \in 1 .. L + size[kind]
               PROVE  Before(handled[c][n][i], RestAt(c, j)')
    BY <1>3 DEF HandledFirst, Before
  <2>1. CASE j <= L
    BY <1>2, <1>3, <1>4, <2>1 DEF Once, HandledFirst, L
  <2>2. CASE ~(j <= L)
    <3>1. handled[c][n][i] \in SentBytes(c)
      BY <1>2 DEF Once, HandledSent
    <3>2. j - L \in 1 .. size[kind] /\ RestAt(c, j)' = new(j - L)
      BY <1>3, <1>4, <2>2
    <3> QED BY <1>6, <3>1, <3>2
  <2> QED BY <2>1, <2>2
<1>13. HandledOrdered(c)'
  BY <1>2, <1>3 DEF Once, HandledOrdered, Before
<1>14. Once(c)'
  BY <1>8, <1>9, <1>10, <1>11, <1>12, <1>13 DEF Once
<1> QED BY <1>2, <1>3, <1>14, OnceKept

(* A step of the handler's loop: what is handled for c are the first bytes   *)
(* of its stream, and beyond them nobody's.                                  *)
LEMMA HandleMessageOnce ==
  ASSUME OnceInv, HandleMessage
  PROVE  \A d \in Client : Once(d)'
<1>1. PICK k \in messageSizes(currentOffset) :
        /\ handled' = [handled EXCEPT ![client] = Append(@, message(currentOffset, k))]
        /\ currentOffset' = currentOffset + k
  BY DEF HandleMessage
<1>2. OwnInv /\ \A d \in Client : Once(d)
  BY DEF OnceInv
<1>3. PICK c \in Client : client = c
  BY <1>2 DEF HandleMessage, OwnInv, StreamTypes
<1>4. k \in Nat \ {0}
  BY <1>2, <1>3, MessageSize
<1>5. /\ currentOffset < readBytes
      /\ UNCHANGED <<sent, incoming, recvBuf, client, readBytes>>
  BY DEF HandleMessage
<1>6. Left(c) \in Nat /\ RestLen(c) \in Nat
  BY <1>2, RestTypes
<1> DEFINE m == message(currentOffset, k)
           N == Len(handled[c])
           L == RestLen(c)
<1>7. PICK t \in Nat : t = IF k <= Left(c) THEN k ELSE Left(c)
  BY <1>4, <1>6
<1>8. handled' = [handled EXCEPT ![c] = Append(@, m)]
  BY <1>1, <1>3
<1>9. /\ \A d \in Client \ {c} : SameRest(d)
      /\ t \in 1 .. Left(c)
      /\ RestLen(c)' = L - t
      /\ \A i \in 1 .. L - t : RestAt(c, i)' = RestAt(c, i + t)
      /\ \A i \in 1 .. Left(c) : at(currentOffset + i) = RestAt(c, i)
  BY <1>1, <1>2, <1>3, <1>4, <1>5, <1>7, <1>8, HandleView
<1>10. /\ DOMAIN m = 1 .. k /\ t <= k /\ t <= L
       /\ \A i \in 1 .. t : m[i] = RestAt(c, i)
       /\ \A i \in 1 .. k : m[i].from = c => i <= t
  <2>1. t <= k /\ t <= L /\ 1 .. t \subseteq 1 .. Left(c) /\ 1 .. t \subseteq 1 .. k
    <3>1. Len(incoming[c]) \in Nat
      BY <1>2, RestTypes
    <3> QED BY <1>4, <1>6, <1>7, <1>9, <3>1 DEF RestLen
  <2>2. DOMAIN m = 1 .. k /\ \A i \in 1 .. k : m[i] = at(currentOffset + i)
    BY DEF message
  <2>3. ASSUME NEW i \in 1 .. k, ~(i <= t) PROVE m[i].from # c
    <3>1. /\ readBytes \in Nat /\ currentOffset \in Nat
          /\ Left(c) = readBytes - currentOffset
      BY <1>2, <1>3, <1>5, FramingAssumption DEF OwnInv, StreamTypes, Left
    <3>2. t = Left(c) /\ currentOffset + i > readBytes
      BY <1>4, <1>7, <2>3, <3>1
    <3>3. c # Nobody
      BY FramingAssumption
    <3>4. CASE currentOffset + i \in Slots
      BY <1>3, <2>2, <3>2, <3>3, <3>4 DEF OnceInv, FillerEmpty, at
    <3>5. CASE currentOffset + i \notin Slots
      BY <2>2, <3>3, <3>5 DEF at, Junk
    <3> QED BY <3>4, <3>5
  <2> QED BY <1>9, <2>1, <2>2, <2>3
<1> HIDE DEF m
<1>11. /\ N \in Nat /\ DOMAIN handled[c] = 1 .. N
       /\ DOMAIN handled'[c] = 1 .. N + 1
       /\ handled'[c][N + 1] = m
       /\ \A n \in 1 .. N : handled'[c][n] = handled[c][n]
  <2>1. handled[c] \in Seq(Messages) /\ DOMAIN handled = Client
    BY <1>2 DEF OwnInv, StreamTypes
  <2>2. handled'[c] = Append(handled[c], m)
    BY <1>8, <2>1
  <2> QED BY <2>1, <2>2
<1> HIDE DEF N, L
<1>12. SentBytes(c)' = SentBytes(c)
  BY <1>5 DEF SentBytes
<1>13. /\ L \in Nat /\ Once(c) /\ RestLen(c) = L
       /\ \A i \in 1 .. L - t : i + t \in 1 .. L
       /\ \A i \in 1 .. t : i \in 1 .. L
  BY <1>2, <1>6, <1>10 DEF L
<1>14. RestSent(c)'
  BY <1>9, <1>12, <1>13 DEF Once, RestSent
<1>15. HandledSent(c)'
  <2> SUFFICES ASSUME NEW n \in 1 .. N + 1, NEW i \in DOMAIN handled'[c][n],
                      handled'[c][n][i].from = c
               PROVE  handled'[c][n][i] \in SentBytes(c)
    BY <1>11, <1>12 DEF HandledSent
  <2>1. CASE n \in 1 .. N
    BY <1>11, <1>13, <2>1 DEF Once, HandledSent
  <2>2. CASE n = N + 1
    <3>1. i \in 1 .. t /\ handled'[c][n][i] = RestAt(c, i)
      BY <1>4, <1>10, <1>11, <2>2
    <3> QED BY <1>13, <3>1 DEF Once, RestSent
  <2> QED BY <1>11, <2>1, <2>2
<1>16. NothingLost(c)'
  <2> SUFFICES ASSUME NEW b \in SentBytes(c)
               PROVE  \/ \E i \in 1 .. L - t : RestAt(c, i)' = b
                      \/ \E n \in 1 .. N + 1 : \E i \in DOMAIN handled'[c][n] :
                           handled'[c][n][i] = b
    BY <1>9, <1>11, <1>12 DEF NothingLost
  <2>1. CASE \E n \in 1 .. N : \E i \in DOMAIN handled[c][n] : handled[c][n][i] = b
    BY <1>11, <2>1
  <2>2. ASSUME NEW i \in 1 .. L, RestAt(c, i) = b
        PROVE  \/ \E j \in 1 .. L - t : RestAt(c, j)' = b
               \/ \E n \in 1 .. N + 1 : \E j \in DOMAIN handled'[c][n] :
                    handled'[c][n][j] = b
    <3>1. CASE i <= t
      <4>1. i \in DOMAIN m /\ m[i] = b
        BY <1>4, <1>10, <2>2, <3>1
      <4>2. N + 1 \in 1 .. N + 1
        BY <1>11
      <4> QED BY <1>11, <4>1, <4>2
    <3>2. CASE ~(i <= t)
      <4>1. PICK j \in 1 .. L - t : i = j + t
        <5>1. i - t \in 1 .. L - t /\ i = (i - t) + t
          BY <1>13, <3>2
        <5> QED BY <5>1
      <4> QED BY <1>9, <2>2, <4>1
    <3> QED BY <3>1, <3>2
  <2> QED BY <1>11, <1>13, <2>1, <2>2 DEF Once, NothingLost
<1>17. RestOrdered(c)'
  <2> SUFFICES ASSUME NEW i \in 1 .. L - t, NEW j \in 1 .. L - t, i < j
               PROVE  Before(RestAt(c, i + t), RestAt(c, j + t))
    BY <1>9 DEF RestOrdered, Before
  <2>1. i + t \in 1 .. L /\ j + t \in 1 .. L /\ i + t < j + t
    BY <1>13
  <2> QED BY <1>13, <2>1 DEF Once, RestOrdered
<1>18. HandledFirst(c)'
  <2> SUFFICES ASSUME NEW n \in 1 .. N + 1, NEW i \in DOMAIN handled'[c][n],
                      handled'[c][n][i].from = c, NEW j \in 1 .. L - t
               PROVE  Before(handled'[c][n][i], RestAt(c, j + t))
    BY <1>9, <1>11 DEF HandledFirst, Before
  <2>1. j + t \in 1 .. L
    BY <1>13
  <2>2. CASE n \in 1 .. N
    BY <1>11, <1>13, <2>1, <2>2 DEF Once, HandledFirst
  <2>3. CASE n = N + 1
    <3>1. i \in 1 .. t /\ handled'[c][n][i] = RestAt(c, i)
      BY <1>4, <1>10, <1>11, <2>3
    <3>2. i \in 1 .. L /\ i < j + t
      BY <1>13, <3>1
    <3> QED BY <1>13, <2>1, <3>1, <3>2 DEF Once, RestOrdered
  <2> QED BY <1>11, <2>2, <2>3
<1>19. HandledOrdered(c)'
  <2> SUFFICES ASSUME NEW n \in 1 .. N + 1, NEW o \in 1 .. N + 1,
                      NEW i \in DOMAIN handled'[c][n], NEW j \in DOMAIN handled'[c][o],
                      handled'[c][n][i].from = c, handled'[c][o][j].from = c,
                      n < o \/ (n = o /\ i < j)
               PROVE  Before(handled'[c][n][i], handled'[c][o][j])
    BY <1>11 DEF HandledOrdered, Before, Earlier
  <2>1. CASE o \in 1 .. N
    <3>1. n \in 1 .. N /\ Earlier(<<n, i>>, <<o, j>>)
      BY <1>11, <2>1 DEF Earlier
    <3> QED BY <1>11, <1>13, <2>1, <3>1 DEF Once, HandledOrdered
  <2>2. CASE o = N + 1
    <3>1. j \in 1 .. t /\ handled'[c][o][j] = RestAt(c, j) /\ j \in 1 .. L
      BY <1>4, <1>10, <1>11, <1>13, <2>2
    <3>2. CASE n \in 1 .. N
      BY <1>11, <1>13, <3>1, <3>2 DEF Once, HandledFirst
    <3>3. CASE n = N + 1
      <4>1. i \in 1 .. t /\ handled'[c][n][i] = RestAt(c, i) /\ i \in 1 .. L /\ i < j
        BY <1>4, <1>10, <1>11, <1>13, <2>2, <3>3
      <4> QED BY <1>13, <3>1, <4>1 DEF Once, RestOrdered
    <3> QED BY <1>11, <3>2, <3>3
  <2> QED BY <1>11, <2>1, <2>2
<1>20. Once(c)'
  BY <1>14, <1>15, <1>16, <1>17, <1>18, <1>19 DEF Once
<1> QED BY <1>2, <1>9, <1>20, OnceKept

LEMMA OnceInvariant == Spec => []OnceInv
<1>1. ASSUME Init PROVE OnceInv
  <2>1. OwnInv /\ FillerEmpty
    BY <1>1, InitOwn DEF Init, FillerEmpty
  <2>2. ASSUME NEW c \in Client PROVE Once(c)
    <3>1. /\ sent[c] = <<>> /\ incoming[c] = <<>> /\ handled[c] = <<>>
          /\ client = Nobody
      BY <1>1 DEF Init
    <3>2. RestLen(c) = 0
      BY <3>1, FramingAssumption DEF RestLen, Left
    <3>3. SentBytes(c) = {}
      BY <3>1 DEF SentBytes
    <3> QED BY <3>1, <3>2, <3>3
            DEF Once, RestSent, HandledSent, NothingLost, RestOrdered, HandledFirst, HandledOrdered
  <2> QED BY <2>1, <2>2 DEF OnceInv
<1>2. ASSUME OnceInv, [Next]_vars PROVE OnceInv'
  <2>1. OwnInv /\ \A c \in Client : Once(c)
    BY <1>2 DEF OnceInv
  <2>2. ASSUME UNCHANGED vars PROVE OnceInv'
    <3>1. OwnInv'
      BY <2>1, <2>2 DEF vars, OwnInv, StreamTypes, StreamsOwn, BufferOwn, NothingOfOthers
    <3>2. \A c \in Client : SameRest(c)
      BY <2>2 DEF vars, SameRest, RestLen, RestAt, Left
    <3>3. FillerEmpty'
      BY <1>2, <2>2 DEF vars, OnceInv, FillerEmpty
    <3> QED BY <2>1, <3>1, <3>2, <3>3, OnceKept DEF OnceInv
  <2>3. ASSUME NEW c \in Client, PeerSend(c) PROVE OnceInv'
    <3>1. FillerEmpty'
      BY <1>2, <2>3 DEF PeerSend, OnceInv, FillerEmpty
    <3> QED BY <1>2, <2>1, <2>3, <3>1, PeerSendOwn, PeerSendOnce DEF OnceInv
  <2>4. ASSUME NEW c \in Client, Read(c) PROVE OnceInv'
    <3>1. FillerEmpty'
      <4>1. PICK n \in 1 .. Len(incoming[c]) :
              /\ readBytes' = n
              /\ recvBuf' = [i \in Slots |-> IF i <= n THEN incoming[c][i] ELSE recvBuf[i]]
        BY <2>4 DEF Read
      <4>2. \A i \in Slots : recvBuf[i].from = Nobody
        BY <2>1, <2>4 DEF Read, OwnInv, BufferOwn
      <4>3. \A i \in Slots : i > n => ~(i <= n)
        BY <2>1, <4>1 DEF OwnInv, StreamTypes, Slots
      <4>4. \A i \in Slots : i > readBytes' => recvBuf'[i].from = Nobody
        BY <4>1, <4>2, <4>3
      <4> QED BY <4>4 DEF FillerEmpty
    <3> QED BY <2>1, <2>4, <3>1, ReadOwn, ReadView, OnceKept DEF OnceInv
  <2>5. ASSUME HandleMessage PROVE OnceInv'
    <3>1. FillerEmpty'
      BY <1>2, <2>5 DEF HandleMessage, OnceInv, FillerEmpty
    <3> QED BY <1>2, <2>1, <2>5, <3>1, HandleMessageOwn, HandleMessageOnce DEF OnceInv
  <2>6. ASSUME ClientDone PROVE OnceInv'
    <3>1. FillerEmpty'
      BY <2>6 DEF ClientDone, FillerEmpty
    <3> QED BY <2>1, <2>6, <3>1, ClientDoneOwn, DoneView, OnceKept DEF OnceInv
  <2> QED BY <1>2, <2>2, <2>3, <2>4, <2>5, <2>6 DEF Next
<1> QED BY <1>1, <1>2, PTL DEF Spec

(* The places of a client's bytes: in what was handled for it, and in the    *)
(* two parts of its stream.                                                  *)
LEMMA TwoMore ==
  ASSUME NEW S, NEW s \in Seq(S), NEW a \in S, NEW b \in S
  PROVE  /\ DOMAIN (s \o <<a, b>>) = 1 .. Len(s) + 2
         /\ \A n \in 1 .. Len(s) : (s \o <<a, b>>)[n] = s[n]
         /\ (s \o <<a, b>>)[Len(s) + 1] = a
         /\ (s \o <<a, b>>)[Len(s) + 2] = b
<1>1. <<a, b>> \in Seq(S) /\ Len(<<a, b>>) = 2 /\ <<a, b>>[1] = a /\ <<a, b>>[2] = b
  OBVIOUS
<1> DEFINE t == <<a, b>>
<1> HIDE DEF t
<1>2. t \in Seq(S) /\ Len(t) = 2 /\ t[1] = a /\ t[2] = b
  BY <1>1 DEF t
<1>3. /\ s \o t \in Seq(S) /\ Len(s \o t) = Len(s) + 2 /\ Len(s) \in Nat
      /\ \A n \in 1 .. Len(s) + 2 :
           (s \o t)[n] = IF n <= Len(s) THEN s[n] ELSE t[n - Len(s)]
  <2>1. /\ s \o t \in Seq(S) /\ Len(s \o t) = Len(s) + Len(t)
        /\ \A n \in 1 .. Len(s) + Len(t) :
             (s \o t)[n] = IF n <= Len(s) THEN s[n] ELSE t[n - Len(s)]
    BY <1>2, ConcatProperties, Zenon
  <2> QED BY <1>2, <2>1
<1>4. DOMAIN (s \o t) = 1 .. Len(s) + 2
  BY <1>3
<1>5. \A n \in 1 .. Len(s) : (s \o t)[n] = s[n]
  BY <1>3
<1>6. \A n \in 1 .. 2 : (s \o t)[Len(s) + n] = t[n]
  <2> SUFFICES ASSUME NEW n \in 1 .. 2 PROVE (s \o t)[Len(s) + n] = t[n]
    OBVIOUS
  <2>1. PICK j \in 1 .. Len(s) + 2 : j = Len(s) + n
    BY <1>3
  <2>2. ~(j <= Len(s)) /\ j - Len(s) = n
    BY <1>3, <2>1
  <2> QED BY <1>3, <2>1, <2>2
<1> QED BY <1>2, <1>4, <1>5, <1>6 DEF t

LEMMA PartsOf ==
  ASSUME OwnInv, NEW c \in Client
  PROVE  /\ Len(handled[c]) \in Nat /\ DOMAIN handled[c] = 1 .. Len(handled[c])
         /\ DOMAIN Parts(c) = 1 .. Len(handled[c]) + 2
         /\ \A n \in 1 .. Len(handled[c]) : Parts(c)[n] = handled[c][n]
         /\ DOMAIN Parts(c)[Len(handled[c]) + 1] = 1 .. Left(c)
         /\ \A i \in 1 .. Left(c) : Parts(c)[Len(handled[c]) + 1][i] = RestAt(c, i)
         /\ DOMAIN Parts(c)[Len(handled[c]) + 2] = 1 .. Len(incoming[c])
         /\ \A i \in 1 .. Len(incoming[c]) :
              Parts(c)[Len(handled[c]) + 2][i] = RestAt(c, Left(c) + i)
<1> DEFINE N == Len(handled[c])
<1>1. /\ handled[c] \in Seq(Messages) /\ N \in Nat /\ DOMAIN handled[c] = 1 .. N
      /\ readBytes \in Int /\ currentOffset \in Int
      /\ recvBuf \in [Slots -> Byte \cup {Zero}]
  BY DEF OwnInv, StreamTypes
<1>2. /\ incoming[c] \in Seq(Byte) /\ Len(incoming[c]) \in Nat /\ Left(c) \in Nat
      /\ \A i \in 1 .. Left(c) : currentOffset + i \in Slots
  BY RestTypes
<1>3. /\ DOMAIN unhandled(c) = 1 .. Left(c)
      /\ \A i \in 1 .. Left(c) : unhandled(c)[i] = recvBuf[currentOffset + i]
  <2>1. 1 .. (IF client = c THEN readBytes - currentOffset ELSE 0) = 1 .. Left(c)
    BY <1>1 DEF Left
  <2> QED BY <2>1 DEF unhandled
<1>4. unhandled(c) \in Messages
  <2>1. unhandled(c) = [i \in 1 .. Left(c) |-> unhandled(c)[i]]
    BY <1>3 DEF unhandled
  <2>2. \A i \in 1 .. Left(c) : unhandled(c)[i] \in Byte \cup {Zero, Junk}
    BY <1>1, <1>2, <1>3
  <2> QED BY <1>2, <2>1, <2>2 DEF Messages
<1>5. incoming[c] \in Messages
  BY <1>2 DEF Messages
<1>8. /\ DOMAIN Parts(c) = 1 .. N + 2
      /\ \A n \in 1 .. N : Parts(c)[n] = handled[c][n]
      /\ Parts(c)[N + 1] = unhandled(c) /\ Parts(c)[N + 2] = incoming[c]
  <2>1. Parts(c) = handled[c] \o <<unhandled(c), incoming[c]>>
    BY DEF Parts
  <2>2. /\ DOMAIN (handled[c] \o <<unhandled(c), incoming[c]>>) = 1 .. N + 2
        /\ \A n \in 1 .. N : (handled[c] \o <<unhandled(c), incoming[c]>>)[n] = handled[c][n]
        /\ (handled[c] \o <<unhandled(c), incoming[c]>>)[N + 1] = unhandled(c)
        /\ (handled[c] \o <<unhandled(c), incoming[c]>>)[N + 2] = incoming[c]
    BY <1>1, <1>4, <1>5, TwoMore
  <2> QED BY <2>1, <2>2, Zenon
<1>9. DOMAIN Parts(c)[N + 1] = 1 .. Left(c) /\ \A i \in 1 .. Left(c) : Parts(c)[N + 1][i] = RestAt(c, i)
  BY <1>3, <1>8 DEF RestAt
<1>10. ASSUME NEW i \in 1 .. Len(incoming[c]) PROVE RestAt(c, Left(c) + i) = incoming[c][i]
  <2>1. PICK j \in Int : j = Left(c) + i
    BY <1>2
  <2>2. ~(j <= Left(c)) /\ j - Left(c) = i
    BY <1>2, <2>1
  <2>3. RestAt(c, j) = incoming[c][i]
    BY <2>2 DEF RestAt
  <2> QED BY <2>1, <2>3
<1>11. DOMAIN incoming[c] = 1 .. Len(incoming[c])
  BY <1>2
<1> QED BY <1>1, <1>8, <1>9, <1>10, <1>11

LEMMA PlacesAre ==
  ASSUME NEW parts, NEW c, NEW p
  PROVE  p \in Places(parts, c) <=>
           \E n \in DOMAIN parts : \E i \in DOMAIN parts[n] :
             p = <<n, i>> /\ parts[n][i].from = c
<1>1. p \in UNION {{n} \X DOMAIN parts[n] : n \in DOMAIN parts} <=>
        \E n \in DOMAIN parts : p \in {n} \X DOMAIN parts[n]
  OBVIOUS
<1>2. \A n \in DOMAIN parts :
        p \in {n} \X DOMAIN parts[n] <=> \E i \in DOMAIN parts[n] : p = <<n, i>>
  OBVIOUS
<1> QED BY <1>1, <1>2 DEF Places

(* However a client's bytes are cut up and misread, none is lost, handled    *)
(* twice or out of order.                                                    *)
THEOREM AllBytesOnce == Spec => []EveryByteOnce
<1>1. ASSUME OnceInv PROVE EveryByteOnce
  <2> SUFFICES ASSUME NEW c \in Client
               PROVE  LET parts == Parts(c)
                          places == Places(parts, c)
                          byte(p) == parts[p[1]][p[2]]
                      IN  /\ {byte(p) : p \in places} = SentBytes(c)
                          /\ \A p, q \in places : Earlier(p, q) =>
                               Earlier(<<byte(p).number, byte(p).at>>, <<byte(q).number, byte(q).at>>)
    BY DEF EveryByteOnce
  <2> DEFINE parts == Parts(c)
             places == Places(parts, c)
             byte(p) == parts[p[1]][p[2]]
             N == Len(handled[c])
             M == Len(incoming[c])
  <2>1. OwnInv /\ Once(c)
    BY <1>1 DEF OnceInv
  <2>2. /\ N \in Nat /\ M \in Nat /\ DOMAIN handled[c] = 1 .. N /\ DOMAIN parts = 1 .. N + 2
        /\ \A n \in 1 .. N : parts[n] = handled[c][n]
        /\ DOMAIN parts[N + 1] = 1 .. Left(c)
        /\ \A i \in 1 .. Left(c) : parts[N + 1][i] = RestAt(c, i)
        /\ DOMAIN parts[N + 2] = 1 .. M
        /\ \A i \in 1 .. M : parts[N + 2][i] = RestAt(c, Left(c) + i)
        /\ Left(c) \in Nat /\ RestLen(c) = Left(c) + M
    <3>1. M \in Nat /\ Left(c) \in Nat /\ RestLen(c) = Left(c) + M
      BY <2>1, RestTypes DEF RestLen
    <3> QED BY <2>1, <3>1, PartsOf
  <2>3. \A p : p \in places <=>
          \E n \in DOMAIN parts : \E i \in DOMAIN parts[n] : p = <<n, i>> /\ parts[n][i].from = c
    BY PlacesAre
  <2>4. \A b \in SentBytes(c) : b.from = c
    BY <2>1, SentBytesAre
  <2> HIDE DEF N, M, parts, places
  <2>5. ASSUME NEW n \in DOMAIN parts, NEW i \in DOMAIN parts[n], parts[n][i].from = c
        PROVE  \/ /\ n \in 1 .. N /\ parts[n] = handled[c][n]
               \/ /\ n = N + 1
                  /\ i \in 1 .. Left(c) /\ i \in 1 .. RestLen(c) /\ parts[n][i] = RestAt(c, i)
               \/ /\ n = N + 2
                  /\ i \in Int /\ Left(c) + i \in Left(c) + 1 .. RestLen(c)
                  /\ Left(c) + i \in 1 .. RestLen(c)
                  /\ parts[n][i] = RestAt(c, Left(c) + i)
    <3>1. n \in 1 .. N \/ n = N + 1 \/ n = N + 2
      <4>1. n \in 1 .. N + 2 /\ N \in Nat
        BY <2>2
      <4> QED BY <4>1
    <3>2. CASE n = N + 1
      BY <2>2, <3>2
    <3>3. CASE n = N + 2
      <4>1. i \in 1 .. M
        BY <2>2, <3>3
      <4> QED BY <2>2, <3>3, <4>1
    <3> QED BY <2>2, <3>1, <3>2, <3>3
  <2>6. {byte(p) : p \in places} \subseteq SentBytes(c)
    <3> SUFFICES ASSUME NEW n \in DOMAIN parts, NEW i \in DOMAIN parts[n], parts[n][i].from = c
                 PROVE  parts[n][i] \in SentBytes(c)
      BY <2>3
    <3>1. CASE n \in 1 .. N /\ parts[n] = handled[c][n]
      <4>1. n \in DOMAIN handled[c] /\ i \in DOMAIN handled[c][n]
        BY <2>2, <3>1
      <4> QED BY <2>1, <3>1, <4>1 DEF Once, HandledSent
    <3>2. CASE \E j \in 1 .. RestLen(c) : parts[n][i] = RestAt(c, j)
      BY <2>1, <3>2 DEF Once, RestSent
    <3> QED BY <2>5, <3>1, <3>2
  <2>7. SentBytes(c) \subseteq {byte(p) : p \in places}
    <3> SUFFICES ASSUME NEW b \in SentBytes(c)
                 PROVE  \E n \in DOMAIN parts : \E i \in DOMAIN parts[n] : parts[n][i] = b
      <4>1. ASSUME NEW b \in SentBytes(c), NEW n \in DOMAIN parts, NEW i \in DOMAIN parts[n],
                   parts[n][i] = b
            PROVE  b \in {byte(p) : p \in places}
        <5>1. <<n, i>> \in places /\ byte(<<n, i>>) = b
          BY <2>3, <2>4, <4>1
        <5> QED BY <5>1
      <4> QED BY <4>1
    <3>1. CASE \E n \in DOMAIN handled[c] : \E i \in DOMAIN handled[c][n] : handled[c][n][i] = b
      BY <2>2, <3>1
    <3>2. ASSUME NEW j \in 1 .. RestLen(c), RestAt(c, j) = b
          PROVE  \E n \in DOMAIN parts : \E i \in DOMAIN parts[n] : parts[n][i] = b
      <4>1. CASE j <= Left(c)
        <5>1. N + 1 \in DOMAIN parts /\ j \in DOMAIN parts[N + 1] /\ parts[N + 1][j] = b
          BY <2>2, <3>2, <4>1
        <5> QED BY <5>1
      <4>2. CASE ~(j <= Left(c))
        <5>1. PICK i \in Int : i = j - Left(c)
          BY <2>2
        <5>2. N + 2 \in DOMAIN parts /\ i \in 1 .. M /\ Left(c) + i = j
          BY <2>2, <4>2, <5>1
        <5>3. i \in DOMAIN parts[N + 2] /\ parts[N + 2][i] = b
          BY <2>2, <3>2, <5>2
        <5> QED BY <5>2, <5>3
      <4> QED BY <4>1, <4>2
    <3> QED BY <2>1, <3>1, <3>2 DEF Once, NothingLost
  <2>8. ASSUME NEW n \in DOMAIN parts, NEW i \in DOMAIN parts[n], parts[n][i].from = c,
               NEW m \in DOMAIN parts, NEW j \in DOMAIN parts[m], parts[m][j].from = c,
               n < m \/ (n = m /\ i < j)
        PROVE  Before(parts[n][i], parts[m][j])
    <3>1. CASE m \in 1 .. N
      <4>1. n \in 1 .. N /\ Earlier(<<n, i>>, <<m, j>>)
        BY <2>2, <2>8, <3>1 DEF Earlier
      <4> QED BY <2>1, <2>2, <2>8, <3>1, <4>1 DEF Once, HandledOrdered
    <3>2. CASE m = N + 1
      <4>1. j \in 1 .. RestLen(c) /\ parts[m][j] = RestAt(c, j)
        BY <2>2, <2>5, <2>8, <3>2
      <4>2. CASE n \in 1 .. N
        BY <2>1, <2>2, <2>8, <4>1, <4>2 DEF Once, HandledFirst
      <4>3. CASE n = N + 1
        <5>1. i \in 1 .. RestLen(c) /\ parts[n][i] = RestAt(c, i) /\ i < j
          BY <2>2, <2>5, <2>8, <3>2, <4>3
        <5> QED BY <2>1, <4>1, <5>1 DEF Once, RestOrdered
      <4> QED BY <2>2, <2>8, <3>2, <4>2, <4>3
    <3>3. CASE m = N + 2
      <4>1. /\ j \in Int /\ Left(c) + j \in Left(c) + 1 .. RestLen(c)
            /\ Left(c) + j \in 1 .. RestLen(c) /\ parts[m][j] = RestAt(c, Left(c) + j)
        BY <2>2, <2>5, <2>8, <3>3
      <4>2. CASE n \in 1 .. N
        BY <2>1, <2>2, <2>8, <4>1, <4>2 DEF Once, HandledFirst
      <4>3. CASE n = N + 1
        <5>1. /\ i \in 1 .. RestLen(c) /\ parts[n][i] = RestAt(c, i)
              /\ i < Left(c) + j
          BY <2>2, <2>5, <2>8, <4>1, <4>3
        <5> QED BY <2>1, <4>1, <5>1 DEF Once, RestOrdered
      <4>4. CASE n = N + 2
        <5>1. /\ i \in Int /\ Left(c) + i \in 1 .. RestLen(c) /\ parts[n][i] = RestAt(c, Left(c) + i)
              /\ Left(c) + i < Left(c) + j
          <6>1. /\ i \in Int /\ Left(c) + i \in 1 .. RestLen(c)
                /\ parts[n][i] = RestAt(c, Left(c) + i)
            BY <2>2, <2>5, <2>8, <4>4
          <6>2. i < j /\ Left(c) \in Nat /\ N \in Nat
            BY <2>2, <2>8, <3>3, <4>4
          <6> QED BY <4>1, <6>1, <6>2
        <5> QED BY <2>1, <4>1, <5>1 DEF Once, RestOrdered
      <4> QED BY <2>2, <2>8, <3>3, <4>2, <4>3, <4>4
    <3> QED BY <2>2, <3>1, <3>2, <3>3
  <2>9. ASSUME NEW p \in places, NEW q \in places, Earlier(p, q)
        PROVE  Before(byte(p), byte(q))
    <3>1. PICK n \in DOMAIN parts : \E i \in DOMAIN parts[n] : p = <<n, i>> /\ parts[n][i].from = c
      BY <2>3
    <3>2. PICK i \in DOMAIN parts[n] : p = <<n, i>> /\ parts[n][i].from = c
      BY <3>1
    <3>3. PICK m \in DOMAIN parts : \E j \in DOMAIN parts[m] : q = <<m, j>> /\ parts[m][j].from = c
      BY <2>3
    <3>4. PICK j \in DOMAIN parts[m] : q = <<m, j>> /\ parts[m][j].from = c
      BY <3>3
    <3>5. n < m \/ (n = m /\ i < j)
      BY <2>9, <3>2, <3>4 DEF Earlier
    <3> QED BY <2>8, <3>2, <3>4, <3>5
  <2> QED BY <2>6, <2>7, <2>9 DEF Before, parts, places
<1> QED BY <1>1, OnceInvariant, PTL

-----------------------------------------------------------------------------
(* The stream goes on from byte to byte, and ends with the last message.     *)
LastByte(b) == b.at = size[b.kind]

WithinMessage(c) ==
  \A i, j \in 1 .. RestLen(c) :
    (i < j /\ RestAt(c, i).at + (j - i) <= size[RestAt(c, i).kind]) =>
      /\ RestAt(c, j).number = RestAt(c, i).number
      /\ RestAt(c, j).at = RestAt(c, i).at + (j - i)

NextMessage(c) ==
  \A i, j \in 1 .. RestLen(c) :
    (j = i + 1 /\ LastByte(RestAt(c, i))) =>
      /\ RestAt(c, j).number = RestAt(c, i).number + 1
      /\ RestAt(c, j).at = 1

LastMessage(c) ==
  \A i \in 1 .. RestLen(c) : i = RestLen(c) =>
    RestAt(c, i).number = Len(sent[c]) /\ LastByte(RestAt(c, i))

RunsOn(c) == RestSent(c) /\ WithinMessage(c) /\ NextMessage(c) /\ LastMessage(c)

(* Without a cut the stream begins with the message after those handled, and *)
(* what is in the buffer ends with a message.                                *)
InStep(c) ==
  /\ RestLen(c) = 0 => Len(sent[c]) = Len(handled[c])
  /\ RestLen(c) > 0 => RestAt(c, 1).number = Len(handled[c]) + 1 /\ RestAt(c, 1).at = 1
  /\ client = c => currentOffset <= readBytes
  /\ Left(c) > 0 => LastByte(RestAt(c, Left(c)))

HandledWhole(c) ==
  \A n \in DOMAIN handled[c] :
    n \in DOMAIN sent[c] /\ handled[c][n] = packet(c, n, sent[c][n])

WholeInv ==
  /\ OwnInv
  /\ \A c \in Client : RunsOn(c)
  /\ \A c \in Client \ cut : InStep(c) /\ HandledWhole(c)

(* The bytes of the stream have the types of their messages. *)
LEMMA RestByte ==
  ASSUME OwnInv, NEW c \in Client, RunsOn(c), NEW i \in 1 .. RestLen(c)
  PROVE  /\ RestAt(c, i) = [from |-> c, number |-> RestAt(c, i).number,
                            at |-> RestAt(c, i).at, kind |-> sent[c][RestAt(c, i).number]]
         /\ RestAt(c, i).number \in 1 .. Len(sent[c])
         /\ RestAt(c, i).kind = sent[c][RestAt(c, i).number]
         /\ RestAt(c, i).kind \in Kind
         /\ size[RestAt(c, i).kind] \in Nat
         /\ RestAt(c, i).at \in 1 .. size[RestAt(c, i).kind]
<1>1. RestAt(c, i) \in SentBytes(c)
  BY DEF RunsOn, RestSent
<1>2. PICK n \in 1 .. Len(sent[c]) : \E j \in 1 .. size[sent[c][n]] :
        RestAt(c, i) = [from |-> c, number |-> n, at |-> j, kind |-> sent[c][n]]
  BY <1>1, SentBytesAre
<1>3. PICK j \in 1 .. size[sent[c][n]] :
        RestAt(c, i) = [from |-> c, number |-> n, at |-> j, kind |-> sent[c][n]]
  BY <1>2
<1>4. sent[c][n] \in Kind
  BY DEF OwnInv, StreamTypes
<1> QED BY <1>3, <1>4, FramingAssumption

LEMMA RunsOnKept ==
  ASSUME NEW c \in Client, RunsOn(c), SameRest(c)
  PROVE  RunsOn(c)'
<1>1. SentBytes(c)' = SentBytes(c)
  BY DEF SameRest, SentBytes
<1>2. /\ RestLen(c)' = RestLen(c) /\ sent'[c] = sent[c]
      /\ \A i \in 1 .. RestLen(c) : RestAt(c, i)' = RestAt(c, i)
  BY DEF SameRest
<1>3. RestSent(c)'
  BY <1>1, <1>2 DEF RunsOn, RestSent
<1>4. WithinMessage(c)'
  BY <1>2 DEF RunsOn, WithinMessage
<1>5. NextMessage(c)' /\ LastMessage(c)'
  BY <1>2 DEF RunsOn, NextMessage, LastMessage, LastByte
<1> QED BY <1>3, <1>4, <1>5 DEF RunsOn

LEMMA InStepKept ==
  ASSUME OwnInv, NEW c \in Client, InStep(c), HandledWhole(c), SameRest(c),
         Left(c)' \in {0, Left(c)}, (client = c => currentOffset <= readBytes)'
  PROVE  InStep(c)' /\ HandledWhole(c)'
<1>1. /\ RestLen(c)' = RestLen(c) /\ UNCHANGED <<sent[c], handled[c]>>
      /\ \A i \in 1 .. RestLen(c) : RestAt(c, i)' = RestAt(c, i)
      /\ RestLen(c) \in Nat /\ Left(c) \in Nat /\ Left(c) <= RestLen(c)
  BY RestTypes DEF SameRest, RestLen
<1>2. RestLen(c) > 0 => RestAt(c, 1)' = RestAt(c, 1)
  BY <1>1
<1>3. ASSUME Left(c)' > 0 PROVE LastByte(RestAt(c, Left(c)))'
  <2>1. PICK l \in 1 .. RestLen(c) : l = Left(c) /\ l = Left(c)'
    BY <1>1, <1>3
  <2>2. RestAt(c, l)' = RestAt(c, l) /\ LastByte(RestAt(c, l))
    BY <1>1, <2>1 DEF InStep
  <2> QED BY <2>1, <2>2 DEF LastByte
<1>4. InStep(c)'
  BY <1>1, <1>2, <1>3 DEF InStep
<1> QED BY <1>1, <1>4 DEF HandledWhole

LEMMA PeerSendWhole ==
  ASSUME WholeInv, NEW c \in Client, PeerSend(c)
  PROVE  WholeInv'
<1>1. PICK kind \in Kind :
        /\ sent' = [sent EXCEPT ![c] = Append(@, kind)]
        /\ incoming' = [incoming EXCEPT ![c] = @ \o packet(c, Len(sent[c]) + 1, kind)]
        /\ UNCHANGED <<recvBuf, client, readBytes, currentOffset, handled>>
  BY DEF PeerSend
<1> DEFINE L == RestLen(c)
           N == Len(sent[c])
           new(i) == [from |-> c, number |-> N + 1, at |-> i, kind |-> kind]
<1>2. /\ OwnInv /\ RunsOn(c) /\ \A d \in Client : RunsOn(d)
      /\ \A d \in Client \ cut : InStep(d) /\ HandledWhole(d)
  BY DEF WholeInv
<1>3. /\ \A d \in Client \ {c} : SameRest(d)
      /\ handled'[c] = handled[c]
      /\ RestLen(c)' = L + size[kind]
      /\ \A i \in 1 .. L : RestAt(c, i)' = RestAt(c, i)
      /\ \A i \in L + 1 .. L + size[kind] : RestAt(c, i)' = new(i - L)
  BY <1>1, <1>2, SendView
<1>4. /\ L \in Nat /\ size[kind] \in Nat \ {0} /\ N \in Nat
      /\ sent[c] \in Seq(Kind) /\ sent'[c] = Append(sent[c], kind)
      /\ Len(sent'[c]) = N + 1 /\ UNCHANGED <<client, readBytes, currentOffset, cut>>
      /\ Left(c) \in Nat /\ Left(c) <= L /\ Left(c)' = Left(c)
      /\ DOMAIN sent[c] \subseteq DOMAIN sent'[c]
      /\ \A n \in DOMAIN sent[c] : sent'[c][n] = sent[c][n]
  <2>1. sent[c] \in Seq(Kind) /\ sent'[c] = Append(sent[c], kind)
    BY <1>1, <1>2 DEF OwnInv, StreamTypes
  <2>2. Left(c) \in Nat /\ L \in Nat /\ Left(c) <= L
    BY <1>2, RestTypes DEF RestLen
  <2>3. size[kind] \in Nat \ {0}
    BY FramingAssumption
  <2>4. Left(c)' = Left(c)
    BY <1>1 DEF Left
  <2> QED BY <2>1, <2>2, <2>3, <2>4 DEF PeerSend
<1>5. OwnInv'
  BY <1>2, PeerSendOwn
<1>6. /\ SentBytes(c) \subseteq SentBytes(c)'
      /\ \A i \in 1 .. size[kind] : new(i) \in SentBytes(c)'
  BY <1>1, <1>2, SentGrows
<1> HIDE DEF L, N
<1>7. ASSUME NEW i \in 1 .. L + size[kind]
      PROVE  \/ i \in 1 .. L /\ RestAt(c, i)' = RestAt(c, i)
             \/ /\ i \in L + 1 .. L + size[kind] /\ i - L \in 1 .. size[kind]
                /\ RestAt(c, i)' = new(i - L)
  BY <1>3, <1>4
<1>8. RestSent(c)'
  BY <1>2, <1>3, <1>6, <1>7 DEF RunsOn, RestSent, L
<1>9. WithinMessage(c)'
  <2> SUFFICES ASSUME NEW i \in 1 .. L + size[kind], NEW j \in 1 .. L + size[kind], i < j,
                      RestAt(c, i)'.at + (j - i) <= size[RestAt(c, i)'.kind]
               PROVE  /\ RestAt(c, j)'.number = RestAt(c, i)'.number
                      /\ RestAt(c, j)'.at = RestAt(c, i)'.at + (j - i)
    BY <1>3 DEF WithinMessage
  <2>1. CASE i \in 1 .. L
    <3>1. RestAt(c, i)' = RestAt(c, i) /\ L \in 1 .. L /\ i <= L
      BY <1>3, <1>4, <2>1
    <3>2. RestAt(c, i).at \in Nat /\ size[RestAt(c, i).kind] \in Nat
      BY <1>2, <2>1, RestByte DEF L
    <3>3. CASE j \in 1 .. L
      BY <1>2, <1>3, <2>1, <3>1, <3>3 DEF RunsOn, WithinMessage, L
    <3>4. CASE ~(j \in 1 .. L)
      <4>1. /\ RestAt(c, i).at + (j - i) <= size[RestAt(c, i).kind] /\ j > L
            /\ RestAt(c, i).at + (L - i) < size[RestAt(c, i).kind]
        BY <1>4, <3>1, <3>2, <3>4
      <4>2. /\ RestAt(c, L).number = N /\ RestAt(c, L).at = size[RestAt(c, L).kind]
        BY <1>2, <3>1 DEF RunsOn, LastMessage, LastByte, L, N
      <4>3. RestAt(c, L).number = RestAt(c, i).number /\ RestAt(c, L).at = RestAt(c, i).at + (L - i)
        <5>1. CASE i = L
          BY <1>4, <3>2, <5>1
        <5>2. CASE i # L
          <6>1. i < L /\ RestAt(c, i).at + (L - i) <= size[RestAt(c, i).kind]
            BY <1>4, <3>1, <3>2, <4>1, <5>2
          <6> QED BY <1>2, <2>1, <3>1, <6>1 DEF RunsOn, WithinMessage, L
        <5> QED BY <5>1, <5>2
      <4>4. RestAt(c, L).kind = RestAt(c, i).kind
        BY <1>2, <2>1, <3>1, <4>3, RestByte DEF L
      <4>5. size[RestAt(c, L).kind] = size[RestAt(c, i).kind]
        BY <4>4
      <4>6. RestAt(c, i).at + (L - i) = size[RestAt(c, i).kind]
        BY <4>2, <4>3, <4>5, Zenon
      <4> QED BY <1>4, <3>2, <4>1, <4>6
    <3> QED BY <3>3, <3>4
  <2>2. CASE i \in L + 1 .. L + size[kind]
    <3>1. /\ RestAt(c, i)' = new(i - L) /\ RestAt(c, j)' = new(j - L)
          /\ j - L = (i - L) + (j - i)
      BY <1>3, <1>4, <2>2
    <3> QED BY <3>1
  <2> QED BY <1>7, <2>1, <2>2
<1>10. NextMessage(c)'
  <2> SUFFICES ASSUME NEW i \in 1 .. L + size[kind], NEW j \in 1 .. L + size[kind], j = i + 1,
                      RestAt(c, i)'.at = size[RestAt(c, i)'.kind]
               PROVE  /\ RestAt(c, j)'.number = RestAt(c, i)'.number + 1
                      /\ RestAt(c, j)'.at = 1
    BY <1>3 DEF NextMessage, LastByte
  <2>1. CASE i \in 1 .. L
    <3>1. RestAt(c, i)' = RestAt(c, i)
      BY <1>3, <2>1
    <3>2. CASE j \in 1 .. L
      BY <1>2, <1>3, <2>1, <3>1, <3>2 DEF RunsOn, NextMessage, LastByte, L
    <3>3. CASE ~(j \in 1 .. L)
      <4>1. i = L /\ j \in L + 1 .. L + size[kind] /\ j - L = 1
        BY <1>4, <2>1, <3>3
      <4>2. RestAt(c, i).number = N
        BY <1>2, <2>1, <4>1 DEF RunsOn, LastMessage, L, N
      <4>3. RestAt(c, j)' = new(1)
        BY <1>3, <4>1
      <4> QED BY <3>1, <4>2, <4>3
    <3> QED BY <3>2, <3>3
  <2>2. CASE i \in L + 1 .. L + size[kind]
    <3>1. RestAt(c, i)' = new(i - L)
      BY <1>3, <2>2
    <3>2. i - L = size[kind] /\ j <= L + size[kind]
      BY <3>1
    <3> QED BY <1>4, <2>2, <3>2
  <2> QED BY <1>7, <2>1, <2>2
<1>11. LastMessage(c)'
  <2>1. PICK i \in L + 1 .. L + size[kind] : i = L + size[kind] /\ i - L = size[kind]
    <3>1. PICK i \in Int : i = L + size[kind]
      BY <1>4
    <3>2. i \in L + 1 .. L + size[kind] /\ i - L = size[kind]
      BY <1>4, <3>1
    <3> QED BY <3>1, <3>2
  <2>2. RestAt(c, i)' = new(size[kind])
    BY <1>3, <2>1
  <2> QED BY <1>3, <1>4, <2>1, <2>2 DEF LastMessage, LastByte
<1>12. ASSUME c \notin cut PROVE InStep(c)' /\ HandledWhole(c)'
  <2>1. InStep(c) /\ HandledWhole(c)
    BY <1>2, <1>12
  <2>2. RestLen(c)' > 0
    BY <1>3, <1>4
  <2>3. RestAt(c, 1)'.number = Len(handled[c]) + 1 /\ RestAt(c, 1)'.at = 1
    <3>1. CASE L = 0
      <4>1. N = Len(handled[c]) /\ 1 \in L + 1 .. L + size[kind] /\ 1 - L = 1
        BY <1>4, <2>1, <3>1 DEF InStep, L, N
      <4>2. RestAt(c, 1)' = new(1)
        BY <1>3, <4>1
      <4> QED BY <4>1, <4>2
    <3>2. CASE L # 0
      <4>1. 1 \in 1 .. L /\ L > 0
        BY <1>4, <3>2
      <4> QED BY <1>3, <2>1, <4>1 DEF InStep, L
    <3> QED BY <3>1, <3>2
  <2>4. ASSUME Left(c) > 0 PROVE LastByte(RestAt(c, Left(c)))'
    <3>1. PICK l \in 1 .. L : l = Left(c)
      BY <1>4, <2>4
    <3>2. RestAt(c, l)' = RestAt(c, l) /\ LastByte(RestAt(c, l))
      BY <1>3, <2>1, <2>4, <3>1 DEF InStep
    <3> QED BY <1>4, <3>1, <3>2 DEF LastByte
  <2>5. (client = c => currentOffset <= readBytes)'
    BY <1>4, <2>1 DEF InStep
  <2>6. InStep(c)'
    BY <1>3, <1>4, <2>2, <2>3, <2>4, <2>5 DEF InStep
  <2>7. HandledWhole(c)'
    BY <1>3, <1>4, <2>1 DEF HandledWhole
  <2> QED BY <2>6, <2>7
<1>13. ASSUME NEW d \in Client \ cut, d # c PROVE InStep(d)' /\ HandledWhole(d)'
  <2>1. InStep(d) /\ HandledWhole(d) /\ SameRest(d)
    BY <1>2, <1>3, <1>13
  <2>2. Left(d)' = Left(d) /\ (client = d => currentOffset <= readBytes)'
    BY <1>4, <2>1 DEF Left, InStep
  <2> QED BY <1>2, <2>1, <2>2, InStepKept
<1>14. RunsOn(c)'
  BY <1>8, <1>9, <1>10, <1>11 DEF RunsOn
<1> QED BY <1>2, <1>3, <1>4, <1>5, <1>12, <1>13, <1>14, RunsOnKept DEF WholeInv

LEMMA ReadWhole ==
  ASSUME WholeInv, NEW c \in Client, Read(c)
  PROVE  WholeInv'
<1>1. PICK n \in 1 .. Len(incoming[c]) :
        /\ readBytes' = n
        /\ cut' = IF incoming[c][n].at = size[incoming[c][n].kind] THEN cut ELSE cut \cup {c}
  BY DEF Read
<1>2. /\ client = Nobody /\ client' = c /\ currentOffset' = 0
  BY DEF Read
<1>3. /\ OwnInv /\ \A d \in Client : RunsOn(d)
      /\ \A d \in Client \ cut : InStep(d) /\ HandledWhole(d)
  BY DEF WholeInv
<1>4. \A d \in Client : SameRest(d)
  BY <1>3, ReadView
<1>5. \A d \in Client : d # c => Left(d)' = 0
  BY <1>2 DEF Left
<1>6. n \in Nat \ {0} /\ Left(c) = 0 /\ Left(c)' = n /\ RestLen(c) = Len(incoming[c])
  <2>1. Len(incoming[c]) \in Nat
    BY <1>3, RestTypes
  <2>2. Left(c) = 0
    BY <1>2, FramingAssumption DEF Left
  <2> QED BY <1>1, <1>2, <2>1, <2>2 DEF Left, RestLen
<1>7. ASSUME c \notin cut' PROVE InStep(c)' /\ HandledWhole(c)'
  <2>1. c \notin cut /\ incoming[c][n].at = size[incoming[c][n].kind]
    BY <1>1, <1>7
  <2>2. /\ RestLen(c)' = RestLen(c) /\ UNCHANGED <<sent[c], handled[c]>>
        /\ \A i \in 1 .. RestLen(c) : RestAt(c, i)' = RestAt(c, i)
    BY <1>4 DEF SameRest
  <2>3. RestAt(c, n) = incoming[c][n]
    BY <1>6 DEF RestAt
  <2>4. LastByte(RestAt(c, n)')
    BY <1>6, <2>1, <2>2, <2>3 DEF LastByte
  <2>5. InStep(c) /\ HandledWhole(c)
    BY <1>3, <2>1
  <2>6. RestLen(c) > 0 => RestAt(c, 1)' = RestAt(c, 1)
    BY <1>6, <2>2
  <2>7. (Left(c) > 0 => LastByte(RestAt(c, Left(c))))'
    BY <1>6, <2>4 DEF LastByte
  <2>8. (client = c => currentOffset <= readBytes)'
    BY <1>1, <1>2, <1>6
  <2>9. InStep(c)'
    BY <2>2, <2>5, <2>6, <2>7, <2>8 DEF InStep
  <2> QED BY <2>2, <2>5, <2>9 DEF HandledWhole
<1>8. ASSUME NEW d \in Client, d \notin cut', d # c PROVE InStep(d)' /\ HandledWhole(d)'
  <2>1. InStep(d) /\ HandledWhole(d)
    BY <1>1, <1>3, <1>8
  <2>2. (client = d => currentOffset <= readBytes)'
    BY <1>2, <1>8
  <2> QED BY <1>3, <1>4, <1>5, <1>8, <2>1, <2>2, InStepKept
<1>9. OwnInv'
  BY <1>3, ReadOwn
<1> QED BY <1>3, <1>4, <1>7, <1>8, <1>9, RunsOnKept DEF WholeInv

(* What is taken from a stream in step is the next message, whole. *)
LEMMA NextWhole ==
  ASSUME OwnInv, NEW c \in Client, client = c, currentOffset < readBytes,
         RunsOn(c), InStep(c),
         \A i \in 1 .. Left(c) : at(currentOffset + i) = RestAt(c, i),
         NEW k \in messageSizes(currentOffset)
  PROVE  LET H == Len(handled[c])
         IN  /\ H \in Nat /\ H + 1 \in 1 .. Len(sent[c]) /\ k = size[sent[c][H + 1]]
             /\ k \in Nat \ {0} /\ k <= Left(c)
             /\ message(currentOffset, k) = packet(c, H + 1, sent[c][H + 1])
             /\ RestAt(c, k).number = H + 1 /\ LastByte(RestAt(c, k))
<1> DEFINE H == Len(handled[c])
           kind == sent[c][H + 1]
           s == size[kind]
<1>1. /\ Left(c) \in Nat /\ RestLen(c) \in Nat /\ Left(c) <= RestLen(c) /\ Left(c) > 0
      /\ H \in Nat
  <2>1. Left(c) \in Nat /\ RestLen(c) \in Nat /\ Left(c) <= RestLen(c)
    BY RestTypes DEF RestLen
  <2>2. readBytes \in Int /\ currentOffset \in Int /\ handled[c] \in Seq(Messages)
    BY DEF OwnInv, StreamTypes
  <2>3. Left(c) > 0
    BY <2>2 DEF Left
  <2> QED BY <2>1, <2>2, <2>3
<1> HIDE DEF H
<1>2. 1 \in 1 .. RestLen(c) /\ RestAt(c, 1).number = H + 1 /\ RestAt(c, 1).at = 1
  BY <1>1 DEF InStep, H
<1>3. /\ H + 1 \in 1 .. Len(sent[c]) /\ RestAt(c, 1).kind = kind /\ s \in Nat \ {0}
      /\ RestAt(c, 1).from = c
  BY <1>2, RestByte
<1>4. ASSUME NEW i \in 1 .. RestLen(c), i <= s
      PROVE  RestAt(c, i) = [from |-> c, number |-> H + 1, at |-> i, kind |-> kind]
  <2>1. RestAt(c, i).number = H + 1 /\ RestAt(c, i).at = i
    <3>1. CASE i = 1
      BY <1>2, <3>1
    <3>2. CASE i # 1
      <4>1. 1 < i /\ RestAt(c, 1).at + (i - 1) <= size[RestAt(c, 1).kind]
        BY <1>2, <1>3, <1>4, <3>2
      <4>2. /\ RestAt(c, i).number = RestAt(c, 1).number
            /\ RestAt(c, i).at = RestAt(c, 1).at + (i - 1)
        BY <1>2, <4>1 DEF RunsOn, WithinMessage
      <4> QED BY <1>2, <4>2
    <3> QED BY <3>1, <3>2
  <2> QED BY <2>1, RestByte
<1> HIDE DEF kind, s
<1>5. s <= Left(c)
  <2> SUFFICES ASSUME Left(c) < s PROVE FALSE
    BY <1>1, <1>3
  <2>1. RestAt(c, Left(c)).at = Left(c) /\ RestAt(c, Left(c)).kind = kind
    BY <1>1, <1>3, <1>4
  <2>2. LastByte(RestAt(c, Left(c)))
    BY <1>1 DEF InStep
  <2> QED BY <1>1, <1>3, <2>1, <2>2 DEF LastByte, s
<1>6. \A i \in 1 .. s : at(currentOffset + i) =
                          [from |-> c, number |-> H + 1, at |-> i, kind |-> kind]
  BY <1>1, <1>3, <1>4, <1>5
<1>7. k = s
  <2>1. kind \in Kind /\ 1 \in 1 .. s /\ 1 .. TypeLength \subseteq 1 .. s
    <3>1. kind \in Kind
      BY <1>2, <1>3, RestByte
    <3> QED BY <1>3, <3>1, FramingAssumption DEF s
  <2>2. at(currentOffset + 1) = [from |-> c, number |-> H + 1, at |-> 1, kind |-> kind]
    BY <1>6, <2>1
  <2>3. TypeAt(currentOffset)
    BY <1>6, <2>1, <2>2 DEF TypeAt
  <2> QED BY <2>2, <2>3 DEF messageSizes, s
<1>8. message(currentOffset, k) = packet(c, H + 1, kind)
  BY <1>6, <1>7 DEF message, packet, s
<1>9. RestAt(c, k).number = H + 1 /\ LastByte(RestAt(c, k))
  <2>1. k \in 1 .. RestLen(c) /\ k <= s
    BY <1>1, <1>3, <1>5, <1>7
  <2> QED BY <1>4, <1>7, <2>1 DEF LastByte, s
<1> QED BY <1>1, <1>3, <1>5, <1>7, <1>8, <1>9 DEF H, kind, s

LEMMA HandleMessageWhole ==
  ASSUME WholeInv, HandleMessage
  PROVE  WholeInv'
<1>1. PICK k \in messageSizes(currentOffset) :
        /\ handled' = [handled EXCEPT ![client] = Append(@, message(currentOffset, k))]
        /\ currentOffset' = currentOffset + k
  BY DEF HandleMessage
<1>2. /\ OwnInv /\ \A d \in Client : RunsOn(d)
      /\ \A d \in Client \ cut : InStep(d) /\ HandledWhole(d)
  BY DEF WholeInv
<1>3. PICK c \in Client : client = c
  BY <1>2 DEF HandleMessage, OwnInv, StreamTypes
<1>4. k \in Nat \ {0}
  BY <1>2, <1>3, MessageSize
<1>5. /\ currentOffset < readBytes
      /\ UNCHANGED <<sent, incoming, recvBuf, client, readBytes, cut>>
  BY DEF HandleMessage
<1>6. Left(c) \in Nat /\ RestLen(c) \in Nat /\ Left(c) <= RestLen(c)
  BY <1>2, RestTypes DEF RestLen
<1> DEFINE m == message(currentOffset, k)
           L == RestLen(c)
<1>7. PICK t \in Nat : t = IF k <= Left(c) THEN k ELSE Left(c)
  BY <1>4, <1>6
<1>8. handled' = [handled EXCEPT ![c] = Append(handled[c], m)]
  BY <1>1, <1>3
<1>9. /\ \A d \in Client \ {c} : SameRest(d)
      /\ t \in 1 .. Left(c) /\ Left(c)' = Left(c) - t
      /\ RestLen(c)' = L - t
      /\ \A i \in 1 .. L - t : RestAt(c, i)' = RestAt(c, i + t)
      /\ \A i \in 1 .. Left(c) : at(currentOffset + i) = RestAt(c, i)
  BY <1>1, <1>2, <1>3, <1>4, <1>5, <1>7, <1>8, HandleView
<1> HIDE DEF m, L
<1>10. /\ L \in Nat /\ RunsOn(c) /\ RestLen(c) = L /\ SentBytes(c)' = SentBytes(c)
       /\ \A i \in 1 .. L - t : i + t \in 1 .. L
  BY <1>2, <1>5, <1>6, <1>9 DEF L, SentBytes
<1>11. RunsOn(c)'
  <2>1. RestSent(c)'
    BY <1>9, <1>10 DEF RunsOn, RestSent
  <2>2. WithinMessage(c)'
    <3> SUFFICES ASSUME NEW i \in 1 .. L - t, NEW j \in 1 .. L - t, i < j,
                        RestAt(c, i + t).at + (j - i) <= size[RestAt(c, i + t).kind]
                 PROVE  /\ RestAt(c, j + t).number = RestAt(c, i + t).number
                        /\ RestAt(c, j + t).at = RestAt(c, i + t).at + (j - i)
      BY <1>9 DEF WithinMessage
    <3>1. PICK a \in 1 .. L, b \in 1 .. L : a = i + t /\ b = j + t
      BY <1>10
    <3>2. a < b /\ b - a = j - i
      BY <3>1
    <3> QED BY <1>10, <3>1, <3>2 DEF RunsOn, WithinMessage
  <2>3. NextMessage(c)'
    <3> SUFFICES ASSUME NEW i \in 1 .. L - t, NEW j \in 1 .. L - t, j = i + 1,
                        LastByte(RestAt(c, i + t))
                 PROVE  /\ RestAt(c, j + t).number = RestAt(c, i + t).number + 1
                        /\ RestAt(c, j + t).at = 1
      BY <1>9 DEF NextMessage, LastByte
    <3>1. PICK a \in 1 .. L, b \in 1 .. L : a = i + t /\ b = j + t
      BY <1>10
    <3>2. b = a + 1
      BY <3>1
    <3> QED BY <1>10, <3>1, <3>2 DEF RunsOn, NextMessage
  <2>4. LastMessage(c)'
    <3> SUFFICES ASSUME NEW i \in 1 .. L - t, i = L - t
                 PROVE  RestAt(c, i + t).number = Len(sent[c]) /\ LastByte(RestAt(c, i + t))
      BY <1>5, <1>9 DEF LastMessage, LastByte
    <3>1. PICK a \in 1 .. L : a = i + t /\ a = L
      BY <1>10
    <3> QED BY <1>10, <3>1 DEF RunsOn, LastMessage
  <2> QED BY <2>1, <2>2, <2>3, <2>4 DEF RunsOn
<1>12. ASSUME c \notin cut PROVE InStep(c)' /\ HandledWhole(c)'
  <2> DEFINE H == Len(handled[c])
  <2>1. InStep(c) /\ HandledWhole(c)
    BY <1>2, <1>12
  <2>2. /\ H \in Nat /\ H + 1 \in 1 .. Len(sent[c]) /\ k = size[sent[c][H + 1]]
        /\ k <= Left(c)
        /\ m = packet(c, H + 1, sent[c][H + 1])
        /\ RestAt(c, k).number = H + 1 /\ LastByte(RestAt(c, k))
    BY <1>2, <1>3, <1>5, <1>9, <2>1, NextWhole DEF m
  <2>3. t = k /\ k \in 1 .. L /\ Left(c) <= L
    BY <1>4, <1>6, <1>7, <2>2 DEF L
  <2>4. /\ handled[c] \in Seq(Messages) /\ handled'[c] = Append(handled[c], m)
        /\ DOMAIN sent[c] = 1 .. Len(sent[c])
        /\ readBytes \in Int /\ currentOffset \in Int
    BY <1>2, <1>8 DEF OwnInv, StreamTypes
  <2> HIDE DEF H
  <2>5. /\ Len(handled'[c]) = H + 1 /\ DOMAIN handled'[c] = 1 .. H + 1
        /\ DOMAIN handled[c] = 1 .. H
        /\ handled'[c][H + 1] = m /\ \A n \in 1 .. H : handled'[c][n] = handled[c][n]
    BY <2>4 DEF H
  <2>6. HandledWhole(c)'
    <3> SUFFICES ASSUME NEW n \in 1 .. H + 1
                 PROVE  n \in DOMAIN sent[c] /\ handled'[c][n] = packet(c, n, sent[c][n])
      BY <1>5, <2>5 DEF HandledWhole
    <3>1. n \in 1 .. H \/ n = H + 1
      BY <2>2
    <3> QED BY <2>1, <2>2, <2>4, <2>5, <3>1 DEF HandledWhole
  <2>7. L - t = 0 => Len(sent[c]) = H + 1
    <3> SUFFICES ASSUME L = k PROVE Len(sent[c]) = H + 1
      BY <1>10, <2>3
    <3> QED BY <1>10, <2>2, <2>3 DEF RunsOn, LastMessage
  <2>8. ASSUME L - t > 0
        PROVE  RestAt(c, 1)'.number = H + 2 /\ RestAt(c, 1)'.at = 1
    <3>1. PICK a \in 1 .. L : a = 1 + t /\ a = k + 1
      BY <1>10, <2>3, <2>8
    <3>2. 1 \in 1 .. L - t /\ RestAt(c, 1)' = RestAt(c, 1 + t)
      BY <1>9, <1>10, <2>3, <2>8
    <3>3. RestAt(c, a).number = RestAt(c, k).number + 1 /\ RestAt(c, a).at = 1
      BY <1>10, <2>2, <2>3, <3>1 DEF RunsOn, NextMessage
    <3> QED BY <2>2, <3>1, <3>2, <3>3
  <2>9. (client = c => currentOffset <= readBytes)'
    <3>1. Left(c) = readBytes - currentOffset
      BY <1>3, <1>5 DEF Left
    <3> QED BY <1>1, <1>4, <1>5, <2>2, <2>4, <3>1
  <2>10. ASSUME Left(c)' > 0 PROVE LastByte(RestAt(c, Left(c)))'
    <3>1. PICK l \in 1 .. L - t : l = Left(c)' /\ l + t = Left(c)
      BY <1>6, <1>9, <1>10, <2>3, <2>10
    <3>2. RestAt(c, l)' = RestAt(c, l + t) /\ LastByte(RestAt(c, Left(c)))
      BY <1>6, <1>9, <2>1, <3>1 DEF InStep
    <3> QED BY <3>1, <3>2 DEF LastByte
  <2>11. /\ (RestLen(c) = 0 => Len(sent[c]) = Len(handled[c]))'
         /\ (RestLen(c) > 0 => RestAt(c, 1).number = Len(handled[c]) + 1 /\ RestAt(c, 1).at = 1)'
    BY <1>5, <1>9, <2>2, <2>5, <2>7, <2>8
  <2> QED BY <2>6, <2>9, <2>10, <2>11 DEF InStep
<1>13. ASSUME NEW d \in Client, d \notin cut, d # c PROVE InStep(d)' /\ HandledWhole(d)'
  <2>1. InStep(d) /\ HandledWhole(d) /\ SameRest(d)
    BY <1>2, <1>9, <1>13
  <2>2. Left(d)' = 0 /\ (client = d => currentOffset <= readBytes)'
    BY <1>3, <1>5, <1>13 DEF Left
  <2> QED BY <1>2, <2>1, <2>2, InStepKept
<1>14. OwnInv'
  BY <1>2, HandleMessageOwn
<1> QED BY <1>2, <1>5, <1>9, <1>11, <1>12, <1>13, <1>14, RunsOnKept DEF WholeInv

(* As long as reads end where messages do, clients' messages are handled     *)
(* whole, one by one and in order: the buffer is then always at the           *)
(* beginning of the next message.                                            *)
THEOREM WholeMessages == Spec => []MessagesWhole
<1>1. ASSUME Init PROVE WholeInv
  <2>1. OwnInv
    BY <1>1, InitOwn
  <2>2. ASSUME NEW c \in Client PROVE RunsOn(c) /\ InStep(c) /\ HandledWhole(c)
    <3>1. /\ sent[c] = <<>> /\ incoming[c] = <<>> /\ handled[c] = <<>>
          /\ client # c
      BY <1>1, FramingAssumption DEF Init
    <3>2. RestLen(c) = 0 /\ Left(c) = 0
      BY <3>1 DEF RestLen, Left
    <3>3. RunsOn(c)
      BY <3>2 DEF RunsOn, RestSent, WithinMessage, NextMessage, LastMessage
    <3>4. InStep(c) /\ HandledWhole(c)
      BY <3>1, <3>2 DEF InStep, HandledWhole
    <3> QED BY <3>3, <3>4
  <2> QED BY <2>1, <2>2 DEF WholeInv
<1>2. ASSUME WholeInv, [Next]_vars PROVE WholeInv'
  <2>1. /\ OwnInv /\ \A c \in Client : RunsOn(c)
        /\ \A c \in Client \ cut : InStep(c) /\ HandledWhole(c)
    BY <1>2 DEF WholeInv
  <2>2. ASSUME UNCHANGED vars PROVE WholeInv'
    <3>1. OwnInv'
      BY <2>1, <2>2 DEF vars, OwnInv, StreamTypes, StreamsOwn, BufferOwn, NothingOfOthers
    <3>2. \A c \in Client : SameRest(c) /\ Left(c)' = Left(c)
      BY <2>2 DEF vars, SameRest, RestLen, RestAt, Left
    <3>3. \A c \in Client : InStep(c) => (client = c => currentOffset <= readBytes)'
      BY <2>2 DEF vars, InStep
    <3>4. cut' = cut
      BY <2>2 DEF vars
    <3> QED BY <2>1, <3>1, <3>2, <3>3, <3>4, RunsOnKept, InStepKept DEF WholeInv
  <2>3. ASSUME ClientDone PROVE WholeInv'
    <3>1. OwnInv' /\ \A c \in Client : SameRest(c)
      BY <2>1, <2>3, ClientDoneOwn, DoneView
    <3>2. \A c \in Client : Left(c)' = 0 /\ (client = c => currentOffset <= readBytes)'
      BY <2>3, FramingAssumption DEF ClientDone, Left
    <3>3. cut' = cut
      BY <2>3 DEF ClientDone
    <3> QED BY <2>1, <3>1, <3>2, <3>3, RunsOnKept, InStepKept DEF WholeInv
  <2> QED BY <1>2, <2>2, <2>3, PeerSendWhole, ReadWhole, HandleMessageWhole DEF Next
<1>3. WholeInv => MessagesWhole
  BY DEF WholeInv, HandledWhole, MessagesWhole
<1> QED BY <1>1, <1>2, <1>3, PTL DEF Spec

=============================================================================
