------------------------------- MODULE Framing -------------------------------
(***************************************************************************)
(* How MessageHandler::handleClientMessages cuts what it reads into        *)
(* messages.  All clients share one receive buffer.  A read takes what has *)
(* arrived of a client's stream, at most the buffer's length; then message *)
(* after message is taken from the buffer, each as long as its type says,  *)
(* even past what was read, or past the buffer; at last the buffer is set  *)
(* to zero.                                                                *)
(*                                                                         *)
(* A byte is abstracted to where it comes from.  The order in which the    *)
(* loop visits the clients, and what the messages do, are in Sessions.     *)
(***************************************************************************)
EXTENDS Integers, Sequences, SequencesExt

CONSTANTS
  Client, Nobody,
  Kind, NoKind,    \* message types
  size,            \* get_message_size of each
  TypeLength,      \* bytes of the type, with which a message begins
  maxRecvBufLen,
  MaxMessages      \* bound: messages each client sends

ASSUME FramingAssumption ==
  /\ Nobody \notin Client
  /\ NoKind \notin Kind
  /\ TypeLength \in Nat \ {0}
  /\ size \in [Kind -> Nat]
  /\ \A k \in Kind : size[k] >= TypeLength
  /\ maxRecvBufLen \in Nat \ {0}
  /\ MaxMessages \in [Client -> Nat]

Byte ==
  [from : Client, number : Nat, at : Nat, kind : Kind]

(* What memset leaves, and what lies beyond the buffer. *)
Zero == [from |-> Nobody, number |-> 0, at |-> 0, kind |-> NoKind]
Junk == [from |-> Nobody, number |-> 0, at |-> 1, kind |-> NoKind]

VARIABLES
  sent,           \* the types of the messages each client sent; history
  incoming,       \* the bytes of each client that were not read yet
  recvBuf,        \* _pRecvBuf
  client,         \* whose messages are being handled, or Nobody
  readBytes, currentOffset,
  handled,        \* the messages handled for each client; history
  cut             \* clients of which a read ended within a message; history

vars == <<sent, incoming, recvBuf, client, readBytes, currentOffset, handled, cut>>

Slots == 1 .. maxRecvBufLen

(* The bytes of the n-th message of c. *)
packet(c, n, kind) ==
  [i \in 1 .. size[kind] |-> [from |-> c, number |-> n, at |-> i, kind |-> kind]]

Init ==
  /\ sent = [c \in Client |-> <<>>]
  /\ incoming = [c \in Client |-> <<>>]
  /\ recvBuf = [i \in Slots |-> Zero]
  /\ client = Nobody
  /\ readBytes = 0
  /\ currentOffset = 0
  /\ handled = [c \in Client |-> <<>>]
  /\ cut = {}

-----------------------------------------------------------------------------
(* The peers *)
PeerSend(c) ==
  /\ Len(sent[c]) < MaxMessages[c]
  /\ \E kind \in Kind :
       /\ sent' = [sent EXCEPT ![c] = Append(@, kind)]
       /\ incoming' = [incoming EXCEPT ![c] = @ \o packet(c, Len(sent[c]) + 1, kind)]
  /\ UNCHANGED <<recvBuf, client, readBytes, currentOffset, handled, cut>>

(* Mutant: one byte more than there is room for. *)
Read_oneMore(c) ==
  /\ client = Nobody
  /\ \E n \in 1 .. Len(incoming[c]) :
       /\ n <= maxRecvBufLen + 1
       /\ readBytes' = n
       /\ recvBuf' = [i \in Slots |-> IF i <= n THEN incoming[c][i] ELSE recvBuf[i]]
       /\ incoming' = [incoming EXCEPT ![c] = SubSeq(@, n + 1, Len(@))]
       /\ cut' = IF incoming[c][n].at = size[incoming[c][n].kind] THEN cut ELSE cut \cup {c}
  /\ client' = c
  /\ currentOffset' = 0
  /\ UNCHANGED <<sent, handled>>

(* TCP delivers any beginning of what was sent. *)
Read(c) ==
  /\ client = Nobody
  /\ \E n \in 1 .. Len(incoming[c]) :
       /\ n <= maxRecvBufLen
       /\ readBytes' = n
       /\ recvBuf' = [i \in Slots |-> IF i <= n THEN incoming[c][i] ELSE recvBuf[i]]
       /\ incoming' = [incoming EXCEPT ![c] = SubSeq(@, n + 1, Len(@))]
       /\ cut' = IF incoming[c][n].at = size[incoming[c][n].kind] THEN cut ELSE cut \cup {c}
  /\ client' = c
  /\ currentOffset' = 0
  /\ UNCHANGED <<sent, handled>>

at(i) == IF i \in Slots THEN recvBuf[i] ELSE Junk

(* What the type is read from is a type. *)
TypeAt(offset) ==
  /\ at(offset + 1).from \in Client
  /\ \A i \in 1 .. TypeLength : at(offset + i) = [at(offset + 1) EXCEPT !.at = i]

(* Anything else may have the size of any type.  (get_message_size is not  *)
(* in the repository.  Should it answer 0 to a type it does not know, the  *)
(* loop never moves on: here the handler then stutters.)                   *)
messageSizes(offset) ==
  IF TypeAt(offset) THEN {size[at(offset + 1).kind]} ELSE {size[kind] : kind \in Kind}

(* Mutant: the message at the beginning of the buffer. *)
message_atStart(offset, messageSize) == [i \in 1 .. messageSize |-> at(i)]

message(offset, messageSize) == [i \in 1 .. messageSize |-> at(offset + i)]

(* Mutant: one message of each read. *)
HandleMessage_firstOnly ==
  /\ client # Nobody
  /\ currentOffset < readBytes
  /\ \E messageSize \in messageSizes(currentOffset) :
       handled' = [handled EXCEPT ![client] = Append(@, message(currentOffset, messageSize))]
  /\ currentOffset' = readBytes
  /\ UNCHANGED <<sent, incoming, recvBuf, client, readBytes, cut>>

HandleMessage ==
  /\ client # Nobody
  /\ currentOffset < readBytes
  /\ \E messageSize \in messageSizes(currentOffset) :
       /\ handled' = [handled EXCEPT ![client] = Append(@, message(currentOffset, messageSize))]
       /\ currentOffset' = currentOffset + messageSize
  /\ UNCHANGED <<sent, incoming, recvBuf, client, readBytes, cut>>

(* Mutant: the buffer is not cleared. *)
ClientDone_keepsBuffer ==
  /\ client # Nobody
  /\ currentOffset >= readBytes
  /\ client' = Nobody
  /\ UNCHANGED <<sent, incoming, recvBuf, readBytes, currentOffset, handled, cut>>

ClientDone ==
  /\ client # Nobody
  /\ currentOffset >= readBytes
  /\ client' = Nobody
  /\ recvBuf' = [i \in Slots |-> Zero]
  /\ UNCHANGED <<sent, incoming, readBytes, currentOffset, handled, cut>>

Next ==
  \/ \E c \in Client : PeerSend(c) \/ Read(c)
  \/ HandleMessage
  \/ ClientDone

Spec == Init /\ [][Next]_vars

-----------------------------------------------------------------------------
FramingTypeOK ==
  /\ \A c \in Client :
       /\ sent[c] \in Seq(Kind)
       /\ incoming[c] \in Seq(Byte)
       /\ handled[c] \in Seq(Seq(Byte \cup {Zero, Junk}))
  /\ recvBuf \in [Slots -> Byte \cup {Zero}]
  /\ client \in Client \cup {Nobody}
  /\ readBytes \in 0 .. maxRecvBufLen
  /\ currentOffset \in Nat
  /\ cut \subseteq Client

(* The buffer is shared, but what is handled for a client holds nothing    *)
(* another one sent, however short its messages were cut.                  *)
NothingOfOthers ==
  \A c \in Client : \A n \in DOMAIN handled[c] : \A i \in DOMAIN handled[c][n] :
    handled[c][n][i].from \in {c, Nobody}

(* As long as every read ends where a message does, what is handled for a  *)
(* client are the messages it sent, whole, one by one and in their order,  *)
(* also where several arrived at once ("Atm with websockify multiple       *)
(* messages may be concatenated").                                         *)
MessagesWhole ==
  \A c \in Client \ cut : \A n \in DOMAIN handled[c] :
    /\ n \in DOMAIN sent[c]
    /\ handled[c][n] = packet(c, n, sent[c][n])

(* Where a client's bytes are: in the messages handled for it, in the       *)
(* buffer, or not read yet.  A place is the number of a part and a         *)
(* position in it.                                                         *)
unhandled(c) ==
  [i \in 1 .. (IF client = c THEN readBytes - currentOffset ELSE 0) |->
     recvBuf[currentOffset + i]]

Parts(c) == handled[c] \o <<unhandled(c), incoming[c]>>

Places(parts, c) ==
  {p \in UNION {{n} \X DOMAIN parts[n] : n \in DOMAIN parts} : parts[p[1]][p[2]].from = c}

SentBytes(c) == UNION {Range(packet(c, n, sent[c][n])) : n \in DOMAIN sent[c]}

Earlier(p, q) == p[1] < q[1] \/ (p[1] = q[1] /\ p[2] < q[2])

(* However reads are cut and types misread, no byte that a client sent is  *)
(* lost, or handled twice, or out of order: the bytes at all places are    *)
(* those sent, and a later place has a later byte.                         *)
EveryByteOnce ==
  \A c \in Client :
    LET parts == Parts(c)
        places == Places(parts, c)
        byte(p) == parts[p[1]][p[2]]
    IN  /\ {byte(p) : p \in places} = SentBytes(c)
        /\ \A p, q \in places : Earlier(p, q) =>
             Earlier(<<byte(p).number, byte(p).at>>, <<byte(q).number, byte(q).at>>)
=============================================================================
