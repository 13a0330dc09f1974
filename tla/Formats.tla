------------------------------ MODULE Formats ------------------------------
(***************************************************************************)
(* What travels: the texts of signals and negotiation messages and the two *)
(* tables of error codes (src/src/protocol/signal.rs, webrtc/, error/), the *)
(* discovery packets that carry them and the data of a server              *)
(* (src/src/protocol/packet/discovery/).                                   *)
(*                                                                         *)
(* A text is the sequence of its words, which single spaces separate.  A   *)
(* word is a number: the numeral of a u64 stands for itself, and every     *)
(* other word is negative.  Packets are described by their lengths.        *)
(***************************************************************************)
EXTENDS Integers, Sequences

Words    == Int
Numerals == Nat

\* SignalType::as_str, and a word that is empty or only white space.
SignalTypes == -4..-1
CONNECTREQUEST  == -1
CONNECTRESPONSE == -2
CANDIDATEADD    == -3
CONNECTERROR    == -4
BLANK           == -5

Texts == Seq(Words) \ {<<>>}

Rest(text) == SubSeq(text, 3, Len(text))
-----------------------------------------------------------------------------
(* The errors, numbered in the order in which both enumerations list them:
   None, DestinationNotLoggedIn, ..., SignalingUnicastMessageDeliveryFailed
   (19), SignalingBroadcastDeliveryFailed (20), ..., SignalingFailedToSend. *)
Errors == 0..26

SignalingUnknownError == 18

\* SignalErrorCode as u32, and back.
SignalErrorCode(error) == error

FromU32(code) == IF code \in Errors THEN code ELSE SignalingUnknownError

\* ConnectError::code, and from_code: 0x14 is no error's.
ConnectErrorCode(error) == IF error <= 19 THEN error ELSE error + 1

KnownCode(code) == code \in 0..27 \ {20}

FromCode(code) == IF code <= 19 THEN code ELSE code - 1
-----------------------------------------------------------------------------
SignalMessages == [signal_type : SignalTypes, connection_id : Numerals, data : Texts]

\* Signal::error
SignalError(connection, error) ==
  [signal_type |-> CONNECTERROR, connection_id |-> connection, data |-> <<SignalErrorCode(error)>>]

\* Signal::fmt
SignalText(signal) == <<signal.signal_type, signal.connection_id>> \o signal.data

\* Signal::from_string
IsSignal(text) == Len(text) >= 3 /\ text[1] \in SignalTypes /\ text[2] \in Numerals

FromString(text) == [signal_type |-> text[1], connection_id |-> text[2], data |-> Rest(text)]
-----------------------------------------------------------------------------
Blank(text) == \A k \in DOMAIN text : text[k] = BLANK

Negotiations ==
  [message_type : SignalTypes \ {CONNECTERROR}, connection_id : Numerals, payload : Texts]
    \cup [message_type : {CONNECTERROR}, connection_id : Numerals, error : Errors]

\* NegotiationMessage::fmt
NegotiationText(message) ==
  <<message.message_type, message.connection_id>>
    \o IF message.message_type = CONNECTERROR THEN <<ConnectErrorCode(message.error)>>
                                              ELSE message.payload

\* NegotiationMessage::parse; the error code is a u8.
IsNegotiation(text) ==
  /\ Len(text) >= 3 /\ text[1] \in SignalTypes /\ text[2] \in Numerals
  /\ IF text[1] = CONNECTERROR
     THEN Len(text) = 3 /\ text[3] \in 0..255 /\ KnownCode(text[3])
     ELSE ~Blank(Rest(text))

Parse(text) ==
  IF text[1] = CONNECTERROR
  THEN [message_type |-> text[1], connection_id |-> text[2], error |-> FromCode(text[3])]
  ELSE [message_type |-> text[1], connection_id |-> text[2], payload |-> Rest(text)]
-----------------------------------------------------------------------------
(* ServerData; its names by their lengths in bytes. *)
Bytes == 0..255
I32   == (-2147483647 - 1)..2147483647

ServerDatas ==
  [server_name : Nat, level_name : Nat, game_type : Bytes, player_count : I32,
   max_player_count : I32, editor_world : BOOLEAN, hardcore : BOOLEAN,
   transport_layer : Bytes, connection_type : Bytes]

(* Its encoding, field by field: rest is what follows the last field, and
   utf8 whether both names are UTF-8, as those of a String are. *)
EncodedDatas ==
  [version : Bytes, server_name : Bytes, level_name : Bytes, utf8 : BOOLEAN,
   game_type : Bytes, player_count : I32, max_player_count : I32, editor_world : Bytes,
   hardcore : Bytes, transport_layer : Bytes, connection_type : Bytes, rest : Nat]

VERSION == 4

AsByte(flag) == IF flag THEN 1 ELSE 0

\* ServerData::marshal: a name is written with a length byte.
CanMarshalData(data) ==
  /\ data.game_type < 128 /\ data.transport_layer < 128 /\ data.connection_type < 128
  /\ data.server_name <= 255 /\ data.level_name <= 255

MarshalData(data) ==
  [version |-> VERSION, server_name |-> data.server_name, level_name |-> data.level_name,
   utf8 |-> TRUE, game_type |-> 2 * data.game_type,
   player_count |-> data.player_count, max_player_count |-> data.max_player_count,
   editor_world |-> AsByte(data.editor_world), hardcore |-> AsByte(data.hardcore),
   transport_layer |-> 2 * data.transport_layer, connection_type |-> 2 * data.connection_type,
   rest |-> 0]

\* ServerData::unmarshal
CanUnmarshalData(encoded) == encoded.version = VERSION /\ encoded.utf8 /\ encoded.rest = 0

UnmarshalData(encoded) ==
  [server_name |-> encoded.server_name, level_name |-> encoded.level_name,
   game_type |-> encoded.game_type \div 2,
   player_count |-> encoded.player_count, max_player_count |-> encoded.max_player_count,
   editor_world |-> encoded.editor_world # 0, hardcore |-> encoded.hardcore # 0,
   transport_layer |-> encoded.transport_layer \div 2,
   connection_type |-> encoded.connection_type \div 2]

\* The bytes of an encoding: the version, two names with their lengths, 13 more.
DataLength(encoded) == 1 + (1 + encoded.server_name) + (1 + encoded.level_name) + 13 + encoded.rest
-----------------------------------------------------------------------------
(* Discovery packets: a length of two bytes, the header, and the fields of
   the packet, which is nothing in a request. *)
MAX_BYTES   == 16777216
HEADER_SIZE == 18
U16MAX      == 65535

\* ResponsePacket::write: a u32 and two hex digits for each byte.
ResponseLength(data) == 4 + 2 * data

\* MessagePacket::write: the recipient, a u32 and the text.
MessageLength(text) == 8 + 4 + text

PayloadLength(fields) == 2 + HEADER_SIZE + fields

\* marshal; write_bytes refuses what is longer than MAX_BYTES first.
CanMarshal(fields) == fields <= 12 + MAX_BYTES /\ PayloadLength(fields) <= U16MAX

\* encrypt: PKCS7 padding, a whole block when the length is a multiple of 16.
Padded(length) == length + (16 - (length % 16))

\* A checksum of 32 bytes before the encrypted payload.
DatagramLength(fields) == 32 + Padded(PayloadLength(fields))

\* What a UDP datagram can carry over IPv4 (external): send_to fails above it.
MAX_DATAGRAM == 65507

CanSend(fields) == CanMarshal(fields) /\ DatagramLength(fields) <= MAX_DATAGRAM

\* Mutant: the buffer is smaller.
RECV_BUFFER_2048 == 2048

(* The buffer of the background task.  What is longer is cut off there, and
   refused by unmarshal, as the checksum is that of the whole. *)
RECV_BUFFER == 4096

CanReceive(fields) == CanMarshal(fields) /\ DatagramLength(fields) <= RECV_BUFFER
=============================================================================
