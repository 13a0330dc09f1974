--------------------------- MODULE FormatsProofs ---------------------------
(***************************************************************************)
(* What is written is read back, for every signal, negotiation message,    *)
(* error and server data, and which datagrams a node can receive.          *)
(***************************************************************************)
EXTENDS Formats, SequenceTheorems, TLAPS

LEMMA RestOfText ==
  ASSUME NEW kind \in Words, NEW id \in Words, NEW data \in Texts
  PROVE  LET text == <<kind, id>> \o data IN
         /\ text \in Texts /\ Len(text) >= 3 /\ Len(text) = Len(data) + 2
         /\ text[1] = kind /\ text[2] = id
         /\ Rest(text) = data
         /\ \A k \in 1..Len(data) : text[k + 2] = data[k]
<1> DEFINE text == <<kind, id>> \o data
<1>1. /\ data \in Seq(Int) /\ Len(data) \in Nat \ {0} /\ <<kind, id>> \in Seq(Int)
  <2>1. data \in Seq(Int) /\ <<kind, id>> \in Seq(Int)
    BY DEF Texts, Words
  <2>2. Len(data) # 0
    BY <2>1, EmptySeq DEF Texts, Words
  <2> QED  BY <2>1, <2>2
<1>2. text \in Seq(Int) /\ Len(text) = Len(data) + 2
  BY <1>1
<1>3. text[1] = kind /\ text[2] = id /\ \A k \in 1..Len(data) : text[k + 2] = data[k]
  BY <1>1
<1>4. Rest(text) = data
  <2>1. Rest(text) \in Seq(Int) /\ Len(Rest(text)) = Len(data)
    BY <1>1, <1>2 DEF Rest
  <2>2. \A k \in 1..Len(data) : Rest(text)[k] = data[k]
    BY <1>1, <1>2, <1>3 DEF Rest
  <2> QED  BY <1>1, <2>1, <2>2, SeqEqual
<1>5. text # <<>>
  BY <1>1, <1>2
<1> QED  BY <1>1, <1>2, <1>3, <1>4, <1>5 DEF Texts, Words

(* A signal comes out of its text as it went in, whatever words its data has
   (Signal::fmt and Signal::from_string, which splits at the first two spaces
   only). *)
THEOREM SignalRoundTrip ==
  ASSUME NEW signal \in SignalMessages
  PROVE  IsSignal(SignalText(signal)) /\ FromString(SignalText(signal)) = signal
<1> DEFINE text == SignalText(signal)
<1>1. /\ signal.signal_type \in SignalTypes /\ signal.connection_id \in Numerals
      /\ signal.data \in Texts
  BY DEF SignalMessages
<1>2. /\ Len(text) >= 3 /\ Rest(text) = signal.data
      /\ text[1] = signal.signal_type /\ text[2] = signal.connection_id
  BY <1>1, RestOfText DEF SignalText, SignalTypes, Numerals, Words
<1>3. FromString(text) = signal
  BY <1>1, <1>2 DEF FromString, SignalMessages
<1> QED  BY <1>1, <1>2, <1>3 DEF IsSignal

(* The two tables of error codes are each their own inverse, and they agree
   on an error exactly if it comes before the gap at 0x14. *)
THEOREM ErrorTables ==
  ASSUME NEW error \in Errors
  PROVE  /\ FromU32(SignalErrorCode(error)) = error
         /\ KnownCode(ConnectErrorCode(error)) /\ ConnectErrorCode(error) \in 0..255
         /\ FromCode(ConnectErrorCode(error)) = error
         /\ SignalErrorCode(error) = ConnectErrorCode(error) <=> error <= 19
BY DEF Errors, FromU32, SignalErrorCode, ConnectErrorCode, KnownCode, FromCode

(* A negotiation message comes out of its text as it went in, if its payload
   is not blank (NegotiationMessage::fmt and parse). *)
THEOREM NegotiationRoundTrip ==
  ASSUME NEW message \in Negotiations,
         message.message_type # CONNECTERROR => ~Blank(message.payload)
  PROVE  IsNegotiation(NegotiationText(message)) /\ Parse(NegotiationText(message)) = message
<1> DEFINE text == NegotiationText(message)
<1>1. CASE message.message_type = CONNECTERROR
  <2>1. /\ message \in [message_type : {CONNECTERROR}, connection_id : Numerals, error : Errors]
        /\ message.connection_id \in Nat /\ message.error \in Errors
    BY <1>1 DEF Negotiations, Numerals
  <2>2. /\ <<ConnectErrorCode(message.error)>> \in Texts
        /\ text = <<CONNECTERROR, message.connection_id>> \o <<ConnectErrorCode(message.error)>>
    <3>1. ConnectErrorCode(message.error) \in Int
      BY <2>1, ErrorTables
    <3> QED  BY <1>1, <3>1 DEF NegotiationText, Texts, Words
  <2>3. /\ Len(text) = 3 /\ text[1] = CONNECTERROR /\ text[2] = message.connection_id
        /\ text[3] = ConnectErrorCode(message.error)
    BY <2>1, <2>2, RestOfText DEF CONNECTERROR, Words
  <2>4. /\ KnownCode(text[3]) /\ text[3] \in 0..255 /\ FromCode(text[3]) = message.error
    BY <2>1, <2>3, ErrorTables
  <2>5. IsNegotiation(text)
    BY <2>1, <2>3, <2>4 DEF IsNegotiation, CONNECTERROR, SignalTypes, Numerals
  <2>6. Parse(text) = message
    BY <2>1, <2>3, <2>4 DEF Parse
  <2> QED  BY <2>5, <2>6
<1>2. CASE message.message_type # CONNECTERROR
  <2>1. /\ message \in [message_type : SignalTypes \ {CONNECTERROR}, connection_id : Numerals,
                        payload : Texts]
        /\ message.message_type \in SignalTypes /\ message.connection_id \in Numerals
        /\ message.payload \in Texts
    BY <1>2 DEF Negotiations
  <2>2. text = <<message.message_type, message.connection_id>> \o message.payload
    BY <1>2 DEF NegotiationText
  <2>3. /\ Len(text) >= 3 /\ Rest(text) = message.payload
        /\ text[1] = message.message_type /\ text[2] = message.connection_id
    BY <2>1, <2>2, RestOfText DEF SignalTypes, Numerals, Words
  <2>4. IsNegotiation(text)
    BY <1>2, <2>1, <2>3 DEF IsNegotiation
  <2>5. Parse(text) = message
    BY <1>2, <2>1, <2>3 DEF Parse
  <2> QED  BY <2>4, <2>5
<1> QED  BY <1>1, <1>2

LEMMA Doubled == \A b \in Bytes : b < 128 => 2 * b \in Bytes /\ (2 * b) \div 2 = b
BY DEF Bytes

(* Server data comes out of its encoding as it went in. *)
THEOREM ServerDataRoundTrip ==
  ASSUME NEW data \in ServerDatas, CanMarshalData(data)
  PROVE  /\ MarshalData(data) \in EncodedDatas /\ CanUnmarshalData(MarshalData(data))
         /\ UnmarshalData(MarshalData(data)) = data
<1> DEFINE encoded == MarshalData(data)
<1>1. /\ data.server_name \in 0..255 /\ data.level_name \in 0..255
      /\ data.game_type \in Bytes /\ data.transport_layer \in Bytes /\ data.connection_type \in Bytes
      /\ data.player_count \in I32 /\ data.max_player_count \in I32
      /\ data.editor_world \in BOOLEAN /\ data.hardcore \in BOOLEAN
  BY DEF ServerDatas, CanMarshalData
<1>2. \A flag \in BOOLEAN : AsByte(flag) \in Bytes /\ (AsByte(flag) # 0) = flag
  BY DEF AsByte, Bytes
<1>3. /\ encoded.game_type \in Bytes /\ encoded.game_type \div 2 = data.game_type
      /\ encoded.transport_layer \in Bytes /\ encoded.transport_layer \div 2 = data.transport_layer
      /\ encoded.connection_type \in Bytes /\ encoded.connection_type \div 2 = data.connection_type
  BY <1>1, Doubled DEF MarshalData, CanMarshalData
<1>4. encoded \in EncodedDatas
  <2>1. /\ AsByte(data.editor_world) \in Bytes /\ AsByte(data.hardcore) \in Bytes
    BY <1>1, <1>2
  <2>2. VERSION \in Bytes /\ data.server_name \in Bytes /\ data.level_name \in Bytes
    BY <1>1 DEF VERSION, Bytes
  <2>3. /\ 2 * data.game_type \in Bytes /\ 2 * data.transport_layer \in Bytes
        /\ 2 * data.connection_type \in Bytes
    BY <1>3 DEF MarshalData
  <2> QED
    BY <1>1, <2>1, <2>2, <2>3 DEF MarshalData, EncodedDatas
<1>5. CanUnmarshalData(encoded)
  BY DEF MarshalData, CanUnmarshalData
<1>6. UnmarshalData(encoded) = data
  <2>1. /\ (encoded.editor_world # 0) = data.editor_world
        /\ (encoded.hardcore # 0) = data.hardcore
    BY <1>1, <1>2 DEF MarshalData
  <2>2. data = [server_name |-> data.server_name, level_name |-> data.level_name,
                game_type |-> data.game_type,
                player_count |-> data.player_count, max_player_count |-> data.max_player_count,
                editor_world |-> data.editor_world, hardcore |-> data.hardcore,
                transport_layer |-> data.transport_layer, connection_type |-> data.connection_type]
    BY DEF ServerDatas
  <2>3. /\ encoded.server_name = data.server_name /\ encoded.level_name = data.level_name
        /\ encoded.player_count = data.player_count
        /\ encoded.max_player_count = data.max_player_count
    BY DEF MarshalData
  <2> QED  BY <1>3, <2>1, <2>2, <2>3, Zenon DEF UnmarshalData
<1> QED  BY <1>4, <1>5, <1>6

(* Data that set_pong_data has accepted can be marshalled again, and the
   response fits any receiver's buffer: a request is always answered
   (lan.rs:278-282, where marshal could fail). *)
THEOREM PongIsAnswered ==
  ASSUME NEW encoded \in EncodedDatas, CanUnmarshalData(encoded)
  PROVE  /\ CanMarshalData(UnmarshalData(encoded))
         /\ CanReceive(ResponseLength(DataLength(MarshalData(UnmarshalData(encoded)))))
<1> DEFINE data == UnmarshalData(encoded)
<1>1. \A b \in Bytes : b \div 2 \in Nat /\ b \div 2 < 128
  BY DEF Bytes
<1>2. /\ encoded.game_type \in Bytes /\ encoded.transport_layer \in Bytes
      /\ encoded.connection_type \in Bytes
      /\ encoded.server_name \in 0..255 /\ encoded.level_name \in 0..255
  BY DEF EncodedDatas, Bytes
<1>3. CanMarshalData(data)
  BY <1>1, <1>2 DEF CanMarshalData, UnmarshalData
<1>4. DataLength(MarshalData(data)) \in 16..526
  <2>1. /\ MarshalData(data).server_name = encoded.server_name
        /\ MarshalData(data).level_name = encoded.level_name
        /\ MarshalData(data).rest = 0
    BY DEF MarshalData, UnmarshalData
  <2>2. ASSUME NEW e, e.server_name \in 0..255, e.level_name \in 0..255, e.rest = 0
        PROVE  DataLength(e) \in 16..526
    <3>1. PICK a \in 0..255 : a = e.server_name
      BY <2>2
    <3>2. PICK b \in 0..255 : b = e.level_name
      BY <2>2
    <3>3. DataLength(e) = 16 + a + b
      BY <2>2, <3>1, <3>2 DEF DataLength
    <3>4. 16 + a + b \in 16..526
      OBVIOUS
    <3> QED
      BY <3>3, <3>4, Zenon
  <2> HIDE DEF data
  <2> QED  BY <1>2, <2>1, <2>2
<1>5. \A n \in 16..526 : CanReceive(ResponseLength(n))
  BY DEF CanReceive, CanMarshal, DatagramLength, Padded, PayloadLength, ResponseLength,
         HEADER_SIZE, U16MAX, MAX_BYTES, RECV_BUFFER
<1> QED  BY <1>3, <1>4, <1>5

(* A message reaches its node exactly if its text is not longer than 4031
   bytes (lan.rs:151).  What is longer is sent up to 65439 bytes, and lost; above
   that signal returns an error: that of send_to, and from 65504 bytes on that
   of marshal (lan.rs:397 and packet.rs:96). *)
THEOREM MessageReach ==
  ASSUME NEW text \in Nat
  PROVE  /\ CanReceive(MessageLength(text)) <=> text <= 4031
         /\ CanSend(MessageLength(text)) <=> text <= 65439
         /\ CanMarshal(MessageLength(text)) <=> text <= 65503
BY DEF CanReceive, CanSend, MAX_DATAGRAM, CanMarshal, DatagramLength, Padded, PayloadLength, MessageLength,
       HEADER_SIZE, U16MAX, MAX_BYTES, RECV_BUFFER
=============================================================================
