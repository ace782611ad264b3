------------------------------ MODULE PacketHeaders ------------------------------
(* The packet headers of internal/smb2/packet.go, the basic types of smb2.go    *)
(* and dtyp.go, and the contexts of NEGOTIATE.                                  *)
EXTENDS Layout

PacketCodec(channel, async) ==
  [ProtocolId |-> <<0, 4>>, StructureSize |-> <<4, 2>>, CreditCharge |-> <<6, 2>>,
   Command |-> <<12, 2>>, CreditRequest |-> <<14, 2>>, Flags |-> <<16, 4>>,
   NextCommand |-> <<20, 4>>, MessageId |-> <<24, 8>>, SessionId |-> <<40, 8>>,
   Signature |-> <<48, 16>>,
   StatusOrChannel |-> IF channel THEN <<8, 2>> ELSE <<8, 4>>,
   TreeOrAsync |-> IF async THEN <<32, 8>> ELSE <<36, 4>>]

\* encodeHeader writes one of ChannelSequence and Status, and one of TreeId and
\* AsyncId, which share bytes. NextCommand and Signature are set later.
PacketHeader(channel, async) ==
  [size |-> 64,
   enc |-> [ProtocolId |-> <<0, 4>>, StructureSize |-> <<4, 2>>, CreditCharge |-> <<6, 2>>,
            Command |-> <<12, 2>>, CreditRequest |-> <<14, 2>>, Flags |-> <<16, 4>>,
            NextCommand |-> <<20, 4>>, MessageId |-> <<24, 8>>, SessionId |-> <<40, 8>>,
            Signature |-> <<48, 16>>,
            StatusOrChannel |-> <<8, IF channel THEN 2 ELSE 4>>,
            TreeOrAsync |-> IF async THEN <<32, 8>> ELSE <<36, 4>>],
   dec |-> PacketCodec(channel, async),
   valid |-> TRUE]

TransformHeader ==
  [size |-> 52,
   enc |-> [ProtocolId |-> <<0, 4>>, Signature |-> <<4, 16>>, Nonce |-> <<20, 16>>,
            OriginalMessageSize |-> <<36, 4>>, Flags |-> <<42, 2>>, SessionId |-> <<44, 8>>],
   dec |-> [ProtocolId |-> <<0, 4>>, Signature |-> <<4, 16>>, Nonce |-> <<20, 16>>,
            OriginalMessageSize |-> <<36, 4>>, Flags |-> <<42, 2>>, SessionId |-> <<44, 8>>],
   valid |-> TRUE]

FileId ==
  [size |-> 16, enc |-> [Persistent |-> <<0, 8>>, Volatile |-> <<8, 8>>],
   dec |-> [Persistent |-> <<0, 8>>, Volatile |-> <<8, 8>>], valid |-> TRUE]

Filetime ==
  [size |-> 8, enc |-> [LowDateTime |-> <<0, 4>>, HighDateTime |-> <<4, 4>>],
   dec |-> [LowDateTime |-> <<0, 4>>, HighDateTime |-> <<4, 4>>], valid |-> TRUE]

(* Negotiate contexts: n algorithms, and a salt of m bytes. The decoder takes   *)
(* the data as ctx[8 : 8+len], which fails when the bound leaves 16 bits.       *)

HashContext(n, m) ==
  LET data == (4 + 2 * n + m) % U16
      size == 8 + 4 + 2 * n + m
  IN [size |-> size,
      enc |-> [ContextType |-> <<0, 2>>, DataLength |-> <<2, 2>>,
               HashAlgorithmCount |-> <<8, 2>>, SaltLength |-> <<10, 2>>,
               HashAlgorithms |-> <<12, 2 * n>>, Salt |-> <<12 + 2 * n, m>>],
      dec |-> [ContextType |-> <<0, 2>>, DataLength |-> <<2, 2>>,
               HashAlgorithmCount |-> SliceIf(8 + data < U16, 8, 2),
               SaltLength |-> SliceIf(8 + data < U16, 10, 2),
               HashAlgorithms |-> SliceIf(8 + data < U16, 12, 2 * n),
               Salt |-> IF 8 + data < U16 THEN Slice16(8, (4 + 2 * n) % U16, m % U16)
                        ELSE Nothing],
      valid |-> size >= 8 + data /\ data >= 4 + 2 * n + m]

CipherContext(n) ==
  LET data == (2 + 2 * n) % U16 IN
  [size |-> 8 + 2 + 2 * n,
   enc |-> [ContextType |-> <<0, 2>>, DataLength |-> <<2, 2>>, CipherCount |-> <<8, 2>>,
            Ciphers |-> <<10, 2 * n>>],
   dec |-> [ContextType |-> <<0, 2>>, DataLength |-> <<2, 2>>,
            CipherCount |-> SliceIf(8 + data < U16, 8, 2),
            Ciphers |-> SliceIf(8 + data < U16, 10, 2 * n)],
   valid |-> 8 + 2 + 2 * n >= 8 + data /\ data >= 2 + 2 * n]

CompressionContext(n) ==
  [size |-> 16 + 2 * n,
   enc |-> [ContextType |-> <<0, 2>>, DataLength |-> <<2, 2>>, CompressionCount |-> <<8, 2>>,
            Flags |-> <<12, 4>>, Compressions |-> <<16, 2 * n>>],
   dec |-> NoDecoder, valid |-> TRUE]
==================================================================================
