--------------------------------- MODULE Codecs ---------------------------------
(* Encoding and decoding of every structure of the protocol, and of the chains *)
(* some are sent in. A structure is made with variable parts of some lengths,  *)
(* encoded into a buffer of Size() bytes, and decoded from it. TLC takes every *)
(* structure with every choice of lengths.                                     *)
EXTENDS SMB2Requests, SMB2Responses, InfoRecords, PacketHeaders,
        SecurityDescriptors, RpcRecords

CONSTANTS
  Messages,   \* structures to send: records of a kind, two lengths and a list
  Lists       \* chains to send: records of a kind and the sizes of the items

VARIABLES
  msg,        \* what is being sent
  stage,      \* "made", "sent" or "read"
  wire,       \* the buffer: its size, and the bytes each field was written to
  got         \* what the decoder returns: acceptance, and the bytes of each field

vars == <<msg, stage, wire, got>>

None == [none |-> TRUE]

Message(kind, n, m, list) == [kind |-> kind, n |-> n, m |-> m, list |-> list]

\* The structure of a message.
Structure(x) ==
  CASE x.kind = "NegotiateRequest" -> NegotiateRequest(x.n, x.list)
    [] x.kind = "SessionSetupRequest" -> SessionSetupRequest(x.n)
    [] x.kind = "LogoffRequest" -> LogoffRequest
    [] x.kind = "TreeConnectRequest" -> TreeConnectRequest(x.n)
    [] x.kind = "TreeDisconnectRequest" -> TreeDisconnectRequest
    [] x.kind = "CreateRequest" -> CreateRequest(x.n, x.list)
    [] x.kind = "CloseRequest" -> CloseRequest
    [] x.kind = "FlushRequest" -> FlushRequest
    [] x.kind = "ReadRequest" -> ReadRequest(x.list)
    [] x.kind = "WriteRequest" -> WriteRequest(x.n, x.list)
    [] x.kind = "CancelRequest" -> CancelRequest
    [] x.kind = "IoctlRequest" -> IoctlRequest(x.n)
    [] x.kind = "QueryDirectoryRequest" -> QueryDirectoryRequest(x.n)
    [] x.kind = "QueryInfoRequest" -> QueryInfoRequest(x.n)
    [] x.kind = "SetInfoRequest" -> SetInfoRequest(x.n)
    [] x.kind = "ErrorResponse" -> ErrorResponse(x.n)
    [] x.kind = "ErrorContextResponse" -> ErrorContextResponse(x.n)
    [] x.kind = "SmallBufferErrorResponse" -> SmallBufferErrorResponse
    [] x.kind = "SymbolicLinkErrorResponse" -> SymbolicLinkErrorResponse(x.n, x.m)
    [] x.kind = "NegotiateResponse" -> NegotiateResponse(x.n, x.list)
    [] x.kind = "SessionSetupResponse" -> SessionSetupResponse(x.n)
    [] x.kind = "LogoffResponse" -> LogoffResponse
    [] x.kind = "TreeConnectResponse" -> TreeConnectResponse
    [] x.kind = "TreeDisconnectResponse" -> TreeDisconnectResponse
    [] x.kind = "CreateResponse" -> CreateResponse(x.list)
    [] x.kind = "CreateContext" -> CreateContext(x.n, x.m)
    [] x.kind = "MaximalAccess" -> CreateContextMaximalAccessResponse
    [] x.kind = "CloseResponse" -> CloseResponse
    [] x.kind = "FlushResponse" -> FlushResponse
    [] x.kind = "ReadResponse" -> ReadResponse(x.n)
    [] x.kind = "WriteResponse" -> WriteResponse
    [] x.kind = "LockResponse" -> LockResponse
    [] x.kind = "EchoResponse" -> EchoResponse
    [] x.kind = "IoctlResponse" -> IoctlResponse(x.n, x.m)
    [] x.kind = "QueryDirectoryResponse" -> QueryDirectoryResponse(x.n)
    [] x.kind = "QueryInfoResponse" -> QueryInfoResponse(x.n)
    [] x.kind = "SetInfoResponse" -> SetInfoResponse
    [] x.kind = "ChangeNotifyResponse" -> ChangeNotifyResponse(x.n)
    [] x.kind = "AAPLServerQuery" -> AAPLServerQueryResponse(x.n)
    [] x.kind = "DurableHandle2" -> DurableHandleResponse2
    [] x.kind = "Lease" -> LeaseResponse
    [] x.kind = "Lease2" -> LeaseResponse2
    [] x.kind = "DiskId" -> DiskIdResponse
    [] x.kind = "FileBasic" -> FileBasicInformationInfo
    [] x.kind = "FileStandard" -> FileStandardInformationInfo
    [] x.kind = "FileInternal" -> FileInternalInformationInfo
    [] x.kind = "FileEa" -> FileEaInformationInfo
    [] x.kind = "FileAccess" -> FileAccessInformationInfo
    [] x.kind = "FilePosition" -> FilePositionInformationInfo
    [] x.kind = "FileMode" -> FileModeInformationInfo
    [] x.kind = "FileAlignment" -> FileAlignmentInformationInfo
    [] x.kind = "FileName" -> FileAlternateNameInformationInfo(x.n)
    [] x.kind = "FileAll" -> FileAllInformationInfo(x.n)
    [] x.kind = "FileNetworkOpen" -> FileNetworkOpenInformationInfo
    [] x.kind = "FileStream" -> FileStreamInformationInfo(x.n)
    [] x.kind = "FsAttribute" -> FileFsAttributeInformationInfo(x.n)
    [] x.kind = "FsDevice" -> FileFsDeviceInformationInfo
    [] x.kind = "FsFullSize" -> FileFsFullSizeInformationInfo
    [] x.kind = "FsSize" -> FileFsSizeInformationInfo
    [] x.kind = "FsVolume" -> FileFsVolumeInformationInfo(x.n)
    [] x.kind = "FileDirectory" -> FileDirectoryInformationInfo(x.n)
    [] x.kind = "FileFullDirectory" -> FileFullDirectoryInformationInfo(x.n)
    [] x.kind = "FileBothDirectory" -> FileBothDirectoryInformationInfo(x.n)
    [] x.kind = "FileIdBothDirectory" -> FileIdBothDirectoryInformationInfo(x.n)
    [] x.kind = "FileIdBothDirectory2" -> FileIdBothDirectoryInformationInfo2(x.n)
    [] x.kind = "FileIdFullDirectory" -> FileIdFullDirectoryInformationInfo(x.n)
    [] x.kind = "FileNotify" -> FileNotifyInformationInfo(x.n)
    [] x.kind = "AfpInfo" -> AfpInfo
    [] x.kind = "FileObjectId1" -> FileObjectId1
    [] x.kind = "SetBasic" -> FileBasicInformationEncoder
    [] x.kind = "SetEndOfFile" -> FileEndOfFileInformationEncoder
    [] x.kind = "SetDisposition" -> FileDispositionInformationEncoder
    [] x.kind = "SetRename" -> FileRenameInformationType2Encoder(x.n)
    [] x.kind = "SymbolicLinkReparse" -> SymbolicLinkReparseDataBuffer(x.n, x.m)
    [] x.kind = "SrvCopychunkCopy" -> SrvCopychunkCopy(x.n)
    [] x.kind = "PacketHeader" -> PacketHeader(x.n > 0, x.m > 0)
    [] x.kind = "TransformHeader" -> TransformHeader
    [] x.kind = "FileId" -> FileId
    [] x.kind = "Filetime" -> Filetime
    [] x.kind = "HashContext" -> HashContext(x.n, x.m)
    [] x.kind = "CipherContext" -> CipherContext(x.n)
    [] x.kind = "CompressionContext" -> CompressionContext(x.n)
    [] x.kind = "SID" -> SID(x.n)
    [] x.kind = "ACE" -> ACE(x.n)
    [] x.kind = "ACL" -> ACL(x.list)
    [] x.kind = "SecurityDescriptor" -> SecurityDescriptor(x.n, x.m, x.list)
    [] x.kind = "DCEHeader" -> DCEHeader
    [] x.kind = "DCEBindAck" -> DCEBindAck(13, x.n)
    [] x.kind = "DCERequestRes" -> DCERequestRes(x.n)
    [] x.kind = "UnicodeStr" -> UnicodeStr(x.n)
    [] x.kind = "NetShareInfo1" -> NetShareInfo1(x.list)
    [] x.kind = "NetShareEnumAll" -> NetShareEnumAllResponse(x.list)
    [] x.kind = "NetShareGetInfo" -> NetShareGetInfoResponse(x.n, x.m)

(* A chain: where the encoder puts the items, the link it leaves in each, and  *)
(* the size of the whole. A link is the distance to the next item, 0 in the    *)
(* last, or it is computed by the decoder from the length of the item.         *)

Links(sizes, link(_)) ==
  [i \in DOMAIN sizes |-> IF i = Len(sizes) THEN 0 ELSE link(sizes[i])]

\* Contexts of a CREATE: aligned, but linked by their sizes.
CreateContexts(sizes) ==
  LET link(s) == s IN
  [at |-> Starts(88, sizes, 8), links |-> Links(sizes, link), size |-> Ends(88, sizes, 8)]

\* Contexts of a NEGOTIATE: the decoder rounds up.
NegotiateContexts(sizes) ==
  LET next(s) == Roundup(s, 8) IN
  [at |-> Starts(64, sizes, 8), links |-> Links(sizes, next), size |-> Ends(64, sizes, 8)]

\* Error contexts: the decoder rounds up the data after a header of 8 bytes.
ErrorContextListResponse(sizes) ==
  LET next(s) == 8 + Roundup(s - 8, 8) IN
  [at |-> Starts(0, sizes, 8), links |-> Links(sizes, next), size |-> Ends(0, sizes, 8)]

\* Directory entries and streams: not aligned, the size of each item is.
FileInformationInfoResponse(sizes) ==
  LET link(s) == s IN
  [at |-> Starts(0, sizes, 1), links |-> Links(sizes, link), size |-> Ends(0, sizes, 1)]

\* NextCommand without the padding.
CompoundResponse_Unpadded(sizes) ==
  LET link(s) == s IN
  [at |-> Starts(0, sizes, 8), links |-> Links(sizes, link),
   size |-> Ends(0, [i \in DOMAIN sizes |-> Roundup(sizes[i], 8)], 1)]

\* The responses of a compound.
CompoundResponse(sizes) ==
  LET link(s) == Roundup(s, 8) IN
  [at |-> Starts(0, sizes, 8), links |-> Links(sizes, link),
   size |-> Ends(0, [i \in DOMAIN sizes |-> Roundup(sizes[i], 8)], 1)]

ChainKinds ==
  {"CreateContexts", "NegotiateContexts", "ErrorContexts", "FileInformation", "Compound"}

Chain(x) ==
  CASE x.kind = "CreateContexts" -> CreateContexts(x.list)
    [] x.kind = "NegotiateContexts" -> NegotiateContexts(x.list)
    [] x.kind = "ErrorContexts" -> ErrorContextListResponse(x.list)
    [] x.kind = "FileInformation" -> FileInformationInfoResponse(x.list)
    [] x.kind = "Compound" -> CompoundResponse(x.list)

\* The positions a decoder visits that starts at `first' and follows the links.
\* Behind a position at which no item begins they say nothing: the decoder takes
\* for a link what it finds there.
Visited(first, links) ==
  LET pos[i \in 1..Len(links)] == IF i = 1 THEN first ELSE pos[i - 1] + links[i - 1]
  IN  pos

-----------------------------------------------------------------------------
(* The lengths for which the properties below are claimed. A length is bounded *)
(* by the width of its field where that is 8 or 16 bits; fields of 32 bits are *)
(* taken to hold every length. Where encoder and decoder disagree for some     *)
(* lengths (README, section 5) these are left out.                             *)

\* Structures whose layout is fixed.
FixedKinds ==
  {"LogoffRequest", "TreeDisconnectRequest", "CloseRequest", "FlushRequest",
   "CancelRequest", "SmallBufferErrorResponse", "LogoffResponse", "TreeConnectResponse",
   "TreeDisconnectResponse", "MaximalAccess", "CloseResponse", "FlushResponse",
   "WriteResponse", "LockResponse", "EchoResponse", "SetInfoResponse", "DurableHandle2",
   "Lease", "Lease2", "DiskId", "FileBasic", "FileStandard", "FileInternal", "FileEa",
   "FileAccess", "FilePosition", "FileMode", "FileAlignment", "FileNetworkOpen",
   "FsDevice", "FsSize", "AfpInfo", "FileObjectId1", "SetBasic", "SetEndOfFile",
   "SetDisposition", "TransformHeader", "FileId", "Filetime", "DCEHeader"}

\* One variable part, with a length of 32 bits or found without one.
LongKinds ==
  {"WriteRequest", "QueryInfoRequest", "ErrorContextResponse", "ReadResponse",
   "QueryDirectoryResponse", "QueryInfoResponse", "ChangeNotifyResponse", "AAPLServerQuery",
   "FileName", "FileAll", "FileStream", "FsAttribute", "FsVolume", "FileDirectory",
   "FileFullDirectory", "FileBothDirectory", "FileIdBothDirectory", "FileIdBothDirectory2",
   "FileIdFullDirectory", "FileNotify", "SetRename", "SrvCopychunkCopy",
   "CompressionContext", "DCEBindAck", "DCERequestRes", "UnicodeStr"}

\* One part found through an offset and a length of 16 bits, behind a fixed part
\* of so many bytes. It must end within the first 65535 bytes.
FixedPart ==
  [SessionSetupRequest |-> 24, TreeConnectRequest |-> 8, QueryDirectoryRequest |-> 32,
   SessionSetupResponse |-> 8, NegotiateResponse |-> 64, CreateRequest |-> 56]
ShortKinds == DOMAIN FixedPart

Sendable(x) ==
  \/ x.kind \in FixedKinds
  \/ /\ x.kind \in LongKinds /\ x.n \in Nat
     /\ x.kind = "WriteRequest" => x.list = <<>>
  \/ /\ x.kind \in ShortKinds /\ x.n \in Nat /\ FixedPart[x.kind] + x.n < U16
     /\ x.kind \in {"NegotiateResponse", "CreateRequest"} => x.list \in Seq(Nat)
     /\ x.kind = "CreateRequest" => x.list = <<>> \/ x.n % 8 = 0
  \/ /\ x.kind = "NegotiateRequest" /\ x.n \in Nat /\ 36 + 2 * x.n < U16
     /\ x.list \in Seq(Nat) /\ (x.list = <<>> \/ x.list[1] >= 28)
  \/ /\ x.kind = "CreateContext" /\ x.n \in Nat /\ x.m \in Nat
     /\ Roundup(16 + x.n, 8) + x.m < U16
  \/ x.kind = "ReadRequest" /\ x.list = <<>>
  \/ x.kind = "ErrorResponse" /\ x.n = 0
  \/ x.kind \in {"IoctlRequest", "SetInfoRequest"} /\ x.n \in Nat \ {0}
  \/ x.kind = "CreateResponse" /\ x.list \in Seq(Nat)
  \/ x.kind = "SymbolicLinkReparse" /\ x.n \in Nat /\ x.m \in Nat
     /\ x.n % 2 = 0 /\ 12 + x.n + x.m < U16
  \/ x.kind = "HashContext" /\ x.n \in Nat /\ x.m \in Nat /\ 12 + 2 * x.n + x.m < U16
  \/ x.kind = "CipherContext" /\ x.n \in Nat /\ 10 + 2 * x.n < U16
  \/ x.kind \in {"IoctlResponse", "PacketHeader", "NetShareGetInfo"} /\ x.n \in Nat /\ x.m \in Nat
  \/ x.kind \in {"SID", "ACE"} /\ x.n \in 0..(U8 - 1)
  \/ x.kind = "ACL" /\ x.list \in Seq(0..(U8 - 1)) /\ ACLSize(x.list) < U16
  \/ x.kind = "SecurityDescriptor" /\ x.n \in -1..(U8 - 1) /\ x.m \in -1..(U8 - 1)
     /\ x.list \in Seq(0..(U8 - 1)) /\ ACLSize(x.list) < U16
  \/ x.kind \in {"NetShareInfo1", "NetShareEnumAll"} /\ x.list \in Seq(Nat)

Linkable(x) ==
  /\ x.kind \in ChainKinds /\ x.list \in Seq(Nat)
  /\ x.kind = "ErrorContexts" => \A i \in 1..Len(x.list) : x.list[i] >= 8

Regular == (\A x \in Messages : Sendable(x)) /\ (\A x \in Lists : Linkable(x))
ASSUME RegularAssumption == Regular

-----------------------------------------------------------------------------

Init ==
  /\ msg \in Messages \cup Lists
  /\ stage = "made" /\ wire = None /\ got = None

Encode ==
  /\ stage = "made" /\ msg.kind \notin ChainKinds
  /\ wire' = [size |-> Structure(msg).size, fields |-> Structure(msg).enc]
  /\ stage' = "sent" /\ UNCHANGED <<msg, got>>

Decode ==
  /\ stage = "sent" /\ msg.kind \notin ChainKinds
  /\ got' = [accepted |-> Structure(msg).valid, fields |-> Structure(msg).dec]
  /\ stage' = "read" /\ UNCHANGED <<msg, wire>>

EncodeChain ==
  /\ stage = "made" /\ msg.kind \in ChainKinds
  /\ wire' = Chain(msg)
  /\ stage' = "sent" /\ UNCHANGED <<msg, got>>

DecodeChain ==
  /\ stage = "sent" /\ msg.kind \in ChainKinds
  /\ got' = [visited |-> Visited(wire.at[1], wire.links)]
  /\ stage' = "read" /\ UNCHANGED <<msg, wire>>

Next == Encode \/ Decode \/ EncodeChain \/ DecodeChain

Spec == Init /\ [][Next]_vars

-----------------------------------------------------------------------------

IsMessage == msg.kind \notin ChainKinds

\* Encode writes within the Size() bytes it was given, and no field over another:
\* offsets, alignment and Size are computed separately in every structure.
FieldsApart ==
  IsMessage /\ stage # "made" =>
    \A f \in DOMAIN wire.fields :
      /\ wire.fields[f] \in Interval
      /\ wire.fields[f][2] > 0 => wire.fields[f][1] + wire.fields[f][2] <= wire.size
      /\ \A g \in DOMAIN wire.fields \ {f} : Disjoint(wire.fields[f], wire.fields[g])

\* What is encoded is accepted by IsInvalid of its decoder, and every method of
\* the decoder reads the bytes that were written for its field, the variable
\* parts found through the offsets and lengths sent.
RoundTrip ==
  IsMessage /\ stage = "read" =>
    /\ got.accepted
    /\ \A f \in DOMAIN got.fields \cap DOMAIN wire.fields :
         SameBytes(got.fields[f], wire.fields[f])

\* Whether a link is the distance to the next item: create contexts are aligned
\* but linked by their sizes, so that only multiples of 8 are.
Exact(i) == msg.kind = "CreateContexts" => msg.list[i] % 8 = 0

\* The links of a chain lead the decoder from each item to the next, whatever the
\* sizes, except from a create context of unaligned size (response.go:827), such
\* as the 76 bytes of LeaseResponse2: there it arrives where no item begins.
\* No item reaches into the next or behind the whole.
ChainsFollowed ==
  ~IsMessage /\ stage = "read" =>
    /\ DOMAIN got.visited = DOMAIN wire.at
    /\ \A k \in DOMAIN wire.at :
         (\A i \in 1..(k - 2) : Exact(i)) =>
           (got.visited[k] = wire.at[k] <=> \A i \in 1..(k - 1) : Exact(i))
    /\ \A k \in DOMAIN wire.at : wire.at[k] + msg.list[k]
                                   <= IF k = Len(msg.list) THEN wire.size ELSE wire.at[k + 1]
=================================================================================
