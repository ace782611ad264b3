-------------------------------- MODULE MCCodecs --------------------------------
(* The lengths of variable parts with which the structures are sent.           *)
EXTENDS Codecs

\* Around the alignments in use, and a large one.
NameLengths == {0, 2, 4, 6, 8, 10, 14, 16, 18, 300, 60000}
BufferLengths == NameLengths \cup {1, 3, 7, 9, 15, 17}
ContextLists == {<<>>, <<8>>, <<12>>, <<32, 24>>, <<26, 38, 10>>}

NameKinds ==
  {"TreeConnectRequest", "QueryDirectoryRequest", "AAPLServerQuery", "FileName", "FileAll",
   "FileStream", "FsAttribute", "FsVolume", "FileDirectory", "FileFullDirectory",
   "FileBothDirectory", "FileIdBothDirectory", "FileIdBothDirectory2",
   "FileIdFullDirectory", "FileNotify", "SetRename"}

BufferKinds ==
  {"SessionSetupRequest", "QueryInfoRequest", "ErrorContextResponse",
   "SessionSetupResponse", "ReadResponse", "QueryDirectoryResponse", "QueryInfoResponse",
   "ChangeNotifyResponse", "DCERequestRes"}

Plain ==
  {Message(k, 0, 0, <<>>) : k \in FixedKinds}
    \cup {Message(k, n, 0, <<>>) : k \in NameKinds, n \in NameLengths}
    \cup {Message(k, n, 0, <<>>) : k \in BufferKinds, n \in BufferLengths}
    \cup {Message("WriteRequest", n, 0, <<>>) : n \in BufferLengths}
    \cup {Message(k, n, 0, <<>>) : k \in {"IoctlRequest", "SetInfoRequest"},
                                   n \in BufferLengths \ {0}}
    \cup {Message("ErrorResponse", 0, 0, <<>>), Message("ReadRequest", 0, 0, <<>>)}

\* A create request with contexts is sent with a name of a multiple of 8 bytes,
\* a negotiate request with a hash context before others.
WithContexts ==
  {Message("NegotiateRequest", n, 0, cs) : n \in 0..5, cs \in {<<>>, <<46>>, <<46, 12, 18>>}}
    \cup {Message("NegotiateResponse", n, 0, cs) : n \in BufferLengths, cs \in ContextLists}
    \cup {Message("CreateRequest", n, 0, cs) : n \in {0, 8, 16, 304}, cs \in ContextLists}
    \cup {Message("CreateRequest", n, 0, <<>>) : n \in NameLengths}
    \cup {Message("CreateResponse", 0, 0, cs) : cs \in ContextLists}

TwoParts ==
  {Message(k, n, m, <<>>) : k \in {"IoctlResponse", "CreateContext"},
                            n \in {0, 1, 4, 8, 9, 16}, m \in {0, 1, 8, 52, 60000}}
    \cup {Message("SymbolicLinkReparse", n, m, <<>>) : n \in NameLengths \ {60000},
                                                       m \in NameLengths \ {60000}}
    \cup {Message("PacketHeader", n, m, <<>>) : n \in {0, 1}, m \in {0, 1}}
    \cup {Message("HashContext", n, m, <<>>) : n \in 0..3, m \in {0, 7, 32, 300}}
    \cup {Message(k, n, 0, <<>>) : k \in {"CipherContext", "CompressionContext",
                                          "SrvCopychunkCopy", "DCEBindAck", "SID", "ACE"},
                                   n \in 0..3}

AceLists == {<<>>, <<1>>, <<3, 1>>, <<3, 3, 1>>}
NameLists == {<<>>, <<1>>, <<2>>, <<6, 7>>, <<5, 1, 8>>}

SecurityAndRpc ==
  {Message("ACL", 0, 0, l) : l \in AceLists}
    \cup {Message("SecurityDescriptor", n, m, l) : n \in {-1, 3}, m \in {-1, 3}, l \in AceLists}
    \cup {Message("UnicodeStr", n, 0, <<>>) : n \in 1..5}
    \cup {Message(k, 0, 0, l) : k \in {"NetShareInfo1", "NetShareEnumAll"}, l \in NameLists}
    \cup {Message("NetShareGetInfo", n, m, <<>>) : n \in 1..5, m \in {1, 8}}

\* The longest parts that an offset and a length of 16 bits can describe. Two
\* parts of a create context end there when the second is as long as is left.
Longest ==
  {Message(k, U16 - 1 - FixedPart[k], 0, <<>>) : k \in ShortKinds}
    \cup {Message("CreateContext", n, U16 - 1 - Roundup(16 + n, 8), <<>>) : n \in {0, 4, 9}}
    \cup {Message("SymbolicLinkReparse", n, U16 - 13 - n, <<>>) : n \in {0, 2, 300}}

AllMessages == Plain \cup WithContexts \cup TwoParts \cup SecurityAndRpc \cup Longest

\* Chains of up to three items. Create contexts have aligned sizes and that of
\* LeaseResponse2, entries have aligned sizes.
Sizes == {64, 65, 71, 72, 80, 90}
AlignedSizes == {32, 56, 64, 80}
LeaseSize == 24 + LeaseResponse2.size
ListsOf(S) == UNION {[1..k -> S] : k \in 1..3}
AllLists ==
  {[kind |-> k, list |-> l] : k \in {"NegotiateContexts", "ErrorContexts", "Compound"},
                              l \in ListsOf(Sizes)}
    \cup {[kind |-> "FileInformation", list |-> l] : l \in ListsOf(AlignedSizes)}
    \cup {[kind |-> "CreateContexts", list |-> l] : l \in ListsOf(AlignedSizes \cup {LeaseSize})}
=================================================================================
