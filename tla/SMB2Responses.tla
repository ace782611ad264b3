------------------------------ MODULE SMB2Responses ------------------------------
(* The responses of internal/smb2/response.go, without their 64-byte header,   *)
(* and the structures they carry. Parameters are as in SMB2Requests.           *)
EXTENDS Layout

\* The count is written as two bytes at 2, of which ErrorContextCount is one;
\* the decoder takes it from 4. Error data that is a list of contexts is not
\* distinguished from other data.
ErrorResponse(n) ==
  LET size == 8 + OrOne(n) IN
  [size |-> size,
   enc |-> IF n = 0 THEN [StructureSize |-> <<0, 2>>]
           ELSE [StructureSize |-> <<0, 2>>, ByteCount |-> <<2, 2>>, ErrorData |-> <<8, n>>],
   dec |-> [StructureSize |-> <<0, 2>>, ByteCount |-> <<4, 4>>, ErrorData |-> Slice(8, 0)],
   valid |-> size >= 8]

ErrorContextResponse(n) ==
  [size |-> 8 + n,
   enc |-> [ErrorDataLength |-> <<0, 4>>, ErrorId |-> <<4, 4>>, ErrorContextData |-> <<8, n>>],
   dec |-> [ErrorDataLength |-> <<0, 4>>, ErrorId |-> <<4, 4>>, ErrorContextData |-> Slice(8, n)],
   valid |-> TRUE]

SmallBufferErrorResponse ==
  [size |-> 4, enc |-> [RequiredBufferLength |-> <<0, 4>>],
   dec |-> [RequiredBufferLength |-> <<0, 4>>], valid |-> TRUE]

\* The names are written from byte 24 on, where the flags are; the decoder
\* takes them from 28 on.
SymbolicLinkErrorResponse(slen, plen) ==
  LET size == 28 + slen + plen
      rlen == (size - 12) % U16
      tlen == size - 4
  IN [size |-> size,
      enc |-> [SymLinkLength |-> <<0, 4>>, SymLinkErrorTag |-> <<4, 4>>,
               ReparseTag |-> <<8, 4>>, ReparseDataLength |-> <<12, 2>>,
               UnparsedPathLength |-> <<14, 2>>, SubstituteNameOffset |-> <<16, 2>>,
               SubstituteNameLength |-> <<18, 2>>, PrintNameOffset |-> <<20, 2>>,
               PrintNameLength |-> <<22, 2>>, Flags |-> <<24, 4>>,
               SubstituteName |-> <<24, slen>>, PrintName |-> <<24 + slen, plen>>],
      dec |-> [SymLinkLength |-> <<0, 4>>, SymLinkErrorTag |-> <<4, 4>>,
               ReparseTag |-> <<8, 4>>, ReparseDataLength |-> <<12, 2>>,
               UnparsedPathLength |-> <<14, 2>>, SubstituteNameOffset |-> <<16, 2>>,
               SubstituteNameLength |-> <<18, 2>>, PrintNameOffset |-> <<20, 2>>,
               PrintNameLength |-> <<22, 2>>, Flags |-> <<24, 4>>,
               SubstituteName |-> Slice16(28, 0, slen % U16),
               PrintName |-> Slice16(28, slen % U16, plen % U16)],
      valid |-> /\ size >= 28 /\ slen % 2 = 0 /\ size >= 4 + tlen /\ tlen >= 12 + rlen
                /\ rlen >= 12 + slen /\ rlen >= 12 + slen + plen]

NegotiateResponse(n, cs) ==
  LET soff == 64 + 64
      slen == n % U16
      noff == ContextsOffset(64 + n, cs)
      size == IF n = 0 /\ cs = <<>> THEN 65 ELSE Ends(64 + n, cs, 8)
  IN [size |-> size,
      enc |-> [StructureSize |-> <<0, 2>>, SecurityMode |-> <<2, 2>>,
               DialectRevision |-> <<4, 2>>, NegotiateContextCount |-> <<6, 2>>,
               ServerGuid |-> <<8, 16>>, Capabilities |-> <<24, 4>>,
               MaxTransactSize |-> <<28, 4>>, MaxReadSize |-> <<32, 4>>,
               MaxWriteSize |-> <<36, 4>>, SystemTime |-> <<40, 8>>,
               ServerStartTime |-> <<48, 8>>, SecurityBufferOffset |-> <<56, 2>>,
               SecurityBufferLength |-> <<58, 2>>, NegotiateContextOffset |-> <<60, 4>>,
               SecurityBuffer |-> <<64, n>>,
               Contexts |-> Contexts(64 + n, cs)],
      dec |-> [StructureSize |-> <<0, 2>>, SecurityMode |-> <<2, 2>>,
               DialectRevision |-> <<4, 2>>, NegotiateContextCount |-> <<6, 2>>,
               ServerGuid |-> <<8, 16>>, Capabilities |-> <<24, 4>>,
               MaxTransactSize |-> <<28, 4>>, MaxReadSize |-> <<32, 4>>,
               MaxWriteSize |-> <<36, 4>>, SystemTime |-> <<40, 8>>,
               ServerStartTime |-> <<48, 8>>, SecurityBufferOffset |-> <<56, 2>>,
               SecurityBufferLength |-> <<58, 2>>, NegotiateContextOffset |-> <<60, 4>>,
               SecurityBuffer |-> IF soff >= 64 + 64 THEN Slice16(0, soff - 64, slen) ELSE Nothing,
               Contexts |-> SliceIf(noff >= 64, noff - 64, size - (noff - 64))],
      valid |-> /\ size >= 64 /\ size >= ((soff + slen) % U16) - 64
                /\ noff % 8 = 0 /\ size >= noff - 64]

SessionSetupResponse(n) ==
  LET off == IF n = 0 THEN 0 ELSE 8 + 64
      len == n % U16
      size == 8 + OrOne(n)
  IN [size |-> size,
      enc |-> [StructureSize |-> <<0, 2>>, SessionFlags |-> <<2, 2>>,
               SecurityBufferOffset |-> <<4, 2>>, SecurityBufferLength |-> <<6, 2>>,
               SecurityBuffer |-> <<8, n>>],
      dec |-> [StructureSize |-> <<0, 2>>, SessionFlags |-> <<2, 2>>,
               SecurityBufferOffset |-> <<4, 2>>, SecurityBufferLength |-> <<6, 2>>,
               SecurityBuffer |-> IF off >= 8 + 64 THEN Slice16(0, off - 64, len) ELSE Nothing],
      valid |-> size >= 8 /\ size >= ((off + len) % U16) - 64]

LogoffResponse == Bare(4)

TreeConnectResponse ==
  [size |-> 16,
   enc |-> [StructureSize |-> <<0, 2>>, ShareType |-> <<2, 1>>, ShareFlags |-> <<4, 4>>,
            Capabilities |-> <<8, 4>>, MaximalAccess |-> <<12, 4>>],
   dec |-> [StructureSize |-> <<0, 2>>, ShareType |-> <<2, 1>>, ShareFlags |-> <<4, 4>>,
            Capabilities |-> <<8, 4>>, MaximalAccess |-> <<12, 4>>],
   valid |-> TRUE]

TreeDisconnectResponse == Bare(4)

CreateResponse(cs) ==
  LET coff == ContextsOffset(88, cs)
      clen == Ends(88, cs, 8) - 88
      size == IF cs = <<>> THEN 89 ELSE Ends(88, cs, 8)
  IN [size |-> size,
      enc |-> [StructureSize |-> <<0, 2>>, OplockLevel |-> <<2, 1>>, Flags |-> <<3, 1>>,
               CreateAction |-> <<4, 4>>, CreationTime |-> <<8, 8>>,
               LastAccessTime |-> <<16, 8>>, LastWriteTime |-> <<24, 8>>,
               ChangeTime |-> <<32, 8>>, AllocationSize |-> <<40, 8>>,
               EndofFile |-> <<48, 8>>, FileAttributes |-> <<56, 4>>, FileId |-> <<64, 16>>,
               CreateContextsOffset |-> <<80, 4>>, CreateContextsLength |-> <<84, 4>>,
               Contexts |-> Contexts(88, cs)],
      dec |-> [StructureSize |-> <<0, 2>>, OplockLevel |-> <<2, 1>>, Flags |-> <<3, 1>>,
               CreateAction |-> <<4, 4>>, CreationTime |-> <<8, 8>>,
               LastAccessTime |-> <<16, 8>>, LastWriteTime |-> <<24, 8>>,
               ChangeTime |-> <<32, 8>>, AllocationSize |-> <<40, 8>>,
               EndofFile |-> <<48, 8>>, FileAttributes |-> <<56, 4>>, FileId |-> <<64, 16>>,
               CreateContextsOffset |-> <<80, 4>>, CreateContextsLength |-> <<84, 4>>,
               Contexts |-> SliceIf(coff >= 88 + 64, coff - 64, clen)],
      valid |-> size >= 88 /\ coff % 8 = 0 /\ size >= coff + clen - 64]

\* A create context as the requests' decoder reads it.
CreateContextDecoder(off, n, data) ==
  [Next |-> <<0, 4>>, NameOffset |-> <<4, 2>>, NameLength |-> <<6, 2>>,
   DataOffset |-> <<10, 2>>, DataLength |-> <<12, 4>>, Name |-> Slice16(0, 16, n),
   Buffer |-> Slice16(0, off, data % U16)]

\* A create context with a name of n bytes and data of the given size. Its Next
\* field is written by the encoder of the packet that holds it.
CreateContext(n, data) ==
  LET off == Roundup(16 + n, 8) IN
  [size |-> off + data,
   enc |-> [Next |-> <<0, 4>>, NameOffset |-> <<4, 2>>, NameLength |-> <<6, 2>>,
            DataOffset |-> <<10, 2>>, DataLength |-> <<12, 4>>, Name |-> <<16, n>>,
            Buffer |-> <<off, data>>],
   dec |-> CreateContextDecoder(off, n, data),
   valid |-> TRUE]

CreateContextMaximalAccessResponse ==
  [size |-> 8, enc |-> [QueryStatus |-> <<0, 4>>, MaximalAccess |-> <<4, 4>>],
   dec |-> NoDecoder, valid |-> TRUE]

CloseResponse ==
  [size |-> 60,
   enc |-> [StructureSize |-> <<0, 2>>, Flags |-> <<2, 2>>, CreationTime |-> <<8, 8>>,
            LastAccessTime |-> <<16, 8>>, LastWriteTime |-> <<24, 8>>,
            ChangeTime |-> <<32, 8>>, AllocationSize |-> <<40, 8>>,
            EndofFile |-> <<48, 8>>, FileAttributes |-> <<56, 4>>],
   dec |-> [StructureSize |-> <<0, 2>>, Flags |-> <<2, 2>>, CreationTime |-> <<8, 8>>,
            LastAccessTime |-> <<16, 8>>, LastWriteTime |-> <<24, 8>>,
            ChangeTime |-> <<32, 8>>, AllocationSize |-> <<40, 8>>,
            EndofFile |-> <<48, 8>>, FileAttributes |-> <<56, 4>>],
   valid |-> TRUE]

FlushResponse == Bare(4)

\* Four reserved bytes missing in Size.
ReadResponse_SizeShort(n) ==
  [size |-> 12 + OrOne(n),
   enc |-> [DataLength |-> <<4, 4>>, DataRemaining |-> <<8, 4>>, Data |-> <<16, n>>],
   dec |-> [DataLength |-> <<4, 4>>, DataRemaining |-> <<8, 4>>, Data |-> Slice(16, n)],
   valid |-> TRUE]

ReadResponse(n) ==
  LET off == 16 + 64
      size == 16 + OrOne(n)
  IN [size |-> size,
      enc |-> [StructureSize |-> <<0, 2>>, DataOffset |-> <<2, 1>>, DataLength |-> <<4, 4>>,
               DataRemaining |-> <<8, 4>>, Data |-> <<16, n>>],
      dec |-> [StructureSize |-> <<0, 2>>, DataOffset |-> <<2, 1>>, DataLength |-> <<4, 4>>,
               DataRemaining |-> <<8, 4>>,
               Data |-> SliceIf(off >= 16 + 64, (off - 64) % U8, n)],
      valid |-> size >= 16 /\ size >= off + n - 64]

WriteResponse ==
  [size |-> 17,
   enc |-> [StructureSize |-> <<0, 2>>, Count |-> <<4, 4>>, Remaining |-> <<8, 4>>],
   dec |-> [StructureSize |-> <<0, 2>>, Count |-> <<4, 4>>, Remaining |-> <<8, 4>>,
            WriteChannelInfoOffset |-> <<12, 2>>, WriteChannelInfoLength |-> <<14, 2>>],
   valid |-> TRUE]

LockResponse ==
  [size |-> 4, enc |-> [StructureSize |-> <<0, 2>>, Reserved |-> <<2, 2>>],
   dec |-> NoDecoder, valid |-> TRUE]

EchoResponse ==
  [size |-> 4, enc |-> [StructureSize |-> <<0, 2>>, Reserved |-> <<2, 2>>],
   dec |-> NoDecoder, valid |-> TRUE]

IoctlResponse(in, out) ==
  LET ioff == IF in = 0 THEN 0 ELSE 48 + 64
      ooff == IF out = 0 THEN 0 ELSE 48 + in + 64
      size == 48 + OrOne(in + out)
  IN [size |-> size,
      enc |-> [StructureSize |-> <<0, 2>>, CtlCode |-> <<4, 4>>, FileId |-> <<8, 16>>,
               InputOffset |-> <<24, 4>>, InputCount |-> <<28, 4>>,
               OutputOffset |-> <<32, 4>>, OutputCount |-> <<36, 4>>, Flags |-> <<40, 4>>,
               Input |-> <<48, in>>, Output |-> <<48 + in, out>>],
      dec |-> [StructureSize |-> <<0, 2>>, CtlCode |-> <<4, 4>>, FileId |-> <<8, 16>>,
               InputOffset |-> <<24, 4>>, InputCount |-> <<28, 4>>,
               OutputOffset |-> <<32, 4>>, OutputCount |-> <<36, 4>>, Flags |-> <<40, 4>>,
               Input |-> SliceIf(ioff >= 64 + 48, ioff - 64, in),
               Output |-> SliceIf(ooff >= 64 + 48, ooff - 64, out)],
      valid |-> size >= 48 /\ size >= ioff + in - 64 /\ size >= ooff + out - 64]

\* QUERY_DIRECTORY, QUERY_INFO and CHANGE_NOTIFY answer with one buffer.
OutputResponse(n) ==
  LET off == IF n = 0 THEN 0 ELSE 8 + 64
      size == 8 + OrOne(n)
  IN [size |-> size,
      enc |-> [StructureSize |-> <<0, 2>>, OutputBufferOffset |-> <<2, 2>>,
               OutputBufferLength |-> <<4, 4>>, OutputBuffer |-> <<8, n>>],
      dec |-> [StructureSize |-> <<0, 2>>, OutputBufferOffset |-> <<2, 2>>,
               OutputBufferLength |-> <<4, 4>>,
               OutputBuffer |-> SliceIf(off >= 64 + 8, off - 64, n)],
      valid |-> size >= 8 /\ size >= off + n - 64]

QueryDirectoryResponse(n) == OutputResponse(n)
QueryInfoResponse(n) == OutputResponse(n)

SetInfoResponse == Bare(2)

ChangeNotifyResponse(n) ==
  [size |-> 8 + OrOne(n),
   enc |-> [StructureSize |-> <<0, 2>>, OutputBufferOffset |-> <<2, 2>>,
            OutputBufferLength |-> <<4, 4>>, OutputBuffer |-> <<8, n>>],
   dec |-> NoDecoder, valid |-> TRUE]

(* Data of create contexts. The server decodes a lease in request.go and       *)
(* answers with one of the same layout.                                        *)

AAPLServerQueryRequestDecoder == [CommandCode |-> <<0, 4>>]

DurableHandleRequest2Decoder == [Timeout |-> <<0, 4>>, Flags |-> <<4, 4>>]

LeaseRequestDecoder ==
  [LeaseKey |-> <<0, 16>>, LeaseState |-> <<16, 4>>, LeaseFlags |-> <<20, 4>>,
   LeaseDuration |-> <<24, 8>>]

LeaseRequest2Decoder ==
  [LeaseKey |-> <<0, 16>>, LeaseState |-> <<16, 4>>, LeaseFlags |-> <<20, 4>>,
   LeaseDuration |-> <<24, 8>>, ParentLeaseKey |-> <<32, 16>>, Epoch |-> <<48, 2>>]

AAPLServerQueryResponse(n) ==
  [size |-> Roundup(40 + n, 8),
   enc |-> [CommandCode |-> <<0, 4>>, ReplyBitmap |-> <<8, 8>>, ServerCaps |-> <<16, 8>>,
            VolumeCaps |-> <<24, 8>>, ModelLength |-> <<36, 4>>, ModelString |-> <<40, n>>],
   dec |-> AAPLServerQueryRequestDecoder,
   valid |-> TRUE]

DurableHandleResponse2 ==
  [size |-> 8, enc |-> [Timeout |-> <<0, 4>>, Flags |-> <<4, 4>>],
   dec |-> DurableHandleRequest2Decoder, valid |-> TRUE]

LeaseResponse ==
  [size |-> 32,
   enc |-> [LeaseKey |-> <<0, 16>>, LeaseState |-> <<16, 4>>, LeaseFlags |-> <<20, 4>>,
            LeaseDuration |-> <<24, 8>>],
   dec |-> LeaseRequestDecoder, valid |-> TRUE]

LeaseResponse2 ==
  [size |-> 52,
   enc |-> [LeaseKey |-> <<0, 16>>, LeaseState |-> <<16, 4>>, LeaseFlags |-> <<20, 4>>,
            LeaseDuration |-> <<24, 8>>, ParentLeaseKey |-> <<32, 16>>, Epoch |-> <<48, 2>>],
   dec |-> LeaseRequest2Decoder, valid |-> TRUE]

DiskIdResponse ==
  [size |-> 32, enc |-> [DiskFileId |-> <<0, 8>>, VolumeId |-> <<8, 8>>],
   dec |-> NoDecoder, valid |-> TRUE]
==================================================================================
