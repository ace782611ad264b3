------------------------------ MODULE SMB2Requests ------------------------------
(* The requests of internal/smb2/request.go, without their 64-byte header. The *)
(* parameter n is the length of the variable part (a buffer or an encoded      *)
(* name); cs are the sizes of the contexts or channel-information items that   *)
(* follow. `valid' is the negation of the decoder's IsInvalid.                 *)
EXTENDS Layout

NegotiateRequest(n, cs) ==
  LET dialects == n % U16
      off == ContextsOffset(36 + 2 * n, cs)
      size == Ends(36 + 2 * n, cs, 8)
  IN [size |-> size,
      enc |-> [StructureSize |-> <<0, 2>>, DialectCount |-> <<2, 2>>,
               SecurityMode |-> <<4, 2>>, Capabilities |-> <<8, 4>>,
               ClientGuid |-> <<12, 16>>, NegotiateContextOffset |-> <<28, 4>>,
               NegotiateContextCount |-> <<32, 2>>, Dialects |-> <<36, 2 * n>>,
               Contexts |-> Contexts(36 + 2 * n, cs)],
      dec |-> [StructureSize |-> <<0, 2>>, DialectCount |-> <<2, 2>>,
               SecurityMode |-> <<4, 2>>, Capabilities |-> <<8, 4>>,
               ClientGuid |-> <<12, 16>>, NegotiateContextOffset |-> <<28, 4>>,
               NegotiateContextCount |-> <<32, 2>>,
               Dialects |-> Slice16(0, 36, 2 * dialects),
               Contexts |-> SliceIf(off >= 64, off - 64, size - (off - 64))],
      valid |-> size >= 36 /\ off % 8 = 0 /\ size >= off - 36]

SessionSetupRequest(n) ==
  LET off == 64 + 24
      len == n % U16
      size == 24 + OrOne(n)
  IN [size |-> size,
      enc |-> [StructureSize |-> <<0, 2>>, Flags |-> <<2, 1>>, SecurityMode |-> <<3, 1>>,
               Capabilities |-> <<4, 4>>, Channel |-> <<8, 4>>,
               SecurityBufferOffset |-> <<12, 2>>, SecurityBufferLength |-> <<14, 2>>,
               PreviousSessionId |-> <<16, 8>>, SecurityBuffer |-> <<24, n>>],
      dec |-> [StructureSize |-> <<0, 2>>, Flags |-> <<2, 1>>, SecurityMode |-> <<3, 1>>,
               Capabilities |-> <<4, 4>>, Channel |-> <<8, 4>>,
               SecurityBufferOffset |-> <<12, 2>>, SecurityBufferLength |-> <<14, 2>>,
               PreviousSessionId |-> <<16, 8>>,
               SecurityBuffer |-> IF off >= 64 + 24 THEN Slice16(0, off - 64, len) ELSE Nothing],
      valid |-> size >= 24 /\ size >= ((off + len) % U16) - 64]

LogoffRequest == Bare(4)

\* The offset of the path without the header.
TreeConnectRequest_OffsetInBody(n) ==
  [size |-> 8 + OrOne(n),
   enc |-> [PathOffset |-> <<4, 2>>, PathLength |-> <<6, 2>>, Path |-> <<8, n>>],
   dec |-> [PathOffset |-> <<4, 2>>, PathLength |-> <<6, 2>>,
            Path |-> SliceIf(8 >= 64 + 8, 0, n)],
   valid |-> TRUE]

TreeConnectRequest(n) ==
  LET off == 8 + 64
      len == n % U16
      size == 8 + OrOne(n)
  IN [size |-> size,
      enc |-> [StructureSize |-> <<0, 2>>, Flags |-> <<2, 2>>, PathOffset |-> <<4, 2>>,
               PathLength |-> <<6, 2>>, Path |-> <<8, n>>],
      dec |-> [StructureSize |-> <<0, 2>>, Flags |-> <<2, 2>>, PathOffset |-> <<4, 2>>,
               PathLength |-> <<6, 2>>, Path |-> IF off >= 64 + 8 THEN Slice16(0, off - 64, len) ELSE Nothing],
      valid |-> size >= 8 /\ size >= ((off + len) % U16) - 64]

TreeDisconnectRequest == Bare(4)

\* CreateContextsLength counts from the end of the name, the contexts begin at
\* the next multiple of 8.
CreateRequest(n, cs) ==
  LET noff == 56 + 64
      nlen == n % U16
      coff == ContextsOffset(56 + n, cs)
      clen == Ends(56 + n, cs, 8) - (56 + n)
      size == IF n = 0 /\ cs = <<>> THEN 57 ELSE Ends(56 + n, cs, 8)
  IN [size |-> size,
      enc |-> [StructureSize |-> <<0, 2>>, SecurityFlags |-> <<2, 1>>,
               RequestedOplockLevel |-> <<3, 1>>, ImpersonationLevel |-> <<4, 4>>,
               SmbCreateFlags |-> <<8, 8>>, DesiredAccess |-> <<24, 4>>,
               FileAttributes |-> <<28, 4>>, ShareAccess |-> <<32, 4>>,
               CreateDisposition |-> <<36, 4>>, CreateOptions |-> <<40, 4>>,
               NameOffset |-> <<44, 2>>, NameLength |-> <<46, 2>>,
               CreateContextsOffset |-> <<48, 4>>, CreateContextsLength |-> <<52, 4>>,
               Name |-> <<56, n>>,
               Contexts |-> Contexts(56 + n, cs)],
      dec |-> [StructureSize |-> <<0, 2>>, SecurityFlags |-> <<2, 1>>,
               RequestedOplockLevel |-> <<3, 1>>, ImpersonationLevel |-> <<4, 4>>,
               SmbCreateFlags |-> <<8, 8>>, DesiredAccess |-> <<24, 4>>,
               FileAttributes |-> <<28, 4>>, ShareAccess |-> <<32, 4>>,
               CreateDisposition |-> <<36, 4>>, CreateOptions |-> <<40, 4>>,
               NameOffset |-> <<44, 2>>, NameLength |-> <<46, 2>>,
               CreateContextsOffset |-> <<48, 4>>, CreateContextsLength |-> <<52, 4>>,
               Name |-> Slice16(0, noff - 64, nlen),
               Contexts |-> SliceIf(clen # 0, coff - 64, clen)],
      valid |-> /\ size >= 56 /\ noff % 8 = 0 /\ size >= ((noff + nlen) % U16) - 64
                /\ coff % 8 = 0 /\ size >= coff + clen - 64]

CloseRequest ==
  [size |-> 24,
   enc |-> [StructureSize |-> <<0, 2>>, Flags |-> <<2, 2>>, FileId |-> <<8, 16>>],
   dec |-> [StructureSize |-> <<0, 2>>, Flags |-> <<2, 2>>, FileId |-> <<8, 16>>],
   valid |-> TRUE]

FlushRequest ==
  [size |-> 24,
   enc |-> [StructureSize |-> <<0, 2>>, FileId |-> <<8, 16>>],
   dec |-> [StructureSize |-> <<0, 2>>, FileId |-> <<8, 16>>],
   valid |-> TRUE]

\* The check of the decoder compares an offset from the start of the header
\* with a length without it.
ReadRequest(cs) ==
  LET off == IF cs = <<>> THEN 0 ELSE 64 + 48
      len == (Ends(48, cs, 1) - 48) % U16
      size == IF cs = <<>> THEN 49 ELSE Ends(48, cs, 1)
  IN [size |-> size,
      enc |-> [StructureSize |-> <<0, 2>>, Padding |-> <<2, 1>>, Flags |-> <<3, 1>>,
               Length |-> <<4, 4>>, Offset |-> <<8, 8>>, FileId |-> <<16, 16>>,
               MinimumCount |-> <<32, 4>>, Channel |-> <<36, 4>>,
               RemainingBytes |-> <<40, 4>>, ReadChannelInfoOffset |-> <<44, 2>>,
               ReadChannelInfoLength |-> <<46, 2>>,
               ReadChannelInfo |-> <<48, Ends(48, cs, 1) - 48>>],
      dec |-> [StructureSize |-> <<0, 2>>, Padding |-> <<2, 1>>, Flags |-> <<3, 1>>,
               Length |-> <<4, 4>>, Offset |-> <<8, 8>>, FileId |-> <<16, 16>>,
               MinimumCount |-> <<32, 4>>, Channel |-> <<36, 4>>,
               RemainingBytes |-> <<40, 4>>, ReadChannelInfoOffset |-> <<44, 2>>,
               ReadChannelInfoLength |-> <<46, 2>>],
      valid |-> size >= 48 /\ size >= (off + len) % U16]

\* The decoder takes the data from byte 48 on, whatever DataOffset says.
WriteRequest(n, cs) ==
  LET woff == IF cs = <<>> THEN 0 ELSE 64 + 48
      wlen == (Ends(48, cs, 1) - 48) % U16
      doff == (64 + Ends(48, cs, 1)) % U16
      size == IF n = 0 /\ cs = <<>> THEN 49 ELSE Ends(48, cs, 1) + n
  IN [size |-> size,
      enc |-> [StructureSize |-> <<0, 2>>, DataOffset |-> <<2, 2>>, Length |-> <<4, 4>>,
               Offset |-> <<8, 8>>, FileId |-> <<16, 16>>, Channel |-> <<32, 4>>,
               RemainingBytes |-> <<36, 4>>, WriteChannelInfoOffset |-> <<40, 2>>,
               WriteChannelInfoLength |-> <<42, 2>>, Flags |-> <<44, 4>>,
               WriteChannelInfo |-> <<48, Ends(48, cs, 1) - 48>>,
               Data |-> <<Ends(48, cs, 1), n>>],
      dec |-> [StructureSize |-> <<0, 2>>, DataOffset |-> <<2, 2>>, Length |-> <<4, 4>>,
               Offset |-> <<8, 8>>, FileId |-> <<16, 16>>, Channel |-> <<32, 4>>,
               RemainingBytes |-> <<36, 4>>, WriteChannelInfoOffset |-> <<40, 2>>,
               WriteChannelInfoLength |-> <<42, 2>>, Flags |-> <<44, 4>>,
               Data |-> Slice(48, n)],
      valid |-> /\ size >= 48 /\ size >= ((woff + wlen) % U16) - 64
                /\ size >= doff + n - 64]

CancelRequest == Bare(4)

\* The decoder's Data is the rest of the packet.
IoctlRequest(n) ==
  LET off == IF n = 0 THEN 0 ELSE 56 + 64
      size == 56 + OrOne(n)
  IN [size |-> size,
      enc |-> [StructureSize |-> <<0, 2>>, CtlCode |-> <<4, 4>>, FileId |-> <<8, 16>>,
               InputOffset |-> <<24, 4>>, InputCount |-> <<28, 4>>,
               MaxInputResponse |-> <<32, 4>>, OutputOffset |-> <<36, 4>>,
               OutputCount |-> <<40, 4>>, MaxOutputResponse |-> <<44, 4>>,
               Flags |-> <<48, 4>>, Data |-> <<56, n>>],
      dec |-> [StructureSize |-> <<0, 2>>, CtlCode |-> <<4, 4>>, FileId |-> <<8, 16>>,
               InputOffset |-> <<24, 4>>, InputCount |-> <<28, 4>>,
               MaxInputResponse |-> <<32, 4>>, OutputOffset |-> <<36, 4>>,
               OutputCount |-> <<40, 4>>, MaxOutputResponse |-> <<44, 4>>,
               Flags |-> <<48, 4>>, Data |-> Slice(56, size - 56)],
      valid |-> size >= 56 /\ size >= off + n - 64]

QueryDirectoryRequest(n) ==
  LET off == 32 + 64
      len == n % U16
      size == 32 + OrOne(n)
  IN [size |-> size,
      enc |-> [StructureSize |-> <<0, 2>>, FileInfoClass |-> <<2, 1>>, Flags |-> <<3, 1>>,
               FileIndex |-> <<4, 4>>, FileId |-> <<8, 16>>, FileNameOffset |-> <<24, 2>>,
               FileNameLength |-> <<26, 2>>, OutputBufferLength |-> <<28, 4>>,
               FileName |-> <<32, n>>],
      dec |-> [StructureSize |-> <<0, 2>>, FileInfoClass |-> <<2, 1>>, Flags |-> <<3, 1>>,
               FileIndex |-> <<4, 4>>, FileId |-> <<8, 16>>, FileNameOffset |-> <<24, 2>>,
               FileNameLength |-> <<26, 2>>, OutputBufferLength |-> <<28, 4>>,
               FileName |-> Slice16(0, off - 64, len)],
      valid |-> size >= 32 /\ size >= ((off + len) % U16) - 64]

QueryInfoRequest(n) ==
  LET off == IF n = 0 THEN 0 ELSE 40 + 64
      size == 40 + OrOne(n)
  IN [size |-> size,
      enc |-> [StructureSize |-> <<0, 2>>, InfoType |-> <<2, 1>>, FileInfoClass |-> <<3, 1>>,
               OutputBufferLength |-> <<4, 4>>, InputBufferOffset |-> <<8, 2>>,
               InputBufferLength |-> <<12, 4>>, AdditionalInformation |-> <<16, 4>>,
               Flags |-> <<20, 4>>, FileId |-> <<24, 16>>, Input |-> <<40, n>>],
      dec |-> [StructureSize |-> <<0, 2>>, InfoType |-> <<2, 1>>, FileInfoClass |-> <<3, 1>>,
               OutputBufferLength |-> <<4, 4>>, InputBufferOffset |-> <<8, 2>>,
               InputBufferLength |-> <<12, 4>>, AdditionalInformation |-> <<16, 4>>,
               Flags |-> <<20, 4>>, FileId |-> <<24, 16>>],
      valid |-> size >= 40 /\ size >= off + n - 64]

\* The decoder's Buffer is the rest of the packet.
SetInfoRequest(n) ==
  LET off == IF n = 0 THEN 0 ELSE 32 + 64
      size == 32 + OrOne(n)
  IN [size |-> size,
      enc |-> [StructureSize |-> <<0, 2>>, InfoType |-> <<2, 1>>, FileInfoClass |-> <<3, 1>>,
               BufferLength |-> <<4, 4>>, BufferOffset |-> <<8, 2>>,
               AdditionalInformation |-> <<12, 4>>, FileId |-> <<16, 16>>,
               Buffer |-> <<32, n>>],
      dec |-> [StructureSize |-> <<0, 2>>, InfoType |-> <<2, 1>>, FileInfoClass |-> <<3, 1>>,
               BufferLength |-> <<4, 4>>, BufferOffset |-> <<8, 2>>,
               AdditionalInformation |-> <<12, 4>>, FileId |-> <<16, 16>>,
               Buffer |-> Slice(32, size - 32)],
      valid |-> size >= 32 /\ size >= off + n - 64]
=================================================================================
