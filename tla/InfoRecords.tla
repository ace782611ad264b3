------------------------------- MODULE InfoRecords -------------------------------
(* The information classes: the server encodes them in server/info_fs.go for    *)
(* queries, and decodes there what it is given to set; internal/smb2/fscc.go   *)
(* has the other side of both. A name of n bytes is the variable part.         *)
EXTENDS Layout

(* ----------------------------- decoders ----------------------------- *)

FileBasicInformationDecoder ==
  [CreationTime |-> <<0, 8>>, LastAccessTime |-> <<8, 8>>, LastWriteTime |-> <<16, 8>>,
   ChangeTime |-> <<24, 8>>, FileAttributes |-> <<32, 4>>]

FileStandardInformationDecoder ==
  [AllocationSize |-> <<0, 8>>, EndOfFile |-> <<8, 8>>, NumberOfLinks |-> <<16, 4>>,
   DeletePending |-> <<20, 1>>, Directory |-> <<21, 1>>]

\* Internal, EA, access, position, mode and alignment information are a number.
NumberDecoders ==
  [IndexNumber |-> [IndexNumber |-> <<0, 8>>], EaSize |-> [EaSize |-> <<0, 4>>],
   AccessFlags |-> [AccessFlags |-> <<0, 4>>],
   CurrentByteOffset |-> [CurrentByteOffset |-> <<0, 8>>], Mode |-> [Mode |-> <<0, 4>>],
   AlignmentRequirement |-> [AlignmentRequirement |-> <<0, 4>>]]

FileNameInformationDecoder(n) == [FileNameLength |-> <<0, 4>>, FileName |-> Slice(4, n)]

FileAllInformationDecoder(size) ==
  [Basic |-> <<0, 40>>, Standard |-> <<40, 24>>, Internal |-> <<64, 8>>, Ea |-> <<72, 4>>,
   Access |-> <<76, 4>>, Position |-> <<80, 8>>, Mode |-> <<88, 4>>, Alignment |-> <<92, 4>>,
   Name |-> Slice(96, size - 96)]

FileFsFullSizeInformationDecoder ==
  [TotalAllocationUnits |-> <<0, 8>>, CallerAvailableAllocationUnits |-> <<8, 8>>,
   ActualAvailableAllocationUnits |-> <<16, 8>>, SectorsPerAllocationUnit |-> <<24, 4>>,
   BytesPerSector |-> <<28, 4>>]

FileDirectoryInformationDecoder(n) ==
  [NextEntryOffset |-> <<0, 4>>, FileIndex |-> <<4, 4>>, CreationTime |-> <<8, 8>>,
   LastAccessTime |-> <<16, 8>>, LastWriteTime |-> <<24, 8>>, ChangeTime |-> <<32, 8>>,
   EndOfFile |-> <<40, 8>>, AllocationSize |-> <<48, 8>>, FileAttributes |-> <<56, 4>>,
   FileNameLength |-> <<60, 4>>, FileName |-> Slice(64, n)]

FileBasicInformationInfoDecoder ==
  [CreationTime |-> <<0, 8>>, LastAccessTime |-> <<8, 8>>, LastWriteTime |-> <<16, 8>>,
   ChangeTime |-> <<24, 8>>, FileAttributes |-> <<32, 4>>]

FileEndOfFileInformationInfoDecoder == [EndOfFile |-> <<0, 8>>]

FileDispositionInformationInfoDecoder == [DeletePending |-> <<0, 1>>]

FileRenameInformationInfoDecoder(n) ==
  [ReplaceIfExists |-> <<0, 1>>, RootDirectory |-> <<8, 8>>, FileNameLength |-> <<16, 4>>,
   FileName |-> Slice(20, n)]

\* The print name follows the substitute name in the path buffer.
SymbolicLinkReparseDataBufferDecoder(slen, plen) ==
  [ReparseTag |-> <<0, 4>>, ReparseDataLength |-> <<4, 2>>, SubstituteNameOffset |-> <<8, 2>>,
   SubstituteNameLength |-> <<10, 2>>, PrintNameOffset |-> <<12, 2>>,
   PrintNameLength |-> <<14, 2>>, Flags |-> <<16, 4>>,
   SubstituteName |-> Slice16(20, 0, slen), PrintName |-> Slice16(20, slen, plen)]

(* ------------------------- what a query answers ------------------------- *)

FileBasicInformationInfo ==
  [size |-> 40,
   enc |-> [CreationTime |-> <<0, 8>>, LastAccessTime |-> <<8, 8>>,
            LastWriteTime |-> <<16, 8>>, ChangeTime |-> <<24, 8>>, FileAttributes |-> <<32, 4>>],
   dec |-> FileBasicInformationDecoder, valid |-> TRUE]

FileStandardInformationInfo ==
  [size |-> 24,
   enc |-> [AllocationSize |-> <<0, 8>>, EndOfFile |-> <<8, 8>>, NumberOfLinks |-> <<16, 4>>,
            DeletePending |-> <<20, 1>>, Directory |-> <<21, 1>>],
   dec |-> FileStandardInformationDecoder, valid |-> TRUE]

FileInternalInformationInfo ==
  [size |-> 8, enc |-> [IndexNumber |-> <<0, 8>>], dec |-> NumberDecoders.IndexNumber,
   valid |-> TRUE]

FileEaInformationInfo ==
  [size |-> 4, enc |-> [EaSize |-> <<0, 4>>], dec |-> NumberDecoders.EaSize, valid |-> TRUE]

FileAccessInformationInfo ==
  [size |-> 4, enc |-> [AccessFlags |-> <<0, 4>>], dec |-> NumberDecoders.AccessFlags,
   valid |-> TRUE]

FilePositionInformationInfo ==
  [size |-> 8, enc |-> [CurrentByteOffset |-> <<0, 8>>],
   dec |-> NumberDecoders.CurrentByteOffset, valid |-> TRUE]

FileModeInformationInfo ==
  [size |-> 4, enc |-> [Mode |-> <<0, 4>>], dec |-> NumberDecoders.Mode, valid |-> TRUE]

FileAlignmentInformationInfo ==
  [size |-> 4, enc |-> [AlignmentRequirement |-> <<0, 4>>],
   dec |-> NumberDecoders.AlignmentRequirement, valid |-> TRUE]

FileAlternateNameInformationInfo(n) ==
  [size |-> n + 4, enc |-> [FileNameLength |-> <<0, 4>>, FileName |-> <<4, n>>],
   dec |-> FileNameInformationDecoder(n), valid |-> TRUE]

\* The nine parts one after the other; the decoder knows where each begins.
FileAllInformationInfo(n) ==
  LET part == <<FileBasicInformationInfo.size, FileStandardInformationInfo.size,
                FileInternalInformationInfo.size, FileEaInformationInfo.size,
                FileAccessInformationInfo.size, FilePositionInformationInfo.size,
                FileModeInformationInfo.size, FileAlignmentInformationInfo.size,
                FileAlternateNameInformationInfo(n).size>>
      at == Starts(0, part, 1)
      size == Ends(0, part, 1)
  IN [size |-> size,
      enc |-> [Basic |-> <<at[1], part[1]>>, Standard |-> <<at[2], part[2]>>,
               Internal |-> <<at[3], part[3]>>, Ea |-> <<at[4], part[4]>>,
               Access |-> <<at[5], part[5]>>, Position |-> <<at[6], part[6]>>,
               Mode |-> <<at[7], part[7]>>, Alignment |-> <<at[8], part[8]>>,
               Name |-> <<at[9], part[9]>>],
      dec |-> FileAllInformationDecoder(size), valid |-> size >= 96]

FileNetworkOpenInformationInfo ==
  [size |-> 56,
   enc |-> [CreationTime |-> <<0, 8>>, LastAccessTime |-> <<8, 8>>, LastWriteTime |-> <<16, 8>>,
            ChangeTime |-> <<24, 8>>, AllocationSize |-> <<32, 8>>, EndOfFile |-> <<40, 8>>,
            FileAttributes |-> <<48, 4>>],
   dec |-> NoDecoder, valid |-> TRUE]

FileStreamInformationInfo(n) ==
  [size |-> Roundup(24 + n, 8),
   enc |-> [NextEntryOffset |-> <<0, 4>>, StreamNameLength |-> <<4, 4>>, StreamSize |-> <<8, 8>>,
            StreamAllocationSize |-> <<16, 8>>, StreamName |-> <<24, n>>],
   dec |-> NoDecoder, valid |-> TRUE]

FileFsAttributeInformationInfo(n) ==
  [size |-> 12 + n,
   enc |-> [FileSystemAttributes |-> <<0, 4>>, MaximumComponentNameLength |-> <<4, 4>>,
            FileSystemNameLength |-> <<8, 4>>, FileSystemName |-> <<12, n>>],
   dec |-> NoDecoder, valid |-> TRUE]

FileFsDeviceInformationInfo ==
  [size |-> 8, enc |-> [DeviceType |-> <<0, 4>>, Characteristics |-> <<4, 4>>],
   dec |-> NoDecoder, valid |-> TRUE]

FileFsFullSizeInformationInfo ==
  [size |-> 32,
   enc |-> [TotalAllocationUnits |-> <<0, 8>>, CallerAvailableAllocationUnits |-> <<8, 8>>,
            ActualAvailableAllocationUnits |-> <<18, 8>>,
            SectorsPerAllocationUnit |-> <<24, 4>>, BytesPerSector |-> <<28, 4>>],
   dec |-> FileFsFullSizeInformationDecoder, valid |-> TRUE]

FileFsSizeInformationInfo ==
  [size |-> 24,
   enc |-> [TotalAllocationUnits |-> <<0, 8>>, AvailableAllocationUnits |-> <<8, 8>>,
            SectorsPerAllocationUnit |-> <<16, 4>>, BytesPerSector |-> <<20, 4>>],
   dec |-> NoDecoder, valid |-> TRUE]

FileFsVolumeInformationInfo(n) ==
  [size |-> 18 + n,
   enc |-> [VolumeCreationTime |-> <<0, 8>>, VolumeSerialNumber |-> <<8, 4>>,
            VolumeLabelLength |-> <<12, 4>>, VolumeLabel |-> <<18, n>>],
   dec |-> NoDecoder, valid |-> TRUE]

(* ------------------- entries of QUERY_DIRECTORY ------------------- *)

FileDirectoryInformationInfo(n) ==
  [size |-> Roundup(64 + n, 8),
   enc |-> [NextEntryOffset |-> <<0, 4>>, FileIndex |-> <<4, 4>>, CreationTime |-> <<8, 8>>,
            LastAccessTime |-> <<16, 8>>, LastWriteTime |-> <<24, 8>>, ChangeTime |-> <<32, 8>>,
            EndOfFile |-> <<40, 8>>, AllocationSize |-> <<48, 8>>, FileAttributes |-> <<56, 4>>,
            FileNameLength |-> <<60, 4>>, FileName |-> <<64, n>>],
   dec |-> FileDirectoryInformationDecoder(n), valid |-> Roundup(64 + n, 8) >= 64 + n]

FileFullDirectoryInformationInfo(n) ==
  [size |-> Roundup(68 + n, 8),
   enc |-> [NextEntryOffset |-> <<0, 4>>, FileIndex |-> <<4, 4>>, CreationTime |-> <<8, 8>>,
            LastAccessTime |-> <<16, 8>>, LastWriteTime |-> <<24, 8>>, ChangeTime |-> <<32, 8>>,
            EndOfFile |-> <<40, 8>>, AllocationSize |-> <<48, 8>>, FileAttributes |-> <<56, 4>>,
            FileNameLength |-> <<60, 4>>, EaSize |-> <<64, 4>>, FileName |-> <<68, n>>],
   dec |-> NoDecoder, valid |-> TRUE]

\* The short name is left zero.
FileBothDirectoryInformationInfo(n) ==
  [size |-> Roundup(82 + n, 16),
   enc |-> [NextEntryOffset |-> <<0, 4>>, FileIndex |-> <<4, 4>>, CreationTime |-> <<8, 8>>,
            LastAccessTime |-> <<16, 8>>, LastWriteTime |-> <<24, 8>>, ChangeTime |-> <<32, 8>>,
            EndOfFile |-> <<40, 8>>, AllocationSize |-> <<48, 8>>, FileAttributes |-> <<56, 4>>,
            FileNameLength |-> <<60, 4>>, EaSize |-> <<64, 4>>, FileName |-> <<82, n>>],
   dec |-> NoDecoder, valid |-> TRUE]

FileIdBothDirectoryInformationInfo(n) ==
  [size |-> Roundup(104 + n, 16),
   enc |-> [NextEntryOffset |-> <<0, 4>>, FileIndex |-> <<4, 4>>, CreationTime |-> <<8, 8>>,
            LastAccessTime |-> <<16, 8>>, LastWriteTime |-> <<24, 8>>, ChangeTime |-> <<32, 8>>,
            EndOfFile |-> <<40, 8>>, AllocationSize |-> <<48, 8>>, FileAttributes |-> <<56, 4>>,
            FileNameLength |-> <<60, 4>>, EaSize |-> <<64, 4>>, FileId |-> <<96, 8>>,
            FileName |-> <<104, n>>],
   dec |-> NoDecoder, valid |-> TRUE]

FileIdBothDirectoryInformationInfo2(n) ==
  [size |-> Roundup(104 + n, 16),
   enc |-> [NextEntryOffset |-> <<0, 4>>, FileIndex |-> <<4, 4>>, CreationTime |-> <<8, 8>>,
            LastAccessTime |-> <<16, 8>>, LastWriteTime |-> <<24, 8>>, ChangeTime |-> <<32, 8>>,
            EndOfFile |-> <<40, 8>>, AllocationSize |-> <<48, 8>>, FileAttributes |-> <<56, 4>>,
            FileNameLength |-> <<60, 4>>, MaxAccess |-> <<64, 4>>, ShortNameLength |-> <<68, 1>>,
            RsrcForkLen |-> <<70, 8>>, CompressedFinderInfo |-> <<78, 16>>,
            UnixMode |-> <<94, 2>>, FileId |-> <<96, 8>>, FileName |-> <<104, n>>],
   dec |-> NoDecoder, valid |-> TRUE]

FileIdFullDirectoryInformationInfo(n) ==
  [size |-> Roundup(80 + n, 8),
   enc |-> [NextEntryOffset |-> <<0, 4>>, FileIndex |-> <<4, 4>>, CreationTime |-> <<8, 8>>,
            LastAccessTime |-> <<16, 8>>, LastWriteTime |-> <<24, 8>>, ChangeTime |-> <<32, 8>>,
            EndOfFile |-> <<40, 8>>, AllocationSize |-> <<48, 8>>, FileAttributes |-> <<56, 4>>,
            FileNameLength |-> <<60, 4>>, EaSize |-> <<64, 4>>, FileId |-> <<72, 8>>,
            FileName |-> <<80, n>>],
   dec |-> NoDecoder, valid |-> TRUE]

FileNotifyInformationInfo(n) ==
  [size |-> 12 + n,
   enc |-> [NextEntryOffset |-> <<0, 4>>, Action |-> <<4, 4>>, FileNameLength |-> <<8, 4>>,
            FileName |-> <<12, n>>],
   dec |-> NoDecoder, valid |-> TRUE]

AfpInfo ==
  [size |-> 60,
   enc |-> [Signature |-> <<0, 4>>, Version |-> <<4, 4>>, FileBitmap |-> <<8, 2>>,
            FinderInfo |-> <<12, 32>>, ProDOSInfo |-> <<44, 6>>],
   dec |-> NoDecoder, valid |-> TRUE]

FileObjectId1 ==
  [size |-> 64,
   enc |-> [ObjectId |-> <<0, 16>>, BirthVolumeId |-> <<16, 16>>, BirthObjectId |-> <<32, 16>>,
            DomainId |-> <<48, 16>>],
   dec |-> NoDecoder, valid |-> TRUE]

(* ----------- what a client sets, with the server's decoder ----------- *)

FileBasicInformationEncoder ==
  [size |-> 40,
   enc |-> [CreationTime |-> <<0, 8>>, LastAccessTime |-> <<8, 8>>,
            LastWriteTime |-> <<16, 8>>, ChangeTime |-> <<24, 8>>, FileAttributes |-> <<32, 4>>],
   dec |-> FileBasicInformationInfoDecoder, valid |-> TRUE]

FileEndOfFileInformationEncoder ==
  [size |-> 8, enc |-> [EndOfFile |-> <<0, 8>>], dec |-> FileEndOfFileInformationInfoDecoder,
   valid |-> TRUE]

FileDispositionInformationEncoder ==
  [size |-> 4, enc |-> [DeletePending |-> <<0, 1>>],
   dec |-> FileDispositionInformationInfoDecoder, valid |-> TRUE]

FileRenameInformationType2Encoder(n) ==
  [size |-> 20 + n,
   enc |-> [ReplaceIfExists |-> <<0, 1>>, RootDirectory |-> <<8, 8>>,
            FileNameLength |-> <<16, 4>>, FileName |-> <<20, n>>],
   dec |-> FileRenameInformationInfoDecoder(n), valid |-> TRUE]

SymbolicLinkReparseDataBuffer(slen, plen) ==
  LET size == 20 + slen + plen
      rlen == (size - 8) % U16
  IN [size |-> size,
      enc |-> [ReparseTag |-> <<0, 4>>, ReparseDataLength |-> <<4, 2>>,
               SubstituteNameOffset |-> <<8, 2>>, SubstituteNameLength |-> <<10, 2>>,
               PrintNameOffset |-> <<12, 2>>, PrintNameLength |-> <<14, 2>>,
               Flags |-> <<16, 4>>, SubstituteName |-> <<20, slen>>,
               PrintName |-> <<20 + slen, plen>>],
      dec |-> SymbolicLinkReparseDataBufferDecoder(slen % U16, plen % U16),
      valid |-> /\ size >= 20 /\ slen % 2 = 0 /\ size >= 8 + rlen
                /\ rlen >= 12 + slen /\ rlen >= 12 + slen + plen]

\* n chunks.
SrvCopychunkCopy(n) ==
  [size |-> 32 + n * 24,
   enc |-> [SourceKey |-> <<0, 24>>, ChunkCount |-> <<24, 4>>, Chunks |-> <<32, n * 24>>],
   dec |-> NoDecoder, valid |-> TRUE]
==================================================================================
