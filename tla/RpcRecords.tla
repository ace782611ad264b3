------------------------------- MODULE RpcRecords -------------------------------
(* The DCE/RPC structures of internal/smb2/dcerpc.go that the IPC$ tree sends.  *)
(* A string is given by its number of characters, its terminating zero included.*)
EXTENDS Layout

DCEHeader ==
  [size |-> 16,
   enc |-> [Version |-> <<0, 1>>, VersionMinor |-> <<1, 1>>, PacketType |-> <<2, 1>>,
            PacketFlags |-> <<3, 1>>, DataRepresentation |-> <<4, 4>>, FragLength |-> <<8, 2>>,
            AuthLength |-> <<10, 2>>, CallID |-> <<12, 4>>],
   dec |-> [Version |-> <<0, 1>>, VersionMinor |-> <<1, 1>>, PacketType |-> <<2, 1>>,
            PacketFlags |-> <<3, 1>>, DataRepresentation |-> <<4, 4>>, FragLength |-> <<8, 2>>,
            AuthLength |-> <<10, 2>>, CallID |-> <<12, 4>>],
   valid |-> TRUE]

\* The places after the secondary address are those of an address of 13 bytes,
\* the only one the server sends; n results follow.
DCEBindAck(addr, n) ==
  [size |-> Roundup(30 + addr, 2) + 24 * n,
   enc |-> [Header |-> <<0, 16>>, MaxSendFragSize |-> <<16, 2>>, MaxRecvFragSize |-> <<18, 2>>,
            AssocGroupID |-> <<20, 4>>, SecAddrLen |-> <<24, 2>>, SecAddr |-> <<26, addr>>,
            Align |-> <<39, 1>>, CtxCount |-> <<40, 1>>, CtxItems |-> <<44, 24 * n>>],
   dec |-> NoDecoder, valid |-> TRUE]

DCERequestRes(n) ==
  [size |-> 24 + n,
   enc |-> [Header |-> <<0, 16>>, AllocHint |-> <<16, 4>>, ContextId |-> <<20, 2>>,
            CancelCount |-> <<22, 1>>, Data |-> <<24, n>>],
   dec |-> [AllocHint |-> <<16, 4>>, ContextId |-> <<20, 2>>, Data |-> Slice(24, n)],
   valid |-> TRUE]

UnicodeStrSize(chars) == 12 + Roundup(2 * chars, 4)

UnicodeStr(chars) ==
  [size |-> UnicodeStrSize(chars),
   enc |-> [MaxCount |-> <<0, 4>>, Offset |-> <<4, 4>>, ActualCount |-> <<8, 4>>,
            EncodedString |-> <<12, 2 * chars>>],
   dec |-> NoDecoder, valid |-> TRUE]

\* A share's name and its comment, the empty string.
Strings(names) ==
  [i \in 1..2 * Len(names) |->
    UnicodeStrSize(IF i % 2 = 1 THEN names[(i + 1) \div 2] ELSE 1)]

\* NetShareInfo1: a count, twelve bytes for each share, then all the strings.
NetShareInfo1(names) ==
  LET size == 4 + Ends(0, [i \in DOMAIN names |->
                            UnicodeStrSize(1) + UnicodeStrSize(names[i]) + 12], 1)
      fixed == 4 + 12 * Len(names)
  IN [size |-> size,
      enc |-> [Count |-> <<0, 4>>, Fixed |-> <<4, 12 * Len(names)>>,
               Names |-> <<fixed, Ends(0, Strings(names), 1)>>],
      dec |-> NoDecoder, valid |-> TRUE]

\* The container and the response around it.
NetShareEnumAllResponse(names) ==
  LET ctr == 8 + 8 + NetShareInfo1(names).size IN
  [size |-> 20 + ctr,
   enc |-> [Level |-> <<0, 4>>, Ctr |-> <<4, ctr>>, TotalEntries |-> <<4 + ctr, 4>>,
            ResumeId |-> <<8 + ctr, 4>>, Resume |-> <<12 + ctr, 4>>,
            WindowsError |-> <<16 + ctr, 4>>],
   dec |-> NoDecoder, valid |-> TRUE]

NetShareGetInfoResponse(name, comment) ==
  LET info == UnicodeStrSize(comment) + UnicodeStrSize(name) + 12 IN
  [size |-> info + 12,
   enc |-> [Level |-> <<0, 4>>, RefId |-> <<4, 4>>, NameId |-> <<8, 4>>, Type |-> <<12, 4>>,
            CommentId |-> <<16, 4>>, Name |-> <<20, UnicodeStrSize(name)>>,
            Comment |-> <<20 + UnicodeStrSize(name), UnicodeStrSize(comment)>>,
            WindowsError |-> <<8 + info, 4>>],
   dec |-> NoDecoder, valid |-> TRUE]
=================================================================================
