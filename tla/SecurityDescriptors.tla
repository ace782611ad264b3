--------------------------- MODULE SecurityDescriptors ---------------------------
(* Security descriptors, server/acl.go, and the SID of internal/smb2/dtyp.go.   *)
(* A SID is given by its number of sub-authorities, an ACL by the sequence of    *)
(* these numbers for its entries; an absent part is -1 or the empty sequence.    *)
EXTENDS Layout

SIDSize(subs) == IF subs < 0 THEN 0 ELSE 8 + 4 * subs

SidDecoder(subs) ==
  [Revision |-> <<0, 1>>, SubAuthorityCount |-> <<1, 1>>, IdentifierAuthority |-> <<2, 6>>,
   SubAuthority |-> Slice(8, 4 * (subs % U8))]

SID(subs) ==
  [size |-> SIDSize(subs),
   enc |-> [Revision |-> <<0, 1>>, SubAuthorityCount |-> <<1, 1>>,
            IdentifierAuthority |-> <<2, 6>>, SubAuthority |-> <<8, 4 * subs>>],
   dec |-> SidDecoder(subs), valid |-> SIDSize(subs) >= 8 + 4 * (subs % U8)]

ACESize(subs) == 8 + SIDSize(subs)

\* The decoder's Sid is the rest of the entries; its own count ends it.
ACE(subs) ==
  [size |-> ACESize(subs),
   enc |-> [Type |-> <<0, 1>>, Flags |-> <<1, 1>>, Size |-> <<2, 2>>, Mask |-> <<4, 4>>,
            Sid |-> <<8, SIDSize(subs)>>],
   dec |-> [Type |-> <<0, 1>>, Flags |-> <<1, 1>>, Size |-> <<2, 2>>, Mask |-> <<4, 4>>,
            Sid |-> Slice(8, SIDSize(subs % U8))],
   valid |-> TRUE]

ACLSize(aces) == Ends(8, [i \in DOMAIN aces |-> ACESize(aces[i])], 1)

ACL(aces) ==
  [size |-> ACLSize(aces),
   enc |-> [Revision |-> <<0, 1>>, AclSize |-> <<2, 2>>, AceCount |-> <<4, 2>>,
            Aces |-> <<8, ACLSize(aces) - 8>>],
   dec |-> [Revision |-> <<0, 1>>, AclSize |-> <<2, 2>>, AceCount |-> <<4, 2>>,
            Aces |-> Slice(8, (ACLSize(aces) % U16) - 8)],
   valid |-> TRUE]

\* Owner, group and DACL follow the fixed part in this order; the server makes
\* no SACL.
SecurityDescriptor(owner, group, aces) ==
  LET part == <<SIDSize(owner), SIDSize(group), IF aces = <<>> THEN 0 ELSE ACLSize(aces)>>
      at == Starts(20, part, 1)
      off == [i \in 1..3 |-> IF part[i] = 0 THEN 0 ELSE at[i]]
  IN [size |-> Ends(20, part, 1),
      enc |-> [Revision |-> <<0, 1>>, Control |-> <<2, 2>>, OffsetOwner |-> <<4, 4>>,
               OffsetGroup |-> <<8, 4>>, OffsetDacl |-> <<16, 4>>,
               OwnerSid |-> <<at[1], part[1]>>, GroupSid |-> <<at[2], part[2]>>,
               Dacl |-> <<at[3], part[3]>>],
      dec |-> [Revision |-> <<0, 1>>, Control |-> <<2, 2>>, OffsetOwner |-> <<4, 4>>,
               OffsetGroup |-> <<8, 4>>, OffsetSacl |-> <<12, 4>>, OffsetDacl |-> <<16, 4>>,
               OwnerSid |-> SliceIf(off[1] # 0, off[1], part[1]),
               GroupSid |-> SliceIf(off[2] # 0, off[2], part[2]),
               Dacl |-> SliceIf(off[3] # 0, off[3], part[3])],
      valid |-> TRUE]

==================================================================================
