------------------------------ MODULE Message ------------------------------
(***************************************************************************)
(* The messages of the wire protocol (pkg/message): what Encode puts on    *)
(* the wire and what Decode reads back, each translated on its own, so     *)
(* that a disagreement between the two is a disagreement of two            *)
(* definitions.  A message is a record named by its type; a byte is a      *)
(* number below 256, a string a sequence of bytes without 0.  An integer   *)
(* takes W bytes, most significant first (8 in the code).                  *)
(***************************************************************************)
EXTENDS Integers, Sequences

CONSTANT W

ASSUME MessageAssumption == W \in Nat \ {0}

\* b[i:j] and b[i:] of Go, whose indices start at 0.
Slice(b, i, j) == SubSeq(b, i + 1, j)
From(b, i) == SubSeq(b, i + 1, Len(b))
At(b, i) == b[i + 1]

\* What a byte is worth with i bytes behind it: 256^i.
Place[i \in 0..W] == IF i = 0 THEN 1 ELSE 256 * Place[i - 1]

\* binary.BigEndian.PutUint64 and Uint64 (of the first W bytes).
PutUint64(n) == [i \in 1..W |-> (n \div Place[W - i]) % 256]
Uint64(b) ==
  LET value[i \in 0..W] == IF i = 0 THEN 0 ELSE 256 * value[i - 1] + b[i]
  IN value[W]

\* The numbers that W bytes hold, strings that are ended by a 0, and strings
\* behind their length.
Uint == 0..(Place[W] - 1)
Uint16 == 0..(256 * 256 - 1)
Byte == 0..255
String == Seq(1..255)
Bytes == {s \in Seq(Byte) : Len(s) \in Uint}

Flag(on) == IF on THEN 1 ELSE 0
Bit(v, k) == (v \div k) % 2 = 1

Cstr(s) == Append(s, 0)
Lstr(s) == PutUint64(Len(s)) \o s

\* The string up to the first 0 and the number of bytes consumed with it.
GetCstring(b) ==
  LET ends == {i \in 1..Len(b) : b[i] = 0}
      n == IF ends = {} THEN Len(b) ELSE (CHOOSE i \in ends : \A j \in ends : i <= j) - 1
  IN [str |-> SubSeq(b, 1, n), offset |-> IF ends = {} THEN n ELSE n + 1]

\* A string behind its length, at offset i.
GetLstring(b, i) ==
  LET n == Uint64(From(b, i))
  IN [str |-> Slice(b, i + W, i + W + n), end |-> i + W + n]

\* What a loop that appends parts[1], parts[2], ... to the bytes leaves there.
Joined(parts) ==
  LET bytes[i \in 0..Len(parts)] == IF i = 0 THEN << >> ELSE bytes[i - 1] \o parts[i]
  IN bytes[Len(parts)]

\* The settings of the V2 and V3 messages: their number, then name and value
\* of each.
Settings == {s \in Seq([Name : String, Value : String]) : Len(s) \in Uint}

PutSettings(settings) ==
  PutUint64(Len(settings))
    \o Joined([i \in 1..Len(settings) |->
                 Cstr(settings[i].Name) \o Cstr(settings[i].Value)])

GetSettings(b) ==
  LET settLen == Uint64(b)
      upto[i \in 0..settLen] ==
        IF i = 0 THEN [settings |-> << >>, off |-> W]
        ELSE LET prev == upto[i - 1]
                 name == GetCstring(From(b, prev.off))
                 value == GetCstring(From(b, prev.off + name.offset))
             IN [settings |-> Append(prev.settings,
                                     [Name |-> name.str, Value |-> value.str]),
                 off |-> prev.off + name.offset + value.offset]
  IN upto[settLen].settings

\* MessageType: the first byte of a body.
TypeByte ==
  [Cat |-> 42, Put |-> 43, CopyDone |-> 44, ReadyForQuery |-> 45,
   CopyData |-> 46, Delete |-> 47, List |-> 48, ObjectMeta |-> 49,
   Patch |-> 50, Copy |-> 51, Gool |-> 52, PutV2 |-> 53, CatV2 |-> 54,
   Error |-> 55, PutV3 |-> 56, PutComplete |-> 57, Untrashify |-> 58,
   CopyV2 |-> 59, CopyComplete |-> 60, ListV2 |-> 61, Delete2 |-> 62,
   CollectObsolete |-> 64, DeleteObsolete |-> 65]
Type == DOMAIN TypeByte

\* The four bytes every body starts with.
Header(c, b1, b2, b3) == <<TypeByte[c.type], b1, b2, b3>>

-----------------------------------------------------------------------------
(* Reading a file                                                          *)

CatMessage ==
  [type : {"Cat"}, Name : String, Decrypt : BOOLEAN, StartOffset : Uint]

CatEncode(c) ==
  Header(c, Flag(c.Decrypt), Flag(c.StartOffset # 0), 0) \o Cstr(c.Name)
    \o (IF c.StartOffset # 0 THEN PutUint64(c.StartOffset) ELSE << >>)

CatDecode(b) ==
  LET name == GetCstring(From(b, 4)).str
  IN [type |-> "Cat", Name |-> name, Decrypt |-> At(b, 1) = 1,
      StartOffset |-> IF At(b, 2) = 1 THEN Uint64(From(b, 4 + Len(name) + 1)) ELSE 0]

CatMessageV2 ==
  [type : {"CatV2"}, Name : String, Decrypt : BOOLEAN, KEK : BOOLEAN,
   StartOffset : Uint, Settings : Settings]

CatV2Encode(c) ==
  Header(c, Flag(c.Decrypt), Flag(c.KEK), 0) \o Cstr(c.Name)
    \o PutUint64(c.StartOffset) \o PutSettings(c.Settings)

CatV2Decode(b) ==
  LET name == GetCstring(From(b, 4))
  IN [type |-> "CatV2", Name |-> name.str,
      Decrypt |-> At(b, 1) = 1, KEK |-> At(b, 2) = 1,
      StartOffset |-> Uint64(From(b, 4 + Len(name.str) + 1)),
      Settings |-> GetSettings(From(b, 4 + W + name.offset))]

-----------------------------------------------------------------------------
(* Writing a file; PutV2 and PutV3 differ in their type alone              *)

PutMessage ==
  [type : {"Put"}, Encrypt : BOOLEAN, Name : String]

PutEncode(c) == Header(c, Flag(c.Encrypt), 0, 0) \o Cstr(c.Name)

PutDecode(b) ==
  [type |-> "Put", Encrypt |-> At(b, 1) = 1, Name |-> GetCstring(From(b, 4)).str]

PutMessageV2V3 ==
  [type : {"PutV2", "PutV3"}, Encrypt : BOOLEAN, Name : String, Settings : Settings]

PutV2Encode(c) == PutEncode(c) \o PutSettings(c.Settings)
PutV3Encode(c) == PutEncode(c) \o PutSettings(c.Settings)

WithSettings(type, b) ==
  LET name == GetCstring(From(b, 4))
  IN [type |-> type, Encrypt |-> At(b, 1) = 1, Name |-> name.str,
      Settings |-> GetSettings(From(b, 4 + name.offset))]

PutV2Decode(b) == WithSettings("PutV2", b)
PutV3Decode(b) == WithSettings("PutV3", b)

PatchMessage ==
  [type : {"Patch"}, Encrypt : BOOLEAN, Offset : Uint, Name : String]

PatchEncode(c) ==
  Header(c, Flag(c.Encrypt), 0, 0) \o PutUint64(c.Offset) \o Cstr(c.Name)

PatchDecode(b) ==
  [type |-> "Patch", Encrypt |-> At(b, 1) = 1,
   Offset |-> Uint64(Slice(b, 4, 4 + W)), Name |-> GetCstring(From(b, 4 + W)).str]

\* Sz may be less than the buffer Data holds.
CopyDataMessage ==
  {c \in [type : {"CopyData"}, Sz : Uint, Data : Seq(Byte)] : c.Sz <= Len(c.Data)}

CopyDataEncode(c) ==
  Header(c, 0, 0, 0) \o PutUint64(c.Sz) \o SubSeq(c.Data, 1, c.Sz)

CopyDataDecode(b) ==
  LET sz == Uint64(Slice(b, 4, 4 + W))
  IN [type |-> "CopyData", Sz |-> sz, Data |-> Slice(b, 4 + W, 4 + W + sz)]

CopyDoneMessage ==
  [type : {"CopyDone"}]

CopyDoneEncode(c) == Header(c, 0, 0, 0)
CopyDoneDecode(b) == [type |-> "CopyDone"]

PutCompleteMessage ==
  [type : {"PutComplete"}, KeyVersion : Uint16]

PutCompleteEncode(c) ==
  Header(c, 0, 0, 0) \o <<c.KeyVersion \div 256, c.KeyVersion % 256>>

PutCompleteDecode(b) ==
  [type |-> "PutComplete", KeyVersion |-> 256 * At(b, 4) + At(b, 5)]

-----------------------------------------------------------------------------
(* Listing                                                                 *)

ListMessage ==
  [type : {"List"}, Prefix : String]

ListEncode(c) == Header(c, 0, 0, 0) \o Cstr(c.Prefix)
ListDecode(b) == [type |-> "List", Prefix |-> GetCstring(From(b, 4)).str]

ListMessageV2 ==
  [type : {"ListV2"}, Prefix : String, Settings : Settings]

ListV2Encode(c) == ListEncode(c) \o PutSettings(c.Settings)
ListV2Decode(b) ==
  LET prefix == GetCstring(From(b, 4))
  IN [type |-> "ListV2", Prefix |-> prefix.str,
      Settings |-> GetSettings(From(b, 4 + prefix.offset))]

ObjectInfoMessage ==
  [type : {"ObjectMeta"}, Content : Seq([Path : String, Size : Uint])]

ObjectMetaEncode(c) ==
  Header(c, 0, 0, 0)
    \o Joined([i \in 1..Len(c.Content) |->
                 Cstr(c.Content[i].Path) \o PutUint64(c.Content[i].Size)])

\* The body is consumed object by object until nothing is left, which takes no
\* more rounds than it has bytes.
ObjectInfos(b) ==
  LET upto[i \in 0..Len(b)] ==
        IF i = 0 THEN [infos |-> << >>, off |-> 0]
        ELSE LET prev == upto[i - 1]
                 path == GetCstring(From(b, prev.off))
             IN IF prev.off >= Len(b) THEN prev
                ELSE [infos |-> Append(prev.infos,
                                  [Path |-> path.str,
                                   Size |-> Uint64(From(b, prev.off + path.offset))]),
                      off |-> prev.off + path.offset + W]
  IN upto[Len(b)].infos

ObjectMetaDecode(b) == [type |-> "ObjectMeta", Content |-> ObjectInfos(From(b, 4))]

-----------------------------------------------------------------------------
(* Copying from another installation                                       *)

CopyTail(c) ==
  Lstr(c.Name) \o Lstr(c.OldCfgPath) \o PutUint64(c.Port) \o <<Flag(c.Confirm)>>

CopyMessage ==
  [type : {"Copy"}, Decrypt : BOOLEAN, Encrypt : BOOLEAN, Name : Bytes,
   OldCfgPath : Bytes, Port : Uint, Confirm : BOOLEAN]

CopyEncode(c) == Header(c, Flag(c.Decrypt), Flag(c.Encrypt), 0) \o CopyTail(c)

CopyDecode(b) ==
  LET name == GetLstring(b, 4)
      cfg == GetLstring(b, name.end)
  IN [type |-> "Copy", Decrypt |-> At(b, 1) = 1, Encrypt |-> At(b, 2) = 1,
      Name |-> name.str, OldCfgPath |-> cfg.str,
      Port |-> Uint64(From(b, cfg.end)), Confirm |-> At(b, cfg.end + W) = 1]

CopyMessageV2 ==
  [type : {"CopyV2"}, Encrypt : BOOLEAN, Decrypt : BOOLEAN, KEKDecrypt : BOOLEAN,
   ServerSideCopy : BOOLEAN, Name : Bytes, OldCfgPath : Bytes, Port : Uint,
   Confirm : BOOLEAN]

CopyV2Encode(c) ==
  Header(c, Flag(c.Encrypt) + 2 * Flag(c.Decrypt) + 4 * Flag(c.KEKDecrypt)
              + 8 * Flag(c.ServerSideCopy), 0, 0) \o CopyTail(c)

CopyV2Decode(b) ==
  LET name == GetLstring(b, 4)
      cfg == GetLstring(b, name.end)
  IN [type |-> "CopyV2", Encrypt |-> Bit(At(b, 1), 1), Decrypt |-> Bit(At(b, 1), 2),
      KEKDecrypt |-> Bit(At(b, 1), 4), ServerSideCopy |-> Bit(At(b, 1), 8),
      Name |-> name.str, OldCfgPath |-> cfg.str,
      Port |-> Uint64(From(b, cfg.end)), Confirm |-> At(b, cfg.end + W) = 1]

CopyCompleteMessage ==
  [type : {"CopyComplete"}, KeyVersion : Byte]

CopyCompleteEncode(c) == Header(c, c.KeyVersion, 0, 0)
CopyCompleteDecode(b) == [type |-> "CopyComplete", KeyVersion |-> At(b, 1)]

-----------------------------------------------------------------------------
(* Deleting and restoring                                                  *)

DeleteMessage ==
  [type : {"Delete"}, Confirm : BOOLEAN, Garbage : BOOLEAN, CrazyDrop : BOOLEAN,
   Name : String, Port : Uint, Segnum : Uint]

DeleteEncode(c) ==
  Header(c, Flag(c.Confirm), Flag(c.Garbage), Flag(c.CrazyDrop)) \o Cstr(c.Name)
    \o PutUint64(c.Port) \o PutUint64(c.Segnum)

\* Faulty variant: the two numbers read in the other order.
DeleteDecodeSwapped(b) ==
  [type |-> "Delete", Confirm |-> At(b, 1) = 1, Garbage |-> At(b, 2) = 1,
   CrazyDrop |-> At(b, 3) = 1, Name |-> GetCstring(From(b, 4)).str,
   Port |-> Uint64(From(b, Len(b) - W)),
   Segnum |-> Uint64(Slice(b, Len(b) - 2 * W, Len(b) - W))]

\* The two numbers are found from the end of the body.
DeleteDecode(b) ==
  [type |-> "Delete", Confirm |-> At(b, 1) = 1, Garbage |-> At(b, 2) = 1,
   CrazyDrop |-> At(b, 3) = 1, Name |-> GetCstring(From(b, 4)).str,
   Port |-> Uint64(Slice(b, Len(b) - 2 * W, Len(b) - W)),
   Segnum |-> Uint64(From(b, Len(b) - W))]

Delete2Message ==
  [type : {"Delete2"}, Confirm : BOOLEAN, Garbage : BOOLEAN, Prefix : String]

Delete2Encode(c) == Header(c, Flag(c.Confirm), Flag(c.Garbage), 0) \o Cstr(c.Prefix)
Delete2Decode(b) ==
  [type |-> "Delete2", Confirm |-> At(b, 1) = 1, Garbage |-> At(b, 2) = 1,
   Prefix |-> GetCstring(From(b, 4)).str]

UntrashifyMessage ==
  [type : {"Untrashify"}, Confirm : BOOLEAN, Name : String, Segnum : Uint]

UntrashifyEncode(c) ==
  Header(c, Flag(c.Confirm), 0, 0) \o Cstr(c.Name) \o PutUint64(c.Segnum)
UntrashifyDecode(b) ==
  [type |-> "Untrashify", Confirm |-> At(b, 1) = 1,
   Name |-> GetCstring(From(b, 4)).str, Segnum |-> Uint64(From(b, Len(b) - W))]

\* CollectObsolete and DeleteObsolete: what Encode writes, two strings behind
\* their lengths and neither Segnum nor Port, is not the layout Decode reads.
ObsoleteMessage ==
  [type : {"CollectObsolete", "DeleteObsolete"}, Segnum : Uint, Port : Uint,
   DBName : Bytes, Message : Bytes]

ObsoleteEncode(c) == Header(c, 0, 0, 0) \o Lstr(c.DBName) \o Lstr(c.Message)
ObsoleteFields(type, b) ==
  LET n == Len(GetCstring(From(b, 4 + 2 * W)).str)
  IN [type |-> type, Segnum |-> Uint64(Slice(b, 4, 4 + W)),
      Port |-> Uint64(Slice(b, 4 + W, 4 + 2 * W)),
      DBName |-> Slice(b, 4 + 2 * W, 4 + 2 * W + n),
      Message |-> Slice(b, 4 + 2 * W + n + 1, Len(b) - 1)]

CollectObsoleteDecode(b) == ObsoleteFields("CollectObsolete", b)
DeleteObsoleteDecode(b) == ObsoleteFields("DeleteObsolete", b)

-----------------------------------------------------------------------------
(* Answers and the rest                                                    *)

ErrorMessage ==
  [type : {"Error"}, Error : Bytes, Message : Bytes]

ErrorEncode(c) == Header(c, 0, 0, 0) \o Lstr(c.Error) \o Lstr(c.Message)
ErrorDecode(b) ==
  LET err == GetLstring(b, 4)
  IN [type |-> "Error", Error |-> err.str, Message |-> GetLstring(b, err.end).str]

ReadyForQueryMessage ==
  [type : {"ReadyForQuery"}]

ReadyForQueryEncode(c) == Header(c, 0, 0, 0)
ReadyForQueryDecode(b) == [type |-> "ReadyForQuery"]

\* Encode puts a word in front of the name that Decode leaves there.
Gool == <<71, 79, 79, 76, 32>>
GoolMessage == [type : {"Gool"}, Name : String]
GoolEncode(c) == Header(c, 0, 0, 0) \o Cstr(Gool \o c.Name)
GoolDecode(b) == [type |-> "Gool", Name |-> GetCstring(From(b, 4)).str]

-----------------------------------------------------------------------------

Messages ==
  CatMessage \cup CatMessageV2 \cup PutMessage \cup PutMessageV2V3 \cup PatchMessage
    \cup CopyDataMessage \cup CopyDoneMessage \cup PutCompleteMessage \cup ListMessage
    \cup ListMessageV2 \cup ObjectInfoMessage \cup CopyMessage \cup CopyMessageV2
    \cup CopyCompleteMessage \cup DeleteMessage \cup Delete2Message \cup UntrashifyMessage
    \cup ObsoleteMessage \cup ErrorMessage \cup ReadyForQueryMessage \cup GoolMessage

\* The types whose Decode reads another layout than their Encode writes.
Unpaired == {"CollectObsolete", "DeleteObsolete"}

Body(c) ==
  CASE c.type = "Cat" -> CatEncode(c)
    [] c.type = "CatV2" -> CatV2Encode(c)
    [] c.type = "Put" -> PutEncode(c)
    [] c.type = "PutV2" -> PutV2Encode(c)
    [] c.type = "PutV3" -> PutV3Encode(c)
    [] c.type = "Patch" -> PatchEncode(c)
    [] c.type = "CopyData" -> CopyDataEncode(c)
    [] c.type = "CopyDone" -> CopyDoneEncode(c)
    [] c.type = "PutComplete" -> PutCompleteEncode(c)
    [] c.type = "List" -> ListEncode(c)
    [] c.type = "ListV2" -> ListV2Encode(c)
    [] c.type = "ObjectMeta" -> ObjectMetaEncode(c)
    [] c.type = "Copy" -> CopyEncode(c)
    [] c.type = "CopyV2" -> CopyV2Encode(c)
    [] c.type = "CopyComplete" -> CopyCompleteEncode(c)
    [] c.type = "Delete" -> DeleteEncode(c)
    [] c.type = "Delete2" -> Delete2Encode(c)
    [] c.type = "Untrashify" -> UntrashifyEncode(c)
    [] c.type \in {"CollectObsolete", "DeleteObsolete"} -> ObsoleteEncode(c)
    [] c.type = "Error" -> ErrorEncode(c)
    [] c.type = "ReadyForQuery" -> ReadyForQueryEncode(c)
    [] c.type = "Gool" -> GoolEncode(c)

\* Every Encode ends by putting the length of the whole in front of the body.
Encode(c) == PutUint64(Len(Body(c)) + W) \o Body(c)

\* The switch over the message type in ProcConn and in the clients.
DecodeAs(type, b) ==
  CASE type = "Cat" -> CatDecode(b)
    [] type = "CatV2" -> CatV2Decode(b)
    [] type = "Put" -> PutDecode(b)
    [] type = "PutV2" -> PutV2Decode(b)
    [] type = "PutV3" -> PutV3Decode(b)
    [] type = "Patch" -> PatchDecode(b)
    [] type = "CopyData" -> CopyDataDecode(b)
    [] type = "CopyDone" -> CopyDoneDecode(b)
    [] type = "PutComplete" -> PutCompleteDecode(b)
    [] type = "List" -> ListDecode(b)
    [] type = "ListV2" -> ListV2Decode(b)
    [] type = "ObjectMeta" -> ObjectMetaDecode(b)
    [] type = "Copy" -> CopyDecode(b)
    [] type = "CopyV2" -> CopyV2Decode(b)
    [] type = "CopyComplete" -> CopyCompleteDecode(b)
    [] type = "Delete" -> DeleteDecode(b)
    [] type = "Delete2" -> Delete2Decode(b)
    [] type = "Untrashify" -> UntrashifyDecode(b)
    [] type = "CollectObsolete" -> CollectObsoleteDecode(b)
    [] type = "DeleteObsolete" -> DeleteObsoleteDecode(b)
    [] type = "Error" -> ErrorDecode(b)
    [] type = "ReadyForQuery" -> ReadyForQueryDecode(b)
    [] type = "Gool" -> GoolDecode(b)

Decode(b) == DecodeAs(CHOOSE t \in Type : TypeByte[t] = At(b, 0), b)

\* What the reader is to make of a message: the message, but for the word
\* Gool puts in front of the name and the unused end of a CopyData buffer.
Meaning(m) ==
  CASE m.type = "Gool" -> [type |-> "Gool", Name |-> Gool \o m.Name]
    [] m.type = "CopyData" -> [type |-> "CopyData", Sz |-> m.Sz, Data |-> SubSeq(m.Data, 1, m.Sz)]
    [] OTHER -> m
=============================================================================
