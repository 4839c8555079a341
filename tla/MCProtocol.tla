----------------------------- MODULE MCProtocol -----------------------------
(* An instance of Protocol: every message type, with the flags, strings,   *)
(* numbers and settings that its layout tells apart, and a second message  *)
(* behind it.                                                              *)
EXTENDS Protocol

S == {<< >>, <<97, 255>>}           \* strings
T == {<<97, 42, 98>>}               \* one whose bytes look like a type
N == {1, 258}                       \* numbers: one byte, two bytes
OneSetting == [Name : {<<98>>}, Value : S]
SomeSettings == {<< >>} \cup {<<x>> : x \in OneSetting} \cup {<<x, y>> : x, y \in OneSetting}
Yes == {TRUE}

Sample ==
  UNION {
    [type : {"Cat"}, Name : S \cup T, Decrypt : BOOLEAN, StartOffset : N \cup {0}],
    [type : {"CatV2"}, Name : S, Decrypt : BOOLEAN, KEK : BOOLEAN, StartOffset : {0, 258},
     Settings : {<< >>, <<[Name |-> <<98>>, Value |-> << >>]>>}],
    [type : {"Put"}, Name : S, Encrypt : BOOLEAN],
    [type : {"PutV2", "PutV3"}, Name : S, Encrypt : Yes, Settings : SomeSettings],
    [type : {"Patch"}, Name : S, Encrypt : BOOLEAN, Offset : N],
    [type : {"CopyData"}, Data : {<<0, 7, 0>>}, Sz : 0..3],
    [type : {"CopyData"}, Data : {[i \in 1..n |-> 7] : n \in 27..28}, Sz : {27}],
    [type : {"CopyData"}, Data : {[i \in 1..28 |-> 7]}, Sz : {28}],
    [type : {"CopyDone", "ReadyForQuery"}],
    [type : {"PutComplete"}, KeyVersion : {0, 259}],
    [type : {"List"}, Prefix : S \cup T],
    [type : {"ListV2"}, Prefix : S, Settings : SomeSettings],
    [type : {"ObjectMeta"},
     Content : {<< >>} \cup {<<[Path |-> p, Size |-> 0], [Path |-> <<47>>, Size |-> n]>>
                             : p \in S, n \in N}],
    [type : {"Copy"}, Name : S, OldCfgPath : S, Encrypt : BOOLEAN, Decrypt : Yes,
     Confirm : BOOLEAN, Port : {258}],
    [type : {"CopyV2"}, Name : T, OldCfgPath : S, Encrypt : BOOLEAN, Decrypt : BOOLEAN,
     KEKDecrypt : BOOLEAN, ServerSideCopy : BOOLEAN, Confirm : Yes, Port : {258}],
    [type : {"CopyComplete"}, KeyVersion : {0, 255}],
    [type : {"Delete"}, Name : S, Confirm : BOOLEAN, Garbage : BOOLEAN,
     CrazyDrop : BOOLEAN, Port : {1}, Segnum : {258}],
    [type : {"Delete2"}, Prefix : S, Confirm : BOOLEAN, Garbage : BOOLEAN],
    [type : {"Untrashify"}, Name : S, Confirm : BOOLEAN, Segnum : N],
    [type : {"CollectObsolete", "DeleteObsolete"}, Segnum : {1}, Port : {258},
     DBName : S, Message : S],
    [type : {"Error"}, Error : S, Message : S],
    [type : {"Gool"}, Name : S]}

MCPlans == {<<m, [type |-> "List", Prefix |-> <<98>>]>> : m \in Sample}
=============================================================================
