------------------------------ MODULE RegTable ------------------------------
(***************************************************************************)
(* The entries of the registry (src/legacy/src/regmgr/mod.rs, ENTRIES), in *)
(* the order of the source.  Each definition holds the entries from the    *)
(* key in its name on.                                                     *)
(*                                                                         *)
(* A key is the pair of the halves of its 32 bits.  An entry has the       *)
(* fields that the code reads: unk4 is its type, unk6 where its value is   *)
(* kept, unk1 how many keys it stands for and unk2 how far apart they are, *)
(* unk3 who may use it.  unk5 is 2 in all of them.  The value is read only *)
(* where unk6 is 1, and is left out of the others.                         *)
(***************************************************************************)
EXTENDS Integers, Sequences

Entry(hi, lo, unk4, len, unk6, value, unk1, unk2, unk3) ==
    [key |-> <<hi, lo>>, unk4 |-> unk4, len |-> len, unk6 |-> unk6, unk5 |-> 2,
     value |-> value, unk1 |-> unk1, unk2 |-> unk2, unk3 |-> unk3]

(* A number with a value in the table.                                     *)
Number(hi, lo, value, unk3) == Entry(hi, lo, 0, 4, 1, value, 0, 0, unk3)

(* The same of type 2.                                                     *)
Word(hi, lo, value, unk3) == Entry(hi, lo, 2, 4, 1, value, 0, 0, unk3)

(* A number that has 16 keys.                                              *)
Numbers(hi, lo, unk3) == Entry(hi, lo, 0, 4, 16, 0, 16, 16, unk3)

(* Anything whose value is not in the table.                               *)
Data(hi, lo, unk4, len, unk3) == Entry(hi, lo, unk4, len, 2, 0, 0, 0, unk3)

(* Any entry that has several keys.                                        *)
Many(hi, lo, unk4, len, unk1, unk2, unk3) == Entry(hi, lo, unk4, len, 16, 0, unk1, unk2, unk3)

From01010000 ==
    << Number(\h0101, 0, \h900001, 0), Number(\h0102, 0, \h400060, 0),
       Number(\h0103, 0, \h2000D, 0), Number(\h0104, 0, 0, 0), Number(\h0105, 0, 0, 0),
       Number(\h0106, 0, \h900000, 0), Number(\h0107, 0, \h7E, 0), Number(\h0108, 0, \h700000, 0),
       Number(\h0140, 0, 0, \h300), Many(\h0180, \h0100, 0, 4, 10, 16, 0),
       Many(\h0180, \h0200, 0, 4, 10, 16, 0) >>

From02010000 ==
    << Number(\h0201, 0, 0, \h300), Number(\h0202, 0, 1, \h1355), Number(\h0203, 0, 1, 0),
       Number(\h0204, 0, 1, 0), Data(\h0205, 0, 1, 65, \h355), Number(\h0206, 0, 0, \h300),
       Number(\h0207, 0, 0, 0), Number(\h0208, 0, 1, 0), Number(\h020A, 0, 1, \h11),
       Number(\h020B, 0, 1, \h1355), Number(\h020C, 0, 0, 0) >>

From020E0000 ==
    << Number(\h020E, 0, 1, \h11), Number(\h020F, 0, 4, 0), Number(\h0210, 0, 0, \h300),
       Number(\h0211, 0, 0, 0), Number(\h0212, 0, 0, \h300), Number(\h0280, \h0200, \h2501000, 0),
       Number(\h0280, \h0300, \h184, 0), Number(\h0280, \h0400, 0, 0), Number(\h0280, \h0500, 0, 1),
       Number(\h0280, \h0600, \h1501000, 0), Data(\h0280, \h0700, 2, 8, 0) >>

From02800800 ==
    << Number(\h0280, \h0800, 0, 0), Number(\h0280, \h0900, \h7550001, 0),
       Number(\h0280, \h0A00, \h7550000, 0), Data(\h0280, \h0B00, 1, 30, 0),
       Number(\h0280, \h0C00, 0, 0), Number(\h0280, \h0D00, 1, 0), Number(\h0280, \h4000, 0, 0) >>

From02820100 ==
    << Number(\h0282, \h0100, 2, \h300), Number(\h0282, \h0200, 1, 1), Number(\h0282, \h0300, 1, 0),
       Number(\h0282, \h0400, \hE10, 0), Number(\h0282, \h0500, 0, \h300),
       Number(\h0282, \h0600, \h3C, \h300), Number(\h0282, \h0700, 0, 0),
       Number(\h0282, \h0800, 1, 0), Data(\h0282, \h0900, 2, 8, 0), Number(\h0282, \h0B00, 1, 0),
       Number(\h0282, \h0C00, 0, \h1011) >>

From02820E00 ==
    << Number(\h0282, \h0E00, 0, 0), Number(\h0278, \h0100, 1, 0), Number(\h0278, \h0200, 1, 0),
       Number(\h0278, \h0300, 1, 0), Number(\h0278, \h0400, 1, 0), Number(\h027C, \h0100, -1, \h11),
       Number(\h0286, \h0100, -1, 0), Number(\h0286, \h0300, -1, 0), Data(\h0286, \h0500, 1, 40, 0),
       Number(\h0288, \h0100, 0, 0), Number(\h0288, \h0200, 0, \h300) >>

From02900100 ==
    << Number(\h0290, \h0100, 1, 0), Data(\h02A0, \h0100, 1, 30, 0), Number(\h02B0, \h0100, 0, 0),
       Number(\h02B0, \h0200, 0, 0), Data(\h02B8, \h0100, 2, 8, 0), Data(\h02BC, \h0100, 2, 8, 0),
       Data(\h02BC, \h0200, 2, 8, 0), Data(\h02BC, \h0300, 2, 8, 0), Data(\h02BC, \h0400, 2, 8, 0),
       Data(\h02BC, \h0500, 2, 8, 0), Data(\h02BC, \h0600, 2, 8, 0) >>

From02BC0700 ==
    << Data(\h02BC, \h0700, 2, 8, 0), Data(\h02BC, \h0800, 2, 8, 0), Data(\h02BC, \h0900, 2, 8, 0),
       Data(\h02BC, \h0A00, 2, 8, 0), Data(\h02BC, \h0B00, 2, 8, 0),
       Many(\h02BC, \h4001, 1, 16, 20, 8, 0), Many(\h02BC, \h4002, 2, 8, 20, 8, 0),
       Many(\h02BC, \h4003, 2, 8, 20, 8, 0), Number(\h02BE, \h0100, 0, 0),
       Number(\h02BE, \h0200, 0, 0) >>

From02C30100 ==
    << Number(\h02C3, \h0100, 0, 3), Number(\h02C3, \h0200, 0, 3) >>

From03800100 ==
    << Number(\h0380, \h0100, 9, \h355), Number(\h0380, \h0200, 0, \h310),
       Number(\h0380, \h0300, \hFF, \h310), Number(\h0380, \h0400, \h5553, \h310),
       Number(\h0380, \h0500, 0, \h310), Number(\h0380, \h0600, 0, \h300),
       Number(\h0380, \h0700, 0, \h300), Data(\h0380, \h0800, 1, 16, \h310),
       Number(\h0380, \h0900, 0, \h300), Number(\h0380, \h0A00, 0, \h111) >>

From05010000 ==
    << Number(\h0501, 0, \hF, \h355), Number(\h0502, 0, 2, \h355), Number(\h0503, 0, 0, \h355),
       Number(\h0504, 0, 1, \h355), Number(\h0505, 0, 1, \h300), Number(\h0506, 0, 1, \h55),
       Number(\h0507, 0, -14400, \h55), Number(\h0508, 0, -18000, \h55), Data(\h0509, 0, 1, 30, 0),
       Number(\h050A, 0, 1, 0), Data(\h0514, 0, 2, 8, 0) >>

From05150000 ==
    << Data(\h0515, 0, 2, 8, 0), Data(\h0516, 0, 2, 8, 0), Data(\h0517, 0, 2, 8, 0),
       Data(\h0518, 0, 2, 8, 0) >>

From07010000 ==
    << Number(\h0701, 0, \h1180C69E, 0), Number(\h0702, 0, \h1180C69E, 0), Number(\h0703, 0, 0, 0),
       Number(\h0704, 0, 0, 0), Number(\h0705, 0, \h26D3FFDE, 0), Number(\h0706, 0, \h2FFFFFFF, 0),
       Number(\h0707, 0, 0, 0) >>

From07800100 ==
    << Numbers(\h0780, \h0100, 0), Many(\h0780, \h0200, 1, 17, 16, 16, \h300),
       Many(\h0780, \h0300, 1, 16, 16, 16, 0), Many(\h0780, \h0500, 2, 8, 16, 16, 0),
       Many(\h0780, \h0600, 1, 65, 16, 16, 0), Numbers(\h0780, \h0700, \h300),
       Numbers(\h0780, \h0800, 0), Numbers(\h0780, \h0900, 0), Numbers(\h0780, \h0A00, 0),
       Numbers(\h0780, \h0B00, 0), Numbers(\h0780, \h0C00, 0) >>

From07800D00 ==
    << Numbers(\h0780, \h0D00, 0), Numbers(\h0780, \h0E00, 0), Numbers(\h0780, \h0F00, 0),
       Numbers(\h0780, \h1000, \h300), Many(\h0780, \h1100, 2, 8, 16, 16, 0),
       Numbers(\h0780, \h5C01, \h311), Numbers(\h0780, \h5C02, \h310),
       Numbers(\h0780, \h5C03, \h310), Numbers(\h0780, \h5C04, \h310),
       Numbers(\h0780, \h5C05, \h300), Numbers(\h0780, \h5C06, \h300) >>

From07805C07 ==
    << Numbers(\h0780, \h5C07, \h311), Numbers(\h0780, \h6401, 0), Numbers(\h0780, \h6402, 0),
       Numbers(\h0780, \h6403, 0), Numbers(\h0780, \h6C01, \h355), Numbers(\h0780, \h6C02, 0),
       Many(\h0780, \h6C03, 2, 16, 16, 16, 0), Numbers(\h0780, \h7801, 0),
       Numbers(\h0780, \h7C01, 0), Numbers(\h0780, \h7C02, 0), Numbers(\h0780, \h7C03, 0) >>

From07808001 ==
    << Numbers(\h0780, \h8001, 0), Numbers(\h0780, \h8002, 0), Numbers(\h0780, \h8003, 0),
       Numbers(\h0780, \h8004, 0), Numbers(\h0780, \h8005, 0), Numbers(\h0780, \h8006, 0),
       Numbers(\h0780, \h8007, 0), Numbers(\h0780, \h8008, 0), Numbers(\h0780, \h8009, 0),
       Numbers(\h0780, \h800A, 0), Numbers(\h0780, \h800B, 0) >>

From0780800C ==
    << Numbers(\h0780, \h800C, 0), Numbers(\h0780, \h800D, 0), Numbers(\h0780, \h800E, 0),
       Numbers(\h0780, \h800F, 0), Numbers(\h0780, \h8010, 0), Numbers(\h0780, \h8011, 0),
       Numbers(\h0780, \h8012, 0), Numbers(\h0780, \h8013, 0), Numbers(\h0780, \h8014, 0),
       Numbers(\h0780, \h8015, 0), Numbers(\h0780, \h8016, 0) >>

From07808017 ==
    << Numbers(\h0780, \h8017, 0), Numbers(\h0780, \h8018, 0), Numbers(\h0780, \h8019, 0),
       Numbers(\h0780, \h801A, 0), Numbers(\h0780, \h801B, 0), Numbers(\h0780, \h801C, 0),
       Numbers(\h0780, \h801D, 0), Numbers(\h0780, \h801E, 0), Numbers(\h0780, \h801F, 0),
       Numbers(\h0780, \h8080, \h300), Numbers(\h0780, \h8081, 0) >>

From07808082 ==
    << Numbers(\h0780, \h8082, \h300), Numbers(\h0780, \h8083, 0), Numbers(\h0780, \h8084, 0),
       Numbers(\h0780, \h8085, 0), Numbers(\h0780, \h9001, \h300), Numbers(\h0780, \h9002, \h300),
       Numbers(\h0780, \h9003, \h300), Numbers(\h0780, \h9004, \h300),
       Numbers(\h0780, \h9005, \h300), Numbers(\h0780, \h9006, \h300) >>

From0780A001 ==
    << Numbers(\h0780, \hA001, 0), Numbers(\h0780, \hA002, 0), Numbers(\h0780, \hA003, 0),
       Numbers(\h0780, \hA004, 0), Numbers(\h0780, \hA005, \h355), Numbers(\h0780, \hA006, 0),
       Numbers(\h0780, \hA007, \h300), Numbers(\h0780, \hA008, \h300),
       Numbers(\h0780, \hA009, \h300), Numbers(\h0780, \hA00A, \h303),
       Numbers(\h0780, \hA00B, \h303) >>

From0780A00C ==
    << Numbers(\h0780, \hA00C, 0), Numbers(\h0780, \hA00D, 0), Numbers(\h0780, \hA00E, 0),
       Numbers(\h0780, \hA00F, \h300), Numbers(\h0780, \hB003, \h33), Numbers(\h0780, \hB004, 0),
       Many(\h0780, \hB007, 1, 17, 16, 16, 0), Many(\h0780, \hB008, 1, 37, 16, 16, 0),
       Numbers(\h0780, \hB009, 0), Numbers(\h0780, \hB00A, 0), Numbers(\h0780, \hB00B, 0) >>

From0780B00C ==
    << Many(\h0780, \hB00C, 1, 17, 16, 16, 0), Many(\h0780, \hB00D, 1, 65, 16, 16, 0),
       Many(\h0780, \hB00E, 1, 3, 16, 16, 0), Many(\h0780, \hB00F, 1, 6, 16, 16, 0),
       Many(\h0780, \hB010, 1, 36, 16, 16, 0), Many(\h0780, \hB011, 1, 11, 16, 16, 0),
       Numbers(\h0780, \hB012, 0), Many(\h0780, \hB013, 1, 65, 16, 16, 0) >>

From0780B801 ==
    << Numbers(\h0780, \hB801, \h10), Numbers(\h0780, \hB802, \h10), Numbers(\h0780, \hB803, \h10),
       Numbers(\h0780, \hB804, \h10), Numbers(\h0780, \hB805, \h10),
       Many(\h0780, \hB806, 2, 8, 16, 16, \h10), Numbers(\h0780, \hB807, \h10),
       Numbers(\h0780, \hB808, \h10), Numbers(\h0780, \hB809, \h10), Numbers(\h0780, \hB80A, \h10),
       Numbers(\h0780, \hB80B, \h10) >>

From0780B80C ==
    << Numbers(\h0780, \hB80C, \h10), Numbers(\h0780, \hB80D, \h10), Numbers(\h0780, \hB80E, \h10),
       Numbers(\h0780, \hB80F, \h10), Numbers(\h0780, \hB810, \h10), Numbers(\h0780, \hB811, \h10),
       Numbers(\h0780, \hB812, \h10), Numbers(\h0780, \hB813, \h10), Numbers(\h0780, \hB814, \h10),
       Numbers(\h0780, \hB815, \h10), Numbers(\h0780, \hB816, \h10) >>

From0780B817 ==
    << Numbers(\h0780, \hB817, \h10), Numbers(\h0780, \hB818, \h10), Numbers(\h0780, \hB819, \h10),
       Numbers(\h0780, \hB81A, \h10), Numbers(\h0780, \hB81B, \h10), Numbers(\h0780, \hBC01, 0),
       Numbers(\h0780, \hBC02, 0), Numbers(\h0780, \hBC03, 0), Numbers(\h0780, \hBD01, 0),
       Numbers(\h0780, \hBD02, 0), Numbers(\h0780, \hBD03, 0) >>

From0780C001 ==
    << Numbers(\h0780, \hC001, 0), Numbers(\h0780, \hC002, 0), Numbers(\h0780, \hC003, 0),
       Numbers(\h0780, \hC004, 0), Numbers(\h0780, \hC005, 0), Numbers(\h0780, \hC006, 0),
       Many(\h0780, \hC007, 1, 32, 16, 16, 0), Numbers(\h0780, \hC008, 0),
       Numbers(\h0780, \hC009, 0), Numbers(\h0780, \hC00A, \h300),
       Many(\h0780, \hC00B, 1, 41, 16, 16, 0) >>

From0780C00C ==
    << Many(\h0780, \hC00C, 1, 41, 16, 16, 0), Numbers(\h0780, \hC00D, 0),
       Many(\h0780, \hC00E, 1, 128, 16, 16, 0), Numbers(\h0780, \hC010, 0),
       Numbers(\h0780, \hC011, 0), Numbers(\h0780, \hC012, 0), Numbers(\h0780, \hC013, 0),
       Many(\h0780, \hC014, 1, 32, 16, 16, 0), Numbers(\h0780, \hC015, 0),
       Numbers(\h0780, \hC016, 0), Numbers(\h0780, \hC017, 0) >>

From0780C018 ==
    << Numbers(\h0780, \hC018, 0), Numbers(\h0780, \hC019, 0), Numbers(\h0780, \hC01A, 0),
       Numbers(\h0780, \hC01B, 0), Numbers(\h0780, \hC01C, 0), Numbers(\h0780, \hC01D, 0),
       Numbers(\h0780, \hC01E, 0), Numbers(\h0780, \hC01F, 0), Numbers(\h0780, \hC020, 0),
       Numbers(\h0780, \hC021, 0), Numbers(\h0780, \hC022, 0) >>

From0780C023 ==
    << Numbers(\h0780, \hC023, 0), Many(\h0780, \hC024, 2, 8, 16, 16, 0),
       Numbers(\h0780, \hC025, 0), Numbers(\h0780, \hC026, 0), Numbers(\h0780, \hC027, 0),
       Numbers(\h0780, \hC028, 0), Numbers(\h0780, \hC029, 0), Numbers(\h0780, \hC02A, 0),
       Numbers(\h0780, \hC02B, 0), Many(\h0780, \hC02C, 1, 37, 16, 16, 0),
       Many(\h0780, \hC041, 1, 841, 16, 16, 0) >>

From0780C042 ==
    << Numbers(\h0780, \hC042, 0), Many(\h0780, \hC043, 1, 601, 16, 16, 0),
       Numbers(\h0780, \hC501, 0), Numbers(\h0780, \hC502, 0),
       Many(\h0780, \hC504, 1, 81, 16, 16, 0), Many(\h0780, \hC505, 1, 81, 16, 16, 0),
       Numbers(\h0780, \hC506, 0), Numbers(\h0780, \hC601, 0),
       Many(\h0780, \hC602, 1, 512, 16, 16, 0), Many(\h0780, \hC603, 2, 240, 16, 16, 0),
       Numbers(\h0780, \hC701, 0) >>

From0780D001 ==
    << Numbers(\h0780, \hD001, 0), Numbers(\h0780, \hD002, 0), Numbers(\h0780, \hD101, 0),
       Numbers(\h0780, \hD102, 0), Many(\h0780, \hDC01, 1, 37, 16, 16, 0),
       Numbers(\h0780, \hDC02, 0), Numbers(\h0780, \hDC03, 0), Numbers(\h0780, \hDC04, \h300),
       Numbers(\h0780, \hDC05, 0), Numbers(\h0780, \hDC06, 0), Numbers(\h0780, \hDC07, 0) >>

From0780E001 ==
    << Numbers(\h0780, \hE001, 0), Numbers(\h0780, \hE002, 0), Numbers(\h0780, \hE003, 0),
       Numbers(\h0780, \hE004, 0), Numbers(\h0780, \hE005, 0), Numbers(\h0780, \hE101, 0),
       Numbers(\h0780, \hE401, 0), Numbers(\h0780, \hE402, 0), Numbers(\h0780, \hE403, 0) >>

From0780F801 ==
    << Many(\h0780, \hF801, 2, 64, 16, 16, 0), Many(\h0780, \hF802, 2, 8, 16, 16, 0),
       Numbers(\h0780, \hF803, 0) >>

From09010000 ==
    << Number(\h0901, 0, 0, \h355), Number(\h0902, 0, 0, \h355), Number(\h0903, 0, 0, \h355),
       Number(\h0904, 0, 0, \h355), Number(\h0905, 0, 0, \h300), Number(\h0906, 0, 0, \h355),
       Number(\h0907, 0, 0, \h355), Number(\h0940, \h0100, 0, \h355),
       Number(\h0940, \h0200, 3, \h355), Number(\h0940, \h0300, \hC, \h355),
       Number(\h0940, \h0400, 1, \h300) >>

From0A030000 ==
    << Number(\h0A03, 0, 0, \h333), Number(\h0A04, 0, 0, \h333), Number(\h0A06, 0, 1, \h333),
       Number(\h0A07, 0, \h2E, \h333), Number(\h0A08, 0, 1, \h333), Number(\h0A0A, 0, 0, \h300),
       Number(\h0A0D, 0, \h729, \h355), Data(\h0A0F, 0, 2, 128, \h30), Number(\h0A10, 0, 0, 0),
       Number(\h0A11, 0, 0, \h311), Number(\h0A12, 0, 0, \h300) >>

From0A130000 ==
    << Number(\h0A13, 0, 0, 0), Number(\h0A14, 0, 0, \h300), Number(\h0A15, 0, 1, \h300),
       Number(\h0A16, 0, 0, 0), Number(\h0A17, 0, 0, \h301), Word(\h0A18, 0, -1, \h311),
       Word(\h0A19, 0, -1, \h311), Word(\h0A1A, 0, -1, \h311), Number(\h0A1B, 0, 1, \h300),
       Data(\h0A1C, 0, 2, 1024, 0) >>

From0B030000 ==
    << Number(\h0B03, 0, 1, \h300), Number(\h0B04, 0, 0, \h355), Number(\h0B05, 0, 0, \h300),
       Number(\h0B06, 0, 0, \h300), Number(\h0B07, 0, \h18, \h300), Number(\h0B08, 0, 0, \h300),
       Number(\h0B09, 0, 0, \h300), Many(\h0B40, \h0101, 2, 32, 20, 8, 0),
       Data(\h0C01, 0, 2, 8, \h30), Number(\h0C02, 0, 0, \h300),
       Many(\h0C40, \h0101, 2, 32, 20, 8, 0) >>

From12010100 ==
    << Many(\h1201, \h0100, 2, 1000, 32, 16, 0) >>

From14140100 ==
    << Data(\h1414, \h0100, 1, 16, \h303), Data(\h1414, \h0200, 1, 16, \h303),
       Data(\h1414, \h0300, 1, 16, \h303), Number(\h1414, \h0400, 0, \h303),
       Data(\h1414, \h0500, 1, 16, \h303), Data(\h1414, \h0600, 1, 16, \h303),
       Number(\h1414, \h0700, 0, \h303), Data(\h1414, \h0800, 1, 256, \h303),
       Data(\h1414, \h0C00, 1, 128, \h303), Data(\h1414, \h0D00, 1, 128, \h303),
       Data(\h1414, \h0E00, 1, 16, 3) >>

From14140F00 ==
    << Data(\h1414, \h0F00, 2, 8, 3), Number(\h1419, \h0100, 1, \h303),
       Number(\h1419, \h0600, 1, \h303), Number(\h1419, \h0700, 0, 3),
       Number(\h1419, \h0800, 0, \h303), Number(\h1419, \h0900, 0, \h303),
       Number(\h1419, \h0A00, 2, 3) >>

From141E0100 ==
    << Data(\h141E, \h0100, 1, 33, \h303), Number(\h141E, \h0200, 2, \h303),
       Data(\h141E, \h0300, 1, 27, \h303), Data(\h141E, \h0400, 1, 65, \h303),
       Number(\h141E, \h0500, 0, \h303), Number(\h141E, \h4001, 0, \h303) >>

From141E6001 ==
    << Number(\h141E, \h6001, 0, \h303), Data(\h141E, \h6002, 1, 256, \h303),
       Data(\h141E, \h6003, 1, 128, \h303), Data(\h141E, \h6004, 1, 128, \h303),
       Data(\h141E, \h6005, 1, 16, \h303), Data(\h141E, \h6006, 1, 16, \h303),
       Data(\h141E, \h6007, 1, 16, \h303), Number(\h141E, \h6008, 1, \h303),
       Data(\h141E, \h6009, 1, 16, \h303), Data(\h141E, \h600A, 1, 16, \h303),
       Data(\h141E, \h600B, 1, 16, 3) >>

From141E600C ==
    << Data(\h141E, \h600C, 2, 8, 3), Number(\h141E, \h8001, 0, \h303),
       Data(\h141E, \h8002, 1, 256, \h303), Number(\h141E, \h8003, \h1F90, \h303),
       Data(\h1423, \h0100, 1, 33, 3), Data(\h1423, \h0200, 1, 33, 3),
       Data(\h1423, \h0300, 1, 33, 3), Data(\h1423, \h0400, 1, 33, 3),
       Data(\h1423, \h0500, 1, 65, 3), Data(\h1423, \h0600, 1, 65, 3),
       Data(\h1423, \h0700, 1, 27, 3) >>

From14230800 ==
    << Data(\h1423, \h0800, 1, 27, 3), Data(\h1423, \h4001, 1, 33, 3),
       Data(\h1423, \h4002, 1, 27, 3), Data(\h1423, \h4003, 1, 33, 3),
       Data(\h1423, \h4004, 1, 27, 3), Data(\h1423, \h4005, 1, 33, 3),
       Data(\h1423, \h4006, 1, 65, 3), Data(\h1423, \h4007, 1, 33, 3),
       Data(\h1423, \h4008, 1, 65, 3) >>

From14280100 ==
    << Number(\h1428, \h0100, 0, \h313), Data(\h1428, \h0200, 1, 256, \h313),
       Number(\h1428, \h0300, \h1F90, \h313), Number(\h142D, \h0100, 0, \h30),
       Data(\h142D, \h0200, 1, 33, \h30), Data(\h142D, \h0300, 1, 65, \h30),
       Number(\h142D, \h0400, 6, \h30), Data(\h142E, \h0100, 1, 65, \h100) >>

From14320101 ==
    << Many(\h1432, \h0101, 1, 33, 10, 8, 0), Many(\h1432, \h0102, 1, 27, 10, 8, 0),
       Many(\h1432, \h0103, 1, 65, 10, 8, 0), Many(\h1432, \h0104, 2, 8, 10, 8, 0),
       Data(\h1470, 0, 1, 16, \h300), Data(\h1471, 0, 1, 16, \h300), Data(\h1474, 0, 1, 16, \h300),
       Data(\h1475, 0, 1, 16, \h300), Data(\h1476, 0, 1, 16, \h300), Number(\h1477, 0, 0, \h300),
       Data(\h1478, 0, 1, 256, \h300) >>

From19010000 ==
    << Number(\h1901, 0, 0, 0), Number(\h1960, 0, 0, 0), Data(\h1980, 0, 1, 17, \h1311),
       Number(\h1981, 0, 0, \h1311), Data(\h1E01, 0, 2, 1024, \h31), Number(\h1E02, 0, 0, \h300),
       Data(\h2001, 0, 2, 1024, \h33), Many(\h2002, \h0100, 2, 1024, 10, 16, \h33),
       Many(\h2003, \h4001, 2, 2000, 2, 8, \h33), Data(\h2040, 0, 2, 1024, \h33),
       Number(\h2041, 0, 0, \h33) >>

From23010000 ==
    << Number(\h2301, 0, \h656E67, \h300), Number(\h2302, 0, \h656E67, \h300),
       Number(\h2303, 0, \h656E67, \h300), Number(\h2304, 0, 1, \h300), Number(\h2305, 0, 0, \h300),
       Number(\h2306, 0, 0, \h300), Number(\h2307, 0, 1, \h300), Number(\h2308, 0, 0, \h300),
       Number(\h2309, 0, 0, \h300), Number(\h230A, 0, \h656E, \h300),
       Number(\h230B, 0, \h656E, \h300) >>

From230C0000 ==
    << Number(\h230C, 0, \h656E, \h300), Number(\h230D, 0, 0, 0), Number(\h230E, 0, 0, 0),
       Number(\h230F, 0, 0, 0) >>

From28010000 ==
    << Number(\h2801, 0, 0, 0), Number(\h2802, 0, 0, 0), Number(\h2803, 0, 0, 0),
       Number(\h2901, 0, 0, 0), Number(\h2902, 0, 0, 0), Number(\h2903, 0, 0, 0),
       Data(\h2A01, 0, 2, 32, 0), Number(\h2D01, 0, 1, 0), Data(\h320C, 0, 1, 43, 0) >>

From37040000 ==
    << Number(\h3704, 0, 0, 0), Number(\h3705, 0, 0, \h33), Number(\h3706, 0, 0, \h33),
       Number(\h3709, 0, \h12C, 0), Number(\h370A, 0, 0, \h300), Number(\h3C02, 0, 1, \h33),
       Number(\h3C03, 0, 1, \h33), Number(\h3C04, 0, 1, \h33) >>

From41810000 ==
    << Number(\h4181, 0, 1, 0), Number(\h4182, 0, 0, 0), Many(\h4101, \h0100, 0, 4, 32, 16, 0),
       Many(\h4101, \h0200, 0, 4, 32, 16, 0), Many(\h4101, \h0300, 2, 16, 32, 16, 0),
       Many(\h4101, \h0400, 0, 4, 32, 16, 0), Numbers(\h4280, \h0100, 0),
       Numbers(\h4280, \h0200, 0), Many(\h4280, \h0300, 2, 16, 16, 16, 0),
       Numbers(\h4280, \h0400, 0) >>

From43800100 ==
    << Numbers(\h4380, \h0100, 0), Numbers(\h4380, \h0200, 0),
       Many(\h4380, \h0300, 2, 16, 16, 16, 0), Numbers(\h4380, \h0400, 0),
       Numbers(\hC880, \h0100, 0), Numbers(\hC880, \h0200, 0),
       Many(\hC880, \h0300, 2, 16, 16, 16, 0), Numbers(\hC880, \h0400, 0) >>

From45010000 ==
    << Number(\h4501, 0, 0, 0), Number(\h4502, 0, 2, 0), Number(\h4503, 0, 0, 0),
       Number(\h4505, 0, 0, 0), Number(\h4506, 0, 0, 0), Number(\h4540, 0, 0, 0),
       Number(\h5501, 0, 0, 0), Data(\h5601, 0, 1, 33, 0), Many(\h6480, \h0100, 1, 17, 16, 16, 0),
       Many(\h6480, \h0200, 2, 6, 16, 16, 0), Many(\h6480, \h0300, 2, 8, 16, 16, 0) >>

From46010100 ==
    << Number(\h4601, \h0100, 0, \hF0), Number(\h4601, \h0200, 0, \hF0),
       Number(\h4601, \h0300, \h2027, \hF0) >>

From49010000 ==
    << Number(\h4901, 0, 0, \h310), Number(\h4902, \h0100, 0, \h355),
       Number(\h4902, \h0200, 1, \h355), Number(\h4902, \h0300, \h20202, \h355),
       Number(\h4902, \h0400, \h64, \h355), Number(\h4902, \h0500, \h64, \h355),
       Number(\h4902, \h0600, 2, \h355), Number(\h4902, \h0700, 0, \h355),
       Number(\h4902, \h0800, 0, \h355), Number(\h4902, \h0900, 0, \h355),
       Number(\h4902, \h0A00, \h64, \h355) >>

From49020B00 ==
    << Number(\h4902, \h0B00, \h20202, \h355), Number(\h4902, \h0C00, 0, \h355) >>

From4B010000 ==
    << Number(\h4B01, 0, 0, \h33), Number(\h4F01, 0, 0, \h10),
       Many(\h4F40, \h0101, 2, 6, 10, 8, \h10), Many(\h4F40, \h0102, 0, 4, 10, 8, \h10),
       Many(\h4F40, \h0103, 2, 64, 10, 8, \h10), Many(\h4F40, \h0104, 2, 8, 10, 8, \h10),
       Data(\h5040, \h0100, 2, 48, 0), Number(\h7003, 0, 0, \h300), Number(\h7004, 0, 0, \h300),
       Number(\h7005, 0, 0, \h300) >>

From73010100 ==
    << Data(\h7301, \h0100, 1, 32, 0), Data(\h7301, \h0200, 1, 32, 0),
       Data(\h7301, \h0300, 1, 32, 0), Data(\h7301, \h0400, 1, 32, 0),
       Data(\h7301, \h0500, 1, 32, 0), Data(\h7301, \h0600, 1, 32, 0),
       Data(\h7301, \h0700, 1, 256, 0), Data(\h7301, \h0800, 1, 32, 0), Number(\h7680, 0, -1, \h30),
       Number(\h7802, \hC9C8, 1, \h300) >>

ENTRIES ==
    From01010000 \o From02010000 \o From020E0000 \o From02800800 \o From02820100
        \o From02820E00 \o From02900100 \o From02BC0700 \o From02C30100 \o From03800100
        \o From05010000 \o From05150000 \o From07010000 \o From07800100 \o From07800D00
        \o From07805C07 \o From07808001 \o From0780800C \o From07808017 \o From07808082
        \o From0780A001 \o From0780A00C \o From0780B00C \o From0780B801 \o From0780B80C
        \o From0780B817 \o From0780C001 \o From0780C00C \o From0780C018 \o From0780C023
        \o From0780C042 \o From0780D001 \o From0780E001 \o From0780F801 \o From09010000
        \o From0A030000 \o From0A130000 \o From0B030000 \o From12010100 \o From14140100
        \o From14140F00 \o From141E0100 \o From141E6001 \o From141E600C \o From14230800
        \o From14280100 \o From14320101 \o From19010000 \o From23010000 \o From230C0000
        \o From28010000 \o From37040000 \o From41810000 \o From43800100 \o From45010000
        \o From46010100 \o From49010000 \o From49020B00 \o From4B010000 \o From73010100
=============================================================================
