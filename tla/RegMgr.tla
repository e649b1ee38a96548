------------------------------- MODULE RegMgr -------------------------------
(***************************************************************************)
(* The registry of the legacy kernel (src/legacy/src/regmgr/mod.rs).  A    *)
(* process sets a number with the system call regmgr_call, whose request   *)
(* hides the key behind a mask and a checksum, or asks for one of a few    *)
(* numbers with workaround8849.  Nothing is ever stored: a set succeeds    *)
(* when the number is what the table holds, and is not implemented         *)
(* otherwise.                                                              *)
(*                                                                         *)
(* The answer of a call is "ok" (the number 0), the last two bytes of its  *)
(* error, "EINVAL", or "todo" where the code panics with todo!().          *)
(***************************************************************************)
EXTENDS Integers, Sequences, Bitwise, SequencesExt, TLC

CONSTANTS
    Entries, \* the table, ENTRIES of RegTable
    Keys,    \* the keys of the requests
    Asked,   \* the keys given to workaround8849
    Values,  \* the numbers that are set
    Slots    \* places of the mask, 13 of which the code knows

VARIABLES
    call,    \* the last call
    answer   \* its result

vars == <<call, answer>>

NET_WIFI_FREQ_BAND == <<\h141E, \h0500>>
AUDIOOUT_CONNECTOR_TYPE == <<\h0B06, 0>>
AUDIOOUT_CODEC == <<\h0B07, 0>>
NP_DEBUG == <<\h1981, 0>>

(* The keys of get_value that end in todo!().                              *)
SpecialKeys ==
    {<<\h0105, 0>>, <<\h0201, 0>>, <<\h0282, \h0E00>>, <<\h0286, \h0100>>, <<\h0286, \h0200>>,
     <<\h0286, \h0300>>, <<\h7802, \h0300>>}

(* The keys of sys_workaround8849.                                         *)
DebugKeys ==
    {NP_DEBUG, <<\h3CC8, \h0700>>, <<\h7802, \h6400>>, <<\h7802, \h8300>>, <<\h7802, \h8A00>>}

SBOX1 == << \h68, \hE8, \h98, \h03, \h9A, \h70, \h23, \h5A, \h63, \hEE, \hF5, \h7B, \hFF, \hA4,
            \h4C, \h8C >>
SBOX2 == << \h14, \hEE, \hDE, \hE1, \h80, \hAC, \hF3, \h78, \h47, \h43, \hDB, \h40, \h93, \hDD,
            \hB1, \h34 >>

UNK_ENTRIES1 ==
    << [key |-> NET_WIFI_FREQ_BAND, unk1 |-> 0, unk2 |-> 1, unk3 |-> 1],
       [key |-> AUDIOOUT_CONNECTOR_TYPE, unk1 |-> 0, unk2 |-> 1, unk3 |-> 2],
       [key |-> AUDIOOUT_CODEC, unk1 |-> 0, unk2 |-> 1, unk3 |-> 2] >>

Bit(n, b) == (n \div 2^b) % 2 = 1

-----------------------------------------------------------------------------
(* The table.                                                              *)

(* The key (n << shift) + key, in 32 bits.                                 *)
KeyAt(key, n, shift) ==
    LET lo == key[2] + ((n * 2^shift) % 65536)
        hi == key[1] + ((n * 2^shift) \div 65536) + (lo \div 65536)
    IN  <<hi % 65536, lo % 65536>>

(* Mutant: the keys of an entry are one byte apart, whatever its unk2.     *)
KeysOfByteApart(e) == {e.key} \cup {KeyAt(e.key, n, 8) : n \in 1 .. (e.unk1 - 1)}

(* The keys that have this entry.                                          *)
KeysOf(e) == {e.key} \cup {KeyAt(e.key, n, e.unk2 % 32) : n \in 1 .. (e.unk1 - 1)}
EntryKeys == [i \in 1 .. Len(Entries) |-> KeysOf(Entries[i])]

(* The first entry that has the key, or 0.                                 *)
lookup(key) == SelectInSeq(EntryKeys, LAMBDA ks : key \in ks)

(* The entry with the key, as a set: it is empty when there is none.       *)
entry(key) == {Entries[i] : i \in {lookup(key)} \ {0}}

check_param(key, len) ==
    IF \E e \in entry(key) : e.unk4 # 0 THEN "07"
    ELSE IF \E e \in entry(key) : e.len # len THEN "08" ELSE "ok"

(* The answer and the number; 0 is what the buffer holds from the start.   *)
value_of(e, len) ==
    IF e.len > len THEN [answer |-> "08", out |-> 0]
    ELSE IF e.unk5 = 2 /\ e.unk6 = 1 /\ e.unk4 # 1 THEN [answer |-> "ok", out |-> e.value]
    ELSE [answer |-> "todo", out |-> 0]

get_value(key, len) ==
    IF key \in SpecialKeys THEN [answer |-> "todo", out |-> 0]
    ELSE IF entry(key) = {} THEN [answer |-> "ok", out |-> 0]
    ELSE CHOOSE r \in {value_of(e, len) : e \in entry(key)} : TRUE

(* The number is that of the entry already; nothing else is implemented.   *)
unchanged(e, old, value) ==
    IF old.answer # "ok" THEN old.answer
    ELSE IF e.unk4 # 1 /\ old.out = value THEN "ok" ELSE "todo"

set_entry(key, e, len, value) ==
    IF len > e.len THEN "08"
    ELSE IF e.len >= 5 THEN "todo" ELSE unchanged(e, get_value(key, e.len), value)

(* The keys of UNK_ENTRIES1 that are not stored.                           *)
ignored(key) ==
    \E u \in {SelectInSeq(UNK_ENTRIES1,
                  LAMBDA e : \E n \in 0 .. (e.unk2 - 1) : KeyAt(e.key, n, e.unk1) = key)} \ {0} :
        Bit(UNK_ENTRIES1[u].unk3, 0)

set_value(key, len, value) ==
    IF ignored(key) THEN "ok"
    ELSE IF entry(key) = {} THEN "03"
    ELSE CHOOSE a \in {set_entry(key, e, len, value) : e \in entry(key)} : TRUE

get_int(key) ==
    IF check_param(key, 4) = "ok" /\ get_value(key, 4).answer = "ok" THEN get_value(key, 4)
    ELSE [answer |-> "todo", out |-> 0]

set_int(key, value) ==
    IF check_param(key, 4) = "ok" /\ set_value(key, 4, value) = "ok" THEN "ok" ELSE "todo"

-----------------------------------------------------------------------------
(* The request: the bytes a .. f and the checksum h.                       *)

Checksum(r) == (r.a + r.b + r.c + r.d + r.e * r.f) % 65536

(* What the caller's library sends for a key: the mask begins at slot i of *)
(* the box that x stands for.                                              *)
Encode(key, i, x) ==
    LET box == IF x = \h19 THEN SBOX2 ELSE SBOX1
        Hide(byte, j) == byte ^^ (IF j < 16 THEN box[j + 1] ELSE 0)
        r == [a |-> Hide(key[2] % 256, i + 3), b |-> Hide(key[1] \div 256, i),
              c |-> Hide(key[2] \div 256, i + 2), d |-> Hide(key[1] % 256, i + 1),
              e |-> x ^^ SBOX1[16 - i], f |-> i ^^ \h6B]
    IN  r @@ [h |-> Checksum(r)]

unmask(r, i, box) ==
    <<((r.b ^^ box[i + 1]) * 256) + (r.d ^^ box[i + 2]),
      ((r.c ^^ box[i + 3]) * 256) + (r.a ^^ box[i + 4])>>

(* Who may use an entry, and how: v3 is 1 to read and 2 to write.          *)
permitted(e, v2, cred, v3) ==
    IF v3 = 1 /\ cred.nongame /\ ~Bit(e.unk3, 4) THEN "16"
    ELSE IF v3 = 1 /\ ~Bit(e.unk3, 0) THEN "14"
    ELSE IF v3 = 1 /\ cred.web /\ ~Bit(e.unk3, 12) THEN "1f"
    ELSE IF cred.nongame THEN "todo"
    ELSE IF ~Bit(e.unk3, 1) THEN "14"
    ELSE IF cred.web /\ ~Bit(e.unk3, 13) THEN "1f"
    ELSE IF e.unk2 \in {8, 16} THEN "todo"
    ELSE IF v2 # 0 THEN "06" ELSE "ok"

(* The key is known: n is the place of its entry.                          *)
allowed(key, n, v2, cred, v3) ==
    [answer |-> IF n = 0 THEN "03" ELSE permitted(Entries[n], v2, cred, v3), key |-> key]

with_key(key, v2, cred, v3) == allowed(key, lookup(key), v2, cred, v3)

Fail(a) == [answer |-> a, key |-> <<0, 0>>]

(* The box that x stands for, and the key behind the mask from slot i on.  *)
with_box(r, i, x, v2, cred, v3) ==
    IF x \notin {\h19, \h72} THEN Fail("todo")
    ELSE with_key(unmask(r, i, IF x = \h19 THEN SBOX2 ELSE SBOX1), v2, cred, v3)

with_slot(r, i, v2, cred, v3) ==
    IF i > 12 THEN Fail("todo")
    ELSE with_box(r, i, r.e ^^ SBOX1[16 - i], v2, cred, v3)

decode_key(r, v2, cred, v3) ==
    IF Checksum(r) # r.h THEN Fail("04") ELSE with_slot(r, r.f ^^ \h6B, v2, cred, v3)

-----------------------------------------------------------------------------
(* The system calls.                                                       *)

Creds == [nongame : BOOLEAN, web : BOOLEAN]

Init == call = [op |-> "none"] /\ answer = "ok"

(* Operation 0x18, which sets a number.                                    *)
regmgr_set(r, v2, value, cred, key) ==
    \E d \in {decode_key(r, v2, cred, 2)} :
    /\ call' = [op |-> "set", key |-> key, req |-> r, value |-> value, decoded |-> d.key]
    /\ answer' = IF d.answer = "ok" THEN set_int(d.key, value) ELSE d.answer

(* Operation 0x19, which stops at a key that may be read.                  *)
regmgr_get(r, v2, cred, key) ==
    \E d \in {decode_key(r, v2, cred, 1)} :
    /\ call' = [op |-> "get", key |-> key, req |-> r, value |-> 0, decoded |-> d.key]
    /\ answer' = IF d.answer = "ok" THEN "todo" ELSE d.answer

(* The other operations: 0x27, and 0x40 and above.                         *)
regmgr_other(op) ==
    /\ call' = [op |-> "other"]
    /\ answer' = IF op = \h27 \/ op >= \h40 THEN "19" ELSE "todo"

sys_workaround8849(key) ==
    /\ call' = [op |-> "debug", key |-> key]
    /\ answer' = IF key \in DebugKeys THEN get_int(key).answer ELSE "EINVAL"

(* The cases of a request: a damaged checksum, an unknown box.             *)
Requests(key, i) ==
    {[Encode(key, i, c[1]) EXCEPT !.h = (@ + c[2]) % 65536] :
        c \in {<<0, 0>>, <<\h19, 0>>, <<\h72, 0>>, <<\h72, 1>>, <<\h72, 65535>>}}

Calls ==
    \/ \E key \in Keys, i \in Slots, cred \in Creds, v2 \in {0, 1} : \E r \in Requests(key, i) :
          \/ \E value \in Values : regmgr_set(r, v2, value, cred, key)
          \/ regmgr_get(r, v2, cred, key)
    \/ \E op \in {1, \h27, \h3F, \h40} : regmgr_other(op)
    \/ \E key \in Asked : sys_workaround8849(key)

(* Each call is looked at from the start: none depends on an earlier one.  *)
Next == call.op = "none" /\ Calls

Spec == Init /\ [][Next]_vars

-----------------------------------------------------------------------------
(* An intact request of a known box names the key its sender hid in it, a  *)
(* damaged checksum is noticed, and no key that is asked for belongs to    *)
(* two entries: lookup() returns the only one there is, whatever the order *)
(* of the table.                                                           *)
OneEntry ==
    /\ call.op \in {"set", "get"} /\ answer # "todo" =>
        IF Checksum(call.req) = call.req.h THEN call.decoded = call.key ELSE answer = "04"
    /\ call.op \in {"set", "debug"} =>
        \A i \in DOMAIN Entries : call.key \in EntryKeys[i] => i = lookup(call.key)
=============================================================================
