----------------------------- MODULE VmmProofs -----------------------------
(***************************************************************************)
(* Proofs about two parts of the VMM.                                      *)
(*                                                                         *)
(* The channel, for any number of senders and any capacity: messages come  *)
(* in the order they were sent in, the queue respects its capacity and no  *)
(* wakeup of either side is lost.                                          *)
(*                                                                         *)
(* The loading of the kernel, for any file: a kernel that loads is the     *)
(* image its headers describe.  The invariant follows the loading from     *)
(* step to step: which headers are read, which segments are measured and   *)
(* copied, and which relocations are done.                                 *)
(***************************************************************************)
EXTENDS Channel, KernelImage, FiniteSetTheorems, TLAPS

(* The channel.                                                            *)

(* The state keeps the types of the fields of Queue and Recv.              *)
THEOREM TypeCorrect == Spec => []TypeOK
  <1>1. Init => TypeOK
    <2> SUFFICES ASSUME Init PROVE TypeOK
      OBVIOUS
    <2>1. items \in Seq(Senders \X Nat) /\ calling \subseteq Senders /\ asleep \subseteq calling
      BY DEF Init
    <2>2. sent \in [Senders -> Nat] /\ got \in [Senders -> Nat]
      BY DEF Init
    <2> QED
      BY <2>1, <2>2, Zenon DEF Init, TypeOK
  <1>2. TypeOK /\ [Next]_vars => TypeOK'
    <2> SUFFICES ASSUME TypeOK, [Next]_vars PROVE TypeOK'
      OBVIOUS
    <2>1. ASSUME NEW s \in Senders, Sending(s) PROVE TypeOK'
      <3>1. CASE Push(s) /\ calling' = calling \ {s} /\ asleep' = asleep
        <4>1. items' \in Seq(Senders \X Nat) /\ sent' \in [Senders -> Nat]
          BY <3>1 DEF Push, TypeOK
        <4>2. s \notin asleep /\ UNCHANGED <<waiting, task, got, quiet>>
          BY <2>1 DEF Sending
        <4> QED
          BY <3>1, <4>1, <4>2 DEF Push, TypeOK
      <3>2. CASE UNCHANGED <<items, waiter, woken, sent>>
        BY <2>1, <3>2 DEF Sending, Send, Push, TypeOK
      <3> QED
        BY <2>1, <3>1, <3>2 DEF Sending, Send
    <2>2. ASSUME NEW s \in Senders, SpuriousWake(s) PROVE TypeOK'
      BY <2>2 DEF SpuriousWake, TypeOK
    <2>3. CASE Receive
      <3>1. CASE PollReady
        <4>1. Head(items) \in Senders \X Nat /\ Tail(items) \in Seq(Senders \X Nat)
          <5>1. items \in Seq(Senders \X Nat) /\ items # <<>>
            BY <3>1 DEF PollReady, TypeOK
          <5> QED
            BY <5>1
        <4>2. asleep' \subseteq asleep
          BY <3>1 DEF PollReady, NotifyOne
        <4>3. got' \in [Senders -> Nat]
          <5>1. got \in [Senders -> Nat] /\ Head(items)[1] \in Senders
            BY <4>1, Zenon DEF TypeOK
          <5>2. got' = [got EXCEPT ![Head(items)[1]] = @ + 1]
            BY <3>1 DEF PollReady
          <5> QED
            BY <5>1, <5>2
        <4>4. task' = "running" /\ UNCHANGED <<woken, calling, sent, quiet>>
          BY <2>3, <3>1 DEF Receive, PollReady, PollPending
        <4> QED
          BY <3>1, <4>1, <4>2, <4>3, <4>4, Zenon DEF PollReady, TypeOK
      <3>2. CASE PollPending
        BY <2>3, <3>2 DEF Receive, PollReady, PollPending, TypeOK
      <3> QED
        BY <2>3, <3>1, <3>2, Zenon DEF Receive
    <2>4. CASE Schedule \/ Sleep \/ OtherWake \/ Cancel \/ PollOther \/ FallQuiet \/ UNCHANGED vars
      BY <2>4, Zenon DEF Schedule, Sleep, OtherWake, Cancel, DropRecv, PollOther, FallQuiet, vars, TypeOK
    <2> QED
      BY <2>1, <2>2, <2>3, <2>4 DEF Next
  <1> QED
    BY <1>1, <1>2, PTL DEF Spec

-----------------------------------------------------------------------------
(* The order of the messages.  Fifo needs that no sender's messages are    *)
(* received before they are sent.                                          *)
Order == Fifo /\ \A s \in Senders : got[s] <= sent[s]

(* A message is pushed with the number after all of its sender's.          *)
LEMMA PushOrder ==
    ASSUME TypeOK, Order, NEW s \in Senders, Push(s), UNCHANGED got
    PROVE  Order'
  <1> DEFINE n == Len(items) + 1
  <1>1. /\ items \in Seq(Senders \X Nat) /\ sent[s] \in Nat /\ got[s] \in Nat
        /\ sent \in [Senders -> Nat] /\ got \in [Senders -> Nat]
    BY DEF TypeOK
  <1>2. /\ items' = Append(items, <<s, sent[s] + 1>>)
        /\ sent' = [sent EXCEPT ![s] = sent[s] + 1]
    BY DEF Push
  <1>3. /\ DOMAIN items' = DOMAIN items \cup {n} /\ n \notin DOMAIN items
        /\ items'[n] = <<s, sent[s] + 1>>
        /\ \A i \in DOMAIN items : items'[i] = items[i] /\ i < n
    <2>1. Len(items) \in Nat /\ DOMAIN items = 1 .. Len(items)
      BY <1>1
    <2>2. <<s, sent[s] + 1>> \in Senders \X Nat
      BY <1>1
    <2>3. items' \in Seq(Senders \X Nat) /\ Len(items') = n
      BY <1>1, <1>2, <2>2
    <2>4. DOMAIN items' = 1 .. n
      BY <2>3
    <2>5. items'[n] = <<s, sent[s] + 1>>
      BY <1>1, <1>2, <2>2
    <2>6. \A i \in 1 .. Len(items) : items'[i] = items[i]
      BY <1>1, <1>2, <2>2
    <2> QED
      BY <2>1, <2>4, <2>5, <2>6
  <1>4. ASSUME NEW t \in Senders PROVE Numbers(t)' = got'[t] + 1 .. sent'[t]
    <2>1. CASE t = s
      <3>1. Numbers(s)' = Numbers(s) \cup {sent[s] + 1}
        BY <1>3 DEF Numbers
      <3>2. Numbers(s) = got[s] + 1 .. sent[s] /\ got[s] <= sent[s]
        BY DEF Order, Fifo
      <3> QED
        BY <1>1, <1>2, <2>1, <3>1, <3>2
    <2>2. CASE t # s
      <3>1. Numbers(t)' = Numbers(t)
        BY <1>3, <2>2 DEF Numbers
      <3> QED
        BY <1>1, <1>2, <2>2, <3>1, Zenon DEF Order, Fifo
    <2> QED
      BY <2>1, <2>2
  <1>5. ASSUME NEW i \in DOMAIN items', NEW j \in DOMAIN items', i < j,
               items'[i][1] = items'[j][1]
        PROVE  items'[i][2] < items'[j][2]
    <2>1. i \in DOMAIN items
      BY <1>1, <1>3, <1>5
    <2>2. CASE j \in DOMAIN items
      BY <1>3, <1>5, <2>1, <2>2 DEF Order, Fifo
    <2>3. CASE j = n
      <3>1. items[i][1] = s
        BY <1>3, <1>5, <2>1, <2>3
      <3>2. items[i][2] \in Numbers(s)
        BY <2>1, <3>1 DEF Numbers
      <3>3. items[i][2] \in got[s] + 1 .. sent[s]
        BY <3>2 DEF Order, Fifo
      <3>4. items'[i][2] = items[i][2] /\ items'[j][2] = sent[s] + 1
        BY <1>3, <2>1, <2>3
      <3>5. items[i][2] < sent[s] + 1
        <4>1. PICK x, y, z : x = items[i][2] /\ y = got[s] /\ z = sent[s]
          BY Zenon
        <4>2. x \in y + 1 .. z /\ y \in Nat /\ z \in Nat
          BY <1>1, <3>3, <4>1, Zenon
        <4>3. x < z + 1
          BY ONLY <4>2
        <4> QED
          BY <4>1, <4>3, Zenon
      <3> QED
        BY <3>4, <3>5, Zenon
    <2> QED
      BY <1>3, <2>2, <2>3
  <1>6. \A t \in Senders : got'[t] <= sent'[t]
    BY <1>1, <1>2 DEF Order
  <1> QED
    BY <1>4, <1>5, <1>6, Zenon DEF Order, Fifo

(* The message at the head is the next one of its sender.                  *)
LEMMA HeadIsNext ==
    ASSUME TypeOK, Order, items # <<>>
    PROVE  /\ items[1] \in Senders \X Nat
           /\ items[1][2] = got[items[1][1]] + 1
           /\ got[items[1][1]] + 1 <= sent[items[1][1]]
  <1>1. /\ items \in Seq(Senders \X Nat) /\ 1 \in DOMAIN items
        /\ \A i \in DOMAIN items : items[i] \in Senders \X Nat /\ i >= 1 /\ i \in Nat
    BY DEF TypeOK
  <1>2. PICK s \in Senders, m \in Nat : items[1] = <<s, m>>
    BY <1>1
  <1>3. got[s] \in Nat /\ sent[s] \in Nat /\ Numbers(s) = got[s] + 1 .. sent[s]
    BY Zenon DEF TypeOK, Order, Fifo
  <1>4. m \in Numbers(s)
    BY <1>1, <1>2 DEF Numbers
  <1>5. got[s] + 1 \in Numbers(s)
    BY <1>3, <1>4
  <1>6. PICK i \in DOMAIN items : items[i][1] = s /\ items[i][2] = got[s] + 1
    BY <1>5 DEF Numbers
  <1>7. i # 1 => m < got[s] + 1
    BY <1>1, <1>2, <1>6 DEF Order, Fifo
  <1> QED
    BY <1>1, <1>2, <1>3, <1>4, <1>6, <1>7

LEMMA PollOrder ==
    ASSUME TypeOK, Order, PollReady, UNCHANGED sent
    PROVE  Order'
  <1>0. PICK s \in Senders : s = items[1][1]
    BY HeadIsNext, Zenon DEF PollReady
  <1>1. /\ items \in Seq(Senders \X Nat) /\ items # <<>> /\ items' = Tail(items)
        /\ got' = [got EXCEPT ![s] = got[s] + 1]
    <2>1. Head(items) = items[1]
      BY DEF TypeOK, PollReady
    <2> QED
      BY <1>0, <2>1, Zenon DEF TypeOK, PollReady
  <1>2. items[1][2] = got[s] + 1 /\ got[s] + 1 <= sent[s]
    BY <1>0, <1>1, HeadIsNext, Zenon
  <1>3. got \in [Senders -> Nat] /\ sent \in [Senders -> Nat]
    BY DEF TypeOK
  <1>4. /\ \A i \in DOMAIN items' : i \in Nat /\ i + 1 \in DOMAIN items /\ items'[i] = items[i + 1]
        /\ \A i \in DOMAIN items : i # 1 => i - 1 \in DOMAIN items' /\ i > 1
        /\ \A i \in DOMAIN items : i \in Nat
        /\ 1 \in DOMAIN items
    BY <1>1
  <1>5. ASSUME NEW t \in Senders PROVE Numbers(t)' = got'[t] + 1 .. sent'[t]
    <2>0. Numbers(t) = got[t] + 1 .. sent[t]
      BY DEF Order, Fifo
    <2>1. Numbers(t)' = {items[i][2] : i \in {j \in DOMAIN items : j # 1 /\ items[j][1] = t}}
      <3>1. ASSUME NEW m \in Numbers(t)'
            PROVE  m \in {items[i][2] : i \in {j \in DOMAIN items : j # 1 /\ items[j][1] = t}}
        <4>1. PICK i \in DOMAIN items' : items'[i][1] = t /\ m = items'[i][2]
          BY Zenon DEF Numbers
        <4>2. i + 1 \in DOMAIN items /\ i + 1 # 1 /\ items[i + 1][1] = t /\ m = items[i + 1][2]
          <5>1. i \in Nat /\ i # 0
            BY <1>1
          <5> QED
            BY <1>4, <4>1, <5>1
        <4> QED
          BY <4>2
      <3>2. ASSUME NEW i \in DOMAIN items, i # 1, items[i][1] = t
            PROVE  items[i][2] \in Numbers(t)'
        <4>1. i - 1 \in DOMAIN items' /\ (i - 1) + 1 = i
          BY <1>4, <3>2
        <4>2. items'[i - 1] = items[i]
          BY <1>4, <4>1
        <4> QED
          BY <3>2, <4>1, <4>2, Zenon DEF Numbers
      <3> QED
        BY <3>1, <3>2, Zenon
    <2>2. CASE t = s
      <3>1. \A i \in DOMAIN items : i # 1 /\ items[i][1] = s => items[1][2] < items[i][2]
        BY <1>0, <1>4 DEF Order, Fifo
      <3>2. Numbers(s)' = Numbers(s) \ {items[1][2]}
        <4>1. ASSUME NEW m \in Numbers(s)' PROVE m \in Numbers(s) \ {items[1][2]}
          <5>1. PICK i \in DOMAIN items : i # 1 /\ items[i][1] = s /\ m = items[i][2]
            BY <2>1, <2>2
          <5>2. m \in Numbers(s)
            BY <5>1 DEF Numbers
          <5>3. m \in Int /\ items[1][2] \in Int
            BY <1>2, <1>3, <2>0, <2>2, <5>2
          <5> QED
            BY <3>1, <5>1, <5>2, <5>3
        <4>2. ASSUME NEW m \in Numbers(s) \ {items[1][2]} PROVE m \in Numbers(s)'
          <5>1. PICK i \in DOMAIN items : items[i][1] = s /\ m = items[i][2]
            BY DEF Numbers
          <5> QED
            BY <2>1, <2>2, <5>1, Zenon
        <4> QED
          BY <4>1, <4>2, Zenon
      <3>3. Numbers(s)' = (got[s] + 1 .. sent[s]) \ {got[s] + 1}
        BY <1>2, <2>0, <2>2, <3>2, Zenon
      <3>4. got'[s] = got[s] + 1 /\ sent'[s] = sent[s] /\ got[s] \in Nat /\ sent[s] \in Nat
        BY <1>1, <1>2, <1>3, Zenon
      <3> QED
        BY <2>2, <3>3, <3>4
    <2>3. CASE t # s
      <3>1. Numbers(t)' = Numbers(t)
        BY <1>0, <2>1, <2>3, Zenon DEF Numbers
      <3> QED
        BY <1>1, <1>3, <2>0, <2>3, <3>1, Zenon
    <2> QED
      BY <2>2, <2>3
  <1>6. ASSUME NEW i \in DOMAIN items', NEW j \in DOMAIN items', i < j,
               items'[i][1] = items'[j][1]
        PROVE  items'[i][2] < items'[j][2]
    <2>1. i + 1 \in DOMAIN items /\ j + 1 \in DOMAIN items /\ i + 1 < j + 1
      BY <1>4, <1>6
    <2> QED
      BY <1>4, <1>6, <2>1 DEF Order, Fifo
  <1>7. \A t \in Senders : got'[t] <= sent'[t]
    BY <1>1, <1>2, <1>3 DEF Order
  <1> QED
    BY <1>5, <1>6, <1>7, Zenon DEF Order, Fifo

(* For any senders, any capacity and any number of messages: a message is  *)
(* neither lost nor repeated nor overtaken by a later one of its sender,   *)
(* whatever receives are dropped before they complete.                     *)
THEOREM MessagesInOrder == Spec => []Fifo
  <1>1. Init => Order
    <2> SUFFICES ASSUME Init PROVE Order
      OBVIOUS
    <2>1. DOMAIN items = {}
      BY DEF Init
    <2> QED
      BY <2>1 DEF Init, Order, Fifo, Numbers
  <1>2. TypeOK /\ Order /\ [Next]_vars => Order'
    <2> SUFFICES ASSUME TypeOK, Order, [Next]_vars PROVE Order'
      OBVIOUS
    <2>1. CASE UNCHANGED <<items, sent, got>>
      BY <2>1 DEF Order, Fifo, Numbers
    <2>2. ASSUME NEW s \in Senders, Sending(s) PROVE Order'
      BY <2>1, <2>2, PushOrder DEF Sending, Send
    <2>3. CASE Receive
      BY <2>1, <2>3, PollOrder, Zenon DEF Receive, PollPending
    <2>4. CASE \/ \E s \in Senders : SpuriousWake(s)
               \/ Schedule \/ Sleep \/ OtherWake \/ Cancel \/ PollOther \/ FallQuiet \/ UNCHANGED vars
      BY <2>1, <2>4 DEF SpuriousWake, Schedule, Sleep, OtherWake, Cancel, DropRecv,
                        PollOther, FallQuiet, vars
    <2> QED
      BY <2>2, <2>3, <2>4 DEF Next
  <1>3. Order => Fifo
    BY DEF Order
  <1> QED
    BY <1>1, <1>2, <1>3, TypeCorrect, PTL DEF Spec

-----------------------------------------------------------------------------
(* The loading of the kernel.                                              *)

End(h) == h.vaddr + h.memsz

(* The load segments among the first n headers.                            *)
LoadsTo(n) == {file.headers[i] : i \in {j \in DOMAIN file.headers : j <= n /\ file.headers[j].type = "LOAD"}}

(* The first n segments lie one after the other in the kernel's memory.    *)
Measured(n) ==
    /\ \A i \in 1 .. n : End(segments[i]) <= kern_len
    /\ \A i, j \in 1 .. n : i < j => End(segments[i]) <= segments[j].vaddr

(* The memory holds the first n segments, and zeros elsewhere.             *)
Copied(n) ==
    \A a \in 0 .. kern_len - 1 :
        /\ \A i \in 1 .. n : a \in FileSpan(segments[i]) =>
              mem[a] = file.words[segments[i].offset + (a - segments[i].vaddr) + 1]
        /\ (\A i \in 1 .. n : a \notin FileSpan(segments[i])) => mem[a] = 0

(* The table does not relocate itself.                                     *)
Fixed == \A a \in Table : Relocs(a) = {}

(* The first n relocations are done, and none of them ends the table.      *)
RelocsTo(n, a) == {i \in 1 .. n : Image(Reloc(i) + 1) = R_RELATIVE /\ Image(Reloc(i)) = a}
WordAfter(n, a) ==
    IF RelocsTo(n, a) = {} THEN Image(a)
    ELSE (KernVaddr + Image(Reloc(LastOf(RelocsTo(n, a))) + 2)) % Word
Relocated(n) ==
    /\ \A i \in 1 .. n : Image(Reloc(i) + 1) # R_NONE
    /\ \A a \in 0 .. kern_len - 1 : mem[a] = WordAfter(n, a)

Reading == {"open", "headers"}
Loaded == {"copy", "dynamic", "relocate", "done"}
Maybe(S) == {<<>>} \cup {<<x>> : x \in S}

ImageTypes ==
    /\ file \in Files /\ k \in Nat \ {0} /\ kern_len \in Nat
    /\ step \in Reading \cup Loaded \cup {"notes", "length", "error"}
    /\ segments \in Seq(HeaderType) /\ dynamic \in Maybe(HeaderType)
    /\ \A i \in DOMAIN segments : segments[i].filesz <= segments[i].memsz
    /\ rela \in Maybe(Nat) /\ relasz \in Maybe(Nat)
    /\ step \in Loaded => mem \in [0 .. kern_len - 1 -> Nat]

ImageInv ==
    /\ ImageTypes
    /\ step = "open" => k = 1
    /\ step \in Reading => Range(segments) = LoadsTo(k - 1)
    /\ step \in Loaded \cup {"notes", "length"} => Range(segments) = LoadSegments /\ dynamic # <<>>
    /\ step \in Reading \cup {"notes"} => kern_len = 0
    /\ step = "length" => k <= Len(segments) + 1 /\ Measured(k - 1)
    /\ step \in Loaded => Measured(Len(segments))
    /\ step = "copy" => k <= Len(segments) + 1 /\ Copied(k - 1)
    /\ step = "dynamic" =>
        /\ End(dynamic[1]) <= kern_len
        /\ \A a \in 0 .. kern_len - 1 : mem[a] = Image(a)
    /\ step = "relocate" =>
        /\ rela # <<>> /\ relasz # <<>> /\ relasz[1] % 3 = 0 /\ 3 * (k - 1) <= relasz[1]
        /\ \A n \in Nat : n = k - 1 /\ Fixed => Relocated(n)
    /\ LoadsTheImage

-----------------------------------------------------------------------------
LEMMA FileIs ==
    ASSUME file \in Files
    PROVE  file.headers \in Seq(HeaderType) /\ file.words \in Seq(Nat)
  BY KernelAssumption

LEMMA Fields ==
    ASSUME NEW h \in HeaderType
    PROVE  h.offset \in Nat /\ h.vaddr \in Nat /\ h.filesz \in Nat /\ h.memsz \in Nat
  BY DEF HeaderType

LEMMA Elements ==
    ASSUME NEW S, NEW s \in Seq(S)
    PROVE  DOMAIN s = 1 .. Len(s) /\ Len(s) \in Nat /\ \A i \in 1 .. Len(s) : s[i] \in S
  OBVIOUS

(* What the file says does not change.                                     *)
LEMMA SameFile ==
    ASSUME file' = file
    PROVE  /\ LoadSegments' = LoadSegments
           /\ \A n : LoadsTo(n)' = LoadsTo(n)
           /\ \A a : Image(a)' = Image(a)
  <1>1. LoadSegments' = LoadSegments
    BY DEF LoadSegments
  <1>2. \A n : LoadsTo(n)' = LoadsTo(n)
    BY DEF LoadsTo
  <1>3. \A a : Image(a)' = Image(a)
    BY <1>1 DEF Image, Holding
  <1> QED
    BY <1>1, <1>2, <1>3

(* Nor do the relocations, once their table is known.                      *)
LEMMA SameTable ==
    ASSUME file' = file, rela' = rela, relasz' = relasz
    PROVE  /\ \A i : Reloc(i)' = Reloc(i)
           /\ \A n, a : RelocsTo(n, a)' = RelocsTo(n, a)
           /\ \A a : Relocs(a)' = Relocs(a)
           /\ Fixed' <=> Fixed
           /\ \A i : Image(Reloc(i) + 1)' = Image(Reloc(i) + 1)
           /\ \A n, a : WordAfter(n, a)' = WordAfter(n, a)
  <1>1. \A a : Image(a)' = Image(a)
    BY SameFile, Zenon
  <1>2. \A i : Reloc(i)' = Reloc(i)
    BY DEF Reloc
  <1>3. \A n, a : RelocsTo(n, a)' = RelocsTo(n, a)
    BY <1>1, <1>2, Zenon DEF RelocsTo
  <1>4. Applied' = Applied
    BY <1>1, <1>2 DEF Applied
  <1>5. \A a : Relocs(a)' = Relocs(a)
    BY <1>1, <1>2, <1>4 DEF Relocs
  <1>6. Table' = Table
    BY Zenon DEF Table
  <1>7. \A i : Image(Reloc(i) + 1)' = Image(Reloc(i) + 1)
    BY DEF Image, Holding, LoadSegments, Reloc
  <1>8. \A n, a : WordAfter(n, a)' = WordAfter(n, a)
    BY DEF WordAfter, Image, Holding, LoadSegments, Reloc, LastOf, RelocsTo
  <1> QED
    BY <1>2, <1>3, <1>5, <1>6, <1>7, <1>8, Zenon DEF Fixed

(* The steps that go wrong, or leave all but the position alone.           *)
LEMMA ImageError ==
    ASSUME ImageInv, Error
    PROVE  ImageInv'
  BY Zenon DEF ImageInv, ImageTypes, Error, parsed, Reading, Loaded, LoadsTheImage

LEMMA InitImage == ImageInit => ImageInv
  <1> SUFFICES ASSUME ImageInit PROVE ImageInv
    OBVIOUS
  <1>1. ImageTypes
    BY DEF ImageInit, ImageTypes, Reading, Loaded, Maybe
  <1>2. LoadsTo(k - 1) = {}
    <2>1. k = 1 /\ file.headers \in Seq(HeaderType)
      BY FileIs DEF ImageInit
    <2>2. \A j \in DOMAIN file.headers : ~(j <= k - 1)
      BY <2>1
    <2> QED
      BY <2>2, Zenon DEF LoadsTo
  <1>3. Range(segments) = {}
    BY DEF ImageInit, Range
  <1> QED
    BY <1>1, <1>2, <1>3, Zenon DEF ImageInit, ImageInv, Reading, Loaded, LoadsTheImage

-----------------------------------------------------------------------------
(* The headers.                                                            *)

LEMMA ImageOpens ==
    ASSUME ImageInv, OpenKernel
    PROVE  ImageInv'
  <1>1. CASE Error
    BY <1>1, ImageError
  <1>2. CASE ~Error
    <2>1. /\ step = "open" /\ step' = "headers" /\ k' = 1 /\ k = 1
          /\ UNCHANGED <<file, parsed, vm_page_size, kern_len, mem, rela, relasz>>
      BY <1>2, Zenon DEF OpenKernel, Goto, ImageInv
    <2>2. LoadsTo(k - 1)' = LoadsTo(k - 1)
      BY <2>1, Zenon DEF LoadsTo
    <2> QED
      BY <2>1, <2>2, Zenon DEF ImageInv, ImageTypes, parsed, Reading, Loaded, LoadsTheImage
  <1> QED
    BY <1>1, <1>2

LEMMA Appends ==
    ASSUME NEW S, NEW s \in Seq(S), NEW e \in S
    PROVE  /\ Append(s, e) \in Seq(S) /\ Range(Append(s, e)) = Range(s) \cup {e}
           /\ DOMAIN Append(s, e) = 1 .. Len(s) + 1
           /\ \A i \in DOMAIN Append(s, e) : (i \in DOMAIN s /\ Append(s, e)[i] = s[i]) \/ Append(s, e)[i] = e
  <1>1. /\ Append(s, e) \in Seq(S) /\ DOMAIN Append(s, e) = 1 .. Len(s) + 1
        /\ DOMAIN s = 1 .. Len(s) /\ Len(s) \in Nat
        /\ \A i \in 1 .. Len(s) : Append(s, e)[i] = s[i]
        /\ Append(s, e)[Len(s) + 1] = e
    OBVIOUS
  <1>2. \A i \in 1 .. Len(s) + 1 : i \in 1 .. Len(s) \/ i = Len(s) + 1
    BY <1>1
  <1>3. Range(Append(s, e)) = Range(s) \cup {e}
    <2>1. \A i \in 1 .. Len(s) : i \in 1 .. Len(s) + 1
      BY <1>1
    <2>2. Len(s) + 1 \in 1 .. Len(s) + 1
      BY <1>1
    <2> QED
      BY <1>1, <1>2, <2>1, <2>2, Zenon DEF Range
  <1> QED
    BY <1>1, <1>2, <1>3, Zenon

LEMMA NextLoads ==
    ASSUME file \in Files, k \in Nat \ {0}, k <= Len(file.headers)
    PROVE  /\ NextHeader \in HeaderType
           /\ NextHeader.type = "LOAD" => LoadsTo(k) = LoadsTo(k - 1) \cup {NextHeader}
           /\ NextHeader.type # "LOAD" => LoadsTo(k) = LoadsTo(k - 1)
  <1>1. file.headers \in Seq(HeaderType)
    BY FileIs
  <1>2. k \in DOMAIN file.headers /\ NextHeader \in HeaderType
    BY <1>1 DEF NextHeader
  <1>3. \A j \in DOMAIN file.headers : j <= k <=> j <= k - 1 \/ j = k
    BY <1>1
  <1>4. ~(k <= k - 1)
    OBVIOUS
  <1> QED
    BY <1>2, <1>3, <1>4, Zenon DEF LoadsTo, NextHeader

LEMMA ImageHeader ==
    ASSUME ImageInv, Header
    PROVE  ImageInv'
  <1>1. CASE Error
    BY <1>1, ImageError
  <1>2. CASE ~Error
    <2> DEFINE h == NextHeader
    <2>1. /\ step = "headers" /\ k <= Len(file.headers)
          /\ ~(h.type = "LOAD" /\ h.filesz > h.memsz)
          /\ segments' = IF h.type = "LOAD" THEN Append(segments, h) ELSE segments
          /\ dynamic' = IF h.type = "DYNAMIC" THEN <<h>> ELSE dynamic
          /\ k' = k + 1 /\ step' = step
          /\ UNCHANGED <<file, vm_page_size, kern_len, mem, rela, relasz>>
      BY <1>2, Zenon DEF Header, Loop
    <2>2. /\ file \in Files /\ k \in Nat \ {0} /\ segments \in Seq(HeaderType)
          /\ dynamic \in Maybe(HeaderType) /\ Range(segments) = LoadsTo(k - 1) /\ kern_len = 0
      BY <2>1, Zenon DEF ImageInv, ImageTypes, Reading
    <2>3. /\ h \in HeaderType
          /\ h.type = "LOAD" => LoadsTo(k) = LoadsTo(k - 1) \cup {h}
          /\ h.type # "LOAD" => LoadsTo(k) = LoadsTo(k - 1)
      BY <2>1, <2>2, NextLoads, Zenon
    <2> HIDE DEF h
    <2>4. /\ segments' \in Seq(HeaderType) /\ Range(segments') = LoadsTo(k)
          /\ \A i \in DOMAIN segments' : segments'[i].filesz <= segments'[i].memsz
      <3>1. CASE h.type = "LOAD"
        <4>1. segments' = Append(segments, h) /\ h.filesz <= h.memsz
          BY <2>1, <2>3, <3>1 DEF HeaderType
        <4>2. \A i \in DOMAIN segments : segments[i].filesz <= segments[i].memsz
          BY DEF ImageInv, ImageTypes
        <4>3. PICK t : t = segments'
          BY Zenon
        <4>4. /\ t \in Seq(HeaderType) /\ Range(t) = Range(segments) \cup {h}
              /\ \A i \in DOMAIN t : (i \in DOMAIN segments /\ t[i] = segments[i]) \/ t[i] = h
          <5>1. t = Append(segments, h) /\ segments \in Seq(HeaderType) /\ h \in HeaderType
            BY <2>2, <2>3, <4>1, <4>3, Zenon
          <5> QED
            BY ONLY <5>1, Appends
        <4>5. \A i \in DOMAIN t : t[i].filesz <= t[i].memsz
          BY <4>1, <4>2, <4>4, Zenon
        <4> QED
          BY <2>2, <2>3, <3>1, <4>3, <4>4, <4>5, Zenon
      <3>2. CASE h.type # "LOAD"
        BY <2>1, <2>2, <2>3, <3>2, Zenon DEF ImageInv, ImageTypes
      <3> QED
        BY <3>1, <3>2
    <2>5. dynamic' \in Maybe(HeaderType)
      BY <2>1, <2>2, <2>3, Zenon DEF Maybe
    <2>6. LoadsTo(k - 1)' = LoadsTo(k)
      <3>1. k' - 1 = k
        BY <2>1, <2>2
      <3> QED
        BY <2>1, <3>1, Zenon DEF LoadsTo
    <2>7. k' \in Nat \ {0} /\ step' = "headers"
      BY <2>1, <2>2
    <2>8. ImageTypes'
      BY <2>1, <2>4, <2>5, <2>7, Zenon DEF ImageInv, ImageTypes, Loaded, Reading
    <2> QED
      BY <2>1, <2>2, <2>4, <2>6, <2>7, <2>8, Zenon DEF ImageInv, Loaded, Reading, LoadsTheImage
  <1> QED
    BY <1>1, <1>2

(* Sorting keeps the segments.                                             *)
LEMMA Reordered ==
    ASSUME NEW S, NEW s \in Seq(S), NEW t \in Orders(s)
    PROVE  t \in Seq(S) /\ Range(t) = Range(s)
  <1>1. PICK p \in Bijection(DOMAIN s, DOMAIN s) : t = [i \in DOMAIN s |-> s[p[i]]]
    BY DEF Orders
  <1>2. p \in [DOMAIN s -> DOMAIN s] /\ \A j \in DOMAIN s : \E i \in DOMAIN s : p[i] = j
    BY <1>1 DEF Bijection, Injection, Surjection
  <1>3. DOMAIN s = 1 .. Len(s) /\ Len(s) \in Nat /\ \A j \in DOMAIN s : s[j] \in S
    OBVIOUS
  <1>4. t \in [1 .. Len(s) -> S]
    BY <1>1, <1>2, <1>3, Zenon
  <1>5. t \in Seq(S)
    BY <1>3, <1>4
  <1>6. DOMAIN t = DOMAIN s /\ \A i \in DOMAIN s : t[i] = s[p[i]]
    BY <1>1, Zenon
  <1>7. Range(t) = Range(s)
    BY <1>2, <1>6 DEF Range
  <1> QED
    BY <1>5, <1>7, Zenon

LEMMA ImageHeaders ==
    ASSUME ImageInv, HeadersEnd
    PROVE  ImageInv'
  <1>0. PICK t \in Orders(segments) :
          \/ Error
          \/ /\ dynamic # <<>> /\ segments' = t /\ Goto("notes")
             /\ UNCHANGED <<file, dynamic, note, vm_page_size, kern_len, mem, rela, relasz>>
    BY Zenon DEF HeadersEnd
  <1>1. CASE Error
    BY <1>1, ImageError, Zenon
  <1>2. CASE ~Error
    <2>1. /\ step = "headers" /\ ~(k <= Len(file.headers)) /\ dynamic # <<>> /\ segments' = t
          /\ step' = "notes" /\ k' = 1
          /\ UNCHANGED <<file, dynamic, note, vm_page_size, kern_len, mem, rela, relasz>>
      <3>1. k > Len(file.headers) <=> ~(k <= Len(file.headers))
        <4>1. k \in Nat /\ file.headers \in Seq(HeaderType)
          BY FileIs, Zenon DEF ImageInv, ImageTypes
        <4> QED
          BY ONLY <4>1
      <3> QED
        BY <1>0, <1>2, <3>1, Zenon DEF HeadersEnd, Goto
    <2>2. /\ file \in Files /\ k \in Nat \ {0} /\ segments \in Seq(HeaderType)
          /\ dynamic \in Maybe(HeaderType) /\ Range(segments) = LoadsTo(k - 1) /\ kern_len = 0
          /\ \A i \in DOMAIN segments : segments[i].filesz <= segments[i].memsz
      BY <2>1 DEF ImageInv, ImageTypes, Reading
    <2>3. t \in Seq(HeaderType) /\ Range(t) = Range(segments)
      BY <2>2, Reordered, Zenon
    <2>4. \A i \in DOMAIN t : t[i].filesz <= t[i].memsz
      BY <2>2, <2>3, Zenon DEF Range
    <2>5. LoadsTo(k - 1) = LoadSegments
      <3>1. file.headers \in Seq(HeaderType)
        BY <2>2, FileIs, Zenon
      <3>2. \A j \in DOMAIN file.headers : j <= k - 1
        BY <2>1, <2>2, <3>1
      <3> QED
        BY <3>2, Zenon DEF LoadsTo, LoadSegments, Range
    <2>6. Range(segments') = LoadSegments'
      BY <2>1, <2>2, <2>3, <2>5, SameFile, Zenon
    <2>7. ImageTypes'
      BY <2>1, <2>2, <2>3, <2>4 DEF ImageInv, ImageTypes, Loaded, Reading
    <2> QED
      BY <2>1, <2>2, <2>6, <2>7, Zenon DEF ImageInv, Loaded, Reading, LoadsTheImage
  <1> QED
    BY <1>1, <1>2

(* The notes leave the segments alone.                                     *)
LEMMA ImageNotes ==
    ASSUME ImageInv, Note \/ NotesEnd
    PROVE  ImageInv'
  <1>1. CASE Error
    BY <1>1, ImageError, Zenon
  <1>2. CASE ~Error
    <2>1. /\ step = "notes" /\ UNCHANGED <<file, parsed, kern_len, mem, rela, relasz>>
          /\ (step' = "notes" /\ k' = k + 1) \/ (step' = "length" /\ k' = 1)
      BY <1>2, Zenon DEF Note, NotesEnd, Loop, Goto
    <2>2. UNCHANGED <<segments, dynamic>> /\ k' \in Nat \ {0}
      <3>1. k \in Nat \ {0} /\ (k' = k + 1 \/ k' = 1)
        BY <2>1, Zenon DEF ImageInv, ImageTypes
      <3>2. k' \in Nat \ {0}
        BY ONLY <3>1
      <3>3. UNCHANGED <<segments, dynamic>>
        BY <2>1 DEF parsed
      <3> QED
        BY <3>2, <3>3, Zenon
    <2>3. LoadSegments' = LoadSegments
      BY <2>1, SameFile, Zenon
    <2>4. ImageTypes'
      BY <2>1, <2>2 DEF ImageInv, ImageTypes, Loaded, Reading
    <2>5. step' = "length" => k' <= Len(segments') + 1 /\ Measured(k - 1)'
      <3>1. Len(segments) \in Nat
        BY DEF ImageInv, ImageTypes
      <3> SUFFICES ASSUME step' = "length" PROVE k' <= Len(segments') + 1 /\ Measured(k - 1)'
        OBVIOUS
      <3>2. k' = 1 /\ segments' = segments
        BY <2>1, <2>2
      <3>3. \A i : i \notin 1 .. (k' - 1)
        BY <3>2
      <3> QED
        BY <3>1, <3>2, <3>3 DEF Measured
    <2> QED
      BY <2>1, <2>2, <2>3, <2>4, <2>5, Zenon DEF ImageInv, Loaded, Reading, LoadsTheImage
  <1> QED
    BY <1>1, <1>2

-----------------------------------------------------------------------------
(* The memory.                                                             *)

LEMMA ImageLength ==
    ASSUME ImageInv, Length
    PROVE  ImageInv'
  <1>1. CASE Error
    BY <1>1, ImageError
  <1>2. CASE ~Error
    <2>0. PICK h : h = segments[k]
      BY Zenon
    <2>1. /\ step = "length" /\ k <= Len(segments) /\ ~(h.vaddr < kern_len)
          /\ kern_len' = h.vaddr + h.memsz /\ k' = k + 1 /\ step' = step
          /\ UNCHANGED <<file, parsed, vm_page_size, mem, rela, relasz>>
      BY <1>2, <2>0, Zenon DEF Length, Loop, Overlaps
    <2>2. UNCHANGED <<segments, dynamic>>
      BY <2>1, Zenon DEF parsed
    <2>3. /\ k \in Nat \ {0} /\ segments \in Seq(HeaderType) /\ kern_len \in Nat /\ file \in Files
          /\ Measured(k - 1)
      BY <2>1 DEF ImageInv, ImageTypes
    <2>4. \A i \in 1 .. Len(segments) : segments[i].vaddr \in Nat /\ segments[i].memsz \in Nat
      <3>1. \A i \in 1 .. Len(segments) : segments[i] \in HeaderType
        BY <2>3, Elements, Zenon
      <3> QED
        BY <3>1, Fields, Zenon
    <2>5. /\ k \in 1 .. Len(segments) /\ h.vaddr \in Nat /\ h.memsz \in Nat
          /\ kern_len' \in Nat /\ kern_len <= h.vaddr /\ h.vaddr <= kern_len'
      <3>1. k \in 1 .. Len(segments)
        BY <2>1, <2>3
      <3>2. h.vaddr \in Nat /\ h.memsz \in Nat
        BY <2>0, <2>4, <3>1
      <3> QED
        BY <2>1, <2>3, <3>1, <3>2
    <2>6. /\ \A i \in 1 .. (k - 1) : End(segments[i]) \in Nat /\ End(segments[i]) <= kern_len
          /\ \A i, j \in 1 .. (k - 1) : i < j => End(segments[i]) <= segments[j].vaddr
          /\ End(segments[k]) = kern_len'
      <3>1. \A i \in 1 .. (k - 1) : i \in 1 .. Len(segments)
        BY <2>1, <2>3
      <3>2. \A i \in 1 .. (k - 1) : End(segments[i]) \in Nat
        BY <2>4, <3>1 DEF End
      <3>3. End(segments[k]) = kern_len'
        BY <2>0, <2>1, Zenon DEF End
      <3> QED
        BY <2>3, <3>2, <3>3, Zenon DEF Measured
    <2>7. \A i \in 1 .. (k' - 1) : i \in 1 .. (k - 1) \/ i = k
      BY <2>1, <2>3
    <2>8. Measured(k - 1)'
      <3>1. \A i \in 1 .. (k' - 1) : End(segments[i]) <= kern_len'
        BY <2>3, <2>5, <2>6, <2>7
      <3>2. \A i, j \in 1 .. (k' - 1) : i < j => End(segments[i]) <= segments[j].vaddr
        <4> SUFFICES ASSUME NEW i \in 1 .. (k' - 1), NEW j \in 1 .. (k' - 1), i < j
                     PROVE  End(segments[i]) <= segments[j].vaddr
          BY Zenon
        <4>1. i \in 1 .. (k - 1)
          BY <2>1, <2>3
        <4>2. CASE j = k
          BY <2>0, <2>3, <2>5, <2>6, <4>1, <4>2
        <4>3. CASE j \in 1 .. (k - 1)
          BY <2>6, <4>1, <4>3, Zenon
        <4> QED
          BY <2>7, <4>2, <4>3, Zenon
      <3> QED
        BY <2>2, <3>1, <3>2, Zenon DEF Measured, End
    <2>9. ImageTypes' /\ k' <= Len(segments') + 1
      BY <2>1, <2>2, <2>3, <2>5 DEF ImageInv, ImageTypes, Loaded, Reading
    <2>10. LoadSegments' = LoadSegments
      BY <2>1, SameFile, Zenon
    <2> QED
      BY <2>1, <2>2, <2>8, <2>9, <2>10, Zenon DEF ImageInv, Loaded, Reading, LoadsTheImage
  <1> QED
    BY <1>1, <1>2

(* At the end of a list.                                                   *)
LEMMA AtEnd ==
    ASSUME NEW n \in Nat, NEW i \in Nat \ {0}, i > n, i <= n + 1
    PROVE  i - 1 = n
  OBVIOUS

LEMMA ImageLengths ==
    ASSUME ImageInv, LengthEnd
    PROVE  ImageInv'
  <1>1. CASE Error
    BY <1>1, ImageError
  <1>2. CASE ~Error
    <2>1. /\ step = "length" /\ k > Len(segments) /\ step' = "copy" /\ k' = 1
          /\ mem' = [a \in 0 .. kern_len - 1 |-> 0]
          /\ UNCHANGED <<file, parsed, vm_page_size, kern_len, rela, relasz>>
      BY <1>2, Zenon DEF LengthEnd, Goto
    <2>2. UNCHANGED <<segments, dynamic>>
      BY <2>1, Zenon DEF parsed
    <2>3. /\ Len(segments) \in Nat /\ k \in Nat \ {0} /\ k <= Len(segments) + 1 /\ Measured(k - 1)
      BY <2>1 DEF ImageInv, ImageTypes
    <2>4. k - 1 = Len(segments)
      BY <2>1, <2>3, AtEnd, Zenon
    <2>5. Measured(Len(segments))
      BY <2>3, <2>4
    <2>6. Measured(Len(segments))'
      BY <2>1, <2>2, <2>5, Zenon DEF Measured
    <2>7. ImageTypes' /\ k' <= Len(segments') + 1
      BY <2>1, <2>2, <2>3 DEF ImageInv, ImageTypes, Loaded, Reading
    <2>8. Copied(k - 1)'
      <3>1. \A i : i \notin 1 .. (k' - 1)
        BY <2>1
      <3>2. \A a \in 0 .. kern_len' - 1 : mem'[a] = 0
        BY <2>1, Zenon
      <3> QED
        BY <3>1, <3>2, Zenon DEF Copied
    <2>9. LoadSegments' = LoadSegments
      BY <2>1, SameFile
    <2> QED
      BY <2>1, <2>2, <2>6, <2>7, <2>8, <2>9, Zenon DEF ImageInv, Loaded, Reading, LoadsTheImage
  <1> QED
    BY <1>1, <1>2

(* A word of a segment in the file is of no other segment.                 *)
LEMMA SpansApart ==
    ASSUME ImageTypes, Measured(Len(segments))
    PROVE  /\ \A i, j \in DOMAIN segments : i # j =>
                 Span(segments[i]) \cap Span(segments[j]) = {}
           /\ \A i \in DOMAIN segments :
                 FileSpan(segments[i]) \subseteq Span(segments[i]) /\ Span(segments[i]) \subseteq 0 .. kern_len - 1
  <1>1. /\ DOMAIN segments = 1 .. Len(segments) /\ Len(segments) \in Nat /\ kern_len \in Nat
        /\ \A i \in DOMAIN segments : /\ segments[i].vaddr \in Nat /\ segments[i].memsz \in Nat
                                      /\ segments[i].filesz \in Nat
                                      /\ segments[i].filesz <= segments[i].memsz
    <2>1. /\ segments \in Seq(HeaderType) /\ kern_len \in Nat
          /\ \A i \in DOMAIN segments : segments[i].filesz <= segments[i].memsz
      BY Zenon DEF ImageTypes
    <2>2. /\ DOMAIN segments = 1 .. Len(segments) /\ Len(segments) \in Nat
          /\ \A i \in 1 .. Len(segments) : segments[i] \in HeaderType
      BY <2>1, Elements, Zenon
    <2> QED
      BY <2>1, <2>2, Fields, Zenon
  <1>2. \A i \in DOMAIN segments : FileSpan(segments[i]) \subseteq Span(segments[i])
    BY <1>1 DEF FileSpan, Span
  <1>3. \A i \in DOMAIN segments : Span(segments[i]) \subseteq 0 .. kern_len - 1
    BY <1>1 DEF Span, Measured, End
  <1>4. ASSUME NEW i \in DOMAIN segments, NEW j \in DOMAIN segments, i < j
        PROVE  Span(segments[i]) \cap Span(segments[j]) = {}
    <2>1. segments[i].vaddr + segments[i].memsz <= segments[j].vaddr
      BY <1>1, <1>4, Zenon DEF Measured, End
    <2> QED
      BY <1>1, <2>1 DEF Span
  <1>5. \A i, j \in DOMAIN segments : i # j => i < j \/ j < i
    BY <1>1
  <1> QED
    BY <1>2, <1>3, <1>4, <1>5, Zenon

LEMMA ImageCopies ==
    ASSUME ImageInv, Copy
    PROVE  ImageInv'
  <1>1. CASE Error
    BY <1>1, ImageError
  <1>2. CASE ~Error
    <2>0. PICK h : h = segments[k]
      BY Zenon
    <2>1. /\ step = "copy" /\ k <= Len(segments) /\ InFile(h) = 0 .. h.filesz - 1
          /\ mem' = [a \in DOMAIN mem |->
                       IF a \in FileSpan(h) THEN file.words[h.offset + (a - h.vaddr) + 1] ELSE mem[a]]
          /\ k' = k + 1 /\ step' = step
          /\ UNCHANGED <<file, parsed, vm_page_size, kern_len, rela, relasz>>
      BY <1>2, <2>0, Zenon DEF Copy, Loop
    <2>2. UNCHANGED <<segments, dynamic>>
      BY <2>1 DEF parsed
    <2>3. /\ k \in Nat \ {0} /\ segments \in Seq(HeaderType) /\ kern_len \in Nat /\ file \in Files
          /\ Copied(k - 1) /\ Measured(Len(segments)) /\ mem \in [0 .. kern_len - 1 -> Nat]
          /\ file.words \in Seq(Nat) /\ ImageTypes
      BY <2>1, FileIs, Zenon DEF ImageInv, ImageTypes, Loaded
    <2>4. k \in DOMAIN segments /\ h \in HeaderType
      <3>1. /\ k \in Nat \ {0} /\ k <= Len(segments) /\ segments \in Seq(HeaderType)
            /\ h = segments[k]
        BY <2>0, <2>1, <2>3, Zenon
      <3> QED
        BY ONLY <3>1
    <2>5. \A a \in FileSpan(h) : file.words[h.offset + (a - h.vaddr) + 1] \in Nat
      <3> SUFFICES ASSUME NEW a \in FileSpan(h)
                   PROVE  file.words[h.offset + (a - h.vaddr) + 1] \in Nat
        BY Zenon
      <3>1. PICK i : i = a - h.vaddr
        BY Zenon
      <3>2. h.vaddr \in Nat /\ h.filesz \in Nat /\ h.offset \in Nat
        BY <2>4 DEF HeaderType
      <3>3. i \in 0 .. h.filesz - 1
        BY <3>1, <3>2 DEF FileSpan
      <3>4. i \in InFile(h)
        BY <2>1, <3>3, Zenon
      <3>5. h.offset + i < Len(file.words)
        BY <3>4, Zenon DEF InFile
      <3>6. h.offset + i + 1 \in 1 .. Len(file.words)
        <4>1. PICK o, n, z : o = h.offset /\ n = Len(file.words) /\ z = h.filesz
          BY Zenon
        <4>2. o \in Nat /\ z \in Nat /\ n \in Nat /\ i \in 0 .. z - 1 /\ o + i < n
          BY <2>3, <3>2, <3>3, <3>5, <4>1, Elements, Zenon
        <4>3. o + i + 1 \in 1 .. n
          BY ONLY <4>2
        <4> QED
          BY <4>1, <4>3, Zenon
      <3>7. file.words[h.offset + i + 1] \in Nat
        BY <2>3, <3>6
      <3> QED
        BY <3>1, <3>7, Zenon
    <2>6. /\ mem' \in [0 .. kern_len - 1 -> Nat]
          /\ \A a \in 0 .. kern_len - 1 :
                /\ a \in FileSpan(h) => mem'[a] = file.words[h.offset + (a - h.vaddr) + 1]
                /\ a \notin FileSpan(h) => mem'[a] = mem[a]
      BY <2>1, <2>3, <2>5, Zenon
    <2>7. \A i \in 1 .. (k' - 1) : i \in 1 .. (k - 1) \/ i = k
      BY <2>1, <2>3
    <2>8. k \in 1 .. (k' - 1) /\ \A i \in 1 .. (k - 1) : i \in 1 .. (k' - 1) /\ i \in DOMAIN segments /\ i # k
      BY <2>1, <2>3
    <2>9. Copied(k - 1)'
      <3> SUFFICES ASSUME NEW a \in 0 .. kern_len - 1
                   PROVE  /\ \A i \in 1 .. (k' - 1) : a \in FileSpan(segments[i]) =>
                               mem'[a] = file.words[segments[i].offset + (a - segments[i].vaddr) + 1]
                          /\ (\A i \in 1 .. (k' - 1) : a \notin FileSpan(segments[i])) => mem'[a] = 0
        <4>1. kern_len' = kern_len /\ file' = file /\ segments' = segments
          BY <2>1, <2>2, Zenon
        <4> QED
          BY <4>1, Zenon DEF Copied, FileSpan
      <3>1. ASSUME NEW i \in 1 .. (k' - 1), a \in FileSpan(segments[i])
            PROVE  mem'[a] = file.words[segments[i].offset + (a - segments[i].vaddr) + 1]
        <4>1. CASE i = k
          BY <2>0, <2>6, <3>1, <4>1, Zenon
        <4>2. CASE i \in 1 .. (k - 1)
          <5>1. a \notin FileSpan(h)
            BY <2>0, <2>3, <2>4, <2>8, <3>1, <4>2, SpansApart, Zenon
          <5> QED
            BY <2>3, <2>6, <3>1, <4>2, <5>1, Zenon DEF Copied
        <4> QED
          BY <2>7, <4>1, <4>2, Zenon
      <3>2. ASSUME \A i \in 1 .. (k' - 1) : a \notin FileSpan(segments[i])
            PROVE  mem'[a] = 0
        BY <2>0, <2>3, <2>6, <2>8, <3>2, Zenon DEF Copied
      <3> QED
        BY <3>1, <3>2, Zenon
    <2>10. Measured(Len(segments))'
      BY <2>1, <2>2, <2>3, Zenon DEF Measured
    <2>11. ImageTypes' /\ k' <= Len(segments') + 1
      <3>1. /\ k \in Nat \ {0} /\ k' = k + 1 /\ k <= Len(segments) /\ segments' = segments
            /\ segments \in Seq(HeaderType)
        BY <2>1, <2>2, <2>3, Zenon
      <3>2. k' \in Nat \ {0} /\ k' <= Len(segments') + 1
        BY ONLY <3>1
      <3> QED
        BY <2>1, <2>2, <2>3, <2>6, <3>2, Zenon DEF ImageTypes
    <2>12. LoadSegments' = LoadSegments
      BY <2>1, SameFile, Zenon
    <2> QED
      BY <2>1, <2>2, <2>9, <2>10, <2>11, <2>12, Zenon DEF ImageInv, Loaded, Reading, LoadsTheImage
  <1> QED
    BY <1>1, <1>2

-----------------------------------------------------------------------------
(* The dynamic table.                                                      *)

LEMMA Some ==
    ASSUME NEW S, NEW s \in Maybe(S)
    PROVE  s = <<>> \/ (s # <<>> /\ Len(s) = 1 /\ s[1] \in S)
  BY DEF Maybe

LEMMA One ==
    ASSUME NEW S, NEW x \in S
    PROVE  <<x>> \in Maybe(S)
  BY DEF Maybe

(* When all segments are copied, the memory is the image.                  *)
LEMMA CopiedImage ==
    ASSUME ImageTypes, Range(segments) = LoadSegments, Copied(Len(segments))
    PROVE  \A a \in 0 .. kern_len - 1 : mem[a] = Image(a)
  <1> SUFFICES ASSUME NEW a \in 0 .. kern_len - 1 PROVE mem[a] = Image(a)
    OBVIOUS
  <1>1. DOMAIN segments = 1 .. Len(segments)
    BY Elements, Zenon DEF ImageTypes
  <1>2. CASE Holding(a) = {}
    <2>1. \A i \in 1 .. Len(segments) : a \notin FileSpan(segments[i])
      BY <1>1, <1>2, Zenon DEF Holding, Range
    <2> QED
      BY <1>2, <2>1, Zenon DEF Copied, Image
  <1>3. CASE Holding(a) # {}
    <2>1. PICK h : h = CHOOSE g \in Holding(a) : TRUE
      BY Zenon
    <2>2. h \in Holding(a)
      BY <1>3, <2>1, Zenon
    <2>3. PICK i \in 1 .. Len(segments) : h = segments[i]
      BY <1>1, <2>2, Zenon DEF Holding, Range
    <2>4. mem[a] = file.words[h.offset + (a - h.vaddr) + 1]
      BY <2>2, <2>3, Zenon DEF Copied, Holding
    <2> QED
      BY <1>3, <2>1, <2>4, Zenon DEF Image
  <1> QED
    BY <1>2, <1>3, Zenon

LEMMA ImageCopied ==
    ASSUME ImageInv, CopyEnd
    PROVE  ImageInv'
  <1>1. CASE Error
    BY <1>1, ImageError
  <1>2. CASE ~Error
    <2>1. /\ step = "copy" /\ k > Len(segments) /\ ~(dynamic[1].vaddr + dynamic[1].memsz > kern_len)
          /\ step' = "dynamic" /\ k' = 1
          /\ UNCHANGED <<file, parsed, vm_page_size, kern_len, mem, rela, relasz>>
      BY <1>2, Zenon DEF CopyEnd, Goto
    <2>2. UNCHANGED <<segments, dynamic>>
      BY <2>1, Zenon DEF parsed
    <2>3. /\ ImageTypes /\ Len(segments) \in Nat /\ k \in Nat \ {0} /\ k <= Len(segments) + 1
          /\ Copied(k - 1) /\ Measured(Len(segments)) /\ Range(segments) = LoadSegments
          /\ dynamic \in Maybe(HeaderType) /\ dynamic # <<>> /\ kern_len \in Nat
      <3>1. segments \in Seq(HeaderType)
        BY Zenon DEF ImageInv, ImageTypes
      <3>2. Len(segments) \in Nat
        BY ONLY <3>1
      <3> QED
        BY <2>1, <3>2, Zenon DEF ImageInv, ImageTypes, Loaded
    <2>4. k - 1 = Len(segments)
      BY <2>1, <2>3, AtEnd, Zenon
    <2>5. \A a \in 0 .. kern_len - 1 : mem[a] = Image(a)
      BY <2>3, <2>4, CopiedImage, Zenon
    <2>6. End(dynamic[1]) <= kern_len
      <3>1. dynamic[1] \in HeaderType
        BY <2>3, Some, Zenon
      <3>2. dynamic[1].vaddr \in Nat /\ dynamic[1].memsz \in Nat
        BY <3>1, Fields, Zenon
      <3> QED
        BY <2>1, <2>3, <3>2 DEF End
    <2>7. Measured(Len(segments))'
      BY <2>1, <2>2, <2>3, Zenon DEF Measured
    <2>8. ImageTypes'
      BY <2>1, <2>2, <2>3 DEF ImageTypes, Loaded, Reading
    <2>9. LoadSegments' = LoadSegments /\ \A a : Image(a)' = Image(a)
      BY <2>1, SameFile, Zenon
    <2>10. (End(dynamic[1]) <= kern_len)' /\ \A a \in 0 .. kern_len' - 1 : mem'[a] = Image(a)'
      BY <2>1, <2>2, <2>5, <2>6, <2>9, Zenon DEF End
    <2> QED
      BY <2>1, <2>2, <2>3, <2>7, <2>8, <2>9, <2>10, Zenon DEF ImageInv, Loaded, Reading, LoadsTheImage
  <1> QED
    BY <1>1, <1>2

LEMMA ImageDynamic ==
    ASSUME ImageInv, Dynamic
    PROVE  ImageInv'
  <1>1. /\ step = "dynamic" /\ 2 * k <= dynamic[1].memsz /\ step' = step /\ k' = k + 1
        /\ rela' = IF mem[Entry(k)] = DT_RELA THEN <<mem[Entry(k) + 1]>> ELSE rela
        /\ relasz' = IF mem[Entry(k)] = DT_RELASZ THEN <<mem[Entry(k) + 1]>> ELSE relasz
        /\ UNCHANGED <<file, parsed, vm_page_size, kern_len, mem>>
    BY Zenon DEF Dynamic, MoreTags, Loop
  <1>2. UNCHANGED <<segments, dynamic>>
    BY <1>1 DEF parsed
  <1>3. /\ ImageTypes /\ k \in Nat \ {0} /\ kern_len \in Nat /\ mem \in [0 .. kern_len - 1 -> Nat]
        /\ rela \in Maybe(Nat) /\ relasz \in Maybe(Nat)
        /\ Measured(Len(segments)) /\ Range(segments) = LoadSegments
        /\ dynamic \in Maybe(HeaderType) /\ dynamic # <<>> /\ End(dynamic[1]) <= kern_len
        /\ \A a \in 0 .. kern_len - 1 : mem[a] = Image(a)
    BY <1>1, Zenon DEF ImageInv, ImageTypes, Loaded
  <1>4. mem[Entry(k) + 1] \in Nat
    <2>1. dynamic[1] \in HeaderType
      BY <1>3, Some, Zenon
    <2>2. PICK v, n : v = dynamic[1].vaddr /\ n = dynamic[1].memsz
      BY Zenon
    <2>3. v \in Nat /\ n \in Nat /\ 2 * k <= n /\ v + n <= kern_len /\ Entry(k) = v + 2 * (k - 1)
      BY <1>1, <1>3, <2>1, <2>2, Fields, Zenon DEF End, Entry
    <2>4. Entry(k) + 1 \in 0 .. kern_len - 1
      BY <1>3, <2>3
    <2> QED
      BY <1>3, <2>4
  <1>5. rela' \in Maybe(Nat) /\ relasz' \in Maybe(Nat)
    BY <1>1, <1>3, <1>4, One, Zenon
  <1>6. ImageTypes'
    BY <1>1, <1>2, <1>3, <1>5 DEF ImageTypes, Loaded, Reading
  <1>7. LoadSegments' = LoadSegments /\ \A a : Image(a)' = Image(a)
    BY <1>1, SameFile, Zenon
  <1>8. Measured(Len(segments))' /\ (End(dynamic[1]) <= kern_len)'
    BY <1>1, <1>2, <1>3, Zenon DEF Measured, End
  <1>9. \A a \in 0 .. kern_len' - 1 : mem'[a] = Image(a)'
    BY <1>1, <1>3, <1>7, Zenon
  <1> QED
    BY <1>1, <1>2, <1>3, <1>6, <1>7, <1>8, <1>9, Zenon DEF ImageInv, Loaded, Reading, LoadsTheImage

-----------------------------------------------------------------------------
(* The relocations.                                                        *)

(* What LoadsTheImage says of a kernel that is loaded.                     *)
Final == \A a \in DOMAIN mem :
    mem[a] = IF Relocs(a) = {} THEN Image(a)
             ELSE (KernVaddr + Image(Reloc(LastOf(Relocs(a))) + 2)) % Word

LEMMA SameFinal ==
    ASSUME file' = file, mem' = mem, rela' = rela, relasz' = relasz
    PROVE  Final' <=> Final
  <1>1. \A a : Image(Reloc(LastOf(Relocs(a))) + 2)' = Image(Reloc(LastOf(Relocs(a))) + 2)
    BY SMTT(30) DEF Image, Holding, LoadSegments, Reloc, LastOf, Relocs, Applied
  <1>2. \A a : Image(a)' = Image(a) /\ Relocs(a)' = Relocs(a)
    BY SameFile, SameTable, Zenon
  <1> QED
    BY <1>1, <1>2, Zenon DEF Final

(* The end, in a step that changes the position only.                      *)
LEMMA ImageEnds ==
    ASSUME ImageInv, step \in Loaded, step' = "done", k' \in Nat \ {0}, Fixed => Final,
           UNCHANGED <<file, parsed, vm_page_size, kern_len, mem, rela, relasz>>
    PROVE  ImageInv'
  <1>1. UNCHANGED <<segments, dynamic>>
    BY Zenon DEF parsed
  <1>2. /\ ImageTypes /\ mem \in [0 .. kern_len - 1 -> Nat]
        /\ Measured(Len(segments)) /\ Range(segments) = LoadSegments /\ dynamic # <<>>
    BY Zenon DEF ImageInv, ImageTypes, Loaded
  <1>3. ImageTypes' /\ Measured(Len(segments))'
    BY <1>1, <1>2 DEF ImageTypes, Loaded, Reading, Measured
  <1>4. LoadSegments' = LoadSegments /\ \A a : Image(a)' = Image(a)
    BY SameFile, Zenon
  <1>5. \A h \in LoadSegments : \E i \in DOMAIN segments : h = segments[i]
    BY <1>2, Zenon DEF Range
  <1>6. \A g, h \in LoadSegments : g # h => Span(g) \cap Span(h) = {}
    BY <1>2, <1>5, SpansApart, Zenon
  <1>7. DOMAIN mem = 0 .. kern_len - 1
    BY <1>2
  <1>8. \A h \in LoadSegments : Span(h) \subseteq DOMAIN mem
    BY <1>2, <1>5, <1>7, SpansApart, Zenon
  <1>9. Fixed' <=> Fixed
    BY SameTable, Zenon
  <1>11. Fixed' => Final'
    BY <1>9, SameFinal, Zenon
  <1>12. /\ \A g, h \in LoadSegments' : g # h => Span(g) \cap Span(h) = {}
         /\ DOMAIN mem' = 0 .. kern_len' - 1
         /\ \A h \in LoadSegments' : Span(h) \subseteq DOMAIN mem'
    BY <1>4, <1>6, <1>7, <1>8, Zenon
  <1>13. LoadsTheImage'
    BY <1>11, <1>12, Zenon DEF LoadsTheImage, Final, Fixed
  <1> QED
    BY <1>1, <1>2, <1>3, <1>4, <1>13, Zenon DEF ImageInv, Loaded, Reading

LEMMA ImageTagged ==
    ASSUME ImageInv, DynamicEnd
    PROVE  ImageInv'
  <1>1. CASE Error
    BY <1>1, ImageError
  <1>2. CASE ~Error
    <2>1. /\ step = "dynamic" /\ Len(rela) = Len(relasz) /\ ~(relasz # <<>> /\ relasz[1] % 3 # 0)
          /\ step' = (IF rela = <<>> THEN "done" ELSE "relocate") /\ k' = 1
          /\ UNCHANGED <<file, parsed, vm_page_size, kern_len, mem, rela, relasz>>
      BY <1>2, Zenon DEF DynamicEnd, Goto
    <2>2. UNCHANGED <<segments, dynamic>>
      BY <2>1, Zenon DEF parsed
    <2>3. /\ ImageTypes /\ kern_len \in Nat /\ mem \in [0 .. kern_len - 1 -> Nat]
          /\ rela \in Maybe(Nat) /\ relasz \in Maybe(Nat)
          /\ Measured(Len(segments)) /\ Range(segments) = LoadSegments /\ dynamic # <<>>
          /\ \A a \in 0 .. kern_len - 1 : mem[a] = Image(a)
      BY <2>1, Zenon DEF ImageInv, ImageTypes, Loaded
    <2>4. CASE rela = <<>>
      <3>1. Applied = {}
        BY <2>4 DEF Applied
      <3>2. \A a : Relocs(a) = {}
        BY <3>1, Zenon DEF Relocs
      <3>3. DOMAIN mem = 0 .. kern_len - 1
        BY <2>3
      <3>4. Final
        BY <2>3, <3>2, <3>3, Zenon DEF Final
      <3>5. step' = "done" /\ step \in Loaded /\ k' \in Nat \ {0}
        BY <2>1, <2>4 DEF Loaded
      <3> QED
        BY <2>1, <3>4, <3>5, ImageEnds, Zenon
    <2>5. CASE rela # <<>>
      <3>1. Len(rela) = 1 /\ (relasz = <<>> \/ (relasz # <<>> /\ relasz[1] \in Nat))
        BY <2>3, <2>5, Some, Zenon
      <3>2. relasz # <<>> /\ relasz[1] \in Nat /\ relasz[1] % 3 = 0
        <4>1. Len(<<>>) # 1
          OBVIOUS
        <4> QED
          BY <2>1, <3>1, <4>1, Zenon
      <3>3. 3 * (k' - 1) <= relasz[1]
        <4>1. k' = 1
          BY <2>1
        <4> QED
          BY <3>2, <4>1
      <3>4. ASSUME NEW n \in Nat, n = k' - 1 PROVE Relocated(n)'
        <4>1. \A i : i \notin 1 .. n
          BY <2>1, <3>4
        <4>2. \A a : WordAfter(n, a) = Image(a)
          BY <4>1, Zenon DEF WordAfter, RelocsTo
        <4>3. \A a : Image(a)' = Image(a) /\ WordAfter(n, a)' = WordAfter(n, a)
          BY <2>1, SameFile, SameTable, Zenon
        <4>4. \A a \in 0 .. kern_len' - 1 : mem'[a] = WordAfter(n, a)'
          BY <2>1, <2>3, <4>2, <4>3, Zenon
        <4> QED
          BY <4>1, <4>4, Zenon DEF Relocated
      <3>8. Measured(Len(segments))'
        BY <2>1, <2>2, <2>3, Zenon DEF Measured
      <3>9. ImageTypes'
        BY <2>1, <2>2, <2>3 DEF ImageTypes, Loaded, Reading
      <3>10. step' = "relocate" /\ rela' # <<>> /\ relasz' # <<>> /\ relasz'[1] % 3 = 0
             /\ 3 * (k' - 1) <= relasz'[1] /\ LoadSegments' = LoadSegments
        BY <2>1, <2>5, <3>2, <3>3, SameFile, Zenon
      <3> QED
        BY <2>2, <2>3, <3>4, <3>8, <3>9, <3>10, Zenon DEF ImageInv, Loaded, Reading, LoadsTheImage
    <2> QED
      BY <2>4, <2>5
  <1> QED
    BY <1>1, <1>2

(* A relocation lies in the table.                                         *)
LEMMA InTable ==
    ASSUME rela # <<>>, rela[1] \in Nat, relasz[1] \in Nat, NEW i \in Nat \ {0}, 3 * i <= relasz[1]
    PROVE  /\ Reloc(i) \in Nat
           /\ Reloc(i) \in Table /\ Reloc(i) + 1 \in Table /\ Reloc(i) + 2 \in Table
  <1>1. PICK r, z : r = rela[1] /\ z = relasz[1]
    BY Zenon
  <1>2. r \in Nat /\ z \in Nat /\ 3 * i <= z
    BY <1>1
  <1>3. PICK t : t = r + 3 * (i - 1)
    BY Zenon
  <1>4. t \in Nat /\ t \in r .. r + z - 1 /\ t + 1 \in r .. r + z - 1 /\ t + 2 \in r .. r + z - 1
    BY ONLY <1>2, <1>3, i \in Nat \ {0}
  <1>5. Table = r .. r + z - 1 /\ Reloc(i) = t
    BY <1>1, <1>3, Zenon DEF Table, Reloc
  <1> QED
    BY <1>4, <1>5, Zenon

(* The relocations that are done are among those of the table, and are all *)
(* of them when the table ends.                                            *)
LEMMA DoneSoFar ==
    ASSUME rela # <<>>, rela[1] \in Nat, relasz[1] \in Nat, NEW n \in Nat, 3 * n <= relasz[1],
           \A i \in 1 .. n : Image(Reloc(i) + 1) # R_NONE
    PROVE  /\ \A a : RelocsTo(n, a) \subseteq Relocs(a)
           /\ 3 * (n + 1) > relasz[1] \/ Image(Reloc(n + 1) + 1) = R_NONE =>
                 \A a : Relocs(a) = RelocsTo(n, a)
  <1>1. PICK z, m : z = relasz[1] /\ m = z \div 3
    BY Zenon
  <1>2. z \in Nat /\ m \in Nat /\ 3 * n <= z /\ \A i \in Nat : 3 * i <= z <=> i <= m
    BY <1>1
  <1>3. Applied = {i \in 1 .. m : \A j \in 1 .. i : Image(Reloc(j) + 1) # R_NONE}
    BY <1>1, Zenon DEF Applied
  <1>4. \A i \in 1 .. n : i \in 1 .. m /\ \A j \in 1 .. i : j \in 1 .. n
    BY <1>2
  <1>5. \A i \in 1 .. n : i \in Applied
    BY <1>3, <1>4, Zenon
  <1>6. \A a : RelocsTo(n, a) \subseteq Relocs(a)
    BY <1>5, Zenon DEF RelocsTo, Relocs
  <1>7. ASSUME 3 * (n + 1) > relasz[1] \/ Image(Reloc(n + 1) + 1) = R_NONE
        PROVE  \A i \in Applied : i \in 1 .. n
    <2> SUFFICES ASSUME NEW i \in Applied, i \notin 1 .. n PROVE FALSE
      OBVIOUS
    <2>1. i \in 1 .. m /\ \A j \in 1 .. i : Image(Reloc(j) + 1) # R_NONE
      BY <1>3, Zenon
    <2>2. n + 1 \in 1 .. i /\ n + 1 <= m
      BY <1>2, <2>1
    <2>3. ~(3 * (n + 1) > z)
      BY <1>2, <2>2
    <2> QED
      BY <1>1, <1>7, <2>1, <2>2, <2>3, Zenon
  <1> QED
    BY <1>6, <1>7, Zenon DEF RelocsTo, Relocs

LEMMA LastIs ==
    ASSUME NEW S, NEW i \in Nat, i \in S, S \subseteq 1 .. i
    PROVE  LastOf(S) = i
  <1>1. \A j \in S : j <= i
    OBVIOUS
  <1>2. \A x \in S : (\A j \in S : j <= x) => x = i
    OBVIOUS
  <1>3. PICK x : x = LastOf(S)
    BY Zenon
  <1>4. x \in S /\ \A j \in S : j <= x
    BY <1>1, <1>3, Zenon DEF LastOf
  <1> QED
    BY <1>2, <1>3, <1>4, Zenon

(* One more relocation.                                                    *)
LEMMA NextReloc ==
    ASSUME NEW n \in Nat \ {0}, NEW a
    PROVE  /\ Image(Reloc(n) + 1) = R_RELATIVE /\ Image(Reloc(n)) = a =>
                 n \in RelocsTo(n, a) /\ LastOf(RelocsTo(n, a)) = n
           /\ ~(Image(Reloc(n) + 1) = R_RELATIVE /\ Image(Reloc(n)) = a) =>
                 RelocsTo(n, a) = RelocsTo(n - 1, a)
  <1>1. n \in 1 .. n /\ \A i \in 1 .. n : i \in 1 .. (n - 1) \/ i = n
    OBVIOUS
  <1>2. \A i \in 1 .. (n - 1) : i \in 1 .. n
    OBVIOUS
  <1>3. RelocsTo(n, a) \subseteq 1 .. n
    BY Zenon DEF RelocsTo
  <1>4. Image(Reloc(n) + 1) = R_RELATIVE /\ Image(Reloc(n)) = a => n \in RelocsTo(n, a)
    BY <1>1, Zenon DEF RelocsTo
  <1>5. ~(Image(Reloc(n) + 1) = R_RELATIVE /\ Image(Reloc(n)) = a) =>
          RelocsTo(n, a) = RelocsTo(n - 1, a)
    BY <1>1, <1>2, Zenon DEF RelocsTo
  <1> QED
    BY <1>3, <1>4, <1>5, LastIs, Zenon

LEMMA ImageRelocates ==
    ASSUME ImageInv, Relocate
    PROVE  ImageInv'
  <1>1. CASE Error
    BY <1>1, ImageError
  <1>0. PICK r, n : r = Reloc(k) /\ n = k - 1
    BY Zenon
  <1>2. /\ step = "relocate" /\ 3 * k <= relasz[1]
        /\ \/ Error
           \/ /\ ~(r + 3 > kern_len) /\ mem[r + 1] = R_NONE /\ step' = "done" /\ k' = k
              /\ UNCHANGED <<file, parsed, vm_page_size, kern_len, mem, rela, relasz>>
           \/ /\ ~(r + 3 > kern_len) /\ mem[r + 1] # R_NONE
              /\ ~(mem[r + 1] = R_RELATIVE /\ mem[r] >= kern_len)
              /\ mem' = IF mem[r + 1] = R_RELATIVE
                        THEN [mem EXCEPT ![mem[r]] = (KernVaddr + mem[r + 2]) % Word] ELSE mem
              /\ k' = k + 1 /\ step' = step
              /\ UNCHANGED <<file, parsed, vm_page_size, kern_len, rela, relasz>>
    BY <1>0, Zenon DEF Relocate, MoreRelocs, Loop
  <1>3. /\ ImageTypes /\ k \in Nat \ {0} /\ kern_len \in Nat /\ mem \in [0 .. kern_len - 1 -> Nat]
        /\ rela # <<>> /\ relasz # <<>> /\ relasz[1] % 3 = 0
        /\ rela \in Maybe(Nat) /\ relasz \in Maybe(Nat)
        /\ Measured(Len(segments)) /\ Range(segments) = LoadSegments /\ dynamic # <<>>
        /\ \A m \in Nat : m = k - 1 /\ Fixed => Relocated(m)
    BY <1>2, Zenon DEF ImageInv, ImageTypes, Loaded
  <1>4. rela[1] \in Nat /\ relasz[1] \in Nat
    BY <1>3, Some, Zenon
  <1>5. /\ r \in Nat /\ r \in Table /\ r + 1 \in Table /\ r + 2 \in Table
    BY <1>0, <1>2, <1>3, <1>4, InTable, Zenon
  <1>6. n \in Nat /\ n + 1 = k /\ 3 * n <= relasz[1]
    BY <1>0, <1>2, <1>3, <1>4
  <1>7. ASSUME ~(r + 3 > kern_len) PROVE r \in 0 .. kern_len - 1 /\ r + 1 \in 0 .. kern_len - 1 /\ r + 2 \in 0 .. kern_len - 1
    BY <1>3, <1>5, <1>7
  <1>8. ASSUME Fixed PROVE Relocated(n) /\ \A a : RelocsTo(n, a) \subseteq Relocs(a)
    <2>1. Relocated(n)
      BY <1>0, <1>3, <1>6, <1>8, Zenon
    <2> QED
      BY <1>3, <1>4, <1>6, <2>1, DoneSoFar, Zenon DEF Relocated
  <1>9. ASSUME Fixed, ~(r + 3 > kern_len)
        PROVE  mem[r] = Image(r) /\ mem[r + 1] = Image(r + 1) /\ mem[r + 2] = Image(r + 2)
    <2>1. \A a \in Table : RelocsTo(n, a) = {}
      BY <1>8, <1>9 DEF Fixed
    <2>2. \A a \in Table : a \in 0 .. kern_len - 1 => mem[a] = Image(a)
      BY <1>8, <1>9, <2>1, Zenon DEF Relocated, WordAfter
    <2> QED
      BY <1>5, <1>7, <1>9, <2>2, Zenon
  <1>10. CASE step' = "done" /\ ~Error
    <2>1. /\ ~(r + 3 > kern_len) /\ mem[r + 1] = R_NONE /\ k' = k
          /\ UNCHANGED <<file, parsed, vm_page_size, kern_len, mem, rela, relasz>>
      BY <1>2, <1>10
    <2>2. ASSUME Fixed PROVE Final
      <3>1. Image(Reloc(n + 1) + 1) = R_NONE
        BY <1>0, <1>6, <1>9, <2>1, <2>2, Zenon
      <3>2. \A a : Relocs(a) = RelocsTo(n, a)
        BY <1>3, <1>4, <1>6, <1>8, <2>2, <3>1, DoneSoFar, Zenon DEF Relocated
      <3>3. DOMAIN mem = 0 .. kern_len - 1
        BY <1>3, Zenon
      <3> QED
        BY <1>8, <2>2, <3>2, <3>3, Zenon DEF Final, Relocated, WordAfter
    <2>3. step \in Loaded
      BY <1>2, Zenon DEF Loaded
    <2> QED
      BY <1>3, <1>10, <2>1, <2>2, <2>3, ImageEnds, Zenon
  <1>11. CASE step' # "done" /\ ~Error
    <2>1. /\ ~(r + 3 > kern_len) /\ mem[r + 1] # R_NONE
          /\ ~(mem[r + 1] = R_RELATIVE /\ mem[r] >= kern_len)
          /\ mem' = IF mem[r + 1] = R_RELATIVE
                    THEN [mem EXCEPT ![mem[r]] = (KernVaddr + mem[r + 2]) % Word] ELSE mem
          /\ k' = k + 1 /\ step' = step
          /\ UNCHANGED <<file, parsed, vm_page_size, kern_len, rela, relasz>>
      BY <1>2, <1>11, Zenon
    <2>2. UNCHANGED <<segments, dynamic>>
      BY <2>1 DEF parsed
    <2>3. PICK t, w : t = mem[r] /\ w = (KernVaddr + mem[r + 2]) % Word
      BY Zenon
    <2>4. t \in Nat /\ w \in Nat
      <3>1. mem[r] \in Nat /\ mem[r + 2] \in Nat
        BY <1>3, <1>7, <2>1, Zenon
      <3> QED
        BY <2>3, <3>1, KernelAssumption
    <2>5. /\ mem' \in [0 .. kern_len - 1 -> Nat]
          /\ \A a \in 0 .. kern_len - 1 :
                mem'[a] = IF mem[r + 1] = R_RELATIVE /\ a = t THEN w ELSE mem[a]
      <3>1. CASE mem[r + 1] = R_RELATIVE
        <4>1. mem' = [mem EXCEPT ![t] = w]
          BY <2>1, <2>3, <3>1, Zenon
        <4> QED
          BY <1>3, <2>4, <3>1, <4>1, Zenon
      <3>2. CASE mem[r + 1] # R_RELATIVE
        BY <1>3, <2>1, <3>2, Zenon
      <3> QED
        BY <3>1, <3>2, Zenon
    <2>6. ImageTypes'
      <3>1. k \in Nat \ {0} /\ k' = k + 1
        BY <1>2, <1>3, <2>1, Zenon DEF ImageTypes
      <3>2. k' \in Nat \ {0}
        BY ONLY <3>1
      <3> QED
        BY <1>2, <1>3, <2>1, <2>2, <2>5, <3>2, Zenon DEF ImageTypes
    <2>7. Measured(Len(segments))' /\ LoadSegments' = LoadSegments
      BY <1>3, <2>1, <2>2, SameFile, Zenon DEF Measured
    <2>8. ASSUME NEW m \in Nat, m = k' - 1, Fixed' PROVE Relocated(m)'
      <3>1. /\ Fixed /\ \A i : Image(Reloc(i) + 1)' = Image(Reloc(i) + 1)
            /\ \A a : WordAfter(m, a)' = WordAfter(m, a)
        BY <2>1, <2>8, SameTable, Zenon
      <3>2. m = k
        BY <1>3, <2>1, <2>8
      <3>3. /\ t = Image(r) /\ mem[r + 1] = Image(r + 1) /\ w = (KernVaddr + Image(r + 2)) % Word
            /\ r = Reloc(m)
        BY <1>0, <1>9, <2>1, <2>3, <3>1, <3>2, Zenon
      <3>4. \A i \in 1 .. m : Image(Reloc(i) + 1) # R_NONE
        <4>1. \A i \in 1 .. m : i \in 1 .. n \/ i = m
          BY <1>3, <1>6, <3>2
        <4> QED
          BY <1>8, <2>1, <3>1, <3>3, <4>1, Zenon DEF Relocated
      <3>5. ASSUME NEW a \in 0 .. kern_len - 1 PROVE mem'[a] = WordAfter(m, a)
        <4>1. mem[a] = WordAfter(n, a) /\ m - 1 = n /\ m \in Nat \ {0}
          <5>1. mem[a] = WordAfter(n, a)
            BY <1>8, <3>1, <3>5, Zenon DEF Relocated
          <5> QED
            BY <1>0, <1>3, <3>2, <5>1, Zenon
        <4>2. CASE mem[r + 1] = R_RELATIVE /\ a = t
          <5>1. m \in RelocsTo(m, a) /\ LastOf(RelocsTo(m, a)) = m
            BY <3>3, <4>1, <4>2, NextReloc, Zenon
          <5> QED
            BY <2>5, <3>3, <3>5, <4>2, <5>1, Zenon DEF WordAfter
        <4>3. CASE ~(mem[r + 1] = R_RELATIVE /\ a = t)
          <5>1. RelocsTo(m, a) = RelocsTo(n, a)
            BY <3>3, <4>1, <4>3, NextReloc, Zenon
          <5>2. mem'[a] = mem[a]
            BY <2>5, <3>5, <4>3, Zenon
          <5> QED
            BY <4>1, <5>1, <5>2, Zenon DEF WordAfter
        <4> QED
          BY <4>2, <4>3, Zenon
      <3>6. \A a \in 0 .. kern_len' - 1 : mem'[a] = WordAfter(m, a)'
        BY <2>1, <3>1, <3>5, Zenon
      <3> QED
        BY <3>1, <3>4, <3>6, Zenon DEF Relocated
    <2>9. step' = "relocate" /\ rela' # <<>> /\ relasz' # <<>> /\ relasz'[1] % 3 = 0
      BY <1>2, <1>3, <2>1, Zenon
    <2>10. 3 * (k' - 1) <= relasz'[1]
      <3>1. k' - 1 = k
        BY <1>3, <2>1
      <3> QED
        BY <1>2, <2>1, <3>1, Zenon
    <2> QED
      BY <1>3, <2>2, <2>6, <2>7, <2>8, <2>9, <2>10, Zenon DEF ImageInv, Loaded, Reading, LoadsTheImage
  <1> QED
    BY <1>1, <1>10, <1>11, Zenon

LEMMA ImageRelocated ==
    ASSUME ImageInv, RelocateEnd
    PROVE  ImageInv'
  <1>1. /\ step = "relocate" /\ ~(3 * k <= relasz[1]) /\ step' = "done" /\ k' = k
        /\ UNCHANGED <<file, parsed, vm_page_size, kern_len, mem, rela, relasz>>
    BY Zenon DEF RelocateEnd, MoreRelocs
  <1>2. /\ k \in Nat \ {0} /\ kern_len \in Nat /\ mem \in [0 .. kern_len - 1 -> Nat]
        /\ rela # <<>> /\ relasz # <<>> /\ rela \in Maybe(Nat) /\ relasz \in Maybe(Nat)
        /\ 3 * (k - 1) <= relasz[1] /\ step \in Loaded
        /\ \A m \in Nat : m = k - 1 /\ Fixed => Relocated(m)
    BY <1>1 DEF ImageInv, ImageTypes, Loaded
  <1>3. rela[1] \in Nat /\ relasz[1] \in Nat
    BY <1>2, Some, Zenon
  <1>4. PICK n \in Nat : n = k - 1
    BY <1>2
  <1>5. 3 * n <= relasz[1] /\ 3 * (n + 1) > relasz[1]
    BY <1>1, <1>2, <1>3, <1>4
  <1>6. ASSUME Fixed PROVE Final
    <2>1. Relocated(n)
      BY <1>2, <1>4, <1>6, Zenon
    <2>2. \A a : Relocs(a) = RelocsTo(n, a)
      BY <1>2, <1>3, <1>5, <2>1, DoneSoFar, Zenon DEF Relocated
    <2>3. DOMAIN mem = 0 .. kern_len - 1
      BY <1>2
    <2> QED
      BY <2>1, <2>2, <2>3, Zenon DEF Final, Relocated, WordAfter
  <1> QED
    BY <1>1, <1>2, <1>6, ImageEnds, Zenon

-----------------------------------------------------------------------------
LEMMA ImageStep == ImageInv /\ [ImageNext]_imageVars => ImageInv'
  <1> SUFFICES ASSUME ImageInv, [ImageNext]_imageVars PROVE ImageInv'
    OBVIOUS
  <1>1. CASE UNCHANGED imageVars
    <2>1. /\ UNCHANGED <<file, step, k, segments, dynamic, kern_len, mem, rela, relasz>>
      BY <1>1 DEF imageVars
    <2>2. /\ LoadsTo(k - 1)' = LoadsTo(k - 1) /\ LoadSegments' = LoadSegments
          /\ \A a : Image(a)' = Image(a)
      BY <2>1, SameFile, Zenon DEF LoadsTo
    <2>3. /\ Fixed' <=> Fixed
          /\ \A n, a : WordAfter(n, a)' = WordAfter(n, a)
          /\ \A i : Image(Reloc(i) + 1)' = Image(Reloc(i) + 1)
      BY <2>1, SameTable, Zenon
    <2>4. \A n : Relocated(n)' <=> Relocated(n)
      BY <2>1, <2>3, Zenon DEF Relocated
    <2>5. /\ Measured(k - 1)' <=> Measured(k - 1)
          /\ Measured(Len(segments))' <=> Measured(Len(segments))
      BY <2>1, Zenon DEF Measured
    <2>6. Copied(k - 1)' <=> Copied(k - 1)
      BY <2>1 DEF Copied
    <2>7. ImageTypes' <=> ImageTypes
      BY <2>1 DEF ImageTypes
    <2>8. LoadsTheImage' <=> LoadsTheImage
      <3>1. LoadsTheImage <=>
              (step = "done" =>
                /\ \A g, h \in LoadSegments : g # h => Span(g) \cap Span(h) = {}
                /\ DOMAIN mem = 0 .. kern_len - 1
                /\ \A h \in LoadSegments : Span(h) \subseteq DOMAIN mem
                /\ Fixed => Final)
        BY Zenon DEF LoadsTheImage, Fixed, Final
      <3>2. LoadsTheImage' <=>
              (step' = "done" =>
                /\ \A g, h \in LoadSegments' : g # h => Span(g) \cap Span(h) = {}
                /\ DOMAIN mem' = 0 .. kern_len' - 1
                /\ \A h \in LoadSegments' : Span(h) \subseteq DOMAIN mem'
                /\ Fixed' => Final')
        BY Zenon DEF LoadsTheImage, Fixed, Final
      <3>3. Final' <=> Final
        BY <2>1, SameFinal, Zenon
      <3> QED
        BY <2>1, <2>2, <2>3, <3>1, <3>2, <3>3, Zenon
    <2>9. (End(dynamic[1]) <= kern_len)' <=> End(dynamic[1]) <= kern_len
      BY <2>1, Zenon DEF End
    <2> QED
      BY <2>1, <2>2, <2>3, <2>4, <2>5, <2>6, <2>7, <2>8, <2>9, Zenon DEF ImageInv
  <1> QED
    BY <1>1, ImageOpens, ImageHeader, ImageHeaders, ImageNotes, ImageLength, ImageLengths, ImageCopies,
       ImageCopied, ImageDynamic, ImageTagged, ImageRelocates, ImageRelocated, Zenon DEF ImageNext

(* For any file whose fields are numbers: a kernel that loads is the image *)
(* its headers describe, with its relocations (Vmm::new, relocate_kernel). *)
THEOREM KernelLoads == ImageSpec => []LoadsTheImage
  <1>1. ImageInv => LoadsTheImage
    BY Zenon DEF ImageInv
  <1> QED
    BY InitImage, ImageStep, <1>1, PTL DEF ImageSpec

-----------------------------------------------------------------------------
(* The wakeups of the channel, which count finite sets.                    *)


(* How the number of senders that were woken and have not run changes.     *)
LEMMA CountGrows ==
    ASSUME NEW S, NEW T, IsFiniteSet(T), S \subseteq T
    PROVE  /\ IsFiniteSet(S) /\ Cardinality(S) \in Nat /\ Cardinality(T) \in Nat
           /\ Cardinality(S) <= Cardinality(T)
  <1>1. IsFiniteSet(S) /\ Cardinality(S) <= Cardinality(T)
    BY FS_Subset, Zenon
  <1> QED
    BY <1>1, FS_CardinalityType, Zenon

LEMMA NotifiedFinite ==
    ASSUME TypeOK
    PROVE  IsFiniteSet(Notified) /\ Cardinality(Notified) \in Nat
  <1>1. Notified \subseteq Senders
    BY Zenon DEF Notified, TypeOK
  <1> QED
    BY <1>1, ChannelAssumption, CountGrows, Zenon

LEMMA NotifiedFiniteNext ==
    ASSUME TypeOK'
    PROVE  IsFiniteSet(Notified') /\ Cardinality(Notified') \in Nat
  <1>1. Notified' \subseteq Senders
    BY Zenon DEF Notified, TypeOK
  <1> QED
    BY <1>1, ChannelAssumption, CountGrows, Zenon

LEMMA NotifiedGrows ==
    ASSUME TypeOK, TypeOK', Notified \subseteq Notified'
    PROVE  Cardinality(Notified) <= Cardinality(Notified')
  BY NotifiedFiniteNext, CountGrows, Zenon

(* Spoken in numbers: while a sender sleeps, the items and the senders     *)
(* already woken fill the channel.                                         *)
LEMMA SendSpoken ==
    ASSUME TypeOK, TypeOK', Spoken, NEW s \in Senders, Sending(s)
    PROVE  Spoken'
  <1>1. CASE Full /\ asleep' = asleep \cup {s} /\ UNCHANGED items
    <2>1. Cardinality(Notified') \in Nat
      BY NotifiedFiniteNext, Zenon
    <2>2. Len(items) \in Nat
      BY DEF TypeOK
    <2> QED
      <3>1. PICK c : c = Cardinality(Notified') /\ c \in Nat
        BY <2>1, Zenon
      <3>2. Len(items) >= Max /\ Max \in Nat
        BY <1>1, ChannelAssumption DEF Full
      <3>3. Len(items) + c >= Max
        BY ONLY <2>2, <3>1, <3>2
      <3> QED
        BY <1>1, <3>1, <3>3, Zenon DEF Spoken
  <1>2. CASE Push(s) /\ calling' = calling \ {s} /\ asleep' = asleep
    <2>1. Len(items') = Len(items) + 1
      BY <1>2 DEF Push, TypeOK
    <2>2. Notified' = Notified \ {s}
      BY <1>2, Zenon DEF Notified
    <2>3. Cardinality(Notified') = Cardinality(Notified) \/ Cardinality(Notified') = Cardinality(Notified) - 1
      BY <2>2, NotifiedFinite, FS_RemoveElement, Zenon
    <2>4. Cardinality(Notified') \in Nat /\ Cardinality(Notified) \in Nat
      BY <2>2, NotifiedFinite, FS_RemoveElement, FS_CardinalityType, Zenon
    <2>5. Len(items) \in Nat
      BY DEF TypeOK
    <2> QED
      <3>1. PICK c, d : c = Cardinality(Notified) /\ d = Cardinality(Notified')
        BY Zenon
      <3>2. c \in Nat /\ d \in Nat /\ (d = c \/ d = c - 1)
        BY <2>3, <2>4, <3>1, Zenon
      <3>3. Max \in Nat
        BY ChannelAssumption, Zenon
      <3>4. Len(items) + c >= Max => Len(items') + d >= Max
        BY ONLY <2>1, <2>5, <3>2, <3>3
      <3> QED
        BY <1>2, <3>1, <3>4, Zenon DEF Spoken
  <1> QED
    BY <1>1, <1>2, Zenon DEF Sending, Send

LEMMA PollSpoken ==
    ASSUME TypeOK, TypeOK', Spoken, PollReady, UNCHANGED calling
    PROVE  Spoken'
  <1>1. CASE asleep = {}
    BY <1>1, Zenon DEF PollReady, NotifyOne, Spoken
  <1>2. CASE asleep # {}
    <2>1. PICK s \in asleep : asleep' = asleep \ {s}
      BY <1>2, Zenon DEF PollReady, NotifyOne
    <2>2. Notified' = Notified \cup {s} /\ s \notin Notified
      BY <2>1, Zenon DEF Notified, TypeOK
    <2>3. Cardinality(Notified') = Cardinality(Notified) + 1
      BY <2>2, NotifiedFinite, FS_AddElement, Zenon
    <2>4. Len(items') = Len(items) - 1 /\ Len(items) \in Nat
      BY DEF PollReady, TypeOK
    <2> QED
      <3>1. PICK c, d : c = Cardinality(Notified) /\ d = Cardinality(Notified')
        BY Zenon
      <3>2. c \in Nat /\ d = c + 1
        BY <2>3, <3>1, NotifiedFinite, Zenon
      <3>3. Max \in Nat
        BY ChannelAssumption, Zenon
      <3>4. Len(items) + c >= Max => Len(items') + d >= Max
        BY ONLY <2>4, <3>2, <3>3
      <3> QED
        BY <1>2, <3>1, <3>4, Zenon DEF Spoken
  <1> QED
    BY <1>1, <1>2, Zenon

IInv == TypeOK /\ Bounded /\ Awake /\ Spoken

LEMMA StepInv == IInv /\ TypeOK' /\ [Next]_vars => IInv'
  <1> SUFFICES ASSUME IInv, TypeOK', [Next]_vars PROVE IInv'
    BY Zenon
  <1>1. ASSUME NEW s \in Senders, Sending(s) PROVE IInv'
    <2>1. Bounded'
      <3>1. Len(items) \in Nat /\ (Push(s) => Len(items') = Len(items) + 1)
        BY DEF Push, IInv, TypeOK
      <3> QED
        BY <1>1, <3>1, ChannelAssumption DEF IInv, Bounded, Sending, Send, Push, Full
    <2>2. Awake'
      <3>1. Send(s) /\ UNCHANGED <<waiting, task>>
        BY <1>1, Zenon DEF Sending
      <3> QED
        BY <3>1, Zenon DEF IInv, Awake, Send, Push, TypeOK
    <2>3. Spoken'
      BY <1>1, SendSpoken, Zenon DEF IInv
    <2> QED
      BY <2>1, <2>2, <2>3, Zenon DEF IInv
  <1>2. ASSUME NEW s \in Senders, SpuriousWake(s) PROVE IInv'
    <2>1. Notified \subseteq Notified' /\ asleep # {} /\ UNCHANGED items
      BY <1>2, Zenon DEF SpuriousWake, Notified
    <2>2. Cardinality(Notified) <= Cardinality(Notified')
      BY <2>1, NotifiedGrows, Zenon DEF IInv
    <2>3. Cardinality(Notified') \in Nat
      BY NotifiedFiniteNext, Zenon
    <2>4. Len(items) \in Nat
      BY DEF IInv, TypeOK
    <2>5. Spoken'
      <3>1. PICK c, d : c = Cardinality(Notified) /\ d = Cardinality(Notified')
        BY Zenon
      <3>2. c \in Nat /\ d \in Nat /\ c <= d
        BY <2>2, <2>3, <3>1, NotifiedFinite, Zenon DEF IInv
      <3>3. Max \in Nat
        BY ChannelAssumption, Zenon
      <3>4. Len(items) + c >= Max => Len(items) + d >= Max
        BY ONLY <2>4, <3>2, <3>3
      <3> QED
        BY <2>1, <3>1, <3>4, Zenon DEF IInv, Spoken
    <2> QED
      BY <1>2, <2>5, Zenon DEF SpuriousWake, IInv, Bounded, Awake
  <1>3. CASE Receive
    <2>1. CASE PollReady
      <3>1. Bounded'
        BY <2>1, ChannelAssumption DEF PollReady, IInv, Bounded, TypeOK
      <3>2. Awake'
        BY <1>3, <2>1, Zenon DEF Receive, PollReady, PollPending, Awake
      <3>3. Spoken'
        BY <1>3, <2>1, PollSpoken, Zenon DEF Receive, IInv
      <3> QED
        BY <3>1, <3>2, <3>3, Zenon DEF IInv
    <2>2. CASE PollPending
      BY <1>3, <2>2, Zenon DEF Receive, PollReady, PollPending, IInv, Bounded, Awake, Spoken, Notified
    <2> QED
      BY <1>3, <2>1, <2>2, Zenon DEF Receive
  <1>4. CASE Schedule \/ Sleep \/ OtherWake \/ Cancel \/ PollOther \/ FallQuiet \/ UNCHANGED vars
    BY <1>4, Zenon DEF Schedule, Sleep, OtherWake, Cancel, DropRecv, PollOther, FallQuiet, vars,
                IInv, Bounded, Awake, Spoken, Notified
  <1> QED
    BY <1>1, <1>2, <1>3, <1>4, Zenon DEF Next

(* For any senders and capacity: the queue never exceeds its capacity, a   *)
(* sleeping receiver with a message to read has been woken, and a sender   *)
(* sleeps only while the free places belong to senders already woken.      *)
THEOREM NoLostWakeup == Spec => []Wakeups
  <1>1. Init /\ TypeOK => IInv
    BY ChannelAssumption DEF Init, IInv, Bounded, Awake, Spoken
  <1>2. IInv => Wakeups
    BY Zenon DEF IInv, Wakeups
  <1> QED
    BY <1>1, <1>2, TypeCorrect, StepInv, PTL DEF Spec
=============================================================================
