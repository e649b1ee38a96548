------------------------------ MODULE Console ------------------------------
(***************************************************************************)
(* The kernel's console on a virtual machine: the Writer of the kernel's   *)
(* runtime (src/lib/krt/src/console/vm.rs), which sends a message through  *)
(* a small buffer, and the device (src/gui/src/hw/console/context.rs) that *)
(* puts the message together from the writes to its three fields.  Each    *)
(* write leaves the virtual machine, so an interrupt fits before each.     *)
(*                                                                         *)
(* A message is the sequence of the strings that formatting it writes.  A  *)
(* byte is Ascii, or the Lead or the Cont of a character of two bytes.     *)
(***************************************************************************)
EXTENDS Naturals, Sequences, FiniteSetsExt, SequencesExt

CONSTANTS
    BufLen,      \* 1024
    Messages,
    PanicMsg,
    MaxPrints    \* bound on the messages of a behaviour

CONSTANTS Ascii, Lead, Cont

ConsoleAssumption ==
    BufLen \in Nat \ {0} /\ MaxPrints \in Nat

VARIABLES
    calls,    \* the calls of print in progress, the innermost last
    printed,  \* history: the messages given to print
    msgLen,   \* the device's msg_len, 0 for None
    msg,      \* the device's msg
    logs,     \* the messages sent to the event loop
    outcome   \* "run", how the kernel ended, or the device's error

vars == <<calls, printed, msgLen, msg, logs, outcome>>

Kinds == {"Info", "Warn", "Error"}
Log(ty, bytes) == [ty |-> ty, bytes |-> bytes]

Init ==
    /\ calls = <<>> /\ printed = <<>>
    /\ msgLen = 0 /\ msg = <<>> /\ logs = <<>> /\ outcome = "run"

-----------------------------------------------------------------------------
(* The kernel.                                                             *)

(* print, which ends the message with a line feed.                         *)
Lines(m) == Append(m, <<Ascii>>)
Call(ty, m) == [ty |-> ty, rest |-> Lines(m), buf |-> <<>>, at |-> "write"]

Begin(ty, m) ==
    /\ calls' = Append(calls, Call(ty, m))
    /\ printed' = Append(printed, Log(ty, FlattenSeq(Lines(m))))
    /\ UNCHANGED <<msgLen, msg, logs, outcome>>

PrintLog ==
    /\ outcome = "run" /\ calls = <<>> /\ Len(printed) < MaxPrints
    /\ \E ty \in {"Info", "Warn"}, m \in Messages : Begin(ty, m)

(* A panic prints, then shuts the machine down.                            *)
Panic == outcome = "run" /\ calls = <<>> /\ Begin("Error", PanicMsg)

(* interrupt_handler ends in a todo!() for a breakpoint, so a panic prints *)
(* while the print it interrupts is in progress.                           *)
Interrupt ==
    /\ outcome = "run" /\ Len(calls) = 1
    /\ Begin("Error", PanicMsg)

Running(at) == outcome = "run" /\ calls # <<>> /\ Last(calls).at = at
Becomes(c) == calls' = [calls EXCEPT ![Len(calls)] = c]

(* One round of the loop of write_str: what fits goes to the buffer, which *)
(* is flushed when it is full.                                             *)
FlushAtLate(len) == len > BufLen
FlushAt(len) == len = BufLen

Fitting(s, buf) == Min({Len(s), BufLen - Len(buf)})

Copy ==
    /\ Running("write") /\ Last(calls).rest # <<>>
    /\ LET c == Last(calls)
           s == Head(c.rest)
           n == Fitting(s, c.buf)
           remain == IF n = Len(s) THEN <<>> ELSE <<SubSeq(s, n + 1, Len(s))>>
       IN  Becomes([c EXCEPT
               !.buf = @ \o SubSeq(s, 1, n),
               !.rest = remain \o Tail(@),
               !.at = IF FlushAt(Len(c.buf) + n) THEN "len" ELSE @])
    /\ UNCHANGED <<printed, msgLen, msg, logs, outcome>>

(* The Writer is dropped, and what is left in its buffer flushed.          *)
Drop ==
    /\ Running("write") /\ Last(calls).rest = <<>>
    /\ Becomes([Last(calls) EXCEPT !.at = IF Last(calls).buf = <<>> THEN "commit" ELSE "len"])
    /\ UNCHANGED <<printed, msgLen, msg, logs, outcome>>

-----------------------------------------------------------------------------
(* The writes to the device's fields, with what the device does for each.  *)

WriteLen ==
    /\ Running("len")
    /\ msgLen' = Len(Last(calls).buf)
    /\ Becomes([Last(calls) EXCEPT !.at = "addr"])
    /\ UNCHANGED <<printed, msg, logs, outcome>>

(* The device reads as much as it was told from the buffer, in the RAM.    *)
WriteAddr ==
    /\ Running("addr")
    /\ IF msgLen = 0
       THEN outcome' = "InvalidSequence" /\ UNCHANGED <<msg, msgLen, calls>>
       ELSE /\ msg' = msg \o SubSeq(Last(calls).buf, 1, msgLen)
            /\ msgLen' = 0
            /\ Becomes([Last(calls) EXCEPT !.at = "write", !.buf = <<>>])
            /\ UNCHANGED outcome
    /\ UNCHANGED <<printed, logs>>

(* from_utf8.                                                              *)
IsUtf8(s) ==
    \A i \in DOMAIN s :
        /\ s[i] = Lead => i < Len(s) /\ s[i + 1] = Cont
        /\ s[i] = Cont => i > 1 /\ s[i - 1] = Lead

(* The message is cleared once it is sent.                                 *)
ClearedNot(m) == m
Cleared(m) == <<>>

(* The panic handler writes VmmMemory::shutdown after its commit, and the  *)
(* vCPU does not run again.                                                *)
WriteCommit ==
    /\ Running("commit")
    /\ LET c == Last(calls)
           error == IF msgLen # 0 \/ msg = <<>> THEN "InvalidSequence"
                    ELSE IF IsUtf8(msg) THEN "run" ELSE "InvalidMsg"
       IN  IF error # "run"
           THEN outcome' = error /\ UNCHANGED <<calls, msg, logs>>
           ELSE /\ logs' = Append(logs, Log(c.ty, msg))
                /\ msg' = Cleared(msg)
                /\ calls' = Front(calls)
                /\ outcome' = IF c.ty = "Error" THEN "panic" ELSE outcome
    /\ UNCHANGED <<printed, msgLen>>

Next ==
    \/ PrintLog \/ Panic \/ Interrupt \/ Copy \/ Drop
    \/ WriteLen \/ WriteAddr \/ WriteCommit

Fairness == WF_vars(Copy \/ Drop \/ WriteLen \/ WriteAddr \/ WriteCommit)

Spec == Init /\ [][Next]_vars /\ Fairness

-----------------------------------------------------------------------------
(* The calls that a breakpoint cut short never end.                        *)
Interrupted == Len(calls) = 2 \/ (outcome = "panic" /\ calls # <<>>)

(* The event loop gets each message whole, with its type and in the order  *)
(* of the calls of print, whatever the chunks it was sent in, and what the *)
(* Writer does is a sequence that the device accepts: no empty flush, and  *)
(* no commit without a message or inside a character.  Only what is        *)
(* printed inside a print that a breakpoint interrupts may be mixed up.    *)
WholeLogs == Interrupted \/ (IsPrefix(logs, printed) /\ outcome \in {"run", "panic"})

(* A message that print has begun reaches the event loop, or a breakpoint  *)
(* in it ends the machine, by the panic or by an error of the device: the  *)
(* vCPU never spins in write_str.                                          *)
PrintEnds ==
    (calls # <<>>) ~>
        \/ calls = <<>> /\ Len(logs) = Len(printed)
        \/ Interrupted /\ outcome # "run"
=============================================================================
