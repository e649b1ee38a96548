-------------------------------- MODULE Gdb --------------------------------
(***************************************************************************)
(* A remote debugging session (src/gui/src/gdb, main.rs dispatch_gdb) and  *)
(* a debugger that follows the protocol.  Both sides acknowledge packets   *)
(* until QStartNoAckMode, whose answer is the last to be acknowledged.     *)
(*                                                                         *)
(* A packet on its way is two pieces, its command and its checksum, so     *)
(* that a read of the socket may end inside it.  Commands that the program *)
(* answers with todo!() are not sent.                                      *)
(***************************************************************************)
EXTENDS Naturals, Sequences

CONSTANT MaxSends  \* bound: packets of the debugger, retransmissions included

Commands == {"qSupported", "QThreadSuffixSupported", "QStartNoAckMode"}
None == "None"
SomeFalse == "Some(false)"
SomeTrue == "Some(true)"

VARIABLES
    req,       \* GdbSession::req
    no_ack,    \* SessionState::no_ack
    suffix,    \* SessionState::thread_suffix_supported
    pumping,   \* dispatch_gdb is in its loop
    error,     \* a GdbError ended the session
    toServer,  \* what the socket holds in each direction
    toClient,
    asked,     \* the debugger's command without an answer, as a sequence
    noack,     \* the debugger no longer acknowledges
    sends

server == <<req, no_ack, suffix, pumping, error>>
client == <<asked, noack, sends>>
gdbVars == <<server, client, toServer, toClient>>

GdbInit ==
    /\ req = <<>> /\ no_ack = None /\ suffix = FALSE /\ pumping = FALSE
    /\ error = FALSE /\ toServer \in {<<>>, <<[t |-> "+"]>>} /\ toClient = <<>>
    /\ asked = <<>> /\ noack = FALSE /\ sends = 0

-----------------------------------------------------------------------------
(* The debugger.  What it sends may be damaged while it still expects      *)
(* acknowledgements.                                                       *)
Packet(c, ok) == <<[t |-> "$", cmd |-> c], [t |-> "#", ok |-> ok]>>

Transmit(c) ==
    /\ sends < MaxSends /\ sends' = sends + 1
    /\ \E ok \in {TRUE, noack} : toServer' = toServer \o Packet(c, ok)

Ask(c) ==
    /\ asked = <<>> /\ asked' = <<c>> /\ Transmit(c)
    /\ (c = "QStartNoAckMode" => ~noack)
    /\ UNCHANGED <<server, noack, toClient>>

Take(t) == toClient # <<>> /\ Head(toClient).t = t /\ toClient' = Tail(toClient)

Acked == Take("+") /\ UNCHANGED <<server, client, toServer>>

Nacked ==
    /\ Take("-") /\ Transmit(asked[1])
    /\ UNCHANGED <<server, asked, noack>>

Answered ==
    /\ Take("$") /\ asked' = <<>>
    /\ toServer' = IF noack THEN toServer ELSE Append(toServer, [t |-> "+"])
    /\ noack' = (noack \/ asked = <<"QStartNoAckMode">>)
    /\ UNCHANGED <<server, sends>>

Debugger == (\E c \in Commands : Ask(c)) \/ Acked \/ Nacked \/ Answered

-----------------------------------------------------------------------------
(* dispatch_gdb reads some of what the socket holds and pumps until there  *)
(* is no complete packet left.                                             *)
dispatch_client(n) ==
    /\ ~pumping /\ ~error /\ n \in DOMAIN toServer
    /\ req' = req \o SubSeq(toServer, 1, n)
    /\ toServer' = SubSeq(toServer, n + 1, Len(toServer))
    /\ pumping' = TRUE
    /\ UNCHANGED <<no_ack, suffix, error, toClient, client>>

First(t) == pumping /\ req # <<>> /\ req[1].t = t
Complete == First("$") /\ Len(req) >= 2
Reply(s) == toClient' = toClient \o s
Fail == error' = TRUE /\ pumping' = FALSE /\ UNCHANGED <<no_ack, suffix, toClient>>

PumpNone ==
    /\ pumping /\ (req = <<>> \/ (First("$") /\ ~Complete)) /\ pumping' = FALSE
    /\ UNCHANGED <<req, no_ack, suffix, error, client, toServer, toClient>>

PumpAck ==
    /\ First("+") /\ UNCHANGED <<client, toServer>>
    /\ IF no_ack = SomeTrue THEN Fail /\ UNCHANGED req
       ELSE /\ no_ack' = IF no_ack = SomeFalse THEN SomeTrue ELSE no_ack
            /\ req' = Tail(req) /\ UNCHANGED <<suffix, pumping, error, toClient>>

Drained == req' = SubSeq(req, 3, Len(req))

PumpDamaged ==
    /\ Complete /\ ~req[2].ok /\ Drained /\ UNCHANGED <<client, toServer>>
    /\ IF no_ack = None THEN Reply(<<[t |-> "-"]>>) /\ UNCHANGED <<no_ack, suffix, pumping, error>>
                        ELSE Fail

(* Mutant: no-ack mode at once, without the debugger's acknowledgement.    *)
parse_start_no_ack_modeEager == no_ack' = SomeTrue
parse_start_no_ack_mode == no_ack' = SomeFalse

PumpCommand ==
    /\ Complete /\ req[2].ok /\ Drained /\ UNCHANGED <<client, toServer>>
    /\ IF no_ack = SomeFalse THEN Fail
       ELSE /\ IF req[1].cmd = "QStartNoAckMode" THEN parse_start_no_ack_mode
                                                ELSE UNCHANGED no_ack
            /\ suffix' = (suffix \/ req[1].cmd = "QThreadSuffixSupported")
            /\ Reply((IF no_ack = None THEN <<[t |-> "+"]>> ELSE <<>>) \o <<[t |-> "$"]>>)
            /\ UNCHANGED <<pumping, error>>

Pump == PumpNone \/ PumpAck \/ PumpDamaged \/ PumpCommand

GdbNext == Debugger \/ (\E n \in 1 .. Len(toServer) : dispatch_client(n)) \/ Pump

GdbSpec == GdbInit /\ [][GdbNext]_gdbVars

-----------------------------------------------------------------------------
(* A debugger that follows the protocol never meets an error, whatever the *)
(* reads cut its packets into and however closely it follows an            *)
(* acknowledgement with the next packet.  When all that was sent has been  *)
(* read, everything was answered and both sides agree on whether packets   *)
(* are acknowledged (ClientDispatcher::pump, SessionState::no_ack).        *)
Quiet == ~pumping /\ toServer = <<>> /\ toClient = <<>>

InStep ==
    /\ ~error
    /\ Quiet /\ sends < MaxSends =>
        asked = <<>> /\ req = <<>> /\ no_ack = (IF noack THEN SomeTrue ELSE None)
=============================================================================
