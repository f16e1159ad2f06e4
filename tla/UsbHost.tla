------------------------------ MODULE UsbHost -------------------------------
(***************************************************************************)
(* The device of UsbCmd at one end of the serial line and the host program *)
(* test_usb_cmd.py at the other.  The host writes one command, waits until *)
(* its read times out and takes the first frame it got; the line delivers  *)
(* in order and may lose bytes on the way to the device (there is no flow  *)
(* control).  Answers arrive; the log output between them is skipped by    *)
(* find_frame and left out here.                                           *)
(***************************************************************************)
EXTENDS UsbCmd

CONSTANTS
  Requests,     \* the commands the script sends: records of cmd and data
  HostSeqRange, \* the script counts its commands modulo this
  MaxLost       \* how many bytes the line loses

\* The script sends no more data than the device takes.
ASSUME HostAssumption ==
  /\ HostSeqRange \in 1..256 /\ MaxLost \in Nat
  /\ \A r \in Requests :
       /\ r.cmd \in UInt8 /\ r.data \in Seq(UInt8)
       /\ Len(r.data) <= MaxData /\ Len(r.data) \in UInt16

VARIABLES
  line,      \* bytes written by the host, not yet read by the device
  host_seq,  \* self.seq
  request,   \* the command that waits for its answer, or NoRequest
  inbox,     \* the frames the device sent since the last read
  result,    \* the last command and what send_command returned for it
  lost       \* bytes lost so far

host == <<line, host_seq, request, inbox, result, lost>>
allVars == <<vars, host>>

NoRequest == [cmd |-> 0, data |-> <<>>, seq |-> 0, waiting |-> FALSE]
NoResult == [request |-> NoRequest, reply |-> [cmd |-> "none"]]

-----------------------------------------------------------------------------
(* The host.                                                               *)

\* The bytes of a command that its CRC covers.
Body(r) == <<Len(r.data) % 256, Len(r.data) \div 256, r.seq, r.cmd>> \o r.data

BuildFrame(r) ==
  LET crc == Crc(Body(r))
  IN  <<SOF>> \o Body(r) \o <<crc % 256, crc \div 256, EOF>>

Numbered(r, seq) == [cmd |-> r.cmd, data |-> r.data, seq |-> seq, waiting |-> TRUE]

\* usb_cmd_crc16 returns a uint16_t.
ASSUME CrcAssumption ==
  \A r \in Requests, seq \in 0..(HostSeqRange - 1) : Crc(Body(Numbered(r, seq))) \in UInt16

\* send_command, up to the write.
HostSend ==
  \E r \in Requests :
    LET sent == Numbered(r, host_seq)
    IN  /\ ~request.waiting
        /\ request' = sent
        /\ line' = line \o BuildFrame(sent)
        /\ host_seq' = (host_seq + 1) % HostSeqRange
        /\ result' = NoResult
        /\ UNCHANGED <<inbox, lost, parse, frame, device>> /\ Quiet

\* read(512) returns after its timeout of 2 s, longer than the line and the
\* device need.
HostRead ==
  /\ request.waiting /\ line = <<>>
  /\ result' = [request |-> request,
                reply |-> IF inbox = <<>> THEN [cmd |-> "none"] ELSE Head(inbox)]
  /\ inbox' = <<>>
  /\ request' = NoRequest
  /\ UNCHANGED <<line, host_seq, lost, parse, frame, device>> /\ Quiet

-----------------------------------------------------------------------------
(* The line and the device.                                                *)

DeviceRx ==
  /\ line # <<>>
  /\ ParseByte(Head(line))
  /\ line' = Tail(line)
  /\ inbox' = inbox \o replies'
  /\ UNCHANGED <<host_seq, request, result, lost>>

LoseByte ==
  /\ line # <<>> /\ lost < MaxLost
  /\ line' = Tail(line)
  /\ lost' = lost + 1
  /\ UNCHANGED <<host_seq, request, inbox, result, parse, frame, device>>
  /\ Quiet

\* The application on the device.
DeviceApp == (RegisterHandler \/ SetState) /\ UNCHANGED host

HostInit ==
  /\ Init
  /\ line = <<>> /\ host_seq = 0 /\ request = NoRequest
  /\ inbox = <<>> /\ result = NoResult /\ lost = 0

HostNext == HostSend \/ HostRead \/ DeviceRx \/ LoseByte \/ DeviceApp

HostSpec == HostInit /\ [][HostNext]_allVars

\* The line delivers, the script's read times out, and the script goes on.
HostFairSpec ==
  HostSpec /\ WF_allVars(DeviceRx) /\ WF_allVars(HostRead) /\ WF_allVars(HostSend)

-----------------------------------------------------------------------------
(* Properties.                                                             *)

\* What the script read answers its command.  The frame a registered handler
\* sends by itself carries no sequence number of the host.
Answers(r) ==
  /\ r.reply.cmd # "none"
  /\ r.reply.cmd # "OWN" => r.reply.seq = r.request.seq

\* On a line that loses nothing, every command is answered before the script
\* stops waiting, and the first frame it reads answers this very command.
AnsweredInTurn == result # NoResult /\ lost = 0 => Answers(result)

\* A command that the device's own handlers carry out has been.
CarriedOut(r) ==
  /\ r.cmd = SET_VOLUME /\ SET_VOLUME \notin Handled => config.volume = r.data[1]
  /\ r.cmd = CONNECT_TO /\ CONNECT_TO \notin Handled => config.url = Len(r.data)
  /\ r.cmd = RESET /\ RESET \notin Handled => ~config.configured

\* An ACK that the script takes for its command means that the command was
\* carried out, even if bytes were lost and the script never compares the
\* sequence number of the answer with its own.
AckMeansDone ==
  result.reply.cmd = "ACK" =>
    result.reply.seq = result.request.seq /\ CarriedOut(result.request)

\* The device never carries out a command the host did not send: whatever
\* bytes are lost, what changes its configuration is the command under way.
OnlySentCommandsAct ==
  [][config' # config => request.waiting /\ Covered = Body(request)]_allVars

\* Losses do not desynchronise the two for good: once the line is clean,
\* there comes a command from which on each one gets its own answer.
Resynchronises == <>[](result # NoResult => Answers(result))

=============================================================================
