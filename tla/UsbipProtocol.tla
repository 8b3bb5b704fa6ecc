--------------------------- MODULE UsbipProtocol ---------------------------
(***************************************************************************)
(* src/lib/usbip_protocol.c composed with UsbipDevice: the server thread   *)
(* imports the device for a host, takes its submit and unlink commands,    *)
(* keeps IN and isochronous transfers pending, and completes them as data  *)
(* arrives and time passes, while application threads transmit.            *)
(*                                                                         *)
(* The host is the environment.  Its commands are numbered 1, 2, ... as    *)
(* the kernel's vhci driver numbers them; they are records, and replies    *)
(* are recorded in the order they are written.  Time is a clock that may   *)
(* tick between any two steps.                                             *)
(***************************************************************************)
EXTENDS UsbipDevice, Integers

CONSTANTS OutEp,             \* the OUT endpoints other than 0
          EndpointType,      \* per direction and endpoint: bulk, interrupt, iso
          Interval,          \* per direction and endpoint, 0 if not paced
          MAX_PENDING_URBS,
          WAIT_TIMEOUT_US,
          SubmitLength,      \* transfer lengths of bulk and interrupt transfers
          PacketCount,       \* numbers of packets in isochronous transfers
          HasEpDataCallback, \* usb_device->ep_data_callback != NULL
          HasIsoInCallback,  \* usb_device->iso_in_callback != NULL
          MaxCommands,       \* bound: commands of the host
          MaxTime            \* bound: the clock

(* The pairs of direction and number that name an endpoint. *)
Pipe == ({"in"} \X InEp) \cup ({"out"} \X OutEp)

ASSUME PipeAssumption ==
    /\ OutEp \subseteq 1 .. 15
    /\ EndpointType \in [Pipe -> {"bulk", "interrupt", "iso"}]
    /\ Interval \in [Pipe -> Nat]
ASSUME ProtocolAssumption ==
    /\ MAX_PENDING_URBS \in Nat
    /\ WAIT_TIMEOUT_US \in Nat
    /\ SubmitLength \subseteq Nat
    /\ PacketCount \subseteq Nat
    /\ HasEpDataCallback \in BOOLEAN /\ HasIsoInCallback \in BOOLEAN
    /\ MaxCommands \in Nat /\ MaxTime \in Nat
(* The host stays within the inputs and bounds of UsbipDevice. *)
ASSUME HostAssumption ==
    /\ SubmitLength \subseteq FetchLength
    /\ \A s \in Setup : s.length \in FetchLength
    /\ MaxCommands <= MaxRequests

VARIABLES
    at,               \* where the server thread is in the protocol
    device_imported,
    pending_urbs,     \* oldest first
    next_poll_us,     \* per pipe, when the next transfer may complete
    stream_end_us,    \* per pipe, when the last queued transfer completes
    wait_timeout_us,
    status,           \* the status of the pass through process_imported_device
    cmd,              \* the submit being handled
    packets,          \* isochronous packets still to hand to a callback
    scan,             \* now and idx of complete_pending_urbs
    \* the world
    now,              \* the monotonic clock
    wake_at,          \* when the ppoll in progress times out
    connected,        \* the host has not closed the connection
    \* history
    seqnum,           \* number of the last command
    session_start,    \* calls to transmit before this connection's import
    submitted,        \* transfers submitted on this connection
    replies           \* what was written on this connection

queueVars    == <<pending_urbs, next_poll_us, stream_end_us>>
worldVars    == <<now, wake_at, connected>>
historyVars  == <<seqnum, session_start, submitted, replies>>
sessionVars  == <<device_imported, wait_timeout_us, status, cmd, packets, scan>>
protocolVars == <<at, queueVars, sessionVars, worldVars, historyVars>>
allVars      == <<deviceVars, protocolVars>>

NoTimes == [p \in Pipe |-> 0]
NoCmd == [seqnum |-> 0, ep |-> 0, dir |-> "out", length |-> 0,
          isochronous |-> FALSE, packets |-> 0, complete_us |-> 0,
          supported |-> TRUE]

PipeOf(urb) == <<urb.dir, urb.ep>>

ProtocolInit ==
    /\ DeviceInit
    /\ at = "command"
    /\ device_imported = FALSE
    /\ pending_urbs = <<>>
    /\ next_poll_us = NoTimes
    /\ stream_end_us = NoTimes
    /\ wait_timeout_us = WAIT_TIMEOUT_US
    /\ status = TRUE
    /\ cmd = NoCmd
    /\ packets = 0
    /\ scan = [now |-> 0, idx |-> 1]
    /\ now = 0
    /\ wake_at = 0
    /\ connected = FALSE
    /\ seqnum = 0
    /\ session_start = 0
    /\ submitted = {}
    /\ replies = <<>>

-----------------------------------------------------------------------------
(* The world: time passes and the host may go away. *)

Tick ==
    /\ now < MaxTime
    /\ now' = now + 1
    /\ UNCHANGED <<deviceVars, at, queueVars, sessionVars, wake_at, connected,
                   historyVars>>

HostDisconnects ==
    /\ connected
    /\ connected' = FALSE
    /\ UNCHANGED <<deviceVars, at, queueVars, sessionVars, now, wake_at,
                   historyVars>>

(* A reply is written, or the write fails because the host is gone; a      *)
(* write to a host that has just gone may also succeed.                    *)
Write(urb, kind, data) ==
    \/ /\ replies' = Append(replies, [urb |-> urb, kind |-> kind, data |-> data])
       /\ status' = TRUE
    \/ /\ ~connected
       /\ status' = FALSE
       /\ UNCHANGED replies

-----------------------------------------------------------------------------
(* usbip_protocol_process_cmd: a host imports the device. *)

(* Mutant of Import: the new host takes the device as it is. *)
Import_WithoutReset ==
    /\ at = "command"
    /\ reset_generation + 1 < MaxResets
    /\ connected' = TRUE
    /\ pending_urbs' = <<>>
    /\ wait_timeout_us' = WAIT_TIMEOUT_US
    /\ next_poll_us' = NoTimes
    /\ stream_end_us' = NoTimes
    /\ session_start' = Len(calls)
    /\ submitted' = {}
    /\ replies' = <<>>
    /\ at' = "importing"
    /\ UNCHANGED <<deviceVars, device_imported, status, cmd, packets, scan, now,
                   wake_at, seqnum>>

(* A new host starts with an empty queue and a freshly reset device. *)
Import ==
    /\ at = "command"
    /\ reset_generation + 1 < MaxResets
    /\ connected' = TRUE
    /\ pending_urbs' = <<>>
    /\ wait_timeout_us' = WAIT_TIMEOUT_US
    /\ next_poll_us' = NoTimes
    /\ stream_end_us' = NoTimes
    /\ Reset
    /\ session_start' = Len(calls)
    /\ submitted' = {}
    /\ replies' = <<>>
    /\ at' = "importing"
    /\ UNCHANGED <<device_imported, status, cmd, packets, scan, now, wake_at,
                   seqnum>>

(* The reset has returned, the import reply is written or not. *)
ImportReply ==
    /\ at = "importing"
    /\ server = "ready"
    /\ \/ device_imported' = TRUE /\ at' = "poll"
       \/ ~connected /\ device_imported' = FALSE /\ at' = "command"
    /\ wake_at' = now + wait_timeout_us
    /\ UNCHANGED <<deviceVars, queueVars, wait_timeout_us, status, cmd, packets,
                   scan, now, connected, historyVars>>

-----------------------------------------------------------------------------
(* usbip_protocol_process_imported_device up to process_imported_cmd: the  *)
(* server thread waits in ppoll for a command, an event or the timeout.    *)

(* The host's next command is read; a host that went away may have sent    *)
(* some before.                                                            *)
NextCommand ==
    /\ at = "poll"
    /\ seqnum < MaxCommands
    /\ seqnum' = seqnum + 1

(* ppoll returns without a command; a closed connection counts as one. *)
PollReturns ==
    /\ at = "poll"
    /\ connected
    /\ ep_data_event \/ now >= wake_at
    /\ at' = "clear"
    /\ UNCHANGED <<deviceVars, queueVars, sessionVars, worldVars, historyVars>>

(* The read of a command fails because the host closed the connection. *)
ReadFails ==
    /\ at = "poll"
    /\ ~connected
    /\ status' = FALSE
    /\ at' = "clear"
    /\ UNCHANGED <<deviceVars, queueVars, device_imported, wait_timeout_us, cmd,
                   packets, scan, worldVars, historyVars>>

(* What was sent is no valid command: an unknown code, a transfer that is  *)
(* too long, too many packets or one outside its buffer.                   *)
InvalidCommand ==
    /\ NextCommand
    /\ status' = FALSE
    /\ at' = "clear"
    /\ UNCHANGED <<deviceVars, queueVars, device_imported, wait_timeout_us, cmd,
                   packets, scan, worldVars, session_start, submitted, replies>>

(* The submit that NextCommand numbers seqnum'. *)
Submitted(ep, dir, length, isochronous, count, supported) ==
    [seqnum |-> seqnum + 1, ep |-> ep, dir |-> dir, length |-> length,
     isochronous |-> isochronous, packets |-> count, complete_us |-> 0,
     supported |-> supported]

(* process_submit, control endpoint: the request goes to the device. *)
SubmitControl(s) ==
    /\ NextCommand
    /\ submitted' = submitted \cup {seqnum'}
    /\ Control(s)
    /\ cmd' = Submitted(0, IF s.in THEN "in" ELSE "out", s.length, FALSE, 0,
                        Supported(s))
    /\ at' = "control"
    /\ UNCHANGED <<queueVars, device_imported, wait_timeout_us, status, packets,
                   scan, worldVars, session_start, replies>>

(* The device's part is done: an IN request fetches the answer *)
ControlAnswer ==
    /\ at = "control"
    /\ cmd.dir = "in"
    /\ FetchAnswered
    /\ at' = "control_answer"
    /\ UNCHANGED <<queueVars, sessionVars, worldVars, historyVars>>

ControlFetch ==
    /\ at = "control_answer"
    /\ FetchControlReply(cmd.length)
    /\ at' = "control_reply"
    /\ UNCHANGED <<queueVars, sessionVars, worldVars, historyVars>>

(* and what nobody answered or supports is stalled. *)
Stalled ==
    \/ ~cmd.supported
    \/ cmd.dir = "in" /\ cmd.length > 0 /\ ~reply.answered

ControlReply ==
    /\ at = "control_reply" \/ (at = "control" /\ cmd.dir = "out")
    /\ server = "ready"
    /\ IF Stalled THEN Write(cmd.seqnum, "stalled", <<>>)
                  ELSE Write(cmd.seqnum, "done", reply.data)
    /\ cmd' = NoCmd
    /\ at' = "clear"
    /\ UNCHANGED <<deviceVars, queueVars, device_imported, wait_timeout_us,
                   packets, scan, worldVars, seqnum, session_start,
                   submitted>>

(* process_submit, OUT transfer: the data goes to the device's callback,   *)
(* then all of it is reported as accepted.                                 *)
SubmitOut(ep, length) ==
    /\ EndpointType[<<"out", ep>>] # "iso"
    /\ NextCommand
    /\ submitted' = submitted \cup {seqnum'}
    /\ cmd' = Submitted(ep, "out", length, FALSE, 0, TRUE)
    /\ IF length > 0 /\ HasEpDataCallback
       THEN StartCallback
       ELSE UNCHANGED deviceVars
    /\ at' = "received"
    /\ UNCHANGED <<queueVars, device_imported, wait_timeout_us, status, packets,
                   scan, worldVars, session_start, replies>>

OutReply ==
    /\ at = "received"
    /\ server = "ready"
    /\ Write(cmd.seqnum, "done", <<>>)
    /\ cmd' = NoCmd
    /\ at' = "clear"
    /\ UNCHANGED <<deviceVars, queueVars, device_imported, wait_timeout_us,
                   packets, scan, worldVars, seqnum, session_start,
                   submitted>>

(* Mutant of QueueFull: off by one. *)
QueueFull_OffByOne == Len(pending_urbs) = MAX_PENDING_URBS + 1

QueueFull == Len(pending_urbs) = MAX_PENDING_URBS

(* process_submit, IN transfer: it stays pending until there is data, or   *)
(* completes empty when the queue is full.                                 *)
SubmitIn(ep, length) ==
    /\ EndpointType[<<"in", ep>>] # "iso"
    /\ NextCommand
    /\ submitted' = submitted \cup {seqnum'}
    /\ IF QueueFull
       THEN Write(seqnum', "done", <<>>) /\ UNCHANGED pending_urbs
       ELSE /\ pending_urbs' = Append(pending_urbs, Submitted(ep, "in", length,
                                                       FALSE, 0, TRUE))
            /\ UNCHANGED <<replies, status>>
    /\ at' = "clear"
    /\ UNCHANGED <<deviceVars, next_poll_us, stream_end_us, device_imported,
                   wait_timeout_us, cmd, packets, scan, worldVars, session_start>>

-----------------------------------------------------------------------------
(* process_iso_submit. *)

(* OUT packets that are not empty are delivered, one callback each, before *)
(* the transfer is scheduled.                                              *)
SubmitIso(pipe, count) ==
    /\ EndpointType[pipe] = "iso"
    /\ NextCommand
    /\ submitted' = submitted \cup {seqnum'}
    /\ cmd' = Submitted(pipe[2], pipe[1], count, TRUE, count, TRUE)
    /\ packets' \in IF pipe[1] = "out" /\ HasEpDataCallback
                    THEN 0 .. count ELSE {0}
    /\ at' = "iso_submit"
    /\ UNCHANGED <<deviceVars, queueVars, device_imported, wait_timeout_us,
                   status, scan, worldVars, session_start, replies>>

(* One packet's callback, of the transfer being submitted or completed. *)
IsoPacket ==
    /\ at \in {"iso_submit", "iso_reply", "iso_scan"}
    /\ packets > 0
    /\ StartCallback
    /\ packets' = packets - 1
    /\ UNCHANGED <<at, queueVars, device_imported, wait_timeout_us, status, cmd,
                   scan, worldVars, historyVars>>

(* A transfer starts when the previous one on the pipe ends, and takes one *)
(* interval per packet.                                                    *)
IsoEnd(pipe, count) ==
    (IF stream_end_us[pipe] > now THEN stream_end_us[pipe] ELSE now)
        + count * Interval[pipe]

(* How many callbacks a reply to the transfer makes: IN packets are filled *)
(* by the device.                                                          *)
ReplyPackets(urb) ==
    IF urb.dir = "in" /\ HasIsoInCallback THEN urb.packets ELSE 0

ScheduleIso ==
    LET end == IsoEnd(PipeOf(cmd), cmd.packets)
        urb == [cmd EXCEPT !.complete_us = end]
    IN
    /\ at = "iso_submit"
    /\ packets = 0
    /\ server = "ready"
    /\ stream_end_us' = [stream_end_us EXCEPT ![PipeOf(cmd)] = end]
    /\ IF QueueFull
       THEN /\ packets' = ReplyPackets(urb)
            /\ at' = "iso_reply"
            /\ UNCHANGED <<pending_urbs, cmd>>
       ELSE /\ pending_urbs' = Append(pending_urbs, urb)
            /\ cmd' = NoCmd
            /\ at' = "clear"
            /\ UNCHANGED packets
    /\ UNCHANGED <<deviceVars, next_poll_us, device_imported, wait_timeout_us,
                   status, scan, worldVars, historyVars>>

(* transmit_iso_ret_submit of a transfer the queue has no room for. *)
IsoReply ==
    /\ at = "iso_reply"
    /\ packets = 0
    /\ server = "ready"
    /\ Write(cmd.seqnum, "overflow", <<>>)
    /\ cmd' = NoCmd
    /\ at' = "clear"
    /\ UNCHANGED <<deviceVars, queueVars, device_imported, wait_timeout_us,
                   packets, scan, worldVars, seqnum, session_start,
                   submitted>>

-----------------------------------------------------------------------------
(* process_unlink. *)

(* Mutant of remove_pending_urb: counts down without moving the rest. *)
remove_pending_urb_NotMoved(idx) ==
    SubSeq(pending_urbs, 1, Len(pending_urbs) - 1)

(* The transfers after the one removed move up. *)
remove_pending_urb(idx) ==
    [i \in 1 .. Len(pending_urbs) - 1 |->
        IF i < idx THEN pending_urbs[i] ELSE pending_urbs[i + 1]]

(* Mutant of Matching: the search misses the last transfer. *)
Matching_MissesLast(number) ==
    {i \in 1 .. Len(pending_urbs) - 1 : pending_urbs[i].seqnum = number}

(* Indices of the pending transfers with a number. *)
Matching(number) ==
    {i \in 1 .. Len(pending_urbs) : pending_urbs[i].seqnum = number}

First(indices) == CHOOSE i \in indices : \A j \in indices : i <= j

has_pending_iso_urbs(urbs, pipe) ==
    \E i \in 1 .. Len(urbs) : urbs[i].isochronous /\ PipeOf(urbs[i]) = pipe

(* Mutant of StreamEndAfterUnlink: starts over with transfers pending. *)
StreamEndAfterUnlink_Always(urb, urbs) ==
    IF urb.isochronous THEN [stream_end_us EXCEPT ![PipeOf(urb)] = 0]
    ELSE stream_end_us

(* A stream whose last transfer was cancelled starts over. *)
StreamEndAfterUnlink(urb, urbs) ==
    IF urb.isochronous /\ ~has_pending_iso_urbs(urbs, PipeOf(urb))
    THEN [stream_end_us EXCEPT ![PipeOf(urb)] = 0]
    ELSE stream_end_us

Unlink(number) ==
    /\ NextCommand
    /\ IF Matching(number) = {}
       THEN /\ Write(number, "unknown", <<>>)
            /\ UNCHANGED <<pending_urbs, stream_end_us>>
       ELSE LET idx == First(Matching(number)) IN
            /\ Write(number, "unlinked", <<>>)
            /\ pending_urbs' = remove_pending_urb(idx)
            /\ stream_end_us' =
                   StreamEndAfterUnlink(pending_urbs[idx], pending_urbs')
    /\ at' = "clear"
    /\ UNCHANGED <<deviceVars, next_poll_us, device_imported, wait_timeout_us,
                   cmd, packets, scan, worldVars, session_start, submitted>>

-----------------------------------------------------------------------------
(* The rest of usbip_protocol_process_imported_device.                     *)

(* The event is cleared before the pending transfers are looked at, then   *)
(* complete_pending_urbs samples the clock once.                           *)
ClearThenScan ==
    /\ at = "clear"
    /\ ClearEvent
    /\ scan' = [now |-> now, idx |-> 1]
    /\ wait_timeout_us' = IF status THEN WAIT_TIMEOUT_US ELSE wait_timeout_us
    /\ at' = "scan"
    /\ UNCHANGED <<queueVars, device_imported, status, cmd, packets, worldVars,
                   historyVars>>

Scanning ==
    /\ at = "scan"
    /\ status
    /\ server = "ready"
    /\ scan.idx <= Len(pending_urbs)

current == pending_urbs[scan.idx]

due_us(urb) ==
    IF urb.isochronous THEN urb.complete_us ELSE next_poll_us[<<"in", urb.ep>>]

(* Mutant of TimeoutFor: ppoll sleeps past the transfer. *)
TimeoutFor_Unchanged(urb) == wait_timeout_us

(* The time to wait is shortened to when the transfer is due. *)
TimeoutFor(urb) == Shorter(due_us(urb) - scan.now, wait_timeout_us)

(* Not polled yet: wake up when it is. *)
ScanNotDue ==
    /\ Scanning
    /\ scan.now < due_us(current)
    /\ wait_timeout_us' = TimeoutFor(current)
    /\ scan' = [scan EXCEPT !.idx = @ + 1]
    /\ UNCHANGED <<deviceVars, at, queueVars, device_imported, status, cmd,
                   packets, worldVars, historyVars>>

(* An isochronous transfer that is due is filled packet by packet *)
ScanIso ==
    /\ Scanning
    /\ scan.now >= due_us(current)
    /\ current.isochronous
    /\ packets' = ReplyPackets(current)
    /\ at' = "iso_scan"
    /\ UNCHANGED <<deviceVars, queueVars, device_imported, wait_timeout_us,
                   status, cmd, scan, worldVars, historyVars>>

(* and completed. *)
ScanIsoReply ==
    /\ at = "iso_scan"
    /\ packets = 0
    /\ server = "ready"
    /\ Write(current.seqnum, "iso", <<>>)
    /\ pending_urbs' = remove_pending_urb(scan.idx)
    /\ at' = "scan"
    /\ UNCHANGED <<deviceVars, next_poll_us, stream_end_us, device_imported,
                   wait_timeout_us, cmd, packets, scan, worldVars, seqnum,
                   session_start, submitted>>

(* Another transfer completes if its endpoint has data, and is left        *)
(* pending if not.                                                         *)
ScanFetch ==
    /\ Scanning
    /\ scan.now >= due_us(current)
    /\ ~current.isochronous
    /\ FetchEpData(current.ep, current.length)
    /\ IF Fetched(current.ep, current.length) # <<>>
       THEN /\ next_poll_us' = [next_poll_us EXCEPT ![<<"in", current.ep>>] =
                                    scan.now + Interval[<<"in", current.ep>>]]
            /\ pending_urbs' = remove_pending_urb(scan.idx)
            /\ Write(current.seqnum, "data", Fetched(current.ep, current.length))
            /\ UNCHANGED scan
       ELSE /\ scan' = [scan EXCEPT !.idx = @ + 1]
            /\ UNCHANGED <<next_poll_us, pending_urbs, status, replies>>
    /\ UNCHANGED <<at, stream_end_us, device_imported, wait_timeout_us, cmd,
                   packets, worldVars, seqnum, session_start, submitted>>

(* Mutant of ScanEnds: the event is cleared after the transfers were       *)
(* looked at.                                                              *)
ScanEnds_ClearsEvent ==
    /\ at = "scan"
    /\ status
    /\ scan.idx > Len(pending_urbs)
    /\ ClearEvent
    /\ wake_at' = now + wait_timeout_us
    /\ at' = "poll"
    /\ UNCHANGED <<queueVars, sessionVars, now, connected, historyVars>>

(* Every transfer was looked at: back to ppoll. *)
ScanEnds ==
    /\ at = "scan"
    /\ status
    /\ scan.idx > Len(pending_urbs)
    /\ wake_at' = now + wait_timeout_us
    /\ at' = "poll"
    /\ UNCHANGED <<deviceVars, queueVars, sessionVars, now, connected,
                   historyVars>>

(* The connection is lost: forget its transfers and reset the device. *)
LostConnection ==
    /\ at = "scan"
    /\ ~status
    /\ device_imported' = FALSE
    /\ pending_urbs' = <<>>
    /\ Reset
    /\ connected' = FALSE
    /\ status' = TRUE
    /\ at' = "detaching"
    /\ UNCHANGED <<next_poll_us, stream_end_us, wait_timeout_us, cmd, packets,
                   scan, now, wake_at, historyVars>>

(* The reset has returned: the connection is closed and the server waits   *)
(* for the next one.                                                       *)
Detached ==
    /\ at = "detaching"
    /\ server = "ready"
    /\ at' = "command"
    /\ UNCHANGED <<deviceVars, queueVars, sessionVars, worldVars, historyVars>>

-----------------------------------------------------------------------------
Submit ==
    \/ \E s \in Setup : SubmitControl(s)
    \/ \E ep \in OutEp, length \in SubmitLength : SubmitOut(ep, length)
    \/ \E ep \in InEp, length \in SubmitLength : SubmitIn(ep, length)
    \/ \E pipe \in Pipe, count \in PacketCount : SubmitIso(pipe, count)

(* Steps the server thread takes by itself. *)
ProtocolStep ==
    \/ ImportReply
    \/ PollReturns \/ ReadFails
    \/ ControlAnswer \/ ControlFetch \/ ControlReply
    \/ OutReply
    \/ IsoPacket \/ ScheduleIso \/ IsoReply
    \/ ClearThenScan
    \/ ScanNotDue \/ ScanIso \/ ScanIsoReply \/ ScanFetch \/ ScanEnds
    \/ LostConnection \/ Detached

(* Steps of the host. *)
HostStep ==
    \/ Import
    \/ InvalidCommand
    \/ Submit
    \/ \E number \in submitted : Unlink(number)
    \/ HostDisconnects

ProtocolNext ==
    \/ ProtocolStep
    \/ HostStep
    \/ Tick
    \/ /\ ServerStep \/ \E t \in Thread : ThreadStep(t)
       /\ UNCHANGED protocolVars

ProtocolSpec == ProtocolInit /\ [][ProtocolNext]_allVars

(* The server thread keeps running, and so does a thread that has stored   *)
(* data and is about to write the eventfd; the host, the clock and threads *)
(* in critical sections owe nothing.                                       *)
ProtocolFairness ==
    /\ WF_allVars(ProtocolStep)
    /\ WF_allVars(ServerStep /\ UNCHANGED protocolVars)
    /\ \A t \in Thread :
           WF_allVars(SignalEvent(t) /\ UNCHANGED protocolVars)

FairProtocolSpec == ProtocolSpec /\ ProtocolFairness

-----------------------------------------------------------------------------
(* Properties *)

Urb == [seqnum : Nat, ep : 0 .. 15, dir : {"in", "out"}, length : Nat,
        isochronous : BOOLEAN, packets : Nat, complete_us : Nat,
        supported : BOOLEAN]
Kind == {"done", "stalled", "data", "iso", "overflow", "unlinked", "unknown"}

(* Every variable holds values of its type, and the queue of pending       *)
(* transfers never outgrows its array.                                     *)
ProtocolTypeOK ==
    /\ at \in {"command", "importing", "poll", "control", "control_answer",
               "control_reply", "received", "iso_submit", "iso_reply", "clear",
               "scan", "iso_scan", "detaching"}
    /\ device_imported \in BOOLEAN
    /\ pending_urbs \in Seq(Urb)
    /\ Len(pending_urbs) <= MAX_PENDING_URBS
    /\ next_poll_us \in [Pipe -> Nat]
    /\ stream_end_us \in [Pipe -> Nat]
    /\ wait_timeout_us \in 0 .. WAIT_TIMEOUT_US
    /\ status \in BOOLEAN
    /\ cmd \in Urb
    /\ packets \in Nat
    /\ scan \in [now : Nat, idx : Nat \ {0}]
    /\ now \in Nat
    /\ wake_at \in Nat
    /\ connected \in BOOLEAN
    /\ seqnum \in Nat
    /\ session_start \in Nat
    /\ submitted \subseteq 1 .. seqnum
    /\ replies \in Seq([urb : Nat, kind : Kind, data : Seq(Byte)])

(* While the server waits in ppoll, every transfer it could complete will  *)
(* wake it: data that is ready has its event set or about to be set by the *)
(* thread that stored it, unless the endpoint is not due before the        *)
(* timeout; an isochronous transfer is always covered by the timeout.      *)
Signalled == ep_data_event \/ \E p \in Process : pc[p] = "signal"
TimeoutCovers(u) ==
    /\ due_us(u) > scan.now
    /\ wait_timeout_us <= due_us(u) - scan.now
NoLostWakeUp ==
    at = "poll" =>
        \A i \in 1 .. Len(pending_urbs) :
            LET u == pending_urbs[i] IN
            \/ TimeoutCovers(u)
            \/ /\ ~u.isochronous
               /\ \/ Signalled
                  \/ endpoint_data[u.ep] = <<>>
                  \/ u.length = 0

(* A host is only sent what was transmitted since it imported the device:  *)
(* neither data from an earlier host's session nor data transmitted while  *)
(* nobody was attached, nor that of a transmit that waited in between.     *)
HostSeesItsSession ==
    \A i \in 1 .. Len(replies) : \A k \in 1 .. Len(replies[i].data) :
        replies[i].data[k][1] > session_start

(* Every transfer submitted on a connection is in exactly one place: being *)
(* handled, pending, or answered, once, by its completion or by its        *)
(* cancellation.                                                           *)
Serving == at \notin {"command", "importing", "detaching"} /\ status
Answers(number) ==
    {i \in 1 .. Len(replies) :
        replies[i].urb = number /\ replies[i].kind # "unknown"}
Places(number) ==
    {<<"replies", i>> : i \in Answers(number)}
    \cup {<<"pending_urbs", i>> : i \in Matching(number)}
    \cup (IF cmd.seqnum = number THEN {<<"cmd", 0>>} ELSE {})
ExactlyOneAnswer ==
    Serving =>
        \A number \in submitted :
            \E place \in Places(number) : Places(number) = {place}

(* A host that cancels a transfer and is told that there was nothing to    *)
(* cancel has been sent the completion before (usbip_protocol.c:329).      *)
NothingToUnlinkMeansAnswered ==
    \A i \in 1 .. Len(replies) :
        replies[i].kind = "unknown" =>
            \E j \in 1 .. i - 1 : j \in Answers(replies[i].urb)

(* A transfer that was queued never overtakes one of its own isochronous   *)
(* stream, even after some were cancelled.  Only a transfer that finds the *)
(* queue full does: it is filled and answered at once, before the older    *)
(* ones of its stream that are pending (usbip_protocol.c:314).             *)
Overtaken(urb) ==
    {i \in 1 .. Len(pending_urbs) :
        /\ pending_urbs[i].isochronous
        /\ PipeOf(pending_urbs[i]) = PipeOf(urb)
        /\ pending_urbs[i].seqnum < urb.seqnum}
IsoInOrder ==
    /\ at = "iso_scan" => Overtaken(current) = {}
    /\ at = "iso_reply" => Overtaken(cmd) = {} \/ QueueFull

(* What usbip_protocol.c:369 says of complete_pending_urbs: "Oldest first, *)
(* so data reaches the host in the order the transfers were queued".       *)
OldestGetsData ==
    [][ScanFetch /\ pending_urbs' # pending_urbs =>
         \A i \in 1 .. scan.idx - 1 :
             \/ pending_urbs[i].isochronous
             \/ pending_urbs[i].ep # current.ep
             \/ pending_urbs[i].length = 0]_allVars

(* Data does not wait for a timeout: what an application thread stores     *)
(* reaches a host that has a transfer pending for it, or the transfer or   *)
(* the connection goes away, unless an application keeps the server thread *)
(* waiting for a critical section for ever.                                *)
Deliverable(ep) ==
    /\ Serving
    /\ endpoint_data[ep] # <<>>
    /\ \E i \in 1 .. Len(pending_urbs) :
           /\ pending_urbs[i].ep = ep
           /\ ~pending_urbs[i].isochronous
           /\ pending_urbs[i].length > 0
DataReachesHost ==
    []<>(server # "locking") =>
        \A ep \in InEp : Deliverable(ep) ~> ~Deliverable(ep)

=============================================================================
