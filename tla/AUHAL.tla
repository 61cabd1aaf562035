------------------------------- MODULE AUHAL -------------------------------
(***************************************************************************)
(* The output audio unit of runtime/optimized/audio/AUHAL.cpp and its two  *)
(* subclasses, over the devices of module AudioStreams.                    *)
(*                                                                         *)
(* Start, Stop and the properties run under the component's mutex, one at  *)
(* a time.  A captured packet is cut into chunks on the input device's     *)
(* queue; for each one the application's input callback is called, which   *)
(* may Render it.  A frame of a packet is named by its sample time.        *)
(***************************************************************************)
EXTENDS Naturals, FiniteSets

CONSTANTS Devices,     \* devices of the host
          Inputs, Outputs,  \* the ones with channels in a direction
          Formats,     \* stream formats ValidFormat accepts
          MaxSlice,    \* GetMaxFramesPerSlice
          Packets,     \* sizes of captured packets in frames
          MaxIds,      \* bound: IO proc ids handed out by a device
          MaxFrames,   \* bound: frames captured in a behaviour
          None

Buses == {"out", "in"}

VARIABLES kind,        \* "hal", or the subclass "default" (DefaultOutputAU) or "system" (SystemOutputAU)
          enable,      \* m_enableOutput, m_enableInput
          device,      \* m_outputDevice, m_inputDevice
          procID,      \* m_outputProcID, m_inputProcID
          running,     \* m_running
          format,      \* the unit's stream format on each bus
          alive,       \* devices the host still has
          hal,         \* each device: its next id, and its procs with the format they stream
          captured,    \* sample time of the input stream
          packet,      \* doRecord: the packet and the offset it has reached, or None
          buffer,      \* m_buffer's bytes: first frame and number, or None
          rendered     \* what the last Render inside a callback copied

unit == <<kind, enable, device, procID, running, format>>
record == <<captured, packet, buffer, rendered>>
vars == <<unit, alive, hal, record>>

Has(d, b) == d \in (IF b = "in" THEN Inputs ELSE Outputs)

\* The constructors ask for the default devices; there may be none (0).
Init ==
  /\ kind \in {"hal", "default", "system"}
  /\ enable = [b \in Buses |-> b = "out"]
  /\ device \in {f \in [Buses -> Devices \cup {None}] : \A b \in Buses : f[b] # None => Has(f[b], b)}
  /\ procID = [b \in Buses |-> None]
  /\ running = FALSE
  /\ format \in [Buses -> Formats]
  /\ alive = Devices
  /\ hal = [d \in Devices |-> [next |-> 1, procs |-> {}, streams |-> {}]]
  /\ captured = 0 /\ packet = None /\ buffer = None /\ rendered = None

-----------------------------------------------------------------------------
(* Start, Stop and the properties. *)

\* The buses on which Start creates an IO proc: the device object exists.
Startable(dev) == {b \in Buses : enable[b] /\ dev[b] # None}

\* AudioDeviceCreateIOProcID, the format and AudioDeviceStart on a device: a
\* dead device does not start, and nobody looks at the result.
Started(h, d, b) ==
  [next |-> h.next + 1, procs |-> h.procs \cup {h.next},
   streams |-> IF d \in alive THEN h.streams \cup {[id |-> h.next, bus |-> b, format |-> format[b]]}
               ELSE h.streams]

StartedOn(h, dev, d) ==
  LET buses == {b \in Startable(dev) : dev[b] = d}
  IN  CASE buses = {} -> h[d]
        [] buses = Buses -> Started(Started(h[d], d, "out"), d, "in")
        [] OTHER -> Started(h[d], d, CHOOSE b \in buses : TRUE)

IdsOn(h, dev) == [b \in Buses |->
  IF b \notin Startable(dev) THEN None
  ELSE IF b = "in" /\ dev["out"] = dev["in"] /\ "out" \in Startable(dev) THEN h[dev[b]].next + 1
  ELSE h[dev[b]].next]

\* Start from a stopped unit with the given devices.
StartFrom(h, dev) ==
  /\ hal' = [d \in Devices |-> StartedOn(h, dev, d)]
  /\ procID' = IdsOn(h, dev)
  /\ running' = (enable["out"] \/ enable["in"])

\* Stop looks at the proc ids, whatever is enabled by now.
Stops(b, d) == procID[b] # None /\ device[b] = d

StoppedHal == [d \in Devices |->
  LET gone == {procID[b] : b \in {c \in Buses : Stops(c, d)}}
  IN  [hal[d] EXCEPT !.procs = @ \ gone, !.streams = {s \in @ : s.id \notin gone}]]

\* A stop waits for the callback that runs on the queue.
BetweenPackets == packet = None

CanStart == \A d \in Devices : hal[d].next + 1 < MaxIds

Start ==
  /\ ~running /\ CanStart
  /\ StartFrom(hal, device)
  /\ UNCHANGED <<kind, enable, device, format, alive, record>>

\* Stop, also called by the destructor.
Stop ==
  /\ BetweenPackets
  /\ hal' = StoppedHal
  /\ procID' = [b \in Buses |-> None]
  /\ running' = FALSE
  /\ UNCHANGED <<kind, enable, device, format, alive, record>>

\* kAudioOutputUnitProperty_EnableIO; SystemOutputAU refuses the input bus.
SetEnableIO(b, on) ==
  /\ kind = "system" => b = "out"
  /\ enable' = [enable EXCEPT ![b] = on]
  /\ UNCHANGED <<kind, device, procID, running, format, alive, hal, record>>

\* The devices after kAudioOutputUnitProperty_CurrentDevice on an element.
Selected(b, d) == [c \in Buses |->
  IF c = "in" /\ Has(d, "in") THEN d
  ELSE IF c = "out" /\ Has(d, "out") /\ b = "out" THEN d ELSE device[c]]

\* Mutant: the device changes under the running streams.
SetCurrentDeviceHot(b, d) ==
  /\ kind = "hal" /\ BetweenPackets
  /\ Has(d, "in") \/ (b = "out" /\ Has(d, "out"))
  /\ device' = Selected(b, d)
  /\ UNCHANGED <<kind, enable, procID, running, format, alive, hal, record>>

\* CurrentDevice, which the subclasses refuse: a running unit is stopped, and started on the new device.
SetCurrentDevice(b, d) ==
  /\ kind = "hal" /\ BetweenPackets /\ CanStart
  /\ Has(d, "in") \/ (b = "out" /\ Has(d, "out"))
  /\ device' = Selected(b, d)
  /\ \/ running /\ StartFrom(StoppedHal, Selected(b, d))
     \/ ~running /\ UNCHANGED <<hal, procID, running>>
  /\ UNCHANGED <<kind, enable, format, alive, record>>

StreamFormatWritable == ~running

\* AUBase sets a format that is writable and valid.
SetStreamFormat(b, f) ==
  /\ StreamFormatWritable
  /\ format' = [format EXCEPT ![b] = f]
  /\ UNCHANGED <<kind, enable, device, procID, running, alive, hal, record>>

\* The host loses a device.
DeviceDies(d) ==
  /\ d \in alive
  /\ alive' = alive \ {d}
  /\ UNCHANGED <<unit, hal, record>>

-----------------------------------------------------------------------------
(* Recording. *)

\* recordCallback and doRecord: a packet arrives on the input device's queue.
Record(n) ==
  /\ BetweenPackets /\ captured + n <= MaxFrames
  /\ device["in"] \in alive
  /\ \E s \in hal[device["in"]].streams : s.id = procID["in"]
  /\ packet' = [size |-> n, offset |-> 0, told |-> None]
  /\ UNCHANGED <<unit, alive, hal, captured, buffer, rendered>>

\* The input callback's time: the packet's, moved by the chunk's offset.
ChunkTime == captured + packet.offset

ChunkFrames ==
  LET left == packet.size - packet.offset IN IF left < MaxSlice THEN left ELSE MaxSlice

\* The chunk is copied under m_dataAvailableMutex and the callback begins.
RecordChunk ==
  /\ packet # None /\ packet.told = None /\ packet.offset < packet.size
  /\ buffer' = [first |-> captured + packet.offset, frames |-> ChunkFrames]
  /\ packet' = [packet EXCEPT !.told = [first |-> ChunkTime, frames |-> ChunkFrames]]
  /\ rendered' = None
  /\ UNCHANGED <<unit, alive, hal, captured>>

\* Render in the input callback copies what m_buffer holds.
Render ==
  /\ packet # None /\ packet.told # None
  /\ rendered' = buffer
  /\ UNCHANGED <<unit, alive, hal, captured, packet, buffer>>

NextOffset == packet.offset + packet.told.frames

\* The callback returns and the loop goes on; after the last chunk the stream
\* adds the packet to its sample time.
ChunkDone ==
  /\ packet # None /\ packet.told # None
  /\ IF NextOffset < packet.size
     THEN packet' = [packet EXCEPT !.offset = NextOffset, !.told = None] /\ UNCHANGED captured
     ELSE packet' = None /\ captured' = captured + packet.size
  /\ UNCHANGED <<unit, alive, hal, buffer, rendered>>

Next ==
  \/ Start \/ Stop
  \/ \E b \in Buses, on \in BOOLEAN : SetEnableIO(b, on)
  \/ \E b \in Buses, d \in Devices : SetCurrentDevice(b, d)
  \/ \E b \in Buses, f \in Formats : SetStreamFormat(b, f)
  \/ \E d \in Devices : DeviceDies(d)
  \/ \E n \in Packets : Record(n)
  \/ RecordChunk \/ Render \/ ChunkDone

Spec == Init /\ [][Next]_vars

-----------------------------------------------------------------------------
(* Properties. *)

\* Types.
TypeOK ==
  /\ enable \in [Buses -> BOOLEAN] /\ device \in [Buses -> Devices \cup {None}]
  /\ procID \in [Buses -> 1..MaxIds \cup {None}] /\ running \in BOOLEAN
  /\ format \in [Buses -> Formats] /\ alive \subseteq Devices
  /\ \A d \in Devices : hal[d].procs \subseteq 1..MaxIds
  /\ captured \in 0..MaxFrames
  /\ packet # None => packet.offset \in 0..packet.size
  /\ buffer # None => buffer.frames \in 1..MaxSlice

\* The IO procs of the unit are exactly the ones its ids name, on the devices
\* it names: none is forgotten or stopped on another device, whatever is
\* enabled, selected or lost while the unit runs.
ProcsAccounted ==
  \A d \in Devices : hal[d].procs = {procID[b] : b \in {c \in Buses : procID[c] # None /\ device[c] = d}}

\* A stopped unit streams nowhere, and Start finds no old proc ids.
StoppedIsSilent ==
  ~running => /\ \A b \in Buses : procID[b] = None
              /\ \A d \in Devices : hal[d].streams = {}

\* A stream runs in the unit's format of its bus: the format cannot change
\* between Start and Stop.
StreamsInUnitFormat == \A d \in Devices : \A s \in hal[d].streams : s.format = format[s.bus]

\* What an input callback renders is what it was told about, also when one
\* packet is cut into several chunks (AUHAL.cpp:358).
RendersItsChunk ==
  rendered # None /\ packet # None /\ packet.told # None => rendered = packet.told

Safety == TypeOK /\ ProcsAccounted /\ StoppedIsSilent /\ StreamsInUnitFormat /\ RendersItsChunk
=============================================================================
