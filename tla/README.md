# GNC2 in TLA+

GNC2 is the firmware of a flight guidance computer: C on a bare SAMD21
(Cortex-M0+), with its own small cooperative operating system. This directory
models it in TLA+, checks the models with TLC and proves theorems about them
with TLAPS. Source paths below are relative to `src/source/`.

## The system

| Component | State it keeps | Operations | Modelled |
|---|---|---|---|
| Scheduler (`RTOS/rtos_process.c`, `rtos_main.c`, `rtos_time.c`, `RTOSDrivers/rtos_dma.c`) | ring of processes, each with status, deadline and wait record | dispatch, next, switch, yield, wait, delay, timed wait, join | yes |
| CPU utilization (in `next_process`, `main.c`) | tick counters, epoch | count, divide once a second, publish | yes |
| Bus manager (`RTOSDrivers/bus_manager.c`) | ring of requests, each with status and busy time | push, scan, mark, execute, clear | yes |
| Device drivers on the bus (`RTOSDrivers/dma_*.c`) | what is left of each request | one request processor per device | EEPROM and IMU; the others as calls |
| USB process (`RTOSDrivers/rtos_usb.c`, `Drivers/usb/usb_serial.c`) | interrupt flag, a send, a read, two endpoints | start and wait for send and read, the interrupt, quit | yes |
| USB device stack (`Drivers/usb/usb*.c`) | control transfer, configuration | setup, completion, reset | endpoint 0 |
| Serial ports (`global_ports.c`, `rtos_uart.c`, `uart.c`, `dma.c`) | DMA descriptors and channels | start, wait, wait or timeout, endless receive | transfers; not the set-up |
| Communications link (`comms.c`) | packet under assembly, frames received | receive, ask again, evaluate, send | over USB |
| Global variables (`globals.c`, `global_variables.h`) | values in memory and EEPROM | look up, set, get, load, save, start-up header | yes |
| IMU and navigation (`global_imu.c`, `navigation.c`, `imu_icm20948.c`) | the sensor's registers, range selection, last reading | set up, request, scale, change range | readings as motions |
| Radio receiver (`rc_receiver.c`) | circular buffer, channels, failsafe | search, check, decode | yes |
| Preemption (`rtos_preemption.c`) | - | - | no: nothing enables it |
| Register drivers (`Drivers/*.c`), start-up (`main.c`) | - | - | no: pure I/O |

How they interact: every activity is a `Process` of the scheduler (main with
the communications loop, `usbproc`, `spiproc` which is the bus manager, the
radio receiver, navigation, the buzzer). A process gives up the processor only
in `wait_until*`, in a delay, in a wait for a DMA transfer or by returning.
Processes talk through shared variables that another process waits on: a client
puts a request into the bus manager's ring and waits for its `status`, a USB
client waits for `usb_send_status`, and interrupt handlers set flags such as
`usb_interrupt`. The hardware timer runs all the time.

What is hard about it is in `PROJECT.json` under `hazards`, each at its line:
two rings whose entries are moved from both ends, deadlines on a timer that
wraps every 90 seconds, marking requests by walking a ring that may end earlier
than the walk, processes that are `Done` while they run, lost frames, and power
loss between two writes. What makes each component correct:

- scheduler: no process is lost, doubled or run twice at once; a wait ends only
  for its reason and does end; the queue is in deadline order;
- bus manager: a device is not disturbed while busy, its requests are served in
  order, a waiting client is always released;
- USB and serial ports: no interrupt is overlooked, bytes arrive once and in
  order, a wait ends with its own transfer, a started operation ends;
- control endpoint: a host gets the descriptor it asks for, whole, whatever it
  gave up before;
- link: a packet is evaluated only when all of its frames have arrived, and once;
- globals: what was saved survives power loss, an ID never finds another
  variable than its own;
- IMU: a reading is scaled with the range it was taken at, ranges settle;
- receiver: only whole frames reach the channels, and never an older one;
- CPU utilization: no stretch of time is counted twice or not at all.

## Modules

| Module | What it is |
|---|---|
| `ProcessPool` | what the scheduler promises: a set of live processes, one running |
| `RtosProcess` | the scheduler, with a refinement mapping to `ProcessPool` |
| `CpuUtilization` | the tick counters of `next_process` and what `main` publishes |
| `BusService` | what the bus manager promises: the requests that wait, and that each device gets its own in the order they came |
| `BusManager` | the bus manager and its clients, with a refinement mapping to `BusService` |
| `UsbStream` | what a send promises: bytes in order, each once, then completion |
| `RtosUsb` | the USB process and the bulk endpoints, with a refinement mapping to `UsbStream` |
| `UsbControl` | endpoint 0: the control transfers of the device stack |
| `SerialPort` | the ports over DMA channels that share one selection register |
| `CommsLink` | frames, packets, requests for frames, and the station at the other end |
| `GlobalStore` | variables in memory and EEPROM, value lists, power failures |
| `GlobalMap` | the generated tables that lead from an ID to a variable |
| `ImuRange` | the inertial sensor's set-up and its automatic ranges |
| `RcReceiver` | the search for frames in a buffer that is being written |
| `MC*` | the values and sets that the instances of a module use |
| `*Proofs` | theorems about the module they are named after: `RtosProcess`, `CpuUtilization`, `BusManager`, `RtosUsb`, `UsbControl`; `SerialPort` with `CommsLink`, `GlobalStore` with `GlobalMap`, `ImuRange` with `RcReceiver` |

Three modules of proofs are about two modules each. The definitions of
`CommsLink` and `RcReceiver` that every module has carry a prefix (`LinkSpec`,
`RcTypeOK`, `rc_pc`), so that they can stand beside those of the other.

Definitions named "Mutant" in a comment are plausible bugs; no specification
uses them. They show that a property can fail: replacing the definition after
them by the mutant makes TLC report a violation (list in `PROJECT.json`).

### RtosProcess

State: `process_queue` with `process_queue_head`, `process_queue_tail` and
`process_count` is the ring of `rtos_process.c`; `status`, `return_deadline` and
`internal_data` are the fields of `Process`; `memory` are shared variables;
`now` is the timer, modulo `TimeMod`; `irq` tells whether interrupts are on;
`control` tells which code has the processor. `remaining` is a history variable
that counts down real ticks of a delay, so that wrapping can be judged.

| Action | Code |
|---|---|
| `NextProcess` | `next_process` up to `switch_process`: scan, callback, condition, closing the gap |
| `SwitchProcess` | `switch_process`, and the tail of `yield_process` of the process that resumes |
| `WaitUntil`, `WaitUntilOrTimeout`, `RtosDelay` | the three kinds of wait, with `yield_process` |
| `StartProcess` | `init_process` or `reset_process`, then `dispatch_process` |
| `Finish` | the process function returns |
| `Assign` | a process writes a shared variable |
| `RtosMain` | `dispatch_process(lastproc)` and the loop test |
| `Interrupt` | an interrupt handler sets a flag, while interrupts are on |
| `Tick` | the timer |

Abstractions. A process's computation is the calls it makes. A wait's mask is
left out (the values are small). One scan or insertion reads the timer once,
where the code's scan reads it once per callback; interrupts are off there and
the timer moves by a few ticks at most. An unknown condition, at which
`next_process` returns 0, is not a value any caller passes. Slots outside the
queue hold null where the code leaves an old pointer that nothing reads. A
process is started only when it is not in the scheduler's hands, as this
program does. Stacks and registers are left out, and so is preemption.

### BusManager

State: the ring `request_queue`; each request's `status`, `busy`, `busy_until`;
`operation`, what is left to do for it; `control`, `blocked_count` and
`current_request` of the manager; `client`, whether the client is elsewhere,
waiting in front of a full ring, or waiting for the result. `device_busy` is a
history variable: the real ticks a device still needs. Slots outside the queue
keep their old pointers here, because the code reads them.

| Action | Code |
|---|---|
| `RequestTransaction`, `RetryPush` | `busmanager_request_transaction`, before and after its wait |
| `WaitUntilDone` | a driver's `*_wait_until_done` returns |
| `MessageLoop` | the loop's head and its wait for a request |
| `ScanRequest` | one turn of the scan, with `set_matching_id_status` |
| `AllBlocked`, `Unblock` | `wait_until_callback` and its end |
| `ExecuteRequest`, `EndTransfer` | the call of the request processor, which waits for its DMA transfer |
| `ClearRequest` | removing a finished request and closing the gap |
| `Tick` | timer and devices |

Clients run only while the manager waits (`control \in Waiting`), which is what
cooperative scheduling means; the timer moves between any two steps, also
within a scan. A request processor is the number of calls it needs, each of
which yields, and whether the last leaves the device busy: that is all the
manager sees of `dma_eeprom_cat25.c`, `dma_flash_at25.c` and
`dma_imu_icm20948.c`. The barometer's (`dma_baro_ms56.c`), which no process of
this program uses, is left out. Busy times are kept as ticks left,
since milliseconds are far from the 2^31 ticks where the comparison would turn.
A null slot matches no device. A busy device that reports ready later than the
driver's fixed time is hardware and not modelled.

### CpuUtilization

State: `process_utilization_tick_counter`, `total_utilization_tick_counter` and
the epoch of `next_process`, the two calculated percentages, and what `main`
publishes of them. `Tick` moves the timer between any two reads. `RunProcess`
and `Return` are the two ends of a process's turn, `CheckSecond`,
`CalculateStep` and `StartEpoch` the statements of the division, in the order of
the code. `elapsed` and `busy` are history variables: real time, without wraps.

### RtosUsb

State: `start` is how far `rtos_usb_init` has come, `pc` the place in
`usb_proc_loop`; `usb_interrupt`, `usb_quit`, `usb_tx_busy`,
`usb_rx_buffer_length` and both buffers are the code's; `send` and `read` are
the two operations; `ep_in` and `ep_out` are the banks of endpoint 2 with the
completion flag and its interrupt enable; `nvic` is the enable of `USB_IRQn`,
`eorst` and `setup` the flags of a bus reset and of endpoint 0. Byte i of a
direction is the number i.

| Action | Code |
|---|---|
| `Attach`, `ProcStart`, `InitEnd` | `rtos_usb_init` with the start of `usb_proc_loop` in its middle |
| `USB_Handler` | the interrupt handler, which masks itself |
| `Wake`, `SendMore`, `ReadMore` | `usb_proc_loop` |
| `ReadStatus`, `HandleReset`, `HandleControl`, `MaskFlags`, `CompleteOut`, `CompleteIn`, `HandleEnd` | `usb_handle_function` and its callbacks, one step for each access the hardware can fall between |
| `StartSend`, `StartRead`, `Quit` | the operations of the clients |
| `BusReset`, `HostConfigures`, `HostTakes`, `HostSends` | the host and the endpoint hardware (external) |

The host sends whenever the OUT endpoint takes a packet, before, during and after
a read, of any length from none to a full one. Clients send once the host has
configured the device: they answer it. `UsbStream`
is the abstract specification of a send. `Place`, the refinement mapping, is
where the stream has come to: what was handed over, less what is left of the
operation and the packet that waits in the bank.

### UsbControl

State: endpoint 0 with its flags and banks, `usb_setup`, `usb_configuration`,
the rest of a descriptor that takes several packets, and the host's side of a
control transfer. The handler reads the flags (`ReadFlags`), clears all of them,
set or not when they were read (`ClearFlags`), copies the setup packet
(`TakeSetup`), answers it (`HandleSetup`) and serves OUT and IN completions
(`HandleOutComplete`, `HandleInComplete`), each in an action of its own; the
host acts between any two of them, and a bus reset falls there too. All standard
requests and the CDC class requests are there, and the requests the code
neither answers nor refuses (`Ignored`: those of a vendor, and class requests to
another interface than 0). A packet is what it holds, the offset it begins at
and its size; the sizes of descriptors are those of the structures in
`usb_standard.h` and `cdc_standard.h`. External: the host, which may give up a
transfer at any stage, and the controller, whose banks a setup packet makes not
ready. `host.clean` is a history variable: the last setup packet came when the
handler had no completion of the IN bank and no older setup packet left to deal
with, and was not about to clear its flags (`Busy`), and there was no bus reset
since. The properties are about such transfers; the code serves others in the
wrong order, see below.

### SerialPort

State: `chid` is the one register that selects a DMA channel for everybody;
`channel` has a channel's descriptor, enable bit, completion flag and beats
left; `pc` and `op` tell what each process does with its port. `StartDisable`
and `StartEnable` are the two halves of a start (both select the channel),
`Poll` and `PollTimed` the callbacks that `next_process` calls for a waiting
process, `Beat` the DMA controller, `SpiStart` and `SpiPoll` the bus process,
which uses the same register. Two history variables: `moved` counts the beats of
a channel since its transfer was started, `again` marks the channels that
`rtos_uart.c` 49 has enabled again behind a wait with a time-out, until the next
transfer there. Transfers of PORT0 are those of `RtosUsb` and are a flag here.

### CommsLink

State: `rxpacket` and `received` are what `get_packet` has put together,
`rxframe` the last frame, `txpacket` and `count` the response that is being
sent; `to_device` and `to_station` are the frames on their way; `station` is the
ground station, which speaks the same protocol; `evaluated` counts how often a
request was carried out.

| Action | Code |
|---|---|
| `BadFrame` | `get_frame` when the check fails |
| `MoreFrames`, `AskAgain`, `ResendRequested` | the loop of `get_packet` |
| `Evaluate` | the end of `get_packet` and `evaluatePacket` |
| `SendFrame`, `ResendFrame` | `send_packet(false)`, `send_packet(true)` |
| `Spoil`, `Station*` | the port and the ground station (external) |

A packet is named by its request, so a response carries which request it
answers in the model; on the wire it has no number. The station repeats a
request when nothing is on its way any more and the protocol has no remedy (a
frame that no other follows was spoiled, or it has mixed two requests itself).
The checks of the GNClink library are taken to be exact.

### GlobalStore

State: `eeprom` and `cycle`, the page that is sent and then written; `left`, the
cells of a transaction that are still to be moved; `globals` and `header` in
memory; `pc` walks through `init_globals`; `command` and `k` are the value list
that is being carried out; `request` is the EEPROM request of the process that
waits for it. `ReadHeader` to `Running` are the statements of `init_globals`,
`NotFound` to `ValueDone` the bodies of the four value lists. `ProcessRequest`
is the EEPROM's request processor; `SendCell` and `ReceiveCell` are the DMA
controller, which moves one cell after the other between the EEPROM and the live
structure (`dma_eeprom_cat25.c` 30 and 46 give it the address). Meanwhile the
client waits and other processes run: `Measure` is one of them writing a
variable of its own (`Measured`: the readings of `global_imu.c` 66-74, the
channels of `rc_receiver.c`). It writes all cells at once: such a process does
not give up the processor in between, and a save whose variable the controller
reads meanwhile is `overtaken` either way. `PowerFails` clears memory at any moment; a page that was sent
to its end has its old or its new contents, one that was not is left alone, as
the device begins its write cycle at the end of a transaction.

History variables: `stored` is what `load_global` should find, unknown while a
save is under way or when it was overtaken; `overtaken` says that another
process has written the variable that is being saved; `mixed` are the variables
whose last save was of such a value, or of cells that differed before. The
variables `GlobalHash` and `StartupCount`, which `init_globals` sets from the
header, are not in `Var`. An ID that is in the table may be refused (`Finds`):
`get_address_from_id` and `get_global_address_size` have no return statement
behind their `switch`, and what the callers test is not defined.

### GlobalMap

No state: the operators are the tables that `global_variable_generator.py`
writes into `global_variables.h`, and the functions of `globals.c` that use
them. `AddressFromId` and `Lookup`, the composition that every value list uses,
are sets of outcomes: where the code falls off the end of a function without a
return value (`globals.c` 135, 151, 157) the field may be found or refused.
`Declared` is what the structure says. Its statements are proved, not run.

### ImuRange

State: the sensor's `bank` and `registers`, what it measures and the range of
its last sample; the program's `fs_sel`, `raw_data` and the stored `measured`;
`pc` and `k` walk through the set-up sequence or through one turn of the
navigation process. `SetupStep` is one register write of the set-up in the order
of `imu_icm20948.c`, `SelectBank`, `TransferRead` and `TransferWrite` are the
request processor, `RequestImuData`, `Store`, `Adjust` and `Delay` the
navigation process; `Restart` is a restart of the program while the sensor
stays powered. Readings lie between `-RAW_RANGE` and `RAW_RANGE - 1`, and a
5 ms delay is longer than a sample of the sensor (`DelayOver`). `Multiplier` is
the shift of `global_imu.c` 65 and 71, which cuts off what is behind the point:
598, 1197, 2394 and 4788 where the ranges would be 598.55 and its doubles. The
history variable `missed` holds the sensors whose larger range a start's reset
has missed, because another bank was selected (`LeftBehind`), until the program
writes their range.

### RcReceiver

State: `crsf_receive_buffer` with the place the DMA channel writes next, and
`receiver_main` with its position in the search. A cell of the buffer is a part
of a numbered frame. At most one byte arrives during a search, which takes less
than the time of one byte; frames come in any order. The checksum is exact:
a frame is taken when all of its cells are of one frame.

## Runs

| Run | Shows | Bounds | States |
|---|---|---|---|
| `RtosProcess_queue` | ring consistency, interrupts come back, join, deadline order, refinement of `ProcessPool` | 3 processes, 4 slots, 8 timer values, delays 1 and 2 | 3.5 M |
| `RtosProcess_live` | no wait ends without its reason; delays and waits end | 2 processes, 3 slots, 6 timer values, delays 1 and 2 | 194 k |
| `RtosProcess_full` | violation: a full ring loses a process | 3 processes, 3 slots | - |
| `BusManager_app` | no busy device disturbed, only queued requests marked and none that is complete, order per device, every request done | 2+2 requests, 3 slots, busy 1 tick | 344 k |
| `CpuUtilization_period` | shares right to one percent | timer modulo 5, period 3 | 1.7 M |
| `RtosUsb_serial` | nothing overlooked, bytes in order and once, a read waits only for a packet or for the reasons the code has, refinement of `UsbStream`, sends and reads end, quit | packets of 2; 4 bytes out, 4 in; 1 reset | 488 k |
| `UsbControl_enumerate` | packets of the right request, descriptors whole, address after status, requests end | 3 of 16 requests, 1 reset | 1.05 M |
| `SerialPort_ports` | a wait ends with its own transfer, buffers quiet but for a timed read's, sends end | 2 UART ports, PORT0 and SPI; transfers of 1 | 181 k |
| `CommsLink_link` | evaluated only when complete, every request answered | 2 requests of 3 and 2 frames, 3 spoiled frames, 1 early repetition | 89 k |
| `GlobalStore_save` | saves survive, no torn variable unless overtaken, count grows, lists answered only when done, start-up ends | variables of 3, 2 and 2 cells, one of them written by another process; pages of 2; 2 power failures, 2 lists | 551 k |
| `ImuRange_range` | readings true, ranges settle where they fit, magnetometer set up | 5-bit readings, 5 motions, 1 restart | 236 k |
| `RcReceiver_link` | channels never go back, failsafe set | buffer of 9, frames of 4 and 2, 4 frames | 223 k |

Deadlock checking is off where the system may stop: `rtos_main` returns when no
process is left; USB stops after `rtos_usb_quit`; hosts, stations and power
failures stop at their bounds; a navigation process waits for its gate. It is
on for `BusManager`, `CpuUtilization`, `SerialPort` and `RcReceiver`.

Why the bounds are enough. Four slots and three processes wrap the ring, put
an insertion at every place and close a gap of every length; one slot fewer
gives the full ring, which is a run of its own. Eight timer values and delays of 1
and 2 give queued deadlines before, at, after and two after now, different from
each other, inside half of the range and on both sides of the wrap; six let a delay
that is late be told from one that is not over yet;
`MaxSlice` limits the ticks between two scans and `MaxLate` how late a queued
process may be. Three request slots hold a busy request at the head, one passed
over and one executed, and four requests make the ring overflow; a busy time of
one tick is enough for the manager to find the device busy and not busy at each
of its reads, since the timer may stand still. Sends of two and three bytes in packets
of two fill one and go over into the next; reads of one and two are shorter than a
packet, or end with one or in the middle of the second; a bus reset falls into
every place of both. A transfer of one beat is already under
way, complete or started again between any two steps. Three spoiled frames
spoil a frame, the request for it and what is sent again. A variable of three
cells over pages of two lies in two pages, with one end inside a page and one at
its edge; a second power failure hits the start-up after the first. The motions
of `ImuRange` lie in each of the four ranges, at their thresholds and at both
ends; its multipliers are 133, 266, 532 and 1065 as in the program, and 3, 7, 14
and 28, which lose several steps at high readings as the program's 598 does. The receive buffer holds two frames and a part of a third, in the
proportion of 64, 26 and 14 bytes.

### The violation

`RtosProcess_full`: with 16 processes (the value of `RTOS_MAX_PROCESS_COUNT`)
queued and all blocked, `rtos_process.c` 239-243 moves the last entry onto
the head before the head has been moved. The program starts fewer.

### Other places where the code differs from its documents

These were met while modelling. They are kept out of the runs; each can be seen
by the change that is named, with TLC finding the property violated.

| Where | What | How to see it |
|---|---|---|
| `RTOS/rtos_time.c` 10 | a delay of 2^31 ticks or more (45 s) ends at once, against "at least the time specified" (`rtos_time.h` 29) | `RtosProcess_live` with `Ticks = {1, 4}`: `NoEarlyResume` |
| `RTOS/rtos_process.c` 146 | a process that has waited over 45 s counts as due in the future | `RtosProcess_queue` with `MaxLate = 4`: `DeadlineOrder` |
| `RTOS/rtos_process.c` 135, 144 | a Ready process counts as due now; one whose wait is already satisfied comes back slightly overdue, in front of it, each time | `RtosProcess_live`: a queued Ready process leads to `RunsNow` of it |
| `RTOSDrivers/bus_manager.c` 10 | `set_matching_id_status` walks `request_count - 1` slots from any start and can pass the tail into old pointers; harmless with one slow device, as here | `BusManager_app` with `Operation <- TwoSlowDevices`: `TransfersFinished` |
| `RTOSDrivers/rtos_usb.c` 75 | a packet that comes before the read it is for has been handled already: the read waits for ever | `RtosUsb_serial` without `OutStopped` in `ReadOnItsWay`, or in `ReadEnds` |
| `Drivers/usb/usb_serial.c` 24 | a packet of no bytes does not start the OUT endpoint again | as above, with `usb_rx_buffer_length # 0` alone in `OutStopped` |
| `RTOSDrivers/rtos_usb.c` 76 | a packet longer than what is left of the read goes over the end of the client's buffer | `RtosUsb_serial` without `read.done > read.count` in `ReadEnds` |
| `Drivers/usb/usb_serial.c` 16 | a bus reset leaves the length of an unread packet: a read takes its bytes, though the host has started afresh, or some of them behind a shorter new one | `RtosUsb_serial`: `bus = "reset" => usb_rx_buffer_length = 0`; with `MaxRx = 5`, the bytes of `read_bytes` in increasing order |
| `Drivers/usb/usb_samd.c` 296-305 | the flags are read, cleared and served in a fixed order: a completion beside a setup packet is taken for one of the new request, its first packet is overwritten by the second or its address taken early; so is what a bus reset falls into | `UsbControl_enumerate` without `host.clean` in `TransferIntact`, or in `AddressAfterStatus` |
| `Drivers/usb/usb.c` 214, 248 | a vendor request, or a class request to another interface than 0, is neither answered nor refused: its host waits | `UsbControl_enumerate` without `~Ignored(host.request)` in `Due`: `RequestEnds` |
| `Drivers/usb/usb.c` 218 | SET_LINE_ENCODING stores the setup packet, not the data that follow | `UsbControl_enumerate`: `line_coding # "setup"` |
| `RTOSDrivers/rtos_uart.c` 49 | the wait with a time-out enables the channel again behind a read that is complete or given up: what comes next goes into that buffer | `SerialPort_ports`: `BufferQuiet` with `FALSE` behind its arrow |
| `comms.c` 292 | a spoiled last frame is never asked for, against "frame will be requested again later" (`comms.c` 235) | `CommsLink_link` without `StationTimeout`: `Answered` |
| `RTOSDrivers/dma_eeprom_cat25.c` 46 | the controller reads the live variable while other processes write it: half of an old reading and half of a new one may be saved | `GlobalStore_save` without the condition on `mixed` in `ComesBackWhole` |
| `globals.c` 135, 157 | no return value behind the `switch`: a variable of the table may be refused | `Finds`; `TableFindsTheField` states both outcomes |
| `comms.c` 89 | a value list that is refused in its middle leaves what was done before | `Refuse`; no property speaks of refused lists |
| `globals.c` 243 | `init_globals` returns true whether the structure has changed or not (`globals.h` 16 says "when global map has changed") | the code |
| `comms.c` 53 | an ID of 16 bits is converted to an enumeration of one byte: 257 is the first variable | `TableFindsTheField` states it |
| `Drivers/imu_icm20948.c` 70 | the reset does not select bank 0 first: after a restart in another bank nothing is reset, and readings are scaled for the smallest range | `ImuRange_range`: `TrueUnlessSaturated` with `Sensor` for `Sensor \ missed` |
| `global_imu.c` 65, 71 | the multipliers lose what is behind the point, up to one unit for each count of a reading | `ImuRange_range`: `TrueUnlessSaturated` without its last summand |
| `Drivers/imu_icm20948.c` 156 | the magnetometer's set-up clears the bit of "set i2c disable bit" (line 74) | `ImuRange_range`: `MagReady` with `(registers[<<0, USER_CTRL>>] \div 16) % 2 = 1` |
| `global_imu.c` 77 | a reading of -32768 has no absolute value in `int16_t`: the range goes down instead of up | `ImuRange_range`: `Adapts` without the first disjunct of `Adapted` |

### Fairness

`RtosProcess!FairSpec` assumes that the scheduler's own steps are taken, that
the timer ticks and that a running process eventually yields or returns. The
first two are the processor and the clock; the third is the contract of
cooperative scheduling. Nothing is assumed of interrupts or of processes writing
variables. `BusManager!FairSpec` assumes that the scheduler runs the manager
when its wait is over (this is `WaitReturns` of the scheduler), that DMA
transfers end and that the timer ticks. Clients owe nothing.

The modules above the scheduler use weak fairness of their process's steps,
which the scheduler justifies, and of the hardware they wait for. `RtosUsb`
adds a host that enumerates the device, polls the IN endpoint and has data to
send; `UsbControl` a host that goes on with a transfer it has begun;
`CommsLink` a station that reads what comes and whose timer runs; `GlobalStore`
an EEPROM that ends its write cycles; `ImuRange` a sensor that samples;
`RcReceiver` frames with statistics while the receiver is powered.
`SerialPort` needs strong fairness of a process's step: a process that waits is
able to go on only between other processes' turns, and `next_process` polls
every process that waits in each of its scans. Nothing says that a byte
arrives at a UART, and no property there needs it.

## Proofs

TLAPS checks every step of the theorems in the eight `*Proofs` modules. They
hold for all values of the constants that satisfy the assumption each model
states by name (`SizeAssumption`, `StoreAssumption` and so on; TLC evaluates
them in the runs), so for the rings, packets, pages and numbers of processes,
requests and failures of the program as for those of the runs. A further
condition stands in the theorem itself.

| Theorem | Property of a run | Says | Condition |
|---|---|---|---|
| `RtosProcessProofs!TypeCorrect` | | slots and counters in range, occupied slots hold processes | |
| `RtosProcessProofs!RingAndStatus` | `RingConsistent` | no process twice in the ring, or in it while it runs | `FewProcesses` |
| `RtosProcessProofs!Implements` | `PoolSpec` | the scheduler implements `ProcessPool` | `FewProcesses` |
| `RtosProcessProofs!NoneLost` | `NoProcessLost` | no process is dropped before it returns | `FewProcesses` |
| `RtosProcessProofs!InterruptsReturn` | `InterruptsComeBack` | a discarded process never leaves interrupts off | `FewProcesses` |
| `RtosProcessProofs!DeadlinesInOrder` | `DeadlineOrder` | blocked processes are queued by deadline, across the timer's wrap | `FewProcesses`, `Horizon(h)` |
| `RtosProcessProofs!JoinWaitsForReturn` | `JoinAfterReturn` | a join ends when the other process has returned | `FewProcesses` |
| `RtosProcessProofs!ResumesForItsReason` | `NoEarlyResume` | a process goes on when its condition holds or its time is over | `FewProcesses`, `StableWaits`, `ShortTicks` |
| `BusManagerProofs!TypeCorrect` | | indices and counts in range, occupied slots hold requests | |
| `BusManagerProofs!Exclusion` | `NoTransferWhileBusy` | no transfer to a busy device | `AtMostOneSlow` |
| `BusManagerProofs!Release` | | a request leaves the ring when its device is idle | `AtMostOneSlow` |
| `BusManagerProofs!MarksQueued` | `MarksOnlyQueued` | only queued requests are marked | `AtMostOneSlow` |
| `BusManagerProofs!Marking` | `TransfersFinished` | no complete request is marked again | `AtMostOneSlow` |
| `BusManagerProofs!Implements` | `ServiceSpec` | the bus manager implements `BusService` | `AtMostOneSlow` |
| `BusManagerProofs!WaitsWhenBusy` | | it waits for a device only when all that is queued is for a busy one | `AtMostOneSlow` |
| `CpuUtilizationProofs!PublishedPercentages` | | shares between 0 and 100 that add up | |
| `CpuUtilizationProofs!NothingMissed` | | the counters hold every tick of the period | |
| `CpuUtilizationProofs!CalculatedAccurately` | `Accurate` | shares right to one percent of real time | |
| `RtosUsbProofs!TypeCorrect` | | no packet longer than a buffer, only bytes that were handed over or sent | |
| `RtosUsbProofs!Overlooked` | `NothingOverlooked` | no bus reset, request or completion is missed | |
| `RtosUsbProofs!SendsInOrder` | `StreamSpec` | the USB process implements `UsbStream` | |
| `RtosUsbProofs!ReadsInOrder` | `ReadInOrder` | no byte is read twice; without resets they are all of the stream in order | |
| `RtosUsbProofs!SendGoesOn` | | a send in progress has a packet for the host or an interrupt to come | |
| `RtosUsbProofs!ReadGoesOn` | `ReadOnItsWay` | a read in progress can get a packet or has one to wake it, unless one came before it or was empty | |
| `UsbControlProofs!TypeCorrect` | | no packet longer than endpoint 0 takes, known stages only | |
| `UsbControlProofs!Intact` | `TransferIntact` | a host whose setup packet found nothing unhandled gets no packet of another request | |
| `UsbControlProofs!Whole` | `DescriptorWhole` | such a host has a descriptor as long as it is, or as was asked for | |
| `UsbControlProofs!AddressTaken` | `AddressAfterStatus` | a new address is taken after the status stage of such a request | `SevenBits` |
| `UsbControlProofs!GoesOn` | | with nothing left to handle, the bank such a host waits for is ready, unless its request is ignored | `SevenBits` |
| `SerialPortProofs!PortTypeCorrect` | | channels that exist are selected; an enabled one has beats left | |
| `SerialPortProofs!OwnTransfer` | `WaitEndsTransfer` | a wait ends with the process's own transfer | |
| `SerialPortProofs!TransfersGoOn` | | what a process waits for is under way or complete | |
| `SerialPortProofs!QuietWhenDone` | `BufferQuiet` | between transfers the controller writes only into the buffer of a timed read, one more read at most | |
| `SerialPortProofs!LinkTypeCorrect` | | frames have indexes that exist and lists that fit | |
| `SerialPortProofs!ResendsSuffice` | | while last frames come whole, the protocol waits for nothing that is not sent | |
| `SerialPortProofs!Fresh` | `EvaluatedFresh` | what is carried out has come whole since the last packet | |
| `GlobalStoreProofs!TypeCorrect` | | a write cycle stays in one page, a list is worked on within its length | |
| `GlobalStoreProofs!Survives` | `SavedSurvives` | what was saved is there in every later run | |
| `GlobalStoreProofs!Whole` | `ComesBackWhole` | a variable in one page is never torn, unless another process wrote it while it was saved | |
| `GlobalStoreProofs!Counts` | `CountGrows` | the start-up count grows | |
| `GlobalStoreProofs!Answered` | `AnsweredIsDone` | a list is answered when all of it was done | |
| `GlobalStoreProofs!TableFindsTheField` | | an ID finds the field the structure declares or is refused; outside the table it is refused | |
| `GlobalStoreProofs!FieldsPacked` | | the offsets are those of a packed structure | |
| `GlobalStoreProofs!SavedInOneCycle` | | no variable lies across two pages of the EEPROM | |
| `ImuRangeProofs!TypeCorrect` | | registers exist, ranges are ones the sensor has | |
| `ImuRangeProofs!Magnetometer` | `MagReady` | the magnetometer is set up whatever bank a restart finds | |
| `ImuRangeProofs!StoredTrue` | `TrueUnlessSaturated` | a reading is stored true, with the truncated multiplier of the range it was taken in; missed resets left out | |
| `ImuRangeProofs!RcTypeCorrect` | | neither the DMA channel nor the search leaves the buffer | |
| `ImuRangeProofs!Ahead` | `NeverBack` | the channels never go back to an older frame | |

The conditions, and why the program meets them:

- `FewProcesses`: fewer processes than slots. The program starts six, of 16;
  `RtosProcess_full` shows that the condition is needed.
- `Horizon(h)`: no wait is longer than h, and with h the time a process may be
  late, or a turn may last, is less than half of the timer's range, which is
  45 seconds. The program's waits and turns are milliseconds. `MaxLate = 4` in
  the run breaks it, and the order with it.
- `StableWaits`: an interrupt can only make what is waited for true, and nobody
  waits for a status that `next_process` changes by handing the process out.
  Flags are waited for to be set, `join_process` waits for Done, and
  `wait_until_started` for not Ready. `ShortTicks`: no delay of half of the timer's range.
- `AtMostOneSlow`: one device at most can be left busy; this program's bus has
  the EEPROM beside the IMU. Two break `TransfersFinished`.
- `SevenBits`: the addresses a host gives are those of USB.

Nothing is assumed of the USB host's timing, of the length of its packets or of
the moment of a bus reset: where the code depends on them, the properties name
the window (`OutStopped`, `host.clean`) and the table above the line.

The arguments. Each theorem rests on an inductive invariant of its module,
with one step for each action; TLC checked the invariants on the runs' instances
before they were proved.

- Scheduler: `TypeOK` is not inductive, because `next_process` hands out
  whatever is in a slot. `RingInv` says that head, tail and count agree and that
  occupied slots hold processes. `PoolInv` adds that the entries are distinct and
  that the process in the scheduler's hands is not among them, which
  with a pigeon-hole argument leaves a slot free when the gap is closed. The
  refinement follows action by action from what each does to `Live`, and
  `NoneLost` from the refinement. `InterruptsReturn` is the same slot left
  free: the return of `dispatch_process` that leaves interrupts off is the one
  for a full ring. For the
  order of the deadlines `QueuedInTime` and `InFlightInTime` keep every deadline
  near enough to now for the signed difference to be the real one, and
  `InOrder` orders the pairs, Ready processes included: a process that has
  just started is inserted as if due now, so none that is early may be in front of it.
  `NoEarlyResume` needs `Remains`: the real ticks that are left of a delay are
  those the timer shows, as long as there are any.
- Bus manager: `ServiceInv` ties each queued request to its client, what is left
  of it and its device: the request that left its device busy is at the head, and
  a scan that has passed it has marked every other request of that device. For
  the refinement `PassedInv` adds that the scan passes over requests of that one
  device only: what it takes from behind them is the oldest of its own device,
  and closing the gap keeps the order of the others. The walk that
  marks starts at the request that left its device busy, which is at the head,
  so it ends where the ring does. `WaitInv` says that while the manager counts a
  request as blocked its device is the one the count began with.
- CPU utilization: `Counted` says that counters and the running stretch add up
  to the history; the two divisions then differ from the true share by rounding
  only.
- USB process: `ReadyInv` and `FlagInv` say that a completion is masked only
  between `MaskFlags` and the step that handles it, `EnabledInv` that a process
  which is going to wait has either been woken or has the interrupt enabled.
  `StreamInv` says where the bytes of a send are: in the bank, sent, or left in
  the operation, and that each reset has taken at most the packet in the bank.
  `ReadInv` is about reads: what the buffer holds, by either of the two lengths
  the process may go by, is unread (`FreshInv`), so nothing is read twice
  (`OnceInv`); and until the first bus reset what has been read, and then the
  packet that waits, are the stream from its beginning (`OrderInv`). `AliveInv`
  says where the next event of a send or a read comes from: a bank that is
  ready for the host, a flag whose interrupt is enabled, or the step of the
  process that comes next.
- Control endpoint: the invariant is about a transfer whose setup packet found
  nothing unhandled, for as long as the host stays with it. That packet is served
  next and once (`SetupInv`), a completion belongs to the request that is served (`DoneInv`),
  and what the host has, what is in the bank and what is left of a descriptor add up to
  what was asked for (`PacketInv`). That neither side waits for the other
  (`GoesOn`) rests on `ReachedInv`, the address at which the host finds the
  device, and `BankInv`, what each stage has put into the banks; the
  completion of one stage is what prepares the next.
- Serial ports: `Own` says what each place of a process means for its own
  channel, whatever `chid` selects at the moment: with a wait goes a block
  that is under way or complete (`Block`). `Described` says the same of the
  descriptor, which the read that was given up after its time-out leaves behind;
  a channel that runs outside a transfer is one that was enabled again, at most once.
- Link: `RxInv` says that a frame in the packet is one received since it was
  cleared, except while a response is sent, when nobody looks. `ResendsSuffice`
  rests on `TurnInv`: until a last frame is spoiled, there is one side whose
  turn it is, by what is on its way. Frames of a packet end with one that ends
  the transaction, and all that is above its index has come. That is so for
  frames sent again because a list of missing indexes is ascending
  (`AscendingFacts`): the last one in it is the greatest.
- Global variables: `Reached` is the cell that is moved next, and `MoveInv` says
  that a page is filled cell after cell up to it. `After` is what the EEPROM will
  hold when its write cycle ends. `RunInv` follows a save: what has been sent is
  what memory holds, or the save was overtaken; and a load in the same way.
  `StoredInv` says that what `load_global` should find is in the EEPROM.
  `WholeInv` is about variables in one page: the stored copy is whole if it is not
  mixed, one that nobody else writes is never mixed, and its cells are sent in one
  page. `CycleInv` says that the cells of a write cycle are of one page, because
  `PageCount` cuts a request there, `BootInv` that a header is read and written
  in one piece.
- IMU: the 24 writes of the set-up are first computed one by one from the
  sequences they are concatenated from (`SetupWrites`). `SetupInv` then says which
  bank each of them finds selected, also when the sensor's reset was missed
  because of the bank a restart left, `BusInv` which requests there are, and
  `RangeInv` at which range each register, the last sample and the reading that
  is being stored are, for the sensors that no reset has missed. What is left is
  arithmetic: a reading rounded down, times a multiplier rounded down (`Rounded`).
- Receiver: cells are in the order of their frames from the place that is
  written next (`WrittenInOrder`), so an older frame is overwritten before a
  newer one. `NoneOlder` says that in front of an older whole frame the one that
  was read last is still found, `PassedNew` that the search can have passed only
  a frame which was completed while it ran.

Only model-checked: liveness (`DelayReturns`, `WaitReturns`, `RequestCompletes`,
`SendEnds`, `ReadEnds`, `QuitStops`, `RequestEnds`, `Answered`, `InitEnds`,
`Adapts`, `FailsafeFollows`). It rests on fairness and ENABLED, which the
prover does not handle, and stays with TLC. For six of them the part that is
not about fairness is proved for every value of the constants, as an invariant
that excludes a standstill: `WaitsWhenBusy` for `RequestCompletes`, `SendGoesOn`
and `TransfersGoOn` for the two `SendEnds`, `ReadGoesOn` for `ReadEnds`,
`GoesOn` for `RequestEnds`, `ResendsSuffice` for the `Answered` of the link.
Every invariant and action property of the runs, each of the three refinements,
and the type invariant of every module with state is a theorem.

## Not modelled

- The contents of what is transferred: payloads, descriptors beyond their
  length, channel values, temperature and magnetometer readings are copied
  without a decision.
- Preemption (`rtos_preemption.c`): compiled in, but nothing enables it.
- Stacks, registers and the context switch itself.
- `get_frame` over a circular buffer: only a link on a UART takes this branch,
  and `main` sets the link up on PORT0. The buffer is in `RcReceiver` and
  `SerialPort`.
- The flash beyond its calls of the bus manager, and the barometer: no process
  of this program sends them a request.
- Set-up of peripherals, clocks, pins, PWM and ADC, polled SPI transfers before
  the bus manager exists, the buzzer: register writes in a straight line, with
  no state another actor could reach in between.
- `usb_handle_msft_compatible`, which nothing calls.
- GNClink, a submodule that is not part of the sources: frame and packet checks
  are external and taken to be exact.
