----------------------------- MODULE GlobalStore -----------------------------
(***************************************************************************)
(* The global variables and their copy in the EEPROM: globals.c, the value *)
(* lists of comms.c, global_eeprom.c and dma_eeprom_cat25.c.               *)
(*                                                                         *)
(* A variable is a range of cells, bytes of the structure, and is given    *)
(* the same value in all of them: cells that differ show a torn variable.  *)
(* The DMA controller moves one cell after the other, between the EEPROM   *)
(* and the live structure, while the client waits and other processes run. *)
(* Power may fail at any moment; a write cycle of the EEPROM that it cuts  *)
(* has taken place or not, for the page it writes, and a page that was not *)
(* sent to its end is not written.  Zero is the value of memory that       *)
(* nobody has written.                                                     *)
(***************************************************************************)
EXTENDS Integers, FiniteSets, Sequences

CONSTANTS
  Var,           \* the variables
  First, Size,   \* the offset of each in the structure, and its size
  StructSize,    \* sizeof(global_vars), with the fields that are not in Var
  Measured,      \* the variables that other processes write: readings, channels
  BadId,         \* an ID whose low byte is not in the table (GlobalMap)
  Value,         \* what a variable may be set to
  Page,          \* EEPROM_PAGE_SIZE
  Start,         \* __EEPROM_GLOBAL_VARIABLES_START_ADDRESS
  Hash,          \* the values of __GLOBAL_HASH, of one firmware after the other
  MaxPayload,    \* cells in the payload of a packet
  MaxFailure,    \* bound: power failures
  MaxCommand     \* bound: value lists

ASSUME StoreAssumption ==
  /\ First \in [Var -> Nat] /\ Size \in [Var -> Nat \ {0}]
  /\ StructSize \in Nat
  /\ \A v \in Var : First[v] + Size[v] <= StructSize
  /\ \A v, w \in Var : v # w => First[v] + Size[v] <= First[w] \/ First[w] + Size[w] <= First[v]
  /\ Measured \subseteq Var /\ BadId \notin Var
  /\ Value \subseteq Nat \ {0}
  /\ Page \in Nat \ {0} /\ Start \in Nat /\ Start >= 2
  /\ Hash \in Seq(Nat \ {0}) /\ Hash # << >>
  /\ MaxPayload \in Nat /\ MaxFailure \in Nat /\ MaxCommand \in Nat

HashAt == 0
CountAt == 1
Address == 0 .. Start + StructSize - 1

VARIABLES
  eeprom,       \* by address
  cycle,        \* the page that is sent, then written: addresses and values
  left,         \* cells of the transaction that are still to be moved
  globals,      \* by offset
  header,       \* __eeprom_header
  firmware,     \* which of the Hash values is that of the program
  pc,           \* init_globals, then the program runs
  request,      \* the EEPROM request that is being waited for
  command, k,   \* the value list being worked on, and how much of it is done
  answer,       \* the last list was answered, or refused
  stored,       \* by variable: what load_global would find, if nothing was cut
  overtaken,    \* another process has written the variable that is being saved
  mixed,        \* history: the variables whose last save was of a mixed value
  last_count,   \* the StartupCount of the last run
  failures, commands    \* counters for the bounds

memory == <<eeprom, cycle, left>>
list == <<command, k, answer>>
saved == <<stored, overtaken, mixed>>
bounds == <<failures, commands>>
vars == <<memory, globals, header, firmware, pc, request, list, saved, last_count, bounds>>

Unknown == 0
Kind == {"get", "set", "load", "save"}

(* Only the entries of a set list have values. *)
Entry(kind) == [id : Var \cup {BadId}, value : IF kind = "set" THEN Value ELSE {Unknown}]
NoCommand == [kind |-> "none", list |-> << >>]
NoRequest == [type |-> "none", address |-> 0, count |-> 0]
NoCycle == << >>

Offsets(v) == First[v] .. First[v] + Size[v] - 1
Holds(memory_of, v, x) == \A o \in Offsets(v) : memory_of[o] = x
IsWhole(v) == \E x \in Value : Holds(globals, v, x)

(* Memory holds numbers, a write cycle stays in one page of the EEPROM, and *)
(* a value list is worked on within its length.                            *)
TypeOK ==
  /\ \A a \in Address : eeprom[a] \in Nat
  /\ DOMAIN cycle \subseteq Address /\ left \in 0 .. request.count
  /\ globals \in [0 .. StructSize - 1 -> Nat]
  /\ header \in [hash : Nat, count : Nat]
  /\ firmware \in DOMAIN Hash
  /\ pc \in {"start", "header", "hash", "count", "load", "run"}
  /\ request.address \in Nat /\ request.count \in 0 .. Start + StructSize
  /\ \A a, b \in DOMAIN cycle : a \div Page = b \div Page
  /\ k \in 0 .. Len(command.list)
  /\ answer \in {"none", "answered", "refused"}
  /\ stored \in [Var -> Value \cup {Unknown}]
  /\ overtaken \in BOOLEAN /\ mixed \subseteq Var
  /\ last_count \in Nat
  /\ failures \in 0 .. MaxFailure /\ commands \in 0 .. MaxCommand

(* An EEPROM that an earlier run of the first firmware, or of another one,  *)
(* has written.                                                            *)
Init ==
  /\ \E x \in Value, hash \in {Unknown, Hash[1]} :
       /\ eeprom = [a \in Address |-> IF a = HashAt THEN hash ELSE IF a = CountAt THEN 1 ELSE x]
       /\ stored = [v \in Var |-> x]
  /\ overtaken = FALSE /\ mixed = {}
  /\ cycle = NoCycle /\ left = 0
  /\ globals = [o \in 0 .. StructSize - 1 |-> 0]
  /\ header = [hash |-> 0, count |-> 0]
  /\ firmware = 1 /\ pc = "start"
  /\ request = NoRequest /\ command = NoCommand /\ k = 0 /\ answer = "none"
  /\ last_count = 1
  /\ failures = 0 /\ commands = 0

-----------------------------------------------------------------------------
(* EEPROM requests: a client issues one and waits until it is not busy *)

(* The data are offsets of the structure, or fields of the header. *)
Read(address, count) == [type |-> "read", address |-> address, count |-> count]
Write(address, count) == [type |-> "write", address |-> address, count |-> count]

(* What the request's data pointer shows for an address. *)
Source(a) ==
  IF a = HashAt THEN header.hash
  ELSE IF a = CountAt THEN header.count
  ELSE globals[a - Start]

(* Mutant: a write goes on over the end of the page. *)
PageCountAll(address, count) == count

(* Mutant: one byte at a time. *)
PageCountOne(address, count) == 1

(* Mutant: the last byte of a page is left out. *)
PageCountShort(address, count) ==
  LET next_page == (address \div Page) * Page + Page
  IN IF address + count < next_page THEN count ELSE next_page - address - 1

(* dma_eeprom_process_request: what fits into the page. *)
PageCount(address, count) ==
  LET next_page == (address \div Page) * Page + Page
  IN IF address + count < next_page THEN count ELSE next_page - address

(* The device stays in the page: behind its end it goes on at its start. *)
InPage(address, n) == (address \div Page) * Page + ((address + n) % Page)

(* The cells of the transaction that is next, or under way. *)
Portion ==
  IF request.type = "write" THEN PageCount(request.address, request.count) ELSE request.count

(* dma_eeprom_read and dma_eeprom_write give the DMA controller the address *)
(* of the live data.                                                       *)
ProcessRequest ==
  /\ request.count > 0 /\ left = 0 /\ cycle = NoCycle
  /\ left' = Portion
  /\ UNCHANGED <<eeprom, cycle, globals, header, firmware, pc, request, list, saved, last_count, bounds>>

Moved == Portion - left

(* The next cell of a page, as it is at this moment; behind the last one    *)
(* the request is made ready to run again.                                 *)
SendCell ==
  /\ request.type = "write" /\ left > 0
  /\ left' = left - 1
  /\ LET at == InPage(request.address, Moved)
     IN cycle' = [a \in DOMAIN cycle \cup {at} |->
                    IF a = at THEN Source(request.address + Moved) ELSE cycle[a]]
  /\ request' = IF left = 1 THEN [request EXCEPT !.count = @ - Portion, !.address = @ + Portion]
                ELSE request
  /\ UNCHANGED <<eeprom, globals, header, firmware, pc, list, saved, last_count, bounds>>

(* The write cycle ends, within the 5 ms the request is busy for. *)
CycleEnds ==
  /\ cycle # NoCycle /\ left = 0
  /\ eeprom' = [a \in Address |-> IF a \in DOMAIN cycle THEN cycle[a] ELSE eeprom[a]]
  /\ cycle' = NoCycle
  /\ UNCHANGED <<left, globals, header, firmware, pc, request, list, saved, last_count, bounds>>

(* The next cell that is read goes to the live data. *)
ReceiveCell ==
  /\ request.type = "read" /\ left > 0
  /\ left' = left - 1
  /\ LET a == request.address + Moved
     IN /\ header' = [hash |-> IF a = HashAt THEN eeprom[a] ELSE header.hash,
                      count |-> IF a = CountAt THEN eeprom[a] ELSE header.count]
        /\ globals' = [o \in DOMAIN globals |-> IF Start + o = a THEN eeprom[a] ELSE globals[o]]
  /\ request' = IF left = 1 THEN [request EXCEPT !.count = 0] ELSE request
  /\ UNCHANGED <<eeprom, cycle, firmware, pc, list, saved, last_count, bounds>>

(* eeprom_wait_until_done: BusManager_Request_CompleteNotBusy *)
Done == request # NoRequest /\ request.count = 0 /\ cycle = NoCycle

-----------------------------------------------------------------------------
(* init_globals *)

BootStep(from, to, next) ==
  /\ pc = from /\ Done
  /\ pc' = to /\ request' = next
  /\ UNCHANGED <<memory, firmware, list, saved, last_count, bounds>>

ReadHeader ==
  /\ pc = "start"
  /\ pc' = "header" /\ request' = Read(HashAt, 2)
  /\ UNCHANGED <<memory, globals, header, firmware, list, saved, last_count, bounds>>

HashDiffers == header.hash # Hash[firmware]

WriteHash ==
  /\ HashDiffers
  /\ BootStep("header", "hash", Write(HashAt, 1))
  /\ header' = [header EXCEPT !.hash = Hash[firmware]]
  /\ UNCHANGED globals

(* Mutant: a program whose structure has changed begins to count again. *)
CountedAnew == IF pc = "hash" THEN 1 ELSE header.count + 1

Counted == header.count + 1

WriteCount ==
  /\ \/ ~HashDiffers /\ BootStep("header", "count", Write(CountAt, 1))
     \/ BootStep("hash", "count", Write(CountAt, 1))
  /\ header' = [header EXCEPT !.count = Counted]
  /\ UNCHANGED globals

LoadGlobals ==
  /\ BootStep("count", "load", Read(Start, StructSize))
  /\ UNCHANGED <<globals, header>>

(* The variables GlobalHash and StartupCount, which are then set from the *)
(* header and not from what was stored, are not in Var.                    *)
Running ==
  /\ pc = "load" /\ Done
  /\ pc' = "run" /\ request' = NoRequest
  /\ last_count' = header.count
  /\ UNCHANGED <<memory, globals, header, firmware, list, saved, bounds>>

-----------------------------------------------------------------------------
(* Value lists *)

(* get_global_address_size and get_address_from_id have no return statement  *)
(* behind their switch: an ID of the table may be refused too.             *)
Finds(id) == IF id \in Var THEN BOOLEAN ELSE {FALSE}

Command(kind, entries) ==
  /\ pc = "run" /\ command = NoCommand /\ commands < MaxCommand
  /\ commands' = commands + 1
  /\ command' = [kind |-> kind, list |-> entries] /\ k' = 0 /\ answer' = "none"
  /\ UNCHANGED <<memory, globals, header, firmware, pc, request, saved, last_count, failures>>

Ends(how) == command' = NoCommand /\ k' = 0 /\ answer' = how

(* evaluatePacket sends a response when the handler is through its list. *)
Answer ==
  /\ command # NoCommand /\ k = Len(command.list) /\ request = NoRequest
  /\ Ends("answered")
  /\ UNCHANGED <<memory, globals, header, firmware, pc, request, saved, last_count, bounds>>

(* Mutant: an entry that is not found is skipped. *)
RefuseSkips == k' = k + 1 /\ UNCHANGED <<command, answer>>

(* "invalid ID, do something...": what was done before it stays done. *)
Refuse == Ends("refused")

Id == command.list[k + 1].id

Working(kind) == command.kind = kind /\ k < Len(command.list) /\ request = NoRequest

NotFound ==
  /\ \E kind \in Kind : Working(kind)
  /\ FALSE \in Finds(Id)
  /\ Refuse
  /\ UNCHANGED <<memory, globals, header, firmware, pc, request, saved, last_count, bounds>>

SizeBefore(n) == LET at[m \in 0 .. n] == IF m = 0 THEN 0 ELSE at[m - 1] + Size[command.list[m].id]
                 IN at[n]

(* getValueList: the values follow each other in the response. *)
GetFits == SizeBefore(k) + Size[Id] <= MaxPayload

(* setValueList: behind the count, each value follows its ID, two bytes. *)
SetFits == 1 + SizeBefore(k) + 2 * k + Size[Id] + 2 <= MaxPayload

TooLong ==
  /\ \/ Working("get") /\ TRUE \in Finds(Id) /\ ~GetFits
     \/ Working("set") /\ TRUE \in Finds(Id) /\ ~SetFits
  /\ Refuse
  /\ UNCHANGED <<memory, globals, header, firmware, pc, request, saved, last_count, bounds>>

GetValue ==
  /\ Working("get") /\ TRUE \in Finds(Id) /\ GetFits
  /\ k' = k + 1
  /\ UNCHANGED <<memory, globals, header, firmware, pc, request, command, answer, saved, last_count,
                 bounds>>

SetValue ==
  /\ Working("set") /\ TRUE \in Finds(Id) /\ SetFits
  /\ globals' = [o \in DOMAIN globals |->
                   IF o \in Offsets(Id) THEN command.list[k + 1].value ELSE globals[o]]
  /\ k' = k + 1
  /\ UNCHANGED <<memory, header, firmware, pc, request, command, answer, saved, last_count, bounds>>

(* load_global, save_global *)
AddressOf(id) == Start + First[id]

LoadValue ==
  /\ Working("load") /\ TRUE \in Finds(Id)
  /\ request' = Read(AddressOf(Id), Size[Id])
  /\ UNCHANGED <<memory, globals, header, firmware, pc, list, saved, last_count, bounds>>

SaveValue ==
  /\ Working("save") /\ TRUE \in Finds(Id)
  /\ request' = Write(AddressOf(Id), Size[Id])
  /\ stored' = [stored EXCEPT ![Id] = Unknown]
  /\ overtaken' = FALSE
  /\ mixed' = IF IsWhole(Id) THEN mixed ELSE mixed \cup {Id}
  /\ UNCHANGED <<memory, globals, header, firmware, pc, list, last_count, bounds>>

(* The request is done: the next entry. *)
ValueDone ==
  /\ pc = "run" /\ Done
  /\ request' = NoRequest /\ k' = k + 1
  /\ IF command.kind = "save" /\ ~overtaken /\ IsWhole(Id)
     THEN stored' = [stored EXCEPT ![Id] = globals[First[Id]]] /\ mixed' = mixed \ {Id}
     ELSE UNCHANGED <<stored, mixed>>
  /\ UNCHANGED <<memory, globals, header, firmware, pc, command, answer, overtaken, last_count, bounds>>

-----------------------------------------------------------------------------
(* Other processes *)

(* Another process writes a variable of its own: they run once init_globals *)
(* has returned, and while the handler of lists waits.                     *)
Measure(v, x) ==
  /\ pc = "run" /\ (command = NoCommand \/ request # NoRequest)
  /\ globals' = [o \in DOMAIN globals |-> IF o \in Offsets(v) THEN x ELSE globals[o]]
  /\ IF command.kind = "save" /\ Id = v
     THEN overtaken' = TRUE /\ mixed' = mixed \cup {v}
     ELSE UNCHANGED <<overtaken, mixed>>
  /\ UNCHANGED <<memory, header, firmware, pc, request, list, stored, last_count, bounds>>

-----------------------------------------------------------------------------
(* Power fails; what comes up may be another firmware. *)
PowerFails ==
  /\ failures < MaxFailure
  /\ failures' = failures + 1
  /\ \/ eeprom' = eeprom
     \/ left = 0 /\ eeprom' = [a \in Address |-> IF a \in DOMAIN cycle THEN cycle[a] ELSE eeprom[a]]
  /\ cycle' = NoCycle /\ left' = 0 /\ overtaken' = FALSE
  /\ globals' = [o \in DOMAIN globals |-> 0] /\ header' = [hash |-> 0, count |-> 0]
  /\ firmware' \in {firmware, firmware + 1} \cap DOMAIN Hash
  /\ pc' = "start" /\ request' = NoRequest
  /\ command' = NoCommand /\ k' = 0 /\ answer' = "none"
  /\ UNCHANGED <<stored, mixed, last_count, commands>>

Boot == ReadHeader \/ WriteHash \/ WriteCount \/ LoadGlobals \/ Running
Handler == NotFound \/ TooLong \/ GetValue \/ SetValue \/ LoadValue \/ SaveValue \/ ValueDone \/ Answer
Eeprom == ProcessRequest \/ SendCell \/ CycleEnds \/ ReceiveCell

Next ==
  \/ Boot \/ Handler \/ Eeprom
  \/ \E kind \in Kind, n \in 1 .. 2 : \E entries \in [1 .. n -> Entry(kind)] : Command(kind, entries)
  \/ \E v \in Measured, x \in Value : Measure(v, x)
  \/ PowerFails

(* The processes are scheduled, and the EEPROM ends its write cycles. *)
Spec == Init /\ [][Next]_vars /\ WF_vars(Boot \/ Handler \/ Eeprom)

-----------------------------------------------------------------------------
(* Properties *)

(* What save_global has stored is there in every later run, until it is     *)
(* stored again, wherever power fails in between: the write is over when    *)
(* it returns, and touches no other variable (globals.c:192-203,            *)
(* dma_eeprom_cat25.c:65-81).                                              *)
SavedSurvives ==
  [][(pc # "run" /\ pc' = "run") =>
       \A v \in Var : stored[v] # Unknown => Holds(globals, v, stored[v])]_vars

InOnePage(v) == (Start + First[v]) \div Page = (Start + First[v] + Size[v] - 1) \div Page

(* A variable that lies in one page comes back whole, the old value or the  *)
(* new one, also when power fails while it is saved.  One that other        *)
(* processes write does so too, unless it was written while it was saved    *)
(* last, or was mixed before (dma_eeprom_cat25.c:46-47).                   *)
ComesBackWhole ==
  [][(pc # "run" /\ pc' = "run") =>
       \A v \in Var : (InOnePage(v) /\ (v \in Measured => v \notin mixed)) => IsWhole(v)]_vars

(* No two runs have the same StartupCount, and it grows (globals.c:232).    *)
CountGrows == [][(pc # "run" /\ pc' = "run") => header.count > last_count]_vars

(* A list that is answered was carried out to its end: a list that holds an *)
(* ID that is not in the table never is, and memory and EEPROM agree on all *)
(* that was loaded or saved, if no other process writes it                 *)
(* (comms.c:76-150).                                                       *)
AnsweredIsDone ==
  [][(command # NoCommand /\ answer' = "answered") =>
       \A n \in DOMAIN command.list :
         LET v == command.list[n].id
         IN /\ v \in Var
            /\ (command.kind = "set" /\ \A m \in DOMAIN command.list :
                                          m > n => command.list[m].id # v)
                 => Holds(globals, v, command.list[n].value)
            /\ (command.kind \in {"load", "save"} /\ v \notin Measured)
                 => \A o \in Offsets(v) : globals[o] = eeprom[Start + o]]_vars

(* init_globals ends, whether it finds its header in the EEPROM or another  *)
(* one, also when power has failed in an earlier one (globals.c:222-243).   *)
InitEnds == (pc # "run") ~> (pc = "run")
=============================================================================
