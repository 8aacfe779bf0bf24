-------------------------- MODULE GlobalStoreProofs --------------------------
(***************************************************************************)
(* What globals.c promises about saved variables, for any variables, any    *)
(* page size, any number of power failures and of value lists; and that    *)
(* the generated tables are right for every ID a packet can hold.          *)
(***************************************************************************)
EXTENDS GlobalStore, GlobalMap, TLAPS

TypeInv ==
  /\ eeprom \in [Address -> Nat]
  /\ \A a \in DOMAIN cycle : cycle[a] \in Nat
  /\ left \in Nat
  /\ globals \in [0 .. StructSize - 1 -> Nat]
  /\ header \in [hash : Nat, count : Nat]
  /\ firmware \in DOMAIN Hash
  /\ pc \in {"start", "header", "hash", "count", "load", "run"}
  /\ request \in [type : {"none", "read", "write"}, address : Nat, count : Nat]
  /\ command = NoCommand \/ \E kind \in Kind : command \in [kind : {kind}, list : Seq(Entry(kind))]
  /\ k \in 0 .. Len(command.list)
  /\ answer \in {"none", "answered", "refused"}
  /\ command # NoCommand => answer = "none"
  /\ stored \in [Var -> Value \cup {Unknown}]
  /\ overtaken \in BOOLEAN
  /\ mixed \subseteq Var
  /\ last_count \in Nat

(* The address of the cell that is moved next. *)
Reached == IF left = 0 THEN request.address ELSE request.address + Moved

(* A page is filled cell after cell, and a read leaves no page behind. *)
MoveInv ==
  left > 0 => /\ request.count > 0 /\ left <= Portion
              /\ request.type = "write" => DOMAIN cycle = request.address .. Reached - 1
              /\ request.type = "read" => cycle = NoCycle

(* A header is read and written in one piece, before the program runs. *)
BootInv ==
  /\ last_count <= eeprom[CountAt]
  /\ pc # "run" => command = NoCommand
  /\ pc = "start" => request = NoRequest /\ cycle = NoCycle
  /\ pc = "header" => /\ cycle = NoCycle
                      /\ request.type = "read" /\ request.address = HashAt
                      /\ \/ request.count = 2
                         \/ request.count = 0 /\ header.count = eeprom[CountAt]
  /\ pc = "hash" => /\ header.count = eeprom[CountAt]
                    /\ \/ request = Write(HashAt, 1) /\ cycle = NoCycle
                       \/ request = Write(HashAt + 1, 0) /\ DOMAIN cycle \subseteq {HashAt}
  /\ pc = "count" => /\ header.count > last_count
                     /\ \/ request = Write(CountAt, 1) /\ cycle = NoCycle
                        \/ /\ request = Write(CountAt + 1, 0)
                           /\ \/ cycle = NoCycle /\ eeprom[CountAt] = header.count
                              \/ DOMAIN cycle = {CountAt} /\ cycle[CountAt] = header.count
  /\ pc = "load" => /\ cycle = NoCycle
                    /\ eeprom[CountAt] = header.count /\ header.count > last_count
                    /\ request.type = "read" /\ request.address = Start
                    /\ \/ /\ request.count = StructSize
                          /\ \A o \in 0 .. StructSize - 1 :
                               Start + o < Reached => globals[o] = eeprom[Start + o]
                       \/ /\ request.count = 0
                          /\ \A o \in 0 .. StructSize - 1 : globals[o] = eeprom[Start + o]

(* The addresses of a variable. *)
Cells(v) == AddressOf(v) .. AddressOf(v) + Size[v] - 1

(* What the EEPROM holds when the write cycle has ended. *)
After(a) == IF a \in DOMAIN cycle THEN cycle[a] ELSE eeprom[a]

(* Memory and EEPROM agree on a variable. *)
Agree(v) == \A o \in Offsets(v) : globals[o] = eeprom[Start + o]

Loading(v) ==
  /\ command.kind = "load" /\ cycle = NoCycle
  /\ request.type = "read" /\ request.address = AddressOf(v)
  /\ \/ /\ request.count = Size[v]
        /\ v \notin Measured =>
             \A o \in Offsets(v) : Start + o < Reached => globals[o] = eeprom[Start + o]
     \/ request.count = 0 /\ (v \notin Measured => Agree(v))

Saving(v) ==
  /\ command.kind = "save" /\ stored[v] = Unknown
  /\ request.type = "write"
  /\ request.address >= AddressOf(v)
  /\ request.address + request.count = AddressOf(v) + Size[v]
  /\ DOMAIN cycle \subseteq Cells(v)
  /\ \A a \in DOMAIN cycle : a < Reached
  /\ IF overtaken THEN v \in Measured /\ v \in mixed
     ELSE \A a \in Cells(v) : a < Reached => After(a) = globals[a - Start]

RunInv ==
  pc = "run" => \/ request = NoRequest /\ cycle = NoCycle
                \/ /\ request # NoRequest /\ k < Len(command.list) /\ Id \in Var
                   /\ Loading(Id) \/ Saving(Id)

Kept(v, x) == \A o \in Offsets(v) : eeprom[Start + o] = x
StoredInv == \A v \in Var : stored[v] # Unknown => Kept(v, stored[v])

(* A variable in one page: its copy is whole if it is not mixed, and one    *)
(* that no other process writes is never mixed, and whole in memory but     *)
(* while it is loaded.                                                     *)
Serves(v, kind) == request # NoRequest /\ Id = v /\ command.kind = kind
WholeKept == \A v \in Var : InOnePage(v) /\ v \notin mixed => \E x \in Value : Kept(v, x)
WholeOwn == \A v \in Var : InOnePage(v) /\ v \notin Measured => v \notin mixed
WholeHeld ==
  pc = "run" =>
    \A v \in Var : InOnePage(v) =>
      /\ v \notin Measured /\ ~Serves(v, "load") => IsWhole(v)
      /\ Serves(v, "save") /\ v \notin mixed => IsWhole(v)

(* It is sent in one page. *)
WholeCycle ==
  pc = "run" =>
    \A v \in Var : InOnePage(v) /\ Serves(v, "save")
      => \/ request.address = AddressOf(v) /\ (left > 0 \/ cycle = NoCycle)
         \/ request.count = 0 /\ (cycle = NoCycle \/ DOMAIN cycle = Cells(v))
WholeInv == WholeKept /\ WholeOwn /\ WholeHeld /\ WholeCycle

LastOf(n) == \A m \in 1 .. k : m > n => command.list[m].id # command.list[n].id
ListInv ==
  pc = "run" =>
    \A n \in 1 .. k :
      /\ command.list[n].id \in Var
      /\ command.kind = "set" /\ LastOf(n) => Holds(globals, command.list[n].id, command.list[n].value)
      /\ command.kind \in {"load", "save"} /\ command.list[n].id \notin Measured
           => Agree(command.list[n].id)

Inv == TypeInv /\ MoveInv /\ BootInv /\ RunInv /\ StoredInv /\ WholeInv /\ ListInv

-----------------------------------------------------------------------------
(* Pages *)

LEMMA PageOf ==
  ASSUME NEW a \in Nat
  PROVE  /\ a \div Page \in Nat
         /\ a % Page \in 0 .. Page - 1
         /\ a = Page * (a \div Page) + (a % Page)
<1>1. Page \in Nat \ {0} BY StoreAssumption
<1> QED BY <1>1

(* Up to the end of the page, the remainder counts on. *)
LEMMA SamePage ==
  ASSUME NEW a \in Nat, NEW n \in Nat, (a % Page) + n < Page
  PROVE  /\ (a + n) \div Page = a \div Page
         /\ (a + n) % Page = (a % Page) + n
<1> DEFINE q == a \div Page
           r == a % Page
           s == (a + n) \div Page
           t == (a + n) % Page
<1>1. Page \in Nat \ {0} BY StoreAssumption
<1>2. q \in Nat /\ r \in 0 .. Page - 1 /\ a = Page * q + r BY <1>1
<1>3. s \in Nat /\ t \in 0 .. Page - 1 /\ a + n = Page * s + t BY <1>1
<1>4. r + n < Page OBVIOUS
<1> HIDE DEF q, r, s, t
<1>5. ~(s > q)
  <2> SUFFICES ASSUME s >= q + 1
               PROVE  FALSE
    BY <1>2, <1>3
  <2>1. Page * s >= Page * (q + 1) BY <1>1, <1>2, <1>3
  <2>2. Page * (q + 1) = Page * q + Page BY <1>1, <1>2
  <2> QED BY <2>1, <2>2, <1>1, <1>2, <1>3, <1>4
<1>6. ~(s < q)
  <2> SUFFICES ASSUME q >= s + 1
               PROVE  FALSE
    BY <1>2, <1>3
  <2>1. Page * q >= Page * (s + 1) BY <1>1, <1>2, <1>3
  <2>2. Page * (s + 1) = Page * s + Page BY <1>1, <1>3
  <2> QED BY <2>1, <2>2, <1>1, <1>2, <1>3
<1>7. s = q BY <1>2, <1>3, <1>5, <1>6
<1>8. t = r + n
  <2>1. Page * s = Page * q BY <1>7
  <2>2. Page * q \in Nat BY <1>1, <1>2
  <2> QED BY <2>1, <2>2, <1>2, <1>3
<1> QED BY <1>7, <1>8 DEF q, r, s, t

(* A write cycle takes at least one byte and at most what is left, and its  *)
(* bytes go where they are meant to, all of them in the page of the first.  *)
LEMMA PageCountFits ==
  ASSUME NEW a \in Nat, NEW count \in Nat \ {0}
  PROVE  /\ PageCount(a, count) \in 1 .. count
         /\ \A n \in 0 .. PageCount(a, count) - 1 :
              InPage(a, n) = a + n /\ (a + n) \div Page = a \div Page
<1> DEFINE q == a \div Page
           r == a % Page
<1>1. Page \in Nat \ {0} BY StoreAssumption
<1>2. q \in Nat /\ r \in 0 .. Page - 1 /\ a = q * Page + r BY PageOf, <1>1
<1>3. q * Page \in Nat BY <1>1, <1>2
<1>4. PageCount(a, count) \in 1 .. count /\ PageCount(a, count) <= Page - r
  <2> DEFINE p == q * Page
  <2>1. p \in Nat /\ a = p + r BY <1>2, <1>3
  <2>2. PageCount(a, count) = IF a + count < p + Page THEN count ELSE (p + Page) - a
    BY DEF PageCount
  <2> HIDE DEF p, r
  <2> QED BY <2>1, <2>2, <1>1, <1>2
<1>5. ASSUME NEW n \in 0 .. PageCount(a, count) - 1
      PROVE  InPage(a, n) = a + n /\ (a + n) \div Page = a \div Page
  <2>1. n \in Nat /\ r + n < Page BY <1>1, <1>2, <1>4
  <2>2. (a + n) % Page = r + n /\ (a + n) \div Page = q BY <2>1, SamePage
  <2> HIDE DEF q, r
  <2>3. InPage(a, n) = q * Page + (r + n) BY <2>2 DEF InPage, q
  <2>4. InPage(a, n) = a + n BY <2>1, <2>3, <1>2, <1>3
  <2> QED BY <2>2, <2>4 DEF q
<1> QED BY <1>4, <1>5

(* What lies in one page is written in one cycle. *)
LEMMA OneCycle ==
  ASSUME NEW v \in Var, InOnePage(v)
  PROVE  PageCount(AddressOf(v), Size[v]) = Size[v]
<1> DEFINE a == AddressOf(v)
           q == a \div Page
           p == q * Page
<1>1. Page \in Nat \ {0} /\ Size[v] \in Nat \ {0} /\ a \in Nat
  BY StoreAssumption DEF AddressOf
<1>2. q \in Nat /\ p \in Nat BY <1>1, PageOf
<1>3. (a + Size[v] - 1) \div Page = q BY StoreAssumption DEF InOnePage, AddressOf
<1>4. a + Size[v] - 1 \in Nat BY <1>1
<1>5. a + Size[v] - 1 < p + Page BY <1>1, <1>3, <1>4, PageOf
<1>6. PageCount(a, Size[v]) = IF a + Size[v] < p + Page THEN Size[v] ELSE (p + Page) - a
  BY DEF PageCount
<1> HIDE DEF a, p
<1>7. PageCount(a, Size[v]) = Size[v] BY <1>1, <1>2, <1>5, <1>6
<1> QED BY <1>7 DEF a

(* What is moved in one transaction. *)
LEMMA PortionFits ==
  ASSUME TypeInv, request.count > 0
  PROVE  /\ Portion \in 1 .. request.count
         /\ request.type # "write" => Portion = request.count
<1>1. request.address \in Nat /\ request.count \in Nat \ {0} BY DEF TypeInv
<1>2. PageCount(request.address, request.count) \in 1 .. request.count BY <1>1, PageCountFits
<1> QED BY <1>1, <1>2 DEF Portion

(* A cell that is sent goes to its own address, behind those before it. *)
LEMMA SendAt ==
  ASSUME TypeInv, MoveInv, SendCell
  PROVE  /\ Reached = request.address + Moved /\ Reached \in Nat
         /\ Moved \in 0 .. Portion - 1
         /\ request.address <= Reached /\ Reached < request.address + request.count
         /\ DOMAIN cycle = request.address .. Reached - 1
         /\ DOMAIN cycle' = request.address .. Reached
         /\ cycle'[Reached] = Source(Reached)
         /\ \A a \in DOMAIN cycle : cycle'[a] = cycle[a]
         /\ Reached' = Reached + 1
         /\ left' \in Nat /\ left' = left - 1
         /\ request'.type = "write" /\ request'.address \in Nat /\ request'.count \in Nat
         /\ request'.address >= request.address
         /\ request'.address + request'.count = request.address + request.count
         /\ left' > 0 => request' = request
         /\ left' = 0 => request'.address = Reached + 1
                         /\ request' = [request EXCEPT !.count = request'.count,
                                                       !.address = request'.address]
<1>1. /\ left \in Nat /\ left > 0 /\ request.type = "write"
      /\ request.count \in Nat /\ request.count > 0 /\ request.address \in Nat
      /\ left <= Portion
  BY DEF TypeInv, MoveInv, SendCell
<1>2. Portion \in 1 .. request.count BY <1>1, PortionFits
<1>3. Moved = Portion - left BY DEF Moved
<1>4. Moved \in 0 .. Portion - 1 BY <1>1, <1>2, <1>3
<1>5. Reached = request.address + Moved /\ Reached \in Nat BY <1>1, <1>4 DEF Reached
<1>6. Portion = PageCount(request.address, request.count) BY <1>1 DEF Portion
<1>7. InPage(request.address, Moved) = Reached
  <2>1. request.count \in Nat \ {0} BY <1>1
  <2>2. Moved \in 0 .. PageCount(request.address, request.count) - 1 BY <1>4, <1>6
  <2>3. InPage(request.address, Moved) = request.address + Moved
    BY <1>1, <2>1, <2>2, PageCountFits
  <2> QED BY <1>5, <2>3
<1>8. DOMAIN cycle = request.address .. Reached - 1 BY <1>1 DEF MoveInv
<1>9. cycle' = [a \in DOMAIN cycle \cup {Reached} |->
                  IF a = Reached THEN Source(Reached) ELSE cycle[a]]
  BY <1>5, <1>7 DEF SendCell
<1>10. DOMAIN cycle' = request.address .. Reached
  <2>1. DOMAIN cycle' = DOMAIN cycle \cup {Reached} BY <1>9
  <2> QED BY <2>1, <1>1, <1>4, <1>5, <1>8
<1>11. cycle'[Reached] = Source(Reached) BY <1>9
<1>12. \A a \in DOMAIN cycle : cycle'[a] = cycle[a] BY <1>1, <1>5, <1>8, <1>9
<1>13. left' = left - 1 /\ left' \in Nat BY <1>1 DEF SendCell
<1>14. CASE left = 1
  <2>1. request' = [request EXCEPT !.count = @ - Portion, !.address = @ + Portion]
    BY <1>14 DEF SendCell
  <2>2. /\ request'.type = "write" /\ request'.address = request.address + Portion
        /\ request'.count = request.count - Portion
    BY <1>1, <2>1 DEF TypeInv
  <2>3. Reached' = request'.address BY <1>13, <1>14 DEF Reached
  <2>4. Moved = Portion - 1 BY <1>3, <1>14
  <2>5. request' = [request EXCEPT !.count = request'.count, !.address = request'.address]
    BY <2>1, <2>2 DEF TypeInv
  <2>6. request'.address = Reached + 1 BY <1>1, <1>2, <1>5, <2>2, <2>4
  <2>7. /\ request'.address \in Nat /\ request'.count \in Nat
        /\ request'.address >= request.address
        /\ request'.address + request'.count = request.address + request.count
    BY <1>1, <1>2, <2>2
  <2>8. left' = 0 BY <1>13, <1>14
  <2>9. request.address <= Reached /\ Reached < request.address + request.count
    BY <1>1, <1>2, <1>4, <1>5
  <2>10. Reached' = Reached + 1 BY <2>3, <2>6
  <2>11. left' > 0 => request' = request BY <2>8
  <2>12. left' = 0 => request'.address = Reached + 1
                      /\ request' = [request EXCEPT !.count = request'.count,
                                                    !.address = request'.address]
    BY ONLY <2>5, <2>6
  <2>13. request'.type = "write" /\ request'.address \in Nat /\ request'.count \in Nat
    BY ONLY <2>2, <2>7
  <2> QED
    BY ONLY <1>4, <1>5, <1>8, <1>10, <1>11, <1>12, <1>13, <2>7, <2>9, <2>10, <2>11, <2>12, <2>13,
            Zenon
<1>15. CASE left # 1
  <2>1. request' = request BY <1>15 DEF SendCell
  <2>2. Portion' = Portion BY <2>1 DEF Portion, PageCount
  <2>3. left' > 0 BY <1>1, <1>13, <1>15
  <2>4. Reached' = request.address + (Portion - (left - 1))
    BY <2>1, <2>2, <2>3, <1>13 DEF Reached, Moved
  <2>5. Reached' = Reached + 1 BY <2>4, <1>1, <1>2, <1>3, <1>5
  <2>6. request.address <= Reached /\ Reached < request.address + request.count
    BY <1>1, <1>2, <1>4, <1>5
  <2>7. /\ request'.type = "write" /\ request'.address \in Nat /\ request'.count \in Nat
        /\ request'.address >= request.address
        /\ request'.address + request'.count = request.address + request.count
    BY <1>1, <2>1
  <2>8. left' # 0 BY <2>3
  <2> QED
    BY ONLY <1>4, <1>5, <1>8, <1>10, <1>11, <1>12, <1>13, <2>1, <2>5, <2>6, <2>7, <2>8, Zenon
<1> QED BY <1>14, <1>15

(* A cell that is read goes to its own place. *)
LEMMA ReceiveAt ==
  ASSUME TypeInv, MoveInv, ReceiveCell
  PROVE  /\ Reached \in Nat /\ request.type = "read" /\ left > 0 /\ request.count > 0
         /\ Reached = request.address + (request.count - left)
         /\ request.address <= Reached /\ Reached < request.address + request.count
         /\ header' = [hash |-> IF Reached = HashAt THEN eeprom[Reached] ELSE header.hash,
                       count |-> IF Reached = CountAt THEN eeprom[Reached] ELSE header.count]
         /\ globals' = [o \in DOMAIN globals |->
                          IF Start + o = Reached THEN eeprom[Reached] ELSE globals[o]]
         /\ left' \in Nat /\ left' = left - 1
         /\ request'.type = "read" /\ request'.address = request.address
         /\ request' \in [type : {"none", "read", "write"}, address : Nat, count : Nat]
         /\ left' > 0 => request' = request /\ Reached' = Reached + 1
         /\ left' = 0 => request'.count = 0 /\ Reached + 1 = request.address + request.count
<1>1. /\ left \in Nat /\ left > 0 /\ request.type = "read"
      /\ request.count \in Nat /\ request.count > 0 /\ request.address \in Nat
      /\ left <= Portion /\ Portion = request.count
  BY DEF TypeInv, MoveInv, ReceiveCell, Portion
<1>2. Moved = request.count - left BY <1>1 DEF Moved
<1>3. Reached = request.address + (request.count - left) BY <1>1, <1>2 DEF Reached
<1>4. request.address + Moved = Reached BY <1>2, <1>3
<1>5. left' = left - 1 BY DEF ReceiveCell
<1>6. /\ header' = [hash |-> IF Reached = HashAt THEN eeprom[Reached] ELSE header.hash,
                    count |-> IF Reached = CountAt THEN eeprom[Reached] ELSE header.count]
      /\ globals' = [o \in DOMAIN globals |->
                       IF Start + o = Reached THEN eeprom[Reached] ELSE globals[o]]
  BY <1>4 DEF ReceiveCell
<1>7. CASE left = 1
  <2>1. request' = [request EXCEPT !.count = 0] BY <1>7 DEF ReceiveCell
  <2>2. request'.type = "read" /\ request'.address = request.address /\ request'.count = 0
    BY <1>1, <2>1 DEF TypeInv
  <2>3. request' \in [type : {"none", "read", "write"}, address : Nat, count : Nat]
    BY <2>1 DEF TypeInv
  <2> QED BY <1>1, <1>3, <1>5, <1>6, <1>7, <2>2, <2>3
<1>8. CASE left # 1
  <2>1. request' = request BY <1>8 DEF ReceiveCell
  <2>2. left' > 0 BY <1>1, <1>5, <1>8
  <2>3. Reached' = request.address + (request.count - (left - 1))
    BY <1>1, <1>5, <2>1, <2>2 DEF Reached, Moved, Portion
  <2>4. Reached' = Reached + 1 BY <1>1, <1>3, <2>3
  <2>5. request' \in [type : {"none", "read", "write"}, address : Nat, count : Nat]
    BY <2>1 DEF TypeInv
  <2> QED BY <1>1, <1>3, <1>5, <1>6, <2>1, <2>2, <2>4, <2>5
<1> QED BY <1>7, <1>8

(* Where a variable lies. *)
LEMMA PlaceOf ==
  ASSUME NEW v \in Var
  PROVE  /\ First[v] \in Nat /\ Size[v] \in Nat \ {0} /\ Start \in Nat /\ StructSize \in Nat
         /\ First[v] + Size[v] <= StructSize
         /\ AddressOf(v) = Start + First[v] /\ AddressOf(v) \in Nat
         /\ Start >= 2
<1>1. First[v] \in Nat /\ Size[v] \in Nat \ {0} BY StoreAssumption
<1> QED BY <1>1, StoreAssumption DEF AddressOf

(* Offsets and addresses of a variable are one and the same range. *)
LEMMA CellsOf ==
  ASSUME NEW v \in Var
  PROVE  /\ First[v] \in Offsets(v) /\ Offsets(v) \subseteq 0 .. StructSize - 1
         /\ \A o \in Offsets(v) : Start + o \in Cells(v)
         /\ \A a \in Cells(v) : /\ a \in Address /\ a \in Nat /\ a >= 2
                               /\ a - Start \in Offsets(v) /\ Start + (a - Start) = a
BY PlaceOf DEF Offsets, Cells, Address

(* No two variables share a cell. *)
LEMMA CellsApart ==
  ASSUME NEW v \in Var, NEW w \in Var, v # w
  PROVE  /\ Cells(v) \cap Cells(w) = {}
         /\ Offsets(v) \cap Offsets(w) = {}
<1>1. First[v] + Size[v] <= First[w] \/ First[w] + Size[w] <= First[v] BY StoreAssumption
<1> QED BY <1>1, PlaceOf DEF Cells, Offsets

(* A step of the DMA controller and of the EEPROM changes no list. *)
LEMMA EepromKeeps ==
  ASSUME Inv, Eeprom
  PROVE  /\ UNCHANGED <<firmware, pc, command, k, answer, stored, overtaken, mixed, last_count,
                        bounds>>
         /\ Id' = Id
         /\ request # NoRequest
         /\ ~CycleEnds => UNCHANGED eeprom
         /\ ~ReceiveCell => UNCHANGED <<globals, header>>
         /\ request' # NoRequest /\ request'.type = request.type
<1>1. UNCHANGED <<firmware, pc, command, k, answer, stored, overtaken, mixed, last_count, bounds>>
  BY DEF Eeprom, ProcessRequest, SendCell, CycleEnds, ReceiveCell, list, saved
<1>2. Id' = Id BY <1>1 DEF Id
<1>3. request.count \in Nat /\ (pc # "run" /\ pc # "start" => request.type \in {"read", "write"})
  BY DEF Inv, TypeInv, BootInv, Read, Write
<1>4. request # NoRequest
  <2>1. CASE ProcessRequest \/ SendCell \/ ReceiveCell
    BY <2>1 DEF ProcessRequest, SendCell, ReceiveCell, NoRequest
  <2>2. CASE CycleEnds
    <3>1. pc = "run" => request # NoRequest BY <2>2 DEF CycleEnds, Inv, RunInv
    <3>2. pc # "start" BY <2>2 DEF CycleEnds, Inv, BootInv
    <3> QED BY <1>3, <3>1, <3>2 DEF NoRequest
  <2> QED BY <2>1, <2>2 DEF Eeprom
<1>5. request.type \in {"read", "write"}
  BY <1>3, <1>4 DEF Inv, RunInv, BootInv, Loading, Saving
<1>6. request'.type = request.type
  <2>1. CASE ProcessRequest \/ CycleEnds BY <2>1 DEF ProcessRequest, CycleEnds
  <2>2. CASE SendCell BY <2>2, SendAt DEF Inv, SendCell
  <2>3. CASE ReceiveCell BY <2>3, ReceiveAt DEF Inv
  <2> QED BY <2>1, <2>2, <2>3 DEF Eeprom
<1>7. request' # NoRequest BY <1>5, <1>6 DEF NoRequest
<1>8. /\ ~CycleEnds => UNCHANGED eeprom
      /\ ~ReceiveCell => UNCHANGED <<globals, header>>
  BY DEF Eeprom, ProcessRequest, SendCell, CycleEnds, ReceiveCell
<1> QED BY <1>1, <1>2, <1>4, <1>6, <1>7, <1>8

(* What is sent: a field of the header, or a cell of the variable that is   *)
(* being saved.                                                            *)
LEMMA Sends ==
  ASSUME Inv, SendCell
  PROVE  \/ /\ pc = "hash" /\ Reached = HashAt /\ request' = Write(HashAt + 1, 0)
            /\ DOMAIN cycle' = {HashAt}
         \/ /\ pc = "count" /\ Reached = CountAt /\ request' = Write(CountAt + 1, 0)
            /\ DOMAIN cycle' = {CountAt} /\ cycle'[CountAt] = header.count
         \/ /\ pc = "run" /\ Id \in Var /\ Saving(Id)
            /\ Reached \in Cells(Id) /\ cycle'[Reached] = globals[Reached - Start]
<1> USE DEF Inv
<1>1. request.type = "write" /\ left > 0 /\ request.count > 0 BY DEF SendCell, MoveInv
<1>2. ASSUME NEW a \in {HashAt, CountAt}, request = Write(a, 1)
      PROVE  Reached = a /\ request' = Write(a + 1, 0) /\ DOMAIN cycle' = {a}
  <2>1. a \in Nat /\ request.address = a /\ request.count = 1
    BY <1>2 DEF Write, HashAt, CountAt
  <2>2. Reached = a BY <2>1, SendAt
  <2>3. DOMAIN cycle' = {a} BY <2>1, <2>2, SendAt
  <2>4. request'.address + request'.count = a + 1 /\ request'.count \in Nat
    BY <2>1, SendAt
  <2>5. left' = 0
    <3>1. Portion \in 1 .. 1 BY <2>1, PortionFits
    <3>2. left <= Portion /\ left \in Nat BY <1>1 DEF MoveInv, TypeInv
    <3> QED BY <1>1, <3>1, <3>2, SendAt
  <2>6. request'.address = a + 1 BY <2>2, <2>5, SendAt
  <2>7. request'.count = 0 BY <2>1, <2>4, <2>6
  <2>8. request' = [request EXCEPT !.count = 0, !.address = a + 1] BY <2>5, <2>6, <2>7, SendAt
  <2>9. request' = Write(a + 1, 0) BY <1>2, <2>8 DEF Write
  <2> QED BY <2>2, <2>3, <2>9
<1>3. CASE pc = "hash"
  <2>1. request = Write(HashAt, 1) BY <1>1, <1>3 DEF BootInv, Write
  <2> QED BY <1>2, <1>3, <2>1
<1>4. CASE pc = "count"
  <2>1. request = Write(CountAt, 1) BY <1>1, <1>4 DEF BootInv, Write
  <2>2. Reached = CountAt BY <1>2, <2>1
  <2>3. cycle'[CountAt] = header.count BY <2>2, SendAt DEF Source, HashAt, CountAt
  <2> QED BY <1>2, <1>4, <2>1, <2>3
<1>5. CASE pc = "run"
  <2>1. Id \in Var /\ Saving(Id) BY <1>1, <1>5 DEF RunInv, NoRequest, Loading
  <2>2. Reached \in Cells(Id)
    <3>1. /\ request.address >= AddressOf(Id)
          /\ request.address + request.count = AddressOf(Id) + Size[Id]
      BY <2>1 DEF Saving
    <3>2. AddressOf(Id) \in Nat /\ Size[Id] \in Nat BY <2>1, PlaceOf
    <3>3. /\ Reached \in Nat /\ request.address <= Reached
          /\ Reached < request.address + request.count
          /\ request.address \in Nat /\ request.count \in Nat
      BY SendAt DEF TypeInv
    <3> HIDE DEF Inv
    <3> QED BY <3>1, <3>2, <3>3 DEF Cells
  <2>3. Reached # HashAt /\ Reached # CountAt BY <2>1, <2>2, CellsOf DEF HashAt, CountAt
  <2>4. cycle'[Reached] = globals[Reached - Start] BY <2>3, SendAt DEF Source
  <2> QED BY <1>5, <2>1, <2>2, <2>4
<1>6. pc \notin {"start", "header", "load"} BY <1>1 DEF BootInv, NoRequest
<1> QED BY <1>3, <1>4, <1>5, <1>6 DEF TypeInv

LEMMA ListOf ==
  ASSUME NEW kind, NEW n \in Nat, NEW entries \in [1 .. n -> Entry(kind)]
  PROVE  entries \in Seq(Entry(kind)) /\ Len(entries) = n
OBVIOUS

LEMMA NoDomain == DOMAIN NoCycle = {}
BY DEF NoCycle

LEMMA InitInv == Init => Inv
<1> SUFFICES ASSUME Init
             PROVE  Inv
  OBVIOUS
<1>1. PICK x \in Value, hash \in {Unknown, Hash[1]} :
        /\ eeprom = [a \in Address |-> IF a = HashAt THEN hash ELSE IF a = CountAt THEN 1 ELSE x]
        /\ stored = [v \in Var |-> x]
  BY DEF Init
<1>2. HashAt \in Address /\ CountAt \in Address BY StoreAssumption DEF HashAt, CountAt, Address
<1>3. hash \in Nat /\ 1 \in DOMAIN Hash BY StoreAssumption DEF Unknown
<1>4. x \in Nat BY StoreAssumption
<1>5. TypeInv
  <2>1. eeprom \in [Address -> Nat] BY <1>1, <1>3, <1>4
  <2>2. stored \in [Var -> Value \cup {Unknown}] BY <1>1
  <2>3. /\ left \in Nat /\ firmware \in DOMAIN Hash /\ overtaken \in BOOLEAN /\ mixed \subseteq Var
        /\ last_count \in Nat /\ \A a \in DOMAIN cycle : cycle[a] \in Nat
    BY <1>3, NoDomain DEF Init
  <2>4. /\ globals \in [0 .. StructSize - 1 -> Nat] /\ header \in [hash : Nat, count : Nat]
        /\ pc \in {"start", "header", "hash", "count", "load", "run"}
        /\ request \in [type : {"none", "read", "write"}, address : Nat, count : Nat]
        /\ answer \in {"none", "answered", "refused"}
    BY DEF Init, NoRequest
  <2>5. command = NoCommand /\ k \in 0 .. Len(command.list) BY DEF Init, NoCommand
  <2> QED BY <2>1, <2>2, <2>3, <2>4, <2>5 DEF TypeInv
<1>6. MoveInv BY DEF Init, MoveInv
<1>7. BootInv BY <1>1, <1>2 DEF Init, BootInv, HashAt, CountAt
<1>8. RunInv BY DEF Init, RunInv
<1>9. ASSUME NEW v \in Var
      PROVE  Kept(v, x)
  BY <1>1, <1>9, StoreAssumption DEF Kept, Offsets, Address, HashAt, CountAt
<1>10. StoredInv BY <1>1, <1>9 DEF StoredInv
<1>11. WholeInv
  BY <1>9 DEF WholeInv, WholeKept, WholeOwn, WholeHeld, WholeCycle, Init
<1>12. ListInv BY DEF ListInv, Init
<1> QED BY <1>5, <1>6, <1>7, <1>8, <1>10, <1>11, <1>12 DEF Inv

-----------------------------------------------------------------------------
(* Types, and what is moved *)

LEMMA TypeBoot ==
  ASSUME Inv, Boot
  PROVE  TypeInv'
<1> USE DEF Inv, TypeInv, memory, list, saved
<1>1. HashAt \in Nat /\ CountAt \in Nat /\ Start \in Nat /\ StructSize \in Nat
  BY StoreAssumption DEF HashAt, CountAt
<1>2. Hash[firmware] \in Nat BY StoreAssumption
<1>3. CASE ReadHeader BY <1>1, <1>3 DEF ReadHeader, Read
<1>4. CASE WriteHash BY <1>1, <1>2, <1>4 DEF WriteHash, BootStep, Write
<1>5. CASE WriteCount
  <2>1. /\ request' = Write(CountAt, 1) /\ pc' = "count"
        /\ UNCHANGED <<memory, firmware, list, saved, last_count>>
    BY <1>5 DEF WriteCount, BootStep
  <2>2. header' \in [hash : Nat, count : Nat] BY <1>5 DEF WriteCount, Counted
  <2>3. UNCHANGED globals BY <1>5 DEF WriteCount
  <2> QED BY <1>1, <2>1, <2>2, <2>3 DEF Write
<1>6. CASE LoadGlobals BY <1>1, <1>6 DEF LoadGlobals, BootStep, Read
<1>7. CASE Running BY <1>7 DEF Running, NoRequest
<1> QED BY <1>3, <1>4, <1>5, <1>6, <1>7 DEF Boot

LEMMA EntryOf ==
  ASSUME TypeInv, k < Len(command.list)
  PROVE  /\ command # NoCommand
         /\ k + 1 \in 1 .. Len(command.list) /\ k \in Nat
         /\ command.list[k + 1].id \in Var \cup {BadId}
         /\ command.kind = "set" => command.list[k + 1].value \in Value
<1>1. command # NoCommand BY DEF NoCommand, TypeInv
<1>2. PICK kind \in Kind : command \in [kind : {kind}, list : Seq(Entry(kind))]
  BY <1>1 DEF TypeInv
<1>3. k + 1 \in 1 .. Len(command.list) /\ k \in Nat BY <1>2 DEF TypeInv
<1>4. command.list[k + 1] \in Entry(kind) BY <1>2, <1>3
<1> QED BY <1>1, <1>2, <1>3, <1>4 DEF Entry

LEMMA TypeHandler ==
  ASSUME Inv, Handler
  PROVE  TypeInv'
<1> USE DEF Inv, TypeInv, memory, list, saved
<1>1. CASE NotFound BY <1>1 DEF NotFound, Refuse, Ends, NoCommand
<1>2. CASE TooLong BY <1>2 DEF TooLong, Refuse, Ends, NoCommand
<1>3. CASE GetValue BY <1>3, EntryOf DEF GetValue, Working
<1>4. CASE SetValue
  <2>1. k < Len(command.list) /\ command.kind = "set" BY <1>4 DEF SetValue, Working
  <2>2. command.list[k + 1].value \in Nat BY <2>1, EntryOf, StoreAssumption
  <2> QED BY <1>4, <2>1, <2>2, EntryOf DEF SetValue
<1>5. CASE LoadValue
  <2>1. Id \in Var BY <1>5 DEF LoadValue, Finds
  <2> QED BY <1>5, <2>1, PlaceOf DEF LoadValue, Read
<1>6. CASE SaveValue
  <2>1. Id \in Var BY <1>6 DEF SaveValue, Finds
  <2> QED BY <1>6, <2>1, PlaceOf DEF SaveValue, Write, Unknown
<1>7. CASE ValueDone
  <2>1. k < Len(command.list) /\ Id \in Var BY <1>7 DEF ValueDone, Done, RunInv
  <2>2. First[Id] \in Offsets(Id) BY <2>1, CellsOf
  <2>3. stored' \in [Var -> Value \cup {Unknown}] /\ mixed' \subseteq Var
    BY <1>7, <2>1, <2>2 DEF ValueDone, IsWhole, Holds
  <2> QED BY <1>7, <2>1, <2>3, EntryOf DEF ValueDone, NoRequest
<1>8. CASE Answer BY <1>8 DEF Answer, Ends, NoCommand
<1> QED BY <1>1, <1>2, <1>3, <1>4, <1>5, <1>6, <1>7, <1>8 DEF Handler

LEMMA TypeEeprom ==
  ASSUME Inv, Eeprom
  PROVE  TypeInv'
<1> USE DEF Inv, TypeInv
<1>0. UNCHANGED <<firmware, pc, command, k, answer, stored, overtaken, mixed, last_count>>
  BY EepromKeeps
<1>1. CASE ProcessRequest
  <2>1. left' \in Nat BY <1>1, PortionFits DEF ProcessRequest
  <2> QED BY <1>1, <2>1, <1>0 DEF ProcessRequest
<1>2. CASE SendCell
  <2>1. \A a \in DOMAIN cycle' : cycle'[a] \in Nat
    <3>1. \A a \in DOMAIN cycle' : a \in DOMAIN cycle \/ a = Reached BY <1>2, SendAt
    <3>2. cycle'[Reached] \in Nat
      <4>1. CASE pc = "run"
        <5>1. Id \in Var /\ Reached \in Cells(Id) /\ cycle'[Reached] = globals[Reached - Start]
          BY <1>2, <4>1, Sends
        <5>2. Reached - Start \in 0 .. StructSize - 1 BY <5>1, CellsOf
        <5> QED BY <5>1, <5>2
      <4>2. CASE pc # "run"
        <5>1. Reached \in {HashAt, CountAt} BY <1>2, <4>2, Sends
        <5> QED BY <1>2, <5>1, SendAt DEF Source
      <4> QED BY <4>1, <4>2
    <3> QED BY <1>2, <3>1, <3>2, SendAt
  <2>2. request' \in [type : {"none", "read", "write"}, address : Nat, count : Nat]
    <3>1. left' = 0 => request' = [request EXCEPT !.count = request'.count,
                                                  !.address = request'.address]
      BY <1>2, SendAt
    <3>2. request'.address \in Nat /\ request'.count \in Nat BY <1>2, SendAt
    <3>3. left' = 0 \/ left' > 0 BY <1>2, SendAt
    <3>4. left' > 0 => request' = request BY <1>2, SendAt
    <3> QED BY <3>1, <3>2, <3>3, <3>4
  <2>3. left' \in Nat BY <1>2, SendAt
  <2> QED BY <1>0, <1>2, <2>1, <2>2, <2>3 DEF SendCell
<1>3. CASE ReceiveCell
  <2>1. HashAt \in Address /\ CountAt \in Address BY StoreAssumption DEF HashAt, CountAt, Address
  <2>2. \A o \in 0 .. StructSize - 1 : Start + o \in Address BY StoreAssumption DEF Address
  <2>3. header' \in [hash : Nat, count : Nat] BY <1>3, <2>1, ReceiveAt
  <2>4. globals' \in [0 .. StructSize - 1 -> Nat] BY <1>3, <2>2, ReceiveAt
  <2> QED BY <1>0, <1>3, <2>3, <2>4, ReceiveAt DEF ReceiveCell
<1>4. CASE CycleEnds
  <2>1. eeprom' \in [Address -> Nat] BY <1>4 DEF CycleEnds
  <2> QED BY <1>0, <1>4, <2>1, NoDomain DEF CycleEnds
<1> QED BY <1>1, <1>2, <1>3, <1>4 DEF Eeprom

LEMMA TypeCommand ==
  ASSUME Inv, NEW kind \in Kind, NEW n \in 1 .. 2, NEW entries \in [1 .. n -> Entry(kind)],
         Command(kind, entries)
  PROVE  TypeInv'
<1>1. entries \in Seq(Entry(kind)) /\ 0 \in 0 .. Len(entries) BY ListOf
<1> QED BY <1>1 DEF Inv, TypeInv, Command, memory, saved

LEMMA TypeMeasure ==
  ASSUME Inv, NEW v \in Measured, NEW x \in Value, Measure(v, x)
  PROVE  TypeInv'
BY StoreAssumption DEF Inv, TypeInv, Measure, memory, list

LEMMA TypePower ==
  ASSUME Inv, PowerFails
  PROVE  TypeInv'
<1> USE DEF Inv, TypeInv
<1>1. eeprom' \in [Address -> Nat] BY DEF PowerFails
<1>2. globals' \in [0 .. StructSize - 1 -> Nat] /\ header' \in [hash : Nat, count : Nat]
  BY DEF PowerFails
<1>3. firmware' \in DOMAIN Hash BY DEF PowerFails
<1>4. command' = NoCommand /\ k' \in 0 .. Len(command'.list) BY DEF PowerFails, NoCommand
<1>5. /\ request' \in [type : {"none", "read", "write"}, address : Nat, count : Nat]
      /\ pc' \in {"start", "header", "hash", "count", "load", "run"}
      /\ answer' \in {"none", "answered", "refused"}
  BY DEF PowerFails, NoRequest
<1>6. /\ left' \in Nat /\ overtaken' \in BOOLEAN /\ UNCHANGED <<stored, mixed, last_count>>
      /\ \A a \in DOMAIN cycle' : cycle'[a] \in Nat
  BY NoDomain DEF PowerFails
<1> QED BY <1>1, <1>2, <1>3, <1>4, <1>5, <1>6

(* No request begins while another one is moved. *)
LEMMA MoveStep ==
  ASSUME Inv, Boot \/ Handler \/ Eeprom
  PROVE  MoveInv'
<1> USE DEF Inv
<1>1. CASE Boot \/ Handler
  <2>1. left = 0
    <3>1. CASE request.count = 0 BY <3>1 DEF MoveInv, TypeInv
    <3>2. CASE request = NoRequest BY <3>2 DEF MoveInv, TypeInv, NoRequest
    <3>3. request.count = 0 \/ request = NoRequest
      BY <1>1 DEF Boot, ReadHeader, WriteHash, WriteCount, LoadGlobals, Running, BootStep, Done,
         BootInv, Handler, NotFound, TooLong, GetValue, SetValue, LoadValue, SaveValue, ValueDone,
         Answer, Working
    <3> QED BY <3>1, <3>2, <3>3
  <2>2. UNCHANGED left
    BY <1>1 DEF Boot, ReadHeader, WriteHash, WriteCount, LoadGlobals, Running, BootStep,
       Handler, NotFound, TooLong, GetValue, SetValue, LoadValue, SaveValue, ValueDone,
       Answer, memory
  <2> QED BY <2>1, <2>2 DEF MoveInv
<1>2. CASE ProcessRequest
  <2>1. /\ request.count > 0 /\ cycle = NoCycle /\ left' = Portion
        /\ UNCHANGED <<request, cycle>>
    BY <1>2 DEF ProcessRequest
  <2>2. Portion' = Portion BY <2>1 DEF Portion, PageCount
  <2>3. Portion \in Nat /\ request.address \in Nat BY <2>1, PortionFits DEF TypeInv
  <2>4. Reached' = request.address BY <2>1, <2>2, <2>3 DEF Reached, Moved
  <2>5. DOMAIN cycle' = request'.address .. Reached' - 1 BY <2>1, <2>3, <2>4, NoDomain
  <2> QED BY <2>1, <2>2, <2>3, <2>5 DEF MoveInv
<1>3. CASE SendCell
  <2>1. left' > 0 => request' = request BY <1>3, SendAt
  <2>2. left' > 0 => Portion' = Portion BY <2>1 DEF Portion, PageCount
  <2>3. DOMAIN cycle' = request.address .. Reached' - 1
    <3>1. DOMAIN cycle' = request.address .. Reached /\ Reached' = Reached + 1 /\ Reached \in Nat
      BY <1>3, SendAt
    <3> QED BY <3>1
  <2>4. /\ request.count > 0 /\ left <= Portion /\ request.type = "write"
    BY <1>3 DEF SendCell, MoveInv
  <2>5. request.count \in Nat /\ left \in Nat /\ Portion \in Nat
    BY <2>4, PortionFits DEF TypeInv
  <2>6. left' = left - 1 BY <1>3, SendAt
  <2>7. left' <= Portion BY <2>4, <2>5, <2>6
  <2> QED BY <2>1, <2>2, <2>3, <2>4, <2>7 DEF MoveInv
<1>4. CASE ReceiveCell
  <2>1. left' > 0 => request' = request BY <1>4, ReceiveAt
  <2>2. left' > 0 => Portion' = Portion BY <2>1 DEF Portion, PageCount
  <2>3. request.type = "read" /\ request.count > 0 /\ left <= Portion /\ cycle' = NoCycle
    BY <1>4 DEF ReceiveCell, MoveInv
  <2>4. left \in Nat /\ Portion \in Nat BY <2>3, PortionFits DEF TypeInv
  <2>5. left' = left - 1 BY <1>4, ReceiveAt
  <2>6. left' <= Portion BY <2>3, <2>4, <2>5
  <2> QED BY <2>1, <2>2, <2>3, <2>6 DEF MoveInv
<1>5. CASE CycleEnds BY <1>5 DEF CycleEnds, MoveInv
<1> QED BY <1>1, <1>2, <1>3, <1>4, <1>5 DEF Eeprom

-----------------------------------------------------------------------------
(* The write cycle *)

(* Of which variable the cells are that are being written, and when the     *)
(* count of start-ups is.                                                  *)
LEMMA CycleIsOf ==
  ASSUME Inv
  PROVE  /\ \A v \in Var : \A a \in Cells(v) :
              a \in DOMAIN cycle => pc = "run" /\ Id = v /\ request # NoRequest /\ Saving(v)
         /\ CountAt \in DOMAIN cycle => pc = "count"
<1> USE DEF Inv
<1>1. CASE pc \in {"start", "header", "load"} BY <1>1, NoDomain DEF BootInv
<1>2. CASE pc = "hash"
  <2>1. DOMAIN cycle \subseteq {HashAt} BY <1>2, NoDomain DEF BootInv
  <2> QED BY <2>1, CellsOf DEF HashAt, CountAt
<1>3. CASE pc = "count"
  <2>1. DOMAIN cycle \subseteq {CountAt} BY <1>3, NoDomain DEF BootInv
  <2> QED BY <1>3, <2>1, CellsOf DEF CountAt
<1>4. CASE pc = "run"
  <2>1. CASE cycle = NoCycle BY <2>1, NoDomain
  <2>2. CASE cycle # NoCycle
    <3>1. request # NoRequest /\ Id \in Var /\ Saving(Id) BY <1>4, <2>2 DEF RunInv, Loading
    <3>2. DOMAIN cycle \subseteq Cells(Id) BY <3>1 DEF Saving
    <3>3. CountAt \notin Cells(Id) BY <3>1, CellsOf DEF CountAt
    <3>4. ASSUME NEW v \in Var, NEW a \in Cells(v), a \in DOMAIN cycle
          PROVE  Id = v
      BY <3>1, <3>2, <3>4, CellsApart
    <3> QED BY <1>4, <3>1, <3>2, <3>3, <3>4
  <2> QED BY <2>1, <2>2
<1> QED BY <1>1, <1>2, <1>3, <1>4 DEF TypeInv

LEMMA AfterCount ==
  ASSUME Inv
  PROVE  last_count <= After(CountAt) /\ (pc # "count" => After(CountAt) = eeprom[CountAt])
<1>1. CASE CountAt \in DOMAIN cycle
  <2>1. pc = "count" BY <1>1, CycleIsOf
  <2>2. cycle[CountAt] = header.count /\ header.count > last_count
    BY <1>1, <2>1, NoDomain DEF Inv, BootInv
  <2> QED BY <1>1, <2>1, <2>2 DEF After, Inv, TypeInv
<1>2. CASE CountAt \notin DOMAIN cycle BY <1>2 DEF After, Inv, BootInv
<1> QED BY <1>1, <1>2

LEMMA AfterStored ==
  ASSUME Inv, NEW v \in Var, stored[v] # Unknown, NEW o \in Offsets(v)
  PROVE  After(Start + o) = stored[v]
<1>1. Start + o \in Cells(v) BY CellsOf
<1>2. Start + o \notin DOMAIN cycle BY <1>1, CycleIsOf DEF Saving
<1> QED BY <1>2 DEF After, Inv, StoredInv, Kept

LEMMA AfterWhole ==
  ASSUME Inv, left = 0, NEW v \in Var, InOnePage(v), v \notin mixed
  PROVE  \E x \in Value : \A o \in Offsets(v) : After(Start + o) = x
<1> USE DEF Inv
<1>1. CASE \E a \in Cells(v) : a \in DOMAIN cycle
  <2>1. pc = "run" /\ Id = v /\ request # NoRequest /\ Saving(v) BY <1>1, CycleIsOf
  <2>2. Serves(v, "save") BY <2>1 DEF Saving, Serves
  <2>3. PICK x \in Value : Holds(globals, v, x)
    BY <2>1, <2>2 DEF WholeInv, WholeHeld, IsWhole
  <2>4. request.count = 0 BY <1>1, <2>1, <2>2, NoDomain DEF WholeInv, WholeCycle
  <2>5. Reached = AddressOf(v) + Size[v]
    BY <2>1, <2>4 DEF Saving, TypeInv, Reached
  <2>6. ASSUME NEW o \in Offsets(v)
        PROVE  After(Start + o) = x
    <3>1. Start + o \in Cells(v) /\ o \in Nat /\ (Start + o) - Start = o
      BY PlaceOf, CellsOf DEF Offsets
    <3>2. Start + o < Reached BY <2>5, <3>1, PlaceOf DEF Cells
    <3>3. After(Start + o) = globals[o] BY <2>1, <3>1, <3>2 DEF Saving
    <3> QED BY <2>3, <3>3 DEF Holds
  <2> QED BY <2>6
<1>2. CASE ~\E a \in Cells(v) : a \in DOMAIN cycle
  <2>1. PICK x \in Value : Kept(v, x) BY DEF WholeInv, WholeKept
  <2>2. ASSUME NEW o \in Offsets(v)
        PROVE  After(Start + o) = x
    <3>1. Start + o \in Cells(v) BY CellsOf
    <3> QED BY <1>2, <2>1, <3>1 DEF After, Kept
  <2> QED BY <2>2
<1> QED BY <1>1, <1>2

(* A variable of one process stays as it was when its save began. *)
LEMMA AfterOwn ==
  ASSUME Inv, NEW v \in Var, v \notin Measured, NEW o \in Offsets(v),
         globals[o] = eeprom[Start + o]
  PROVE  After(Start + o) = globals[o]
<1>1. CASE Start + o \in DOMAIN cycle
  <2>1. Start + o \in Cells(v) /\ (Start + o) - Start = o BY CellsOf, PlaceOf DEF Offsets
  <2>2. Saving(v) BY <1>1, <2>1, CycleIsOf
  <2>3. ~overtaken /\ Start + o < Reached BY <1>1, <2>2 DEF Saving
  <2> QED BY <2>1, <2>2, <2>3 DEF Saving
<1>2. CASE Start + o \notin DOMAIN cycle BY <1>2 DEF After
<1> QED BY <1>1, <1>2

(* What stays of the EEPROM when the cycle ends, or is cut. *)
LEMMA CycleEndsAfter ==
  ASSUME CycleEnds
  PROVE  left = 0 /\ \A a \in Address : eeprom'[a] = After(a)
BY DEF CycleEnds, After

LEMMA PowerFailsAfter ==
  ASSUME PowerFails
  PROVE  eeprom' = eeprom \/ (left = 0 /\ \A a \in Address : eeprom'[a] = After(a))
BY DEF PowerFails, After

-----------------------------------------------------------------------------
(* The start-up *)

LEMMA Addresses == HashAt \in Address /\ CountAt \in Address
BY StoreAssumption DEF HashAt, CountAt, Address

LEMMA WorkingRuns ==
  ASSUME Inv
  PROVE  /\ k < Len(command.list) => pc = "run"
         /\ Handler => pc = "run" /\ pc' = "run" /\ UNCHANGED <<memory, header, last_count>>
         /\ Handler /\ ~ValueDone => request = NoRequest /\ cycle = NoCycle
<1>1. k < Len(command.list) => pc = "run" BY EntryOf DEF Inv, BootInv
<1>2. command # NoCommand => pc = "run" BY DEF Inv, BootInv
<1>3. request = NoRequest => cycle = NoCycle \/ pc # "run" BY DEF Inv, RunInv
<1> QED
  BY <1>1, <1>2, <1>3
  DEF Handler, NotFound, TooLong, GetValue, SetValue, LoadValue, SaveValue, ValueDone, Answer,
      Working, memory

(* Nothing is moved while no request is made or when it is done. *)
LEMMA Idle ==
  ASSUME Inv, request.count = 0 \/ request = NoRequest
  PROVE  left = 0 /\ Reached = request.address
BY DEF Inv, MoveInv, TypeInv, NoRequest, Reached

LEMMA BootBoot ==
  ASSUME Inv, Boot
  PROVE  BootInv'
<1> USE DEF Inv, BootInv, memory, list
<1>1. last_count \in Nat /\ eeprom[CountAt] \in Nat BY Addresses DEF TypeInv
<1>2. CASE ReadHeader
  <2>1. /\ request' = Read(HashAt, 2) /\ pc' = "header" /\ cycle' = NoCycle
        /\ UNCHANGED <<eeprom, last_count, command>>
    BY <1>2 DEF ReadHeader
  <2>2. request'.type = "read" /\ request'.address = HashAt /\ request'.count = 2
    BY <2>1 DEF Read
  <2>3. command = NoCommand BY <1>2 DEF ReadHeader
  <2> QED BY <2>1, <2>2, <2>3
<1>3. CASE WriteHash
  <2>1. cycle = NoCycle /\ header.count = eeprom[CountAt] BY <1>3 DEF WriteHash, BootStep, Done
  <2>2. header'.count = header.count BY <1>3 DEF WriteHash, TypeInv
  <2> QED BY <1>3, <2>1, <2>2 DEF WriteHash, BootStep
<1>4. CASE WriteCount
  <2>1. /\ pc \in {"header", "hash"} /\ request.count = 0 /\ cycle = NoCycle
        /\ request' = Write(CountAt, 1) /\ pc' = "count"
        /\ UNCHANGED <<memory, list, last_count>>
    BY <1>4 DEF WriteCount, BootStep, Done
  <2>2. header.count = eeprom[CountAt] BY <2>1
  <2>3. header'.count = header.count + 1 BY <1>4 DEF WriteCount, Counted, TypeInv
  <2>4. header'.count > last_count BY <1>1, <2>2, <2>3
  <2> QED BY <2>1, <2>4
<1>5. CASE LoadGlobals
  <2>1. /\ pc = "count" /\ request.count = 0 /\ cycle = NoCycle
        /\ request' = Read(Start, StructSize) /\ pc' = "load"
        /\ UNCHANGED <<memory, list, globals, header, last_count>>
    BY <1>5 DEF LoadGlobals, BootStep, Done
  <2>2. eeprom[CountAt] = header.count BY <2>1, NoDomain DEF Write
  <2>3. left' = 0 /\ request'.address = Start BY <2>1, Idle DEF Read
  <2>4. Reached' = Start BY <2>3 DEF Reached
  <2>5. \A o \in 0 .. StructSize - 1 : ~(Start + o < Reached') BY <2>4, StoreAssumption
  <2> QED BY <2>1, <2>2, <2>5 DEF Read
<1>6. CASE Running BY <1>1, <1>6 DEF Running, TypeInv
<1> QED BY <1>2, <1>3, <1>4, <1>5, <1>6 DEF Boot

LEMMA BootHandler ==
  ASSUME Inv, Handler
  PROVE  BootInv'
BY WorkingRuns DEF Inv, BootInv, memory

LEMMA BootReceive ==
  ASSUME Inv, ReceiveCell
  PROVE  BootInv'
<1> USE DEF Inv
<1>1. /\ request.type = "read" /\ request.count > 0
      /\ UNCHANGED <<eeprom, cycle, pc, command, last_count>>
  BY ReceiveAt DEF ReceiveCell, list
<1>2. /\ Reached \in Nat /\ request'.type = "read" /\ request'.address = request.address
      /\ left' > 0 => request' = request /\ Reached' = Reached + 1
      /\ left' = 0 => request'.count = 0 /\ Reached + 1 = request.address + request.count
      /\ left' \in Nat
  BY ReceiveAt
<1>3. CASE pc = "header"
  <2>1. request.address = 0 /\ request.count = 2 BY <1>1, <1>3 DEF BootInv, HashAt
  <2>2. CASE left' > 0
    <3>1. request' = request BY <1>2, <2>2
    <3> QED BY <1>1, <1>3, <2>1, <3>1 DEF BootInv, HashAt
  <2>3. CASE left' = 0
    <3>1. Reached = CountAt BY <1>2, <2>1, <2>3 DEF CountAt
    <3>2. header'.count = eeprom[CountAt] BY <3>1, ReceiveAt
    <3> QED BY <1>1, <1>2, <1>3, <2>1, <2>3, <3>2 DEF BootInv, HashAt
  <2> QED BY <1>2, <2>2, <2>3
<1>4. CASE pc = "load"
  <2>1. /\ request.address = Start /\ request.count = StructSize
        /\ \A o \in 0 .. StructSize - 1 : Start + o < Reached => globals[o] = eeprom[Start + o]
    BY <1>1, <1>4 DEF BootInv
  <2>2. Reached >= Start BY <2>1, ReceiveAt
  <2>3. Reached # HashAt /\ Reached # CountAt
    BY <1>2, <2>2, StoreAssumption DEF HashAt, CountAt
  <2>4. header'.count = header.count BY <2>3, ReceiveAt
  <2>5. ASSUME NEW o \in 0 .. StructSize - 1, Start + o < Reached + 1
        PROVE  globals'[o] = eeprom[Start + o]
    <3>1. globals'[o] = IF Start + o = Reached THEN eeprom[Reached] ELSE globals[o]
      BY ReceiveAt DEF TypeInv
    <3>2. Start + o = Reached \/ Start + o < Reached BY <1>2, <2>5, StoreAssumption
    <3> QED BY <2>1, <3>1, <3>2
  <2>6. CASE left' > 0
    <3>1. \A o \in 0 .. StructSize - 1 : Start + o < Reached' => globals'[o] = eeprom'[Start + o]
      BY <1>1, <1>2, <2>5, <2>6
    <3> QED BY <1>1, <1>2, <1>4, <2>1, <2>4, <2>6, <3>1 DEF BootInv
  <2>7. CASE left' = 0
    <3>1. Reached + 1 = Start + StructSize BY <1>2, <2>1, <2>7
    <3>2. \A o \in 0 .. StructSize - 1 : Start + o < Reached + 1 BY <3>1, StoreAssumption
    <3>3. \A o \in 0 .. StructSize - 1 : globals'[o] = eeprom'[Start + o] BY <1>1, <2>5, <3>2
    <3> QED BY <1>1, <1>2, <1>4, <2>1, <2>4, <2>7, <3>3 DEF BootInv
  <2> QED BY <1>2, <2>6, <2>7
<1>5. CASE pc = "run" BY <1>1, <1>5 DEF BootInv
<1>6. pc \notin {"start", "hash", "count"} BY <1>1 DEF BootInv, NoRequest, Write
<1> QED BY <1>3, <1>4, <1>5, <1>6 DEF TypeInv

LEMMA BootEeprom ==
  ASSUME Inv, Eeprom
  PROVE  BootInv'
<1> USE DEF Inv
<1>1. CASE ProcessRequest
  <2>1. UNCHANGED <<eeprom, cycle, globals, header, pc, request, command, last_count>>
    BY <1>1 DEF ProcessRequest, list
  <2>2. left = 0 /\ Reached = request.address BY <1>1 DEF ProcessRequest, Reached
  <2>3. Reached' = request.address
    <3>1. Portion' = Portion BY <2>1 DEF Portion, PageCount
    <3>2. left' = Portion /\ request.count > 0 BY <1>1 DEF ProcessRequest
    <3>3. Portion \in Nat /\ request.address \in Nat BY <3>2, PortionFits DEF TypeInv
    <3> QED BY <2>1, <3>1, <3>2, <3>3 DEF Reached, Moved
  <2> QED BY <2>1, <2>2, <2>3 DEF BootInv
<1>2. CASE SendCell
  <2>1. UNCHANGED <<eeprom, header, pc, command, last_count>> BY <1>2 DEF SendCell, list
  <2> QED BY <1>2, <2>1, Sends DEF BootInv
<1>3. CASE ReceiveCell BY <1>3, BootReceive
<1>4. CASE CycleEnds
  <2>1. cycle # NoCycle /\ cycle' = NoCycle /\ UNCHANGED <<header, pc, request, command, last_count>>
    BY <1>4 DEF CycleEnds, list
  <2>2. eeprom'[CountAt] = After(CountAt) BY <1>4, CycleEndsAfter, Addresses
  <2>3. pc = "count" => After(CountAt) = header.count
    <3>1. pc = "count" => DOMAIN cycle = {CountAt} /\ cycle[CountAt] = header.count
      BY <2>1 DEF BootInv
    <3> QED BY <3>1 DEF After
  <2>4. DOMAIN cycle' = {} BY <2>1, NoDomain
  <2> QED BY <2>1, <2>2, <2>3, <2>4, AfterCount DEF BootInv
<1> QED BY <1>1, <1>2, <1>3, <1>4 DEF Eeprom

LEMMA BootMeasure ==
  ASSUME Inv, NEW v \in Measured, NEW x \in Value, Measure(v, x)
  PROVE  BootInv'
BY DEF Inv, BootInv, Measure, memory, list

LEMMA BootPower ==
  ASSUME Inv, PowerFails
  PROVE  BootInv'
<1>1. eeprom'[CountAt] = eeprom[CountAt] \/ eeprom'[CountAt] = After(CountAt)
  BY PowerFailsAfter, Addresses
<1>2. last_count' <= eeprom'[CountAt] BY <1>1, AfterCount DEF Inv, BootInv, PowerFails
<1> QED BY <1>2 DEF BootInv, PowerFails

-----------------------------------------------------------------------------
(* The program's requests *)

LEMMA RunBoot ==
  ASSUME Inv, Boot
  PROVE  RunInv'
BY DEF Boot, ReadHeader, WriteHash, WriteCount, LoadGlobals, Running, BootStep, RunInv, Done, memory

LEMMA RunHandler ==
  ASSUME Inv, Handler
  PROVE  RunInv'
<1> USE DEF memory, list
<1>1. cycle' = cycle /\ left' = left /\ eeprom' = eeprom /\ pc = "run" BY WorkingRuns
<1>2. CASE NotFound \/ TooLong \/ GetValue \/ SetValue \/ Answer
  <2>1. request' = NoRequest /\ cycle = NoCycle
    BY <1>2, <1>1 DEF NotFound, TooLong, GetValue, SetValue, Answer, Working, Inv, RunInv
  <2> QED BY <1>1, <2>1 DEF RunInv
<1>3. CASE LoadValue
  <2>1. /\ Id \in Var /\ k < Len(command.list) /\ command.kind = "load" /\ cycle = NoCycle
        /\ request = NoRequest
        /\ request' = Read(AddressOf(Id), Size[Id]) /\ UNCHANGED <<command, k>>
    BY <1>1, <1>3 DEF LoadValue, Working, Finds, Inv, RunInv
  <2>2. Id' = Id /\ request' # NoRequest BY <2>1 DEF Id, Read, NoRequest
  <2>3. /\ request'.type = "read" /\ request'.address = AddressOf(Id) /\ request'.count = Size[Id]
        /\ left' = 0
    BY <1>1, <2>1, Idle DEF Read
  <2>4. \A o \in Offsets(Id) : ~(Start + o < Reached')
    BY <2>1, <2>3, PlaceOf DEF Reached, Offsets
  <2>5. Loading(Id)' BY <1>1, <2>1, <2>2, <2>3, <2>4 DEF Loading, AddressOf, Offsets
  <2> QED BY <1>1, <2>1, <2>2, <2>5 DEF RunInv
<1>4. CASE SaveValue
  <2>1. /\ Id \in Var /\ k < Len(command.list) /\ command.kind = "save" /\ cycle = NoCycle
        /\ request = NoRequest
        /\ request' = Write(AddressOf(Id), Size[Id]) /\ UNCHANGED <<command, k>>
        /\ stored' = [stored EXCEPT ![Id] = Unknown] /\ overtaken' = FALSE
    BY <1>1, <1>4 DEF SaveValue, Working, Finds, Inv, RunInv
  <2>2. Id' = Id /\ request' # NoRequest BY <2>1 DEF Id, Write, NoRequest
  <2>3. stored'[Id] = Unknown BY <2>1 DEF Inv, TypeInv
  <2>4. /\ AddressOf(Id) \in Nat /\ Size[Id] \in Nat
        /\ \A a \in Cells(Id) : a >= AddressOf(Id) /\ a \in Int
    BY <2>1, PlaceOf DEF Cells
  <2>5. request'.type = "write" /\ request'.address = AddressOf(Id) /\ request'.count = Size[Id]
    BY <2>1 DEF Write
  <2>6. Reached' = AddressOf(Id)
    <3>1. left' = 0 BY <1>1, <2>1, Idle
    <3> QED BY <2>5, <3>1 DEF Reached
  <2>7. \A a \in Cells(Id) : ~(a < Reached') BY <2>4, <2>6
  <2>8. Saving(Id)'
    BY <1>1, <2>1, <2>2, <2>3, <2>4, <2>5, <2>7, NoDomain DEF Saving, Cells, AddressOf
  <2> QED BY <1>1, <2>1, <2>2, <2>8 DEF RunInv
<1>5. CASE ValueDone BY <1>5 DEF ValueDone, Done, RunInv
<1> QED BY <1>2, <1>3, <1>4, <1>5 DEF Handler

LEMMA RunReceive ==
  ASSUME Inv, ReceiveCell, pc = "run"
  PROVE  RunInv'
<1> USE DEF Inv
<1>1. /\ UNCHANGED <<pc, command, k, eeprom, cycle>> /\ Id' = Id
      /\ request # NoRequest /\ request' # NoRequest
  BY EepromKeeps DEF Eeprom, ReceiveCell
<1>2. k < Len(command.list) /\ Id \in Var /\ Loading(Id)
  BY <1>1 DEF RunInv, ReceiveCell, Saving
<1>3. /\ request.count = Size[Id] /\ request.address = AddressOf(Id)
      /\ Id \notin Measured =>
           \A o \in Offsets(Id) : Start + o < Reached => globals[o] = eeprom[Start + o]
  BY <1>2, ReceiveAt DEF Loading
<1>4. /\ Reached \in Nat /\ request'.type = "read" /\ request'.address = request.address
      /\ left' > 0 => request' = request /\ Reached' = Reached + 1
      /\ left' = 0 => request'.count = 0 /\ Reached + 1 = request.address + request.count
      /\ left' \in Nat
  BY ReceiveAt
<1>5. ASSUME NEW o \in Offsets(Id), Id \notin Measured, Start + o < Reached + 1
      PROVE  globals'[o] = eeprom[Start + o]
  <2>1. o \in DOMAIN globals /\ Start + o \in Nat BY <1>2, CellsOf, StoreAssumption DEF TypeInv
  <2>2. globals'[o] = IF Start + o = Reached THEN eeprom[Reached] ELSE globals[o]
    BY <2>1, ReceiveAt
  <2>3. Start + o = Reached \/ Start + o < Reached BY <1>4, <1>5, <2>1
  <2> QED BY <1>3, <1>5, <2>2, <2>3
<1>6. Loading(Id)'
  <2>1. CASE left' > 0
    <3>1. Id \notin Measured =>
            \A o \in Offsets(Id) : Start + o < Reached' => globals'[o] = eeprom'[Start + o]
      BY <1>1, <1>4, <1>5, <2>1
    <3> QED BY <1>1, <1>2, <1>3, <1>4, <2>1, <3>1 DEF Loading, AddressOf, Offsets
  <2>2. CASE left' = 0
    <3>1. Reached + 1 = AddressOf(Id) + Size[Id] BY <1>3, <1>4, <2>2
    <3>2. \A o \in Offsets(Id) : Start + o < Reached + 1
      BY <1>2, <3>1, PlaceOf DEF Offsets
    <3>3. Id \notin Measured => \A o \in Offsets(Id) : globals'[o] = eeprom'[Start + o]
      BY <1>1, <1>5, <3>2
    <3> QED BY <1>1, <1>2, <1>3, <1>4, <2>2, <3>3 DEF Loading, Agree, AddressOf, Offsets
  <2> QED BY <1>4, <2>1, <2>2
<1> QED BY <1>1, <1>2, <1>6 DEF RunInv

LEMMA RunSend ==
  ASSUME Inv, SendCell, pc = "run"
  PROVE  RunInv'
<1> USE DEF Inv
<1>1. /\ UNCHANGED <<pc, command, k, stored, overtaken, mixed, eeprom, globals>> /\ Id' = Id
      /\ request # NoRequest /\ request' # NoRequest
  BY EepromKeeps DEF Eeprom, SendCell
<1>2. /\ Saving(Id) /\ Id \in Var /\ k < Len(command.list)
      /\ Reached \in Cells(Id) /\ cycle'[Reached] = globals[Reached - Start]
  BY <1>1, Sends DEF RunInv, Loading
<1>3. /\ Reached \in Nat /\ Reached' = Reached + 1
      /\ DOMAIN cycle = request.address .. Reached - 1
      /\ DOMAIN cycle' = request.address .. Reached
      /\ \A a \in DOMAIN cycle : cycle'[a] = cycle[a]
      /\ request'.type = "write" /\ request'.address \in Nat
      /\ request'.address >= request.address
      /\ request'.address + request'.count = request.address + request.count
  BY SendAt
<1>4. request.address \in Nat /\ AddressOf(Id) \in Nat BY <1>2, PlaceOf DEF TypeInv
<1>5. \A a \in DOMAIN cycle' : a \in DOMAIN cycle \/ a = Reached BY <1>3, <1>4
<1>6. DOMAIN cycle' \subseteq Cells(Id) BY <1>2, <1>5 DEF Saving
<1>7. \A a \in DOMAIN cycle' : a < Reached' BY <1>3, <1>4
<1>8. ASSUME NEW a \in Cells(Id), a < Reached', ~overtaken
      PROVE  After(a)' = globals[a - Start]
  <2>1. a \in Nat BY <1>2, CellsOf
  <2>2. CASE a = Reached
    <3>1. Reached \in DOMAIN cycle' BY <1>3, <1>4, SendAt
    <3> QED BY <1>2, <2>2, <3>1 DEF After
  <2>3. CASE a # Reached
    <3>1. a < Reached BY <1>3, <1>8, <2>1, <2>3
    <3>2. After(a) = globals[a - Start] BY <1>2, <1>8, <3>1 DEF Saving
    <3>3. a \in DOMAIN cycle' <=> a \in DOMAIN cycle BY <1>3, <1>5, <2>3
    <3> QED BY <1>1, <1>3, <3>2, <3>3 DEF After
  <2> QED BY <2>2, <2>3
<1>9. request'.address >= AddressOf(Id) BY <1>2, <1>3, <1>4 DEF Saving
<1>10. Saving(Id)'
  BY <1>1, <1>2, <1>3, <1>6, <1>7, <1>8, <1>9 DEF Saving, Cells, AddressOf
<1> QED BY <1>1, <1>2, <1>10 DEF RunInv

LEMMA RunEeprom ==
  ASSUME Inv, Eeprom
  PROVE  RunInv'
<1> USE DEF Inv
<1>1. /\ UNCHANGED <<pc, command, k, stored, overtaken, mixed>> /\ Id' = Id
      /\ request # NoRequest /\ request' # NoRequest
  BY EepromKeeps
<1> SUFFICES ASSUME pc = "run"
             PROVE  RunInv'
  BY <1>1 DEF RunInv
<1>2. k < Len(command.list) /\ Id \in Var /\ (Loading(Id) \/ Saving(Id)) BY <1>1 DEF RunInv
<1>3. CASE ProcessRequest
  <2>1. UNCHANGED <<eeprom, cycle, globals, request>> BY <1>3 DEF ProcessRequest
  <2>2. left = 0 /\ Reached = request.address BY <1>3 DEF ProcessRequest, Reached
  <2>3. Reached' = Reached
    <3>1. Portion' = Portion BY <2>1 DEF Portion, PageCount
    <3>2. left' = Portion /\ request.count > 0 BY <1>3 DEF ProcessRequest
    <3>3. Portion \in Nat /\ request.address \in Nat BY <3>2, PortionFits DEF TypeInv
    <3> QED BY <2>1, <2>2, <3>1, <3>2, <3>3 DEF Reached, Moved
  <2>4. CASE Loading(Id)
    <3>1. Loading(Id)' BY <1>1, <2>1, <2>3, <2>4 DEF Loading, Agree, AddressOf, Offsets
    <3> QED BY <1>1, <1>2, <3>1 DEF RunInv
  <2>5. CASE Saving(Id)
    <3>1. Saving(Id)' BY <1>1, <2>1, <2>3, <2>5 DEF Saving, After, Cells, AddressOf
    <3> QED BY <1>1, <1>2, <3>1 DEF RunInv
  <2> QED BY <1>2, <2>4, <2>5
<1>4. CASE SendCell BY <1>4, RunSend
<1>5. CASE ReceiveCell BY <1>5, RunReceive
<1>6. CASE CycleEnds
  <2>1. cycle # NoCycle /\ cycle' = NoCycle /\ UNCHANGED <<globals, request, left>>
    BY <1>6 DEF CycleEnds
  <2>2. Saving(Id) BY <1>2, <2>1 DEF Loading
  <2>3. ASSUME NEW a \in Cells(Id)
        PROVE  After(a)' = After(a)
    <3>1. a \in Address BY <1>2, CellsOf
    <3>2. After(a)' = eeprom'[a] BY <2>1, NoDomain DEF After
    <3> QED BY <1>6, <3>1, <3>2, CycleEndsAfter
  <2>4. DOMAIN cycle' = {} BY <2>1, NoDomain
  <2>5. Reached' = Reached BY <2>1 DEF Reached, Moved, Portion, PageCount
  <2>6. Saving(Id)'
    BY <1>1, <1>2, <2>1, <2>2, <2>3, <2>4, <2>5 DEF Saving, Cells, AddressOf
  <2> QED BY <1>1, <1>2, <2>6 DEF RunInv
<1> QED BY <1>3, <1>4, <1>5, <1>6 DEF Eeprom

(* Another process writes its variable. *)
LEMMA MeasureWrites ==
  ASSUME Inv, NEW w \in Measured, NEW x \in Value, Measure(w, x)
  PROVE  /\ w \in Var /\ pc = "run" /\ Id' = Id
         /\ UNCHANGED <<eeprom, cycle, left, header, pc, request, command, k, stored, last_count>>
         /\ \A v \in Var : v # w => \A o \in Offsets(v) : globals'[o] = globals[o]
         /\ \A o \in Offsets(w) : globals'[o] = x
         /\ mixed \subseteq mixed' /\ mixed' \subseteq mixed \cup {w}
         /\ Serves(w, "save") => overtaken' /\ w \in mixed'
         /\ ~Serves(w, "save") => UNCHANGED <<overtaken, mixed>>
<1>1. w \in Var BY StoreAssumption
<1>2. /\ pc = "run"
      /\ command = NoCommand \/ request # NoRequest
      /\ globals' = [o \in DOMAIN globals |-> IF o \in Offsets(w) THEN x ELSE globals[o]]
      /\ UNCHANGED <<eeprom, cycle, left, header, pc, request, command, k, stored, last_count>>
  BY DEF Measure, memory, list
<1>3. Id' = Id BY <1>2 DEF Id
<1>4. \A v \in Var : Offsets(v) \subseteq DOMAIN globals BY CellsOf DEF Inv, TypeInv
<1>5. \A v \in Var : v # w => \A o \in Offsets(v) : o \notin Offsets(w) BY <1>1, CellsApart
<1>6. command.kind = "save" => request # NoRequest BY <1>2 DEF NoCommand
<1>7. /\ mixed \subseteq mixed' /\ mixed' \subseteq mixed \cup {w}
      /\ Serves(w, "save") => overtaken' /\ w \in mixed'
      /\ ~Serves(w, "save") => UNCHANGED <<overtaken, mixed>>
  BY <1>6 DEF Measure, Serves
<1>8. \A v \in Var : v # w => \A o \in Offsets(v) : globals'[o] = globals[o]
  BY <1>2, <1>4, <1>5
<1>9. \A o \in Offsets(w) : globals'[o] = x BY <1>1, <1>2, <1>4
<1> QED BY <1>1, <1>2, <1>3, <1>7, <1>8, <1>9

LEMMA RunMeasure ==
  ASSUME Inv, NEW w \in Measured, NEW x \in Value, Measure(w, x)
  PROVE  RunInv'
<1> USE DEF Inv
<1>1. /\ w \in Var /\ pc = "run" /\ Id' = Id
      /\ UNCHANGED <<eeprom, cycle, left, pc, request, command, k, stored>>
      /\ mixed \subseteq mixed'
  BY MeasureWrites
<1>2. CASE request = NoRequest BY <1>1, <1>2 DEF RunInv
<1>3. CASE request # NoRequest
  <2>1. k < Len(command.list) /\ Id \in Var /\ (Loading(Id) \/ Saving(Id))
    BY <1>1, <1>3 DEF RunInv
  <2>2. Reached' = Reached BY <1>1 DEF Reached, Moved, Portion, PageCount
  <2>3. Id \notin Measured => \A o \in Offsets(Id) : globals'[o] = globals[o]
    BY <2>1, MeasureWrites
  <2>4. CASE Loading(Id)
    <3>1. Loading(Id)' BY <1>1, <2>2, <2>3, <2>4 DEF Loading, Agree, AddressOf, Offsets
    <3> QED BY <1>1, <1>3, <2>1, <3>1 DEF RunInv
  <2>5. CASE Saving(Id)
    <3>1. CASE Id = w
      <4>1. Serves(w, "save") BY <1>3, <2>5, <3>1 DEF Serves, Saving
      <4>2. overtaken' /\ w \in mixed' BY <4>1, MeasureWrites
      <4>3. Saving(Id)' BY <1>1, <2>2, <2>5, <3>1, <4>2 DEF Saving, Cells, AddressOf
      <4> QED BY <1>1, <1>3, <2>1, <4>3 DEF RunInv
    <3>2. CASE Id # w
      <4>1. UNCHANGED overtaken BY <3>2, MeasureWrites DEF Serves
      <4>2. \A a \in Cells(Id) : After(a)' = After(a) BY <1>1 DEF After
      <4>3. \A a \in Cells(Id) : globals'[a - Start] = globals[a - Start]
        BY <2>1, <3>2, CellsOf, MeasureWrites
      <4>4. Saving(Id)' BY <1>1, <2>2, <2>5, <4>1, <4>2, <4>3 DEF Saving, Cells, AddressOf
      <4> QED BY <1>1, <1>3, <2>1, <4>4 DEF RunInv
    <3> QED BY <3>1, <3>2
  <2> QED BY <2>1, <2>4, <2>5
<1> QED BY <1>2, <1>3

-----------------------------------------------------------------------------
(* What is stored *)

LEMMA StoredKept ==
  ASSUME Inv, UNCHANGED stored,
         eeprom' = eeprom \/ \A a \in Address : eeprom'[a] = After(a)
  PROVE  StoredInv'
<1> SUFFICES ASSUME NEW v \in Var, stored[v] # Unknown, NEW o \in Offsets(v)
             PROVE  eeprom'[Start + o] = stored[v]
  BY DEF StoredInv, Kept, Offsets
<1>1. Start + o \in Address BY CellsOf
<1>2. eeprom[Start + o] = stored[v] BY DEF Inv, StoredInv, Kept
<1> QED BY <1>1, <1>2, AfterStored

(* When a save is done, the EEPROM holds the variable, if nobody wrote it.  *)
LEMMA SaveDone ==
  ASSUME Inv, ValueDone, command.kind = "save"
  PROVE  Id \in Var /\ Saving(Id) /\ (~overtaken => Agree(Id))
<1>1. Id \in Var /\ Saving(Id) /\ cycle = NoCycle /\ request.count = 0
  BY DEF ValueDone, Done, Inv, RunInv, Loading
<1>2. Reached = AddressOf(Id) + Size[Id] BY <1>1, Idle DEF Saving, Inv, TypeInv
<1>3. ASSUME ~overtaken, NEW o \in Offsets(Id)
      PROVE  globals[o] = eeprom[Start + o]
  <2>1. Start + o \in Cells(Id) /\ o \in Nat /\ (Start + o) - Start = o
    BY <1>1, PlaceOf, CellsOf DEF Offsets
  <2>2. Start + o < Reached BY <1>1, <1>2, <2>1, PlaceOf DEF Cells
  <2>3. After(Start + o) = globals[o] BY <1>1, <1>3, <2>1, <2>2 DEF Saving
  <2> QED BY <1>1, <2>3, NoDomain DEF After
<1> QED BY <1>1, <1>3 DEF Agree

(* A save that counts. *)
LEMMA SaveStored ==
  ASSUME Inv, ValueDone, command.kind = "save", ~overtaken, IsWhole(Id)
  PROVE  \E x \in Value : /\ Id \in Var /\ Kept(Id, x)
                          /\ \A v \in Var : stored'[v] = IF v = Id THEN x ELSE stored[v]
<1>1. PICK x \in Value : Holds(globals, Id, x) BY DEF IsWhole
<1>2. Id \in Var /\ Agree(Id) BY SaveDone
<1>3. globals[First[Id]] = x BY <1>1, <1>2, CellsOf DEF Holds
<1>4. stored' = [stored EXCEPT ![Id] = x] BY <1>3 DEF ValueDone
<1>5. \A v \in Var : stored'[v] = IF v = Id THEN x ELSE stored[v] BY <1>4 DEF Inv, TypeInv
<1>6. Kept(Id, x) BY <1>1, <1>2 DEF Kept, Holds, Agree
<1> QED BY <1>2, <1>5, <1>6

LEMMA StoredHandler ==
  ASSUME Inv, Handler
  PROVE  StoredInv'
<1>1. UNCHANGED eeprom BY WorkingRuns DEF memory
<1>2. CASE UNCHANGED stored BY <1>1, <1>2, StoredKept
<1>3. CASE SaveValue
  <2>1. stored' = [stored EXCEPT ![Id] = Unknown] BY <1>3 DEF SaveValue
  <2>2. \A v \in Var : stored'[v] # Unknown => stored'[v] = stored[v] BY <2>1 DEF Inv, TypeInv
  <2> QED BY <1>1, <2>2 DEF Inv, StoredInv, Kept, Offsets
<1>4. CASE ValueDone /\ command.kind = "save" /\ ~overtaken /\ IsWhole(Id)
  <2>1. PICK x \in Value : Kept(Id, x)
                           /\ \A v \in Var : stored'[v] = IF v = Id THEN x ELSE stored[v]
    BY <1>4, SaveStored
  <2> QED BY <1>1, <2>1 DEF Inv, StoredInv, Kept, Offsets
<1> QED
  BY <1>2, <1>3, <1>4
  DEF Handler, NotFound, TooLong, GetValue, SetValue, LoadValue, ValueDone, Answer, saved

LEMMA StoredStep ==
  ASSUME Inv, Boot \/ Eeprom \/ PowerFails
  PROVE  StoredInv'
<1>1. UNCHANGED stored
  BY EepromKeeps
  DEF Boot, ReadHeader, WriteHash, WriteCount, LoadGlobals, Running, BootStep, PowerFails, saved
<1>2. CASE Boot
  <2>1. UNCHANGED eeprom
    BY <1>2 DEF Boot, ReadHeader, WriteHash, WriteCount, LoadGlobals, Running, BootStep, memory
  <2> QED BY <1>1, <2>1, StoredKept
<1>3. CASE Eeprom BY <1>1, <1>3, EepromKeeps, CycleEndsAfter, StoredKept
<1>4. CASE PowerFails BY <1>1, <1>4, PowerFailsAfter, StoredKept
<1> QED BY <1>2, <1>3, <1>4

-----------------------------------------------------------------------------
(* Variables in one page *)

LEMMA KeptStep ==
  ASSUME Inv, eeprom' = eeprom \/ (left = 0 /\ \A a \in Address : eeprom'[a] = After(a)),
         NEW v \in Var, InOnePage(v), v \notin mixed
  PROVE  \E x \in Value : \A o \in Offsets(v) : eeprom'[Start + o] = x
<1>1. CASE eeprom' = eeprom BY <1>1 DEF Inv, WholeInv, WholeKept, Kept
<1>2. CASE left = 0 /\ \A a \in Address : eeprom'[a] = After(a)
  <2>1. PICK x \in Value : \A o \in Offsets(v) : After(Start + o) = x BY <1>2, AfterWhole
  <2>2. \A o \in Offsets(v) : Start + o \in Address BY CellsOf
  <2> QED BY <1>2, <2>1, <2>2
<1> QED BY <1>1, <1>2

(* A variable that is loaded is what the EEPROM holds. *)
LEMMA HeldLoaded ==
  ASSUME Inv, NEW v \in Var, InOnePage(v), v \notin mixed,
         \A o \in Offsets(v) : globals'[o] = eeprom[Start + o]
  PROVE  IsWhole(v)'
<1>1. PICK x \in Value : Kept(v, x) BY DEF Inv, WholeInv, WholeKept
<1> QED BY <1>1 DEF Kept, IsWhole, Holds, Offsets

(* It is whole as long as nobody writes it. *)
LEMMA HeldSame ==
  ASSUME NEW v \in Var, IsWhole(v), \A o \in Offsets(v) : globals'[o] = globals[o]
  PROVE  IsWhole(v)'
BY DEF IsWhole, Holds, Offsets

(* The steps that neither write memory nor begin or end a request. *)
LEMMA WholeQuiet ==
  ASSUME Inv,
         eeprom' = eeprom \/ (left = 0 /\ \A a \in Address : eeprom'[a] = After(a)),
         UNCHANGED <<mixed, globals, command, k>>,
         pc' = "run" => pc = "run" /\ (request' = NoRequest <=> request = NoRequest)
  PROVE  WholeKept' /\ WholeOwn' /\ WholeHeld'
<1> USE DEF Inv, WholeInv
<1>1. WholeKept' BY KeptStep DEF WholeKept, Kept, InOnePage, Offsets
<1>2. WholeOwn' BY DEF WholeOwn, InOnePage
<1>3. WholeHeld'
  <2>1. Id' = Id BY DEF Id
  <2>2. pc' = "run" => \A v \in Var : (Serves(v, "load")' <=> Serves(v, "load"))
                                      /\ (Serves(v, "save")' <=> Serves(v, "save"))
    BY <2>1 DEF Serves
  <2>3. \A v \in Var : IsWhole(v) => IsWhole(v)' BY HeldSame
  <2> QED BY <2>2, <2>3 DEF WholeHeld, InOnePage
<1> QED BY <1>1, <1>2, <1>3

LEMMA WholeBoot ==
  ASSUME Inv, Boot
  PROVE  WholeInv'
<1> USE DEF Inv, WholeInv
<1>1. UNCHANGED <<eeprom, cycle, globals, mixed, command, k>>
  BY DEF Boot, ReadHeader, WriteHash, WriteCount, LoadGlobals, Running, BootStep, memory, list, saved
<1>2. pc' = "run" => Running /\ request' = NoRequest
  BY DEF Boot, ReadHeader, WriteHash, WriteCount, LoadGlobals, Running, BootStep
<1>3. WholeKept' BY <1>1, KeptStep DEF WholeKept, Kept, InOnePage, Offsets
<1>4. WholeOwn' BY <1>1 DEF WholeOwn, InOnePage
<1>5. WholeHeld'
  <2> SUFFICES ASSUME Running, NEW v \in Var, InOnePage(v), v \notin Measured
               PROVE  IsWhole(v)'
    BY <1>2 DEF WholeHeld, InOnePage, Serves
  <2>1. pc = "load" /\ request.count = 0 BY DEF Running, Done
  <2>2. \A o \in 0 .. StructSize - 1 : globals[o] = eeprom[Start + o] \/ request.count = StructSize
    BY <2>1 DEF BootInv
  <2>3. StructSize # 0 BY PlaceOf
  <2>4. \A o \in Offsets(v) : globals'[o] = eeprom[Start + o] BY <1>1, <2>1, <2>2, <2>3, CellsOf
  <2>5. v \notin mixed BY DEF WholeOwn
  <2> QED BY <2>4, <2>5, HeldLoaded
<1>6. WholeCycle' BY <1>2 DEF WholeCycle, Serves
<1> QED BY <1>3, <1>4, <1>5, <1>6

LEMMA WholeSet ==
  ASSUME Inv, SetValue
  PROVE  WholeInv'
<1> USE DEF Inv, WholeInv
<1>1. /\ Id \in Var /\ k < Len(command.list) /\ command.kind = "set" /\ request = NoRequest
      /\ pc = "run" /\ pc' = "run"
      /\ globals' = [o \in DOMAIN globals |->
                       IF o \in Offsets(Id) THEN command.list[k + 1].value ELSE globals[o]]
      /\ UNCHANGED <<eeprom, mixed, request>>
  BY WorkingRuns DEF SetValue, Working, Finds, Handler, memory, saved
<1>2. command.list[k + 1].value \in Value BY <1>1, EntryOf
<1>3. \A v \in Var : Offsets(v) \subseteq DOMAIN globals BY CellsOf DEF TypeInv
<1>4. WholeKept' BY <1>1, KeptStep DEF WholeKept, Kept, InOnePage, Offsets
<1>5. WholeOwn' BY <1>1 DEF WholeOwn, InOnePage
<1>6. ASSUME NEW v \in Var, InOnePage(v), v \notin Measured
      PROVE  IsWhole(v)'
  <2>1. CASE v = Id
    <3>1. \A o \in Offsets(v) : globals'[o] = command.list[k + 1].value BY <1>1, <1>3, <2>1
    <3> QED BY <1>2, <3>1 DEF IsWhole, Holds, Offsets
  <2>2. CASE v # Id
    <3>1. IsWhole(v) BY <1>1, <1>6 DEF WholeHeld, Serves
    <3>2. \A o \in Offsets(v) : o \notin Offsets(Id) BY <1>1, <2>2, CellsApart
    <3>3. \A o \in Offsets(v) : globals'[o] = globals[o] BY <1>1, <1>3, <3>2
    <3> QED BY <3>1, <3>3, HeldSame
  <2> QED BY <2>1, <2>2
<1>7. WholeHeld' BY <1>1, <1>6 DEF WholeHeld, InOnePage, Serves
<1>8. WholeCycle' BY <1>1 DEF WholeCycle, Serves
<1> QED BY <1>4, <1>5, <1>7, <1>8

(* A save begins: a value that is mixed in memory is stored mixed. *)
LEMMA WholeSave ==
  ASSUME Inv, SaveValue
  PROVE  WholeInv'
<1> USE DEF Inv, WholeInv
<1>1. /\ Id \in Var /\ command.kind = "save" /\ request = NoRequest
      /\ pc = "run" /\ pc' = "run" /\ cycle = NoCycle
      /\ request' = Write(AddressOf(Id), Size[Id])
      /\ mixed' = IF IsWhole(Id) THEN mixed ELSE mixed \cup {Id}
      /\ UNCHANGED <<eeprom, cycle, left, globals, command, k>>
  BY WorkingRuns DEF SaveValue, Working, Finds, Handler, memory, list, ValueDone, Done
<1>2. Id' = Id BY <1>1 DEF Id
<1>3. request'.address = AddressOf(Id) BY <1>1 DEF Write
<1>4. WholeKept' BY <1>1, KeptStep DEF WholeKept, Kept, InOnePage, Offsets
<1>5. \A v \in Var : InOnePage(v) /\ v \notin Measured => IsWhole(v)
  BY <1>1 DEF WholeHeld, Serves
<1>6. WholeOwn' BY <1>1, <1>5 DEF WholeOwn, InOnePage
<1>7. \A v \in Var : IsWhole(v) => IsWhole(v)' BY <1>1, HeldSame
<1>8. \A v \in Var : Id = v /\ v \notin mixed' => IsWhole(v) BY <1>1
<1>9. WholeHeld' BY <1>2, <1>5, <1>7, <1>8 DEF WholeHeld, InOnePage, Serves
<1>10. WholeCycle' BY <1>1, <1>2, <1>3 DEF WholeCycle, Serves, AddressOf
<1> QED BY <1>4, <1>6, <1>9, <1>10

(* A request is done. *)
LEMMA WholeDone ==
  ASSUME Inv, ValueDone
  PROVE  WholeInv'
<1> USE DEF Inv, WholeInv
<1>1. /\ pc = "run" /\ request # NoRequest /\ request.count = 0 /\ cycle = NoCycle
      /\ request' = NoRequest /\ UNCHANGED <<eeprom, globals, pc>>
  BY DEF ValueDone, Done, memory
<1>2. Id \in Var /\ (Loading(Id) \/ Saving(Id)) BY <1>1 DEF RunInv
<1>3. mixed' \subseteq mixed
      /\ \A v \in Var : v \in mixed /\ v \notin mixed' =>
           v = Id /\ command.kind = "save" /\ ~overtaken /\ IsWhole(Id)
  BY DEF ValueDone
<1>4. ASSUME NEW v \in Var, InOnePage(v), v \notin mixed'
      PROVE  \E x \in Value : Kept(v, x)
  <2>1. CASE v \in mixed
    <3>1. v = Id /\ command.kind = "save" /\ ~overtaken /\ IsWhole(Id) BY <1>3, <1>4, <2>1
    <3> QED BY <3>1, SaveStored
  <2>2. CASE v \notin mixed BY <1>4, <2>2 DEF WholeKept
  <2> QED BY <2>1, <2>2
<1>5. WholeKept' BY <1>1, <1>4 DEF WholeKept, Kept, InOnePage, Offsets
<1>6. WholeOwn' BY <1>3 DEF WholeOwn, InOnePage
<1>7. ASSUME NEW v \in Var, InOnePage(v), v \notin Measured
      PROVE  IsWhole(v)
  <2>1. CASE ~Serves(v, "load") BY <1>1, <1>7, <2>1 DEF WholeHeld
  <2>2. CASE Serves(v, "load")
    <3>1. Loading(v) BY <1>2, <2>2 DEF Serves, Saving
    <3>2. Agree(v)
      <4>1. Size[v] # 0 BY PlaceOf
      <4> QED BY <1>1, <1>7, <3>1, <4>1 DEF Loading
    <3>3. PICK x \in Value : Kept(v, x) BY <1>7 DEF WholeKept, WholeOwn
    <3> QED BY <3>2, <3>3 DEF IsWhole, Holds, Kept, Agree
  <2> QED BY <2>1, <2>2
<1>8. \A v \in Var : IsWhole(v) => IsWhole(v)' BY <1>1, HeldSame
<1>9. WholeHeld' BY <1>1, <1>7, <1>8 DEF WholeHeld, InOnePage, Serves
<1>10. WholeCycle' BY <1>1 DEF WholeCycle, Serves
<1> QED BY <1>5, <1>6, <1>9, <1>10

LEMMA WholeHandler ==
  ASSUME Inv, Handler
  PROVE  WholeInv'
<1> USE DEF Inv, WholeInv
<1>1. CASE NotFound \/ TooLong \/ GetValue \/ Answer
  <2>1. /\ UNCHANGED <<eeprom, globals, mixed, request>> /\ pc = "run" /\ pc' = "run"
        /\ request = NoRequest
    BY <1>1, WorkingRuns
    DEF NotFound, TooLong, GetValue, Answer, Handler, Working, memory, saved
  <2>2. WholeKept' BY <2>1, KeptStep DEF WholeKept, Kept, InOnePage, Offsets
  <2>3. WholeOwn' BY <2>1 DEF WholeOwn, InOnePage
  <2>4. \A v \in Var : IsWhole(v) => IsWhole(v)' BY <2>1, HeldSame
  <2>5. WholeHeld' BY <2>1, <2>4 DEF WholeHeld, InOnePage, Serves
  <2>6. WholeCycle' BY <2>1 DEF WholeCycle, Serves
  <2> QED BY <2>2, <2>3, <2>5, <2>6
<1>2. CASE LoadValue
  <2>1. /\ UNCHANGED <<eeprom, globals, mixed, command, k>> /\ pc = "run" /\ request = NoRequest
        /\ command.kind = "load"
    BY <1>2, WorkingRuns DEF LoadValue, Handler, Working, memory, saved, list
  <2>2. WholeKept' BY <2>1, KeptStep DEF WholeKept, Kept, InOnePage, Offsets
  <2>3. WholeOwn' BY <2>1 DEF WholeOwn, InOnePage
  <2>4. \A v \in Var : IsWhole(v) => IsWhole(v)' BY <2>1, HeldSame
  <2>5. WholeHeld' BY <2>1, <2>4 DEF WholeHeld, InOnePage, Serves
  <2>6. WholeCycle' BY <2>1 DEF WholeCycle, Serves
  <2> QED BY <2>2, <2>3, <2>5, <2>6
<1> QED BY <1>1, <1>2, WholeSet, WholeSave, WholeDone DEF Handler

(* A cell that is loaded is one of the variable that is being loaded. *)
LEMMA WholeReceive ==
  ASSUME Inv, ReceiveCell, pc = "run"
  PROVE  WholeHeld'
<1> USE DEF Inv, WholeInv
<1>1. /\ UNCHANGED <<pc, command, k, mixed>> /\ Id' = Id
      /\ request # NoRequest /\ request' # NoRequest
  BY EepromKeeps DEF Eeprom
<1>2. Id \in Var /\ Loading(Id) BY <1>1 DEF RunInv, ReceiveCell, Saving
<1>3. Reached \in Cells(Id)
  <2>1. request.address = AddressOf(Id) /\ request.count = Size[Id]
    BY <1>2, ReceiveAt DEF Loading
  <2>2. AddressOf(Id) \in Nat /\ Size[Id] \in Nat BY <1>2, PlaceOf
  <2> QED BY <2>1, <2>2, ReceiveAt DEF Cells
<1>4. ASSUME NEW v \in Var, v # Id
      PROVE  IsWhole(v) => IsWhole(v)'
  <2>1. ASSUME NEW o \in Offsets(v)
        PROVE  globals'[o] = globals[o]
    <3>1. o \in DOMAIN globals /\ Start + o \in Cells(v) BY CellsOf DEF TypeInv
    <3>2. Start + o # Reached BY <1>2, <1>3, <1>4, <3>1, CellsApart
    <3> QED BY <3>1, <3>2, ReceiveAt
  <2> QED BY <2>1, HeldSame
<1>5. command.kind = "load" BY <1>2 DEF Loading
<1>6. \A v \in Var : /\ Serves(v, "load")' <=> v = Id
                     /\ ~Serves(v, "save")' /\ (Serves(v, "load") <=> v = Id)
  BY <1>1, <1>5 DEF Serves
<1> QED BY <1>1, <1>4, <1>6 DEF WholeHeld, InOnePage

LEMMA CycleEeprom ==
  ASSUME Inv, Eeprom
  PROVE  WholeCycle'
<1> USE DEF Inv, WholeInv
<1>1. /\ UNCHANGED <<pc, command, k>> /\ Id' = Id
      /\ request # NoRequest /\ request' # NoRequest
  BY EepromKeeps
<1> SUFFICES ASSUME pc = "run", NEW v \in Var, InOnePage(v), Serves(v, "save")
             PROVE  \/ request'.address = AddressOf(v) /\ (left' > 0 \/ cycle' = NoCycle)
                    \/ request'.count = 0 /\ (cycle' = NoCycle \/ DOMAIN cycle' = Cells(v))
  BY <1>1 DEF WholeCycle, Serves, InOnePage, AddressOf, Cells
<1>2. Saving(v) BY <1>1 DEF Serves, RunInv, Loading
<1>3. \/ request.address = AddressOf(v) /\ (left > 0 \/ cycle = NoCycle)
      \/ request.count = 0 /\ (cycle = NoCycle \/ DOMAIN cycle = Cells(v))
  BY DEF WholeCycle
<1>4. CASE ProcessRequest
  <2>1. request.address = AddressOf(v) BY <1>3, <1>4 DEF ProcessRequest
  <2>2. left' = Portion /\ Portion > 0 /\ UNCHANGED request
    BY <1>4, PortionFits DEF ProcessRequest
  <2> QED BY <2>1, <2>2
<1>5. CASE SendCell
  <2>1. left > 0 /\ request.count > 0 BY <1>5 DEF SendCell, MoveInv
  <2>2. AddressOf(v) \in Nat /\ Size[v] \in Nat /\ request.count \in Nat
    BY PlaceOf DEF TypeInv
  <2>3. request.address = AddressOf(v) /\ request.count = Size[v]
    BY <1>2, <1>3, <2>1, <2>2 DEF Saving
  <2>4. CASE left' > 0 BY <1>5, <2>3, <2>4, SendAt
  <2>5. CASE left' = 0
    <3>1. /\ request'.address = Reached + 1 /\ Reached \in Nat /\ request'.count \in Nat
          /\ request'.address + request'.count = AddressOf(v) + Size[v]
          /\ DOMAIN cycle' = AddressOf(v) .. Reached
          /\ Reached = request.address + Moved
      BY <1>5, <2>3, <2>5, SendAt
    <3>2. Portion = Size[v] BY <1>5, <2>3, OneCycle DEF SendCell, Portion
    <3>3. left = 1 BY <1>5, <2>1, <2>5, SendAt DEF TypeInv
    <3>4. Reached + 1 = AddressOf(v) + Size[v] BY <2>2, <2>3, <3>1, <3>2, <3>3 DEF Moved
    <3>5. request'.count = 0 BY <2>2, <3>1, <3>4
    <3>6. DOMAIN cycle' = Cells(v)
      <4>1. Reached = AddressOf(v) + Size[v] - 1 BY <2>2, <3>1, <3>4
      <4> QED BY <3>1, <4>1 DEF Cells
    <3> QED BY <3>5, <3>6
  <2>6. left' \in Nat BY <1>5, SendAt
  <2> QED BY <2>4, <2>5, <2>6
<1>6. CASE ReceiveCell BY <1>2, <1>6 DEF ReceiveCell, Saving
<1>7. CASE CycleEnds BY <1>3, <1>7 DEF CycleEnds
<1> QED BY <1>4, <1>5, <1>6, <1>7 DEF Eeprom

LEMMA WholeEeprom ==
  ASSUME Inv, Eeprom
  PROVE  WholeInv'
<1> USE DEF Inv, WholeInv
<1>1. /\ UNCHANGED <<pc, command, k, mixed>> /\ request # NoRequest /\ request' # NoRequest
      /\ ~CycleEnds => UNCHANGED eeprom
      /\ ~ReceiveCell => UNCHANGED globals
  BY EepromKeeps
<1>2. eeprom' = eeprom \/ (left = 0 /\ \A a \in Address : eeprom'[a] = After(a))
  BY <1>1, CycleEndsAfter
<1>3. WholeKept' BY <1>1, <1>2, KeptStep DEF WholeKept, Kept, InOnePage, Offsets
<1>4. WholeOwn' BY <1>1 DEF WholeOwn, InOnePage
<1>5. WholeHeld'
  <2>1. CASE ReceiveCell /\ pc = "run" BY <2>1, WholeReceive
  <2>2. CASE ~ReceiveCell BY <1>1, <1>2, <2>2, WholeQuiet
  <2>3. CASE pc # "run" BY <1>1, <2>3 DEF WholeHeld
  <2> QED BY <2>1, <2>2, <2>3
<1> QED BY <1>3, <1>4, <1>5, CycleEeprom

LEMMA WholeMeasure ==
  ASSUME Inv, NEW w \in Measured, NEW x \in Value, Measure(w, x)
  PROVE  WholeInv'
<1> USE DEF Inv, WholeInv
<1>1. /\ w \in Var /\ pc = "run" /\ Id' = Id
      /\ UNCHANGED <<eeprom, cycle, left, pc, request, command, k>>
      /\ mixed \subseteq mixed' /\ mixed' \subseteq mixed \cup {w}
      /\ Serves(w, "save") => w \in mixed'
      /\ \A v \in Var : v # w => \A o \in Offsets(v) : globals'[o] = globals[o]
  BY MeasureWrites
<1>2. WholeKept' BY <1>1 DEF WholeKept, Kept, InOnePage, Offsets
<1>3. WholeOwn' BY <1>1 DEF WholeOwn, InOnePage
<1>4. \A v \in Var : v # w /\ IsWhole(v) => IsWhole(v)' BY <1>1, HeldSame
<1>5. \A v \in Var : (Serves(v, "load")' <=> Serves(v, "load"))
                     /\ (Serves(v, "save")' <=> Serves(v, "save"))
  BY <1>1 DEF Serves
<1>6. WholeHeld' BY <1>1, <1>4, <1>5 DEF WholeHeld, InOnePage
<1>7. WholeCycle' BY <1>1, <1>5 DEF WholeCycle, InOnePage, AddressOf, Cells
<1> QED BY <1>2, <1>3, <1>6, <1>7

LEMMA WholePower ==
  ASSUME Inv, PowerFails
  PROVE  WholeInv'
<1> USE DEF Inv, WholeInv
<1>1. pc' # "run" /\ UNCHANGED mixed BY DEF PowerFails
<1>2. WholeKept' BY <1>1, PowerFailsAfter, KeptStep DEF WholeKept, Kept, InOnePage, Offsets
<1>3. WholeOwn' BY <1>1 DEF WholeOwn, InOnePage
<1> QED BY <1>1, <1>2, <1>3 DEF WholeHeld, WholeCycle

-----------------------------------------------------------------------------
(* Value lists *)

LEMMA ListHandler ==
  ASSUME Inv, Handler
  PROVE  ListInv'
<1> USE DEF list
<1>1. pc = "run" /\ UNCHANGED eeprom BY WorkingRuns DEF memory
<1>2. k \in Nat /\ \A n \in 1 .. k + 1 : n \in 1 .. k \/ n = k + 1 BY DEF Inv, TypeInv
<1>3. \A n \in 1 .. k : command.list[n].id \in Var BY <1>1 DEF Inv, ListInv
<1>4. ASSUME NEW n \in 1 .. k, command.kind = "set", LastOf(n)
      PROVE  Holds(globals, command.list[n].id, command.list[n].value)
  BY <1>1, <1>4 DEF Inv, ListInv
<1>5. Id \in Var => \A n \in 1 .. k + 1 : command.list[n].id \in Var BY <1>2, <1>3 DEF Id
<1>6. ASSUME NEW n \in 1 .. k, command.kind \in {"load", "save"}, command.list[n].id \notin Measured
      PROVE  Agree(command.list[n].id)
  BY <1>1, <1>6 DEF Inv, ListInv
<1>7. CASE NotFound \/ TooLong \/ Answer
  <2>1. k' = 0 BY <1>7 DEF NotFound, TooLong, Answer, Refuse, Ends
  <2> QED BY <2>1 DEF ListInv
<1>8. CASE GetValue
  <2>1. k' = k + 1 /\ UNCHANGED command /\ command.kind = "get" /\ Id \in Var
    BY <1>8 DEF GetValue, Working, Finds
  <2> QED BY <1>5, <2>1 DEF ListInv
<1>9. CASE ValueDone
  <2>1. /\ k' = k + 1 /\ UNCHANGED <<command, globals>> /\ Id \in Var
        /\ request.count = 0
        /\ Loading(Id) \/ Saving(Id)
    BY <1>9 DEF ValueDone, Done, Inv, RunInv
  <2>2. command.kind \in {"load", "save"} BY <2>1 DEF Loading, Saving
  <2>3. Id \notin Measured => Agree(Id)
    <3>1. CASE command.kind = "load"
      <4>1. Loading(Id) /\ request.count = 0 /\ Size[Id] # 0
        BY <1>9, <2>1, <3>1, PlaceOf DEF Saving, ValueDone, Done
      <4> QED BY <4>1 DEF Loading
    <3>2. CASE command.kind = "save" BY <1>9, <3>2, SaveDone DEF Saving
    <3> QED BY <2>2, <3>1, <3>2
  <2>4. ASSUME NEW n \in 1 .. k + 1, command.list[n].id \notin Measured
        PROVE  Agree(command.list[n].id)
    BY <1>2, <1>6, <2>2, <2>3, <2>4 DEF Id
  <2> QED BY <1>1, <1>5, <2>1, <2>2, <2>4 DEF ListInv, Agree, Offsets
<1>10. CASE SetValue
  <2>1. /\ k' = k + 1 /\ UNCHANGED command /\ Id \in Var /\ command.kind = "set"
        /\ globals' = [o \in DOMAIN globals |->
                         IF o \in Offsets(Id) THEN command.list[k + 1].value ELSE globals[o]]
    BY <1>10 DEF SetValue, Working, Finds
  <2>2. ASSUME NEW n \in 1 .. k + 1,
               \A m \in 1 .. k + 1 : m > n => command.list[m].id # command.list[n].id
        PROVE  Holds(globals', command.list[n].id, command.list[n].value)
    <3> DEFINE v == command.list[n].id
    <3>1. v \in Var BY <1>5, <2>1
    <3>2. Offsets(v) \subseteq DOMAIN globals BY <3>1, CellsOf DEF Inv, TypeInv
    <3>3. CASE n = k + 1 BY <2>1, <3>2, <3>3 DEF Holds, Id
    <3>4. CASE n # k + 1
      <4>1. n \in 1 .. k BY <1>2, <3>4
      <4>2. k + 1 \in 1 .. k + 1 /\ k + 1 > n BY <1>2, <4>1
      <4>3. Id # v BY <2>2, <4>2 DEF Id
      <4>4. LastOf(n)
        <5>1. \A m \in 1 .. k : m \in 1 .. k + 1 BY <1>2
        <5> QED BY <2>2, <5>1 DEF LastOf
      <4>5. Holds(globals, v, command.list[n].value) BY <1>4, <2>1, <4>1, <4>4
      <4>6. \A o \in Offsets(v) : o \notin Offsets(Id) BY <2>1, <3>1, <4>3, CellsApart
      <4> QED BY <2>1, <3>2, <4>5, <4>6 DEF Holds
    <3> QED BY <3>3, <3>4
  <2> QED BY <1>5, <2>1, <2>2 DEF ListInv, LastOf, Holds, Offsets
<1>11. CASE LoadValue \/ SaveValue
  <2>1. UNCHANGED <<globals, command, k, pc>> BY <1>11 DEF LoadValue, SaveValue
  <2> QED BY <1>1, <2>1 DEF Inv, ListInv, LastOf, Holds, Agree, Offsets
<1> QED BY <1>7, <1>8, <1>9, <1>10, <1>11 DEF Handler

LEMMA ListEeprom ==
  ASSUME Inv, Eeprom
  PROVE  ListInv'
<1> USE DEF Inv
<1>1. /\ UNCHANGED <<pc, command, k>> /\ request # NoRequest
      /\ ~CycleEnds => UNCHANGED eeprom
      /\ ~ReceiveCell => UNCHANGED globals
  BY EepromKeeps
<1> SUFFICES ASSUME pc = "run"
             PROVE  ListInv'
  BY <1>1 DEF ListInv
<1>2. command.kind \in {"load", "save"} BY <1>1 DEF RunInv, Loading, Saving
<1>3. \A n \in 1 .. k : command.list[n].id \in Var BY DEF ListInv
<1>4. ASSUME NEW n \in 1 .. k, command.list[n].id \notin Measured,
             NEW o \in Offsets(command.list[n].id)
      PROVE  globals'[o] = eeprom'[Start + o]
  <2> DEFINE v == command.list[n].id
  <2>1. v \in Var /\ globals[o] = eeprom[Start + o] BY <1>2, <1>4 DEF ListInv, Agree
  <2>2. CASE ReceiveCell
    <3>1. o \in DOMAIN globals BY <2>1, CellsOf DEF TypeInv
    <3>2. UNCHANGED eeprom BY <2>2 DEF ReceiveCell
    <3> QED BY <2>1, <2>2, <3>1, <3>2, ReceiveAt
  <2>3. CASE CycleEnds
    <3>1. Start + o \in Address BY <2>1, CellsOf
    <3>2. eeprom'[Start + o] = After(Start + o) BY <2>3, <3>1, CycleEndsAfter
    <3>3. After(Start + o) = globals[o] BY <1>4, <2>1, AfterOwn
    <3> QED BY <2>3, <3>2, <3>3 DEF CycleEnds
  <2>4. CASE ~ReceiveCell /\ ~CycleEnds BY <1>1, <2>1, <2>4
  <2> QED BY <2>2, <2>3, <2>4
<1> QED BY <1>1, <1>2, <1>3, <1>4 DEF ListInv, Agree, Offsets

LEMMA ListMeasure ==
  ASSUME Inv, NEW w \in Measured, NEW x \in Value, Measure(w, x)
  PROVE  ListInv'
<1> USE DEF Inv
<1>1. /\ w \in Var /\ pc = "run" /\ UNCHANGED <<eeprom, pc, command, k>>
      /\ \A v \in Var : v # w => \A o \in Offsets(v) : globals'[o] = globals[o]
  BY MeasureWrites
<1>2. CASE command = NoCommand
  <2>1. k = 0 BY <1>2 DEF TypeInv, NoCommand
  <2> QED BY <1>1, <2>1 DEF ListInv
<1>3. CASE command # NoCommand
  <2>1. request # NoRequest BY <1>3 DEF Measure
  <2>2. command.kind \in {"load", "save"} BY <1>1, <2>1 DEF RunInv, Loading, Saving
  <2>3. \A n \in 1 .. k :
          /\ command.list[n].id \in Var
          /\ command.list[n].id \notin Measured => Agree(command.list[n].id)
    BY <1>1, <2>2 DEF ListInv
  <2>4. ASSUME NEW n \in 1 .. k, command.list[n].id \notin Measured,
               NEW o \in Offsets(command.list[n].id)
        PROVE  globals'[o] = eeprom'[Start + o]
    BY <1>1, <2>3, <2>4 DEF Agree
  <2> QED BY <1>1, <2>2, <2>3, <2>4 DEF ListInv, Agree, Offsets
<1> QED BY <1>2, <1>3

LEMMA ListBoot ==
  ASSUME Inv, Boot
  PROVE  ListInv'
<1>1. pc # "run" /\ UNCHANGED list
  BY DEF Boot, ReadHeader, WriteHash, WriteCount, LoadGlobals, Running, BootStep
<1>2. command' = NoCommand BY <1>1 DEF list, Inv, BootInv
<1>3. k' = 0 BY <1>1, <1>2 DEF list, Inv, TypeInv, NoCommand
<1> QED BY <1>3 DEF ListInv

-----------------------------------------------------------------------------

(* A list arrives while no request is under way. *)
LEMMA InvCommand ==
  ASSUME Inv, NEW kind \in Kind, NEW n \in 1 .. 2, NEW entries \in [1 .. n -> Entry(kind)],
         Command(kind, entries)
  PROVE  Inv'
<1>1. /\ pc = "run" /\ command = NoCommand /\ k' = 0
      /\ UNCHANGED <<eeprom, cycle, left, globals, header, pc, request, stored, overtaken, mixed,
                     last_count>>
  BY DEF Command, memory, saved
<1>2. TypeInv' BY TypeCommand
<1>3. request = NoRequest
  <2>1. k = 0 BY <1>1 DEF Inv, TypeInv, NoCommand
  <2> QED BY <1>1, <2>1 DEF Inv, RunInv, NoCommand
<1>4. MoveInv' BY <1>1, <1>3, Idle DEF MoveInv
<1>5. BootInv' BY <1>1 DEF Inv, BootInv
<1>6. RunInv' BY <1>1, <1>3 DEF Inv, RunInv
<1>7. StoredInv' BY <1>1 DEF Inv, StoredInv, Kept, Offsets
<1>8. WholeInv'
  <2>1. WholeKept' BY <1>1 DEF Inv, WholeInv, WholeKept, Kept, InOnePage, Offsets
  <2>2. WholeOwn' BY <1>1 DEF Inv, WholeInv, WholeOwn, InOnePage
  <2>3. \A v \in Var : IsWhole(v) => IsWhole(v)' BY <1>1, HeldSame
  <2>4. WholeHeld' BY <1>1, <1>3, <2>3 DEF Inv, WholeInv, WholeHeld, Serves, InOnePage
  <2>5. WholeCycle' BY <1>1, <1>3 DEF WholeCycle, Serves
  <2> QED BY <2>1, <2>2, <2>4, <2>5 DEF WholeInv
<1>9. ListInv' BY <1>1 DEF ListInv
<1> QED BY <1>2, <1>4, <1>5, <1>6, <1>7, <1>8, <1>9 DEF Inv

LEMMA InvMeasure ==
  ASSUME Inv, NEW w \in Measured, NEW x \in Value, Measure(w, x)
  PROVE  Inv'
<1>1. UNCHANGED <<eeprom, cycle, left, request, stored>> BY MeasureWrites
<1>2. MoveInv' BY <1>1 DEF Inv, MoveInv, Reached, Moved, Portion, PageCount
<1>3. StoredInv' BY <1>1 DEF Inv, StoredInv, Kept, Offsets
<1> QED
  BY <1>2, <1>3, TypeMeasure, BootMeasure, RunMeasure, WholeMeasure, ListMeasure DEF Inv

LEMMA InvStutter ==
  ASSUME Inv, UNCHANGED vars
  PROVE  Inv'
<1> USE DEF vars, memory, list, saved, bounds, Inv
<1>1. TypeInv' BY DEF TypeInv
<1>2. MoveInv' BY DEF MoveInv, Reached, Moved, Portion, PageCount
<1>3. BootInv' BY DEF BootInv, Reached, Moved, Portion, PageCount
<1>4. RunInv'
  BY Zenon DEF RunInv, Loading, Saving, Id, After, AddressOf, Cells, Agree, Offsets,
               Reached, Moved, Portion, PageCount
<1>5. StoredInv' BY DEF StoredInv, Kept, Offsets
<1>6. WholeInv'
  BY Zenon DEF WholeInv, WholeKept, WholeOwn, WholeHeld, WholeCycle, Serves, IsWhole, Kept, Holds,
               Offsets, InOnePage, Id, AddressOf, Cells
<1>7. ListInv' BY DEF ListInv, LastOf, Holds, Agree, Offsets
<1> QED BY <1>1, <1>2, <1>3, <1>4, <1>5, <1>6, <1>7

LEMMA InvStep == Inv /\ [Next]_vars => Inv'
<1> SUFFICES ASSUME Inv, [Next]_vars
             PROVE  Inv'
  OBVIOUS
<1>1. CASE Boot
  BY <1>1, TypeBoot, MoveStep, BootBoot, RunBoot, StoredStep, WholeBoot, ListBoot DEF Inv
<1>2. CASE Handler
  BY <1>2, TypeHandler, MoveStep, BootHandler, RunHandler, StoredHandler, WholeHandler, ListHandler
  DEF Inv
<1>3. CASE Eeprom
  BY <1>3, TypeEeprom, MoveStep, BootEeprom, RunEeprom, StoredStep, WholeEeprom, ListEeprom DEF Inv
<1>4. CASE \E kind \in Kind, n \in 1 .. 2 :
             \E entries \in [1 .. n -> Entry(kind)] : Command(kind, entries)
  BY <1>4, InvCommand
<1>5. CASE \E v \in Measured, x \in Value : Measure(v, x) BY <1>5, InvMeasure
<1>6. CASE PowerFails
  <2>1. MoveInv' /\ RunInv' /\ ListInv' BY <1>6 DEF PowerFails, MoveInv, RunInv, ListInv
  <2> QED BY <1>6, <2>1, TypePower, BootPower, StoredStep, WholePower DEF Inv
<1>7. CASE UNCHANGED vars BY <1>7, InvStutter
<1> QED BY <1>1, <1>2, <1>3, <1>4, <1>5, <1>6, <1>7 DEF Next

LEMMA Invariant == Spec => []Inv
BY InitInv, InvStep, PTL DEF Spec

-----------------------------------------------------------------------------

(* What TypeOK says of requests and write cycles: no request is longer than *)
(* the memory, and a write cycle changes cells of one page only.           *)
CycleInv ==
  /\ DOMAIN cycle \subseteq Address
  /\ \A a, b \in DOMAIN cycle : a \div Page = b \div Page
  /\ request.count <= Start + StructSize
  /\ failures \in 0 .. MaxFailure /\ commands \in 0 .. MaxCommand

LEMMA InitCycle == Init => CycleInv
BY NoDomain, StoreAssumption DEF Init, CycleInv, NoRequest

LEMMA CycleSend ==
  ASSUME Inv, CycleInv, SendCell
  PROVE  CycleInv'
<1>1. /\ Reached \in Nat /\ Reached = request.address + Moved /\ Moved \in 0 .. Portion - 1
      /\ DOMAIN cycle' = request.address .. Reached
      /\ DOMAIN cycle = request.address .. Reached - 1
      /\ request.address \in Nat /\ request.count \in Nat /\ request.count > 0
      /\ request.address <= Reached
      /\ request'.count \in Nat /\ request'.address \in Nat
      /\ request'.address >= request.address
      /\ request'.address + request'.count = request.address + request.count
  BY SendAt DEF Inv, TypeInv, MoveInv, SendCell
<1>2. Portion = PageCount(request.address, request.count) BY DEF SendCell, Portion
<1>3. Portion \in 1 .. request.count
      /\ \A i \in 0 .. Portion - 1 : (request.address + i) \div Page = request.address \div Page
  <2>1. request.count \in Nat \ {0} BY <1>1
  <2> QED BY <1>1, <1>2, <2>1, PageCountFits
<1>4. ASSUME NEW a \in DOMAIN cycle'
      PROVE  a \div Page = request.address \div Page
  <2>1. a - request.address \in 0 .. Portion - 1 /\ request.address + (a - request.address) = a
    BY <1>1, <1>3
  <2> QED BY <1>3, <2>1
<1>5. DOMAIN cycle' \subseteq Address
  <2>1. HashAt \in Address /\ CountAt \in Address BY Addresses
  <2>2. \A v \in Var : Cells(v) \subseteq Address BY CellsOf
  <2>3. Reached \in Address \/ (DOMAIN cycle' \subseteq Address) BY <2>1, <2>2, Sends
  <2>4. \A a \in DOMAIN cycle' : a \in DOMAIN cycle \/ a = Reached BY <1>1
  <2> QED BY <2>3, <2>4 DEF CycleInv
<1>6. request'.count <= Start + StructSize
  <2>1. request'.count <= request.count BY <1>1
  <2> QED BY <1>1, <2>1, StoreAssumption DEF CycleInv
<1>7. UNCHANGED bounds BY DEF SendCell
<1> QED BY <1>4, <1>5, <1>6, <1>7 DEF CycleInv, bounds

LEMMA CycleStays ==
  ASSUME Inv, CycleInv, [Next]_vars
  PROVE  CycleInv'
<1> USE DEF CycleInv, memory, bounds
<1>1. Start \in Nat /\ StructSize \in Nat /\ Start >= 2 /\ MaxFailure \in Nat /\ MaxCommand \in Nat
  BY StoreAssumption
<1>2. CASE Boot
  BY <1>1, <1>2 DEF Boot, BootStep, ReadHeader, WriteHash, WriteCount, LoadGlobals, Running,
     Read, Write, NoRequest
<1>3. CASE LoadValue \/ SaveValue
  <2>1. Id \in Var BY <1>3 DEF LoadValue, SaveValue, Finds
  <2>2. Size[Id] <= Start + StructSize BY <2>1, PlaceOf
  <2>3. /\ request' \in {Read(AddressOf(Id), Size[Id]), Write(AddressOf(Id), Size[Id])}
        /\ UNCHANGED <<cycle, failures, commands>>
    BY <1>3 DEF LoadValue, SaveValue
  <2>4. request'.count = Size[Id] BY <2>3 DEF Read, Write
  <2> QED BY <2>2, <2>3, <2>4
<1>4. CASE NotFound \/ TooLong \/ GetValue \/ SetValue \/ ValueDone \/ Answer
  <2>1. /\ request' = request \/ request' = NoRequest
        /\ UNCHANGED <<cycle, failures, commands>>
    BY <1>4 DEF NotFound, TooLong, GetValue, SetValue, ValueDone, Answer
  <2> QED BY <1>1, <2>1 DEF NoRequest
<1>5. CASE ProcessRequest BY <1>5 DEF ProcessRequest
<1>6. CASE SendCell BY <1>6, CycleSend
<1>7. CASE ReceiveCell
  <2>1. UNCHANGED <<cycle, failures, commands>> /\ (request' = request \/ request'.count = 0)
    BY <1>7 DEF ReceiveCell, Inv, TypeInv
  <2> QED BY <1>1, <2>1
<1>8. CASE CycleEnds BY <1>8, NoDomain DEF CycleEnds
<1>9. CASE \E kind \in Kind, n \in 1 .. 2 :
             \E entries \in [1 .. n -> Entry(kind)] : Command(kind, entries)
  <2>1. /\ commands < MaxCommand /\ commands' = commands + 1
        /\ UNCHANGED <<cycle, request, failures>>
    BY <1>9 DEF Command
  <2> QED BY <1>1, <2>1
<1>10. CASE PowerFails
  <2>1. /\ failures < MaxFailure /\ failures' = failures + 1 /\ commands' = commands
        /\ cycle' = NoCycle /\ request' = NoRequest
    BY <1>10 DEF PowerFails
  <2> QED BY <1>1, <2>1, NoDomain DEF NoRequest
<1>11. CASE \E v \in Measured, x \in Value : Measure(v, x) BY <1>11 DEF Measure
<1>12. CASE UNCHANGED vars BY <1>12 DEF vars
<1> QED
  BY <1>2, <1>3, <1>4, <1>5, <1>6, <1>7, <1>8, <1>9, <1>10, <1>11, <1>12 DEF Next, Handler, Eeprom

(* dma_eeprom_cat25.c:65-81: a write cycle stays in one page of the EEPROM,  *)
(* and a value list is worked on within its length.                        *)
THEOREM TypeCorrect == Spec => []TypeOK
<1>1. Inv /\ CycleInv => TypeOK
  <2> SUFFICES ASSUME Inv, CycleInv
               PROVE  TypeOK
    OBVIOUS
  <2>1. request.count \in 0 .. Start + StructSize
    BY StoreAssumption DEF Inv, TypeInv, CycleInv
  <2>2. left \in 0 .. request.count
    <3>1. CASE left > 0 BY <3>1, PortionFits DEF Inv, MoveInv, TypeInv
    <3>2. CASE left = 0 BY <2>1, <3>2
    <3> QED BY <3>1, <3>2 DEF Inv, TypeInv
  <2> QED BY <2>1, <2>2 DEF Inv, TypeInv, CycleInv, TypeOK
<1> QED BY <1>1, InitInv, InvStep, InitCycle, CycleStays, PTL DEF Spec

(* A program begins to run at the end of init_globals, when the EEPROM has   *)
(* been read into memory.                                                  *)
LEMMA RunBegins ==
  ASSUME Inv, [Next]_vars, pc # "run", pc' = "run"
  PROVE  /\ Running /\ header.count > last_count
         /\ \A o \in 0 .. StructSize - 1 : globals[o] = eeprom[Start + o]
<1>1. Running
  <2>1. ~Handler BY WorkingRuns
  <2>2. ~PowerFails BY DEF PowerFails
  <2>3. ~Eeprom BY EepromKeeps
  <2>4. \A kind \in Kind, n \in 1 .. 2 : \A entries \in [1 .. n -> Entry(kind)] :
          ~Command(kind, entries)
    BY DEF Command
  <2>5. \A v \in Measured, x \in Value : ~Measure(v, x) BY DEF Measure
  <2>6. pc' # pc OBVIOUS
  <2>7. Boot BY <2>1, <2>2, <2>3, <2>4, <2>5, <2>6 DEF Next, vars
  <2> QED BY <2>7 DEF Boot, ReadHeader, WriteHash, WriteCount, LoadGlobals, BootStep
<1>2. pc = "load" /\ request.count = 0 BY <1>1 DEF Running, Done
<1>3. \A o \in 0 .. StructSize - 1 : globals[o] = eeprom[Start + o]
  BY <1>2, StoreAssumption DEF Inv, BootInv
<1> QED BY <1>1, <1>2, <1>3 DEF Inv, BootInv

(* globals.c:192-203, dma_eeprom_cat25.c:65-81: what save_global has stored *)
(* is there in every later run, wherever power fails.                      *)
THEOREM Survives == Spec => SavedSurvives
<1>1. Inv /\ [Next]_vars
        => [(pc # "run" /\ pc' = "run") =>
              \A v \in Var : stored[v] # Unknown => Holds(globals, v, stored[v])]_vars
  <2> SUFFICES ASSUME Inv, [Next]_vars, pc # "run", pc' = "run",
                      NEW v \in Var, stored[v] # Unknown, NEW o \in Offsets(v)
               PROVE  globals[o] = stored[v]
    BY DEF Holds
  <2>1. o \in 0 .. StructSize - 1 BY CellsOf
  <2>2. globals[o] = eeprom[Start + o] BY <2>1, RunBegins
  <2>3. eeprom[Start + o] = stored[v] BY DEF Inv, StoredInv, Kept
  <2> QED BY <2>2, <2>3
<1> QED BY Invariant, <1>1, PTL DEF Spec, SavedSurvives

(* dma_eeprom_cat25.c:46-47: a variable in one page comes back whole, also    *)
(* when power fails in its save; one that other processes write does unless *)
(* they wrote it while it was saved last.                                  *)
THEOREM Whole == Spec => ComesBackWhole
<1>1. Inv /\ [Next]_vars
        => [(pc # "run" /\ pc' = "run") =>
              \A v \in Var : (InOnePage(v) /\ (v \in Measured => v \notin mixed))
                               => IsWhole(v)]_vars
  <2> SUFFICES ASSUME Inv, [Next]_vars, pc # "run", pc' = "run",
                      NEW v \in Var, InOnePage(v), v \in Measured => v \notin mixed
               PROVE  IsWhole(v)
    OBVIOUS
  <2>1. v \notin mixed BY DEF Inv, WholeInv, WholeOwn
  <2>2. PICK x \in Value : Kept(v, x) BY <2>1 DEF Inv, WholeInv, WholeKept
  <2>3. \A o \in Offsets(v) : globals[o] = eeprom[Start + o] BY CellsOf, RunBegins
  <2> QED BY <2>2, <2>3 DEF Kept, IsWhole, Holds
<1> QED BY Invariant, <1>1, PTL DEF Spec, ComesBackWhole

(* globals.c:232: no two runs have the same StartupCount. *)
THEOREM Counts == Spec => CountGrows
<1>1. Inv /\ [Next]_vars => [(pc # "run" /\ pc' = "run") => header.count > last_count]_vars
  BY RunBegins
<1> QED BY Invariant, <1>1, PTL DEF Spec, CountGrows

(* comms.c:76-150: a list is answered when all of it was done, and memory    *)
(* and EEPROM then agree on what was loaded or saved.                       *)
THEOREM Answered == Spec => AnsweredIsDone
<1>1. Inv /\ [Next]_vars
        => [(command # NoCommand /\ answer' = "answered") =>
              \A n \in DOMAIN command.list :
                LET v == command.list[n].id
                IN /\ v \in Var
                   /\ (command.kind = "set" /\ \A m \in DOMAIN command.list :
                                                 m > n => command.list[m].id # v)
                        => Holds(globals, v, command.list[n].value)
                   /\ (command.kind \in {"load", "save"} /\ v \notin Measured)
                        => \A o \in Offsets(v) : globals[o] = eeprom[Start + o]]_vars
  <2> SUFFICES ASSUME Inv, [Next]_vars, command # NoCommand, answer' = "answered",
                      NEW n \in DOMAIN command.list
               PROVE  /\ command.list[n].id \in Var
                      /\ (command.kind = "set" /\ \A m \in DOMAIN command.list :
                                                    m > n => command.list[m].id # command.list[n].id)
                           => Holds(globals, command.list[n].id, command.list[n].value)
                      /\ (command.kind \in {"load", "save"} /\ command.list[n].id \notin Measured)
                           => Agree(command.list[n].id)
    BY DEF Agree
  <2>1. answer = "none" /\ pc = "run" BY DEF Inv, TypeInv, BootInv
  <2>2. k = Len(command.list)
    <3>1. answer' # answer BY <2>1
    <3>2. ~Eeprom BY <3>1, EepromKeeps
    <3>3. \A v \in Measured, x \in Value : ~Measure(v, x) BY <3>1 DEF Measure, list
    <3> QED
      BY <2>1, <3>1, <3>2, <3>3
      DEF Next, Boot, Handler, PowerFails, Command, ReadHeader, WriteHash, WriteCount,
          LoadGlobals, Running, BootStep, NotFound, TooLong, GetValue, SetValue, LoadValue, SaveValue,
          ValueDone, Answer, Refuse, Ends, list, vars
  <2>3. DOMAIN command.list = 1 .. k
    <3>1. PICK kind \in Kind : command \in [kind : {kind}, list : Seq(Entry(kind))]
      BY DEF Inv, TypeInv
    <3> QED BY <2>2, <3>1
  <2> QED BY <2>1, <2>3 DEF Inv, ListInv, LastOf
<1> QED BY Invariant, <1>1, PTL DEF Spec, AnsweredIsDone
-----------------------------------------------------------------------------
(* From the ID in a packet to a variable: the tables of GlobalMap *)

(* The ends of the ranges, in the order they are compared with. *)
LEMMA RangeEnds ==
  /\ DOMAIN Types = 1 .. 12
  /\ IdEnd(Types[1]) = 1 /\ IdEnd(Types[2]) = 1 /\ IdEnd(Types[3]) = 1
  /\ IdEnd(Types[4]) = 14
  /\ IdEnd(Types[5]) = 16 /\ IdEnd(Types[6]) = 16 /\ IdEnd(Types[7]) = 16
  /\ IdEnd(Types[8]) = 16
  /\ IdEnd(Types[9]) = 32
  /\ IdEnd(Types[10]) = 35 /\ IdEnd(Types[11]) = 35
  /\ IdEnd(Types[12]) = 44
BY DEF Types, IdEnd

(* The condition by which a type is chosen. *)
FirstBehind(x, n) == x < IdEnd(Types[n]) /\ \A m \in 1 .. n - 1 : x >= IdEnd(Types[m])

(* The place of a field's type in the order of the types. *)
Place(x) ==
  IF x <= 13 THEN 4 ELSE IF x <= 15 THEN 5 ELSE IF x <= 31 THEN 9 ELSE IF x <= 34 THEN 10 ELSE 12

(* One type and no other has the first range that ends behind an ID. *)
LEMMA OneType ==
  ASSUME NEW x \in Field, NEW n \in DOMAIN Types
  PROVE  FirstBehind(x, n) <=> n = Place(x)
<1>1. n \in 1 .. 12 BY RangeEnds
<1>2. CASE x <= 13
  BY <1>1, <1>2, RangeEnds DEF FirstBehind, Place, Field
<1>3. CASE x > 13 /\ x <= 15
  BY <1>1, <1>3, RangeEnds DEF FirstBehind, Place, Field
<1>4. CASE x > 15 /\ x <= 31
  BY <1>1, <1>4, RangeEnds DEF FirstBehind, Place, Field
<1>5. CASE x > 31 /\ x <= 34
  BY <1>1, <1>5, RangeEnds DEF FirstBehind, Place, Field
<1>6. CASE x > 34
  BY <1>1, <1>6, RangeEnds DEF FirstBehind, Place, Field
<1> QED BY <1>2, <1>3, <1>4, <1>5, <1>6 DEF Field

(* get_global_type_from_id gives a field its type. *)
LEMMA TypeIsFieldType ==
  ASSUME NEW x \in Field
  PROVE  TypeFromId(x) = FieldType(x)
<1>1. Place(x) \in DOMAIN Types /\ Types[Place(x)] = FieldType(x)
  BY RangeEnds DEF Place, Types, FieldType, Field
<1>2. (CHOOSE n \in DOMAIN Types : FirstBehind(x, n)) = Place(x)
  BY <1>1, OneType
<1> QED BY <1>1, <1>2 DEF TypeFromId, FirstBehind

(* Every ID of the table has a type. *)
LEMMA InTableHasType ==
  ASSUME NEW x \in Nat
  PROVE  /\ InTable(x) <=> x \in Field
         /\ x \in Field => HasType(x)
<1>1. InTable(x) <=> x \in Field BY DEF InTable, ID_START, ID_END, Field
<1>2. x \in Field => x < IdEnd(Types[12]) /\ 12 \in DOMAIN Types BY RangeEnds DEF Field
<1> QED BY <1>1, <1>2 DEF HasType

(* get_address_from_id finds a field where the compiler puts it. *)
LEMMA AddressIsOffset ==
  ASSUME NEW x \in Field
  PROVE  AddressFromId(FieldType(x), x) = {NoField, Declared(x)}
<1> DEFINE t == FieldType(x)
<1>1. t \in DOMAIN StartVariable BY DEF FieldType, StartVariable, Field
<1>2. IdStart(t) \in Nat /\ IdEnd(t) \in Nat /\ x >= IdStart(t) /\ x < IdEnd(t)
  BY DEF FieldType, IdStart, IdEnd, Field
<1>3. Offset(StartVariable[t]) + SizeOf[t] * (x - IdStart(t)) = Offset(x)
  <2>1. CASE x <= 13
    BY <2>1 DEF FieldType, StartVariable, SizeOf, IdStart, Offset, Field
  <2>2. CASE x > 13 /\ x <= 15
    BY <2>2 DEF FieldType, StartVariable, SizeOf, IdStart, Offset, Field
  <2>3. CASE x > 15 /\ x <= 31
    BY <2>3 DEF FieldType, StartVariable, SizeOf, IdStart, Offset, Field
  <2>4. CASE x > 31 /\ x <= 34
    BY <2>4 DEF FieldType, StartVariable, SizeOf, IdStart, Offset, Field
  <2>5. CASE x > 34
    BY <2>5 DEF FieldType, StartVariable, SizeOf, IdStart, Offset, Field
  <2> QED BY <2>1, <2>2, <2>3, <2>4, <2>5 DEF Field
<1> HIDE DEF t
<1>4. ~(t \notin DOMAIN StartVariable \/ x < IdStart(t) \/ x >= IdEnd(t))
  BY <1>1, <1>2 DEF Field
<1>5. AddressFromId(t, x)
        = {NoField,
           [found |-> TRUE, type |-> t, size |-> SizeOf[t],
            offset |-> Offset(StartVariable[t]) + SizeOf[t] * (x - IdStart(t))]}
  BY <1>4 DEF AddressFromId
<1> QED BY <1>3, <1>5 DEF t, Declared

(* For every ID of 16 bits, global_variables.h and globals.c:10-157 together *)
(* find the field the structure has for its low byte, with its place, type   *)
(* and size, or refuse the ID: no other field is ever found, and behind the  *)
(* switch of get_address_from_id the code leaves open which of the two it    *)
(* is (global_variables.h:28-72, :181-212).                                 *)
THEOREM TableFindsTheField == FindsTheField
<1>1. ASSUME NEW id \in RequestId
      PROVE  Lookup(id) = IF Converted(id) \in Field THEN {NoField, Declared(Converted(id))}
                          ELSE {NoField}
  <2>1. Converted(id) \in Nat
    <3>1. UINT16_MAX \in Nat BY DEF UINT16_MAX
    <3>2. id \in Nat BY <3>1 DEF RequestId
    <3> QED BY <3>2 DEF Converted
  <2>2. CASE Converted(id) \in Field
    <3>1. InTable(Converted(id)) /\ HasType(Converted(id)) BY <2>1, <2>2, InTableHasType
    <3>2. AddressFromId(TypeFromId(Converted(id)), Converted(id))
            = {NoField, Declared(Converted(id))}
      BY <2>2, TypeIsFieldType, AddressIsOffset
    <3> QED BY <2>2, <3>1, <3>2 DEF Lookup
  <2>3. CASE Converted(id) \notin Field
    <3>1. ~InTable(Converted(id)) BY <2>1, <2>3, InTableHasType
    <3> QED BY <2>3, <3>1 DEF Lookup
  <2> QED BY <2>2, <2>3
<1> QED BY <1>1 DEF FindsTheField

(* The offsets are those of the packed structure the compiler lays out       *)
(* (global_variables.h:28-72).                                              *)
THEOREM FieldsPacked == Packed
<1>1. Offset(1) = 0 BY DEF Offset, FieldType
<1>2. ASSUME NEW n \in 2 .. 43
      PROVE  Offset(n) = Offset(n - 1) + SizeOf[FieldType(n - 1)]
  <2>1. CASE n <= 13 BY <2>1 DEF Offset, FieldType, SizeOf
  <2>2. CASE n = 14 BY <2>2 DEF Offset, FieldType, SizeOf
  <2>3. CASE n = 15 BY <2>3 DEF Offset, FieldType, SizeOf
  <2>4. CASE n = 16 BY <2>4 DEF Offset, FieldType, SizeOf
  <2>5. CASE n > 16 /\ n <= 31 BY <2>5 DEF Offset, FieldType, SizeOf
  <2>6. CASE n = 32 BY <2>6 DEF Offset, FieldType, SizeOf
  <2>7. CASE n > 32 /\ n <= 34 BY <2>7 DEF Offset, FieldType, SizeOf
  <2>8. CASE n = 35 BY <2>8 DEF Offset, FieldType, SizeOf
  <2>9. CASE n > 35 BY <2>9 DEF Offset, FieldType, SizeOf
  <2> QED BY <2>1, <2>2, <2>3, <2>4, <2>5, <2>6, <2>7, <2>8, <2>9
<1> QED BY <1>1, <1>2 DEF Packed

(* save_global writes any variable in one write cycle of the EEPROM: none    *)
(* lies across two pages (globals.h:14, eeprom_cat25.h:15).                *)
THEOREM SavedInOneCycle == OneWriteCycle
<1> SUFFICES ASSUME NEW n \in Field
             PROVE  LET first == StartAddress + Offset(n)
                    IN first \div PageSize
                         = (first + SizeOf[FieldType(n)] - 1) \div PageSize
  BY DEF OneWriteCycle
<1>1. CASE n <= 13 BY <1>1 DEF Offset, FieldType, SizeOf, Field, StartAddress, PageSize
<1>2. CASE n > 13 /\ n <= 15
  BY <1>2 DEF Offset, FieldType, SizeOf, Field, StartAddress, PageSize
<1>3. CASE n > 15 /\ n <= 31
  BY <1>3 DEF Offset, FieldType, SizeOf, Field, StartAddress, PageSize
<1>4. CASE n > 31 /\ n <= 34
  BY <1>4 DEF Offset, FieldType, SizeOf, Field, StartAddress, PageSize
<1>5. CASE n > 34 BY <1>5 DEF Offset, FieldType, SizeOf, Field, StartAddress, PageSize
<1> QED BY <1>1, <1>2, <1>3, <1>4, <1>5 DEF Field
=============================================================================
