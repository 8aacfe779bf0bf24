------------------------------ MODULE GlobalMap ------------------------------
(***************************************************************************)
(* From the number in a packet to a variable: globals.c:10-157 and the     *)
(* tables that global_variable_generator.py writes into                    *)
(* global_variables.h, checked against the structure itself, field after   *)
(* field.  An ID in a packet has 16 bits.  There is no state: the tables    *)
(* do not change, and an ID is looked up on its own.                        *)
(***************************************************************************)
EXTENDS Integers, Sequences

NoField == [found |-> FALSE, type |-> "none", offset |-> 0, size |-> 0]

-----------------------------------------------------------------------------
(* global_variables.h *)

(* __Global_Variable_Types, in the order the types are looked through. *)
Types == <<"I64", "U64", "F64", "I32", "U32", "FP32", "F32", "I16", "U16", "I8", "U8", "BOOL">>
Type == {Types[n] : n \in DOMAIN Types}

(* __GLOBAL_I64_ID_END .. __GLOBAL_BOOL_ID_END *)
IdEnd(t) ==
  CASE t \in {"I64", "U64", "F64"} -> 1
    [] t = "I32" -> 14
    [] t \in {"U32", "FP32", "F32", "I16"} -> 16
    [] t = "U16" -> 32
    [] t \in {"I8", "U8"} -> 35
    [] t = "BOOL" -> 44

IdStart(t) ==
  CASE t \in {"I64", "U64", "F64", "I32"} -> 1
    [] t = "U32" -> 14
    [] t \in {"FP32", "F32", "I16", "U16"} -> 16
    [] t = "I8" -> 32
    [] t \in {"U8", "BOOL"} -> 35

ID_START == 1
ID_END == 44

(* The types that have variables, and the field each begins with. *)
StartVariable == [I32 |-> 1, U32 |-> 14, U16 |-> 16, I8 |-> 32, BOOL |-> 35]

SizeOf == [I32 |-> 4, U32 |-> 4, U16 |-> 2, I8 |-> 1, BOOL |-> 1]

(* Global_Variables: the types of its 43 fields, as they are declared. *)
FieldType(n) ==
  IF n <= 13 THEN "I32" ELSE IF n <= 15 THEN "U32" ELSE IF n <= 31 THEN "U16"
  ELSE IF n <= 34 THEN "I8" ELSE "BOOL"
Field == 1 .. 43

(* __EEPROM_GLOBAL_VARIABLES_START_ADDRESS, EEPROM_PAGE_SIZE *)
StartAddress == 32
PageSize == 64

(* Where the compiler puts a field: it is packed, see Packed below. *)
Offset(n) ==
  CASE FieldType(n) = "I32" -> 4 * (n - 1)
    [] FieldType(n) = "U32" -> 52 + 4 * (n - 14)
    [] FieldType(n) = "U16" -> 60 + 2 * (n - 16)
    [] FieldType(n) = "I8" -> 92 + (n - 32)
    [] FieldType(n) = "BOOL" -> 95 + (n - 35)

(* A field as it is declared. *)
Declared(n) ==
  [found |-> TRUE, type |-> FieldType(n), offset |-> Offset(n), size |-> SizeOf[FieldType(n)]]

-----------------------------------------------------------------------------
(* globals.c *)

(* The two bytes of an ID in a packet. *)
UINT16_MAX == 65535
RequestId == 0 .. UINT16_MAX

(* The conversion to Global_Variable_IDs, an enumeration of one byte in this *)
(* build (short enums).                                                      *)
Converted(x) == x % 256

InTable(x) == x >= ID_START /\ x < ID_END

(* get_global_type_from_id: the first type whose range ends behind the ID. *)
TypeFromId(x) ==
  Types[CHOOSE n \in DOMAIN Types :
          x < IdEnd(Types[n]) /\ \A m \in 1 .. n - 1 : x >= IdEnd(Types[m])]

HasType(x) == InTable(x) /\ \E n \in DOMAIN Types : x < IdEnd(Types[n])

(* get_address_from_id: the outcomes.  Behind its switch there is no return *)
(* statement, and what the caller tests is not defined: the field may be    *)
(* refused although its address was set.                                   *)
AddressFromId(t, x) ==
  IF t \notin DOMAIN StartVariable \/ x < IdStart(t) \/ x >= IdEnd(t)
  THEN {NoField}
  ELSE {NoField,
        [found |-> TRUE, type |-> t, size |-> SizeOf[t],
         offset |-> Offset(StartVariable[t]) + SizeOf[t] * (x - IdStart(t))]}

(* get_global_address_size (which has no return statement at its end         *)
(* either), set_global, get_global, load_global, save_global: the outcomes; *)
(* for an ID that no range ends behind, neither the type nor the result is  *)
(* defined.                                                                *)
Lookup(id) ==
  LET x == Converted(id)
  IN IF ~InTable(x) THEN {NoField}
     ELSE IF ~HasType(x) THEN {NoField} \cup UNION {AddressFromId(t, x) : t \in Type}
     ELSE AddressFromId(TypeFromId(x), x)

-----------------------------------------------------------------------------
(* Properties *)

(* The offsets are those of a packed structure: the first field is at its   *)
(* start and each field begins where the one before it ends                *)
(* (global_variables.h:28-72).                                              *)
Packed ==
  /\ Offset(1) = 0
  /\ \A n \in 2 .. 43 : Offset(n) = Offset(n - 1) + SizeOf[FieldType(n - 1)]

(* An ID of the table finds its own field, where the compiler puts it, with *)
(* its type and size, or is refused: never another one; and every other ID  *)
(* is refused (global_variables.h:28-72 against :181-212).  An ID of more   *)
(* than one byte is the one of its low byte.                               *)
FindsTheField ==
  \A id \in RequestId :
    Lookup(id) = IF Converted(id) \in Field THEN {NoField, Declared(Converted(id))}
                 ELSE {NoField}

(* No variable lies across two pages of the EEPROM: a save is one write     *)
(* cycle, old or new after a power failure (globals.h:14,                  *)
(* eeprom_cat25.h:15).                                                      *)
OneWriteCycle ==
  \A n \in Field :
    LET first == StartAddress + Offset(n)
    IN first \div PageSize = (first + SizeOf[FieldType(n)] - 1) \div PageSize
=============================================================================
