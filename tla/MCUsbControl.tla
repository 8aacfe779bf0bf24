---------------------------- MODULE MCUsbControl ----------------------------
(* Model values for the control endpoint: at least one request for each     *)
(* way in which the device answers, refuses or ignores one.                 *)
EXTENDS UsbControl

R(kind, value, index, length) ==
  [kind |-> kind, value |-> value, index |-> index, length |-> length]

(* A descriptor cut short, one cut at the end of a packet, one of a packet  *)
(* and a part, one built in the buffer, one that does not exist; indices    *)
(* where there is only one descriptor.                                      *)
Value(type, index) == 256 * type + index

Descriptors ==
  {R("GetDescriptor", Value(Device, 1), 0, 8),
   R("GetDescriptor", Value(Configuration, 0), 0, 64),
   R("GetDescriptor", Value(Configuration, 1), 0, 255),
   R("GetDescriptor", Value(Strings, 3), 0, 255), R("GetDescriptor", Value(Strings, 4), 0, 255)}

Others ==
  {R("GetStatus", 0, 0, 2), R("SetAddress", 5, 0, 0), R("GetConfiguration", 0, 0, 1),
   R("SetConfiguration", 1, 0, 0), R("SetConfiguration", 2, 0, 0)}

Serial ==
  {R("GetLineEncoding", 0, 0, 7), R("SendBreak", 0, 0, 0)}

(* Requests for another interface, another recipient, of a vendor. *)
Stray ==
  {R("GetLineEncoding", 0, 1, 7), R("ClassElsewhere", 0, 0, 0), R("Vendor", 0, 4, 64)}

SetLine == {R("SetLineEncoding", 0, 0, 7)}

AllRequests == Descriptors \cup Others \cup Serial \cup Stray \cup SetLine
=============================================================================
