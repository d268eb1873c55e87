--------------------------- MODULE TransferLists ----------------------------
(***************************************************************************)
(* The lists of transfer descriptors (TD) that usb.c writes into the memory *)
(* of the USB controller, one list for each request of the enumeration, and *)
(* what a keyboard expects of them.                                         *)
(*                                                                         *)
(* A TD is six words: the buffer, its length, the device with the kind of    *)
(* packet, control with the data toggle, retries, and the next TD.  A list   *)
(* starts at 0x0500 with the SETUP TD; the 8 bytes it sends follow it, then  *)
(* the data TDs, then the status TD.                                        *)
(***************************************************************************)
EXTENDS Naturals, Sequences

ListStart == \h500

TD(base, len, dev, pid, toggle, next) ==
    [base |-> base, len |-> len, dev |-> dev, pid |-> pid, toggle |-> toggle,
     next |-> next]

Setup(dev) == TD(\h50C, 8, dev, "SETUP", 0, \h514)
In(base, len, toggle, next) == TD(base, len, 2, "IN", toggle, next)
StatusIn(dev) == TD(0, 0, dev, "IN", 1, 0)
StatusOut == TD(0, 0, 2, "OUT", 1, 0)

\* A slip (PROJECT.json "mutants"): the third data packet goes over the list.
UsbGetConfigDesc2_Buffer ==
    << Setup(2), In(\h55C, 8, 1, \h520), In(\h564, 8, 0, \h52C),
       In(\h54C, 8, 1, \h538), In(\h574, 8, 0, \h544), In(\h57C, 2, 1, \h550),
       StatusOut >>

UsbSetAddress == << Setup(0), StatusIn(0) >>
UsbGetDeviceDesc1 == << Setup(2), In(\h52C, 8, 1, \h520), StatusOut >>
UsbGetDeviceDesc2 ==
    << Setup(2), In(\h544, 8, 1, \h520), In(\h54C, 8, 0, \h52C),
       In(\h554, 2, 1, \h538), StatusOut >>
UsbGetConfigDesc1 ==
    << Setup(2), In(\h544, 8, 1, \h520), In(\h54C, 1, 0, \h52C), StatusOut >>
UsbGetConfigDesc2 ==
    << Setup(2), In(\h55C, 8, 1, \h520), In(\h564, 8, 0, \h52C),
       In(\h56C, 8, 1, \h538), In(\h574, 8, 0, \h544), In(\h57C, 2, 1, \h550),
       StatusOut >>
UsbSetConfig == << Setup(2), StatusIn(2) >>
UsbClassRequest == << Setup(2), StatusIn(2) >>
UsbGetHidDesc == << Setup(2), In(\h544, 8, 1, \h520), StatusOut >>
UsbGetReportDesc ==
    << Setup(2), In(\h580, 8, 1, \h520), In(\h588, 8, 0, \h52C),
       In(\h590, 8, 1, \h538), In(\h598, 8, 0, \h544), In(\h5A0, 8, 1, \h550),
       In(\h5A8, 8, 0, \h55C), In(\h5B0, 8, 1, \h568), In(\h5B8, 3, 0, \h574),
       StatusOut >>

(* The requests in the order of main.c; the last list is the one that polls. *)
SetAddress == 1
ConfigDesc2 == 5
SetConfig == 6
Poll == 10
PollTD == << In(\h51C, 8, 0, 0) >>
List(step) ==
    CASE step = SetAddress -> UsbSetAddress
      [] step = 2 -> UsbGetDeviceDesc1
      [] step = 3 -> UsbGetDeviceDesc2
      [] step = 4 -> UsbGetConfigDesc1
      [] step = ConfigDesc2 -> UsbGetConfigDesc2
      [] step = SetConfig -> UsbSetConfig
      [] step = 7 -> UsbClassRequest
      [] step = 8 -> UsbGetHidDesc
      [] step = 9 -> UsbGetReportDesc
      [] step = Poll -> PollTD

-----------------------------------------------------------------------------
(* Where the i-th TD of a list lies, and where the list ends. *)
AddressOf(i) == IF i = 1 THEN ListStart ELSE \h514 + 12 * (i - 2)
EndOf(step) == IF step = Poll THEN ListStart + 12
               ELSE AddressOf(Len(List(step)) + 1)

HasTD(step, ptr) == \E i \in DOMAIN List(step) : AddressOf(i) = ptr
Position(step, ptr) == CHOOSE i \in DOMAIN List(step) : AddressOf(i) = ptr

(* What USB asks of the i-th stage of a control transfer: SETUP, data that   *)
(* alternate from DATA1, and a status stage the other way, always DATA1.     *)
Expected(step, i) ==
    LET n == Len(List(step))
    IN  IF i = 1 THEN [pid |-> "SETUP", toggle |-> 0]
        ELSE IF i < n THEN [pid |-> "IN", toggle |-> (i + 1) % 2]
        ELSE [pid |-> IF n = 2 THEN "IN" ELSE "OUT", toggle |-> 1]

(* The TD at ptr is the stage that its place in the list makes it. *)
Fits(step, ptr) ==
    /\ HasTD(step, ptr)
    /\ LET i == Position(step, ptr)
           td == List(step)[i]
       IN  /\ [pid |-> td.pid, toggle |-> td.toggle] = Expected(step, i)
           /\ td.next = 0 <=> i = Len(List(step))

(* Data arriving for the TD at ptr would overwrite the list itself. *)
Tramples(step, ptr) ==
    LET td == List(step)[Position(step, ptr)]
    IN  /\ td.pid = "IN" /\ td.len > 0
        /\ td.base < EndOf(step) /\ td.base + td.len > ListStart
=============================================================================
