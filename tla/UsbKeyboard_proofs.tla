------------------------- MODULE UsbKeyboard_proofs -------------------------
(***************************************************************************)
(* Proofs about TransferLists and UsbKeyboard, for any keys, any number of *)
(* failed transfers and any number of looks at the port.                   *)
(***************************************************************************)
EXTENDS UsbKeyboard, TLAPS

USE DEF SetAddress, ConfigDesc2, SetConfig, Poll

-----------------------------------------------------------------------------
(***************************************************************************)
(* The transfer lists: the TDs of a list follow one another, each is the   *)
(* stage of a control transfer that its place makes it, and no data comes  *)
(* to lie on the list.                                                     *)
(***************************************************************************)
WellFormed(list, s) ==
  LET n == Len(list)
      end == IF s = Poll THEN ListStart + 12 ELSE AddressOf(n + 1)
  IN  /\ n \in Nat \ {0} /\ DOMAIN list = 1..n
      /\ s # Poll => n > 1
      /\ \A i \in 1..n :
           LET td == list[i]
           IN  /\ td.next = IF i = n THEN 0 ELSE AddressOf(i + 1)
               /\ ~(/\ td.pid = "IN" /\ td.len > 0
                    /\ td.base < end /\ td.base + td.len > ListStart)
               /\ s # Poll =>
                    /\ td.pid = IF i = 1 THEN "SETUP"
                                ELSE IF i < n \/ n = 2 THEN "IN" ELSE "OUT"
                    /\ td.toggle = IF i = 1 THEN 0 ELSE IF i < n THEN (i + 1) % 2 ELSE 1
               /\ s \notin {SetAddress, Poll} => td.dev = 2

LEMMA ListsWellFormed == \A s \in 1..Poll : WellFormed(List(s), s)
<1>1. /\ List(1) = UsbSetAddress /\ List(2) = UsbGetDeviceDesc1
      /\ List(3) = UsbGetDeviceDesc2 /\ List(4) = UsbGetConfigDesc1
      /\ List(5) = UsbGetConfigDesc2 /\ List(6) = UsbSetConfig
      /\ List(7) = UsbClassRequest /\ List(8) = UsbGetHidDesc
      /\ List(9) = UsbGetReportDesc /\ List(10) = PollTD
  BY SMT DEF List
<1> USE DEF WellFormed, AddressOf, ListStart, Setup, In, StatusIn, StatusOut, TD
<1>2. WellFormed(UsbSetAddress, 1)
  BY DEF UsbSetAddress
<1>3. WellFormed(UsbGetDeviceDesc1, 2)
  BY DEF UsbGetDeviceDesc1
<1>4. WellFormed(UsbGetDeviceDesc2, 3)
  BY DEF UsbGetDeviceDesc2
<1>5. WellFormed(UsbGetConfigDesc1, 4)
  BY DEF UsbGetConfigDesc1
<1>6. WellFormed(UsbGetConfigDesc2, 5)
  BY DEF UsbGetConfigDesc2
<1>7. WellFormed(UsbSetConfig, 6)
  BY DEF UsbSetConfig
<1>8. WellFormed(UsbClassRequest, 7)
  BY DEF UsbClassRequest
<1>9. WellFormed(UsbGetHidDesc, 8)
  BY DEF UsbGetHidDesc
<1>10. WellFormed(UsbGetReportDesc, 9)
  BY DEF UsbGetReportDesc
<1>11. WellFormed(PollTD, 10)
  BY DEF PollTD
<1> HIDE DEF WellFormed
<1> QED
  BY <1>1, <1>2, <1>3, <1>4, <1>5, <1>6, <1>7, <1>8, <1>9, <1>10, <1>11

(* A TD is found by its address.                                           *)
LEMMA Places ==
  /\ ListStart # 0 /\ \A i \in Nat \ {0} : AddressOf(i) # 0
  /\ \A i, j \in Nat \ {0} : AddressOf(i) = AddressOf(j) => i = j
BY DEF AddressOf, ListStart

LEMMA Found ==
  ASSUME NEW s \in 1..Poll, NEW p, HasTD(s, p)
  PROVE  /\ Position(s, p) \in 1..Len(List(s)) /\ AddressOf(Position(s, p)) = p
         /\ \A i \in 1..Len(List(s)) : AddressOf(i) = p => Position(s, p) = i
<1>1. DOMAIN List(s) = 1..Len(List(s)) /\ Len(List(s)) \in Nat
  BY ListsWellFormed DEF WellFormed
<1>2. Position(s, p) \in 1..Len(List(s)) /\ AddressOf(Position(s, p)) = p
  BY <1>1 DEF HasTD, Position
<1> QED
  BY <1>1, <1>2, Places

LEMMA Starts == ListStart # 0 /\ \A s \in 1..Poll : HasTD(s, ListStart)
<1>1. ASSUME NEW s \in 1..Poll
      PROVE  HasTD(s, ListStart)
  <2>1. DOMAIN List(s) = 1..Len(List(s)) /\ Len(List(s)) \in Nat \ {0}
    BY ListsWellFormed DEF WellFormed
  <2>2. 1 \in DOMAIN List(s)
    BY <2>1
  <2> QED BY <2>2 DEF HasTD, AddressOf
<1> QED
  BY <1>1, Places

(***************************************************************************)
(* The firmware writes proper control transfers: every TD of the nine      *)
(* requests of usb.c is the stage that USB asks for at its place.          *)
(***************************************************************************)
THEOREM RequestsFit ==
  \A s \in 1..(Poll - 1) : \A i \in DOMAIN List(s) : Fits(s, AddressOf(i))
<1> SUFFICES ASSUME NEW s \in 1..(Poll - 1), NEW i \in DOMAIN List(s)
             PROVE  Fits(s, AddressOf(i))
  OBVIOUS
<1>1. /\ s \in 1..Poll /\ s # Poll /\ HasTD(s, AddressOf(i))
  BY DEF HasTD
<1>2. WellFormed(List(s), s) /\ i \in 1..Len(List(s)) /\ Len(List(s)) \in Nat
  BY <1>1, ListsWellFormed DEF WellFormed
<1>3. Position(s, AddressOf(i)) = i
  BY <1>1, <1>2, Found
<1>4. List(s)[i].next = 0 <=> i = Len(List(s))
  <2>1. List(s)[i].next = IF i = Len(List(s)) THEN 0 ELSE AddressOf(i + 1)
    BY <1>2 DEF WellFormed
  <2>2. AddressOf(i + 1) # 0
    BY <1>2, Places
  <2> QED BY <2>1, <2>2
<1>5. [pid |-> List(s)[i].pid, toggle |-> List(s)[i].toggle] = Expected(s, i)
  BY <1>1, <1>2 DEF WellFormed, Expected
<1> QED
  BY <1>1, <1>3, <1>4, <1>5 DEF Fits

-----------------------------------------------------------------------------
(***************************************************************************)
(* Where the firmware is: before the first request, between a list and its *)
(* answer, at work on an answer, at work on a report; and where it has     *)
(* given up the keyboard, so that another one may have been put in.        *)
(***************************************************************************)
Enumerating == {"sie1_init", "sie1_ack", "bus_reset", "reset_ack", "probe", "no_device"}
UnderWay == {"status", "resubmit", "usleep"}
Retrying == {"retry_read", "retry_clear", "retry_wait"}
Answered == {"control", "wait_read", "wait_clear"} \cup Retrying
Polling == {"read_lo", "read_hi", "look", "removed"}
Restarting == {"removed", "USB_HOT_PLUG"}

(* The TD that runs lies on the list that was loaded.                      *)
TypeInv ==
  /\ pc \in {"USB_HOT_PLUG", "submit"} \cup Enumerating \cup UnderWay \cup Answered \cup Polling
  /\ step \in 1..Poll /\ loaded \in 1..Poll
  /\ toggle \in {0, 1} /\ dtoggle \in {0, 1}
  /\ addr \in {0, 2} /\ (~attached => addr = 0 /\ ~configured)
  /\ msg \in {"none", "done"} /\ control \in {"armed", "ok", "retried"}
  /\ ptr = 0 \/ HasTD(loaded, ptr)

(* Which request is under way, at each place of the program.               *)
FlowInv ==
  /\ pc \in Enumerating => step = SetAddress
  /\ pc \in {"control"} \cup Retrying => step # Poll
  /\ pc \in Polling => step = Poll
  /\ pc \in UnderWay \cup Answered \cup Polling => loaded = step
  /\ pc = "submit" => step \in {SetAddress, loaded + 1} \/ (step = Poll /\ loaded = Poll)

(***************************************************************************)
(* The handshake. A list that runs has no answer yet, and there is one     *)
(* answer for each list: when the firmware has taken it, nothing is        *)
(* running and no message or flag is left, so that the next one is the     *)
(* answer to the next list. That, and the rest, holds until a list is      *)
(* loaded over its answer.                                                 *)
(***************************************************************************)
MessageInv == ~Doubled =>
  /\ pc \in UnderWay => IF ptr = 0 THEN msg = "done" /\ sie1msg ELSE msg = "none" /\ ~sie1msg
  /\ pc = "wait_read" => ptr = 0 /\ msg = "done"
  /\ pc = "wait_clear" => ptr = 0 /\ val = "done" /\ ~sie1msg
  /\ pc \in Enumerating \cup Polling \cup {"USB_HOT_PLUG", "submit", "control", "retry_read"}
       => ptr = 0 /\ msg = "none" /\ ~sie1msg
  /\ pc \notin {"retry_clear", "retry_wait"}

(* A command may still be pending when the first list is loaded, for the   *)
(* bus reset is not waited for; that list then has not begun.              *)
CommandInv == ~Doubled /\ cmd # "none" =>
  \/ pc \in Enumerating \cup {"USB_HOT_PLUG"}
  \/ step = SetAddress /\ (pc = "submit" \/ (pc \in UnderWay /\ ptr = ListStart))

(* A first TD that went well shows that the keyboard listens at address 2. *)
AddressInv == ~Doubled /\ attached /\ pc \notin Restarting =>
  (step >= 3 \/ (step = 2 /\ loaded = 2 /\ control = "ok") => addr = 2)

(* The answer to SetConfig, if its status stage did not fail unseen,       *)
(* leaves it configured.                                                   *)
ConfigInv == ~Doubled /\ "hidden" \notin upset /\ attached /\ pc \notin Restarting =>
  (step > SetConfig \/ (step = SetConfig /\ loaded = SetConfig /\ ptr = 0 /\ control = "ok")
     => configured)

(* A poll that is answered turns both toggles, one that fails only the     *)
(* firmware's.                                                             *)
ToggleInv == ~Doubled /\ loaded = Poll /\ Polled =>
  /\ ptr # 0 => ((1 - toggle = dtoggle) <=> agree)
  /\ ptr = 0 /\ step = Poll => ((toggle = dtoggle) <=> agree)

(* A list of three TDs covers both words at which reports arrive, and only *)
(* a poll writes them after that: they hold the report delivered last.     *)
BufferInv == loaded \in 2..(Poll - 1) => buf = <<"td", "td">>
ReportInv == ~Doubled =>
  /\ step # Poll \/ loaded # Poll => last = "td"
  /\ step = Poll /\ loaded = Poll => buf = <<last, last>>
  /\ pc = "read_hi" => lo = last

UsbInv ==
  /\ TypeInv /\ FlowInv /\ MessageInv /\ CommandInv
  /\ AddressInv /\ ConfigInv /\ ToggleInv /\ BufferInv /\ ReportInv

-----------------------------------------------------------------------------
(***************************************************************************)
(* What the TD that runs may be.                                           *)
(***************************************************************************)
LEMMA ThisTDIs ==
  ASSUME TypeInv, ptr # 0
  PROVE  /\ ThisTD.next = 0 \/ HasTD(loaded, ThisTD.next)
         /\ loaded # Poll => (ThisTD.pid = "SETUP" <=> ptr = ListStart)
         /\ loaded # Poll /\ ptr = ListStart => ThisTD.next \notin {0, ListStart}
         /\ loaded \notin {SetAddress, Poll} => ThisTD.dev = 2
<1> DEFINE i == Position(loaded, ptr)
           n == Len(List(loaded))
<1>1. loaded \in 1..Poll /\ HasTD(loaded, ptr)
  BY DEF TypeInv
<1>2. /\ i \in 1..n /\ AddressOf(i) = ptr /\ n \in Nat /\ ThisTD = List(loaded)[i]
      /\ DOMAIN List(loaded) = 1..n
  <2>1. i \in 1..n /\ AddressOf(i) = ptr
    BY <1>1, Found
  <2>2. n \in Nat /\ DOMAIN List(loaded) = 1..n
    BY <1>1, ListsWellFormed DEF WellFormed
  <2> QED BY <2>1, <2>2 DEF ThisTD
<1>3. /\ ThisTD.next = IF i = n THEN 0 ELSE AddressOf(i + 1)
      /\ loaded # Poll => n > 1
      /\ loaded \notin {SetAddress, Poll} => ThisTD.dev = 2
  BY <1>1, <1>2, ListsWellFormed DEF WellFormed
<1>4. ptr = ListStart <=> i = 1
  <2>1. AddressOf(1) = ListStart /\ i \in Nat \ {0} /\ 1 \in Nat \ {0}
    BY <1>2 DEF AddressOf
  <2> QED BY <1>2, <2>1, Places
<1> HIDE DEF i, n
<1>5. ThisTD.next = 0 \/ HasTD(loaded, ThisTD.next)
  <2>1. i # n => i + 1 \in DOMAIN List(loaded)
    BY <1>2
  <2> QED BY <1>3, <2>1 DEF HasTD
<1>6. loaded # Poll => (ThisTD.pid = "SETUP" <=> i = 1)
  BY <1>1, <1>2, ListsWellFormed DEF WellFormed, n
<1>7. i = 1 => AddressOf(i + 1) \notin {0, ListStart}
  BY DEF AddressOf, ListStart
<1> QED
  BY <1>3, <1>4, <1>5, <1>6, <1>7

(***************************************************************************)
(* Each part of the invariant is kept: by the steps of the firmware, of    *)
(* the controller, and of the keyboard and the hands on it.                *)
(***************************************************************************)
LEMMA TypeStep == UsbInv /\ [Next]_vars => TypeInv'
<1> SUFFICES ASSUME UsbInv, [Next]_vars PROVE TypeInv'
  OBVIOUS
<1>0. TypeInv /\ FlowInv
  BY DEF UsbInv
<1> USE <1>0 DEF TypeInv, FlowInv, Doubled, Enumerating, UnderWay, Retrying, Answered,
             Polling, Restarting, At, Goto, main, chip, mailbox, lists, message,
             keyboard, history
<1>1. CASE UsbSoftReset
  BY <1>1 DEF UsbSoftReset
<1>2. CASE Sie1Init \/ BusReset
  BY <1>2 DEF Sie1Init, BusReset, Command
<1>3. CASE Sie1Ack \/ ResetAck
  BY <1>3 DEF Sie1Ack, ResetAck, Acknowledge
<1>4. CASE Probe \/ NoDevice \/ Look \/ Removed
  BY <1>4 DEF Probe, NoDevice, Look, Removed, Port
<1>5. CASE Submit
  BY <1>5, Starts DEF Submit, Load
<1>6. CASE Status \/ Usleep
  BY <1>6 DEF Status, Usleep
<1>7. CASE Resubmit
  BY <1>7, Starts DEF Resubmit, Load
<1>8. CASE WaitRead \/ WaitClear
  BY <1>8 DEF WaitRead, WaitClear
<1>9. CASE Control
  BY <1>9 DEF Control
<1>10. CASE UsbGetRetryCnt
  BY <1>10 DEF UsbGetRetryCnt
<1>11. CASE ReadLow \/ ReadHigh
  BY <1>11 DEF ReadLow, ReadHigh
<1>12. CASE ChipCommand
  BY <1>12 DEF ChipCommand
<1>13. CASE ChipTransfer
  BY <1>13, ThisTDIs DEF ChipTransfer, Runs, Reachable, ListDone
<1>14. CASE ChipRetries
  BY <1>14, ThisTDIs DEF ChipRetries, Runs, Reachable
<1>15. CASE ChipFails
  BY <1>15, ThisTDIs DEF ChipFails, Runs, ListDone, Upset
<1>16. CASE ChipPoll
  BY <1>16 DEF ChipPoll, Runs, ListDone
<1>17. CASE ChipPollFails
  BY <1>17 DEF ChipPollFails, Runs, ListDone, Upset
<1>18. CASE Unplug \/ Plug \/ Press
  BY <1>18 DEF Unplug, Plug, Press, Hands
<1>19. CASE UNCHANGED vars
  BY <1>19 DEF vars
<1> QED
  BY <1>1, <1>2, <1>3, <1>4, <1>5, <1>6, <1>7, <1>8, <1>9, <1>10, <1>11, <1>12, <1>13,
     <1>14, <1>15, <1>16, <1>17, <1>18, <1>19
  DEF Next, Firmware, Chip

LEMMA FlowStep == UsbInv /\ [Next]_vars => FlowInv'
<1> SUFFICES ASSUME UsbInv, [Next]_vars PROVE FlowInv'
  OBVIOUS
<1>0. TypeInv /\ FlowInv
  BY DEF UsbInv
<1> USE <1>0 DEF TypeInv, FlowInv, Doubled, Enumerating, UnderWay, Retrying, Answered,
             Polling, Restarting, At, Goto, main, chip, mailbox, lists, message,
             keyboard, history
<1>1. CASE UsbSoftReset
  BY <1>1 DEF UsbSoftReset
<1>2. CASE Sie1Init \/ BusReset
  BY <1>2 DEF Sie1Init, BusReset, Command
<1>3. CASE Sie1Ack \/ ResetAck
  BY <1>3 DEF Sie1Ack, ResetAck, Acknowledge
<1>4. CASE Probe \/ NoDevice \/ Look \/ Removed
  BY <1>4 DEF Probe, NoDevice, Look, Removed, Port
<1>5. CASE Submit
  BY <1>5, Starts DEF Submit, Load
<1>6. CASE Status \/ Usleep
  BY <1>6 DEF Status, Usleep
<1>7. CASE Resubmit
  BY <1>7, Starts DEF Resubmit, Load
<1>8. CASE WaitRead \/ WaitClear
  BY <1>8 DEF WaitRead, WaitClear
<1>9. CASE Control
  BY <1>9 DEF Control
<1>10. CASE UsbGetRetryCnt
  BY <1>10 DEF UsbGetRetryCnt
<1>11. CASE ReadLow \/ ReadHigh
  BY <1>11 DEF ReadLow, ReadHigh
<1>12. CASE Chip \/ Unplug \/ Plug \/ Press \/ UNCHANGED vars
  <2>1. UNCHANGED <<pc, step, loaded>>
    BY <1>12 DEF Chip, ChipCommand, ChipTransfer, ChipRetries, ChipFails, ChipPoll,
         ChipPollFails, Runs, Unplug, Plug, Press, Hands, vars
  <2> QED BY <2>1
<1> QED
  BY <1>1, <1>2, <1>3, <1>4, <1>5, <1>6, <1>7, <1>8, <1>9, <1>10, <1>11, <1>12
  DEF Next, Firmware

(* A list is loaded when none runs, and its answer taken before the next.  *)
LEMMA MessageStep == UsbInv /\ [Next]_vars => MessageInv'
<1> SUFFICES ASSUME UsbInv, [Next]_vars PROVE MessageInv'
  OBVIOUS
<1>0. TypeInv /\ FlowInv /\ MessageInv
  BY DEF UsbInv
<1> USE <1>0 DEF TypeInv, FlowInv, MessageInv, Doubled, Enumerating, UnderWay,
             Retrying, Answered, Polling, Restarting, At, Goto, main, chip, mailbox,
             lists, message, keyboard, history
<1>1. CASE UsbSoftReset
  BY <1>1 DEF UsbSoftReset
<1>2. CASE Sie1Init \/ BusReset
  BY <1>2 DEF Sie1Init, BusReset, Command
<1>3. CASE Sie1Ack \/ ResetAck
  BY <1>3 DEF Sie1Ack, ResetAck, Acknowledge
<1>4. CASE Probe \/ NoDevice \/ Look \/ Removed
  BY <1>4 DEF Probe, NoDevice, Look, Removed, Port
<1>5. CASE Submit
  BY <1>5, Starts DEF Submit, Load
<1>6. CASE Status \/ Usleep
  BY <1>6 DEF Status, Usleep
<1>7. CASE Resubmit
  BY <1>7, Starts DEF Resubmit, Load
<1>8. CASE WaitRead \/ WaitClear
  BY <1>8 DEF WaitRead, WaitClear
<1>9. CASE Control
  BY <1>9 DEF Control
<1>10. CASE UsbGetRetryCnt
  BY <1>10 DEF UsbGetRetryCnt
<1>11. CASE ReadLow \/ ReadHigh
  BY <1>11 DEF ReadLow, ReadHigh
<1>12. CASE ChipCommand
  BY <1>12 DEF ChipCommand
<1>13. CASE ChipTransfer
  BY <1>13, ThisTDIs DEF ChipTransfer, Runs, Reachable, ListDone
<1>14. CASE ChipRetries
  BY <1>14, ThisTDIs DEF ChipRetries, Runs, Reachable
<1>15. CASE ChipFails
  BY <1>15, ThisTDIs DEF ChipFails, Runs, ListDone, Upset
<1>16. CASE ChipPoll
  BY <1>16 DEF ChipPoll, Runs, ListDone
<1>17. CASE ChipPollFails
  BY <1>17 DEF ChipPollFails, Runs, ListDone, Upset
<1>18. CASE Unplug \/ Plug \/ Press
  BY <1>18 DEF Unplug, Plug, Press, Hands
<1>19. CASE UNCHANGED vars
  BY <1>19 DEF vars
<1> QED
  BY <1>1, <1>2, <1>3, <1>4, <1>5, <1>6, <1>7, <1>8, <1>9, <1>10, <1>11, <1>12, <1>13,
     <1>14, <1>15, <1>16, <1>17, <1>18, <1>19
  DEF Next, Firmware, Chip

(* The reset of the bus is over before the keyboard has an address.        *)
LEMMA CommandStep == UsbInv /\ [Next]_vars => CommandInv'
<1> SUFFICES ASSUME UsbInv, [Next]_vars PROVE CommandInv'
  OBVIOUS
<1>0. TypeInv /\ FlowInv /\ MessageInv /\ CommandInv
  BY DEF UsbInv
<1> USE <1>0 DEF TypeInv, FlowInv, MessageInv, CommandInv, Doubled, Enumerating,
             UnderWay, Retrying, Answered, Polling, Restarting, At, Goto, main, chip,
             mailbox, lists, message, keyboard, history
<1>1. CASE UsbSoftReset
  BY <1>1 DEF UsbSoftReset
<1>2. CASE Sie1Init \/ BusReset
  BY <1>2 DEF Sie1Init, BusReset, Command
<1>3. CASE Sie1Ack \/ ResetAck
  BY <1>3 DEF Sie1Ack, ResetAck, Acknowledge
<1>4. CASE Probe \/ NoDevice \/ Look \/ Removed
  BY <1>4 DEF Probe, NoDevice, Look, Removed, Port
<1>5. CASE Submit
  BY <1>5, Starts DEF Submit, Load
<1>6. CASE Status \/ Usleep
  BY <1>6, Starts DEF Status, Usleep
<1>7. CASE Resubmit
  BY <1>7, Starts DEF Resubmit, Load
<1>8. CASE WaitRead \/ WaitClear
  BY <1>8 DEF WaitRead, WaitClear
<1>9. CASE Control
  BY <1>9 DEF Control
<1>10. CASE UsbGetRetryCnt
  BY <1>10 DEF UsbGetRetryCnt
<1>11. CASE ReadLow \/ ReadHigh
  BY <1>11 DEF ReadLow, ReadHigh
<1>12. CASE ChipCommand
  BY <1>12 DEF ChipCommand
<1>13. CASE ChipTransfer
  BY <1>13, ThisTDIs DEF ChipTransfer, Runs, Reachable, ListDone
<1>14. CASE ChipRetries
  BY <1>14, ThisTDIs DEF ChipRetries, Runs, Reachable
<1>15. CASE ChipFails
  BY <1>15, ThisTDIs DEF ChipFails, Runs, ListDone, Upset
<1>16. CASE ChipPoll
  BY <1>16 DEF ChipPoll, Runs, ListDone
<1>17. CASE ChipPollFails
  BY <1>17 DEF ChipPollFails, Runs, ListDone, Upset
<1>18. CASE Unplug \/ Plug \/ Press
  BY <1>18 DEF Unplug, Plug, Press, Hands
<1>19. CASE UNCHANGED vars
  BY <1>19 DEF vars
<1> QED
  BY <1>1, <1>2, <1>3, <1>4, <1>5, <1>6, <1>7, <1>8, <1>9, <1>10, <1>11, <1>12, <1>13,
     <1>14, <1>15, <1>16, <1>17, <1>18, <1>19
  DEF Next, Firmware, Chip

(* Only the reset takes the address away, and a keyboard that is pulled    *)
(* out.                                                                    *)
LEMMA AddressStep == UsbInv /\ [Next]_vars => AddressInv'
<1> SUFFICES ASSUME UsbInv, [Next]_vars PROVE AddressInv'
  OBVIOUS
<1>0. TypeInv /\ FlowInv /\ MessageInv /\ CommandInv /\ AddressInv
  BY DEF UsbInv
<1> USE <1>0 DEF TypeInv, FlowInv, MessageInv, CommandInv, AddressInv, Doubled,
             Enumerating, UnderWay, Retrying, Answered, Polling, Restarting, At, Goto,
             main, chip, mailbox, lists, message, keyboard, history
<1>1. CASE UsbSoftReset
  BY <1>1 DEF UsbSoftReset
<1>2. CASE Sie1Init \/ BusReset
  BY <1>2 DEF Sie1Init, BusReset, Command
<1>3. CASE Sie1Ack \/ ResetAck
  BY <1>3 DEF Sie1Ack, ResetAck, Acknowledge
<1>4. CASE Probe \/ NoDevice \/ Look \/ Removed
  BY <1>4 DEF Probe, NoDevice, Look, Removed, Port
<1>5. CASE Submit
  BY <1>5, Starts DEF Submit, Load
<1>6. CASE Status \/ Usleep
  BY <1>6 DEF Status, Usleep
<1>7. CASE Resubmit
  BY <1>7, Starts DEF Resubmit, Load
<1>8. CASE WaitRead \/ WaitClear
  BY <1>8 DEF WaitRead, WaitClear
<1>9. CASE Control
  BY <1>9 DEF Control
<1>10. CASE UsbGetRetryCnt
  BY <1>10 DEF UsbGetRetryCnt
<1>11. CASE ReadLow \/ ReadHigh
  BY <1>11 DEF ReadLow, ReadHigh
<1>12. CASE ChipCommand
  BY <1>12 DEF ChipCommand
<1>13. CASE ChipTransfer
  BY <1>13, ThisTDIs DEF ChipTransfer, Runs, Reachable, ListDone
<1>14. CASE ChipRetries
  BY <1>14, ThisTDIs DEF ChipRetries, Runs, Reachable
<1>15. CASE ChipFails
  BY <1>15, ThisTDIs DEF ChipFails, Runs, ListDone, Upset
<1>16. CASE ChipPoll
  BY <1>16 DEF ChipPoll, Runs, ListDone
<1>17. CASE ChipPollFails
  BY <1>17 DEF ChipPollFails, Runs, ListDone, Upset
<1>18. CASE Unplug \/ Plug \/ Press
  <2>1. UNCHANGED <<pc, step, loaded, control, ptr, cmd, msg, upset>>
    BY <1>18 DEF Unplug, Plug, Press, Hands
  <2>2. CASE Unplug
    BY <2>1, <2>2 DEF Unplug
  <2>3. CASE Plug
    BY <2>1, <2>3 DEF Plug
  <2>4. CASE Press
    BY <2>1, <2>4 DEF Press
  <2> QED BY <1>18, <2>2, <2>3, <2>4
<1>19. CASE UNCHANGED vars
  BY <1>19 DEF vars
<1> QED
  BY <1>1, <1>2, <1>3, <1>4, <1>5, <1>6, <1>7, <1>8, <1>9, <1>10, <1>11, <1>12, <1>13,
     <1>14, <1>15, <1>16, <1>17, <1>18, <1>19
  DEF Next, Firmware, Chip

(* A list that ends early leaves a trace: no 0x03, or the history knows.   *)
LEMMA ConfigStep == UsbInv /\ [Next]_vars => ConfigInv'
<1> SUFFICES ASSUME UsbInv, [Next]_vars PROVE ConfigInv'
  OBVIOUS
<1>0. TypeInv /\ FlowInv /\ MessageInv /\ CommandInv /\ ConfigInv
  BY DEF UsbInv
<1> USE <1>0 DEF TypeInv, FlowInv, MessageInv, CommandInv, ConfigInv, Doubled,
             Enumerating, UnderWay, Retrying, Answered, Polling, Restarting, At, Goto,
             main, chip, mailbox, lists, message, keyboard, history
<1>1. CASE UsbSoftReset
  BY <1>1 DEF UsbSoftReset
<1>2. CASE Sie1Init \/ BusReset
  BY <1>2 DEF Sie1Init, BusReset, Command
<1>3. CASE Sie1Ack \/ ResetAck
  BY <1>3 DEF Sie1Ack, ResetAck, Acknowledge
<1>4. CASE Probe \/ NoDevice \/ Look \/ Removed
  BY <1>4 DEF Probe, NoDevice, Look, Removed, Port
<1>5. CASE Submit
  BY <1>5, Starts DEF Submit, Load
<1>6. CASE Status \/ Usleep
  BY <1>6 DEF Status, Usleep
<1>7. CASE Resubmit
  BY <1>7, Starts DEF Resubmit, Load
<1>8. CASE WaitRead \/ WaitClear
  BY <1>8 DEF WaitRead, WaitClear
<1>9. CASE Control
  BY <1>9 DEF Control
<1>10. CASE UsbGetRetryCnt
  BY <1>10 DEF UsbGetRetryCnt
<1>11. CASE ReadLow \/ ReadHigh
  BY <1>11 DEF ReadLow, ReadHigh
<1>12. CASE ChipCommand
  BY <1>12 DEF ChipCommand
<1>13. CASE ChipTransfer
  BY <1>13, ThisTDIs DEF ChipTransfer, Runs, Reachable, ListDone
<1>14. CASE ChipRetries
  BY <1>14, ThisTDIs DEF ChipRetries, Runs, Reachable
<1>15. CASE ChipFails
  BY <1>15, ThisTDIs DEF ChipFails, Runs, ListDone, Upset
<1>16. CASE ChipPoll
  BY <1>16 DEF ChipPoll, Runs, ListDone
<1>17. CASE ChipPollFails
  BY <1>17 DEF ChipPollFails, Runs, ListDone, Upset
<1>18. CASE Unplug \/ Plug \/ Press
  <2>1. UNCHANGED <<pc, step, loaded, control, ptr, cmd, msg, upset>>
    BY <1>18 DEF Unplug, Plug, Press, Hands
  <2>2. CASE Unplug
    BY <2>1, <2>2 DEF Unplug
  <2>3. CASE Plug
    BY <2>1, <2>3 DEF Plug
  <2>4. CASE Press
    BY <2>1, <2>4 DEF Press
  <2> QED BY <1>18, <2>2, <2>3, <2>4
<1>19. CASE UNCHANGED vars
  BY <1>19 DEF vars
<1> QED
  BY <1>1, <1>2, <1>3, <1>4, <1>5, <1>6, <1>7, <1>8, <1>9, <1>10, <1>11, <1>12, <1>13,
     <1>14, <1>15, <1>16, <1>17, <1>18, <1>19
  DEF Next, Firmware, Chip

(* Submit turns the toggle when no poll runs, the keyboard when one does.  *)
LEMMA ToggleStep == UsbInv /\ [Next]_vars => ToggleInv'
<1> SUFFICES ASSUME UsbInv, [Next]_vars PROVE ToggleInv'
  OBVIOUS
<1>0. TypeInv /\ FlowInv /\ MessageInv /\ CommandInv /\ ToggleInv
  BY DEF UsbInv
<1> USE <1>0 DEF TypeInv, FlowInv, MessageInv, CommandInv, ToggleInv, Doubled,
             Enumerating, UnderWay, Retrying, Answered, Polling, Restarting, At, Goto,
             main, chip, mailbox, lists, message, keyboard, history, Polled
<1>1. CASE UsbSoftReset
  BY <1>1 DEF UsbSoftReset
<1>2. CASE Sie1Init \/ BusReset
  BY <1>2 DEF Sie1Init, BusReset, Command
<1>3. CASE Sie1Ack \/ ResetAck
  BY <1>3 DEF Sie1Ack, ResetAck, Acknowledge
<1>4. CASE Probe \/ NoDevice \/ Look \/ Removed
  BY <1>4 DEF Probe, NoDevice, Look, Removed, Port
<1>5. CASE Submit
  <2>1. ptr' # 0 /\ loaded' = step /\ step' = step /\ dtoggle' = dtoggle /\ upset' = upset
        /\ UNCHANGED <<attached, addr, configured>>
    BY <1>5, Starts DEF Submit, Load
  <2>2. CASE step # Poll
    BY <2>1, <2>2
  <2>3. CASE step = Poll /\ loaded # Poll /\ ~Doubled
    <3>1. agree' = (1 - toggle' = dtoggle)
      BY <1>5, <2>3 DEF Submit
    <3> QED BY <2>1, <3>1
  <2>4. CASE step = Poll /\ loaded = Poll /\ ~Doubled
    <3>1. toggle' = 1 - toggle /\ agree' = agree /\ ptr = 0
      BY <1>5, <2>4 DEF Submit
    <3>2. 1 - toggle' = toggle
      BY <3>1
    <3> QED BY <2>1, <2>4, <3>1, <3>2
  <2>5. CASE Doubled
    BY <2>1, <2>5
  <2> QED BY <2>2, <2>3, <2>4, <2>5
<1>6. CASE Status \/ Usleep
  BY <1>6 DEF Status, Usleep
<1>7. CASE Resubmit
  BY <1>7, Starts DEF Resubmit, Load
<1>8. CASE WaitRead \/ WaitClear
  BY <1>8 DEF WaitRead, WaitClear
<1>9. CASE Control
  BY <1>9 DEF Control
<1>10. CASE UsbGetRetryCnt
  BY <1>10 DEF UsbGetRetryCnt
<1>11. CASE ReadLow \/ ReadHigh
  BY <1>11 DEF ReadLow, ReadHigh
<1>12. CASE ChipCommand
  BY <1>12 DEF ChipCommand
<1>13. CASE ChipTransfer
  BY <1>13, ThisTDIs DEF ChipTransfer, Runs, Reachable, ListDone
<1>14. CASE ChipRetries
  BY <1>14, ThisTDIs DEF ChipRetries, Runs, Reachable
<1>15. CASE ChipFails
  BY <1>15, ThisTDIs DEF ChipFails, Runs, ListDone, Upset
<1>16. CASE ChipPoll
  BY <1>16 DEF ChipPoll, Runs, ListDone
<1>17. CASE ChipPollFails
  <2>1. /\ ptr # 0 /\ ptr' = 0 /\ loaded = Poll
        /\ UNCHANGED <<attached, addr, configured, toggle, dtoggle, step>>
        /\ Doubled' = Doubled
        /\ ~Doubled => agree' = ~agree
    BY <1>17 DEF ChipPollFails, Runs, ListDone, Upset
  <2>2. (1 - toggle = dtoggle) <=> ~(toggle = dtoggle)
    OBVIOUS
  <2> QED BY <2>1, <2>2
<1>18. CASE Unplug \/ Plug \/ Press
  BY <1>18 DEF Unplug, Plug, Press, Hands
<1>19. CASE UNCHANGED vars
  BY <1>19 DEF vars
<1> QED
  BY <1>1, <1>2, <1>3, <1>4, <1>5, <1>6, <1>7, <1>8, <1>9, <1>10, <1>11, <1>12, <1>13,
     <1>14, <1>15, <1>16, <1>17, <1>18, <1>19
  DEF Next, Firmware, Chip

(* The words of a list lie there from the second request on.               *)
LEMMA BufferStep == UsbInv /\ [Next]_vars => BufferInv'
<1> SUFFICES ASSUME UsbInv, [Next]_vars PROVE BufferInv'
  OBVIOUS
<1>0. TypeInv /\ FlowInv /\ BufferInv
  BY DEF UsbInv
<1> USE <1>0 DEF TypeInv, FlowInv, BufferInv, UnderWay, At, Goto, main, chip,
             mailbox, lists, message, keyboard, history
<1>1. CASE Submit \/ Resubmit
  <2>1. Len(List(2)) > 2
    <3>1. List(2) = UsbGetDeviceDesc1
      BY SMT DEF List
    <3> QED BY <3>1 DEF UsbGetDeviceDesc1
  <2>2. Load /\ loaded' = step
    BY <1>1 DEF Submit, Resubmit, Load
  <2>3. CASE step = 2
    BY <2>1, <2>2, <2>3 DEF Load
  <2>4. CASE step \in 3..(Poll - 1)
    <3>1. loaded \in 2..(Poll - 1)
      BY <1>1, <2>4 DEF Submit, Resubmit
    <3> QED BY <2>2, <2>4, <3>1 DEF Load
  <2> QED BY <2>2, <2>3, <2>4
<1>2. CASE ChipPoll
  BY <1>2 DEF ChipPoll, Runs
<1>3. CASE UNCHANGED <<loaded, buf>>
  BY <1>3
<1> QED
  BY <1>1, <1>2, <1>3
  DEF Next, Firmware, Chip, UsbSoftReset, Sie1Init, Sie1Ack, BusReset, ResetAck, Command,
      Acknowledge, Probe, NoDevice, Look, Removed, Port, Status, Usleep, WaitRead, WaitClear,
      Control, UsbGetRetryCnt, ReadLow, ReadHigh, ChipCommand, ChipTransfer, ChipRetries,
      ChipFails, ChipPollFails, Runs, Unplug, Plug, Press, Hands, vars

(* The words are written when a poll ends, and no poll runs while they are *)
(* read.                                                                   *)
LEMMA ReportStep == UsbInv /\ [Next]_vars => ReportInv'
<1> SUFFICES ASSUME UsbInv, [Next]_vars PROVE ReportInv'
  OBVIOUS
<1>0. TypeInv /\ FlowInv /\ MessageInv /\ BufferInv /\ ReportInv
  BY DEF UsbInv
<1> USE <1>0 DEF TypeInv, FlowInv, MessageInv, BufferInv, ReportInv, Doubled, Enumerating,
             UnderWay, Retrying, Answered, Polling, Restarting, At, Goto, main, chip,
             mailbox, lists, message, keyboard, history
<1>1. CASE UsbSoftReset
  BY <1>1 DEF UsbSoftReset
<1>2. CASE Sie1Init \/ BusReset
  BY <1>2 DEF Sie1Init, BusReset, Command
<1>3. CASE Sie1Ack \/ ResetAck
  BY <1>3 DEF Sie1Ack, ResetAck, Acknowledge
<1>4. CASE Probe \/ NoDevice \/ Look \/ Removed
  BY <1>4 DEF Probe, NoDevice, Look, Removed, Port
<1>5. CASE Submit
  BY <1>5, Starts DEF Submit, Load
<1>6. CASE Status \/ Usleep
  BY <1>6 DEF Status, Usleep
<1>7. CASE Resubmit
  BY <1>7, Starts DEF Resubmit, Load
<1>8. CASE WaitRead \/ WaitClear
  BY <1>8 DEF WaitRead, WaitClear
<1>9. CASE Control
  BY <1>9 DEF Control
<1>10. CASE UsbGetRetryCnt
  BY <1>10 DEF UsbGetRetryCnt
<1>11. CASE ReadLow \/ ReadHigh
  BY <1>11 DEF ReadLow, ReadHigh
<1>12. CASE ChipCommand
  BY <1>12 DEF ChipCommand
<1>13. CASE ChipTransfer
  BY <1>13, ThisTDIs DEF ChipTransfer, Runs, Reachable, ListDone
<1>14. CASE ChipRetries
  BY <1>14, ThisTDIs DEF ChipRetries, Runs, Reachable
<1>15. CASE ChipFails
  BY <1>15, ThisTDIs DEF ChipFails, Runs, ListDone, Upset
<1>16. CASE ChipPoll
  BY <1>16 DEF ChipPoll, Runs, ListDone
<1>17. CASE ChipPollFails
  BY <1>17 DEF ChipPollFails, Runs, ListDone, Upset
<1>18. CASE Unplug \/ Plug \/ Press
  BY <1>18 DEF Unplug, Plug, Press, Hands
<1>19. CASE UNCHANGED vars
  BY <1>19 DEF vars
<1> QED
  BY <1>1, <1>2, <1>3, <1>4, <1>5, <1>6, <1>7, <1>8, <1>9, <1>10, <1>11, <1>12, <1>13,
     <1>14, <1>15, <1>16, <1>17, <1>18, <1>19
  DEF Next, Firmware, Chip

-----------------------------------------------------------------------------
(***************************************************************************)
(* Firmware, controller and keyboard agree on what is under way.           *)
(***************************************************************************)
THEOREM UsbInvariant == Spec => []UsbInv
<1>1. Init => UsbInv
  BY DEF Init, UsbInv, TypeInv, FlowInv, MessageInv, CommandInv, AddressInv, ConfigInv,
         ToggleInv, BufferInv, ReportInv, Doubled, Enumerating, UnderWay, Retrying, Answered, Polling,
         Restarting
<1>2. UsbInv /\ [Next]_vars => UsbInv'
  BY TypeStep, FlowStep, MessageStep, CommandStep, AddressStep, ConfigStep, ToggleStep,
     BufferStep, ReportStep DEF UsbInv
<1> QED
  BY <1>1, <1>2, PTL DEF Spec

(***************************************************************************)
(* Whatever list runs, at whatever TD of it, the data it fetches do not    *)
(* lie on the list: also of one that was loaded over its own answer.       *)
(***************************************************************************)
THEOREM ListsAreUntouched == Spec => []ListUntouched
<1>1. UsbInv => ListUntouched
  <2> SUFFICES ASSUME UsbInv, ptr # 0 PROVE ~Tramples(loaded, ptr)
    BY DEF ListUntouched
  <2>1. loaded \in 1..Poll /\ HasTD(loaded, ptr)
    BY DEF UsbInv, TypeInv
  <2>2. WellFormed(List(loaded), loaded) /\ Position(loaded, ptr) \in 1..Len(List(loaded))
    BY <2>1, Found, ListsWellFormed
  <2> QED BY <2>2 DEF Tramples, EndOf, WellFormed
<1> QED
  BY <1>1, UsbInvariant, PTL

(***************************************************************************)
(* UsbWaitTDListDone waits only for a message that comes.                  *)
(***************************************************************************)
THEOREM FirmwareIsNeverStuck == Spec => []NeverStuck
<1>1. UsbInv => NeverStuck
  BY DEF UsbInv, MessageInv, NeverStuck, Waiting, Doubled
<1> QED
  BY <1>1, UsbInvariant, PTL

(***************************************************************************)
(* The polling loop of main is reached with a keyboard that has its        *)
(* address, and is configured unless the status stage of SetConfig failed. *)
(***************************************************************************)
THEOREM PolledKeyboardIsConfigured == Spec => []PollsConfigured
<1>1. UsbInv => PollsConfigured
  BY DEF UsbInv, AddressInv, ConfigInv, PollsConfigured, Polled, Doubled, Restarting
<1> QED
  BY <1>1, UsbInvariant, PTL

(***************************************************************************)
(* The toggle that main counts is the keyboard's, after any number of      *)
(* polls, answers and polls loaded again.                                  *)
(***************************************************************************)
THEOREM PollTogglesAreInStep == Spec => []TogglesInStep
<1>1. UsbInv => TogglesInStep
  BY DEF UsbInv, ToggleInv, TogglesInStep
<1> QED
  BY <1>1, UsbInvariant, PTL

(***************************************************************************)
(* The register that the game reads gets whole reports, the last one each  *)
(* time, although the firmware reads a report in two transactions and does *)
(* not look whether a poll succeeded; words of a transfer list before the  *)
(* first report only.                                                      *)
(***************************************************************************)
THEOREM KeycodeIsWhole == Spec => KeycodeWhole
<1>1. UsbInv /\ [Next]_vars => [pc = "read_hi" /\ ~Doubled => keycode' = last]_main
  <2> SUFFICES ASSUME UsbInv, [Next]_vars, main' # main, pc = "read_hi", ~Doubled
               PROVE  keycode' = last
    OBVIOUS
  <2>1. ReadHigh
    BY DEF vars, Next, Firmware, Chip, At, UsbSoftReset, Sie1Init, Sie1Ack, BusReset, ResetAck,
           Command, Acknowledge, Probe, NoDevice, Look, Removed, Port, Submit, Status, Resubmit,
           Usleep, WaitRead, WaitClear, Control, UsbGetRetryCnt, ReadLow, ChipCommand,
           ChipTransfer, ChipRetries, ChipFails, ChipPoll, ChipPollFails, Runs, Unplug, Plug,
           Press, Hands
  <2>2. lo = last /\ buf = <<last, last>>
    BY DEF UsbInv, FlowInv, ReportInv, Polling
  <2> QED BY <2>1, <2>2 DEF ReadHigh, Word
<1> QED
  BY <1>1, UsbInvariant, PTL DEF Spec, KeycodeWhole
=============================================================================
