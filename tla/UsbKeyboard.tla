---------------------------- MODULE UsbKeyboard -----------------------------
(***************************************************************************)
(* The keyboard firmware (main.c, usb.c) with the two things it talks to:   *)
(* the CY7C67200 controller, which runs the transfer lists on its own, and  *)
(* a keyboard that may be pulled out at any moment.                         *)
(*                                                                         *)
(* The firmware is a loop over HPI transactions; a step is one of them, or   *)
(* the run of writes that loads a list.  The controller answers between any  *)
(* two steps: it leaves HUSB_TDListDone in the SIE1 message register and     *)
(* raises a flag in HPI_STATUS, which reading the register clears.           *)
(*                                                                         *)
(* The controller and the keyboard are external and modelled from what the  *)
(* firmware relies on.                                                      *)
(***************************************************************************)
EXTENDS TransferLists

CONSTANTS
    Keys,            \* what may be pressed; one of them means nothing
    NoKey,
    PresenceTries,   \* the 5 re-reads of the port after the bus reset
    RemovalTries,    \* the 7 re-reads of the port in the polling loop
    MaxFaults        \* bound: transfers that fail or are slow

ASSUME KeysAssumption == NoKey \in Keys /\ {"td", "torn"} \cap Keys = {}
ASSUME CountsAssumption == /\ PresenceTries \in Nat /\ RemovalTries \in Nat
                           /\ MaxFaults \in Nat

VARIABLES
    pc, step, tries,  \* where main is; the request; re-reads of the port
    val, lo,          \* the message read last; the low half of the report
    toggle, keycode,  \* the toggle of the polls; the PIO register
    cmd, mbx,                    \* controller: command, mailbox
    msg, sie1msg,                \* controller: SIE1 message register, its flag
    loaded, ptr, control, buf,   \* controller: the list, the TD it runs, the
                                 \* word at 0x0508, the words at 0x051E, 0x0520
    attached, addr, configured, dtoggle,         \* keyboard
    keys, news,                  \* keyboard: keys down, an unread report
    faults,
    upset, agree, last           \* history: see below

main == <<pc, step, tries, val, lo, toggle, keycode>>
mailbox == <<cmd, mbx>>
lists == <<loaded, ptr, control, buf>>
message == <<msg, sie1msg>>
keyboard == <<attached, addr, configured, dtoggle, keys, news>>
history == <<upset, agree, last>>
chip == <<mailbox, lists, message>>
vars == <<main, chip, keyboard, faults, history>>

(* upset: since the last soft reset,                                         *)
(*   "doubled"  a list was loaded again although its answer was there;       *)
(*   "hidden"   the status stage of SetConfig failed, which nothing looks at. *)
(* agree: the toggles of firmware and keyboard agreed when polling began,    *)
(* turned round by each failed poll.  last: the report delivered last since  *)
(* then, and "td", the words of a transfer list, before the first.           *)

At(from) == pc = from
Goto(to) == pc' = to
(* Once a list was doubled the rest of the history tells nothing more. *)
Doubled == "doubled" \in upset
Upset(what) == upset' = IF Doubled THEN upset ELSE upset \cup {what}

-----------------------------------------------------------------------------
\* A slip: the enumeration is resumed at the request that failed.
UsbSoftReset_Resume ==
    /\ At("USB_HOT_PLUG")
    /\ cmd' = "none" /\ mbx' = "garbage"
    /\ msg' = "none" /\ sie1msg' = FALSE
    /\ ptr' = 0
    /\ upset' = {} /\ agree' = TRUE /\ last' = "td"
    /\ Goto("sie1_init")
    /\ UNCHANGED <<step, tries, val, lo, toggle, keycode, loaded, control,
                   buf, keyboard, faults>>

(* USB_HOT_PLUG: the controller is reset, whatever it was doing, and both     *)
(* message registers are read and cleared; the BIOS leaves garbage in the    *)
(* mailbox.                                                                  *)
UsbSoftReset ==
    /\ At("USB_HOT_PLUG")
    /\ cmd' = "none" /\ mbx' = "garbage"
    /\ msg' = "none" /\ sie1msg' = FALSE
    /\ ptr' = 0
    /\ step' = SetAddress
    /\ upset' = {} /\ agree' = TRUE /\ last' = "td"
    /\ Goto("sie1_init")
    /\ UNCHANGED <<tries, val, lo, toggle, keycode, loaded, control, buf,
                   keyboard, faults>>

(* Steps 1b and 2: a command to the controller, and its acknowledgement.     *)
Command(from, c, to) ==
    /\ At(from)
    /\ cmd' = c
    /\ Goto(to)
    /\ UNCHANGED <<step, tries, val, lo, toggle, keycode, mbx, lists, message,
                   keyboard, faults, history>>

Acknowledge(from, to) ==
    /\ At(from)
    /\ tries' = 0
    /\ Goto(IF mbx = "ack" THEN to ELSE "USB_HOT_PLUG")
    /\ UNCHANGED <<step, val, lo, toggle, keycode, cmd, mbx, lists, message,
                   keyboard, faults, history>>

Sie1Init == Command("sie1_init", "init", "sie1_ack")
(* The flags in HPI_STATUS: an acknowledgement is the mailbox's only message. *)
Sie1Ack == (mbx = "ack" \/ sie1msg) /\ Acknowledge("sie1_ack", "bus_reset")
BusReset == Command("bus_reset", "reset", "reset_ack")
(* No wait here: the ACK of step 1 may still be in the mailbox. *)
ResetAck == Acknowledge("reset_ack", "probe")

\* A slip: one look too many.
Port_Late(from, limit, present, absent) ==
    /\ At(from)
    /\ IF attached THEN Goto(present) /\ UNCHANGED tries
       ELSE IF tries <= limit THEN Goto(from) /\ tries' = tries + 1
       ELSE Goto(absent) /\ UNCHANGED tries
    /\ UNCHANGED <<step, val, lo, toggle, keycode, chip, keyboard, faults,
                   history>>

(* The port shows a device as long as D+ or D- is up. *)
Port(from, limit, present, absent) ==
    /\ At(from)
    /\ IF attached THEN Goto(present) /\ UNCHANGED tries
       ELSE IF tries < limit THEN Goto(from) /\ tries' = tries + 1
       ELSE Goto(absent) /\ UNCHANGED tries
    /\ UNCHANGED <<step, val, lo, toggle, keycode, chip, keyboard, faults,
                   history>>

Probe == Port("probe", PresenceTries, "submit", "no_device")
NoDevice == attached /\ Port("no_device", 0, "USB_HOT_PLUG", "no_device")

-----------------------------------------------------------------------------
(* Every request goes the same way.  Loading a list writes all its words and *)
(* then the pointer that starts it; the list covers 0x051E from its second   *)
(* TD on and 0x0520 from its third.                                          *)
Load ==
    /\ loaded' = step /\ ptr' = ListStart /\ control' = "armed"
    /\ buf' = IF step = Poll THEN buf
              ELSE <<"td", IF Len(List(step)) > 2 THEN "td" ELSE buf[2]>>

\* A slip: the toggle is not advanced from one poll to the next.
Submit_NoToggle ==
    /\ At("submit")
    /\ Load
    /\ Goto(IF step = ConfigDesc2 THEN "usleep" ELSE "status")
    /\ agree' = IF step = Poll /\ loaded # Poll THEN 1 - toggle = dtoggle ELSE agree
    /\ UNCHANGED <<step, tries, val, lo, toggle, keycode, mailbox, message,
                   keyboard, faults, upset, last>>

(* A poll advances the toggle; odd means DATA0.                              *)
Submit ==
    /\ At("submit")
    /\ Load
    /\ toggle' = IF step = Poll THEN 1 - toggle ELSE toggle
    /\ Goto(IF step = ConfigDesc2 THEN "usleep" ELSE "status")
    /\ agree' = IF step = Poll /\ loaded # Poll /\ ~Doubled
                THEN 1 - toggle' = dtoggle ELSE agree
    /\ UNCHANGED <<step, tries, val, lo, keycode, mailbox, message, keyboard,
                   faults, upset, last>>

(* while (!(IO_read(HPI_STATUS) & HPI_STATUS_SIE1msg_FLAG)) *)
Status ==
    /\ At("status")
    /\ Goto(IF sie1msg THEN "wait_read" ELSE "resubmit")
    /\ UNCHANGED <<step, tries, val, lo, toggle, keycode, chip, keyboard,
                   faults, history>>

(* The answer may have come since the status was read. *)
Resubmit ==
    /\ At("resubmit")
    /\ Load
    /\ IF sie1msg
       THEN upset' = {"doubled"} /\ agree' = TRUE /\ last' = "td"
       ELSE UNCHANGED history
    /\ Goto("usleep")
    /\ UNCHANGED <<step, tries, val, lo, toggle, keycode, mailbox, message,
                   keyboard, faults>>

(* 10 ms: what the keyboard does not hold back is done by then, or it is     *)
(* slow for once, which counts as a fault.                                   *)
Held == loaded = Poll /\ attached /\ configured /\ ~news
Usleep ==
    /\ At("usleep")
    /\ IF ptr = 0 \/ cmd # "none" \/ Held THEN UNCHANGED faults
       ELSE faults < MaxFaults /\ faults' = faults + 1
    /\ Goto("status")
    /\ UNCHANGED <<step, tries, val, lo, toggle, keycode, chip, keyboard,
                   history>>

(* UsbWaitTDListDone: the message is read in one transaction and cleared in  *)
(* the next.                                                                 *)
WaitRead ==
    /\ At("wait_read")
    /\ val' = msg
    /\ sie1msg' = FALSE
    /\ Goto("wait_clear")
    /\ UNCHANGED <<step, tries, lo, toggle, keycode, mailbox, lists, msg,
                   keyboard, faults, history>>

\* A slip: the loop goes on while the message is the one it waits for.
WaitClear_Again ==
    /\ At("wait_clear")
    /\ msg' = "none"
    /\ Goto(IF val = "done" THEN "wait_read"
            ELSE IF step = Poll THEN "read_lo" ELSE "control")
    /\ UNCHANGED <<step, tries, val, lo, toggle, keycode, mailbox, lists,
                   sie1msg, keyboard, faults, history>>

WaitClear ==
    /\ At("wait_clear")
    /\ msg' = "none"
    /\ Goto(IF val # "done" THEN "wait_read"
            ELSE IF step = Poll THEN "read_lo" ELSE "control")
    /\ UNCHANGED <<step, tries, val, lo, toggle, keycode, mailbox, lists,
                   sie1msg, keyboard, faults, history>>

\* A slip: the control byte is printed and not compared.
Control_Printed ==
    /\ At("control")
    /\ step' = step + 1 /\ Goto("submit")
    /\ UNCHANGED <<tries, val, lo, toggle, keycode, chip, keyboard, faults,
                   history>>

(* The control byte of the first TD is 0x03: done without a retry.  What     *)
(* follows ConfigDesc2, a TD whose active bit is clear, starts nothing.      *)
Control ==
    /\ At("control")
    /\ IF control = "ok" THEN step' = step + 1 /\ Goto("submit")
       ELSE Goto("retry_read") /\ UNCHANGED step
    /\ UNCHANGED <<tries, val, lo, toggle, keycode, chip, keyboard, faults,
                   history>>

(* UsbGetRetryCnt, then goto USB_HOT_PLUG: a message that is there is read    *)
(* and cleared, and another one waited for.                                  *)
UsbGetRetryCnt ==
    /\ pc \in {"retry_read", "retry_clear"} \/ (At("retry_wait") /\ sie1msg)
    /\ sie1msg' = (sie1msg /\ ~At("retry_read"))
    /\ msg' = IF At("retry_clear") THEN "none" ELSE msg
    /\ Goto(CASE At("retry_read") /\ msg = "done" -> "retry_clear"
              [] At("retry_clear") -> "retry_wait"
              [] OTHER -> "USB_HOT_PLUG")
    /\ UNCHANGED <<step, tries, val, lo, toggle, keycode, mailbox, lists,
                   keyboard, faults, history>>

-----------------------------------------------------------------------------
(* The report is read in two halves, then written to the PIO in one piece.   *)
ReadLow ==
    /\ At("read_lo")
    /\ lo' = buf[1]
    /\ Goto("read_hi")
    /\ UNCHANGED <<step, tries, val, toggle, keycode, chip, keyboard, faults,
                   history>>

(* The register as far as the game can tell: a report, or halves of two.     *)
Word(low, high) == IF low = high THEN low ELSE "torn"

\* A slip: the second half is not merged into the word.
ReadHigh_Half ==
    /\ At("read_hi")
    /\ keycode' = Word(lo, NoKey)
    /\ tries' = 0 /\ lo' = NoKey
    /\ Goto("look")
    /\ UNCHANGED <<step, val, toggle, chip, keyboard, faults, history>>

ReadHigh ==
    /\ At("read_hi")
    /\ keycode' = Word(lo, buf[2])
    /\ tries' = 0 /\ lo' = NoKey
    /\ Goto("look")
    /\ UNCHANGED <<step, val, toggle, chip, keyboard, faults, history>>

\* A slip: the port is not read in the polling loop.
Look_Never ==
    /\ At("look") /\ Goto("submit")
    /\ UNCHANGED <<step, tries, val, lo, toggle, keycode, chip, keyboard,
                   faults, history>>

\* A slip: the list of the polls is not loaded again.
Look_Once == Port("look", RemovalTries, "read_lo", "removed")

Look == Port("look", RemovalTries, "submit", "removed")
(* Three reads, of which the last counts. *)
Removed == attached /\ Port("removed", 0, "USB_HOT_PLUG", "removed")

-----------------------------------------------------------------------------
(* The controller. *)

(* It is one processor: a list waits until the command is done.  The bus      *)
(* reset returns a keyboard to address 0.                                    *)
ChipCommand ==
    /\ cmd # "none"
    /\ cmd' = "none" /\ mbx' = "ack"
    /\ IF cmd = "reset" THEN addr' = 0 /\ configured' = FALSE
       ELSE UNCHANGED <<addr, configured>>
    /\ UNCHANGED <<main, lists, message, attached, dtoggle, keys, news,
                   faults, history>>

ListDone == ptr' = 0 /\ msg' = "done" /\ sie1msg' = TRUE

Runs(enumerating) == /\ cmd = "none" /\ ptr # 0
                     /\ enumerating = (loaded # Poll)
                     /\ UNCHANGED <<main, mailbox, loaded, attached, keys>>
ThisTD == List(loaded)[Position(loaded, ptr)]
Reachable == attached /\ Fits(loaded, ptr) /\ addr = ThisTD.dev

(* The next TD of a request; after the last the keyboard acts on it. *)
ChipTransfer ==
    /\ Runs(TRUE) /\ Reachable
    /\ control' = IF ThisTD.pid = "SETUP" THEN "ok" ELSE control
    /\ IF ThisTD.next # 0
       THEN ptr' = ThisTD.next /\ UNCHANGED <<message, addr, configured,
                                              dtoggle, news>>
       ELSE /\ ListDone
            /\ addr' = IF loaded = SetAddress THEN 2 ELSE addr
            /\ configured' = (configured \/ loaded = SetConfig)
            /\ dtoggle' = IF loaded = SetConfig THEN 0 ELSE dtoggle
            /\ news' = (news /\ loaded # SetConfig)
    /\ UNCHANGED <<buf, faults, history>>

(* A SETUP that needed a second attempt: done, but not with 0x03. *)
ChipRetries ==
    /\ Runs(TRUE) /\ Reachable /\ ThisTD.pid = "SETUP" /\ faults < MaxFaults
    /\ faults' = faults + 1
    /\ control' = "retried" /\ ptr' = ThisTD.next
    /\ UNCHANGED <<buf, message, addr, configured, dtoggle, news, history>>

(* Nobody answers, or three attempts failed: the list ends, with a message. *)
ChipFails ==
    /\ Runs(TRUE)
    /\ \/ ~Reachable /\ UNCHANGED faults
       \/ Reachable /\ faults < MaxFaults /\ faults' = faults + 1
    /\ ListDone
    /\ IF ptr = ListStart THEN control' = "retried" /\ UNCHANGED upset
       ELSE /\ UNCHANGED control
            /\ IF loaded = SetConfig THEN Upset("hidden") ELSE UNCHANGED upset
    /\ UNCHANGED <<buf, addr, configured, dtoggle, news, agree, last>>

Polled == attached /\ addr = 2 /\ configured
(* A keyboard with nothing new holds the poll back. *)
ChipPoll ==
    /\ Runs(FALSE) /\ Polled /\ news
    /\ buf' = <<keys, keys>> /\ news' = FALSE /\ dtoggle' = 1 - dtoggle
    /\ last' = IF Doubled THEN last ELSE keys
    /\ ListDone
    /\ UNCHANGED <<control, addr, configured, faults, upset, agree>>

ChipPollFails ==
    /\ Runs(FALSE)
    /\ \/ ~Polled /\ UNCHANGED faults
       \/ Polled /\ faults < MaxFaults /\ faults' = faults + 1
    /\ ListDone
    /\ agree' = IF Doubled THEN agree ELSE ~agree
    /\ UNCHANGED <<control, buf, addr, configured, dtoggle, news, upset, last>>

-----------------------------------------------------------------------------
(* The keyboard and the hands on it. *)
Hands == UNCHANGED <<main, chip, faults, history>>

Unplug ==
    /\ attached /\ attached' = FALSE
    /\ addr' = 0 /\ configured' = FALSE /\ news' = FALSE /\ dtoggle' = 0
    /\ keys' = NoKey
    /\ Hands

(* Nobody pulls out a keyboard and has it in again before the firmware looks. *)
Plug ==
    /\ ~attached /\ pc \in {"no_device", "removed"}
    /\ attached' = TRUE
    /\ UNCHANGED <<addr, configured, dtoggle, keys, news>> /\ Hands

(* A key that is down before the keyboard is configured is never reported. *)
Press ==
    /\ configured
    /\ keys' \in Keys \ {keys} /\ news' = TRUE
    /\ UNCHANGED <<attached, addr, configured, dtoggle>> /\ Hands

Init ==
    /\ pc = "USB_HOT_PLUG" /\ step = SetAddress /\ tries = 0
    /\ val = "none" /\ lo = NoKey /\ toggle = 0 /\ keycode = NoKey
    /\ cmd = "none" /\ mbx = "garbage"
    /\ msg = "none" /\ sie1msg = FALSE
    /\ loaded = SetAddress /\ ptr = 0 /\ control = "armed" /\ buf = <<"td", "td">>
    /\ attached \in BOOLEAN /\ addr = 0 /\ configured = FALSE /\ dtoggle = 0
    /\ keys = NoKey /\ news = FALSE
    /\ faults = 0 /\ upset = {} /\ agree = TRUE /\ last = "td"

Firmware ==
    \/ UsbSoftReset \/ Sie1Init \/ Sie1Ack \/ BusReset \/ ResetAck \/ Probe
    \/ NoDevice \/ Submit \/ Status \/ Resubmit \/ Usleep \/ WaitRead
    \/ WaitClear \/ Control \/ UsbGetRetryCnt
    \/ ReadLow \/ ReadHigh \/ Look \/ Removed
Chip == \/ ChipCommand \/ ChipTransfer \/ ChipRetries \/ ChipFails
        \/ ChipPoll \/ ChipPollFails
Next == Firmware \/ Chip \/ Unplug \/ Plug \/ Press

(* The processor runs, and the controller gets on with its lists. *)
Spec == Init /\ [][Next]_vars /\ WF_vars(Firmware) /\ WF_vars(Chip)

-----------------------------------------------------------------------------
(* Properties. *)

(* No answer is ever written over the list that fetches it. *)
ListUntouched == ptr # 0 => ~Tramples(loaded, ptr)

(* The firmware waits for a message only while one is there or on its way:   *)
(* reading and clearing the register in two transactions loses a message     *)
(* only after a list was loaded over its own answer.                         *)
Waiting == \/ pc \in {"wait_read", "retry_clear", "retry_wait"}
           \/ pc = "wait_clear" /\ val = "none"
NeverStuck == Waiting => ptr # 0 \/ msg = "done" \/ sie1msg \/ Doubled

(* A keyboard that is polled has its address, and its configuration unless   *)
(* the status stage of SetConfig failed: a request whose first TD failed is  *)
(* not passed over.  The later TDs are not looked at, so a failed data stage *)
(* is passed over, which costs the keyboard nothing, and a failed status     *)
(* stage of SetConfig too, which leaves it silent.                           *)
PollsConfigured ==
    (/\ step = Poll /\ pc \notin {"removed", "USB_HOT_PLUG"} /\ attached
     /\ ~Doubled) => addr = 2 /\ (configured \/ "hidden" \in upset)

(* The toggle of the polls moves with the keyboard's: once for each answer,  *)
(* however often a poll is loaded again.  Whether they were equal when       *)
(* polling began, and how many polls failed, is in `agree`: neither is       *)
(* repaired by the code.                                                     *)
TogglesInStep ==
    (loaded = Poll /\ ptr # 0 /\ Polled /\ ~Doubled)
        => ((1 - toggle = dtoggle) <=> agree)

(* What reaches the game is the report delivered last, never halves of two,  *)
(* also after polls that failed.  Before the first report, when the first    *)
(* poll failed, it is words of a transfer list; never later, and never a     *)
(* report of an earlier enumeration.                                         *)
KeycodeWhole ==
    [][pc = "read_hi" /\ ~Doubled => keycode' = last]_main

(* A keyboard that is pulled out for good is noticed, whatever the firmware  *)
(* was doing, unless a list was doubled.                                     *)
RemovalNoticed ==
    <>[]~attached => <>(pc \in {"no_device", "removed"} \/ Doubled)

(* A keyboard that stays in is enumerated and polled, after whatever number  *)
(* of restarts the failures before cost, unless lists are doubled for ever.  *)
KeyboardComesUp ==
    <>[]attached => <>[](step = Poll) \/ []<>Doubled

(* A key that is pressed reaches the game, unless it is let go or the         *)
(* keyboard pulled out before, or a list was doubled.                         *)
KeysArrive ==
    \A k \in Keys \ {NoKey} : (news /\ keys = k)
        ~> (keycode = k \/ keys # k \/ ~configured \/ Doubled)
=============================================================================
