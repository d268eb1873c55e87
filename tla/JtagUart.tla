------------------------------ MODULE JtagUart ------------------------------
(***************************************************************************)
(* The interrupt-driven JTAG UART driver of the board support package:      *)
(* altera_avalon_jtag_uart_{init,read,write,ioctl}.c.  printf of the        *)
(* firmware ends here.                                                      *)
(*                                                                         *)
(* The caller (pc) and the interrupt routine (isr) share two ring buffers   *)
(* and the copy irq_enable of the control register; the routine is not      *)
(* interrupted by the caller, but the host on the other end of the cable    *)
(* fills and drains the hardware FIFOs at any moment.  Both are compiled    *)
(* without optimisation, so a step is one access to shared memory.          *)
(***************************************************************************)
EXTENDS Integers, Sequences

CONSTANTS
    BUF_LEN,          \* slots of a ring buffer; one always stays free
    FIFO_LEN,         \* characters of a hardware FIFO
    WriteThreshold,   \* the write interrupt is raised at or below this filling
    IntMax,           \* INT_MAX
    DefaultTimeout,   \* ALTERA_AVALON_JTAG_UART_DEFAULT_TIMEOUT
    MaxPut, MaxTimed, \* bound: characters written in all, without and with clock
    MaxTyped,         \* bound: characters the host sends in all
    MaxCall           \* bound: characters asked for in one call

ASSUME BufferAssumption == /\ BUF_LEN \in Nat /\ BUF_LEN > 1
                           /\ FIFO_LEN \in Nat /\ WriteThreshold \in Nat
                           /\ WriteThreshold < FIFO_LEN
ASSUME TimeoutAssumption == /\ IntMax \in Nat
                            /\ DefaultTimeout \in 2 .. IntMax - 1
ASSUME BoundAssumption == /\ MaxPut \in Nat /\ MaxTyped \in Nat
                          /\ MaxTimed \in 0 .. MaxPut /\ MaxCall \in Nat

Slots == 0 .. BUF_LEN - 1

VARIABLES
    tx_buf, tx_in, tx_out, rx_buf, rx_in, rx_out,  \* the two rings
    re, we,           \* irq_enable, which the control register always equals
    timeout, host_inactive,
    pc, call,         \* the caller: where it is, and its local variables
    isr, loc,         \* the interrupt routine and its local variables
    tx_fifo, rx_fifo, ac,                          \* the device
    attached, put, heard, typed, handed,           \* the host, and what passed
    setting           \* what a behaviour is about; never changes

driver == <<tx_buf, tx_in, tx_out, rx_buf, rx_in, rx_out, re, we>>
clock == <<timeout, host_inactive, ac>>
world == <<attached, put, heard, typed, handed>>
fifos == <<tx_fifo, rx_fifo>>
vars == <<driver, clock, pc, call, isr, loc, fifos, world, setting>>

(* Sending and receiving meet only in the interrupt routine, so a behaviour  *)
(* is about one of them, without a clock as in this system, or about a       *)
(* system with one: alt_ticks_per_second() is 0 without.                     *)
Settings == {"send", "receive", "clock"}
TicksPerSecond == IF setting = "clock" THEN 1 ELSE 0
PutBound == CASE setting = "send" -> MaxPut [] setting = "receive" -> 0
              [] setting = "clock" -> MaxTimed
TypedBound == IF setting = "receive" THEN MaxTyped ELSE 0

Used(in, out) == IF in >= out THEN in - out ELSE in + BUF_LEN - out
\* A slip (PROJECT.json "mutants"): no way round the ring.
Ahead_NoWrap(i, n) == i + n

Ahead(i, n) == (i + n) % BUF_LEN

-----------------------------------------------------------------------------
(* The call in progress.  ptr counts the characters done; in, out and n are  *)
(* the local variables of the same name, and memcpy has copied k.           *)
NoCall == [count |-> 0, ptr |-> 0, in |-> 0, out |-> 0, n |-> 0, k |-> 0,
           nonblock |-> FALSE]

\* A slip: the free slot is given away, and a full ring looks empty.
RoomAhead_Full(in, out) == IF in < out THEN out - in ELSE BUF_LEN - in

(* Once the buffer is filled up to its end, n is what fits before the end:  *)
(* the rest of the free space is found in the next turn of the loop.        *)
RoomAhead(in, out) == IF in < out THEN out - 1 - in
                      ELSE IF out > 0 THEN BUF_LEN - in
                      ELSE BUF_LEN - 1 - in

DataAhead(in, out) == IF in >= out THEN in - out ELSE BUF_LEN - out

Least(a, b) == IF a < b THEN a ELSE b

(* The caller runs between interrupts. *)
Caller(from) == pc = from /\ isr = "out"
Quiet == UNCHANGED <<isr, loc, clock, fifos, setting>>

WriteCall ==
    /\ Caller("idle")
    /\ \E count \in 1 .. MaxCall, nonblock \in BOOLEAN :
         /\ put + count <= PutBound
         /\ call' = [NoCall EXCEPT !.count = count, !.nonblock = nonblock]
    /\ pc' = "write_look"
    /\ UNCHANGED <<driver, world>> /\ Quiet

(* How much fits: tx_out may move on at any time, which only makes room. *)
WriteLook ==
    /\ Caller("write_look")
    /\ IF call.count = 0 THEN pc' = "write_kick" /\ UNCHANGED call
       ELSE LET room == RoomAhead(tx_in, tx_out)
            IN  /\ call' = [call EXCEPT !.in = tx_in, !.out = tx_out,
                                        !.n = Least(room, call.count)]
                /\ pc' = IF room = 0 THEN "write_kick" ELSE "write_copy"
    /\ UNCHANGED <<driver, world>> /\ Quiet

(* memcpy: the characters of a call go on with the numbering of the stream. *)
WriteCopy ==
    /\ Caller("write_copy") /\ call.k < call.n
    /\ tx_buf' = [tx_buf EXCEPT ![call.in + call.k] = put + 1 + call.k]
    /\ call' = [call EXCEPT !.k = @ + 1]
    /\ UNCHANGED <<pc, tx_in, tx_out, rx_buf, rx_in, rx_out, re, we, world>>
    /\ Quiet

WritePublish ==
    /\ Caller("write_copy") /\ call.k = call.n
    /\ tx_in' = Ahead(call.in, call.n)
    /\ put' = put + call.n
    /\ call' = [call EXCEPT !.ptr = @ + call.n, !.count = @ - call.n, !.k = 0]
    /\ pc' = "write_look"
    /\ UNCHANGED <<tx_buf, tx_out, rx_buf, rx_in, rx_out, re, we, attached,
                   heard, typed, handed>>
    /\ Quiet

\* A slip: the buffer is filled but the interrupt never enabled.
WriteKick_NoEnable ==
    /\ Caller("write_kick")
    /\ IF call.count > 0 /\ ~call.nonblock
       THEN pc' = "write_wait" /\ UNCHANGED call
       ELSE pc' = "idle" /\ call' = NoCall
    /\ UNCHANGED <<driver, world>> /\ Quiet

(* With interrupts off: let the interrupt routine transmit. *)
WriteKick ==
    /\ Caller("write_kick")
    /\ we' = TRUE
    /\ IF call.count > 0 /\ ~call.nonblock
       THEN pc' = "write_wait" /\ UNCHANGED call
       ELSE pc' = "idle" /\ call' = NoCall
    /\ UNCHANGED <<tx_buf, tx_in, tx_out, rx_buf, rx_in, rx_out, re, world>>
    /\ Quiet

\* A slip: one tick too late, which may be never.
WriteWait_Late ==
    /\ Caller("write_wait")
    /\ tx_out # call.out \/ host_inactive > timeout
    /\ IF host_inactive > 0 THEN pc' = "idle" /\ call' = NoCall
       ELSE pc' = "write_look" /\ UNCHANGED call
    /\ UNCHANGED <<driver, world>> /\ Quiet

(* The spin ends when something was sent or the host is given up.  A host   *)
(* that was silent for a second ends the call even if it is back.            *)
WriteWait ==
    /\ Caller("write_wait")
    /\ tx_out # call.out \/ host_inactive >= timeout
    /\ IF host_inactive > 0 THEN pc' = "idle" /\ call' = NoCall
       ELSE pc' = "write_look" /\ UNCHANGED call
    /\ UNCHANGED <<driver, world>> /\ Quiet

ReadCall ==
    /\ Caller("idle")
    /\ \E space \in 1 .. MaxCall, nonblock \in BOOLEAN :
         call' = [NoCall EXCEPT !.count = space, !.nonblock = nonblock]
    /\ pc' = "read_look"
    /\ UNCHANGED <<driver, world>> /\ Quiet

(* Nothing to copy: return what there is, or spin until rx_in moves. *)
ReadLook ==
    /\ Caller("read_look")
    /\ LET data == DataAhead(rx_in, rx_out)
       IN  IF call.count > 0 /\ data > 0
           THEN /\ call' = [call EXCEPT !.in = rx_in, !.out = rx_out,
                                        !.n = Least(data, call.count)]
                /\ pc' = "read_copy"
           ELSE IF call.ptr > 0 THEN pc' = "read_arm" /\ UNCHANGED call
           ELSE IF call.nonblock THEN pc' = "idle" /\ call' = NoCall
           ELSE pc' = "read_wait" /\ call' = [call EXCEPT !.in = rx_in]
    /\ UNCHANGED <<driver, world>> /\ Quiet

(* memcpy: the caller gets the characters in the order of the ring. *)
ReadCopy ==
    /\ Caller("read_copy") /\ call.k < call.n
    /\ handed' = rx_buf[call.out + call.k]
    /\ call' = [call EXCEPT !.k = @ + 1]
    /\ UNCHANGED <<pc, driver, attached, put, heard, typed>> /\ Quiet

ReadPublish ==
    /\ Caller("read_copy") /\ call.k = call.n
    /\ rx_out' = Ahead(call.out, call.n)
    /\ call' = [call EXCEPT !.ptr = @ + call.n, !.count = @ - call.n, !.k = 0]
    /\ pc' = "read_look"
    /\ UNCHANGED <<tx_buf, tx_in, tx_out, rx_buf, rx_in, re, we, world>>
    /\ Quiet

\* A slip: the reader does not turn reception on again.
ReadArm_Off ==
    /\ Caller("read_arm")
    /\ pc' = "idle" /\ call' = NoCall
    /\ UNCHANGED <<driver, world>> /\ Quiet

(* With interrupts off: there is room again, so receive again. *)
ReadArm ==
    /\ Caller("read_arm")
    /\ re' = TRUE
    /\ pc' = "idle" /\ call' = NoCall
    /\ UNCHANGED <<tx_buf, tx_in, tx_out, rx_buf, rx_in, rx_out, we, world>>
    /\ Quiet

ReadWait ==
    /\ Caller("read_wait")
    /\ IF rx_in # call.in THEN pc' = "read_look" /\ UNCHANGED call
       ELSE /\ host_inactive >= timeout
            /\ pc' = "idle" /\ call' = NoCall
    /\ UNCHANGED <<driver, world>> /\ Quiet

CloseCall ==
    /\ Caller("idle")
    /\ \E nonblock \in BOOLEAN : call' = [NoCall EXCEPT !.nonblock = nonblock]
    /\ pc' = "close"
    /\ UNCHANGED <<driver, world>> /\ Quiet

(* Drained, given up, or O_NONBLOCK: otherwise the loop goes on. *)
Close ==
    /\ Caller("close")
    /\ tx_out = tx_in \/ host_inactive >= timeout \/ call.nonblock
    /\ pc' = "idle" /\ call' = NoCall
    /\ UNCHANGED <<driver, world>> /\ Quiet

(* TIOCSTIMEOUT; TIOCGCONNECTED changes nothing. *)
Ioctl ==
    /\ Caller("idle")
    /\ timeout # IntMax
    /\ \E arg \in 0 .. IntMax :
         timeout' = IF arg >= 2 /\ arg < IntMax THEN arg ELSE IntMax - 1
    /\ UNCHANGED <<driver, host_inactive, ac, pc, call, isr, loc, fifos, world,
                   setting>>

-----------------------------------------------------------------------------
(* The interrupt routine. *)

NoIsr == [wi |-> FALSE, space |-> 0, ravail |-> FALSE]

RI == re /\ rx_fifo # <<>>
WI == we /\ Len(tx_fifo) <= WriteThreshold

Isr(from) == isr = from /\ UNCHANGED <<pc, call, clock, attached, put, typed, handed, setting>>

IsrEnter ==
    /\ Isr("out") /\ (RI \/ WI)
    /\ isr' = "top"
    /\ UNCHANGED <<driver, loc, fifos, heard>>

(* One read of the control register decides what this turn does. *)
IsrTop ==
    /\ Isr("top")
    /\ isr' = CASE RI -> "rx" [] ~RI /\ WI -> "tx" [] OTHER -> "out"
    /\ loc' = IF RI \/ WI
              THEN [wi |-> WI, space |-> FIFO_LEN - Len(tx_fifo), ravail |-> TRUE]
              ELSE NoIsr
    /\ UNCHANGED <<driver, fifos, heard>>

\* A slip: the ring is not looked at before it is written.
IsrReceive_Blind ==
    /\ Isr("rx")
    /\ rx_fifo # <<>>
    /\ rx_buf' = [rx_buf EXCEPT ![rx_in] = Head(rx_fifo)]
    /\ rx_in' = Ahead(rx_in, 1)
    /\ rx_fifo' = Tail(rx_fifo)
    /\ loc' = [loc EXCEPT !.ravail = Len(rx_fifo) > 1]
    /\ UNCHANGED <<isr, tx_buf, tx_in, tx_out, rx_out, re, we, tx_fifo, heard>>

(* A character moves from the FIFO to the ring, if there is one and room. *)
IsrReceive ==
    /\ Isr("rx")
    /\ Ahead(rx_in, 1) # rx_out /\ rx_fifo # <<>>
    /\ rx_buf' = [rx_buf EXCEPT ![rx_in] = Head(rx_fifo)]
    /\ rx_in' = Ahead(rx_in, 1)
    /\ rx_fifo' = Tail(rx_fifo)
    /\ loc' = [loc EXCEPT !.ravail = Len(rx_fifo) > 1]
    /\ UNCHANGED <<isr, tx_buf, tx_in, tx_out, rx_out, re, we, tx_fifo, heard>>

(* The ring is full, or the FIFO was read empty: only what was read last     *)
(* says whether characters are waiting.                                     *)
IsrReceived ==
    /\ Isr("rx")
    /\ LET full == Ahead(rx_in, 1) = rx_out
       IN  /\ full \/ rx_fifo = <<>>
           /\ re' = (re /\ ~(full /\ loc.ravail))
    /\ isr' = IF loc.wi THEN "tx" ELSE "top"
    /\ UNCHANGED <<loc, tx_buf, tx_in, tx_out, rx_buf, rx_in, rx_out, we, fifos, heard>>

IsrSend ==
    /\ Isr("tx")
    /\ loc.space > 0 /\ tx_out # tx_in
    /\ tx_fifo' = Append(tx_fifo, tx_buf[tx_out])
    /\ tx_out' = Ahead(tx_out, 1)
    /\ loc' = [loc EXCEPT !.space = @ - 1]
    /\ UNCHANGED <<isr, tx_buf, tx_in, rx_buf, rx_in, rx_out, re, we, rx_fifo, heard>>

\* A slip: the interrupt is turned off even when the FIFO, not the ring, ended
\* the loop.
IsrSent_Always ==
    /\ Isr("tx")
    /\ loc.space = 0 \/ tx_out = tx_in
    /\ we' = FALSE
    /\ isr' = "top"
    /\ UNCHANGED <<loc, tx_buf, tx_in, tx_out, rx_buf, rx_in, rx_out, re, fifos, heard>>

(* Space left over means the ring is empty: stop asking. *)
IsrSent ==
    /\ Isr("tx")
    /\ loc.space = 0 \/ tx_out = tx_in
    /\ we' = (we /\ loc.space = 0)
    /\ isr' = "top"
    /\ UNCHANGED <<loc, tx_buf, tx_in, tx_out, rx_buf, rx_in, rx_out, re, fifos, heard>>

(* altera_avalon_jtag_uart_timeout, called from the interrupt of the clock. *)
ClockTick ==
    /\ TicksPerSecond > 0 /\ isr = "out"
    /\ IF ac THEN host_inactive' = 0 /\ ac' = FALSE
       ELSE /\ host_inactive < IntMax - 2
            /\ host_inactive' = host_inactive + 1 /\ UNCHANGED ac
    /\ UNCHANGED <<driver, timeout, pc, call, isr, loc, fifos, world, setting>>

-----------------------------------------------------------------------------
(* The host, at the other end of the cable. *)

HostTakes ==
    /\ attached /\ tx_fifo # <<>>
    /\ heard' = Head(tx_fifo)
    /\ tx_fifo' = Tail(tx_fifo)
    /\ ac' = TRUE
    /\ UNCHANGED <<driver, timeout, host_inactive, pc, call, isr, loc, rx_fifo,
                   attached, put, typed, handed, setting>>

HostTypes ==
    /\ attached /\ Len(rx_fifo) < FIFO_LEN /\ typed < TypedBound
    /\ typed' = typed + 1
    /\ rx_fifo' = Append(rx_fifo, typed')
    /\ ac' = TRUE
    /\ UNCHANGED <<driver, timeout, host_inactive, pc, call, isr, loc, tx_fifo,
                   attached, put, heard, handed, setting>>

HostComesOrGoes ==
    /\ attached' = ~attached
    /\ UNCHANGED <<driver, clock, pc, call, isr, loc, fifos, put, heard, typed, handed,
                   setting>>

Init ==
    /\ setting \in Settings
    /\ tx_buf = [i \in Slots |-> 0] /\ tx_in = 0 /\ tx_out = 0
    /\ rx_buf = [i \in Slots |-> 0] /\ rx_in = 0 /\ rx_out = 0
    /\ re = TRUE /\ we = FALSE
    /\ timeout = IF TicksPerSecond = 0 THEN IntMax ELSE DefaultTimeout
    /\ host_inactive = 0
    /\ pc = "idle" /\ call = NoCall /\ isr = "out" /\ loc = NoIsr
    /\ tx_fifo = <<>> /\ rx_fifo = <<>> /\ ac = FALSE
    /\ attached \in BOOLEAN
    /\ put = 0 /\ heard = 0 /\ typed = 0 /\ handed = 0

Write == WriteLook \/ WriteCopy \/ WritePublish \/ WriteKick \/ WriteWait
Read == ReadLook \/ ReadCopy \/ ReadPublish \/ ReadArm \/ ReadWait
Interrupt == IsrEnter \/ IsrTop \/ IsrReceive \/ IsrReceived \/ IsrSend \/ IsrSent

Next ==
    \/ WriteCall \/ Write \/ ReadCall \/ Read \/ CloseCall \/ Close \/ Ioctl
    \/ Interrupt \/ ClockTick
    \/ HostTakes \/ HostTypes \/ HostComesOrGoes

(* The processor runs, interrupts are taken, the clock ticks, and a host    *)
(* that stays attached empties the FIFO.                                    *)
Fairness ==
    /\ WF_vars(Write) /\ WF_vars(Read) /\ WF_vars(Close)
    /\ WF_vars(Interrupt) /\ WF_vars(ClockTick) /\ WF_vars(HostTakes)

Spec == Init /\ [][Next]_vars /\ Fairness
-----------------------------------------------------------------------------
(* Properties. *)

TypeOK ==
    /\ setting \in Settings
    /\ tx_buf \in [Slots -> Nat] /\ tx_in \in Slots /\ tx_out \in Slots
    /\ rx_buf \in [Slots -> Nat] /\ rx_in \in Slots /\ rx_out \in Slots
    /\ re \in BOOLEAN /\ we \in BOOLEAN /\ ac \in BOOLEAN /\ attached \in BOOLEAN
    /\ timeout \in 2 .. IntMax /\ host_inactive \in 0 .. IntMax
    /\ pc \in {"idle", "write_look", "write_copy", "write_kick", "write_wait",
               "read_look", "read_copy", "read_arm", "read_wait", "close"}
    /\ isr \in {"out", "top", "rx", "tx"}
    /\ call \in [count : 0 .. MaxCall, ptr : 0 .. MaxCall, in : Slots, out : Slots,
                 n : 0 .. MaxCall, k : 0 .. MaxCall, nonblock : BOOLEAN]
    /\ loc \in [wi : BOOLEAN, space : 0 .. FIFO_LEN, ravail : BOOLEAN]
    /\ tx_fifo \in Seq(Nat) /\ Len(tx_fifo) <= FIFO_LEN
    /\ rx_fifo \in Seq(Nat) /\ Len(rx_fifo) <= FIFO_LEN
    /\ put \in 0 .. MaxPut /\ heard \in Nat /\ typed \in 0 .. MaxTyped /\ handed \in Nat

(* Both directions are streams: what the caller writes reaches the host, and *)
(* what the host sends reaches the caller, complete and in order, however    *)
(* interrupts fall into the loops of read and write.                         *)
Out == INSTANCE ByteStream WITH
    Capacity <- BUF_LEN - 1 + FIFO_LEN, put <- put, got <- heard
In == INSTANCE ByteStream WITH
    Capacity <- BUF_LEN - 1 + FIFO_LEN, put <- typed, got <- handed
WrittenIsHeard == Out!Spec
TypedIsRead == In!Spec

(* Characters wait in the transmit ring only while the write interrupt is    *)
(* enabled or the caller is about to enable it: the interrupt routine cannot *)
(* turn it off on a ring that the caller has just filled.                    *)
SendingKicked ==
    tx_in # tx_out => we \/ pc \in {"write_look", "write_copy", "write_kick"}

(* The read interrupt is off only while the receive ring is full or a reader *)
(* that made room is about to turn it on: a reader never spins with it off.  *)
ReceivingArmed ==
    re \/ Ahead(rx_in, 1) = rx_out \/ (call.ptr > 0 /\ pc \in {"read_look", "read_copy", "read_arm"})

(* A host that stays attached lets every write and close return, and with a *)
(* clock a host that stays away lets every call return.  Without a clock the *)
(* timeout is INT_MAX and a write to a full ring waits for a host for ever.  *)
WritesReturn == <>[]attached => (pc \in {"write_look", "close"} ~> pc = "idle")
AwayReleases ==
    (TicksPerSecond > 0 /\ <>[](~attached /\ timeout < IntMax - 1))
        => (pc # "idle" ~> pc = "idle")

(* Whatever was accepted is sent, if the host stays attached. *)
AcceptedIsSent ==
    <>[]attached => \A k \in 1 .. MaxPut : (put >= k ~> heard >= k)

(* Room made by a reader is used again: a character the host has sent       *)
(* reaches the ring unless the ring is full for good.                        *)
TypedIsReceived ==
    \A k \in 1 .. MaxTyped :
        (typed >= k) ~> (Ahead(rx_in, 1) = rx_out \/ Used(rx_in, rx_out) + handed >= k)
=============================================================================
