--------------------------- MODULE JtagUart_proofs ---------------------------
(***************************************************************************)
(* Proofs about JtagUart, for rings and FIFOs of any size and any number of *)
(* characters: the driver loses none and keeps their order, and no          *)
(* interrupt that is needed stays off.                                      *)
(***************************************************************************)
EXTENDS JtagUart, SequenceTheorems, TLAPS

(***************************************************************************)
(* What the caller's local variables are worth when they are used: its own  *)
(* end of the ring is current, and the other end has only moved on, so that *)
(* the room or the data it has seen are still there.                        *)
(***************************************************************************)
Copying == pc \in {"write_copy", "read_copy"}
Writing == pc \in {"write_look", "write_copy", "write_kick", "write_wait"}

CallInv ==
  /\ call.ptr + call.count <= MaxCall
  /\ ~Copying => call.k = 0
  /\ Copying => call.n \in 1..call.count /\ call.k <= call.n
  /\ Writing => put + call.count <= PutBound
  /\ pc = "write_copy" => call.in = tx_in /\ call.n <= RoomAhead(tx_in, tx_out)
  /\ pc = "read_copy" => call.out = rx_out /\ call.n <= DataAhead(rx_in, rx_out)

(* The space the interrupt routine has read may only have grown since.        *)
SpaceInv == isr \in {"rx", "tx"} => loc.space + Len(tx_fifo) <= FIFO_LEN

(***************************************************************************)
(* Where the characters under way are: heard + 1, ..., put lie in the FIFO   *)
(* and then in the ring, in this order; what is copied already lies beyond.  *)
(***************************************************************************)
TxInv ==
  /\ heard + Len(tx_fifo) + Used(tx_in, tx_out) = put
  /\ \A j \in 1..Len(tx_fifo) : tx_fifo[j] = heard + j
  /\ \A i \in Slots : Used(i, tx_out) < Used(tx_in, tx_out) =>
       tx_buf[i] = heard + Len(tx_fifo) + 1 + Used(i, tx_out)
  /\ pc = "write_copy" =>
       \A j \in 0..(call.k - 1) : tx_buf[tx_in + j] = put + 1 + j

(* The other way: the ring, then the FIFO, up to typed; the reader may have   *)
(* taken some that are still in the ring.                                   *)
Taken == IF pc = "read_copy" THEN call.k ELSE 0

RxInv ==
  /\ handed + Used(rx_in, rx_out) + Len(rx_fifo) = typed + Taken
  /\ \A j \in 1..Len(rx_fifo) : rx_fifo[j] = typed - Len(rx_fifo) + j
  /\ \A i \in Slots : Used(i, rx_out) < Used(rx_in, rx_out) =>
       rx_buf[i] = typed - Len(rx_fifo) - Used(rx_in, rx_out) + 1 + Used(i, rx_out)

UartInv ==
  /\ TypeOK /\ CallInv /\ SpaceInv
  /\ TxInv /\ RxInv
  /\ SendingKicked /\ ReceivingArmed

-----------------------------------------------------------------------------
(***************************************************************************)
(* Arithmetic of a ring.  n slots on from i, not beyond the end.             *)
(***************************************************************************)
LEMMA AheadIs ==
  ASSUME NEW i \in Slots, NEW n \in Nat, i + n <= BUF_LEN
  PROVE  Ahead(i, n) = IF i + n = BUF_LEN THEN 0 ELSE i + n
<1>1. BUF_LEN \in Nat /\ BUF_LEN > 1
  BY BufferAssumption
<1>2. CASE i + n = BUF_LEN
  BY <1>1, <1>2 DEF Ahead
<1>3. CASE i + n < BUF_LEN
  BY <1>1, <1>3 DEF Ahead, Slots
<1> QED
  BY <1>1, <1>2, <1>3 DEF Slots

LEMMA UsedIs ==
  ASSUME NEW in \in Slots, NEW out \in Slots
  PROVE  /\ Used(in, out) \in 0..(BUF_LEN - 1)
         /\ Used(in, out) = 0 <=> in = out
BY BufferAssumption DEF Used, Slots

LEMMA UsedNat ==
  \A in, out \in Slots : Used(in, out) \in Nat /\ Used(in, out) < BUF_LEN
BY BufferAssumption DEF Used, Slots

(* Room and data up to the end of the ring are within what is free and used.  *)
LEMMA RoomIs ==
  ASSUME NEW in \in Slots, NEW out \in Slots
  PROVE  /\ RoomAhead(in, out) \in 0..(BUF_LEN - 1 - Used(in, out))
         /\ in + RoomAhead(in, out) <= BUF_LEN
BY BufferAssumption DEF RoomAhead, Used, Slots

LEMMA DataIs ==
  ASSUME NEW in \in Slots, NEW out \in Slots
  PROVE  /\ DataAhead(in, out) \in 0..Used(in, out)
         /\ out + DataAhead(in, out) <= BUF_LEN
BY BufferAssumption DEF DataAhead, Used, Slots

(* The room seen stays when the other end moves on; so do the data.           *)
LEMMA RoomGrows ==
  ASSUME NEW in \in Slots, NEW out \in Slots, in # out
  PROVE  RoomAhead(in, Ahead(out, 1)) >= RoomAhead(in, out)
<1>1. Ahead(out, 1) = IF out + 1 = BUF_LEN THEN 0 ELSE out + 1
  BY AheadIs, BufferAssumption DEF Slots
<1> QED
  BY <1>1, BufferAssumption DEF RoomAhead, Slots

LEMMA DataGrow ==
  ASSUME NEW in \in Slots, NEW out \in Slots, Ahead(in, 1) # out
  PROVE  DataAhead(Ahead(in, 1), out) >= DataAhead(in, out)
<1>1. Ahead(in, 1) = IF in + 1 = BUF_LEN THEN 0 ELSE in + 1
  BY AheadIs, BufferAssumption DEF Slots
<1> QED
  BY <1>1, BufferAssumption DEF DataAhead, Slots

(***************************************************************************)
(* One end moves on: how far each slot is from the end that moved.           *)
(***************************************************************************)
LEMMA OutMoves ==
  ASSUME NEW in \in Slots, NEW out \in Slots, NEW n \in 1..Used(in, out),
         out + n <= BUF_LEN
  PROVE  /\ Ahead(out, n) \in Slots
         /\ Used(in, Ahead(out, n)) = Used(in, out) - n
         /\ \A i \in Slots :
              Used(i, Ahead(out, n)) < Used(in, out) - n
                => Used(i, out) = Used(i, Ahead(out, n)) + n
<1>1. /\ n \in Nat
      /\ Ahead(out, n) = IF out + n = BUF_LEN THEN 0 ELSE out + n
  BY AheadIs, UsedIs
<1> QED
  BY <1>1, BufferAssumption DEF Used, Slots

LEMMA InMoves ==
  ASSUME NEW in \in Slots, NEW out \in Slots,
         NEW n \in 1..(BUF_LEN - 1 - Used(in, out)), in + n <= BUF_LEN
  PROVE  /\ Ahead(in, n) \in Slots
         /\ Used(Ahead(in, n), out) = Used(in, out) + n
         /\ \A j \in 0..(n - 1) : in + j \in Slots /\ Used(in + j, out) = Used(in, out) + j
         /\ \A i \in Slots :
              Used(i, out) < Used(in, out) + n /\ ~(Used(i, out) < Used(in, out))
                => i = in + (Used(i, out) - Used(in, out))
<1>1. /\ n \in Nat
      /\ Ahead(in, n) = IF in + n = BUF_LEN THEN 0 ELSE in + n
  BY AheadIs, UsedIs
<1> QED
  BY <1>1, BufferAssumption DEF Used, Slots

(* A ring is full when its free slot is the next one.                         *)
LEMMA NotFull ==
  ASSUME NEW in \in Slots, NEW out \in Slots, Ahead(in, 1) # out
  PROVE  1 \in 1..(BUF_LEN - 1 - Used(in, out)) /\ in + 1 <= BUF_LEN
<1>1. Ahead(in, 1) = IF in + 1 = BUF_LEN THEN 0 ELSE in + 1
  BY AheadIs, BufferAssumption DEF Slots
<1> QED
  BY <1>1, BufferAssumption DEF Used, Slots

-----------------------------------------------------------------------------
(***************************************************************************)
(* The types are kept, action by action.                                    *)
(***************************************************************************)
Calls == [count : 0..MaxCall, ptr : 0..MaxCall, in : Slots, out : Slots,
          n : 0..MaxCall, k : 0..MaxCall, nonblock : BOOLEAN]

LEMMA Constants ==
  /\ BUF_LEN \in Nat /\ BUF_LEN > 1 /\ 0 \in Slots
  /\ Slots \subseteq Nat /\ \A i \in Slots : i < BUF_LEN
  /\ FIFO_LEN \in Nat /\ MaxCall \in Nat /\ MaxPut \in Nat
  /\ IntMax \in Nat /\ IntMax > 2
  /\ NoCall \in [count : 0..MaxCall, ptr : 0..MaxCall, in : Slots, out : Slots,
          n : 0..MaxCall, k : 0..MaxCall, nonblock : BOOLEAN]
<1>1. /\ BUF_LEN \in Nat /\ BUF_LEN > 1 /\ 0 \in Slots
      /\ Slots \subseteq Nat /\ \A i \in Slots : i < BUF_LEN
  BY BufferAssumption DEF Slots
<1>2. /\ FIFO_LEN \in Nat /\ MaxCall \in Nat /\ MaxPut \in Nat
      /\ IntMax \in Nat /\ IntMax > 2
  BY BufferAssumption, TimeoutAssumption, BoundAssumption
<1>3. 0 \in 0..MaxCall
  BY <1>2
<1> QED
  BY <1>1, <1>2, <1>3 DEF NoCall

LEMMA Bounds ==
  ASSUME setting \in Settings
  PROVE  PutBound \in 0..MaxPut /\ TypedBound \in 0..MaxTyped
<1>1. CASE setting = "send"
  <2>1. PutBound = MaxPut
    BY <1>1, Zenon DEF PutBound
  <2> QED BY <1>1, <2>1, BoundAssumption DEF TypedBound
<1>2. CASE setting = "receive"
  <2>1. PutBound = 0
    BY <1>2, Zenon DEF PutBound
  <2> QED BY <1>2, <2>1, BoundAssumption DEF TypedBound
<1>3. CASE setting = "clock"
  <2>1. PutBound = MaxTimed
    BY <1>3, Zenon DEF PutBound
  <2> QED BY <1>3, <2>1, BoundAssumption DEF TypedBound
<1> QED
  BY <1>1, <1>2, <1>3 DEF Settings

(* The caller at work: what a step of it may do to its local variables.       *)
LEMMA CallType ==
  ASSUME UartInv,
         \/ WriteCall \/ Write \/ ReadCall \/ Read \/ CloseCall \/ Close
  PROVE  call' \in Calls
<1> USE DEF Calls
<1>0. call \in Calls
  BY DEF UartInv, TypeOK
<1>1. CASE WriteCall
  <2>1. PICK count \in 1..MaxCall, nonblock \in BOOLEAN :
          call' = [NoCall EXCEPT !.count = count, !.nonblock = nonblock]
    BY <1>1 DEF WriteCall
  <2>2. count \in 0..MaxCall
    BY Constants
  <2> QED BY <2>1, <2>2, Constants
<1>2. CASE ReadCall
  <2>1. PICK count \in 1..MaxCall, nonblock \in BOOLEAN :
          call' = [NoCall EXCEPT !.count = count, !.nonblock = nonblock]
    BY <1>2 DEF ReadCall
  <2>2. count \in 0..MaxCall
    BY Constants
  <2> QED BY <2>1, <2>2, Constants
<1>3. CASE CloseCall
  <2>1. PICK nonblock \in BOOLEAN : call' = [NoCall EXCEPT !.nonblock = nonblock]
    BY <1>3 DEF CloseCall
  <2> QED BY <2>1, Constants
<1>4. CASE WriteLook
  <2>1. /\ RoomAhead(tx_in, tx_out) \in Nat /\ tx_in \in Slots /\ tx_out \in Slots
    BY RoomIs, UsedIs, Constants DEF UartInv, TypeOK
  <2>2. Least(RoomAhead(tx_in, tx_out), call.count) \in 0..MaxCall
    BY <1>0, <2>1, Constants DEF Least
  <2> QED BY <1>0, <1>4, <2>1, <2>2 DEF WriteLook
<1>5. CASE ReadLook
  <2>1. /\ DataAhead(rx_in, rx_out) \in Nat /\ rx_in \in Slots /\ rx_out \in Slots
    BY DataIs, UsedIs, Constants DEF UartInv, TypeOK
  <2>2. Least(DataAhead(rx_in, rx_out), call.count) \in 0..MaxCall
    BY <1>0, <2>1, Constants DEF Least
  <2>3. CASE call' = call
    BY <1>0, <2>3
  <2>4. CASE call' = NoCall
    BY <2>4, Constants
  <2>5. CASE call' = [call EXCEPT !.in = rx_in]
    BY <1>0, <2>1, <2>5
  <2>6. CASE call' = [call EXCEPT !.in = rx_in, !.out = rx_out,
                                  !.n = Least(DataAhead(rx_in, rx_out), call.count)]
    BY <1>0, <2>1, <2>2, <2>6
  <2> QED BY <1>5, <2>3, <2>4, <2>5, <2>6 DEF ReadLook
<1>6. CASE WriteCopy \/ ReadCopy
  <2>1. call.k < call.n /\ call' = [call EXCEPT !.k = @ + 1]
    BY <1>6 DEF WriteCopy, ReadCopy
  <2> QED BY <1>0, <2>1, Constants
<1>7. CASE WritePublish \/ ReadPublish
  <2>1. /\ call' = [call EXCEPT !.ptr = @ + call.n, !.count = @ - call.n, !.k = 0]
        /\ Copying
    BY <1>7 DEF WritePublish, ReadPublish, Caller, Copying
  <2>2. /\ call.n \in 1..call.count
        /\ call.ptr + call.count <= MaxCall
    BY <2>1 DEF UartInv, CallInv
  <2>3. call.ptr + call.n \in 0..MaxCall /\ call.count - call.n \in 0..MaxCall
    BY <1>0, <2>2, Constants
  <2>4. call' = [[[call EXCEPT !.ptr = call.ptr + call.n]
                        EXCEPT !.count = call.count - call.n] EXCEPT !.k = 0]
    BY <1>0, <2>1
  <2>5. [call EXCEPT !.ptr = call.ptr + call.n] \in Calls
    BY <1>0, <2>3
  <2>6. [[call EXCEPT !.ptr = call.ptr + call.n]
           EXCEPT !.count = call.count - call.n] \in Calls
    BY <2>3, <2>5
  <2>7. 0 \in 0..MaxCall
    BY Constants
  <2> QED BY <2>4, <2>6, <2>7
<1>8. CASE WriteKick \/ WriteWait \/ ReadArm \/ ReadWait \/ Close
  <2>1. call' = call \/ call' = NoCall
    BY <1>8 DEF WriteKick, WriteWait, ReadArm, ReadWait, Close
  <2> QED BY <1>0, <2>1, Constants
<1> QED
  BY <1>1, <1>2, <1>3, <1>4, <1>5, <1>6, <1>7, <1>8 DEF Write, Read

(* The caller's steps leave the interrupt routine and the device alone.       *)
LEMMA CallerType ==
  ASSUME UartInv,
         \/ WriteCall \/ Write \/ ReadCall \/ Read \/ CloseCall \/ Close
  PROVE  TypeOK'
<1>0. call' \in Calls
  BY CallType
<1>1. TypeOK /\ CallInv
  BY DEF UartInv
<1>2. UNCHANGED <<isr, loc, clock, fifos, setting>>
  BY DEF Quiet, Write, Read, WriteCall, WriteLook, WriteCopy, WritePublish,
         WriteKick, WriteWait, ReadCall, ReadLook, ReadCopy, ReadPublish,
         ReadArm, ReadWait, CloseCall, Close
<1>8. /\ UNCHANGED <<isr, loc, timeout, host_inactive, ac, tx_fifo, rx_fifo, setting>>
      /\ ac' \in BOOLEAN /\ re \in BOOLEAN /\ we \in BOOLEAN /\ attached \in BOOLEAN
  <2>1. UNCHANGED <<isr, loc, timeout, host_inactive, ac, tx_fifo, rx_fifo, setting>>
    BY <1>2 DEF clock, fifos
  <2>2. ac \in BOOLEAN /\ re \in BOOLEAN /\ we \in BOOLEAN /\ attached \in BOOLEAN
    BY <1>1 DEF TypeOK
  <2> QED BY <2>1, <2>2, Zenon
<1>3. CASE WriteCall \/ WriteLook \/ WriteKick \/ WriteWait \/ ReadCall \/ ReadLook
           \/ ReadArm \/ ReadWait \/ CloseCall \/ Close
  <2>1. /\ UNCHANGED <<tx_buf, tx_in, tx_out, rx_buf, rx_in, rx_out, world>>
        /\ re' \in BOOLEAN /\ we' \in BOOLEAN
    BY <1>1, <1>3 DEF TypeOK, driver, WriteCall, WriteLook, WriteKick, WriteWait,
         ReadCall, ReadLook, ReadArm, ReadWait, CloseCall, Close
  <2>2. pc' \in {"idle", "write_look", "write_copy", "write_kick", "write_wait",
                 "read_look", "read_copy", "read_arm", "read_wait", "close"}
    BY <1>3 DEF WriteCall, WriteLook, WriteKick, WriteWait,
         ReadCall, ReadLook, ReadArm, ReadWait, CloseCall, Close
  <2> QED
    BY <1>0, <1>1, <1>8, <2>1, <2>2 DEF TypeOK, Calls, world
<1>4. CASE WriteCopy
  <2>1. /\ tx_buf \in [Slots -> Nat] /\ put + 1 + call.k \in Nat
        /\ tx_buf' = [tx_buf EXCEPT ![call.in + call.k] = put + 1 + call.k]
    <3>1. put \in Nat /\ call \in Calls
      BY <1>1, Constants DEF TypeOK, Calls
    <3>2. call.k \in Nat
      BY <3>1, Constants DEF Calls
    <3>3. put + 1 + call.k \in Nat
      BY <3>1, <3>2
    <3>4. tx_buf \in [Slots -> Nat]
      BY <1>1 DEF TypeOK
    <3>5. tx_buf' = [tx_buf EXCEPT ![call.in + call.k] = put + 1 + call.k]
      BY <1>4 DEF WriteCopy
    <3> QED BY <3>3, <3>4, <3>5
  <2>2. tx_buf' \in [Slots -> Nat]
    BY <2>1
  <2> QED
    <3>1. UNCHANGED <<pc, tx_in, tx_out, rx_buf, rx_in, rx_out, re, we,
                      attached, put, heard, typed, handed>>
      BY <1>4 DEF WriteCopy, world
    <3>2. re' \in BOOLEAN /\ we' \in BOOLEAN /\ attached' \in BOOLEAN
      BY <1>8, <3>1, Zenon
    <3> QED BY <1>0, <1>1, <1>8, <2>2, <3>1, <3>2 DEF TypeOK, Calls
<1>5. CASE WritePublish
  <2>1. /\ pc = "write_copy" /\ call.in = tx_in
        /\ call.n \in 1..(BUF_LEN - 1 - Used(tx_in, tx_out))
        /\ tx_in + call.n <= BUF_LEN
        /\ call.n \in Nat /\ put + call.n <= PutBound
    <3>1. /\ pc = "write_copy" /\ call.in = tx_in /\ call.n \in 1..call.count
          /\ call.n <= RoomAhead(tx_in, tx_out)
          /\ put + call.count <= PutBound
      BY <1>1, <1>5 DEF WritePublish, Caller, CallInv, Copying, Writing
    <3>2. /\ tx_in \in Slots /\ tx_out \in Slots /\ put \in Nat
          /\ call.count \in Nat /\ PutBound \in Nat
      BY <1>1, Bounds, Constants DEF TypeOK, Calls
    <3> QED BY <3>1, <3>2, RoomIs, UsedIs, Constants
  <2>2. tx_in' \in Slots
    BY <1>1, <1>5, <2>1, InMoves DEF WritePublish, TypeOK
  <2>3. put' \in 0..MaxPut
    <3>1. put \in Nat /\ PutBound \in 0..MaxPut /\ put' = put + call.n
      BY <1>1, <1>5, Bounds, Constants DEF WritePublish, TypeOK
    <3> QED BY <2>1, <3>1, Constants
  <2> QED
    <3>1. /\ pc' = "write_look"
          /\ UNCHANGED <<tx_buf, tx_out, rx_buf, rx_in, rx_out, re, we, attached,
                         heard, typed, handed>>
      BY <1>5 DEF WritePublish
    <3>2. re' \in BOOLEAN /\ we' \in BOOLEAN /\ attached' \in BOOLEAN
      BY <1>8, <3>1, Zenon
    <3> QED BY <1>0, <1>1, <1>8, <2>2, <2>3, <3>1, <3>2 DEF TypeOK, Calls
<1>6. CASE ReadCopy
  <2>1. call.out + call.k \in Slots
    <3>1. /\ call.out = rx_out /\ call.k < call.n /\ call.n \in 1..call.count
          /\ call.n <= DataAhead(rx_in, rx_out)
      BY <1>1, <1>6 DEF ReadCopy, Caller, CallInv, Copying
    <3>2. rx_in \in Slots /\ rx_out \in Slots /\ call.k \in Nat /\ call.count \in Nat
      BY <1>1, Constants DEF TypeOK
    <3>3. call.n \in Nat /\ rx_out + call.n <= BUF_LEN /\ rx_out \in Nat
      BY <3>1, <3>2, DataIs, UsedIs, Constants
    <3> QED BY <3>1, <3>2, <3>3, Constants DEF Slots
  <2>2. handed' \in Nat
    BY <1>1, <1>6, <2>1 DEF ReadCopy, TypeOK
  <2> QED
    <3>1. UNCHANGED <<pc, tx_buf, tx_in, tx_out, rx_buf, rx_in, rx_out, re, we,
                      attached, put, heard, typed>>
      BY <1>6 DEF ReadCopy, driver
    <3>2. re' \in BOOLEAN /\ we' \in BOOLEAN /\ attached' \in BOOLEAN
      BY <1>8, <3>1, Zenon
    <3> QED BY <1>0, <1>1, <1>8, <2>2, <3>1, <3>2 DEF TypeOK, Calls
<1>7. CASE ReadPublish
  <2>1. /\ call.out = rx_out /\ call.n \in 1..Used(rx_in, rx_out)
        /\ rx_out + call.n <= BUF_LEN
    <3>1. /\ call.out = rx_out /\ call.n \in 1..call.count
          /\ call.n <= DataAhead(rx_in, rx_out)
      BY <1>1, <1>7 DEF ReadPublish, Caller, CallInv, Copying
    <3>2. rx_in \in Slots /\ rx_out \in Slots /\ call.count \in Nat
      BY <1>1, Constants DEF TypeOK
    <3> QED BY <3>1, <3>2, DataIs, UsedIs, Constants
  <2>2. rx_out' \in Slots
    BY <1>1, <1>7, <2>1, OutMoves DEF ReadPublish, TypeOK
  <2> QED
    <3>1. /\ pc' = "read_look"
          /\ UNCHANGED <<tx_buf, tx_in, tx_out, rx_buf, rx_in, re, we, attached,
                         put, heard, typed, handed>>
      BY <1>7 DEF ReadPublish, world
    <3>2. re' \in BOOLEAN /\ we' \in BOOLEAN /\ attached' \in BOOLEAN
      BY <1>8, <3>1, Zenon
    <3> QED BY <1>0, <1>1, <1>8, <2>2, <3>1, <3>2 DEF TypeOK, Calls
<1> QED
  BY <1>3, <1>4, <1>5, <1>6, <1>7 DEF Write, Read

(* The interrupt routine, the clock and the host leave the caller alone.      *)
LEMMA OthersType ==
  ASSUME UartInv, Ioctl \/ Interrupt \/ ClockTick
                  \/ HostTakes \/ HostTypes \/ HostComesOrGoes
  PROVE  TypeOK'
<1>1. TypeOK /\ SpaceInv
  BY DEF UartInv
<1>2. CASE Ioctl
  <2>1. timeout' \in 2..IntMax
    BY <1>2, Constants DEF Ioctl
  <2>2. /\ UNCHANGED <<tx_buf, tx_in, tx_out, rx_buf, rx_in, rx_out, re, we>>
        /\ UNCHANGED <<host_inactive, ac, pc, call, isr, loc, tx_fifo, rx_fifo>>
        /\ UNCHANGED <<attached, put, heard, typed, handed, setting>>
    BY <1>2 DEF Ioctl, driver, fifos, world
  <2>3. re' \in BOOLEAN /\ we' \in BOOLEAN /\ ac' \in BOOLEAN
    BY <1>1, <2>2, Zenon DEF TypeOK
  <2> QED BY <1>1, <2>1, <2>2, <2>3, SMTT(30) DEF TypeOK
<1>3. CASE IsrEnter
  BY <1>1, <1>3, SMTT(30) DEF IsrEnter, Isr, TypeOK, driver, clock, fifos
<1>4. CASE IsrTop
  <2>1. loc' \in [wi : BOOLEAN, space : 0..FIFO_LEN, ravail : BOOLEAN]
    <3>1. tx_fifo \in Seq(Nat) /\ Len(tx_fifo) <= FIFO_LEN
      BY <1>1 DEF TypeOK
    <3>2. FIFO_LEN - Len(tx_fifo) \in 0..FIFO_LEN
      BY <3>1, Constants
    <3>3. WI \in BOOLEAN
      BY DEF WI
    <3>4. 0 \in 0..FIFO_LEN
      BY Constants
    <3>5. NoIsr \in [wi : BOOLEAN, space : 0..FIFO_LEN, ravail : BOOLEAN]
      BY <3>4 DEF NoIsr
    <3>6. CASE RI \/ WI
      <4>1. loc' = [wi |-> WI, space |-> FIFO_LEN - Len(tx_fifo), ravail |-> TRUE]
        BY <1>4, <3>6 DEF IsrTop
      <4> QED BY <3>2, <3>3, <4>1
    <3>7. CASE ~(RI \/ WI)
      BY <1>4, <3>5, <3>7 DEF IsrTop
    <3> QED BY <3>6, <3>7
  <2>2. isr' \in {"out", "top", "rx", "tx"}
    BY <1>4, Zenon DEF IsrTop
  <2> QED BY <1>1, <1>4, <2>1, <2>2 DEF IsrTop, Isr, TypeOK, driver, clock, fifos
<1>5. CASE IsrReceive
  <2>1. Head(rx_fifo) \in Nat /\ Tail(rx_fifo) \in Seq(Nat)
        /\ Len(Tail(rx_fifo)) <= FIFO_LEN
    <3>1. rx_fifo \in Seq(Nat) /\ Len(rx_fifo) <= FIFO_LEN /\ rx_fifo # <<>>
      BY <1>1, <1>5 DEF IsrReceive, TypeOK
    <3> QED BY <3>1, HeadTailProperties, Constants
  <2>2. rx_in' \in Slots
    BY <1>1, <1>5, NotFull, InMoves, SMTT(30) DEF IsrReceive, TypeOK
  <2>3. loc' \in [wi : BOOLEAN, space : 0..FIFO_LEN, ravail : BOOLEAN]
    <3>1. loc \in [wi : BOOLEAN, space : 0..FIFO_LEN, ravail : BOOLEAN]
      BY <1>1 DEF TypeOK
    <3>2. (Len(rx_fifo) > 1) \in BOOLEAN
      OBVIOUS
    <3>3. loc' = [loc EXCEPT !.ravail = Len(rx_fifo) > 1]
      BY <1>5 DEF IsrReceive
    <3> QED BY <3>1, <3>2, <3>3
  <2>4. rx_buf' \in [Slots -> Nat]
    BY <1>1, <1>5, <2>1 DEF IsrReceive, TypeOK
  <2> QED
    BY <1>1, <1>5, <2>1, <2>2, <2>3, <2>4 DEF IsrReceive, Isr, TypeOK, clock
<1>6. CASE IsrReceived
  BY <1>1, <1>6 DEF IsrReceived, Isr, TypeOK, clock, fifos
<1>7. CASE IsrSend
  <2>1. tx_buf[tx_out] \in Nat /\ tx_fifo \in Seq(Nat)
    BY <1>1 DEF TypeOK
  <2>2. /\ Append(tx_fifo, tx_buf[tx_out]) \in Seq(Nat)
        /\ Len(Append(tx_fifo, tx_buf[tx_out])) <= FIFO_LEN
    <3>1. /\ loc.space > 0 /\ loc.space + Len(tx_fifo) <= FIFO_LEN /\ loc.space \in Nat
          /\ Len(tx_fifo) \in Nat
      BY <1>1, <1>7, <2>1, Constants DEF IsrSend, Isr, SpaceInv, TypeOK
    <3> QED BY <2>1, <3>1, AppendProperties, Constants
  <2>3. tx_out' \in Slots
    <3>1. 1 \in 1..Used(tx_in, tx_out) /\ tx_out + 1 <= BUF_LEN
      <4>1. tx_in \in Slots /\ tx_out \in Slots /\ tx_out # tx_in
        BY <1>1, <1>7 DEF IsrSend, TypeOK
      <4> QED BY <4>1, UsedIs, Constants DEF Slots
    <3> QED BY <1>1, <1>7, <3>1, OutMoves DEF IsrSend, TypeOK
  <2>4. loc' \in [wi : BOOLEAN, space : 0..FIFO_LEN, ravail : BOOLEAN]
    <3>1. /\ loc \in [wi : BOOLEAN, space : 0..FIFO_LEN, ravail : BOOLEAN]
          /\ loc.space > 0 /\ loc' = [loc EXCEPT !.space = loc.space - 1]
      BY <1>1, <1>7 DEF IsrSend, TypeOK
    <3>2. loc.space - 1 \in 0..FIFO_LEN
      BY <3>1, Constants
    <3> QED BY <3>1, <3>2
  <2> QED
    BY <1>1, <1>7, <2>2, <2>3, <2>4 DEF IsrSend, Isr, TypeOK, clock
<1>8. CASE IsrSent
  BY <1>1, <1>8 DEF IsrSent, Isr, TypeOK, clock, fifos
<1>9. CASE ClockTick
  <2>1. host_inactive' \in 0..IntMax /\ ac' \in BOOLEAN
    <3>1. host_inactive \in 0..IntMax /\ ac \in BOOLEAN
      BY <1>1 DEF TypeOK
    <3>2. CASE ac
      <4>1. host_inactive' = 0 /\ ac' = FALSE
        BY <1>9, <3>2 DEF ClockTick
      <4>2. ac' \in BOOLEAN
        BY <4>1, Zenon
      <4>3. host_inactive' \in 0..IntMax
        BY <4>1, Constants
      <4> QED BY <4>2, <4>3
    <3>3. CASE ~ac
      <4>1. host_inactive < IntMax - 2 /\ host_inactive' = host_inactive + 1 /\ ac' = ac
        BY <1>9, <3>3 DEF ClockTick
      <4> QED BY <3>1, <4>1, Constants
    <3> QED BY <3>2, <3>3
  <2> QED BY <1>1, <1>9, <2>1, SMTT(30) DEF ClockTick, TypeOK, driver, fifos, world
<1>10. CASE HostTakes
  <2>1. Head(tx_fifo) \in Nat /\ Tail(tx_fifo) \in Seq(Nat)
        /\ Len(Tail(tx_fifo)) <= FIFO_LEN
    <3>1. tx_fifo \in Seq(Nat) /\ Len(tx_fifo) <= FIFO_LEN /\ tx_fifo # <<>>
      BY <1>1, <1>10 DEF HostTakes, TypeOK
    <3> QED BY <3>1, HeadTailProperties, Constants
  <2> QED BY <1>1, <1>10, <2>1, SMTT(30) DEF HostTakes, TypeOK, driver
<1>11. CASE HostTypes
  <2>1. typed' \in 0..MaxTyped /\ typed' \in Nat
    BY <1>1, <1>11, Bounds, BoundAssumption DEF HostTypes, TypeOK
  <2>2. Append(rx_fifo, typed') \in Seq(Nat) /\ Len(Append(rx_fifo, typed')) <= FIFO_LEN
    BY <1>1, <1>11, <2>1, Constants DEF HostTypes, TypeOK
  <2> QED BY <1>1, <1>11, <2>1, <2>2, SMTT(30) DEF HostTypes, TypeOK, driver
<1>12. CASE HostComesOrGoes
  <2>1. attached' \in BOOLEAN
    BY <1>12 DEF HostComesOrGoes
  <2>2. /\ UNCHANGED <<tx_buf, tx_in, tx_out, rx_buf, rx_in, rx_out, re, we>>
        /\ UNCHANGED <<timeout, host_inactive, ac, pc, call, isr, loc>>
        /\ UNCHANGED <<tx_fifo, rx_fifo, put, heard, typed, handed, setting>>
    BY <1>12 DEF HostComesOrGoes, driver, clock, fifos
  <2>3. re' \in BOOLEAN /\ we' \in BOOLEAN /\ ac' \in BOOLEAN
    BY <1>1, <2>2, Zenon DEF TypeOK
  <2> QED BY <1>1, <2>1, <2>2, <2>3 DEF TypeOK
<1> QED
  BY <1>2, <1>3, <1>4, <1>5, <1>6, <1>7, <1>8, <1>9, <1>10, <1>11, <1>12
  DEF Interrupt

LEMMA TypeStep == UartInv /\ [Next]_vars => TypeOK'
<1> SUFFICES ASSUME UartInv, [Next]_vars PROVE TypeOK'
  OBVIOUS
<1>1. CASE UNCHANGED vars
  <2>1. /\ UNCHANGED <<tx_buf, tx_in, tx_out, rx_buf, rx_in, rx_out, re, we>>
        /\ UNCHANGED <<timeout, host_inactive, ac, pc, call, isr, loc>>
        /\ UNCHANGED <<tx_fifo, rx_fifo, attached, put, heard, typed, handed, setting>>
    BY <1>1 DEF vars, driver, clock, fifos, world
  <2>2. re' \in BOOLEAN /\ we' \in BOOLEAN /\ ac' \in BOOLEAN /\ attached' \in BOOLEAN
    BY <2>1, Zenon DEF UartInv, TypeOK
  <2> QED BY <2>1, <2>2 DEF UartInv, TypeOK
<1> QED
  BY <1>1, CallerType, OthersType DEF Next

-----------------------------------------------------------------------------
(***************************************************************************)
(* What the types say of the numbers in a state.                            *)
(***************************************************************************)
LEMMA Numbers ==
  ASSUME UartInv
  PROVE  /\ tx_in \in Slots /\ tx_out \in Slots /\ rx_in \in Slots /\ rx_out \in Slots
         /\ call.count \in Nat /\ call.ptr \in Nat /\ call.n \in Nat /\ call.k \in Nat
         /\ put \in Nat /\ heard \in Nat /\ typed \in Nat /\ handed \in Nat
         /\ tx_fifo \in Seq(Nat) /\ rx_fifo \in Seq(Nat)
         /\ Len(tx_fifo) \in Nat /\ Len(rx_fifo) \in Nat
         /\ loc.space \in Nat
         /\ PutBound \in Nat
<1>1. call \in Calls /\ loc.space \in 0..FIFO_LEN /\ setting \in Settings
  BY DEF UartInv, TypeOK, Calls
<1>2. /\ call.count \in Nat /\ call.ptr \in Nat /\ call.n \in Nat /\ call.k \in Nat
      /\ loc.space \in Nat
  BY <1>1, Constants DEF Calls
<1>3. PutBound \in Nat
  BY <1>1, Bounds, Constants
<1>4. put \in 0..MaxPut /\ typed \in 0..MaxTyped
  BY DEF UartInv, TypeOK
<1>5. /\ tx_in \in Slots /\ tx_out \in Slots /\ rx_in \in Slots /\ rx_out \in Slots
      /\ heard \in Nat /\ handed \in Nat
      /\ tx_fifo \in Seq(Nat) /\ rx_fifo \in Seq(Nat)
  BY DEF UartInv, TypeOK
<1>6. Len(tx_fifo) \in Nat /\ Len(rx_fifo) \in Nat
  BY <1>5
<1>7. put \in Nat /\ typed \in Nat
  BY <1>4, BoundAssumption
<1> QED
  BY <1>2, <1>3, <1>5, <1>6, <1>7

(* NoCall, and a call that begins. *)
LEMMA Fresh ==
  /\ NoCall.count = 0 /\ NoCall.ptr = 0 /\ NoCall.k = 0
  /\ \A c \in Nat, b \in BOOLEAN :
       LET new == [NoCall EXCEPT !.count = c, !.nonblock = b]
       IN  new.count = c /\ new.ptr = 0 /\ new.k = 0
BY DEF NoCall

LEMMA CallerCall ==
  ASSUME UartInv,
         \/ WriteCall \/ Write \/ ReadCall \/ Read \/ CloseCall \/ Close
  PROVE  CallInv'
<1>0. /\ CallInv
      /\ call \in Calls
      /\ PutBound' = PutBound
  <2>1. setting' = setting
    BY DEF Quiet, Write, Read, WriteCall, WriteLook, WriteCopy, WritePublish,
         WriteKick, WriteWait, ReadCall, ReadLook, ReadCopy, ReadPublish,
         ReadArm, ReadWait, CloseCall, Close
  <2>2. PutBound' = PutBound
    BY <2>1, Zenon DEF PutBound
  <2> QED BY <2>2 DEF UartInv, TypeOK, Calls
<1> USE DEF CallInv, Copying, Writing, Caller
<1>1. CASE WriteCall
  <2>1. PICK count \in 1..MaxCall, nonblock \in BOOLEAN :
          /\ put + count <= PutBound
          /\ call' = [NoCall EXCEPT !.count = count, !.nonblock = nonblock]
    BY <1>1 DEF WriteCall
  <2>2. pc' = "write_look" /\ put' = put /\ count \in Nat /\ count <= MaxCall
    <3>1. pc' = "write_look" /\ put' = put
      BY <1>1 DEF WriteCall, world
    <3> QED BY <3>1, Constants
  <2>3. call'.count = count /\ call'.ptr = 0 /\ call'.k = 0
    BY <2>1, <2>2, Fresh
  <2> QED BY <1>0, <2>1, <2>2, <2>3
<1>2. CASE ReadCall
  <2>1. PICK count \in 1..MaxCall, nonblock \in BOOLEAN :
          call' = [NoCall EXCEPT !.count = count, !.nonblock = nonblock]
    BY <1>2 DEF ReadCall
  <2>2. pc' = "read_look" /\ count \in Nat /\ count <= MaxCall
    <3>1. pc' = "read_look"
      BY <1>2 DEF ReadCall
    <3> QED BY <3>1, Constants
  <2>3. call'.count = count /\ call'.ptr = 0 /\ call'.k = 0
    BY <2>1, <2>2, Fresh
  <2> QED BY <2>2, <2>3
<1>3. CASE CloseCall
  <2>1. PICK nonblock \in BOOLEAN : call' = [NoCall EXCEPT !.nonblock = nonblock]
    BY <1>3 DEF CloseCall
  <2>2. pc' = "close"
    BY <1>3 DEF CloseCall
  <2>3. call'.count = 0 /\ call'.ptr = 0 /\ call'.k = 0
    BY <2>1 DEF NoCall
  <2> QED BY <2>2, <2>3, Constants
<1>4. CASE pc' = "idle" /\ call' = NoCall
  BY <1>4, Fresh, Constants
<1>5. CASE WriteLook
  <2>1. pc = "write_look" /\ UNCHANGED <<tx_in, tx_out, put>>
    BY <1>5 DEF WriteLook, driver, world
  <2>2. CASE call' = call /\ pc' = "write_kick"
    BY <1>0, <2>1, <2>2
  <2>3. CASE /\ call.count # 0
             /\ call' = [call EXCEPT !.in = tx_in, !.out = tx_out,
                                     !.n = Least(RoomAhead(tx_in, tx_out), call.count)]
             /\ pc' = IF RoomAhead(tx_in, tx_out) = 0 THEN "write_kick" ELSE "write_copy"
    <3>1. /\ call'.count = call.count /\ call'.ptr = call.ptr /\ call'.k = call.k
          /\ call'.in = tx_in
          /\ call'.n = Least(RoomAhead(tx_in, tx_out), call.count)
      BY <1>0, <2>3 DEF Calls
    <3>2. RoomAhead(tx_in, tx_out) \in Nat
      <4>1. tx_in \in Slots /\ tx_out \in Slots
        BY Numbers
      <4> QED BY <4>1, RoomIs, UsedIs, Constants
    <3> QED BY <1>0, <2>1, <2>3, <3>1, <3>2, Numbers, SMTT(30) DEF Least
  <2> QED BY <1>5, <2>2, <2>3 DEF WriteLook
<1>6. CASE WriteCopy \/ ReadCopy
  <2>1. /\ call.k < call.n /\ call' = [call EXCEPT !.k = @ + 1]
        /\ UNCHANGED <<pc, tx_in, tx_out, rx_in, rx_out, put>>
        /\ Copying
    BY <1>6 DEF WriteCopy, ReadCopy, driver, world
  <2>2. /\ call'.count = call.count /\ call'.ptr = call.ptr /\ call'.k = call.k + 1
        /\ call'.in = call.in /\ call'.out = call.out /\ call'.n = call.n
    BY <1>0, <2>1 DEF Calls
  <2>3. /\ call.ptr \in Nat /\ call.count \in Nat /\ call.n \in 1..call.count
        /\ call.k \in Nat /\ call.k + 1 <= call.n
    BY <1>0, <2>1, Numbers
  <2>4. CASE pc = "write_copy"
    BY <1>0, <2>1, <2>2, <2>3, <2>4
  <2>5. CASE pc = "read_copy"
    BY <1>0, <2>1, <2>2, <2>3, <2>5
  <2> QED BY <2>1, <2>4, <2>5
<1>7. CASE WritePublish \/ ReadPublish
  <2>1. /\ call' = [call EXCEPT !.ptr = @ + call.n, !.count = @ - call.n, !.k = 0]
        /\ \/ pc = "write_copy" /\ pc' = "write_look" /\ put' = put + call.n
           \/ pc = "read_copy" /\ pc' = "read_look" /\ put' = put
        /\ Copying
    BY <1>7 DEF WritePublish, ReadPublish, world
  <2>2. /\ call'.count = call.count - call.n /\ call'.ptr = call.ptr + call.n
        /\ call'.k = 0
    BY <1>0, <2>1 DEF Calls
  <2>3. call.ptr \in Nat /\ call.count \in Nat /\ call.n \in 1..call.count
    BY <1>0, <2>1, Numbers
  <2>4. call'.ptr + call'.count <= MaxCall /\ pc' \notin {"write_copy", "read_copy"}
    BY <1>0, <2>1, <2>2, <2>3
  <2>5. Writing' => put' + call'.count <= PutBound'
    <3>1. CASE pc = "write_copy" /\ put' = put + call.n
      BY <1>0, <2>2, <2>3, <3>1, Numbers
    <3>2. CASE pc' = "read_look"
      BY <3>2
    <3> QED BY <2>1, <3>1, <3>2
  <2> QED BY <2>2, <2>4, <2>5
<1>8. CASE WriteKick \/ WriteWait
  <2>1. CASE /\ pc \in {"write_kick", "write_wait"} /\ pc' \in {"write_wait", "write_look"}
             /\ call' = call /\ put' = put
    BY <1>0, <2>1
  <2> QED BY <1>4, <1>8, <2>1 DEF WriteKick, WriteWait, world
<1>9. CASE ReadLook
  <2>1. pc = "read_look" /\ UNCHANGED <<rx_in, rx_out, put>>
    BY <1>9 DEF ReadLook, driver, world
  <2>2. CASE call' = call /\ pc' = "read_arm"
    BY <1>0, <2>1, <2>2
  <2>3. CASE call' = [call EXCEPT !.in = rx_in] /\ pc' = "read_wait"
    <3>1. call'.count = call.count /\ call'.ptr = call.ptr /\ call'.k = call.k
      BY <1>0, <2>3 DEF Calls
    <3> QED BY <1>0, <2>1, <2>3, <3>1
  <2>4. CASE /\ call.count > 0 /\ DataAhead(rx_in, rx_out) > 0
             /\ call' = [call EXCEPT !.in = rx_in, !.out = rx_out,
                                     !.n = Least(DataAhead(rx_in, rx_out), call.count)]
             /\ pc' = "read_copy"
    <3>1. /\ call'.count = call.count /\ call'.ptr = call.ptr /\ call'.k = call.k
          /\ call'.out = rx_out
          /\ call'.n = Least(DataAhead(rx_in, rx_out), call.count)
      BY <1>0, <2>4 DEF Calls
    <3>2. DataAhead(rx_in, rx_out) \in Nat
      <4>1. rx_in \in Slots /\ rx_out \in Slots
        BY Numbers
      <4> QED BY <4>1, DataIs, UsedIs, Constants
    <3> QED BY <1>0, <2>1, <2>4, <3>1, <3>2, Numbers DEF Least
  <2> QED BY <1>4, <1>9, <2>2, <2>3, <2>4 DEF ReadLook
<1>10. CASE ReadWait
  <2>1. CASE pc = "read_wait" /\ pc' = "read_look" /\ call' = call
    BY <1>0, <2>1
  <2> QED BY <1>4, <1>10, <2>1 DEF ReadWait
<1>11. CASE ReadArm \/ Close
  BY <1>4, <1>11 DEF ReadArm, Close
<1> QED
  BY <1>1, <1>2, <1>3, <1>5, <1>6, <1>7, <1>8, <1>9, <1>10, <1>11 DEF Write, Read

(* The other end moves on; the caller's room or data may grow, not shrink.    *)
LEMMA OthersCall ==
  ASSUME UartInv, Ioctl \/ Interrupt \/ ClockTick
                  \/ HostTakes \/ HostTypes \/ HostComesOrGoes
  PROVE  CallInv'
<1>1. /\ UNCHANGED <<pc, call, put>>
      /\ tx_in' = tx_in /\ rx_out' = rx_out
      /\ setting' = setting
  BY DEF Ioctl, Interrupt, IsrEnter, IsrTop, IsrReceive, IsrReceived, IsrSend, IsrSent,
         Isr, ClockTick, HostTakes, HostTypes, HostComesOrGoes, driver, world
<1>2. PutBound' = PutBound
  BY <1>1, Zenon DEF PutBound
<1>3. pc = "write_copy" => RoomAhead(tx_in', tx_out') >= RoomAhead(tx_in, tx_out)
  <2>1. CASE IsrSend
    <3>1. tx_in # tx_out /\ tx_out' = Ahead(tx_out, 1)
      BY <2>1 DEF IsrSend
    <3> QED BY <1>1, <3>1, RoomGrows, Numbers
  <2>2. CASE tx_out' = tx_out
    <3>1. tx_in \in Slots /\ tx_out \in Slots
      BY Numbers
    <3>2. RoomAhead(tx_in, tx_out) \in Nat
      BY <3>1, RoomIs, UsedIs, Constants
    <3> QED BY <1>1, <2>2, <3>2
  <2> QED
    BY <2>1, <2>2 DEF Ioctl, Interrupt, IsrEnter, IsrTop, IsrReceive, IsrReceived, IsrSent,
         ClockTick, HostTakes, HostTypes, HostComesOrGoes, driver
<1>4. pc = "read_copy" => DataAhead(rx_in', rx_out') >= DataAhead(rx_in, rx_out)
  <2>1. CASE IsrReceive
    <3>1. Ahead(rx_in, 1) # rx_out /\ rx_in' = Ahead(rx_in, 1)
      BY <2>1 DEF IsrReceive
    <3> QED BY <1>1, <3>1, DataGrow, Numbers
  <2>2. CASE rx_in' = rx_in
    <3>1. rx_in \in Slots /\ rx_out \in Slots
      BY Numbers
    <3>2. DataAhead(rx_in, rx_out) \in Nat
      BY <3>1, DataIs, UsedIs, Constants
    <3> QED BY <1>1, <2>2, <3>2
  <2> QED
    BY <2>1, <2>2 DEF Ioctl, Interrupt, IsrEnter, IsrTop, IsrReceived, IsrSend, IsrSent,
         ClockTick, HostTakes, HostTypes, HostComesOrGoes, driver
<1>5. CallInv
  BY DEF UartInv
<1>6. pc = "write_copy" => call.n <= RoomAhead(tx_in', tx_out')
  <2>1. TypeOK'
    BY OthersType
  <2>2. tx_in \in Slots /\ tx_out \in Slots /\ tx_in' \in Slots /\ tx_out' \in Slots
    BY <2>1, Numbers DEF TypeOK
  <2>3. RoomAhead(tx_in, tx_out) \in Nat /\ RoomAhead(tx_in', tx_out') \in Nat
    BY <2>2, RoomIs, UsedIs, Constants
  <2> QED BY <1>3, <1>5, <2>3, Numbers DEF CallInv
<1>7. pc = "read_copy" => call.n <= DataAhead(rx_in', rx_out')
  <2>1. TypeOK'
    BY OthersType
  <2>2. rx_in \in Slots /\ rx_out \in Slots /\ rx_in' \in Slots /\ rx_out' \in Slots
    BY <2>1, Numbers DEF TypeOK
  <2>3. DataAhead(rx_in, rx_out) \in Nat /\ DataAhead(rx_in', rx_out') \in Nat
    BY <2>2, DataIs, UsedIs, Constants
  <2> QED BY <1>4, <1>5, <2>3, Numbers DEF CallInv
<1> QED
  BY <1>1, <1>2, <1>5, <1>6, <1>7 DEF CallInv, Copying, Writing

LEMMA CallStep == UartInv /\ [Next]_vars => CallInv'
<1> SUFFICES ASSUME UartInv, [Next]_vars PROVE CallInv'
  OBVIOUS
<1>1. CASE UNCHANGED vars
  <2>1. UNCHANGED <<pc, call, put, tx_in, tx_out, rx_in, rx_out, setting>>
    BY <1>1 DEF vars, driver, world
  <2>2. PutBound' = PutBound
    BY <2>1, Zenon DEF PutBound
  <2> QED BY <2>1, <2>2 DEF UartInv, CallInv, Copying, Writing
<1> QED
  BY <1>1, CallerCall, OthersCall DEF Next

(* The routine reads the space once and then counts it down itself.           *)
LEMMA SpaceStep == UartInv /\ [Next]_vars => SpaceInv'
<1> SUFFICES ASSUME UartInv, [Next]_vars PROVE SpaceInv'
  OBVIOUS
<1>1. /\ SpaceInv
      /\ loc \in [wi : BOOLEAN, space : 0..FIFO_LEN, ravail : BOOLEAN]
  BY DEF UartInv, TypeOK
<1>2. CASE UNCHANGED <<isr, loc, tx_fifo>>
  BY <1>1, <1>2 DEF SpaceInv
<1>3. CASE IsrEnter \/ IsrSent
  <2>1. isr' = "top"
    BY <1>3 DEF IsrEnter, IsrSent
  <2> QED BY <2>1 DEF SpaceInv
<1>4. CASE IsrTop
  <2>1. ~(RI \/ WI) => isr' = "out"
    BY <1>4, Zenon DEF IsrTop
  <2>2. RI \/ WI => loc'.space = FIFO_LEN - Len(tx_fifo) /\ tx_fifo' = tx_fifo
    BY <1>4 DEF IsrTop, fifos
  <2>3. Len(tx_fifo) \in Nat /\ FIFO_LEN \in Nat
    BY Numbers, Constants
  <2>4. RI \/ WI => loc'.space + Len(tx_fifo') <= FIFO_LEN
    BY <2>2, <2>3
  <2> QED BY <2>1, <2>4 DEF SpaceInv
<1>5. CASE IsrReceive \/ IsrReceived
  <2>1. isr = "rx" /\ tx_fifo' = tx_fifo /\ loc'.space = loc.space
    BY <1>1, <1>5 DEF IsrReceive, IsrReceived, Isr, fifos
  <2> QED BY <1>1, <2>1 DEF SpaceInv
<1>6. CASE IsrSend
  <2>1. /\ isr = "tx" /\ loc'.space = loc.space - 1
        /\ tx_fifo' = Append(tx_fifo, tx_buf[tx_out])
    BY <1>1, <1>6 DEF IsrSend, Isr
  <2>2. tx_buf[tx_out] \in Nat
    BY DEF UartInv, TypeOK
  <2>3. Len(tx_fifo') = Len(tx_fifo) + 1
    BY <2>1, <2>2, AppendProperties, Numbers
  <2> QED BY <1>1, <2>1, <2>3, Numbers, Constants DEF SpaceInv
<1>7. CASE HostTakes
  <2>1. /\ tx_fifo # <<>> /\ tx_fifo' = Tail(tx_fifo) /\ isr' = isr /\ loc' = loc
    BY <1>7 DEF HostTakes
  <2>2. Len(tx_fifo') = Len(tx_fifo) - 1
    BY <2>1, HeadTailProperties, Numbers
  <2> QED BY <1>1, <2>1, <2>2, Numbers, Constants, SMTT(30) DEF SpaceInv
<1> QED
  BY <1>2, <1>3, <1>4, <1>5, <1>6, <1>7
  DEF Next, Write, Read, Interrupt, Quiet, WriteCall, WriteLook, WriteCopy, WritePublish,
      WriteKick, WriteWait, ReadCall, ReadLook, ReadCopy, ReadPublish, ReadArm, ReadWait,
      CloseCall, Close, Ioctl, ClockTick, HostTypes, HostComesOrGoes, vars, fifos

-----------------------------------------------------------------------------
(***************************************************************************)
(* No interrupt that is needed stays off.                                   *)
(***************************************************************************)
LEMMA KickStep == UartInv /\ [Next]_vars => SendingKicked'
<1> SUFFICES ASSUME UartInv, [Next]_vars PROVE SendingKicked'
  OBVIOUS
<1>1. SendingKicked
  BY DEF UartInv
<1>2. CASE pc' \in {"write_look", "write_copy", "write_kick"} \/ we'
  BY <1>2 DEF SendingKicked
<1>3. CASE /\ UNCHANGED <<tx_in, tx_out, we>>
           /\ pc \in {"write_look", "write_copy", "write_kick"} => pc' = pc
  BY <1>1, <1>3 DEF SendingKicked
<1>4. CASE IsrSend
  <2>1. tx_in # tx_out /\ we' = we /\ pc' = pc
    BY <1>4 DEF IsrSend, Isr
  <2> QED BY <1>1, <2>1 DEF SendingKicked
<1>5. CASE IsrSent
  <2>1. /\ loc.space = 0 \/ tx_out = tx_in
        /\ we' = (we /\ loc.space = 0)
        /\ pc' = pc /\ tx_in' = tx_in /\ tx_out' = tx_out
    BY <1>5 DEF IsrSent, Isr
  <2> QED BY <1>1, <2>1 DEF SendingKicked
<1>6. CASE WriteCall \/ WriteLook \/ WriteCopy \/ WritePublish \/ WriteKick
  BY <1>2, <1>6 DEF WriteCall, WriteLook, WriteCopy, WritePublish, WriteKick, Caller
<1>7. CASE WriteWait \/ ReadCall \/ Read \/ CloseCall \/ Close
  BY <1>3, <1>7 DEF WriteWait, ReadCall, Read, ReadLook, ReadCopy, ReadPublish, ReadArm,
       ReadWait, CloseCall, Close, Caller, driver
<1>8. CASE UNCHANGED vars \/ Ioctl \/ ClockTick \/ HostTakes \/ HostTypes \/ HostComesOrGoes
  BY <1>3, <1>8 DEF Ioctl, ClockTick, HostTakes, HostTypes, HostComesOrGoes, driver, vars
<1>9. CASE IsrEnter \/ IsrTop \/ IsrReceive \/ IsrReceived
  BY <1>3, <1>9 DEF IsrEnter, IsrTop, IsrReceive, IsrReceived, Isr, driver
<1> QED
  BY <1>4, <1>5, <1>6, <1>7, <1>8, <1>9 DEF Next, Write, Interrupt

LEMMA ArmStep == UartInv /\ [Next]_vars => ReceivingArmed'
<1> SUFFICES ASSUME UartInv, [Next]_vars PROVE ReceivingArmed'
  OBVIOUS
<1>1. ReceivingArmed /\ call \in Calls /\ CallInv
  BY DEF UartInv, TypeOK, Calls
<1>2. CASE re' \/ Ahead(rx_in', 1) = rx_out'
  BY <1>2 DEF ReceivingArmed, Ahead
<1>3. CASE /\ UNCHANGED <<rx_in, rx_out, re>>
           /\ pc \in {"read_look", "read_copy", "read_arm"} => pc' = pc /\ call' = call
  BY <1>1, <1>3 DEF ReceivingArmed, Ahead
<1>4. CASE WriteCall \/ Write \/ ReadCall \/ CloseCall \/ Close \/ ReadWait
  BY <1>3, <1>4 DEF WriteCall, Write, WriteLook, WriteCopy, WritePublish, WriteKick, WriteWait,
       ReadCall, CloseCall, Close, ReadWait, Caller, driver
<1>5. CASE ReadLook
  <2>1. pc = "read_look" /\ UNCHANGED <<rx_in, rx_out, re>>
    BY <1>5 DEF ReadLook, Caller, driver
  <2>2. CASE call.ptr > 0
    <3>1. /\ pc' \in {"read_copy", "read_arm"}
          /\ \/ call' = call
             \/ call' = [call EXCEPT !.in = rx_in, !.out = rx_out,
                                     !.n = Least(DataAhead(rx_in, rx_out), call.count)]
      BY <1>5, <2>2 DEF ReadLook
    <3>2. call'.ptr = call.ptr
      BY <1>1, <3>1 DEF Calls
    <3> QED BY <1>1, <2>2, <3>1, <3>2 DEF ReceivingArmed
  <2>3. CASE ~(call.ptr > 0)
    BY <1>1, <2>1, <2>3 DEF ReceivingArmed, Ahead
  <2> QED BY <2>2, <2>3
<1>6. CASE ReadCopy
  <2>1. /\ pc' = pc /\ UNCHANGED <<rx_in, rx_out, re>>
        /\ call' = [call EXCEPT !.k = @ + 1]
    BY <1>6 DEF ReadCopy, driver
  <2>2. call'.ptr = call.ptr
    BY <1>1, <2>1 DEF Calls
  <2> QED BY <1>1, <2>1, <2>2 DEF ReceivingArmed, Ahead
<1>7. CASE ReadPublish
  <2>1. /\ pc = "read_copy" /\ pc' = "read_look"
        /\ call' = [call EXCEPT !.ptr = @ + call.n, !.count = @ - call.n, !.k = 0]
    BY <1>7 DEF ReadPublish, Caller
  <2>2. call'.ptr = call.ptr + call.n
    BY <1>1, <2>1 DEF Calls
  <2>3. call.ptr + call.n > 0
    BY <1>1, <2>1, Numbers DEF CallInv, Copying
  <2> QED BY <2>1, <2>2, <2>3 DEF ReceivingArmed
<1>8. CASE ReadArm
  BY <1>2, <1>8 DEF ReadArm
<1>9. CASE IsrReceive
  <2>1. Ahead(rx_in, 1) # rx_out /\ re' = re /\ pc' = pc /\ call' = call
    BY <1>9 DEF IsrReceive, Isr
  <2> QED BY <1>1, <2>1 DEF ReceivingArmed
<1>10. CASE IsrReceived
  <2>1. /\ re' = (re /\ ~(Ahead(rx_in, 1) = rx_out /\ loc.ravail))
        /\ UNCHANGED <<rx_in, rx_out, pc, call>>
    BY <1>10 DEF IsrReceived, Isr
  <2> QED BY <1>1, <2>1 DEF ReceivingArmed, Ahead
<1>11. CASE UNCHANGED vars \/ Ioctl \/ ClockTick \/ HostTakes \/ HostTypes \/ HostComesOrGoes
  BY <1>3, <1>11 DEF Ioctl, ClockTick, HostTakes, HostTypes, HostComesOrGoes, driver, vars
<1>12. CASE IsrEnter \/ IsrTop \/ IsrSend \/ IsrSent
  BY <1>3, <1>12 DEF IsrEnter, IsrTop, IsrSend, IsrSent, Isr, driver
<1> QED
  BY <1>4, <1>5, <1>6, <1>7, <1>8, <1>9, <1>10, <1>11, <1>12 DEF Next, Read, Interrupt

-----------------------------------------------------------------------------
(***************************************************************************)
(* The way out.  Steps that leave the characters under way where they are.   *)
(***************************************************************************)
LEMMA TxKept ==
  ASSUME UartInv,
         UNCHANGED <<tx_buf, tx_in, tx_out, tx_fifo, heard, put>>,
         pc' = "write_copy" => \/ call'.k = 0
                               \/ pc = "write_copy" /\ call'.k = call.k
  PROVE  TxInv'
<1>1. TxInv
  BY DEF UartInv
<1> QED
  BY <1>1 DEF TxInv, Used

(* What a writer knows of the slots in front of it.                           *)
LEMMA WriteSlots ==
  ASSUME UartInv, pc = "write_copy"
  PROVE  /\ call.in = tx_in /\ call.n \in 1..(BUF_LEN - 1 - Used(tx_in, tx_out))
         /\ tx_in + call.n <= BUF_LEN
<1>1. /\ call.in = tx_in /\ call.n \in 1..call.count
      /\ call.n <= RoomAhead(tx_in, tx_out)
  BY DEF UartInv, CallInv, Copying
<1>2. /\ RoomAhead(tx_in, tx_out) \in 0..(BUF_LEN - 1 - Used(tx_in, tx_out))
      /\ tx_in + RoomAhead(tx_in, tx_out) <= BUF_LEN
      /\ Used(tx_in, tx_out) \in 0..(BUF_LEN - 1)
  BY RoomIs, UsedIs, Numbers
<1>3. tx_in \in Nat /\ call.count \in Nat /\ BUF_LEN \in Nat
  BY Numbers, Constants
<1>4. call.n \in Nat /\ call.n >= 1 /\ RoomAhead(tx_in, tx_out) \in Nat
  BY <1>1, <1>2, <1>3
<1> QED
  BY <1>1, <1>2, <1>3, <1>4

LEMMA TxCopies ==
  ASSUME UartInv, WriteCopy
  PROVE  TxInv'
<1>1. /\ pc = "write_copy" /\ pc' = "write_copy" /\ call.k < call.n
      /\ UNCHANGED <<tx_in, tx_out, tx_fifo, heard, put>>
      /\ tx_buf' = [tx_buf EXCEPT ![call.in + call.k] = put + 1 + call.k]
      /\ call' = [call EXCEPT !.k = @ + 1]
  BY DEF WriteCopy, Caller, Quiet, fifos, world
<1>2. TxInv /\ tx_buf \in [Slots -> Nat] /\ call \in Calls
  BY DEF UartInv, TypeOK, Calls
<1>3. call'.k = call.k + 1
  BY <1>1, <1>2 DEF Calls
<1>4. call.in = tx_in /\ call.k \in 0..(call.n - 1)
  BY <1>1, WriteSlots, Numbers
<1>5. \A j \in 0..(call.n - 1) :
        tx_in + j \in Slots /\ Used(tx_in + j, tx_out) = Used(tx_in, tx_out) + j
  BY <1>1, WriteSlots, InMoves, Numbers
<1>6. Used(tx_in, tx_out) \in Nat
  BY UsedNat, Numbers
<1>7. \A i \in Slots : Used(i, tx_out) < Used(tx_in, tx_out) => tx_buf'[i] = tx_buf[i]
  <2>1. ~(Used(tx_in + call.k, tx_out) < Used(tx_in, tx_out))
    BY <1>4, <1>5, <1>6, Numbers, SMTT(30)
  <2> QED BY <1>1, <1>2, <1>4, <2>1
<1>8. \A j \in 0..call.k : tx_buf'[tx_in + j] = put + 1 + j
  <2> TAKE j \in 0..call.k
  <2>1. j \in 0..(call.n - 1) /\ tx_in + j \in Slots /\ tx_in \in Nat /\ j \in Nat
    <3>1. call.k \in Nat /\ call.n \in Nat /\ tx_in \in Nat
      BY Numbers, Constants
    <3>2. j \in 0..(call.n - 1) /\ j \in Nat
      BY <1>4, <3>1
    <3> QED BY <1>5, <3>1, <3>2
  <2>2. CASE j = call.k
    BY <1>1, <1>2, <1>4, <2>1, <2>2
  <2>3. CASE j # call.k
    <3>1. j \in 0..(call.k - 1) /\ tx_in + j # tx_in + call.k
      BY <2>1, <2>3, Numbers, SMTT(30)
    <3>2. tx_buf[tx_in + j] = put + 1 + j
      BY <1>1, <1>2, <3>1 DEF TxInv
    <3> QED BY <1>1, <1>2, <1>4, <2>1, <3>1, <3>2
  <2> QED BY <2>2, <2>3
<1> QED
  <2>1. call'.k - 1 = call.k
    BY <1>3, Numbers
  <2>2. \A j \in 0..(call'.k - 1) : tx_buf'[tx_in' + j] = put' + 1 + j
    BY <1>1, <1>8, <2>1
  <2> QED BY <1>1, <1>2, <1>7, <2>2 DEF TxInv, Used

LEMMA TxPublishes ==
  ASSUME UartInv, WritePublish
  PROVE  TxInv'
<1>1. /\ pc = "write_copy" /\ pc' # "write_copy" /\ call.k = call.n
      /\ UNCHANGED <<tx_buf, tx_out, tx_fifo, heard>>
      /\ tx_in' = Ahead(call.in, call.n) /\ put' = put + call.n
  BY DEF WritePublish, Caller, Quiet, fifos
<1>2. TxInv
  BY DEF UartInv
<1>3. call.in = tx_in
  BY <1>1, WriteSlots
<1>4. /\ Used(tx_in', tx_out) = Used(tx_in, tx_out) + call.n
      /\ \A i \in Slots :
           Used(i, tx_out) < Used(tx_in, tx_out) + call.n /\ ~(Used(i, tx_out) < Used(tx_in, tx_out))
             => i = tx_in + (Used(i, tx_out) - Used(tx_in, tx_out))
  BY <1>1, <1>3, WriteSlots, InMoves, Numbers
<1>5. \A i \in Slots : Used(i, tx_out) \in Nat
  BY UsedNat, Numbers
<1>6. Used(tx_in, tx_out) \in Nat
  BY <1>5, Numbers
<1>7. \A i \in Slots : Used(i, tx_out) < Used(tx_in', tx_out) =>
        tx_buf[i] = heard + Len(tx_fifo) + 1 + Used(i, tx_out)
  <2> TAKE i \in Slots
  <2>1. CASE Used(i, tx_out) < Used(tx_in, tx_out)
    BY <1>2, <2>1 DEF TxInv
  <2>2. CASE /\ Used(i, tx_out) < Used(tx_in', tx_out)
             /\ ~(Used(i, tx_out) < Used(tx_in, tx_out))
    <3> DEFINE j == Used(i, tx_out) - Used(tx_in, tx_out)
    <3>1. i = tx_in + j /\ j \in 0..(call.k - 1)
      <4>1. Used(i, tx_out) \in Nat /\ call.n \in Nat
        BY <1>5, Numbers
      <4>2. Used(i, tx_out) < Used(tx_in, tx_out) + call.n
        BY <1>4, <2>2
      <4> QED BY <1>1, <1>4, <1>6, <2>2, <4>1, <4>2
    <3>2. tx_buf[tx_in + j] = put + 1 + j
      BY <1>1, <1>2, <3>1 DEF TxInv
    <3>3. put = heard + Len(tx_fifo) + Used(tx_in, tx_out)
      BY <1>2 DEF TxInv
    <3>4. Used(i, tx_out) \in Nat
      BY <1>5
    <3>5. heard \in Nat /\ Len(tx_fifo) \in Nat
      BY Numbers
    <3>6. put + 1 + j = heard + Len(tx_fifo) + 1 + Used(i, tx_out)
      BY <1>6, <3>3, <3>4, <3>5
    <3> HIDE DEF j
    <3> QED BY <3>1, <3>2, <3>6
  <2> QED BY <2>1, <2>2
<1>8. heard + Len(tx_fifo) + Used(tx_in', tx_out) = put + call.n
  BY <1>2, <1>4, <1>6, Numbers DEF TxInv
<1> QED
  BY <1>1, <1>2, <1>7, <1>8 DEF TxInv, Used

LEMMA TxSends ==
  ASSUME UartInv, IsrSend
  PROVE  TxInv'
<1>1. /\ tx_out # tx_in
      /\ tx_fifo' = Append(tx_fifo, tx_buf[tx_out])
      /\ tx_out' = Ahead(tx_out, 1)
      /\ UNCHANGED <<tx_buf, tx_in, heard, put, pc, call>>
  BY DEF IsrSend, Isr
<1>2. TxInv /\ tx_buf \in [Slots -> Nat]
  BY DEF UartInv, TypeOK
<1>3. 1 \in 1..Used(tx_in, tx_out) /\ tx_out + 1 <= BUF_LEN
  <2>1. tx_in \in Slots /\ tx_out \in Slots
    BY Numbers
  <2>2. Used(tx_in, tx_out) \in Nat /\ Used(tx_in, tx_out) # 0
    BY <1>1, <2>1, UsedIs, UsedNat
  <2> QED BY <2>1, <2>2, Constants
<1>4. /\ Used(tx_in, tx_out') = Used(tx_in, tx_out) - 1
      /\ \A i \in Slots : Used(i, tx_out') < Used(tx_in, tx_out) - 1
                           => Used(i, tx_out) = Used(i, tx_out') + 1
      /\ tx_out' \in Slots
  BY <1>1, <1>3, OutMoves, Numbers
<1>5. /\ Used(tx_in, tx_out) \in Nat
      /\ \A i \in Slots : Used(i, tx_out) \in Nat /\ Used(i, tx_out') \in Nat
  BY <1>4, UsedNat, Numbers
<1>6. tx_buf[tx_out] = heard + Len(tx_fifo) + 1
  <2>1. Used(tx_out, tx_out) = 0
    BY UsedIs, Numbers
  <2>2. tx_buf[tx_out] = heard + Len(tx_fifo) + 1 + Used(tx_out, tx_out)
    <3>1. Used(tx_out, tx_out) < Used(tx_in, tx_out) /\ tx_out \in Slots
      BY <1>3, <1>5, <2>1, Numbers
    <3> QED BY <1>2, <3>1 DEF TxInv
  <2> QED BY <2>1, <2>2, Numbers
<1>7. Len(tx_fifo') = Len(tx_fifo) + 1 /\ \A j \in 1..Len(tx_fifo') : tx_fifo'[j] = heard + j
  <2>1. tx_buf[tx_out] \in Nat
    BY <1>2, Numbers
  <2>2. /\ Len(tx_fifo') = Len(tx_fifo) + 1
        /\ \A j \in 1..Len(tx_fifo) : tx_fifo'[j] = tx_fifo[j]
        /\ tx_fifo'[Len(tx_fifo) + 1] = tx_buf[tx_out]
    BY <1>1, <2>1, AppendProperties, Numbers
  <2>3. heard \in Nat /\ Len(tx_fifo) \in Nat
    BY Numbers
  <2>4. \A j \in 1..Len(tx_fifo) : tx_fifo'[j] = heard + j
    BY <1>2, <2>2 DEF TxInv
  <2>5. tx_fifo'[Len(tx_fifo) + 1] = heard + (Len(tx_fifo) + 1)
    BY <1>6, <2>2, <2>3
  <2>6. \A j \in 1..Len(tx_fifo') : j \in 1..Len(tx_fifo) \/ j = Len(tx_fifo) + 1
    BY <2>2, <2>3
  <2> QED BY <2>2, <2>4, <2>5, <2>6
<1>8. \A i \in Slots : Used(i, tx_out') < Used(tx_in, tx_out') =>
        tx_buf[i] = heard + Len(tx_fifo') + 1 + Used(i, tx_out')
  <2> SUFFICES ASSUME NEW i \in Slots, Used(i, tx_out') < Used(tx_in, tx_out')
               PROVE  tx_buf[i] = heard + Len(tx_fifo') + 1 + Used(i, tx_out')
    OBVIOUS
  <2>1. /\ Used(i, tx_out) = Used(i, tx_out') + 1
        /\ Used(i, tx_out) < Used(tx_in, tx_out)
    BY <1>4, <1>5
  <2>2. tx_buf[i] = heard + Len(tx_fifo) + 1 + Used(i, tx_out)
    BY <1>2, <2>1 DEF TxInv
  <2> QED BY <1>5, <1>7, <2>1, <2>2, Numbers, SMTT(30)
<1>9. heard + Len(tx_fifo') + Used(tx_in, tx_out') = put
  BY <1>2, <1>4, <1>5, <1>7, Numbers DEF TxInv
<1> QED
  BY <1>1, <1>2, <1>7, <1>8, <1>9 DEF TxInv, Used

LEMMA TxTaken ==
  ASSUME UartInv, HostTakes
  PROVE  TxInv' /\ heard' = heard + 1
<1>1. /\ tx_fifo # <<>> /\ heard' = Head(tx_fifo) /\ tx_fifo' = Tail(tx_fifo)
      /\ UNCHANGED <<tx_buf, tx_in, tx_out, put, pc, call>>
  BY DEF HostTakes, driver
<1>2. TxInv
  BY DEF UartInv
<1>3. /\ Len(tx_fifo) # 0 /\ Len(tx_fifo') = Len(tx_fifo) - 1
      /\ \A j \in 1..Len(tx_fifo') : tx_fifo'[j] = tx_fifo[j + 1]
      /\ Head(tx_fifo) = tx_fifo[1]
  <2>1. tx_fifo \in Seq(Nat) /\ tx_fifo # <<>>
    BY <1>1, Numbers
  <2> QED BY <1>1, <2>1, HeadTailProperties
<1>4. heard' = heard + 1
  BY <1>1, <1>2, <1>3, Numbers DEF TxInv
<1>5. \A j \in 1..Len(tx_fifo') : tx_fifo'[j] = heard' + j
  <2> SUFFICES ASSUME NEW j \in 1..Len(tx_fifo') PROVE tx_fifo'[j] = heard' + j
    OBVIOUS
  <2>1. j \in Nat /\ j + 1 \in 1..Len(tx_fifo) /\ heard \in Nat
    BY <1>3, Numbers
  <2>2. tx_fifo[j + 1] = heard + (j + 1)
    BY <1>2, <2>1 DEF TxInv
  <2> QED BY <1>3, <1>4, <2>1, <2>2
<1>6. heard' + Len(tx_fifo') = heard + Len(tx_fifo)
  BY <1>3, <1>4, Numbers
<1> QED
  BY <1>1, <1>2, <1>4, <1>5, <1>6 DEF TxInv, Used

LEMMA TxStep == UartInv /\ [Next]_vars => TxInv'
<1> SUFFICES ASSUME UartInv, [Next]_vars PROVE TxInv'
  OBVIOUS
<1>1. CASE WriteLook
  <2>1. /\ pc = "write_look" /\ UNCHANGED <<tx_buf, tx_in, tx_out, tx_fifo, heard, put>>
        /\ \/ call' = call
           \/ call' = [call EXCEPT !.in = tx_in, !.out = tx_out,
                                   !.n = Least(RoomAhead(tx_in, tx_out), call.count)]
    BY <1>1 DEF WriteLook, Caller, Quiet, driver, world, fifos
  <2>2. call'.k = 0
    BY <2>1 DEF UartInv, TypeOK, CallInv, Copying
  <2> QED BY <2>1, <2>2, TxKept
<1>2. CASE WriteCopy \/ WritePublish \/ IsrSend \/ HostTakes
  BY <1>2, TxCopies, TxPublishes, TxSends, TxTaken
<1>3. CASE WriteCall \/ WriteKick \/ WriteWait \/ ReadCall \/ Read \/ CloseCall \/ Close
  <2>1. UNCHANGED <<tx_buf, tx_in, tx_out, tx_fifo, heard, put>> /\ pc' # "write_copy"
    BY <1>3 DEF WriteCall, WriteKick, WriteWait, ReadCall, Read, ReadLook, ReadCopy, ReadPublish,
         ReadArm, ReadWait, CloseCall, Close, Caller, Quiet, driver, world, fifos
  <2> QED BY <2>1, TxKept
<1>4. CASE \/ UNCHANGED vars \/ Ioctl \/ ClockTick \/ HostTypes \/ HostComesOrGoes
           \/ IsrEnter \/ IsrTop \/ IsrReceive \/ IsrReceived \/ IsrSent
  <2>1. UNCHANGED <<tx_buf, tx_in, tx_out, tx_fifo, heard, put, pc, call>>
    BY <1>4 DEF vars, Ioctl, ClockTick, HostTypes, HostComesOrGoes, IsrEnter, IsrTop, IsrReceive,
         IsrReceived, IsrSent, Isr, driver, world, fifos
  <2> QED BY <2>1, TxKept
<1> QED
  BY <1>1, <1>2, <1>3, <1>4 DEF Next, Write, Interrupt

-----------------------------------------------------------------------------
(***************************************************************************)
(* The way in.                                                             *)
(***************************************************************************)
LEMMA RxKept ==
  ASSUME UartInv,
         UNCHANGED <<rx_buf, rx_in, rx_out, rx_fifo, typed, handed>>,
         Taken' = Taken
  PROVE  RxInv'
<1>1. RxInv
  BY DEF UartInv
<1> QED
  BY <1>1 DEF RxInv, Used

(* What a reader knows of the slots in front of it.                           *)
LEMMA ReadSlots ==
  ASSUME UartInv, pc = "read_copy"
  PROVE  /\ call.out = rx_out /\ call.n \in 1..Used(rx_in, rx_out)
         /\ rx_out + call.n <= BUF_LEN
<1>1. /\ call.out = rx_out /\ call.n \in 1..call.count
      /\ call.n <= DataAhead(rx_in, rx_out)
  BY DEF UartInv, CallInv, Copying
<1>2. /\ DataAhead(rx_in, rx_out) \in 0..Used(rx_in, rx_out)
      /\ rx_out + DataAhead(rx_in, rx_out) <= BUF_LEN
      /\ Used(rx_in, rx_out) \in Nat
  BY DataIs, UsedNat, Numbers
<1>3. rx_out \in Nat /\ call.count \in Nat /\ BUF_LEN \in Nat
  BY Numbers, Constants
<1>4. call.n \in Nat /\ call.n >= 1 /\ DataAhead(rx_in, rx_out) \in Nat
  BY <1>1, <1>2, <1>3
<1> QED
  BY <1>1, <1>2, <1>3, <1>4

LEMMA RxCopies ==
  ASSUME UartInv, ReadCopy
  PROVE  RxInv' /\ handed' = handed + 1
<1>1. /\ pc = "read_copy" /\ pc' = "read_copy" /\ call.k < call.n
      /\ UNCHANGED <<rx_buf, rx_in, rx_out, rx_fifo, typed>>
      /\ handed' = rx_buf[call.out + call.k]
      /\ call' = [call EXCEPT !.k = @ + 1]
  BY DEF ReadCopy, Caller, Quiet, fifos, driver
<1>2. RxInv /\ call \in Calls
  BY DEF UartInv, TypeOK, Calls
<1>3. Taken = call.k /\ Taken' = call.k + 1
  BY <1>1, <1>2 DEF Calls, Taken
<1>4. Used(rx_in, rx_out) \in Nat /\ Used(rx_in, rx_out) < BUF_LEN
  BY UsedNat, Numbers
<1>5. /\ rx_out + call.k \in Slots
      /\ Used(rx_out + call.k, rx_out) = call.k
      /\ call.k < Used(rx_in, rx_out) /\ call.out = rx_out
  <2>1. /\ call.n \in 1..Used(rx_in, rx_out) /\ rx_out + call.n <= BUF_LEN
        /\ call.out = rx_out
    BY <1>1, ReadSlots
  <2>2. rx_out \in Nat /\ call.k \in Nat /\ call.n \in Nat /\ BUF_LEN \in Nat
    BY Numbers, Constants
  <2> QED BY <1>1, <1>4, <2>1, <2>2 DEF Slots, Used
<1>6. handed' = typed - Len(rx_fifo) - Used(rx_in, rx_out) + 1 + call.k
  BY <1>1, <1>2, <1>5 DEF RxInv
<1>7. handed + Used(rx_in, rx_out) + Len(rx_fifo) = typed + call.k
  BY <1>2, <1>3 DEF RxInv
<1> typed \in Nat /\ handed \in Nat /\ Len(rx_fifo) \in Nat /\ call.k \in Nat
  BY Numbers
<1>8. handed' = handed + 1
  BY <1>4, <1>6, <1>7, SMTT(30)
<1>9. handed' + Used(rx_in, rx_out) + Len(rx_fifo) = typed + Taken'
  BY <1>3, <1>4, <1>7, <1>8, SMTT(30)
<1> QED
  BY <1>1, <1>2, <1>8, <1>9 DEF RxInv, Used

LEMMA RxPublishes ==
  ASSUME UartInv, ReadPublish
  PROVE  RxInv'
<1>1. /\ pc = "read_copy" /\ pc' # "read_copy" /\ call.k = call.n
      /\ UNCHANGED <<rx_buf, rx_in, rx_fifo, typed, handed>>
      /\ rx_out' = Ahead(call.out, call.n)
  BY DEF ReadPublish, Caller, Quiet, fifos, world
<1>2. RxInv
  BY DEF UartInv
<1>3. Taken = call.n /\ Taken' = 0
  BY <1>1 DEF Taken
<1>4. /\ Used(rx_in, rx_out') = Used(rx_in, rx_out) - call.n
      /\ rx_out' \in Slots
      /\ \A i \in Slots : Used(i, rx_out') < Used(rx_in, rx_out) - call.n
                           => Used(i, rx_out) = Used(i, rx_out') + call.n
  BY <1>1, ReadSlots, OutMoves, Numbers
<1>5. /\ Used(rx_in, rx_out) \in Nat
      /\ \A i \in Slots : Used(i, rx_out') \in Nat
  BY <1>4, UsedNat, Numbers
<1>6. \A i \in Slots : Used(i, rx_out') < Used(rx_in, rx_out') =>
        rx_buf[i] = typed - Len(rx_fifo) - Used(rx_in, rx_out') + 1 + Used(i, rx_out')
  <2> SUFFICES ASSUME NEW i \in Slots, Used(i, rx_out') < Used(rx_in, rx_out')
               PROVE  rx_buf[i] = typed - Len(rx_fifo) - Used(rx_in, rx_out') + 1
                                  + Used(i, rx_out')
    OBVIOUS
  <2>1. call.n \in Nat
    BY Numbers
  <2>2. /\ Used(i, rx_out) = Used(i, rx_out') + call.n
        /\ Used(i, rx_out) < Used(rx_in, rx_out)
    BY <1>4, <1>5, <2>1
  <2>3. rx_buf[i] = typed - Len(rx_fifo) - Used(rx_in, rx_out) + 1 + Used(i, rx_out)
    BY <1>2, <2>2 DEF RxInv
  <2>4. typed \in Nat /\ Len(rx_fifo) \in Nat
    BY Numbers
  <2> QED BY <1>4, <1>5, <2>1, <2>2, <2>3, <2>4
<1>7. handed + Used(rx_in, rx_out') + Len(rx_fifo) = typed + Taken'
  <2>1. handed + Used(rx_in, rx_out) + Len(rx_fifo) = typed + call.n
    BY <1>2, <1>3 DEF RxInv
  <2>2. typed \in Nat /\ handed \in Nat /\ Len(rx_fifo) \in Nat /\ call.n \in Nat
    BY Numbers
  <2> QED BY <1>3, <1>4, <1>5, <2>1, <2>2, SMTT(30)
<1> QED
  BY <1>1, <1>2, <1>6, <1>7 DEF RxInv, Used

LEMMA RxReceives ==
  ASSUME UartInv, IsrReceive
  PROVE  RxInv'
<1>1. /\ Ahead(rx_in, 1) # rx_out /\ rx_fifo # <<>>
      /\ rx_buf' = [rx_buf EXCEPT ![rx_in] = Head(rx_fifo)]
      /\ rx_in' = Ahead(rx_in, 1)
      /\ rx_fifo' = Tail(rx_fifo)
      /\ UNCHANGED <<rx_out, typed, handed, pc, call>>
  BY DEF IsrReceive, Isr
<1>2. RxInv /\ rx_buf \in [Slots -> Nat]
  BY DEF UartInv, TypeOK
<1>3. /\ Used(rx_in', rx_out) = Used(rx_in, rx_out) + 1
      /\ \A i \in Slots :
           Used(i, rx_out) < Used(rx_in, rx_out) + 1 /\ ~(Used(i, rx_out) < Used(rx_in, rx_out))
             => i = rx_in + (Used(i, rx_out) - Used(rx_in, rx_out))
  BY <1>1, NotFull, InMoves, Numbers
<1>4. \A i \in Slots : Used(i, rx_out) \in Nat
  BY UsedNat, Numbers
<1>5. /\ Len(rx_fifo) # 0 /\ Len(rx_fifo') = Len(rx_fifo) - 1
      /\ \A j \in 1..Len(rx_fifo') : rx_fifo'[j] = rx_fifo[j + 1]
      /\ Head(rx_fifo) = rx_fifo[1]
  <2>1. rx_fifo \in Seq(Nat) /\ rx_fifo # <<>>
    BY <1>1, Numbers
  <2> QED BY <1>1, <2>1, HeadTailProperties
<1>6. Head(rx_fifo) = typed - Len(rx_fifo) + 1
  BY <1>2, <1>5, Numbers DEF RxInv
<1>7. \A j \in 1..Len(rx_fifo') : rx_fifo'[j] = typed - Len(rx_fifo') + j
  <2> SUFFICES ASSUME NEW j \in 1..Len(rx_fifo')
               PROVE  rx_fifo'[j] = typed - Len(rx_fifo') + j
    OBVIOUS
  <2>1. j \in Nat /\ j + 1 \in 1..Len(rx_fifo)
    BY <1>5, Numbers
  <2>2. rx_fifo[j + 1] = typed - Len(rx_fifo) + (j + 1)
    BY <1>2, <2>1 DEF RxInv
  <2> QED BY <1>5, <2>1, <2>2, Numbers
<1>8. \A i \in Slots : Used(i, rx_out) < Used(rx_in', rx_out) =>
        rx_buf'[i] = typed - Len(rx_fifo') - Used(rx_in', rx_out) + 1 + Used(i, rx_out)
  <2> TAKE i \in Slots
  <2>1. CASE Used(i, rx_out) < Used(rx_in, rx_out)
    <3>1. i # rx_in
      BY <1>4, <2>1, Numbers
    <3>2. rx_buf'[i] = typed - Len(rx_fifo) - Used(rx_in, rx_out) + 1 + Used(i, rx_out)
      BY <1>1, <1>2, <2>1, <3>1 DEF RxInv
    <3>3. Used(i, rx_out) \in Nat /\ Used(rx_in, rx_out) \in Nat
      BY <1>4, Numbers
    <3> QED BY <1>3, <1>5, <3>2, <3>3, Numbers
  <2>2. CASE /\ Used(i, rx_out) < Used(rx_in', rx_out)
             /\ ~(Used(i, rx_out) < Used(rx_in, rx_out))
    <3>1. Used(i, rx_out) \in Nat /\ Used(rx_in, rx_out) \in Nat /\ rx_in \in Nat
      BY <1>4, Numbers, Constants
    <3>2. i = rx_in
      BY <1>3, <2>2, <3>1
    <3>3. rx_buf'[i] = typed - Len(rx_fifo) + 1
      BY <1>1, <1>2, <1>6, <3>2
    <3> QED BY <1>3, <1>5, <3>1, <3>2, <3>3, Numbers, SMTT(30)
  <2> QED BY <2>1, <2>2
<1>9. handed + Used(rx_in', rx_out) + Len(rx_fifo') = typed + Taken
  <2>1. handed + Used(rx_in, rx_out) + Len(rx_fifo) = typed + Taken
    BY <1>2 DEF RxInv
  <2>2. Used(rx_in, rx_out) \in Nat
    BY <1>4, Numbers
  <2> QED BY <1>3, <1>5, <2>1, <2>2, Numbers
<1>10. Taken' = Taken
  BY <1>1 DEF Taken
<1> QED
  BY <1>1, <1>7, <1>8, <1>9, <1>10 DEF RxInv, Used

LEMMA RxTyped ==
  ASSUME UartInv, HostTypes
  PROVE  RxInv'
<1>1. /\ typed' = typed + 1 /\ rx_fifo' = Append(rx_fifo, typed')
      /\ UNCHANGED <<rx_buf, rx_in, rx_out, handed, pc, call>>
  BY DEF HostTypes, driver
<1>2. RxInv
  BY DEF UartInv
<1>3. typed \in Nat /\ Len(rx_fifo) \in Nat
  BY Numbers
<1>4. /\ Len(rx_fifo') = Len(rx_fifo) + 1
      /\ \A j \in 1..Len(rx_fifo) : rx_fifo'[j] = rx_fifo[j]
      /\ rx_fifo'[Len(rx_fifo) + 1] = typed + 1
  <2>1. typed' \in Nat
    BY <1>1, <1>3
  <2> QED BY <1>1, <2>1, AppendProperties, Numbers
<1>5. typed' - Len(rx_fifo') = typed - Len(rx_fifo)
  BY <1>1, <1>3, <1>4
<1>6. \A j \in 1..Len(rx_fifo') : rx_fifo'[j] = typed' - Len(rx_fifo') + j
  <2>1. \A j \in 1..Len(rx_fifo) : rx_fifo'[j] = typed - Len(rx_fifo) + j
    BY <1>2, <1>4 DEF RxInv
  <2>2. rx_fifo'[Len(rx_fifo) + 1] = typed - Len(rx_fifo) + (Len(rx_fifo) + 1)
    BY <1>3, <1>4
  <2>3. \A j \in 1..Len(rx_fifo') : j \in 1..Len(rx_fifo) \/ j = Len(rx_fifo) + 1
    BY <1>3, <1>4
  <2> QED BY <1>5, <2>1, <2>2, <2>3
<1>7. handed + Used(rx_in, rx_out) + Len(rx_fifo') = typed' + Taken
  <2>1. handed + Used(rx_in, rx_out) + Len(rx_fifo) = typed + Taken
    BY <1>2 DEF RxInv
  <2>2. Used(rx_in, rx_out) \in Nat /\ handed \in Nat /\ Taken \in Nat
    BY UsedNat, Numbers DEF Taken
  <2> QED BY <1>1, <1>3, <1>4, <2>1, <2>2
<1>8. Taken' = Taken
  BY <1>1 DEF Taken
<1> QED
  BY <1>1, <1>2, <1>5, <1>6, <1>7, <1>8 DEF RxInv, Used

LEMMA RxStep == UartInv /\ [Next]_vars => RxInv'
<1> SUFFICES ASSUME UartInv, [Next]_vars PROVE RxInv'
  OBVIOUS
<1>1. CASE ReadLook
  <2>1. /\ pc = "read_look" /\ UNCHANGED <<rx_buf, rx_in, rx_out, rx_fifo, typed, handed>>
        /\ \/ pc' # "read_copy"
           \/ call' = [call EXCEPT !.in = rx_in, !.out = rx_out,
                                   !.n = Least(DataAhead(rx_in, rx_out), call.count)]
    BY <1>1 DEF ReadLook, Caller, Quiet, driver, world, fifos
  <2>2. pc' = "read_copy" => call'.k = 0
    BY <2>1 DEF UartInv, TypeOK, CallInv, Copying
  <2>3. Taken' = Taken
    BY <2>1, <2>2 DEF Taken
  <2> QED BY <2>1, <2>3, RxKept
<1>2. CASE ReadCopy \/ ReadPublish \/ IsrReceive \/ HostTypes
  BY <1>2, RxCopies, RxPublishes, RxReceives, RxTyped
<1>3. CASE WriteCall \/ Write \/ ReadCall \/ ReadArm \/ ReadWait \/ CloseCall \/ Close
  <2>1. /\ UNCHANGED <<rx_buf, rx_in, rx_out, rx_fifo, typed, handed>>
        /\ pc # "read_copy" /\ pc' # "read_copy"
    BY <1>3 DEF WriteCall, Write, WriteLook, WriteCopy, WritePublish, WriteKick, WriteWait,
         ReadCall, ReadArm, ReadWait, CloseCall, Close, Caller, Quiet, driver, world, fifos
  <2> QED BY <2>1, RxKept DEF Taken
<1>4. CASE \/ UNCHANGED vars \/ Ioctl \/ ClockTick \/ HostTakes \/ HostComesOrGoes
           \/ IsrEnter \/ IsrTop \/ IsrReceived \/ IsrSend \/ IsrSent
  <2>1. UNCHANGED <<rx_buf, rx_in, rx_out, rx_fifo, typed, handed, pc, call>>
    BY <1>4 DEF vars, Ioctl, ClockTick, HostTakes, HostComesOrGoes, IsrEnter, IsrTop, IsrReceived,
         IsrSend, IsrSent, Isr, driver, world, fifos
  <2> QED BY <2>1, RxKept DEF Taken
<1> QED
  BY <1>1, <1>2, <1>3, <1>4 DEF Next, Read, Interrupt

-----------------------------------------------------------------------------
LEMMA UartInit == Init => UartInv
<1> SUFFICES ASSUME Init PROVE UartInv
  OBVIOUS
<1> USE DEF Init
<1>1. TypeOK
  <2>1. timeout \in 2..IntMax /\ host_inactive \in 0..IntMax
    BY TimeoutAssumption
  <2>2. /\ tx_buf \in [Slots -> Nat] /\ tx_in \in Slots /\ tx_out \in Slots
        /\ rx_buf \in [Slots -> Nat] /\ rx_in \in Slots /\ rx_out \in Slots
    BY Constants
  <2>3. loc \in [wi : BOOLEAN, space : 0..FIFO_LEN, ravail : BOOLEAN]
    <3>1. 0 \in 0..FIFO_LEN
      BY Constants
    <3> QED BY <3>1 DEF NoIsr
  <2>4. /\ tx_fifo \in Seq(Nat) /\ Len(tx_fifo) <= FIFO_LEN
        /\ rx_fifo \in Seq(Nat) /\ Len(rx_fifo) <= FIFO_LEN
    BY Constants
  <2>5. put \in 0..MaxPut /\ heard \in Nat /\ typed \in 0..MaxTyped /\ handed \in Nat
    BY BoundAssumption
  <2>6. call \in [count : 0..MaxCall, ptr : 0..MaxCall, in : Slots, out : Slots,
                  n : 0..MaxCall, k : 0..MaxCall, nonblock : BOOLEAN]
    BY Constants
  <2>7. re \in BOOLEAN /\ we \in BOOLEAN /\ ac \in BOOLEAN /\ attached \in BOOLEAN
    BY Zenon
  <2> QED BY <2>1, <2>2, <2>3, <2>4, <2>5, <2>6, <2>7 DEF TypeOK
<1>2. CallInv /\ SpaceInv /\ SendingKicked /\ ReceivingArmed
  BY Fresh, Constants DEF CallInv, SpaceInv, SendingKicked, ReceivingArmed, Copying, Writing
<1>3. /\ Used(tx_in, tx_out) = 0 /\ Used(rx_in, rx_out) = 0
      /\ \A i \in Slots : Used(i, tx_out) \in Nat /\ Used(i, rx_out) \in Nat
  BY UsedIs, UsedNat, Constants
<1>4. TxInv
  BY <1>3 DEF TxInv
<1>5. RxInv
  BY <1>3 DEF RxInv, Taken
<1> QED BY <1>1, <1>2, <1>4, <1>5 DEF UartInv

(***************************************************************************)
(* At every step of a call, an interrupt or the host, the rings, the FIFOs  *)
(* and the local variables agree on which characters are under way.         *)
(***************************************************************************)
THEOREM UartInvariant == Spec => []UartInv
<1>1. UartInv /\ [Next]_vars => UartInv'
  BY TypeStep, CallStep, SpaceStep, TxStep, RxStep, KickStep, ArmStep DEF UartInv
<1> QED
  BY UartInit, <1>1, PTL DEF Spec

(***************************************************************************)
(* The indices stay in the rings, the FIFOs within their length and a call  *)
(* within what was asked for.                                               *)
(***************************************************************************)
THEOREM UartTypeCorrect == Spec => []TypeOK
BY UartInvariant, PTL DEF UartInv

(***************************************************************************)
(* No interrupt falls into altera_avalon_jtag_uart_write so that characters *)
(* are left in the ring with the write interrupt off.                       *)
(***************************************************************************)
THEOREM SendingIsKicked == Spec => []SendingKicked
BY UartInvariant, PTL DEF UartInv

(***************************************************************************)
(* No reader waits with the read interrupt off and room in the ring.        *)
(***************************************************************************)
THEOREM ReceivingIsArmed == Spec => []ReceivingArmed
BY UartInvariant, PTL DEF UartInv

-----------------------------------------------------------------------------
(***************************************************************************)
(* The driver implements a stream each way.                                 *)
(***************************************************************************)
LEMMA OutStep == UartInv /\ [Next]_vars => [Out!Next]_(Out!vars)
<1> SUFFICES ASSUME UartInv, [Next]_vars PROVE [Out!Next]_(Out!vars)
  OBVIOUS
<1>1. CASE UNCHANGED <<put, heard>>
  BY <1>1 DEF Out!vars
<1>2. CASE WritePublish
  <2>1. pc = "write_copy" /\ put' = put + call.n /\ heard' = heard
    BY <1>2 DEF WritePublish, Caller
  <2>2. /\ call.n \in 1..(BUF_LEN - 1 - Used(tx_in, tx_out))
        /\ Used(tx_in, tx_out) \in Nat
    BY <2>1, WriteSlots, UsedNat, Numbers
  <2>3. heard + Len(tx_fifo) + Used(tx_in, tx_out) = put /\ Len(tx_fifo) <= FIFO_LEN
    BY DEF UartInv, TxInv, TypeOK
  <2>4. /\ heard \in Nat /\ put \in Nat /\ Len(tx_fifo) \in Nat /\ call.n \in Nat
        /\ BUF_LEN \in Nat /\ FIFO_LEN \in Nat
    BY Numbers, Constants
  <2>5. /\ call.n \in 1..(BUF_LEN - 1 + FIFO_LEN)
        /\ put + call.n - heard <= BUF_LEN - 1 + FIFO_LEN
    BY <2>2, <2>3, <2>4, SMTT(30)
  <2> QED BY <2>1, <2>5 DEF Out!Next, Out!Put
<1>3. CASE HostTakes
  <2>1. tx_fifo # <<>> /\ put' = put
    BY <1>3 DEF HostTakes
  <2>2. heard + Len(tx_fifo) + Used(tx_in, tx_out) = put
    BY DEF UartInv, TxInv
  <2>3. heard < put
    <3>1. /\ heard \in Nat /\ put \in Nat /\ Len(tx_fifo) \in Nat
          /\ Used(tx_in, tx_out) \in Nat /\ tx_fifo \in Seq(Nat)
      BY UsedNat, Numbers
    <3>2. Len(tx_fifo) # 0
      BY <2>1, <3>1
    <3> QED BY <2>2, <3>1, <3>2
  <2>4. heard' = heard + 1
    BY <1>3, TxTaken
  <2> QED BY <2>1, <2>3, <2>4 DEF Out!Next, Out!Get
<1>4. CASE WriteCall \/ WriteLook \/ WriteCopy \/ WriteKick \/ WriteWait
  BY <1>1, <1>4 DEF WriteCall, WriteLook, WriteCopy, WriteKick, WriteWait, world
<1>5. CASE ReadCall \/ Read \/ CloseCall \/ Close
  BY <1>1, <1>5 DEF ReadCall, Read, ReadLook, ReadCopy, ReadPublish, ReadArm, ReadWait,
       CloseCall, Close, world
<1>6. CASE UNCHANGED vars \/ Ioctl \/ Interrupt \/ ClockTick \/ HostTypes \/ HostComesOrGoes
  BY <1>1, <1>6 DEF vars, Ioctl, Interrupt, IsrEnter, IsrTop, IsrReceive, IsrReceived, IsrSend,
       IsrSent, Isr, ClockTick, HostTypes, HostComesOrGoes, world
<1> QED
  BY <1>2, <1>3, <1>4, <1>5, <1>6 DEF Next, Write

LEMMA InStep == UartInv /\ [Next]_vars => [In!Next]_(In!vars)
<1> SUFFICES ASSUME UartInv, [Next]_vars PROVE [In!Next]_(In!vars)
  OBVIOUS
<1>1. CASE UNCHANGED <<typed, handed>>
  BY <1>1 DEF In!vars
<1>2. /\ handed + Used(rx_in, rx_out) + Len(rx_fifo) = typed + Taken
      /\ Used(rx_in, rx_out) \in Nat /\ Used(rx_in, rx_out) < BUF_LEN
      /\ typed \in Nat /\ handed \in Nat /\ Len(rx_fifo) \in Nat /\ call.k \in Nat
      /\ BUF_LEN \in Nat /\ FIFO_LEN \in Nat
  BY UsedNat, Numbers, Constants DEF UartInv, RxInv
<1>3. CASE HostTypes
  <2>1. typed' = typed + 1 /\ handed' = handed /\ Len(rx_fifo) < FIFO_LEN
    BY <1>3 DEF HostTypes
  <2>2. Taken \in Nat
    BY <1>2 DEF Taken
  <2>3. 1 \in 1..(BUF_LEN - 1 + FIFO_LEN) /\ typed + 1 - handed <= BUF_LEN - 1 + FIFO_LEN
    BY <1>2, <2>1, <2>2, BufferAssumption
  <2> QED BY <2>1, <2>3 DEF In!Next, In!Put
<1>4. CASE ReadCopy
  <2>1. pc = "read_copy" /\ typed' = typed /\ call.k < call.n
    BY <1>4 DEF ReadCopy, Caller
  <2>2. call.n \in 1..Used(rx_in, rx_out) /\ Taken = call.k
    BY <2>1, ReadSlots DEF Taken
  <2>3. handed < typed
    BY <1>2, <2>1, <2>2
  <2>4. handed' = handed + 1
    BY <1>4, RxCopies
  <2> QED BY <2>1, <2>3, <2>4 DEF In!Next, In!Get
<1>5. CASE WriteCall \/ Write \/ CloseCall \/ Close
  BY <1>1, <1>5 DEF WriteCall, Write, WriteLook, WriteCopy, WritePublish, WriteKick, WriteWait,
       CloseCall, Close, world
<1>6. CASE ReadCall \/ ReadLook \/ ReadPublish \/ ReadArm \/ ReadWait
  BY <1>1, <1>6 DEF ReadCall, ReadLook, ReadPublish, ReadArm, ReadWait, world
<1>7. CASE UNCHANGED vars \/ Ioctl \/ Interrupt \/ ClockTick \/ HostTakes \/ HostComesOrGoes
  BY <1>1, <1>7 DEF vars, Ioctl, Interrupt, IsrEnter, IsrTop, IsrReceive, IsrReceived, IsrSend,
       IsrSent, Isr, ClockTick, HostTakes, HostComesOrGoes, world
<1> QED
  BY <1>3, <1>4, <1>5, <1>6, <1>7 DEF Next, Read

(***************************************************************************)
(* The host hears what was written, complete and in order, with at most a   *)
(* ring and a FIFO of characters on their way.                              *)
(***************************************************************************)
THEOREM WrittenCharactersAreHeard == Spec => WrittenIsHeard
<1>1. Init => Out!Init
  BY DEF Init, Out!Init
<1> QED
  BY <1>1, OutStep, UartInvariant, PTL DEF Spec, WrittenIsHeard, Out!Spec

(***************************************************************************)
(* And read hands over what the host typed, complete and in order.          *)
(***************************************************************************)
THEOREM TypedCharactersAreRead == Spec => TypedIsRead
<1>1. Init => In!Init
  BY DEF Init, In!Init
<1> QED
  BY <1>1, InStep, UartInvariant, PTL DEF Spec, TypedIsRead, In!Spec
=============================================================================
