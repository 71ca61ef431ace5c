-------------------------------- MODULE Tty --------------------------------
(***************************************************************************)
(* The console: line editing and consoleread()/consolewrite() of            *)
(* kernel/console.c on the 16550 driver kernel/uart.c.  Keys arrive by      *)
(* interrupt and are echoed by a spinning uartputc_sync(), which does not   *)
(* take uart_tx_lock; output of processes goes through a ring that          *)
(* uartstart() empties from both halves of the driver.  A LSR test and the  *)
(* THR write that follows are separate steps.  The handler runs on one CPU  *)
(* at a time (plic_claim()), processes on others.                           *)
(***************************************************************************)
EXTENDS Integers, Sequences, FiniteSets

CONSTANTS Readers, Senders,
          INPUT_BUF_SIZE, UART_TX_BUF_SIZE,
          WRAP,      \* modulus of cons.r, cons.w, cons.e
          START,     \* their value at the start, after any amount of use
          FIFO,      \* depth of the UART's transmit FIFO
          Keys,      \* a subset of AllKeys
          Wants,     \* lengths of reads
          MaxBytes   \* bound: keys typed and characters written

AllKeys == {"x", "nl", "^D", "^H", "^U", "^P", "nul"}

ASSUME TtyAssumption ==
  /\ {INPUT_BUF_SIZE, UART_TX_BUF_SIZE, WRAP, FIFO} \cup Wants \subseteq Nat \ {0}
  /\ START \in 0 .. WRAP - 1 /\ WRAP % INPUT_BUF_SIZE = 0 /\ WRAP > INPUT_BUF_SIZE
  /\ Keys \subseteq AllKeys /\ MaxBytes \in Nat

VARIABLES cons,     \* buf, r, w, e
          conslock, txlock,
          rd,       \* per reader: pc, n, target
          queue, line,  \* what was handed to readers and what is being edited
          tx,       \* uart_tx_buf, uart_tx_r, uart_tx_w
          sd,       \* per sender: pc
          uart,     \* the device: rx, fifo, irq
          intr,     \* the handler: pc, key
          keys, out, gone   \* keys typed; characters accepted, characters sent

tvars == <<cons, conslock, txlock, rd, queue, line, tx, sd, uart, intr, keys, out, gone>>

NoKey == "none"
NoOwner == "free"
Handler == "intr"

TInit ==
  /\ cons = [buf |-> [k \in 0 .. INPUT_BUF_SIZE - 1 |-> NoKey], r |-> START, w |-> START, e |-> START]
  /\ conslock = NoOwner /\ txlock = NoOwner
  /\ rd = [p \in Readers |-> [pc |-> "away", n |-> 0, target |-> 0]]
  /\ queue = <<>> /\ line = <<>>
  /\ tx = [buf |-> [k \in 0 .. UART_TX_BUF_SIZE - 1 |-> 0], r |-> 0, w |-> 0]
  /\ sd = [p \in Senders |-> "away"]
  /\ uart = [rx |-> NoKey, fifo |-> <<>>, irq |-> FALSE]
  /\ intr = [pc |-> "away", key |-> NoKey]
  /\ keys = 0 /\ out = 0 /\ gone = 0

SameInput == UNCHANGED <<cons, conslock, queue, line>>
SameOutput == UNCHANGED <<tx, txlock, out, gone>>
Plus(x, k) == (x + k) % WRAP
Minus(x, y) == (x - y + WRAP) % WRAP
Slot(x) == x % INPUT_BUF_SIZE
-----------------------------------------------------------------------------
(* consoleread() *)

consoleread(p, n) ==
  /\ rd[p].pc = "away" /\ conslock = NoOwner /\ conslock' = p
  /\ rd' = [rd EXCEPT ![p] = [pc |-> "loop", n |-> n, target |-> n]]
  /\ UNCHANGED <<cons, queue, line, sd, uart, intr, keys>> /\ SameOutput

\* The read returns and releases cons.lock.
Returns(p) == rd' = [rd EXCEPT ![p] = [pc |-> "away", n |-> 0, target |-> 0]] /\ conslock' = NoOwner

\* Nothing to read: sleep(), or return if the process has been killed.
consoleread_sleep(p) ==
  /\ rd[p].pc = "loop" /\ rd[p].n > 0 /\ cons.r = cons.w
  /\ \/ Returns(p)
     \/ rd' = [rd EXCEPT ![p].pc = "asleep"] /\ conslock' = NoOwner
  /\ UNCHANGED <<cons, queue, line, sd, uart, intr, keys>> /\ SameOutput

\* A character: an end of file is kept for the next read if this one has read anything;
\* either_copyout() may fail after the character was taken.
consoleread_char(p) ==
  LET c == cons.buf[Slot(cons.r)]
      first == rd[p].n = rd[p].target
  IN /\ rd[p].pc = "loop" /\ rd[p].n > 0 /\ cons.r # cons.w
     /\ IF c = "^D" /\ ~first
        THEN Returns(p) /\ UNCHANGED <<cons, queue>>
        ELSE /\ cons' = [cons EXCEPT !.r = Plus(@, 1)]
             /\ queue' = Tail(queue)
             /\ \/ Returns(p)
                \/ /\ c \notin {"nl", "^D"}
                   /\ rd' = [rd EXCEPT ![p].n = @ - 1] /\ UNCHANGED conslock
     /\ UNCHANGED <<line, sd, uart, intr, keys>> /\ SameOutput

consoleread_end(p) ==
  /\ rd[p].pc = "loop" /\ rd[p].n = 0 /\ Returns(p)
  /\ UNCHANGED <<cons, queue, line, sd, uart, intr, keys>> /\ SameOutput

\* sleep() returns with cons.lock.
consoleread_woken(p) ==
  /\ rd[p].pc = "woken" /\ conslock = NoOwner /\ conslock' = p
  /\ rd' = [rd EXCEPT ![p].pc = "loop"]
  /\ UNCHANGED <<cons, queue, line, sd, uart, intr, keys>> /\ SameOutput
-----------------------------------------------------------------------------
(* The device, external *)

\* A key is typed.
type(c) ==
  /\ keys + out < MaxBytes /\ keys' = keys + 1 /\ uart.rx = NoKey
  /\ uart' = [uart EXCEPT !.rx = c, !.irq = TRUE]
  /\ SameInput /\ UNCHANGED <<rd, sd, intr>> /\ SameOutput

\* The first byte of the FIFO is sent; an empty FIFO raises an interrupt.
transmit ==
  /\ uart.fifo # <<>>
  /\ uart' = [uart EXCEPT !.fifo = Tail(@), !.irq = @ \/ Len(uart.fifo) = 1]
  /\ gone' = IF Head(uart.fifo) > 0 THEN Head(uart.fifo) ELSE gone
  /\ SameInput /\ UNCHANGED <<rd, sd, intr, keys, tx, txlock, out>>

TxIdle == uart.fifo = <<>>
Echo == 0    \* a byte sent by uartputc_sync(); those of processes are numbered from 1
-----------------------------------------------------------------------------
(* uartintr() and consoleintr() *)

Handle(pc) == intr' = [intr EXCEPT !.pc = pc]

uartintr ==
  /\ intr.pc = "away" /\ uart.irq /\ Handle("getc")
  /\ uart' = [uart EXCEPT !.irq = FALSE]
  /\ SameInput /\ UNCHANGED <<rd, sd, keys>> /\ SameOutput

\* uartgetc(): the next key, and cons.lock for it; or on to the output.
uartgetc ==
  /\ intr.pc = "getc"
  /\ \/ /\ uart.rx # NoKey /\ conslock = NoOwner /\ conslock' = Handler
        /\ intr' = [pc |-> "key", key |-> uart.rx]
        /\ uart' = [uart EXCEPT !.rx = NoKey]
        /\ UNCHANGED txlock
     \/ /\ uart.rx = NoKey /\ txlock = NoOwner /\ txlock' = Handler
        /\ Handle("start") /\ UNCHANGED <<uart, conslock>>
  /\ UNCHANGED <<cons, queue, line, rd, sd, keys, tx, out, gone>>

\* Mutant: the room is measured from cons.w.
Room_w == Minus(cons.e, cons.w) < INPUT_BUF_SIZE

\* consoleintr()'s test for room.
Room == Minus(cons.e, cons.r) < INPUT_BUF_SIZE

Echoes(c) == CASE c = "^P" -> TRUE
               [] c \in {"^U", "^H"} -> cons.e # cons.w
               [] c = "nul" -> FALSE
               [] OTHER -> Room

\* The cases of consoleintr(): a key that echoes goes to the echo first, another is done.
\* A kill stops at a newline in the buffer, too.
consoleintr ==
  /\ intr.pc = "key"
  /\ IF Echoes(intr.key) /\ ~(intr.key = "^U" /\ cons.buf[Slot(Minus(cons.e, 1))] = "nl")
     THEN Handle("lsr") /\ UNCHANGED conslock
     ELSE Handle("getc") /\ conslock' = NoOwner
  /\ UNCHANGED <<cons, queue, line, rd, sd, uart, keys>> /\ SameOutput

\* uartputc_sync(): spin for LSR_TX_IDLE, with interrupts off and without uart_tx_lock,
uartputc_lsr ==
  /\ intr.pc = "lsr" /\ TxIdle /\ Handle("thr")
  /\ SameInput /\ UNCHANGED <<rd, sd, uart, keys>> /\ SameOutput

\* and write THR.  Then the key is stored, or an edited character dropped; a line, an end
\* of file or a full buffer goes to the readers.
uartputc_sync ==
  LET c == intr.key
      new == Append(line, c)
      whole == c \in {"nl", "^D"} \/ Minus(Plus(cons.e, 1), cons.r) = INPUT_BUF_SIZE
      edited == [cons EXCEPT !.buf[Slot(cons.e)] = c, !.e = Plus(@, 1)]
      drop == c \in {"^H", "^U"}
      store == c \in {"x", "nl", "^D"}
  IN /\ intr.pc = "thr"
     /\ uart' = [uart EXCEPT !.fifo = Append(@, Echo)]
     /\ cons' = CASE drop -> [cons EXCEPT !.e = Minus(@, 1)]
                  [] store /\ whole -> [edited EXCEPT !.w = edited.e]
                  [] store /\ ~whole -> edited
                  [] OTHER -> cons
     /\ line' = CASE drop -> SubSeq(line, 1, Len(line) - 1)
                  [] store -> IF whole THEN <<>> ELSE new
                  [] OTHER -> line
     /\ queue' = IF store /\ whole THEN queue \o new ELSE queue
     /\ rd' = [p \in Readers |-> IF store /\ whole /\ rd[p].pc = "asleep"
                                 THEN [rd[p] EXCEPT !.pc = "woken"] ELSE rd[p]]
     /\ IF c = "^U" THEN Handle("key") /\ UNCHANGED conslock
                    ELSE Handle("getc") /\ conslock' = NoOwner
     /\ UNCHANGED <<sd, keys>> /\ SameOutput
-----------------------------------------------------------------------------
(* Output: consolewrite(), uartputc(), uartstart() *)

TxFull == tx.w = tx.r + UART_TX_BUF_SIZE

\* uartputc() gets uart_tx_lock: it sleeps on a full ring, or adds a character and calls
\* uartstart().
uartputc(p) ==
  /\ sd[p] \in {"away", "woken"} /\ txlock = NoOwner
  /\ sd[p] = "away" => keys + out < MaxBytes
  /\ IF TxFull
     THEN sd' = [sd EXCEPT ![p] = "asleep"] /\ UNCHANGED <<tx, txlock, out>>
     ELSE /\ out' = out + 1
          /\ tx' = [tx EXCEPT !.buf[tx.w % UART_TX_BUF_SIZE] = out + 1, !.w = @ + 1]
          /\ sd' = [sd EXCEPT ![p] = "start"] /\ txlock' = p
  /\ SameInput /\ UNCHANGED <<rd, uart, intr, keys, gone>>

\* The pc of the process or handler that has uart_tx_lock.
AtTx(x, pc) == IF x = Handler THEN intr.pc = pc ELSE sd[x] = pc
ToTx(x, pc) == IF x = Handler
               THEN Handle(pc) /\ UNCHANGED sd
               ELSE sd' = [sd EXCEPT ![x] = pc] /\ UNCHANGED intr
\* Mutant: nobody is woken.
Awake_none(pcs) == pcs

\* wakeup(&uart_tx_r)
Awake(pcs) == [p \in Senders |-> IF pcs[p] = "asleep" THEN "woken" ELSE pcs[p]]

\* Mutant: only the interrupt wakes writers, when the ring has become empty.
uartstart_empty(x) ==
  /\ txlock = x /\ AtTx(x, "start")
  /\ IF tx.w = tx.r \/ ~TxIdle
     THEN /\ txlock' = NoOwner /\ UNCHANGED tx
          /\ IF x = Handler
             THEN Handle("away") /\ sd' = IF tx.w = tx.r THEN Awake(sd) ELSE sd
             ELSE ToTx(x, "away")
     ELSE /\ tx' = [tx EXCEPT !.r = @ + 1] /\ ToTx(x, "write") /\ UNCHANGED txlock
  /\ SameInput /\ UNCHANGED <<rd, uart, keys, out, gone>>

\* uartstart(): return if the ring is empty or the device busy; otherwise take a
\* character and wake the writers.
uartstart(x) ==
  /\ txlock = x /\ AtTx(x, "start")
  /\ IF tx.w = tx.r \/ ~TxIdle
     THEN ToTx(x, "away") /\ txlock' = NoOwner /\ UNCHANGED tx
     ELSE /\ tx' = [tx EXCEPT !.r = @ + 1] /\ UNCHANGED txlock
          /\ IF x = Handler
             THEN Handle("write") /\ sd' = Awake(sd)
             ELSE sd' = [Awake(sd) EXCEPT ![x] = "write"] /\ UNCHANGED intr
  /\ SameInput /\ UNCHANGED <<rd, uart, keys, out, gone>>

\* It writes THR and tries again.
uartstart_thr(x) ==
  /\ txlock = x /\ AtTx(x, "write") /\ ToTx(x, "start")
  /\ uart' = [uart EXCEPT !.fifo = Append(@, tx.buf[(tx.r - 1) % UART_TX_BUF_SIZE])]
  /\ SameInput /\ UNCHANGED <<rd, keys, tx, txlock, out, gone>>

\* Everything has been typed and sent, and nobody is left but readers asleep.
TDone == keys + out >= MaxBytes /\ gone = out /\ UNCHANGED tvars

TNext ==
  \/ \E p \in Readers : \/ consoleread_sleep(p) \/ consoleread_char(p) \/ consoleread_end(p)
                        \/ consoleread_woken(p) \/ \E n \in Wants : consoleread(p, n)
  \/ \E c \in Keys : type(c)
  \/ transmit \/ uartintr \/ uartgetc \/ consoleintr \/ uartputc_lsr \/ uartputc_sync
  \/ \E p \in Senders : uartputc(p)
  \/ \E x \in Senders \cup {Handler} : uartstart(x) \/ uartstart_thr(x)
  \/ TDone

TSpec == TInit /\ [][TNext]_tvars

\* What the code and the device owe a process that waits to write: the device sends, its
\* interrupt is delivered, and code goes on.  Bytes are bounded, so that no lock and no busy
\* device is found taken for ever.  Nobody owes a key, a read or another character.
TSend(p) == sd[p] = "woken" /\ uartputc(p)
THandler == uartintr \/ uartgetc \/ consoleintr \/ uartputc_lsr \/ uartputc_sync
TStart(x) == uartstart(x) \/ uartstart_thr(x)
-----------------------------------------------------------------------------
(* Properties *)

TTypeOK ==
  /\ {cons.r, cons.w, cons.e} \subseteq 0 .. WRAP - 1
  /\ conslock \in Readers \cup {NoOwner, Handler} /\ txlock \in Senders \cup {NoOwner, Handler}
  /\ {tx.r, tx.w, out, gone} \subseteq 0 .. MaxBytes + Cardinality(Senders)

Ring(from, to) == [k \in 1 .. Minus(to, from) |-> cons.buf[Slot(Plus(from, k - 1))]]

\* Input: between cons.r and cons.w the buffer has what was handed to readers and not
\* read, between cons.w and cons.e the line being edited, whatever the indices wrap to:
\* editing never reaches back over cons.w and typing never overruns cons.r.  A full
\* buffer belongs to the readers, so that typing can go on; nobody sleeps in
\* consoleread() while there is something to read.
LineDiscipline ==
  /\ Ring(cons.r, cons.w) = queue /\ Ring(cons.w, cons.e) = line
  /\ Len(line) < INPUT_BUF_SIZE
  /\ \A p \in Readers : rd[p].pc = "asleep" => queue = <<>>

\* The characters of processes on their way: in the FIFO, in a register of uartstart(),
\* in the ring.
OnTheWay == SelectSeq(uart.fifo, LAMBDA b : b # Echo)
            \o (IF \E x \in Senders \cup {Handler} : txlock = x /\ AtTx(x, "write")
                THEN <<tx.buf[(tx.r - 1) % UART_TX_BUF_SIZE]>> ELSE <<>>)
            \o [k \in 1 .. tx.w - tx.r |-> tx.buf[(tx.r + k - 1) % UART_TX_BUF_SIZE]]

\* Output: every character of a process is sent once and in order, although echo and
\* uartstart() on two CPUs may both find the device idle: then it takes both bytes, and
\* more than two never meet.  A writer sleeps only while the ring is full, with an
\* interrupt to come or somebody sending.
TxInOrder ==
  /\ OnTheWay = [k \in 1 .. out - gone |-> gone + k]
  /\ Len(uart.fifo) <= FIFO
  /\ (\E p \in Senders : sd[p] = "asleep") =>
       TxFull /\ (uart.irq \/ uart.fifo # <<>> \/ txlock # NoOwner \/ intr.pc # "away")

\* A process that sleeps in uartputc() on a full ring gets its character into the ring.
WriterServed == \A p \in Senders : sd[p] = "asleep" ~> sd[p] = "start"
=============================================================================
