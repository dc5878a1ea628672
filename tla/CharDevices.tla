---------------------------- MODULE CharDevices ----------------------------
(***************************************************************************)
(* Character input and output of the Pintos kernel: the interrupt queues   *)
(* (devices/intq.c), the serial port (devices/serial.c), the input buffer  *)
(* (devices/input.c), the keyboard (devices/kbd.c), the console            *)
(* (lib/kernel/console.c), and debug_panic (lib/kernel/debug.c), which     *)
(* prints with interrupts off.                                             *)
(*                                                                         *)
(* Kernel threads print through the console's recursive lock and read the  *)
(* input buffer; the serial port and the keyboard interrupt them.  What    *)
(* runs with interrupts off is one step, up to where a thread blocks.      *)
(***************************************************************************)
EXTENDS Integers, Sequences, FiniteSets, TLC

CONSTANTS Writer, Reader, Nobody,
          INTQ_BUFSIZE,
          MaxBytes,       \* bytes a writer prints in all
          MaxNest,        \* depth of a thread's prints within prints
          PanicBytes,     \* bytes printed by debug_panic
          Codes,          \* scancodes: [key, release]
          MaxInput        \* key events and serial bytes

ASSUME CharDevicesAssumption ==
  /\ INTQ_BUFSIZE \in Nat \ {0, 1} /\ MaxBytes \in Nat /\ MaxNest \in Nat
  /\ PanicBytes \in Nat \ {0} /\ MaxInput \in Nat
  /\ Nobody \notin Writer \cup Reader /\ Writer \cap Reader = {} /\ IsFiniteSet(Reader)

VARIABLES txq, buffer,    \* struct intq: the serial port's and the input's
          ier,            \* interrupt enable register
          thre,           \* the port takes a byte for transmission
          rbr,            \* the bytes received and not read: at most one
          console,        \* [holder, depth, use_lock]
          dev_pc,         \* of each thread
          nest, left,     \* of each writer: prints it is in, bytes it has left
          kbd,            \* modifier keys down, as the handler knows; caps lock
          level,          \* of debug_panic: "no", "printing", "halted"
          panic_left,
          inputs,         \* number of input events
          accepted, sent, \* history: bytes put on the port's queue; sent
          keys, got,      \* history: characters put into the buffer; read
          down,           \* history: modifier keys that are held down
          failed          \* history: an ASSERT of intq.c does not hold

devVars == <<txq, buffer, ier, thre, rbr, console, dev_pc, nest, left, kbd,
             level, panic_left, inputs, accepted, sent, keys, got, down, failed>>
inputHistory == <<kbd, inputs, keys, down>>

-----------------------------------------------------------------------------
(* intq.c *)

intq_init == [buf |-> [i \in 0 .. INTQ_BUFSIZE - 1 |-> Nobody], head |-> 0,
              tail |-> 0, waiter |-> Nobody, lock |-> Nobody]
next(pos) == (pos + 1) % INTQ_BUFSIZE
intq_empty(q) == q.head = q.tail

\* The buffer has no end.
intq_full_never(q) == FALSE

intq_full(q) == next(q.head) = q.tail

\* signal resets the waiter, which Signalled then finds unblocked.
Taken(q) == [q EXCEPT !.tail = next(@), !.waiter = Nobody]
Put(q, byte) == [q EXCEPT !.buf = [@ EXCEPT ![q.head] = byte], !.head = next(@),
                          !.waiter = Nobody]
First(q) == q.buf[q.tail]
Signalled(pc, q) == IF q.waiter = Nobody THEN pc ELSE [pc EXCEPT ![q.waiter] = "woken"]

QueueOf(q) == [i \in 1 .. (q.head - q.tail) % INTQ_BUFSIZE |->
                 q.buf[(q.tail + i - 1) % INTQ_BUFSIZE]]

-----------------------------------------------------------------------------
(* serial.c *)

\* The transmit interrupt is left as it is.
write_ier_receive(tx, in, old) == [old EXCEPT !.recv = ~intq_full(in)]

\* The receive interrupt, once off, is not switched on again.
write_ier_sticky(tx, in, old) ==
  [xmit |-> ~intq_empty(tx), recv |-> old.recv /\ ~intq_full(in)]

write_ier(tx, in, old) == [xmit |-> ~intq_empty(tx), recv |-> ~intq_full(in)]

DevInit ==
  /\ txq = intq_init /\ buffer = intq_init
  /\ ier = write_ier(intq_init, intq_init, [xmit |-> FALSE, recv |-> FALSE])
  /\ thre = TRUE /\ rbr = <<>>
  /\ console = [holder |-> Nobody, depth |-> 0, use_lock |-> TRUE]
  /\ dev_pc = [t \in Writer \cup Reader |-> "run"]
  /\ nest = [t \in Writer |-> 0] /\ left = [t \in Writer |-> MaxBytes]
  /\ kbd = [keys |-> {}, caps_lock |-> FALSE]
  /\ level = "no" /\ panic_left = PanicBytes /\ inputs = 0
  /\ accepted = <<>> /\ sent = <<>> /\ keys = <<>> /\ got = <<>> /\ down = {}
  /\ failed = FALSE

Running == level = "no"

-----------------------------------------------------------------------------
(* console.c *)

\* The depth is not counted.
acquire_console_flat(t) ==
  /\ console.holder \in {Nobody, t}
  /\ console' = [console EXCEPT !.holder = t]

acquire_console(t) ==
  \/ console.holder = t /\ console' = [console EXCEPT !.depth = @ + 1]
  \/ console.holder = Nobody /\ console' = [console EXCEPT !.holder = t]

release_console(t) ==
  console' = IF console.depth > 0 THEN [console EXCEPT !.depth = @ - 1]
                                  ELSE [console EXCEPT !.holder = Nobody]

\* vprintf, puts, putbuf and putchar acquire, put characters and release.
BeginPrint(t) ==
  /\ Running /\ dev_pc[t] = "run" /\ nest[t] < MaxNest /\ left[t] > 0
  /\ acquire_console(t)
  /\ nest' = [nest EXCEPT ![t] = @ + 1]
  /\ UNCHANGED <<txq, buffer, ier, thre, rbr, dev_pc, left, level, panic_left,
                 accepted, sent, got, failed, inputHistory>>

EndPrint(t) ==
  /\ Running /\ dev_pc[t] = "run" /\ nest[t] > 0
  /\ nest[t] = 1 => left[t] = 0
  /\ release_console(t)
  /\ nest' = [nest EXCEPT ![t] = @ - 1]
  /\ UNCHANGED <<txq, buffer, ier, thre, rbr, dev_pc, left, level, panic_left,
                 accepted, sent, got, failed, inputHistory>>

\* putchar_have_lock: serial_putc with interrupts on, again from the loop's
\* test after the thread was woken and released the queue's lock.
serial_putc(t) ==
  LET q == [txq EXCEPT !.lock = IF dev_pc[t] = "woken" THEN Nobody ELSE @] IN
  /\ Running /\ nest[t] > 0 /\ left[t] > 0
  /\ \/ /\ dev_pc[t] \in {"run", "woken"} /\ ~intq_full(q)
        /\ txq' = Put(q, t)
        /\ ier' = write_ier(txq', buffer, ier)
        /\ dev_pc' = Signalled([dev_pc EXCEPT ![t] = "run"], q)
        /\ left' = [left EXCEPT ![t] = @ - 1]
        /\ accepted' = Append(accepted, t)
        /\ UNCHANGED failed
     \/ /\ dev_pc[t] \in {"run", "woken"} /\ intq_full(q)
        /\ txq' = [q EXCEPT !.lock = t, !.waiter = t]
        /\ dev_pc' = [dev_pc EXCEPT ![t] = "blocked"]
        /\ UNCHANGED <<ier, left, accepted, failed>>
  /\ UNCHANGED <<buffer, thre, rbr, console, nest, level, panic_left, sent,
                 got, inputHistory>>

-----------------------------------------------------------------------------
(* input.c *)

\* input_getc; lock_acquire waits for a reader that waits in the queue.
input_getc(t) ==
  LET q == [buffer EXCEPT !.lock = IF dev_pc[t] = "woken" THEN Nobody ELSE @] IN
  /\ Running
  /\ \/ /\ dev_pc[t] \in {"run", "woken"} /\ ~intq_empty(q)
        /\ got' = Append(got, First(q))
        /\ buffer' = Taken(q)
        /\ ier' = write_ier(txq, buffer', ier)
        /\ dev_pc' = [dev_pc EXCEPT ![t] = "run"]
        /\ UNCHANGED failed
     \/ /\ dev_pc[t] \in {"run", "woken"} /\ intq_empty(q)
        /\ IF q.lock = Nobody
           THEN /\ buffer' = [q EXCEPT !.lock = t, !.waiter = t]
                /\ dev_pc' = [dev_pc EXCEPT ![t] = "blocked"]
           ELSE buffer' = q /\ dev_pc' = [dev_pc EXCEPT ![t] = "lock"]
        /\ UNCHANGED <<ier, got, failed>>
     \/ /\ dev_pc[t] = "lock" /\ buffer.lock = Nobody
        /\ failed' = (failed \/ ~intq_empty(buffer))   \* ASSERT in wait
        /\ buffer' = [buffer EXCEPT !.lock = t, !.waiter = t]
        /\ dev_pc' = [dev_pc EXCEPT ![t] = "blocked"]
        /\ UNCHANGED <<ier, got>>
  /\ UNCHANGED <<txq, thre, rbr, console, nest, left, level, panic_left,
                 accepted, sent, inputHistory>>

\* What input_putc adds, with serial_notify; one character at most.
InputPut(tx, chars) ==
  /\ buffer' = IF chars = <<>> THEN buffer ELSE Put(buffer, Head(chars))
  /\ keys' = keys \o chars
  /\ ier' = write_ier(tx, buffer', ier)

\* serial_interrupt receives while there is room and sends while it can.
serial_interrupt ==
  LET received == IF intq_full(buffer) THEN <<>> ELSE rbr
      sends == thre /\ ~intq_empty(txq)
      tx == IF sends THEN Taken(txq) ELSE txq
      pc == IF received = <<>> THEN dev_pc ELSE Signalled(dev_pc, buffer)
  IN
  /\ Running
  /\ (ier.recv /\ rbr # <<>>) \/ (ier.xmit /\ thre)
  /\ txq' = tx
  /\ InputPut(tx, received)
  /\ rbr' = IF received = <<>> THEN rbr ELSE <<>>
  /\ thre' = (thre /\ ~sends)
  /\ sent' = IF sends THEN Append(sent, First(txq)) ELSE sent
  /\ dev_pc' = IF sends THEN Signalled(pc, txq) ELSE pc
  /\ UNCHANGED <<console, nest, left, level, panic_left, accepted, got, failed,
                 kbd, inputs, down>>

\* The port has sent its byte.
Transmitted ==
  /\ ~thre /\ level # "halted"
  /\ thre' = TRUE
  /\ UNCHANGED <<txq, buffer, ier, rbr, console, dev_pc, nest, left, level,
                 panic_left, accepted, sent, got, failed, inputHistory>>

\* A byte arrives; one that was not read yet is overrun.
Receive ==
  /\ Running /\ inputs < MaxInput
  /\ inputs' = inputs + 1
  /\ rbr' = <<[char |-> "serial", upper |-> FALSE, ctrl |-> FALSE, alt |-> FALSE, n |-> inputs]>>
  /\ UNCHANGED <<txq, buffer, ier, thre, console, dev_pc, nest, left, kbd, level,
                 panic_left, accepted, sent, keys, got, down, failed>>

-----------------------------------------------------------------------------
(* kbd.c.  Keys are the modifiers, "caps", and one of each kind of key the *)
(* handler tells apart: letters, Delete, and those that Shift changes.     *)

Modifiers == {"left_shift", "right_shift", "left_alt", "right_alt",
              "left_ctrl", "right_ctrl"}
Shift(held) == held \cap {"left_shift", "right_shift"} # {}
Alt(held) == held \cap {"left_alt", "right_alt"} # {}
Ctrl(held) == held \cap {"left_ctrl", "right_ctrl"} # {}

invariant_keymap == [letter |-> "letter", del |-> "del"]
unshifted_keymap == [digit |-> "digit", bracket |-> "["]
shifted_keymap == [digit |-> "!", bracket |-> "{"]

\* Whether a key is in one of the maps, and its character.
keymap(held) == IF Shift(held) THEN invariant_keymap @@ shifted_keymap
                ELSE invariant_keymap @@ unshifted_keymap
map_key(key, held) == key \in DOMAIN keymap(held)

\* The character for a key: letters and "[" have control characters.
Character(key, held, caps, n) ==
  LET c == keymap(held)[key]
      ctrl == Ctrl(held) /\ c \in {"letter", "["}
  IN [char |-> c, upper |-> c = "letter" /\ ~ctrl /\ Shift(held) # caps,
      ctrl |-> ctrl, alt |-> Alt(held), n |-> n]

keyboard_interrupt(code) ==
  LET c == Character(code.key, kbd.keys, kbd.caps_lock, inputs)
      typed == map_key(code.key, kbd.keys) /\ ~code.release
      reboot == typed /\ code.key = "del" /\ Ctrl(kbd.keys) /\ Alt(kbd.keys)
      chars == IF typed /\ ~intq_full(buffer) THEN <<c>> ELSE <<>>
  IN
  /\ Running /\ inputs < MaxInput
  /\ code.key \in Modifiers => (code.key \in down <=> code.release)
  /\ inputs' = inputs + 1
  /\ down' = IF code.key \notin Modifiers THEN down
             ELSE IF code.release THEN down \ {code.key} ELSE down \cup {code.key}
  /\ kbd' = CASE code.key = "caps" ->
                   [kbd EXCEPT !.caps_lock = IF code.release THEN @ ELSE ~@]
              [] code.key \in Modifiers ->
                   [kbd EXCEPT !.keys = IF code.release THEN @ \ {code.key}
                                                        ELSE @ \cup {code.key}]
              [] OTHER -> kbd
  /\ level' = IF reboot THEN "halted" ELSE level
  /\ IF chars # <<>> /\ ~reboot
     THEN InputPut(txq, chars) /\ dev_pc' = Signalled(dev_pc, buffer)
     ELSE UNCHANGED <<buffer, keys, ier, dev_pc>>
  /\ UNCHANGED <<txq, thre, rbr, console, nest, left, panic_left, accepted, sent, got, failed>>

-----------------------------------------------------------------------------
(* debug_panic *)

console_panic ==
  /\ Running
  /\ level' = "printing"
  /\ console' = [console EXCEPT !.use_lock = FALSE]
  /\ UNCHANGED <<txq, buffer, ier, thre, rbr, dev_pc, nest, left, panic_left,
                 accepted, sent, got, failed, inputHistory>>

\* serial_putc with interrupts off: a full queue sends its first byte by
\* polling.
PolledFirst(q) == IF intq_full(q) THEN <<First(q)>> ELSE <<>>

PanicPut ==
  LET polled == PolledFirst(txq)
      tx == IF polled = <<>> THEN txq ELSE Taken(txq)
  IN
  /\ level = "printing" /\ panic_left > 0
  /\ polled # <<>> => thre
  /\ thre' = (thre /\ polled = <<>>)
  /\ sent' = sent \o polled
  /\ txq' = Put(tx, "panic")
  /\ dev_pc' = Signalled(dev_pc, txq)
  /\ ier' = write_ier(txq', buffer, ier)
  /\ panic_left' = panic_left - 1
  /\ accepted' = Append(accepted, "panic")
  /\ UNCHANGED <<buffer, rbr, console, nest, left, level, got, failed, inputHistory>>

serial_flush ==
  /\ level = "printing" /\ panic_left = 0
  /\ IF intq_empty(txq)
     THEN level' = "halted" /\ UNCHANGED <<txq, sent, thre, dev_pc>>
     ELSE /\ thre
          /\ thre' = FALSE
          /\ sent' = Append(sent, First(txq))
          /\ txq' = Taken(txq)
          /\ dev_pc' = Signalled(dev_pc, txq)
          /\ UNCHANGED level
  /\ UNCHANGED <<buffer, ier, rbr, console, nest, left, panic_left, accepted,
                 got, failed, inputHistory>>

-----------------------------------------------------------------------------
WriterStep(t) == BeginPrint(t) \/ serial_putc(t) \/ EndPrint(t)
PrintNext == \E t \in Writer : WriterStep(t)
InputNext == Receive \/ (\E code \in Codes : keyboard_interrupt(code))
             \/ (\E t \in Reader : input_getc(t))
PanicNext == console_panic \/ PanicPut \/ serial_flush
DevNext == PrintNext \/ InputNext \/ PanicNext \/ serial_interrupt \/ Transmitted

DevSpec == DevInit /\ [][DevNext]_devVars

-----------------------------------------------------------------------------
(* Properties *)

(* The port sends the bytes in the order in which they were accepted, each *)
(* once, whether the interrupt handler, a full queue with interrupts off   *)
(* or the flush takes them from the queue; after a panic none is left.     *)
SerialInOrder ==
  /\ accepted = sent \o QueueOf(txq)
  /\ level = "halted" /\ panic_left = 0 => sent = accepted

(* Characters are read in the order in which they were put into the input  *)
(* buffer.                                                                 *)
InputInOrder == keys = got \o QueueOf(buffer)

(* Until the kernel panics, what one thread prints is not mixed with what  *)
(* another prints, although a print may run within a print.                *)
PrintsNotMixed ==
  \A i, j, k \in DOMAIN accepted :
    i < j /\ j < k /\ accepted[i] = accepted[k] /\ accepted[k] # "panic"
      => accepted[j] \in {accepted[i], "panic"}

(* A byte on the transmit queue is sent: the interrupt enable register     *)
(* follows the queue whoever changes it, so no byte waits for an interrupt *)
(* that is switched off.                                                   *)
OutputDrains == ~intq_empty(txq) ~> (intq_empty(txq) \/ level = "halted")

(* A reader that waits while a character is in the buffer or in the port   *)
(* gets on: the character is put into the buffer, and wakes it.            *)
InputArrives ==
  \A t \in Reader :
    dev_pc[t] = "blocked" /\ (rbr # <<>> \/ ~intq_empty(buffer))
      ~> dev_pc[t] # "blocked" \/ ~Running

(* The assertion in intq.c's wait holds: a lone reader starts to wait only *)
(* while the queue is empty, although it found it so before it took the    *)
(* lock.                                                                   *)
WaitConditionHolds == Cardinality(Reader) <= 1 => ~failed

(* Bytes keep their order on their way through the interrupt queues and    *)
(* the console's lock, out and in, and no wait fails.                      *)
BytesInOrder == SerialInOrder /\ PrintsNotMixed /\ InputInOrder /\ WaitConditionHolds

(* No byte gets stuck: the transmit queue drains, whoever fills it, and a  *)
(* waiting reader gets the characters that have arrived.                   *)
BytesMove == OutputDrains /\ InputArrives
=============================================================================
